SPECIFICATION SelfStopSpec
CONSTANTS
    Callbacks = {c1, c2}
    None = None
INVARIANT
    NeverTerminates
CHECK_DEADLOCK FALSE
