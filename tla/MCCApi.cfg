SPECIFICATION FairSpec
CONSTANTS
    Callbacks = {c1, c2}
    None = None
INVARIANTS
    HandleOutlivesThread
    CallsAcceptedPair
PROPERTY
    ApiCallsReturn
CHECK_DEADLOCK FALSE
