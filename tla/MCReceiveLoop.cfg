SPECIFICATION FairSpec
CONSTANTS
    Callbacks = {c1, c2}
    None = None
INVARIANTS
    NeverTerminates
    StopIsComplete
    CallbackOfThisStart
    OneLateFrame
PROPERTIES
    TransportOutlivesRead
    CallsReturn
    FrameIsDelivered
CHECK_DEADLOCK FALSE
