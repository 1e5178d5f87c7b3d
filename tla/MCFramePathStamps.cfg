SPECIFICATION Spec
CONSTANTS
    Setups <- MCStamped
    SffIds = 2
    EffIds = 4
    Timeouts = {2}
    StampWrap = 3
    MaxClock = 4
INVARIANT
    TimestampsOrdered
