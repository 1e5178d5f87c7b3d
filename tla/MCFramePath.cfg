SPECIFICATION FairSpec
CONSTANTS
    Setups <- MCSetups
    SffIds = 2
    EffIds = 4
    Timeouts = {0, 4}
    StampWrap = 3
    MaxClock = 1
INVARIANTS
    FrameSurvives
    EchoIsOwnAndTagged
    InOrderWithoutGaps
    ReadsWithinDeadline
PROPERTY
    ReceiveReturns
