SPECIFICATION FairSpec
CONSTANTS
    Requests <- MCRequests
    UintMax = 65535
INVARIANTS
    TimingIsLegal
    NoCloserSplit
    FirstOfEquals
PROPERTY
    Terminates
CHECK_DEADLOCK FALSE
