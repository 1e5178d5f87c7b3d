SPECIFICATION FairSpec
CONSTANTS
    Callbacks = {c1, c2}
    Threads = {t1, t2}
    Adapters = {fd, classic}
    FdAdapters = {fd}
    None = None
INVARIANTS
    StopIsComplete
    ChannelsAsBelieved
PROPERTIES
    NothingBeginsAfterStop
    FdOnlyAsAdvertised
    CallsReturn
