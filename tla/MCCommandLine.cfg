SPECIFICATION FairSpec
CONSTANTS
    Invocations <- MCInvocations
    LastSff = 7
    LastEff = 31
    MaxSignals = 2
    Nothing = Nothing
INVARIANTS
    QuietAtExit
    SendsWhatWasAsked
PROPERTY
    EndsAfterSignal
CHECK_DEADLOCK FALSE
