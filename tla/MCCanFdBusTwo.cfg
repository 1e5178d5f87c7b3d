SPECIFICATION Spec
CONSTANTS
    Buses = {b1, b2}
    a1 = a1
    a2 = a2
    Adapters = {a1}
    None = None
    Configs <- MCFewConfigs
    Feature <- MCFeature
    ReportsExt <- MCReportsExt
    NominalRates <- MCNominal
    DataRates <- MCData
INVARIANTS
    ExclusiveHandle
    QuietWhenReleased
PROPERTY
    ImplementsLifecycle
SYMMETRY BusSymmetry
