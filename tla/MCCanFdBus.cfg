SPECIFICATION Spec
CONSTANTS
    Buses = {b1}
    a1 = a1
    a2 = a2
    Adapters = {a1, a2}
    None = None
    Configs <- MCConfigs
    Feature <- MCFeature
    ReportsExt <- MCReportsExt
    NominalRates <- MCNominal
    DataRates <- MCData
INVARIANTS
    StartedIsOpen
    ModeAgreement
    WithinCapabilities
