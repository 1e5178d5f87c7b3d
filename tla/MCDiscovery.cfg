SPECIFICATION Spec
CONSTANTS
    first = first
    second = second
    other = other
    Units = {first, second, other}
    Attributes <- WithSerials
    Ports = {1, 2}
    KnownIds = {"gs"}
    Selectors <- Anything
    None = None
INVARIANT SerialPinsUnit
PROPERTIES NotFoundMeansAway BusyStaysListed PickedFromWholeList
