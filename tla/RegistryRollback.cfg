SPECIFICATION SpecAll
CONSTANTS
    Records = {r1, r2}
    Operations = {o1, o2}
    MaxLog = 2
    None = None
    Versions = {0, 1}
    Snapshot <- MCSnapshot
    SystemMap <- MCSystemMap
    Configurations <- MCConfigurations
    Offers <- MCOffers
    Harms <- MCHarms
    Exposures = {"link_safety"}
    Native <- MCNative
    Overlay <- Local
    Requested = {"n", "m"}
SYMMETRY Symmetry
INVARIANTS
    TypeOK
    OneBodyPerVersion
    ServesPastCheckpoint
    CoveredClientServed
    NamesKeepTheirMeaning
    NothingNewUnseen
    ProfileKeepsItsWord
