CONSTANTS
    ASNs = {a1, a2, a3}
    Types = {"mobile", "isp", "hosting", "vpn_proxy"}
    Modifier <- Modifiers
    Counts = {2, 20, 100}
    Places = {"moscow", "mytishchi", "spb", "omsk", "berlin", "hamburg", "paris", "france"}
    CountryOf <- Country
    CityOf <- City
    AgglomerationOf <- Agglomeration
    None = None
    FarApart <- Far
    Spreads <- Sets
    MonitorAt = 25
    WarnAt = 50
    SoftAt = 60
    TempAt = 75
    HardAt = 85
SPECIFICATION Spec
INVARIANTS
    TypeOK
    BlockNeedsAllSignals
    HighRiskWatched
SYMMETRY Symmetry
