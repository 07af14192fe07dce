SPECIFICATION Spec
CONSTANTS
    Campaigns = {k1, k2}
    US = US
    GB = GB
    Countries = {US, GB}
    Unknown = Unknown
    home = home
    abroad = abroad
    paper = paper
    lan = lan
    Public = {home, abroad, paper}
    Other = {lan}
    NoAddress = NoAddress
    GeoIp <- MCGeoIp
    GeoTargets <- MCGeoTargets
    OsTargets <- MCOsTargets
    Callers <- MCCallers
    Tasks = {t1}
    Faults = {"redis", "mongo", "geoip", "llm", "copycache"}
SYMMETRY MCSymmetry
INVARIANTS
    TypeOK
    TargetingFailsClosed
    CapHolds
    SlotNotBlanked
    TraceAccountsForAll
    CopyFailsAlone
