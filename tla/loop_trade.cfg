CONSTANTS
    s1 = s1
    s2 = s2
    z1 = z1
    z2 = z2
    Symbols = {s1}
    WATCHLIST <- OneCoin
    ScanResults <- UpToTwoZones
    None = None
    MAX_AT_RISK_SLOTS = 2
    MaxEntries = 2
    MaxQueue = 2
SPECIFICATION FairSpec
INVARIANTS
    TrackedProtected
PROPERTIES
    ImplementsWatches
    BodySLCloses
