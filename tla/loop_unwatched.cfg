CONSTANTS
    s1 = s1
    s2 = s2
    z1 = z1
    z2 = z2
    Symbols = {s1}
    WATCHLIST <- OneCoin
    ScanResults <- OneZone
    None = None
    MAX_AT_RISK_SLOTS = 1
    MaxEntries = 1
    MaxQueue = 2
SPECIFICATION Spec
INVARIANTS
    LiveTradeWatched
