CONSTANTS
    Symbols = {SOL}
    Prices = {1, 2, 3}
    ZoneArgs <- BothZones
    TP1Args <- BothTP1
    SLArgs <- BothSL
    None = None
    MaxQueue = 3
    MaxCallbacks = 3
SPECIFICATION FairSpec
INVARIANTS
    WatchesFollowFeed
PROPERTIES
    OnlyBodyCloseFires
    ImplementsWatches
    BodySLEventuallyFires
