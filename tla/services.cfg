SPECIFICATION Spec
CONSTANTS
    None = None
    Feeds = {sol, btc, eth}
    Symbols = {"sol", "btc", "apt"}
    OnJupiter = {"sol", "btc"}
    Bump <- MCBump
    MaxEntries = 2
    Users = {u, v}
    Sockets = {s1, s2, s3}
    Ttl = 1
    Limit = 2
    MaxTickets = 3
INVARIANTS FeedsFlow TradesStayWhole LiveSound
PROPERTIES RecoversFromErrors
CHECK_DEADLOCK FALSE
