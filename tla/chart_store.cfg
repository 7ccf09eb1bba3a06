SPECIFICATION Spec
CONSTANTS
    None = None
    Symbols = {a, b}
    Periods = {p}
    LiveLoaders = {live}
    WindowLoaders = {window}
    PageSize = 2
    MaxTime = 5
    MaxResets = 4
    Studies = {ma, news}
    Async = {news}
    MaxVersion = 1
    MaxEdits = 3
    Candle = candle
    Extra = {A, B}
    XAxis = axis
    Totals = {14, 24}
    XAxisHeight = 3
    SeparatorSize = 1
    MinHeight = 2
    DefaultHeight = 5
    Drags <- MCDrags
    MaxMoves = 4
    Tickers = {"a", "b", "c"}
    MarketOf <- MCMarket
    Spans = {5, 60}
    Count = 3
    Now = 1007
    MainNames = {ma}
    SubNames = {vol}
    MaxChanges = 3
    MaxPages = 3
    BarValues <- MCBars
    P = 2
    Q = 3
    R = 2
    Precision = 36
    MaxCandles = 6
INVARIANTS DataExact StreamsFollow QuietMeansPainted PanesFillChart ProSound
    IndicatorsSound
PROPERTIES FirstPageShown ChangesReachScreen
CHECK_DEADLOCK FALSE
