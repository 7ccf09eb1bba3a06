SPECIFICATION Spec
CONSTANTS
    None = None
    Places = {"main", "yAxis", "none"}
    Fingers = {f1, f2}
    FlingSteps = 2
    MaxEvents = 5
    Ids = {o1, o2}
    Kinds = {"horizontal", "vertical", "price"}
    Panes = {candle, volume}
    Candle = candle
    Bar <- MCBar
    Points <- MCPoints
    Near = 2
    MaxDrawEvents = 5
    Unit = 8
    Spaces = {2, 4}
    DefaultSpace = 4
    DefaultOffset = 8
    Widths = {9, 12}
    Pages = {2, 5}
    Drags <- MCDrags
    Scales <- MCScales
    Cursors = {3, 13}
    Limits = {0, 6}
    MaxBars = 8
    MaxMoves = 5
    Parts = 1600
    Values = {0, 3, 10}
    Mins = {None, 0}
    Maxs = {None, 10}
    MinSpan = 1
    Heights = {40, 90}
    TextSize = 4
    Ys = {2, 4, 8}
    Bars = {3, 5}
    TextWidth = 13
    Shifts <- MCShifts
    MaxSteps = 4
    Months = 3
    Years = 2
    Days = 15
    Starts <- MCStarts
    Spans = {1, 2}
    Gaps = {1, 2, 5}
    FirstDays = {0, 2, 6}
    MaxTimes = 4
    Reach = 3
    Tools <- MCTools
    Columns = {0, 8, 16}
    Rows = {0, 4, 16}
    Sheet = 16
    Levels = {0, 1, 2}
    Whole = 2
    Short <- MCShort
    Inds <- MCInds
    LastBar = 2
    NameWidth <- MCNameWidth
    LegendsOf <- MCLegendsOf
    IconsOf <- MCIconsOf
    Offset <- MCOffset
    Title <- MCTitle
    Text <- MCText
    RectStyle <- MCRectStyle
    Rooms = {30, 70}
    PaneHeight = 60
    PointerSpots <- MCPointerSpots
    Asides <- MCAsides
    Lasts = {14, 33}
    MaxActs = 4
INVARIANTS DrawingsKept ViewIsDrawn AxesSound IndexOfTimeOfIndex HitAtItsPoints TooltipsSound
PROPERTIES OneGesture FlingsEnd ViewStays
CHECK_DEADLOCK FALSE
