---------------------------- MODULE MCChartHand ----------------------------
(***************************************************************************)
(* What is done to the chart by hand and where it is done, seven parts     *)
(* that share no variable checked in one run: mouse and fingers, the       *)
(* drawings and their shapes, the bars that are scrolled and zoomed, the   *)
(* times they have, the axes that are dragged, and the legends with their  *)
(* icons. `part` says which one a behaviour is about, the variables of the *)
(* others stay None.                                                       *)
(***************************************************************************)
EXTENDS Integers, Sequences, TLC

CONSTANTS
    None, Places, Fingers, FlingSteps, MaxEvents,
    Ids, Kinds, Panes, Candle, Bar, Points, Near, MaxDrawEvents,
    Unit, Spaces, DefaultSpace, DefaultOffset, Widths, Pages, Drags, Scales,
    Cursors, Limits, MaxBars, MaxMoves,
    Parts, Values, Mins, Maxs, MinSpan, Heights, TextSize, Ys, Bars, TextWidth, Shifts,
    MaxSteps,
    Months, Years, Days, Starts, Spans, Gaps, FirstDays, MaxTimes, Reach,
    Tools, Columns, Rows, Sheet, Levels, Whole, Short,
    Inds, LastBar, NameWidth, LegendsOf, IconsOf, Offset, Title, Text, RectStyle,
    Rooms, PaneHeight, PointerSpots, Asides, Lasts, MaxActs

VARIABLES
    part,
    mouse, fingers, touch, pinch, scroll, pressed, hand, flings, crosshair, destroyed,
    event, moved, events,
    obj, list, progress, hover, clicked, grabbed, grip, bar, edits,
    count, space, diff, startDiff, total, role, minBars, maxOffset, offset, range,
    cross, moves,
    seen, limits, height, auto, waiting, shown, built, ticks, press, view, steps,
    period, times,
    tool, points,
    style, paneWidth, visible, guide, realX, painted, due, sized, active, pointer, chosen,
    acts

Hand   == INSTANCE Gestures
Draw   == INSTANCE Drawing WITH pressed <- grabbed, events <- edits, MaxEvents <- MaxDrawEvents
Scale  == INSTANCE TimeScale WITH crosshair <- cross
Rulers == INSTANCE Axes WITH Unit <- Parts, range <- shown
Line   == INSTANCE Timeline WITH MaxBars <- MaxTimes
Shape  == INSTANCE Shapes WITH Xs <- Columns, Ys <- Rows, Width <- Sheet, Height <- Sheet
Tips   == INSTANCE Tooltips WITH Widths <- Rooms, Height <- PaneHeight, Points <- PointerSpots,
                                 MaxEvents <- MaxActs, width <- paneWidth, cross <- guide, real <- realX,
                                 clicked <- chosen, events <- acts

ASSUME ConstantsAssumption ==
    /\ Draw!DrawingAssumption /\ Scale!UnitAssumption /\ Rulers!AxesAssumption
    /\ Line!CalendarAssumption /\ Line!BarsAssumption /\ Shape!GridAssumption
    /\ Tips!OwnersAssumption /\ Tips!LegendsAssumption /\ Tips!StylesAssumption

handVars == <<mouse, fingers, touch, pinch, scroll, pressed, hand, flings, crosshair,
              destroyed, event, moved, events>>
drawVars == <<obj, list, progress, hover, clicked, grabbed, grip, bar, edits>>
scaleVars == <<count, space, diff, startDiff, total, role, minBars, maxOffset, offset,
               range, cross, moves>>
rulerVars == <<seen, limits, height, auto, waiting, shown, built, ticks, press, view, steps>>
lineVars == <<period, times>>
shapeVars == <<tool, points>>
tipVars == <<style, paneWidth, visible, guide, realX, painted, due, sized, active, pointer,
             chosen, acts>>
vars == <<part, handVars, drawVars, scaleVars, rulerVars, lineVars, shapeVars, tipVars>>

NoHand ==
    /\ mouse = None /\ fingers = None /\ touch = None /\ pinch = None /\ scroll = None
    /\ pressed = None /\ hand = None /\ flings = None /\ crosshair = None
    /\ destroyed = None /\ event = None /\ moved = None /\ events = None
NoDraw ==
    /\ obj = None /\ list = None /\ progress = None /\ hover = None /\ clicked = None
    /\ grabbed = None /\ grip = None /\ bar = None /\ edits = None
NoScale ==
    /\ count = None /\ space = None /\ diff = None /\ startDiff = None
    /\ total = None /\ role = None /\ minBars = None /\ maxOffset = None
    /\ offset = None /\ range = None /\ cross = None /\ moves = None
NoRulers ==
    /\ seen = None /\ limits = None /\ height = None /\ auto = None /\ waiting = None
    /\ shown = None /\ built = None /\ ticks = None /\ press = None /\ view = None
    /\ steps = None
NoLine == period = None /\ times = None
NoShape == tool = None /\ points = None
NoTips ==
    /\ style = None /\ paneWidth = None /\ visible = None /\ guide = None /\ realX = None
    /\ painted = None /\ due = None /\ sized = None /\ active = None /\ pointer = None /\ chosen = None
    /\ acts = None

Init ==
    \/ part = "hand"   /\ Hand!Init /\ NoDraw /\ NoScale /\ NoRulers /\ NoLine
       /\ NoShape /\ NoTips
    \/ part = "draw"   /\ NoHand /\ Draw!Init /\ NoScale /\ NoRulers /\ NoLine
       /\ NoShape /\ NoTips
    \/ part = "scale"  /\ NoHand /\ NoDraw /\ Scale!Init /\ NoRulers /\ NoLine
       /\ NoShape /\ NoTips
    \/ part = "rulers" /\ NoHand /\ NoDraw /\ NoScale /\ Rulers!Init /\ NoLine
       /\ NoShape /\ NoTips
    \/ part = "line"   /\ NoHand /\ NoDraw /\ NoScale /\ NoRulers /\ Line!Init
       /\ NoShape /\ NoTips
    \/ part = "shape"  /\ NoHand /\ NoDraw /\ NoScale /\ NoRulers /\ NoLine
       /\ Shape!Init /\ NoTips
    \/ part = "tips"   /\ NoHand /\ NoDraw /\ NoScale /\ NoRulers /\ NoLine /\ NoShape
       /\ Tips!Init

InHand(A) ==
    part = "hand" /\ A
        /\ UNCHANGED <<part, drawVars, scaleVars, rulerVars, lineVars, shapeVars, tipVars>>
InDraw(A) ==
    part = "draw" /\ A
        /\ UNCHANGED <<part, handVars, scaleVars, rulerVars, lineVars, shapeVars, tipVars>>
InScale(A) ==
    part = "scale" /\ A
        /\ UNCHANGED <<part, handVars, drawVars, rulerVars, lineVars, shapeVars, tipVars>>
InRulers(A) ==
    part = "rulers" /\ A
        /\ UNCHANGED <<part, handVars, drawVars, scaleVars, lineVars, shapeVars, tipVars>>
InLine(A) ==
    part = "line" /\ A
        /\ UNCHANGED <<part, handVars, drawVars, scaleVars, rulerVars, shapeVars, tipVars>>
InShape(A) ==
    part = "shape" /\ A
        /\ UNCHANGED <<part, handVars, drawVars, scaleVars, rulerVars, lineVars, tipVars>>
InTips(A) ==
    part = "tips" /\ A
        /\ UNCHANGED <<part, handVars, drawVars, scaleVars, rulerVars, lineVars, shapeVars>>

Next ==
    \/ InHand(Hand!Next) \/ InDraw(Draw!Next) \/ InScale(Scale!Next)
    \/ InRulers(Rulers!Next) \/ InLine(Line!Next) \/ InShape(Shape!Next)
    \/ InTips(Tips!Next)

Spec == Init /\ [][Next]_vars /\ WF_vars(InHand(Hand!Frame))

-----------------------------------------------------------------------------
\* A button or finger that moved far or was held does not click, and fingers
\* pinch or drag (Gestures).
OneGesture == [][part = "hand" => Hand!OneGesture]_vars
\* Every fling comes to an end (Gestures).
FlingsEnd == <>[](part = "hand" => Hand!Calm)
\* A drawing is kept in one place, drawn by its level and stays aligned (Drawing).
DrawingsKept == part = "draw" => Draw!DrawingsKept
\* Every bar on the drawing area is drawn, and the crosshair names the bar that
\* is under it now (TimeScale).
ViewIsDrawn == part = "scale" => Scale!ViewIsDrawn /\ Scale!CrosshairFresh
\* Pages of bars move nothing on the screen, a zoom keeps its anchor (TimeScale).
ViewStays == [][part = "scale" => Scale!StaysPut /\ Scale!AnchorStays]_vars
\* The axes show the values they stand for, however they were dragged (Axes).
AxesSound == part = "rulers" => Rulers!AxesSound
\* The index of an index's time is that index (Timeline).
IndexOfTimeOfIndex == part = "line" => Line!IndexOfTimeOfIndex
\* A finished drawing is hit where it was put (Shapes).
HitAtItsPoints == part = "shape" => Shape!HitAtItsPoints
\* Names, values and icons do not lie on each other, the rectangle stays clear
\* of the crosshair's line, and a lit icon stays where it can be pressed (Tooltips).
TooltipsSound == part = "tips" => Tips!TooltipsSound

-----------------------------------------------------------------------------
MCBar == 0 :> [open |-> 3, high |-> 6, low |-> 1, close |-> 4]
MCPoints == {[t |-> 0, v |-> 0], [t |-> 1, v |-> 5]}
MCDrags == {-5, 7}
MCScales == {10, -5}
MCShifts == {-2, 3}
MCStarts == <<0, 3, 6, 8, 10, 13>>
Legend(t, v) == [title |-> t, value |-> v]
Icon(i, p) == [id |-> i, position |-> p, size |-> 4]
MCInds == <<"ma", "vol">>
MCNameWidth == [ma |-> 9, vol |-> 0, candle |-> 14]
MCLegendsOf ==
    [candle |-> <<<<Legend(4, 6), Legend(4, 9)>>,
                  <<Legend(4, 16), Legend(4, 3), Legend(4, 3)>>>>,
     ma     |-> <<<<Legend(3, 5), Legend(3, 11)>>, <<Legend(3, 8), Legend(3, 8)>>>>,
     vol    |-> <<<<>>, <<Legend(3, 12)>>>>]
MCIconsOf ==
    [ma     |-> <<Icon("eye", "left"), Icon("cog", "middle"), Icon("x", "right"),
                  Icon("y", "right")>>,
     vol    |-> <<Icon("eye", "right")>>,
     candle |-> <<Icon("more", "middle")>>]
MCOffset == [left |-> 2, top |-> 3, right |-> 2, bottom |-> 3]
MCTitle == [left |-> 1, top |-> 1, right |-> 1, bottom |-> 1, size |-> 8]
MCText == [MCTitle EXCEPT !.size = 4]
MCRectStyle == [left |-> 2, top |-> 2, right |-> 2, bottom |-> 2, padX |-> 1, padY |-> 1, border |-> 1]
At(x, y) == [x |-> x, y |-> y]
MCPointerSpots == {At(5, 6), At(15, 6), At(5, 13), At(46, 26), At(50, 6), At(35, 6)}
MCAsides == {-3, 1}
\* In double precision the square of the root of 8 * 8 + 12 * 12 is less.
MCShort == {[square |-> 208, level |-> l] : l \in {1, 2}}
MCTools ==
    {"horizontalRayLine", "horizontalSegment", "horizontalStraightLine", "verticalRayLine",
     "verticalSegment", "verticalStraightLine", "rayLine", "segment", "straightLine",
     "priceLine", "parallelStraightLine", "priceChannelLine", "arrow", "abcd", "xabcd",
     "threeWaves", "anyWaves", "circle", "rect", "triangle", "parallelogram", "gannBox",
     "fibonacciLine", "fibonacciSegment", "fibonacciExtension", "fibonacciCircle",
     "fibonacciSpeedResistanceFan", "fibonacciSpiral"}
=============================================================================
