-------------------------------- MODULE Axes --------------------------------
(***************************************************************************)
(* The axes of a chart's pane (component/Axis, YAxis and XAxis, the axis   *)
(* presses of Event): the range of the y axis, which follows the values in *)
(* view until it is dragged and follows the drag from then on, the labels  *)
(* of both axes, and what gives the range back to the values.              *)
(*                                                                         *)
(* The y axis is the linear one, 'normal', and not turned over. Its values *)
(* are whole numbers of 1/Unit.                                            *)
(***************************************************************************)
EXTENDS Integers, Sequences, FiniteSets, FiniteSetsExt, SequencesExt

CONSTANTS
    Unit,        \* parts of 1, a multiple of 100
    Values,      \* values bars and indicators have
    Mins, Maxs,  \* minValue and maxValue of indicators, None: not given
    MinSpan,     \* least range, 10 to the -precision
    Heights,     \* heights of the pane
    TextSize,    \* size of the labels
    Ys,          \* y coordinates of the pointer, above 0
    Bars,        \* widths of a bar, in pixels
    TextWidth,   \* width of a label of the x axis
    Shifts,      \* bars a scroll moves the view by
    None,
    MaxSteps     \* bound: drags and other operations

AxesAssumption ==
    /\ Unit \in Nat \ {0} /\ Unit % 100 = 0
    /\ Values \subseteq Int /\ IsFiniteSet(Values)
    /\ Mins \ {None} \subseteq Int /\ Maxs \ {None} \subseteq Int
    /\ MinSpan \in Nat \ {0}
    /\ \A lo \in Mins \ {None}, hi \in Maxs \ {None} : hi - lo >= MinSpan
    /\ Heights \subseteq Nat /\ \A h \in Heights : h > 6
    /\ TextSize \in Nat /\ Ys \subseteq Nat \ {0} /\ Bars \subseteq Nat \ {0}
    /\ TextWidth \in Nat \ {0} /\ Shifts \subseteq Int
    /\ None \notin Int

VARIABLES
    seen,      \* values in view
    limits,    \* [min, max] the indicators of the pane give
    height,    \* height of the pane
    auto,      \* _autoCalcTickFlag
    waiting,   \* no layout since the data were reset
    range,     \* _range: [from, to]
    built,     \* _prevRange: the range the labels were made for
    ticks,     \* _ticks of the y axis: sequence of [value, y]
    press,     \* pressed: [on, held: the range then, y, last], or None
    view,      \* x axis: [from, realFrom, realTo, bar]
    steps

vars == <<seen, limits, height, auto, waiting, range, built, ticks, press, view, steps>>

TickCount == 8
Extent(r) == r.to - r.from

-----------------------------------------------------------------------------
(* The range that holds the values in view.                                *)

Least(S)    == CHOOSE x \in S : \A y \in S : x <= y
Greatest(S) == CHOOSE x \in S : \A y \in S : x >= y
Given(x) == {x} \ {None}

\* Too small a range is widened, away from an end an indicator gives.
Widened(lo, hi, lim) ==
    IF hi - lo >= MinSpan /\ hi # lo THEN <<lo, hi>>
    ELSE IF lo = lim.min THEN <<lo, IF hi = lim.max THEN hi ELSE hi + TickCount * MinSpan>>
    ELSE IF hi = lim.max THEN <<lo - TickCount * MinSpan, hi>>
    ELSE <<lo - (TickCount \div 2) * MinSpan, hi + (TickCount \div 2) * MinSpan>>

\* createRangeImp with the default gaps: a fifth above, a tenth below.
CreateRange(S, lim) ==
    LET lo == IF S = {} THEN 0 ELSE Least(S \cup Given(lim.min))
        hi == IF S = {} THEN 10 ELSE Greatest(S \cup Given(lim.max))
        w  == Widened(lo, hi, lim)
        d  == (w[2] - w[1]) * (Unit \div 10)
    IN  [from |-> w[1] * Unit - d, to |-> w[2] * Unit + 2 * d]

-----------------------------------------------------------------------------
(* The labels of the y axis.                                               *)

\* nice: 1, 2, 3, 4, 5, 6 or 8 times a power of ten, near an eighth of the range.
Nice(e) ==
    LET powers == {Unit \div 100, Unit \div 10, Unit, 10 * Unit}
        p == Greatest({q \in powers : q * TickCount <= e} \cup {Unit \div 100})
        steps8 == <<1, 2, 3, 4, 5, 6, 8>>
    IN  p * steps8[1 + Cardinality({k \in 1..6 : e >= (2 * k + 1) * p * (TickCount \div 2)})]

\* convertToPixel of the linear axis: Math.round, halves go up.
Pixel(v, r, h) == (2 * (r.to - v) * h + Extent(r)) \div (2 * Extent(r))

CeilDiv(a, b) == -((-a) \div b)

\* The multiples of the step in a range, from below.
Multiples(r) ==
    LET step  == Nice(Extent(r))
        first == CeilDiv(r.from, step)
    IN  [k \in 1..(r.to \div step - first + 1) |-> (first + k - 1) * step]

\* Room for a text at y, clear of the ends of the axis and of the label before.
Room(kept, y, h) ==
    /\ y > TextSize /\ y < h - TextSize
    /\ kept = <<>> \/ LET near == kept[Len(kept)].y
                      IN  near - y > 2 * TextSize \/ y - near > 2 * TextSize

Keep(kept, v, r, h) ==
    LET y == Pixel(v, r, h)
    IN  IF Room(kept, y, h) THEN Append(kept, [value |-> v, y |-> y]) ELSE kept

\* createTicksImp: labels for the multiples there is room for; none when the
\* range was dragged to nothing.
CreateTicks(r, h) ==
    IF Extent(r) > 0
    THEN FoldLeft(LAMBDA kept, v : Keep(kept, v, r, h), <<>>, Multiples(r))
    ELSE <<>>

-----------------------------------------------------------------------------
(* The labels of the x axis.                                               *)

\* Bars from one label to the next, an even number.
TickBetweenBarCount(bar) == LET n == CeilDiv(TextWidth, bar) IN n + (n % 2)

\* XAxis.createTicksImp: the bars that get a label.
XTicks(v) ==
    LET n == TickBetweenBarCount(v.bar)
        start == IF v.realFrom < 0 THEN 0 ELSE (v.realFrom \div n) * n
    IN  {i \in start..(v.realTo - 1) : (i - start) % n = 0 /\ i >= v.from}

-----------------------------------------------------------------------------
(* Layouts.                                                                *)

\* buildTicks(force) with the values S in view, range r as left by a drag.
BuildTicks(force, S, r, flag, h) ==
    /\ waiting' = FALSE
    /\ range' = IF flag THEN CreateRange(S, limits') ELSE r
    /\ IF built = range' /\ ~force
       THEN UNCHANGED <<built, ticks>>
       ELSE built' = range' /\ ticks' = CreateTicks(range', h)

Counted == steps < MaxSteps /\ steps' = steps + 1

\* The view is scrolled or zoomed or bars come: a layout that is not forced.
ValuesChange(S) ==
    /\ Counted
    /\ seen' = S
    /\ \E d \in Shifts, b \in Bars :
           view' = [view EXCEPT !.realFrom = @ + d, !.realTo = @ + d, !.bar = b,
                                !.from = IF view.realFrom + d < 0 THEN 0 ELSE view.realFrom + d]
    /\ UNCHANGED <<limits, height, auto, press>>
    /\ BuildTicks(FALSE, S, range, auto, height)

\* Indicators come, go or change: a forced layout.
IndicatorsChange(lim) ==
    /\ Counted
    /\ limits' = lim
    /\ UNCHANGED <<seen, height, auto, press, view>>
    /\ BuildTicks(TRUE, seen, range, auto, height)

\* The pane gets another height, by its separator or by the chart's resize.
ResizePane(h) ==
    /\ Counted
    /\ height' = h
    /\ UNCHANGED <<seen, limits, auto, press, view>>
    /\ BuildTicks(TRUE, seen, range, auto, h)

\* setPaneOptions of the pane, and a double click on the axis when it was
\* dragged: the range follows the values again.
FollowAgain(force) ==
    /\ Counted
    /\ force \/ ~auto
    /\ auto' = TRUE
    /\ UNCHANGED <<seen, limits, height, press, view>>
    /\ BuildTicks(force, seen, range, TRUE, height)

\* setSymbol, setPeriod, setDataLoader: the range follows the values again,
\* the values and the layout come with the first page of the new data.
ResetYAxisAutoCalcTickFlag ==
    /\ Counted
    /\ auto' = TRUE /\ waiting' = TRUE
    /\ UNCHANGED <<seen, limits, height, range, built, ticks, press, view>>

-----------------------------------------------------------------------------
(* Presses and drags.                                                      *)

\* A press on the axis remembers the range, one on the bars only if it was
\* dragged before.
PressAt(on, y) ==
    /\ press = None /\ Counted
    /\ press' = [on |-> on, held |-> IF on = "yAxis" \/ ~auto THEN range ELSE None,
                 y |-> y, last |-> y]
    /\ UNCHANGED <<seen, limits, height, auto, waiting, range, built, ticks, view>>

\* Seeded mutation: scaled from the range shown, not from the one pressed.
ScaledStepwise(y) ==
    [from |-> range.from - (Extent(range) * (y - press.y)) \div (2 * press.y),
     to   |-> range.to + (Extent(range) * (y - press.y)) \div (2 * press.y)]

\* _processYAxisScalingEvent: the pressed range grows and shrinks about its
\* middle as the pointer's distance from the top of the page does.
Scaled(y) ==
    LET grow == (Extent(press.held) * (y - press.y)) \div (2 * press.y)
    IN  [from |-> press.held.from - grow, to |-> press.held.to + grow]

\* _processMainScrollingEvent: the pressed range follows the pointer.
Scrolled(y) ==
    LET move == (Extent(press.held) * (y - press.y)) \div height
    IN  [from |-> press.held.from + move, to |-> press.held.to + move]

DragAxis(y) ==
    /\ press # None /\ press.on = "yAxis" /\ Counted
    /\ press' = [press EXCEPT !.last = y]
    /\ auto' = FALSE
    /\ UNCHANGED <<seen, limits, height, view>>
    /\ BuildTicks(FALSE, seen, Scaled(y), FALSE, height)

\* The bars scroll sideways meanwhile, which lays out (unless scrolling is
\* switched off: then the range moves and nothing shows it).
DragMain(y) ==
    /\ press # None /\ press.on = "main" /\ Counted
    /\ press' = [press EXCEPT !.last = y]
    /\ UNCHANGED <<seen, limits, height, auto, view>>
    /\ BuildTicks(FALSE, seen, IF press.held # None /\ ~auto THEN Scrolled(y) ELSE range,
                  auto, height)

Release ==
    /\ press # None
    /\ press' = None
    /\ UNCHANGED <<seen, limits, height, auto, waiting, range, built, ticks, view, steps>>

-----------------------------------------------------------------------------
NoLimits == [min |-> None, max |-> None]
Visible == SUBSET Values

Init ==
    /\ seen \in Visible /\ limits = NoLimits /\ height \in Heights
    /\ auto = TRUE /\ waiting = FALSE /\ press = None /\ steps = 0
    /\ range = CreateRange(seen, limits) /\ built = range
    /\ ticks = CreateTicks(range, height)
    /\ \E b \in Bars : view = [from |-> 0, realFrom |-> 0, realTo |-> 12, bar |-> b]

Next ==
    \/ \E S \in Visible : ValuesChange(S)
    \/ \E lo \in Mins, hi \in Maxs : IndicatorsChange([min |-> lo, max |-> hi])
    \/ \E h \in Heights : ResizePane(h)
    \/ \E force \in BOOLEAN : FollowAgain(force)
    \/ ResetYAxisAutoCalcTickFlag
    \/ \E on \in {"yAxis", "main"}, y \in Ys : PressAt(on, y)
    \/ \E y \in Ys : DragAxis(y) \/ DragMain(y)
    \/ Release

Spec == Init /\ [][Next]_vars

-----------------------------------------------------------------------------
\* While the axis follows the values every value in view is on the pane, with
\* the gaps around it, but from a reset of the data to their first page
\* (YAxis.createRangeImp, Axis.buildTicks).
ValuesOnPane ==
    auto /\ ~waiting =>
        \A v \in seen : LET y == Pixel(v * Unit, range, height) IN y > 0 /\ y < height

\* The labels are where the values they name are drawn now, and never so near
\* that one covers another, after any drag, resize and layout (Axis.buildTicks).
LabelsInPlace ==
    \A k \in DOMAIN ticks :
        /\ ticks[k].y = Pixel(ticks[k].value, range, height)
        /\ k > 1 => ticks[k - 1].y - ticks[k].y > 2 * TextSize

\* A drag that comes back to where it began gives back the range it began with
\* (Event._processYAxisScalingEvent, _processMainScrollingEvent).
DragReturns ==
    press # None /\ press.held # None /\ ~auto /\ press.last = press.y => range = press.held

\* While the bars keep their width, a bar that is scrolled keeps its label or
\* its lack of one (XAxis.createTicksImp).
LabelsScroll ==
    \A d \in 1..TickBetweenBarCount(view.bar) :
        LET on == [view EXCEPT !.from = @ + d, !.realFrom = @ + d, !.realTo = @ + d]
        IN  XTicks(view) \cap (on.from..(view.realTo - 1))
                = XTicks(on) \cap (on.from..(view.realTo - 1))

\* The axes show the values they stand for, however they were dragged.
AxesSound == ValuesOnPane /\ LabelsInPlace /\ DragReturns /\ LabelsScroll
=============================================================================
