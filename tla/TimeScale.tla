----------------------------- MODULE TimeScale -----------------------------
(***************************************************************************)
(* The horizontal geometry of the chart's Store: which bars are in view    *)
(* and where, through new bars, pages of history, scrolling, zooming,      *)
(* resizing and the limits on how far the bars may go.                     *)
(*                                                                         *)
(* The code's fractions of a bar are whole numbers of 1/Unit here: Unit is *)
(* a multiple of twice every width of a bar, so nothing is lost to         *)
(* rounding but what the code rounds itself. A bar is its index.           *)
(***************************************************************************)
EXTENDS Integers, Sequences, FiniteSets, FiniteSetsExt

CONSTANTS
    Unit,           \* parts of a bar
    Spaces,         \* widths of a bar within BarSpaceLimitConstants, in pixels
    DefaultSpace,   \* DEFAULT_BAR_SPACE
    DefaultOffset,  \* DEFAULT_OFFSET_RIGHT_DISTANCE, in pixels
    Widths,         \* widths of the drawing area
    Pages,          \* sizes of a page of bars
    Drags,          \* distances of a scroll step, in pixels
    Scales,         \* steps of a zoom: the width grows by scale tenths
    Cursors,        \* x coordinates of the pointer
    Limits,         \* values of the four limits
    None,           \* no crosshair
    MaxBars,        \* bound: bars in the list
    MaxMoves        \* bound: operations

UnitAssumption ==
    /\ Unit \in Nat \ {0} /\ \A s \in Spaces : Unit % (2 * s) = 0
    /\ Spaces \subseteq Nat \ {0} /\ DefaultSpace \in Spaces
    /\ Widths \subseteq Nat /\ Pages \subseteq Nat
    /\ DefaultOffset \in Int /\ Drags \subseteq Int /\ Scales \subseteq Int
    /\ Cursors \subseteq Int /\ Limits \subseteq Int

VARIABLES
    count,       \* length of _dataList
    space,       \* _barSpace
    diff,        \* _lastBarRightSideDiffBarCount, in 1/Unit
    startDiff,   \* _startLastBarRightSideDiffBarCount
    total,       \* _totalBarSpace
    role,        \* _scrollLimitRole
    minBars,     \* _minVisibleBarCount
    maxOffset,   \* _maxOffsetDistance
    offset,      \* _offsetRightDistance
    range,       \* _visibleRange
    crosshair,   \* _crosshair: x, realDataIndex, dataIndex
    moves        \* operations so far

vars == <<count, space, diff, startDiff, total, role, minBars, maxOffset, offset,
          range, crosshair, moves>>

\* Math.round: halves go up.
Round(q) == (2 * q + Unit) \div (2 * Unit)
AtMost(a, b)  == IF a < b THEN a ELSE b
AtLeast(a, b) == IF a > b THEN a ELSE b

\* Bars that fit in the given width.
BarsIn(width, s) == (width * Unit) \div s

-----------------------------------------------------------------------------
(* Coordinates and indexes.                                                *)

\* dataIndexToCoordinate: the middle of bar i, in pixels from the left.
Coordinate(i, n, d, s, w) ==
    (w * Unit - (n * Unit + d - i * Unit - Unit \div 2) * s + Unit \div 2) \div Unit

\* coordinateToFloatIndex, in 1/Unit.
FloatIndex(x, n, d, s, w) == n * Unit + d - BarsIn(w - x, s)

\* coordinateToDataIndex: Math.ceil of it, less one.
DataIndex(x, n, d, s, w) == -((-FloatIndex(x, n, d, s, w)) \div Unit) - 1

-----------------------------------------------------------------------------
(* Adjusting the view.                                                     *)

\* The least number of bars that stays in view at each side, by bars or by
\* the distance the last or the first bar may be away, in 1/Unit.
MinVisible(side, s, w) ==
    LET other == IF side = "left" THEN "right" ELSE "left"
    IN  AtLeast(0, IF role = "distance" THEN BarsIn(w - maxOffset[other], s)
                                   ELSE minBars[side] * Unit)

\* How far the bars may be moved, first to the left, then to the right.
Clamped(d, n, s, w) ==
    AtLeast(AtMost(d, BarsIn(w, s) - AtMost(MinVisible("left", s, w), n * Unit)),
            -(n * Unit) + AtMost(MinVisible("right", s, w), n * Unit))

\* Seeded mutation: the bar cut by the left edge is forgotten.
VisibleRangeLater(n, d, s, w) ==
    LET realTo == Round(d + n * Unit + Unit \div 2)
        to == AtMost(realTo, n)
        from == AtLeast(0, Round(to * Unit - BarsIn(w, s)))
    IN  [from |-> from, to |-> to, realTo |-> realTo,
         realFrom |-> IF d > 0 THEN Round(n * Unit + d - BarsIn(w, s)) ELSE from]

\* _adjustVisibleRange: the bars to draw, half open, and the same with the
\* empty space at both ends counted.
VisibleRange(n, d, s, w) ==
    LET realTo == Round(d + n * Unit + Unit \div 2)
        to == AtMost(realTo, n)
        from == AtLeast(0, Round(to * Unit - BarsIn(w, s)) - 1)
    IN  [from |-> from, to |-> to, realTo |-> realTo,
         realFrom |-> IF d > 0 THEN Round(n * Unit + d - BarsIn(w, s)) - 1 ELSE from]

\* setCrosshair: the bar under x, and the nearest one there is.
Crosshair(x, n, d, s, w) ==
    LET real == IF x = None THEN n - 1 ELSE DataIndex(x, n, d, s, w)
    IN  [x |-> x, real |-> real,
         index |-> IF x = None THEN real
                   ELSE IF real < 0 THEN 0
                   ELSE IF real > n - 1 THEN n - 1 ELSE real]

\* An adjustment of the wanted offset d for n bars, followed by setCrosshair.
AdjustVisibleRange(d, n, s, w, x) ==
    LET clamped == Clamped(d, n, s, w)
    IN  /\ diff' = clamped
        /\ range' = VisibleRange(n, clamped, s, w)
        /\ crosshair' = Crosshair(x, n, clamped, s, w)

Move == moves < MaxMoves /\ moves' = moves + 1

Init ==
    /\ count = 0 /\ space = DefaultSpace /\ offset = DefaultOffset
    /\ diff = BarsIn(DefaultOffset, DefaultSpace) /\ startDiff = 0
    /\ total = 0 /\ role = "bar_count"
    /\ minBars = [left |-> 2, right |-> 2]
    /\ maxOffset = [left |-> 50, right |-> 50]
    /\ range = [from |-> 0, to |-> 0, realFrom |-> 0, realTo |-> 0]
    /\ crosshair = [x |-> None, real |-> -1, index |-> -1]
    /\ moves = 0

-----------------------------------------------------------------------------
(* Data.                                                                   *)

\* Whether the right distance is kept below its maximum.
OffsetFor(distance) ==
    IF role = "distance" THEN AtMost(maxOffset.right, distance) ELSE distance

\* _addData, init: the crosshair goes and the last bar is at its distance.
InitPage ==
    \E n \in Pages \cup {0} :
        /\ Move
        /\ count' = n /\ offset' = OffsetFor(offset)
        /\ AdjustVisibleRange(BarsIn(offset', space), n, space, total, None)
        /\ UNCHANGED <<space, startDiff, total, role, minBars, maxOffset>>

\* _addData, forward: bars before the first one.
PrependPage(n) ==
    /\ count + n <= MaxBars /\ Move
    /\ count' = count + n
    /\ AdjustVisibleRange(diff, count + n, space, total, crosshair.x)
    /\ UNCHANGED <<space, startDiff, total, role, minBars, maxOffset, offset>>

\* Seeded mutation: the view follows the bars added behind the last one.
BackwardOffsetKept(n) == diff

\* _addData, backward: the offset is taken back by as many bars.
BackwardOffset(n) == diff - n * Unit

\* _addData, backward: bars behind the last one.
AppendPage(n) ==
    /\ count + n <= MaxBars /\ Move
    /\ count' = count + n
    /\ AdjustVisibleRange(BackwardOffset(n), count + n, space, total, crosshair.x)
    /\ UNCHANGED <<space, startDiff, total, role, minBars, maxOffset, offset>>

\* _addData, update with a new time: when the last bar is out of view to the
\* right, the bars in view stay where they are.
PushBar ==
    /\ count < MaxBars /\ Move
    /\ count' = count + 1
    /\ AdjustVisibleRange(IF diff < 0 THEN diff - Unit ELSE diff, count + 1, space,
                          total, crosshair.x)
    /\ UNCHANGED <<space, startDiff, total, role, minBars, maxOffset, offset>>

\* _addData, update of the last bar.
ReplaceBar ==
    /\ count > 0 /\ Move
    /\ AdjustVisibleRange(diff, count, space, total, crosshair.x)
    /\ UNCHANGED <<count, space, startDiff, total, role, minBars, maxOffset, offset>>

-----------------------------------------------------------------------------
(* The user's hand and the chart's size.                                   *)

\* setTotalBarSpace, from a layout.
SetTotalBarSpace ==
    \E w \in Widths \ {total} :
        /\ Move
        /\ total' = w
        /\ AdjustVisibleRange(diff, count, space, w, crosshair.x)
        /\ UNCHANGED <<count, space, startDiff, role, minBars, maxOffset, offset>>

\* setBarSpace: a width beyond the limits or the same one is ignored.
SetBarSpace ==
    \E s \in Spaces \ {space} :
        /\ Move
        /\ space' = s
        /\ AdjustVisibleRange(diff, count, s, total, crosshair.x)
        /\ UNCHANGED <<count, startDiff, total, role, minBars, maxOffset, offset>>

\* setOffsetRightDistance by the user.
SetOffsetRightDistance ==
    \E distance \in Limits :
        /\ Move
        /\ offset' = OffsetFor(distance)
        /\ AdjustVisibleRange(BarsIn(offset', space), count, space, total, crosshair.x)
        /\ UNCHANGED <<count, space, startDiff, total, role, minBars, maxOffset>>

\* setMaxOffsetLeftDistance, setMaxOffsetRightDistance: the view follows at
\* the next adjustment.
SetMaxOffset ==
    \E side \in {"left", "right"}, distance \in Limits :
        /\ Move
        /\ role' = "distance" /\ maxOffset' = [maxOffset EXCEPT ![side] = distance]
        /\ UNCHANGED <<count, space, diff, startDiff, total, minBars, offset, range,
                       crosshair>>

\* setLeftMinVisibleBarCount, setRightMinVisibleBarCount.
SetMinVisibleBarCount ==
    \E side \in {"left", "right"}, bars \in {1, 3} :
        /\ Move
        /\ role' = "bar_count" /\ minBars' = [minBars EXCEPT ![side] = bars]
        /\ UNCHANGED <<count, space, diff, startDiff, total, maxOffset, offset, range,
                       crosshair>>

StartScroll ==
    /\ Move /\ startDiff' = diff
    /\ UNCHANGED <<count, space, diff, total, role, minBars, maxOffset, offset, range,
                   crosshair>>

\* Seeded mutation: the crosshair is left where it was.
AdjustCrosshairLater(d, n, s, w, x) ==
    /\ diff' = Clamped(d, n, s, w)
    /\ range' = VisibleRange(n, diff', s, w)
    /\ UNCHANGED crosshair

\* What scroll does to the view: the distance is from where it started.
ScrollTo(d, n, s, w, x) == AdjustVisibleRange(d, n, s, w, x)

Scroll ==
    \E distance \in Drags :
        /\ Move
        /\ ScrollTo(startDiff - BarsIn(distance, space), count, space, total, crosshair.x)
        /\ UNCHANGED <<count, space, startDiff, total, role, minBars, maxOffset, offset>>

\* The offset that keeps what was under x under x.
Zoomed(x, s) ==
    diff + (FloatIndex(x, count, diff, space, total) - FloatIndex(x, count, diff, s, total))

\* zoom: around the pointer, or around the last bar. A width beyond the
\* limits changes nothing.
ZoomAt(x, scale) ==
    LET s == space + (scale * space) \div 10
    IN  /\ s \in Spaces \ {space} /\ Move
        /\ space' = s
        /\ AdjustVisibleRange(Zoomed(x, s), count, s, total, crosshair.x)
        /\ UNCHANGED <<count, startDiff, total, role, minBars, maxOffset, offset>>

Zoom ==
    \E scale \in Scales :
        \/ \E x \in Cursors : ZoomAt(x, scale)
        \/ ZoomAt(IF crosshair.x = None THEN total \div 2 ELSE crosshair.x, scale)
        \/ ZoomAt(Coordinate(count - 1, count, diff, space, total), scale)

\* The pointer moves over the chart or leaves it.
SetCrosshair ==
    \E x \in (Cursors \cup {None}) \ {crosshair.x} :
        /\ Move
        /\ crosshair' = Crosshair(x, count, diff, space, total)
        /\ UNCHANGED <<count, space, diff, startDiff, total, role, minBars, maxOffset,
                       offset, range>>

Next ==
    \/ InitPage \/ PushBar \/ ReplaceBar
    \/ \E n \in Pages : PrependPage(n) \/ AppendPage(n)
    \/ SetTotalBarSpace \/ SetBarSpace \/ SetOffsetRightDistance \/ SetMaxOffset
    \/ SetMinVisibleBarCount \/ StartScroll \/ Scroll \/ Zoom \/ SetCrosshair

Spec == Init /\ [][Next]_vars

-----------------------------------------------------------------------------
(* Properties.                                                             *)

X(i) == Coordinate(i, count, diff, space, total)
\* Bars with their middle right of the left edge, and while there is room right
\* of the last bar those with any part right of it, that begin left of the
\* right edge. When the last bar is beyond the right edge, a bar of which the
\* left edge leaves less than half may be left out.
InView ==
    {i \in 0..(count - 1) :
        /\ X(i) > 0 \/ (diff > 0 /\ 2 * X(i) + space > 0)
        /\ 2 * X(i) - space < 2 * total}

\* Every bar in view is one of those that are drawn and searched for the high
\* and low price (_adjustVisibleRange).
ViewIsDrawn ==
    /\ \A i \in InView : range.realFrom <= i /\ i < range.realTo
    /\ 0 <= range.from /\ range.from <= range.to /\ range.to <= count

\* The crosshair names the bar that is under it now: no scroll, zoom, page,
\* bar or new size leaves it at an index of an earlier view.
CrosshairFresh ==
    crosshair.x # None =>
        crosshair = Crosshair(crosshair.x, count, diff, space, total)

\* The limits leave the offset alone.
Free(d, n, s, w) == Clamped(d, n, s, w) = d

\* A page of history at either end, and a bar added while the last one is out
\* of view, move nothing that is on the screen.
StaysPut ==
    /\ \A n \in Pages : PrependPage(n) /\ Free(diff, count + n, space, total)
           => \A i \in 0..(count - 1) : X(i + n)' = X(i)
    /\ \A n \in Pages : AppendPage(n) /\ Free(diff - n * Unit, count + n, space, total)
           => \A i \in 0..(count - 1) : X(i)' = X(i)
    /\ PushBar /\ diff < 0 /\ Free(diff - Unit, count + 1, space, total)
           => \A i \in 0..(count - 1) : X(i)' = X(i)

\* A zoom keeps the bar under its anchor there, unless a limit stops it.
AnchorStays ==
    \A x \in Cursors, scale \in Scales :
        ZoomAt(x, scale) /\ Free(diff', count, space', total) /\ diff' = Zoomed(x, space')
          => FloatIndex(x, count', diff', space', total')
               = FloatIndex(x, count, diff, space, total)

\* What is looked at stays where it is, through pages, new bars and zooms.
ViewStays == [][StaysPut /\ AnchorStays]_vars
=============================================================================
