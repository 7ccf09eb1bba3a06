------------------------------- MODULE Panes -------------------------------
(***************************************************************************)
(* The heights of the chart's panes: the candle pane, the panes made for   *)
(* indicators, and the separators between them, through the layouts,       *)
(* minimizing, maximizing, dragging a separator and resizing the chart.    *)
(***************************************************************************)
EXTENDS Integers, Sequences, SequencesExt, FiniteSetsExt

CONSTANTS
    Candle, Extra,      \* ids of the candle pane and of the others
    XAxis,              \* id of the x axis pane
    None,
    Totals,             \* heights of the chart
    XAxisHeight, SeparatorSize, MinHeight, DefaultHeight,
    Drags,              \* distances of a drag, down positive
    MaxMoves            \* bound: calls and gestures

SizesAssumption ==
    /\ {XAxisHeight, SeparatorSize, MinHeight, DefaultHeight} \cup Totals \subseteq Nat
    /\ Drags \subseteq Int
    /\ XAxis \notin {Candle} \cup Extra

Ids == {Candle} \cup Extra

VARIABLES
    order,       \* _drawPanes without the x axis
    height,      \* getBounding().height of every pane
    original,    \* getOriginalBounding().height
    state,       \* "new", "normal", "minimize", "maximize" or "removed"
    visible,     \* getVisible()
    separated,   \* keys of _separatorPanes: panes with a separator above
    hidden,      \* those whose separator is not visible
    total,       \* _chartBounding.height
    asked,       \* layout options asked for: "sort", "height"
    drag,        \* what a SeparatorWidget keeps between press and release
    moves        \* calls so far

vars == <<order, height, original, state, visible, separated, hidden, total, asked,
          drag, moves>>

MaxOf(a, b) == IF a > b THEN a ELSE b
MinOf(a, b) == IF a < b THEN a ELSE b
OnChart == ToSet(order)
Distance(d) == IF d < 0 THEN -d ELSE d
Area == total - XAxisHeight

Init ==
    /\ order = <<Candle>> /\ total \in Totals
    /\ height = [p \in Ids |-> IF p = Candle THEN Area ELSE 0]
    /\ original = [p \in Ids |-> 0]
    /\ state = [p \in Ids |-> IF p = Candle THEN "normal" ELSE "new"]
    /\ visible = [p \in Ids |-> TRUE]
    /\ separated = {} /\ hidden = {} /\ asked = {} /\ drag = None /\ moves = 0

Move == moves < MaxMoves /\ moves' = moves + 1

-----------------------------------------------------------------------------
(* _recalculatePaneHeight: height given to or taken from the other panes.  *)

Others(p) == {q \in OnChart : q # p /\ state[q] = "normal"}

\* The candle pane alone gives and takes, and never less than its minimum;
\* what it cannot give is added to the current pane.
FromCandle(p, wanted, change, h) ==
    LET given == MaxOf(h[Candle] + change, MinHeight)
    IN  IF h[Candle] > 0
        THEN [h EXCEPT ![Candle] = given, ![p] = wanted - (h[Candle] + change - given)]
        ELSE [h EXCEPT ![p] = wanted]

\* Every other pane gives an equal part, the last one the remainder.
Give(p, change, acc, q) ==
    LET count == Cardinality(Others(p))
        part == IF acc.index = count - 1 THEN acc.left ELSE change \div count
        given == MaxOf(acc.h[q] + part, MinHeight)
    IN  IF q \notin Others(p) THEN acc
        ELSE [h |-> [acc.h EXCEPT ![q] = given], left |-> acc.left - (given - acc.h[q]),
              index |-> acc.index + 1]
Given(p, change, h) ==
    FoldLeft(LAMBDA acc, q : Give(p, change, acc, q),
             [h |-> h, left |-> change, index |-> 0], order)
FromAll(p, wanted, change, h) ==
    LET all == Given(p, change, h)
    IN  [all.h EXCEPT ![p] = wanted - all.left]

CanRecalculate(p, change) == change # 0 /\ Others(p) # {}

Recalculate(p, wanted, change, h) ==
    IF ~CanRecalculate(p, change) THEN h
    ELSE IF p # Candle /\ state[Candle] = "normal" THEN FromCandle(p, wanted, change, h)
    ELSE FromAll(p, wanted, change, h)

-----------------------------------------------------------------------------
(* The layout.                                                             *)

\* Seeded mutation: the separators take no height.
MeasureWithoutSeparators(panes, seps) ==
    LET Take(acc, p) ==
            IF p = Candle \/ ~visible[p] THEN acc
            ELSE LET got == MinOf(height[p], acc.left)
                 IN  [h |-> [acc.h EXCEPT ![p] = got], left |-> acc.left - got]
        all == FoldLeft(Take, [h |-> height, left |-> MaxOf(Area, 0)], panes)
    IN  [all.h EXCEPT ![Candle] = MaxOf(all.left, 0)]

\* The height of every pane: each visible one keeps its own as long as there
\* is any, and the candle pane gets what is left, shown or not. A separator
\* takes its height, hidden or not.
Take(seps, acc, p) ==
    LET left == acc.left - (IF p \in seps THEN SeparatorSize ELSE 0)
        got == IF height[p] > left THEN left ELSE height[p]
    IN  IF p = Candle \/ ~visible[p] THEN [acc EXCEPT !.left = left]
        ELSE [h |-> [acc.h EXCEPT ![p] = got],
              left |-> IF height[p] > left THEN 0 ELSE left - got]
Taken(panes, seps) ==
    FoldLeft(LAMBDA acc, p : Take(seps, acc, p), [h |-> height, left |-> MaxOf(Area, 0)], panes)
Measure(panes, seps) ==
    LET all == Taken(panes, seps)
    IN  [all.h EXCEPT ![Candle] = MaxOf(all.left, 0)]

\* _layout: separators anew after a sort, all of them visible, then the
\* heights. All panes but the x axis have the same order, so sorting keeps them.
DoLayout ==
    /\ asked # {}
    /\ asked' = {}
    /\ separated' = IF "sort" \in asked THEN ToSet(Tail(order)) ELSE separated
    /\ hidden' = IF "sort" \in asked THEN {} ELSE hidden
    /\ height' = IF "height" \in asked THEN Measure(order, separated') ELSE height
    /\ UNCHANGED <<order, original, state, visible, total, drag, moves>>

Layout(options) == asked' = asked \cup options

-----------------------------------------------------------------------------
(* Calls.                                                                  *)

\* createIndicator in a pane of its own: made, given its height at the others'
\* cost (setPaneOptions), and laid out.
CreatePane(p) ==
    /\ state[p] = "new" /\ Move
    /\ order' = Append(order, p)
    /\ state' = [state EXCEPT ![p] = "normal"]
    /\ LET wanted == MaxOf(MinHeight, DefaultHeight)
       IN  /\ original' = [original EXCEPT ![p] = wanted]
           /\ height' = Recalculate(p, wanted, -wanted, height)
    /\ Layout({"sort", "height"})
    /\ UNCHANGED <<visible, separated, hidden, total, drag>>

\* removeIndicator, the last one of its pane: its height goes to the others;
\* alone again, the candle pane is shown and takes everything.
RemovePane(p) ==
    /\ p # Candle /\ Move
    /\ \E i \in DOMAIN order : order[i] = p /\ order' = RemoveAt(order, i)
    /\ state' = [state EXCEPT ![p] = "removed"]
    /\ LET given == Recalculate(p, 0, height[p], height)
       IN  height' = IF order' = <<Candle>> THEN [given EXCEPT ![Candle] = Area] ELSE given
    /\ visible' = IF order' = <<Candle>> THEN [visible EXCEPT ![Candle] = TRUE] ELSE visible
    /\ Layout({"sort", "height"})
    /\ UNCHANGED <<original, separated, hidden, total, drag>>

\* Every pane of the chart is shown, and its separator.
ShowAll ==
    /\ visible' = [q \in Ids |-> visible[q] \/ q \in OnChart]
    /\ hidden' = hidden \ OnChart

\* setPaneOptions, state maximize: one pane only, the others are hidden at
\* the height they were made with, and their separators with them.
Maximize(p) ==
    IF \E q \in OnChart : state[q] = "maximize"
    THEN UNCHANGED <<height, original, state, visible, hidden>>
    ELSE /\ original' = IF state[p] = "normal" THEN [original EXCEPT ![p] = height[p]]
                        ELSE original
         /\ state' = [state EXCEPT ![p] = "maximize"]
         /\ height' = [q \in Ids |-> CASE q = p -> Area
                                       [] q \in OnChart \ {p} -> original[q]
                                       [] OTHER -> height[q]]
         /\ visible' = [q \in Ids |-> IF q \in OnChart THEN q = p ELSE visible[q]]
         /\ hidden' = hidden \cup ((separated \cap OnChart) \ {p})

\* setPaneOptions, state minimize: its height goes to the others, if any is
\* normal, and everything is shown.
Minimize(p) ==
    LET from == IF state[p] = "maximize" THEN original[p] ELSE height[p]
        change == from - MinHeight
    IN  /\ height' = Recalculate(p, MinHeight, change, height)
        /\ IF CanRecalculate(p, change)
           THEN /\ original' = IF state[p] = "normal"
                               THEN [original EXCEPT ![p] = height[p]] ELSE original
                /\ state' = [state EXCEPT ![p] = "minimize"]
           ELSE UNCHANGED <<original, state>>
        /\ ShowAll

\* setPaneOptions, state normal: back to the height it had.
Restore(p) ==
    LET change == height[p] - original[p]
    IN  /\ height' = Recalculate(p, original[p], change, height)
        /\ state' = IF CanRecalculate(p, change) THEN [state EXCEPT ![p] = "normal"] ELSE state
        /\ ShowAll
        /\ UNCHANGED original

SetPaneState(p) ==
    /\ p \in OnChart /\ Move
    /\ \/ state[p] # "maximize" /\ Maximize(p)
       \/ state[p] # "minimize" /\ Minimize(p)
       \/ state[p] # "normal" /\ Restore(p)
    /\ Layout({"height"})
    /\ UNCHANGED <<order, separated, total, drag>>

\* setPaneOptions, a height.
SetPaneHeight(p) ==
    /\ p \in OnChart /\ Move
    /\ LET wanted == MaxOf(MinHeight, DefaultHeight)
       IN  /\ original' = [original EXCEPT ![p] = wanted]
           /\ height' = Recalculate(p, wanted, -wanted, height)
    /\ Layout({"height"})
    /\ UNCHANGED <<order, state, visible, separated, hidden, total, drag>>

Resize ==
    /\ Move
    /\ total' \in Totals \ {total}
    /\ Layout({"height"})
    /\ UNCHANGED <<order, height, original, state, visible, separated, hidden, drag>>

-----------------------------------------------------------------------------
(* Dragging a separator.                                                   *)

\* The nearest pane above or at index i that is not minimized, or the one at i
\* if there is none. Below there always is one: the x axis pane is a pane of
\* the chart too, the last, and never minimized.
Open(places) == {j \in places : state[order[j]] # "minimize"}
PaneAbove(i) == IF Open(1..i) = {} THEN order[i] ELSE order[Max(Open(1..i))]
PaneBelow(i) ==
    IF Open(i..Len(order)) = {} THEN XAxis ELSE order[Min(Open(i..Len(order)))]

\* The x axis keeps its height but between a drag and the layout it asks for.
HeightOf(p) == IF p = XAxis THEN XAxisHeight ELSE height[p]

\* A separator that can be pressed is one that is shown.
Press ==
    /\ drag = None /\ asked = {}
    /\ \E i \in 2..Len(order) :
        /\ order[i] \in separated \ hidden
        /\ LET top == PaneAbove(i - 1)
               bottom == PaneBelow(i)
           IN  drag' = [top |-> top, bottom |-> bottom,
                        topHeight |-> HeightOf(top), bottomHeight |-> HeightOf(bottom)]
    /\ UNCHANGED <<order, height, original, state, visible, separated, hidden, total,
                   asked, moves>>

\* The height of the pane that is made smaller.
Reduced(start, distance) == MaxOf(start - distance, MinHeight)

\* _pressedTouchMouseMoveEvent: what one loses the other gets, until the layout
\* that gives the x axis its height back.
Drag ==
    /\ drag # None /\ Move
    /\ \E d \in Drags :
        LET up == d < 0
            less == IF up THEN drag.top ELSE drag.bottom
            grown == IF up THEN drag.bottom ELSE drag.top
            lessHeight == IF up THEN drag.topHeight ELSE drag.bottomHeight
            grownHeight == IF up THEN drag.bottomHeight ELSE drag.topHeight
            reduced == Reduced(lessHeight, Distance(d))
        IN  /\ \A p \in {less, grown} \ {XAxis} : state[p] # "minimize"
            /\ lessHeight > MinHeight
            /\ height' = [p \in Ids |-> CASE p = grown -> grownHeight + lessHeight - reduced
                                          [] p = less /\ p # grown -> reduced
                                          [] OTHER -> height[p]]
    /\ Layout({"height"})
    /\ UNCHANGED <<order, original, state, visible, separated, hidden, total, drag>>

Release ==
    /\ drag # None
    /\ drag' = None
    /\ UNCHANGED <<order, height, original, state, visible, separated, hidden, total,
                   asked, moves>>

Next ==
    \/ \E p \in Ids : CreatePane(p) \/ RemovePane(p) \/ SetPaneState(p) \/ SetPaneHeight(p)
    \/ Resize \/ DoLayout \/ Press \/ Drag \/ Release

Spec == Init /\ [][Next]_vars /\ WF_vars(DoLayout)

-----------------------------------------------------------------------------
(* Properties.                                                             *)

\* What a pane takes: its separator, shown or hidden, and its height if it is
\* shown.
Takes(p) == (IF p \in separated THEN SeparatorSize ELSE 0)
              + (IF visible[p] THEN height[p] ELSE 0)
Used == FoldLeft(LAMBDA sum, p : sum + Takes(p), 0, order)

\* Laid out while the candle pane is in view, the panes shown and the
\* separators, shown or hidden, make up the chart exactly down to the x axis,
\* whatever was minimized, maximized, dragged or removed before (_layout,
\* Chart.ts:366). A hidden separator has its height in this sum and none on the
\* page, so the panes fill the page when none is hidden; when some are, the
\* candle pane is the maximized one, and it ends above the x axis by one
\* separator for each hidden pane (Chart.ts:374-378, 879). A pane below a full
\* one is as much too high as its separator is: it gets less than 0.
PanesFillChart ==
    asked = {} /\ visible[Candle] /\ Area >= SeparatorSize * Len(order) =>
        /\ Used = Area
        /\ hidden # {} => state[Candle] = "maximize"
=============================================================================
