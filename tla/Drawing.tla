------------------------------ MODULE Drawing ------------------------------
(***************************************************************************)
(* Drawings on the chart: the Store's overlays, how OverlayView turns the  *)
(* mouse into drawing, hovering, selecting and dragging them, and the      *)
(* drawing bar that starts, locks and removes them.                        *)
(*                                                                         *)
(* A point is a bar's index and a value; the conversions from and to       *)
(* pixels and times are TimeScale's and Timeline's. Which figure is under  *)
(* the mouse is left open. An overlay has two lines of state: what it is   *)
(* (obj) and where it is kept (list, progress); a removed one goes on      *)
(* being referred to by what the mouse did to it.                          *)
(***************************************************************************)
EXTENDS Integers, Sequences, FiniteSets, SequencesExt

CONSTANTS
    Ids,         \* overlays that may be created
    Kinds,       \* of "horizontal", "vertical", "free", "price"
    Panes,       \* panes that draw
    Candle,      \* the pane a drawing is made in unless it names another
    Bar,         \* per index: open, high, low, close
    Points,      \* points under the mouse: t, v
    Near,        \* modeSensitivity, as a difference of values
    None,
    MaxEvents    \* bound: events

\* What an overlay is. There are fewer overlays than OnTop can number.
OnTop == 1000      \* Number.MAX_SAFE_INTEGER
GroupId == "drawing_tools"
Spots == [t : Int, v : Int]
Modes == {"normal", "weak_magnet", "strong_magnet"}
Objects == [kind : Kinds, group : {GroupId} \cup Ids, pane : Panes, step : Int,
            z : Int, prevZ : Int, lock : BOOLEAN, mode : Modes, points : Seq(Spots)]

DrawingAssumption ==
    /\ None \notin Ids \cup Objects /\ Candle \in Panes
    /\ IsFiniteSet(Ids) /\ Cardinality(Ids) < OnTop
    /\ Points \subseteq Spots /\ Near \in Int
    /\ \A t \in DOMAIN Bar : Bar[t] \in [open : Int, high : Int, low : Int, close : Int]

VARIABLES
    obj,        \* kind, group, pane, step, z, prevZ, lock, mode, points; None: not created
    list,       \* _overlays by pane, in the order they are drawn
    progress,   \* _progressOverlayInfo: overlay and pane
    hover,      \* _hoverOverlayInfo: the overlay
    clicked,    \* _clickOverlayInfo: the overlay
    pressed,    \* _pressedOverlayInfo: overlay and figure, a point's number or Other
    grip,       \* the pressed overlay's _prevPressedPoint and _prevPressedPoints
    bar,        \* the drawing bar: lock and mode
    events

vars == <<obj, list, progress, hover, clicked, pressed, grip, bar, events>>

Finished == -1     \* OVERLAY_DRAW_STEP_FINISHED
Other == 0         \* a figure that is no point

Init ==
    /\ obj = [o \in Ids |-> None]
    /\ list = [p \in Panes |-> <<>>]
    /\ progress = None /\ hover = None /\ clicked = None /\ pressed = None
    /\ grip = None /\ bar = [lock |-> FALSE, mode |-> "normal"] /\ events = 0

Event == events < MaxEvents /\ events' = events + 1

\* isOverlayDrawing
Drawing == progress # None
Kept == UNION {ToSet(list[p]) : p \in Panes}

\* _sortOverlays: a stable sort of a pane's overlays by their level.
Before(s, objects, i, j) ==
    LET a == objects[s[i]].z
        b == objects[s[j]].z
    IN  IF a = b THEN i < j ELSE a < b
Place(s, objects, j) == Cardinality({i \in DOMAIN s : Before(s, objects, i, j)}) + 1
Sorted(s, objects) ==
    [k \in DOMAIN s |-> s[CHOOSE j \in DOMAIN s : Place(s, objects, j) = k]]
SortedIn(lists, objects) == [p \in Panes |-> Sorted(lists[p], objects)]

-----------------------------------------------------------------------------
(* The templates.                                                          *)

\* totalStep: one more than the points of a finished drawing.
TotalStep(kind) == IF kind = "price" THEN 2 ELSE 3

\* Seeded mutation: the first point does not follow the second.
DrawnPointAlone(kind, step, points, p) == points

\* performEventMoveForDrawing: the first point of a horizontal or vertical
\* drawing follows the second one.
DrawnPoint(kind, step, points, p) ==
    CASE step = 2 /\ kind = "horizontal" -> [points EXCEPT ![1].v = p.v]
      [] step = 2 /\ kind = "vertical"   -> [points EXCEPT ![1].t = p.t]
      [] OTHER -> points

\* performEventPressedMove: both points follow the dragged one. With a single
\* point the code throws after it moved that one.
DraggedPoint(kind, points, p) ==
    CASE kind = "horizontal" -> [i \in DOMAIN points |-> [points[i] EXCEPT !.v = p.v]]
      [] kind = "vertical"   -> [i \in DOMAIN points |-> [points[i] EXCEPT !.t = p.t]]
      [] OTHER -> points

\* Distance to the nearer of two, the second when they are as near.
Nearer(v, a, b) == IF v - a < b - v THEN a ELSE b

\* _coordinateToPoint with a magnet: above and below the bar to its high and
\* low, with the weak one only near them, on it to the nearest price.
Magnet(mode, p) ==
    LET b == Bar[p.t]
        top == IF b.open > b.close THEN b.open ELSE b.close
        bottom == IF b.open < b.close THEN b.open ELSE b.close
        weak == mode = "weak_magnet"
    IN  CASE p.v > b.high -> IF weak /\ p.v >= b.high + Near THEN p.v ELSE b.high
          [] p.v < b.low  -> IF weak /\ p.v <= b.low - Near THEN p.v ELSE b.low
          [] p.v \in top + 1..b.high    -> Nearer(p.v, top, b.high)
          [] p.v \in b.low..bottom - 1 -> Nearer(p.v, b.low, bottom)
          [] OTHER -> IF top - p.v < p.v - bottom THEN top ELSE bottom

PointFor(o, pane, p) ==
    IF obj[o].mode # "normal" /\ pane = Candle /\ p.t \in DOMAIN Bar
    THEN [p EXCEPT !.v = Magnet(obj[o].mode, p)] ELSE p

-----------------------------------------------------------------------------
(* The Store.                                                              *)

\* createId: an id that no overlay has had.
NewId == CHOOSE o \in Ids : obj[o] = None

\* createOverlay, addOverlays: with all its points an overlay is finished and
\* kept, else it is the one that is drawn, in place of whichever was. The
\* level is the number of overlays in the pane. The tools and the bar leave the
\* id to the Store, which takes a new one; an id that is kept creates nothing.
CreateOverlay(o, kind, group, pane, points) ==
    LET done == Len(points) >= TotalStep(kind) - 1 /\ points # <<>>
        new == [kind |-> kind, group |-> group, pane |-> pane,
                step |-> IF done THEN Finished ELSE Len(points) + 1,
                z |-> Len(list[pane]), prevZ |-> 0,
                lock |-> bar.lock, mode |-> bar.mode,
                points |-> IF done THEN DraggedPoint(kind, points, Last(points)) ELSE points]
        objects == [obj EXCEPT ![o] = new]
    IN  /\ obj[o] = None /\ o = NewId /\ Event
        /\ obj' = objects
        /\ list' = SortedIn(IF done THEN [list EXCEPT ![pane] = Append(@, o)] ELSE list, objects)
        /\ progress' = IF done THEN progress ELSE [id |-> o, pane |-> pane]
        /\ UNCHANGED <<hover, clicked, pressed, grip, bar>>

\* Seeded mutation: the finished drawing stays the one that is drawn.
ProgressKept(o, pane, objects) ==
    /\ list' = [list EXCEPT ![pane] = Sorted(Append(@, o), objects)]
    /\ progress' = [id |-> o, pane |-> pane]

\* progressOverlayComplete
ProgressComplete(o, pane, objects) ==
    /\ list' = [list EXCEPT ![pane] = Sorted(Append(@, o), objects)]
    /\ progress' = None

Without(s, gone) ==
    FoldLeft(LAMBDA kept, o : IF o \in gone THEN kept ELSE Append(kept, o), <<>>, s)

\* removeOverlay of every overlay in a set, the one that is drawn included.
RemoveOverlays(gone) ==
    /\ list' = [p \in Panes |-> Without(list[p], gone)]
    /\ progress' = IF progress # None /\ progress.id \in gone THEN None ELSE progress

\* setHoverOverlayInfo: the overlay that was hovered gets its level back, the
\* one that is goes on top.
Hovered(o, objects) ==
    IF o = hover THEN objects
    ELSE LET left == IF hover = None THEN objects
                     ELSE [objects EXCEPT ![hover].z = objects[hover].prevZ]
         IN  IF o = None THEN left
             ELSE [left EXCEPT ![o].prevZ = left[o].z, ![o].z = OnTop]

SetHover(o, objects, lists) ==
    /\ hover' = o
    /\ obj' = Hovered(o, objects)
    /\ list' = IF o = hover THEN lists ELSE SortedIn(lists, obj')

\* overrideOverlay of every overlay, as the bar calls it; no level changes, so
\* nothing is sorted.
OverrideAll(field, value) == obj' = [o \in Ids |->
    IF o \in Kept \/ (progress # None /\ progress.id = o) THEN [obj[o] EXCEPT ![field] = value] ELSE obj[o]]

\* overrideOverlay of one overlay that is kept: with all its points, which stay
\* aligned; with a level, unless the mouse is on it and it has the highest.
OverridePoints(o, points) ==
    /\ o \in Kept /\ Event
    /\ Len(points) = TotalStep(obj[o].kind) - 1
    /\ obj' = [obj EXCEPT ![o].points = DraggedPoint(obj[o].kind, points, Last(points))]
    /\ UNCHANGED <<list, progress, hover, clicked, pressed, grip, bar>>

OverrideLevel(o, z) ==
    /\ o \in Kept \ {hover} /\ Event
    /\ obj' = [obj EXCEPT ![o].z = z]
    /\ list' = SortedIn(list, obj')
    /\ UNCHANGED <<progress, hover, clicked, pressed, grip, bar>>

-----------------------------------------------------------------------------
(* The mouse over a pane.                                                  *)

\* eventMoveForDrawing: the point of this step is where the mouse is. The
\* first move decides which pane the drawing is in.
DrawTo(o, pane, p) ==
    LET x == obj[o]
        home == IF x.step = 1 THEN pane ELSE progress.pane
        q == PointFor(o, pane, p)
        points == IF Len(x.points) < x.step THEN Append(x.points, q)
                                            ELSE [x.points EXCEPT ![x.step] = q]
    IN  [x EXCEPT !.pane = home,
             !.points = IF home = pane THEN DrawnPoint(x.kind, x.step, points, q) ELSE @]

DrawMove(pane, p) ==
    LET o == progress.id
        x == DrawTo(o, pane, p)
    IN  /\ Drawing /\ Event
        /\ progress' = [progress EXCEPT !.pane = x.pane]
        /\ SetHover(o, [obj EXCEPT ![o] = x], list)
        /\ UNCHANGED <<clicked, pressed, grip, bar>>

\* A click places the point; the last one finishes the drawing. Either way
\* the drawing is the overlay that was clicked.
DrawClick(pane, p) ==
    LET o == progress.id
        moved == DrawTo(o, pane, p)
        last == moved.step = TotalStep(moved.kind) - 1
        x == IF moved.pane # pane THEN moved
             ELSE [moved EXCEPT !.step = IF last THEN Finished ELSE @ + 1]
        objects == [obj EXCEPT ![o] = x]
    IN  /\ Drawing /\ Event
        /\ obj' = objects
        /\ IF x.step = Finished
           THEN ProgressComplete(o, x.pane, objects)
           ELSE progress' = [progress EXCEPT !.pane = x.pane] /\ UNCHANGED list
        /\ clicked' = o
        /\ UNCHANGED <<hover, pressed, grip, bar>>

\* forceComplete: a double click in the pane ends the drawing with the points
\* there are. It follows a click, so the first point is there.
DrawDoubleClick(pane) ==
    LET o == progress.id
        objects == [obj EXCEPT ![o].step = Finished]
    IN  /\ Drawing /\ Event /\ obj[o].step > 1
        /\ IF progress.pane = pane THEN obj' = objects /\ ProgressComplete(o, pane, objects)
                                   ELSE UNCHANGED <<obj, list, progress>>
        /\ clicked' = o
        /\ UNCHANGED <<hover, pressed, grip, bar>>

\* A right click anywhere gives the drawing up.
DrawRightClick ==
    /\ Drawing /\ Event
    /\ RemoveOverlays({progress.id})
    /\ UNCHANGED <<obj, hover, clicked, pressed, grip, bar>>

\* Over an overlay's figure, or over none.
MouseMove(o) ==
    /\ ~Drawing /\ o \in Kept \cup {None} /\ o # hover /\ Event
    /\ SetHover(o, obj, list)
    /\ UNCHANGED <<progress, clicked, pressed, grip, bar>>

MouseClick(o) ==
    /\ ~Drawing /\ o \in Kept \cup {None} /\ o # clicked /\ Event
    /\ clicked' = o
    /\ UNCHANGED <<obj, list, progress, hover, pressed, grip, bar>>

RightClick(o) ==
    /\ ~Drawing /\ o \in Kept /\ Event
    /\ RemoveOverlays({o})
    /\ UNCHANGED <<obj, hover, clicked, pressed, grip, bar>>

\* The figure is a point of the overlay or something else of it. A touch that
\* ends off the chart never releases it: then the next press comes first.
MouseDown(o, figure, p) ==
    /\ ~Drawing /\ o \in Kept /\ Event
    /\ figure = Other \/ figure \in 1..Len(obj[o].points)
    /\ pressed' = [id |-> o, figure |-> figure]
    /\ grip' = [from |-> PointFor(o, obj[o].pane, p), points |-> obj[o].points]
    /\ UNCHANGED <<obj, list, progress, hover, clicked, bar>>

\* eventPressedPointMove moves one point, and what the template ties to it;
\* eventPressedOtherMove moves all points as they were when it was pressed.
Dragged(x, figure, q) ==
    IF figure = Other
    THEN [x EXCEPT !.points = [i \in DOMAIN grip.points |->
              [t |-> grip.points[i].t + q.t - grip.from.t,
               v |-> grip.points[i].v + q.v - grip.from.v]]]
    ELSE [x EXCEPT !.points = DraggedPoint(x.kind, [x.points EXCEPT ![figure] = q], q)]

\* pressedMouseMoveEvent. A drawing may have begun meanwhile.
PressedMove(p) ==
    /\ pressed # None /\ ~obj[pressed.id].lock /\ Event
    /\ obj' = [obj EXCEPT ![pressed.id] =
                  Dragged(@, pressed.figure, PointFor(pressed.id, @.pane, p))]
    /\ UNCHANGED <<list, progress, hover, clicked, pressed, grip, bar>>

MouseUp ==
    /\ pressed # None /\ Event
    /\ pressed' = None
    /\ UNCHANGED <<obj, list, progress, hover, clicked, grip, bar>>

-----------------------------------------------------------------------------
(* The drawing bar and the chart's tools.                                  *)

\* A tool's icon draws in the bar's group, its list draws in none.
PickTool(o, kind) ==
    \E group \in {GroupId, o} : CreateOverlay(o, kind, group, Candle, <<>>)

\* A drawing that comes with its points, in a pane of its choice.
DrawZone(o, kind, pane) ==
    \E p, q \in Points :
        CreateOverlay(o, kind, o, pane, IF kind = "price" THEN <<p>> ELSE <<p, q>>)

SetMode(mode) ==
    /\ bar.mode # mode /\ Event
    /\ bar' = [bar EXCEPT !.mode = mode]
    /\ OverrideAll("mode", mode)
    /\ UNCHANGED <<list, progress, hover, clicked, pressed, grip>>

ToggleLock ==
    /\ Event
    /\ bar' = [bar EXCEPT !.lock = ~@]
    /\ OverrideAll("lock", ~bar.lock)
    /\ UNCHANGED <<list, progress, hover, clicked, pressed, grip>>

\* The bar's bin takes its own group, the clearing tool everything.
Clear(all) ==
    /\ Event
    /\ RemoveOverlays({o \in Ids : obj[o] # None /\ (all \/ obj[o].group = GroupId)})
    /\ UNCHANGED <<obj, hover, clicked, pressed, grip, bar>>

Next ==
    \/ \E o \in Ids, k \in Kinds : PickTool(o, k) \/ \E pane \in Panes : DrawZone(o, k, pane)
    \/ \E pane \in Panes, p \in Points : DrawMove(pane, p) \/ DrawClick(pane, p)
    \/ \E pane \in Panes : DrawDoubleClick(pane)
    \/ DrawRightClick \/ MouseUp \/ ToggleLock
    \/ \E o \in Ids \cup {None} : MouseMove(o) \/ MouseClick(o)
    \/ \E o \in Ids : RightClick(o) \/ \E figure \in {Other, 1, 2}, p \in Points :
                                           MouseDown(o, figure, p)
    \/ \E p \in Points : PressedMove(p)
    \/ \E mode \in Modes : SetMode(mode)
    \/ \E all \in BOOLEAN : Clear(all)
    \/ \E o \in Ids, p, q \in Points : OverridePoints(o, <<p>>) \/ OverridePoints(o, <<p, q>>)
    \/ \E o \in Ids, z \in {0, Cardinality(Ids)} : OverrideLevel(o, z)

Spec == Init /\ [][Next]_vars

-----------------------------------------------------------------------------
(* Properties.                                                             *)

\* A drawing is kept in one place: unfinished as the one that is drawn, or
\* finished, once, in the list of the pane it says it is in.
OneHome ==
    /\ progress # None =>
          /\ obj[progress.id].step # Finished /\ progress.id \notin Kept
          /\ obj[progress.id].pane = progress.pane
    /\ \A p \in Panes : IsInjective(list[p])
          /\ \A i \in DOMAIN list[p] : obj[list[p][i]].step = Finished
                                       /\ obj[list[p][i]].pane = p

\* The drawings of a pane are drawn by their level, and the one under the
\* mouse, and no other, is on top, also one that was just finished or created.
DrawnInOrder ==
    \A p \in Panes :
        /\ \A i, j \in DOMAIN list[p] : i < j => obj[list[p][i]].z <= obj[list[p][j]].z
        /\ \A i \in DOMAIN list[p] : (obj[list[p][i]].z = OnTop) <=> (list[p][i] = hover)

\* A horizontal drawing stays horizontal and a vertical one vertical, however
\* it is drawn, dragged and snapped.
StaysAligned ==
    \A o \in Ids : obj[o] # None /\ Len(obj[o].points) = 2 =>
        /\ obj[o].kind = "horizontal" => obj[o].points[1].v = obj[o].points[2].v
        /\ obj[o].kind = "vertical"   => obj[o].points[1].t = obj[o].points[2].t

\* What was drawn stays where and as it was drawn, through every order of
\* creating, finishing, hovering, dragging and removing.
DrawingsKept == OneHome /\ DrawnInOrder /\ StaysAligned
=============================================================================
