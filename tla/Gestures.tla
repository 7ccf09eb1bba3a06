------------------------------ MODULE Gestures ------------------------------
(***************************************************************************)
(* What the chart makes of the mouse and of fingers: EventHandlerImp turns *)
(* the browser's events into clicks, taps, drags and pinches, and Event    *)
(* turns these into scrolling, zooming and the crosshair.                  *)
(*                                                                         *)
(* Where something happens is a place: the main area of a pane, an axis, a *)
(* separator or nothing. A move is far when it is 5 pixels or more from    *)
(* where the button or finger went down. A timer may fire at any time      *)
(* while it is set. Whether an overlay consumes an event is left open.     *)
(***************************************************************************)
EXTENDS Integers, FiniteSets

CONSTANTS
    Places,       \* "main", "xAxis", "yAxis", "separator", "none"
    Fingers,
    None,
    FlingSteps,   \* frames a fling lasts
    MaxEvents     \* bound: browser events

VARIABLES
    mouse,        \* _mousePressed, _clickCount, _clickTimeoutId, _cancelClick
    fingers,      \* on the target
    touch,        \* the state of touch events, see Init
    pinch,        \* _startPinchMiddleCoordinate and _pinchPrevented
    scroll,       \* _startScrollCoordinate, _prevYAxisRange, the axes' scale starts
    pressed,      \* _mouseDownWidget
    hand,         \* _touchCoordinate, _touchCancelCrosshair, _touchZoomed
    flings,       \* frames left of every fling that goes on
    crosshair,    \* the Store's crosshair is shown
    destroyed,
    event,        \* the last event the chart was told of
    moved,        \* the button, the finger: moved far, or was held, since it went down
    events        \* browser events so far

vars == <<mouse, fingers, touch, pinch, scroll, pressed, hand, flings, crosshair,
          destroyed, event, moved, events>>

Init ==
    /\ mouse = [pressed |-> FALSE, count |-> 0, timer |-> FALSE, cancel |-> FALSE]
    /\ fingers = {}
    /\ touch = [active |-> None, count |-> 0, timer |-> FALSE, cancel |-> FALSE,
                far |-> FALSE, longTimer |-> FALSE, long |-> FALSE, ever |-> FALSE]
    /\ pinch = [on |-> FALSE, prevented |-> FALSE]
    /\ scroll = [start |-> FALSE, range |-> FALSE, xScale |-> FALSE, yScale |-> FALSE]
    /\ pressed = None
    /\ hand = [point |-> FALSE, cancelCrosshair |-> FALSE, zoomed |-> FALSE]
    /\ flings = <<0, 0>> /\ crosshair = FALSE /\ destroyed = FALSE
    /\ event = "none" /\ moved = [mouse |-> FALSE, finger |-> FALSE] /\ events = 0

Browser == ~destroyed /\ events < MaxEvents /\ events' = events + 1

\* _firesTouchEvents: a mouse event the browser makes of a touch; the time
\* since the last touch is not kept.
Emulated == IF touch.ever THEN BOOLEAN ELSE {FALSE}

AtMost2(n) == IF n > 2 THEN 2 ELSE n
NoScroll == [start |-> FALSE, range |-> FALSE, xScale |-> FALSE, yScale |-> FALSE]

\* What a drag starts with on a place: mouseDownEvent, touchStartEvent and
\* the two starts of a scale. The y axis may have a range of its own.
ScrollStart(place, ownRange) ==
    CASE place = "main"  -> [scroll EXCEPT !.start = TRUE, !.range = @ \/ ownRange]
      [] place = "xAxis" -> [scroll EXCEPT !.xScale = TRUE]
      [] place = "yAxis" -> [scroll EXCEPT !.range = TRUE, !.yScale = TRUE]
      [] OTHER -> scroll

-----------------------------------------------------------------------------
(* The mouse.                                                              *)

\* _mouseDownHandler with the left button.
MouseDown(place) ==
    /\ Browser /\ ~mouse.pressed
    /\ moved' = [moved EXCEPT !.mouse = FALSE]
    /\ \E emulated \in Emulated, ownRange \in BOOLEAN :
        IF emulated
        THEN /\ mouse' = [mouse EXCEPT !.pressed = TRUE, !.cancel = FALSE]
             /\ UNCHANGED <<pressed, scroll, event>>
        ELSE /\ mouse' = [pressed |-> TRUE, cancel |-> FALSE, timer |-> TRUE,
                          count |-> IF mouse.timer THEN mouse.count ELSE 0]
             /\ pressed' = place /\ event' = "mouseDown"
             /\ scroll' = ScrollStart(place, ownRange)
    /\ UNCHANGED <<fingers, touch, pinch, hand, flings, crosshair, destroyed>>

\* Seeded mutation: a far move does not cancel the click.
CancelClickNever(far) == FALSE

\* _mouseMoveWithDownHandler: cancelled clicks stay cancelled.
CancelClick(far) == far \/ mouse.cancel

\* A move with the button down; it counts as a drag once it was far.
MouseDrag(place) ==
    /\ Browser /\ mouse.pressed
    /\ \E far \in BOOLEAN, consumed \in BOOLEAN :
        LET cancel == CancelClick(far)
            same == place = pressed /\ place # "none"
        IN  /\ mouse' = [mouse EXCEPT !.cancel = cancel,
                             !.count = IF far THEN 0 ELSE @, !.timer = @ /\ ~far]
            /\ moved' = [moved EXCEPT !.mouse = @ \/ far]
            /\ event' = IF ~cancel THEN event
                        ELSE IF same /\ place = "main" /\ ~consumed THEN "scroll"
                        ELSE IF same /\ place \in {"xAxis", "yAxis"} /\ ~consumed THEN "scale"
                        ELSE "drag"
            /\ crosshair' = IF cancel /\ same /\ place = "main" THEN ~consumed \/ crosshair
                            ELSE crosshair
    /\ UNCHANGED <<fingers, touch, pinch, scroll, pressed, hand, flings, destroyed>>

\* _mouseMoveHandler and mouseMoveEvent: not while something is pressed.
MouseMove(place) ==
    /\ Browser /\ ~mouse.pressed /\ touch.active = None
    /\ \E emulated \in Emulated, consumed \in BOOLEAN :
        IF emulated THEN UNCHANGED <<crosshair, event>>
        ELSE /\ crosshair' = CASE place = "main" -> ~consumed
                               [] place = "none" -> crosshair
                               [] OTHER -> FALSE
             /\ event' = "mouseMove"
    /\ UNCHANGED <<mouse, fingers, touch, pinch, scroll, pressed, hand, flings,
                   destroyed, moved>>

\* _mouseUpHandler and mouseUpEvent, then a click or a double click, which
\* on the y axis may set its range free again.
MouseUp ==
    /\ Browser /\ mouse.pressed
    /\ \E emulated \in Emulated, near \in BOOLEAN :
        IF emulated
        THEN /\ mouse' = [mouse EXCEPT !.pressed = FALSE]
             /\ UNCHANGED <<pressed, scroll, event>>
        ELSE LET count == AtMost2(mouse.count + 1)
                 second == mouse.timer /\ count > 1
             IN  /\ pressed' = None /\ scroll' = NoScroll
                 /\ mouse' = [mouse EXCEPT !.pressed = FALSE,
                                 !.count = IF second THEN 0 ELSE count,
                                 !.timer = @ /\ ~second]
                 /\ event' = IF mouse.cancel THEN "mouseUp"
                             ELSE IF ~second THEN "click"
                             ELSE IF near THEN "doubleClick" ELSE "mouseUp"
    /\ UNCHANGED <<fingers, touch, pinch, hand, flings, crosshair, destroyed, moved>>

\* mouseLeaveEvent takes the crosshair away.
MouseLeave ==
    /\ Browser
    /\ \E emulated \in Emulated : crosshair' = (crosshair /\ emulated)
    /\ UNCHANGED <<mouse, fingers, touch, pinch, scroll, pressed, hand, flings,
                   destroyed, event, moved>>

\* _resetClickTimeout.
ClickTimeout ==
    /\ mouse.timer
    /\ mouse' = [mouse EXCEPT !.timer = FALSE, !.count = 0]
    /\ UNCHANGED <<fingers, touch, pinch, scroll, pressed, hand, flings, crosshair,
                   destroyed, event, moved, events>>

-----------------------------------------------------------------------------
(* Fingers.                                                                *)

\* _checkPinchState with so many touches: a pinch needs two, and none that
\* was dragged or held before.
PinchState(count) ==
    LET prevented == pinch.prevented /\ count # 1
    IN  [on |-> count = 2 /\ ~prevented /\ ~touch.long, prevented |-> prevented]

\* touchStartEvent on the main area: consumed by an overlay it takes the
\* crosshair away and nothing else; else the last fling stops and a scroll
\* may begin. The crosshair moves to a near finger and goes for a far one.
MainTouchStart ==
    \E consumed \in BOOLEAN, ownRange \in BOOLEAN, near \in BOOLEAN :
        IF consumed
        THEN /\ hand' = [hand EXCEPT !.cancelCrosshair = TRUE, !.point = FALSE]
             /\ crosshair' = FALSE
             /\ UNCHANGED <<scroll, flings>>
        ELSE /\ flings' = <<0, flings[2]>>
             /\ scroll' = ScrollStart("main", ownRange)
             /\ hand' = [zoomed |-> FALSE, point |-> hand.point /\ near,
                         cancelCrosshair |-> hand.cancelCrosshair \/ (hand.point /\ ~near)]
             /\ crosshair' = IF hand.point THEN near ELSE crosshair

\* _touchStartHandler, for the first finger, then the pinch, which starts
\* anew with every second one.
TouchStart(f, place) ==
    /\ Browser /\ f \notin fingers
    /\ fingers' = fingers \cup {f}
    /\ pinch' = PinchState(Cardinality(fingers'))
    /\ IF touch.active # None
       THEN /\ touch' = [touch EXCEPT !.longTimer = @ /\ ~pinch'.on]
            /\ hand' = [hand EXCEPT !.zoomed = @ \/ pinch'.on]
            /\ event' = "finger"
            /\ UNCHANGED <<scroll, flings, crosshair, moved>>
       ELSE /\ touch' = [touch EXCEPT !.active = f, !.cancel = FALSE, !.far = FALSE,
                            !.longTimer = ~pinch'.on, !.ever = TRUE, !.timer = TRUE,
                            !.count = IF touch.timer THEN touch.count ELSE 0]
            /\ moved' = [moved EXCEPT !.finger = FALSE]
            /\ event' = "touchStart"
            /\ IF place = "main" THEN MainTouchStart
               ELSE scroll' = ScrollStart(place, TRUE) /\ UNCHANGED <<hand, flings, crosshair>>
    /\ UNCHANGED <<mouse, pressed, destroyed>>

\* _touchMoveHandler for the first finger and touchMoveEvent: nothing while
\* pinching, nothing until the finger was far, then a drag.
TouchMove(place) ==
    /\ Browser /\ touch.active \in fingers /\ ~pinch.on
    /\ pinch' = [pinch EXCEPT !.prevented = TRUE]
    /\ \E far \in BOOLEAN, consumed \in BOOLEAN :
        LET drag == far \/ touch.far
        IN  /\ touch' = IF drag /\ ~touch.far
                        THEN [touch EXCEPT !.far = TRUE, !.cancel = TRUE,
                                 !.longTimer = FALSE, !.timer = FALSE, !.count = 0]
                        ELSE touch
            /\ moved' = [moved EXCEPT !.finger = @ \/ far]
            /\ event' = IF ~drag THEN event
                        ELSE CASE place = "main" /\ ~consumed /\ ~hand.point
                                      /\ scroll.start -> "scroll"
                               [] place \in {"xAxis", "yAxis"} /\ ~consumed -> "scale"
                               [] OTHER -> "drag"
            /\ crosshair' = IF drag /\ place = "main"
                            THEN IF consumed THEN FALSE ELSE crosshair \/ hand.point
                            ELSE crosshair
    /\ UNCHANGED <<mouse, fingers, scroll, pressed, hand, flings, destroyed>>

\* The second listener of a move: two fingers that pinch zoom the main area.
PinchMove ==
    /\ Browser /\ pinch.on /\ Cardinality(fingers) = 2
    /\ event' = "pinch"
    /\ UNCHANGED <<mouse, fingers, touch, pinch, scroll, pressed, hand, flings,
                   crosshair, destroyed, moved>>

\* touchEndEvent: on the main area a fast drag goes on as a fling, which takes
\* the place of the one that can be cancelled, and nothing is reset.
TouchEndEvent(place) ==
    CASE place = "main" ->
            /\ UNCHANGED scroll
            /\ \E fast \in BOOLEAN :
                  flings' = IF scroll.start /\ fast
                            THEN <<FlingSteps, IF flings[1] > flings[2] THEN flings[1]
                                               ELSE flings[2]>>
                            ELSE flings
      [] place = "none" -> UNCHANGED <<scroll, flings>>
      [] OTHER -> scroll' = NoScroll /\ UNCHANGED flings

\* The end of a touch is a tap unless it is the second one in time, or the
\* tap was cancelled.
IsTap(second) == ~second /\ ~touch.cancel

\* tapEvent on the main area: consumed by an overlay it takes the crosshair
\* away, else it shows it unless the finger had cancelled it or zoomed.
MainTap ==
    \E consumed \in BOOLEAN :
        LET show == ~hand.cancelCrosshair /\ ~hand.zoomed
        IN  /\ hand' = IF consumed
                       THEN [hand EXCEPT !.cancelCrosshair = TRUE, !.point = FALSE]
                       ELSE [hand EXCEPT !.cancelCrosshair = FALSE, !.point = @ \/ show]
            /\ crosshair' = IF consumed THEN FALSE ELSE crosshair \/ show

\* The pinch first, then _touchEndHandler: for the first finger, or for the
\* last one on the target when the end of the first was missed.
TouchEnd(f, place) ==
    /\ Browser /\ f \in fingers
    /\ fingers' = fingers \ {f}
    /\ pinch' = PinchState(Cardinality(fingers'))
    /\ IF touch.active = None \/ (touch.active # f /\ fingers' # {})
       THEN /\ event' = "finger"
            /\ UNCHANGED <<touch, scroll, hand, flings, crosshair>>
       ELSE LET count == AtMost2(touch.count + 1)
                second == touch.timer /\ count > 1
                tap == IsTap(second)
            IN  /\ touch' = [touch EXCEPT !.active = None, !.longTimer = FALSE,
                                !.count = IF second THEN 0 ELSE count,
                                !.timer = @ /\ ~second,
                                !.long = @ /\ fingers' # {}]
                /\ TouchEndEvent(place)
                /\ \E near \in BOOLEAN :
                      event' = IF tap THEN "tap"
                               ELSE IF second /\ ~touch.cancel /\ near THEN "doubleTap"
                               ELSE "touchEnd"
                /\ IF tap /\ place = "main" THEN MainTap ELSE UNCHANGED <<hand, crosshair>>
    /\ UNCHANGED <<mouse, pressed, destroyed, moved>>

\* touchcancel: only the timer of the long tap knows.
TouchCancel(f) ==
    /\ Browser /\ f \in fingers
    /\ fingers' = fingers \ {f}
    /\ touch' = [touch EXCEPT !.longTimer = FALSE]
    /\ event' = "finger"
    /\ UNCHANGED <<mouse, pinch, scroll, pressed, hand, flings, crosshair, destroyed,
                   moved>>

\* _longTapHandler: the crosshair is put under the finger, if it is there.
LongTap(place) ==
    /\ touch.longTimer
    /\ IF touch.active \in fingers
       THEN /\ touch' = [touch EXCEPT !.longTimer = FALSE, !.cancel = TRUE, !.long = TRUE]
            /\ event' = "longTap" /\ moved' = [moved EXCEPT !.finger = TRUE]
            /\ hand' = [hand EXCEPT !.point = @ \/ place = "main"]
            /\ crosshair' = (crosshair \/ place = "main")
       ELSE /\ touch' = [touch EXCEPT !.longTimer = FALSE]
            /\ UNCHANGED <<event, moved, hand, crosshair>>
    /\ UNCHANGED <<mouse, fingers, pinch, scroll, pressed, flings, destroyed, events>>

\* _resetTapTimeout.
TapTimeout ==
    /\ touch.timer
    /\ touch' = [touch EXCEPT !.timer = FALSE, !.count = 0]
    /\ UNCHANGED <<mouse, fingers, pinch, scroll, pressed, hand, flings, crosshair,
                   destroyed, event, moved, events>>

\* Seeded mutation: the speed is left as it is.
SlowerNot(left) == left

\* One frame: the speed goes down by a fortieth until it is below one.
Slower(left) == left - 1

\* A frame of a fling scrolls. The one that ends cancels whatever frame is
\* asked for last, which may be another's.
FlingFrame(k) ==
    /\ flings[k] > 0
    /\ flings' = IF Slower(flings[k]) = 0 THEN <<0, IF k = 1 THEN flings[2] ELSE 0>>
                 ELSE [flings EXCEPT ![k] = Slower(@)]
    /\ event' = "fling"
    /\ UNCHANGED <<mouse, fingers, touch, pinch, scroll, pressed, hand, crosshair,
                   destroyed, moved, events>>

\* destroy: the listeners and two timers go, a fling goes on.
Destroy ==
    /\ ~destroyed
    /\ destroyed' = TRUE
    /\ mouse' = [mouse EXCEPT !.timer = FALSE, !.count = 0]
    /\ touch' = [touch EXCEPT !.longTimer = FALSE]
    /\ UNCHANGED <<fingers, pinch, scroll, pressed, hand, flings, crosshair, event,
                   moved, events>>

Frame == \E k \in 1..2 : FlingFrame(k)

Next ==
    \/ \E p \in Places : MouseDown(p) \/ MouseDrag(p) \/ MouseMove(p) \/ TouchMove(p)
                         \/ LongTap(p)
    \/ \E p \in Places, f \in Fingers : TouchStart(f, p) \/ TouchEnd(f, p)
    \/ \E f \in Fingers : TouchCancel(f)
    \/ MouseUp \/ MouseLeave \/ ClickTimeout \/ TapTimeout \/ PinchMove \/ Frame \/ Destroy

\* The browser goes on calling back for frames.
Spec == Init /\ [][Next]_vars /\ WF_vars(Frame)

-----------------------------------------------------------------------------
(* Properties.                                                             *)

\* A button or finger that moved far since it went down never clicks or taps,
\* and neither does a finger that was held, also when another finger, the
\* mouse or a timer comes between (EventHandler.ts:404, 509, 538).
ClicksWereStill ==
    event' # event =>
        /\ event' \in {"click", "doubleClick"} => ~moved.mouse
        /\ event' \in {"tap", "doubleTap"} => ~moved.finger

\* Fingers pinch or drag: once the first finger moved, a second one starts no
\* pinch before all but one are up, and nothing scrolls while they pinch
\* (EventHandler.ts:341, 834).
OneOfTheTwo ==
    /\ pinch'.on /\ ~pinch.on => ~pinch.prevented \/ Cardinality(fingers') = 1
    /\ event' = "scroll" /\ event # "scroll" /\ fingers # {} /\ ~mouse.pressed => ~pinch.on

\* What a button or a finger does in a step is one gesture.
OneGesture == ClicksWereStill /\ OneOfTheTwo

\* Every fling comes to an end, also two at once, of which only one can be
\* cancelled.
Calm == flings = <<0, 0>>
FlingsEnd == <>[]Calm
=============================================================================
