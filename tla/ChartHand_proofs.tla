-------------------------- MODULE ChartHand_proofs --------------------------
(***************************************************************************)
(* What the hand does to the chart (MCChartHand). A press is one gesture,  *)
(* for every set of places and fingers, every number of events, and        *)
(* whatever timers fire between them; what was drawn stays where and as it *)
(* was drawn, for every number of overlays, panes, points and events; the  *)
(* view shows the bars it is over, and stays over them, for every width,   *)
(* page and limit; the axes show the values they stand for, for all values *)
(* and drags; an index comes back from its time, for every calendar; a     *)
(* drawing is hit where it was put, for every sheet; legends and icons can *)
(* be read and pressed, for all widths, values and margins.                *)
(***************************************************************************)
EXTENDS MCChartHand, FiniteSetTheorems, Induction, TLAPS

MouseTyped == [pressed : BOOLEAN, count : Nat, timer : BOOLEAN, cancel : BOOLEAN]
TouchTyped == [active : Fingers \cup {None}, count : Nat, timer : BOOLEAN, cancel : BOOLEAN,
          far : BOOLEAN, longTimer : BOOLEAN, long : BOOLEAN, ever : BOOLEAN]

HandTyped ==
    /\ mouse \in MouseTyped
    /\ touch \in TouchTyped
    /\ moved \in [mouse : BOOLEAN, finger : BOOLEAN]

\* The handler remembers what moved: a far move cancels the click or tap of
\* the press it belongs to, and only the next press takes that back.
MovesCancel ==
    /\ moved.mouse => mouse.cancel
    /\ moved.finger \/ touch.far => touch.cancel

HandInv == HandTyped /\ MovesCancel

LEMMA HandInit == Hand!Init => HandInv
  BY DEF Hand!Init, HandInv, HandTyped, MouseTyped, TouchTyped, MovesCancel

LEMMA CountTyped == ASSUME NEW n \in Nat PROVE Hand!AtMost2(n) \in Nat
  BY DEF Hand!AtMost2

LEMMA ElseKeeps ==
    ASSUME HandInv, UNCHANGED <<mouse, touch, moved>>
    PROVE  HandInv'
  BY DEF HandInv, HandTyped, MovesCancel

\* What a step of the mouse may do: type the mouse, and drop no move it made.
LEMMA MouseEnough ==
    ASSUME HandInv, UNCHANGED touch, mouse' \in MouseTyped,
           moved' \in [mouse : BOOLEAN, finger : BOOLEAN],
           moved'.finger = moved.finger, moved'.mouse => mouse'.cancel
    PROVE  HandInv'
  BY DEF HandInv, HandTyped, MovesCancel

LEMMA TouchEnough ==
    ASSUME HandInv, UNCHANGED mouse, touch' \in TouchTyped,
           moved' \in [mouse : BOOLEAN, finger : BOOLEAN],
           moved'.mouse = moved.mouse, moved'.finger \/ touch'.far => touch'.cancel
    PROVE  HandInv'
  BY DEF HandInv, HandTyped, MovesCancel

LEMMA MouseDownKeeps ==
    ASSUME HandInv, NEW p, Hand!MouseDown(p)
    PROVE  HandInv'
  <1>1. mouse \in MouseTyped /\ moved \in [mouse : BOOLEAN, finger : BOOLEAN]
    BY DEF HandInv, HandTyped
  <1>2. /\ moved' \in [mouse : BOOLEAN, finger : BOOLEAN]
        /\ moved'.finger = moved.finger /\ moved'.mouse = FALSE
    BY <1>1 DEF Hand!MouseDown
  <1> DEFINE n == IF mouse.timer THEN mouse.count ELSE 0
  <1>3. \/ mouse' = [mouse EXCEPT !.pressed = TRUE, !.cancel = FALSE]
        \/ mouse' = [pressed |-> TRUE, cancel |-> FALSE, timer |-> TRUE, count |-> n]
    BY DEF Hand!MouseDown
  <1>4. mouse' \in MouseTyped
    <2>1. n \in Nat
      BY <1>1 DEF MouseTyped
    <2> HIDE DEF n
    <2>2. [pressed |-> TRUE, cancel |-> FALSE, timer |-> TRUE, count |-> n] \in MouseTyped
      BY <2>1 DEF MouseTyped
    <2>3. [mouse EXCEPT !.pressed = TRUE, !.cancel = FALSE] \in MouseTyped
      BY <1>1 DEF MouseTyped
    <2> QED
      BY <1>3, <2>2, <2>3
  <1>5. UNCHANGED touch
    BY DEF Hand!MouseDown
  <1> QED
    BY <1>2, <1>4, <1>5, MouseEnough

LEMMA MouseDragKeeps ==
    ASSUME HandInv, NEW p, Hand!MouseDrag(p)
    PROVE  HandInv'
  <1>1. mouse \in MouseTyped /\ moved \in [mouse : BOOLEAN, finger : BOOLEAN]
        /\ (moved.mouse => mouse.cancel)
    BY DEF HandInv, HandTyped, MovesCancel
  <1>2. PICK far \in BOOLEAN :
           /\ mouse' = [mouse EXCEPT !.cancel = Hand!CancelClick(far),
                           !.count = IF far THEN 0 ELSE @, !.timer = @ /\ ~far]
           /\ moved' = [moved EXCEPT !.mouse = @ \/ far]
           /\ UNCHANGED touch
    BY DEF Hand!MouseDrag
  <1>3. Hand!CancelClick(far) \in BOOLEAN /\ (far => Hand!CancelClick(far))
        /\ (mouse.cancel => Hand!CancelClick(far))
    BY <1>1 DEF Hand!CancelClick, MouseTyped
  <1>4. mouse' \in MouseTyped /\ mouse'.cancel = Hand!CancelClick(far)
    BY <1>1, <1>2, <1>3 DEF MouseTyped
  <1>5. /\ moved' \in [mouse : BOOLEAN, finger : BOOLEAN]
        /\ moved'.finger = moved.finger /\ moved'.mouse = (moved.mouse \/ far)
    BY <1>1, <1>2
  <1> QED
    BY <1>1, <1>2, <1>3, <1>4, <1>5, MouseEnough

LEMMA MouseUpKeeps ==
    ASSUME HandInv, Hand!MouseUp \/ Hand!ClickTimeout
    PROVE  HandInv'
  <1>1. mouse \in MouseTyped
    BY DEF HandInv, HandTyped
  <1>2. mouse' \in MouseTyped /\ mouse'.cancel = mouse.cancel
    <2>1. Hand!AtMost2(mouse.count + 1) \in Nat
      BY <1>1, CountTyped DEF MouseTyped
    <2>2. CASE Hand!MouseUp
      <3> DEFINE clicks == Hand!AtMost2(mouse.count + 1)
                 second == mouse.timer /\ clicks > 1
                 once == [mouse EXCEPT !.pressed = FALSE]
                 up == [mouse EXCEPT !.pressed = FALSE, !.count = IF second THEN 0 ELSE clicks,
                           !.timer = @ /\ ~second]
      <3>1. mouse' = once \/ mouse' = up
        BY <2>2 DEF Hand!MouseUp
      <3>2. second \in BOOLEAN /\ clicks \in Nat
        BY <2>1
      <3>3. once \in MouseTyped /\ once.cancel = mouse.cancel
        BY <1>1 DEF MouseTyped
      <3>4. up \in MouseTyped /\ up.cancel = mouse.cancel
        <4> HIDE DEF second, clicks
        <4>1. CASE second
          BY <1>1, <3>2, <4>1 DEF MouseTyped
        <4>2. CASE ~second
          BY <1>1, <3>2, <4>2 DEF MouseTyped
        <4> QED
          BY <4>1, <4>2
      <3> HIDE DEF once, up
      <3> QED
        BY <3>1, <3>3, <3>4
    <2>3. CASE Hand!ClickTimeout
      BY <1>1, <2>3 DEF Hand!ClickTimeout, MouseTyped
    <2> QED
      BY <2>2, <2>3
  <1>3. UNCHANGED <<touch, moved>>
    BY DEF Hand!MouseUp, Hand!ClickTimeout
  <1> QED
    BY <1>2, <1>3, MouseEnough DEF HandInv, HandTyped, MovesCancel

LEMMA TouchStartKeeps ==
    ASSUME HandInv, NEW p, NEW f \in Fingers, Hand!TouchStart(f, p)
    PROVE  HandInv'
  <1>1. touch \in TouchTyped /\ moved \in [mouse : BOOLEAN, finger : BOOLEAN]
        /\ (moved.finger \/ touch.far => touch.cancel)
    BY DEF HandInv, HandTyped, MovesCancel
  <1>2. pinch'.on \in BOOLEAN
    <2>1. touch.long \in BOOLEAN
      BY <1>1 DEF TouchTyped
    <2>2. pinch' = Hand!PinchState(Hand!Cardinality(fingers'))
      BY DEF Hand!TouchStart
    <2> QED
      BY <2>1, <2>2 DEF Hand!PinchState
  <1>3. CASE touch.active # None
    <2>1. touch' = [touch EXCEPT !.longTimer = @ /\ ~pinch'.on] /\ UNCHANGED <<mouse, moved>>
      BY <1>3 DEF Hand!TouchStart
    <2>2. touch' \in TouchTyped /\ touch'.far = touch.far /\ touch'.cancel = touch.cancel
      BY <1>1, <1>2, <2>1 DEF TouchTyped
    <2> QED
      BY <1>1, <2>1, <2>2, TouchEnough
  <1>4. CASE touch.active = None
    <2>1. /\ touch' = [touch EXCEPT !.active = f, !.cancel = FALSE, !.far = FALSE,
                            !.longTimer = ~pinch'.on, !.ever = TRUE, !.timer = TRUE,
                            !.count = IF touch.timer THEN touch.count ELSE 0]
          /\ moved' = [moved EXCEPT !.finger = FALSE] /\ UNCHANGED mouse
      BY <1>4 DEF Hand!TouchStart
    <2>2. touch' \in TouchTyped /\ touch'.far = FALSE
      BY <1>1, <1>2, <2>1 DEF TouchTyped
    <2>3. /\ moved' \in [mouse : BOOLEAN, finger : BOOLEAN]
          /\ moved'.mouse = moved.mouse /\ moved'.finger = FALSE
      BY <1>1, <2>1
    <2> QED
      BY <2>1, <2>2, <2>3, TouchEnough
  <1> QED
    BY <1>3, <1>4

LEMMA TouchMoveKeeps ==
    ASSUME HandInv, NEW p, Hand!TouchMove(p)
    PROVE  HandInv'
  <1>1. touch \in TouchTyped /\ moved \in [mouse : BOOLEAN, finger : BOOLEAN]
        /\ (moved.finger \/ touch.far => touch.cancel)
    BY DEF HandInv, HandTyped, MovesCancel
  <1>2. PICK far \in BOOLEAN :
           /\ touch' = IF (far \/ touch.far) /\ ~touch.far
                        THEN [touch EXCEPT !.far = TRUE, !.cancel = TRUE,
                                 !.longTimer = FALSE, !.timer = FALSE, !.count = 0]
                        ELSE touch
           /\ moved' = [moved EXCEPT !.finger = @ \/ far]
           /\ UNCHANGED mouse
    BY DEF Hand!TouchMove
  <1>3. /\ moved' \in [mouse : BOOLEAN, finger : BOOLEAN]
        /\ moved'.mouse = moved.mouse /\ moved'.finger = (moved.finger \/ far)
    BY <1>1, <1>2
  <1>4. CASE far /\ ~touch.far
    <2>1. touch' \in TouchTyped /\ touch'.cancel = TRUE
      BY <1>1, <1>2, <1>4 DEF TouchTyped
    <2> QED
      BY <1>2, <1>3, <2>1, TouchEnough
  <1>5. CASE ~far \/ touch.far
    <2>1. touch' = touch
      BY <1>2, <1>5
    <2> QED
      BY <1>1, <1>2, <1>3, <1>5, <2>1, TouchEnough
  <1> QED
    BY <1>4, <1>5

LEMMA TouchEndKeeps ==
    ASSUME HandInv, NEW p, NEW f \in Fingers, Hand!TouchEnd(f, p) \/ Hand!TouchCancel(f) \/ Hand!TapTimeout
    PROVE  HandInv'
  <1>1. touch \in TouchTyped /\ moved \in [mouse : BOOLEAN, finger : BOOLEAN]
        /\ (moved.finger \/ touch.far => touch.cancel)
    BY DEF HandInv, HandTyped, MovesCancel
  <1>2. touch' \in TouchTyped /\ touch'.cancel = touch.cancel /\ touch'.far = touch.far
    <2>1. Hand!AtMost2(touch.count + 1) \in Nat
      BY <1>1, CountTyped DEF TouchTyped
    <2>2. CASE Hand!TouchEnd(f, p) /\ touch' = touch
      BY <1>1, <2>2
    <2>3. CASE Hand!TouchEnd(f, p) /\ touch' # touch
      <3> DEFINE taps == Hand!AtMost2(touch.count + 1)
                 second == touch.timer /\ taps > 1
                 left == fingers' # {}
      <3>1. touch' = [touch EXCEPT !.active = None, !.longTimer = FALSE,
                         !.count = IF second THEN 0 ELSE taps,
                         !.timer = @ /\ ~second, !.long = @ /\ left]
        BY <2>3 DEF Hand!TouchEnd
      <3>2. second \in BOOLEAN /\ left \in BOOLEAN /\ taps \in Nat
        BY <2>1
      <3> HIDE DEF second, taps, left
      <3>3. CASE second
        BY <1>1, <3>1, <3>2, <3>3 DEF TouchTyped
      <3>4. CASE ~second
        BY <1>1, <3>1, <3>2, <3>4 DEF TouchTyped
      <3> QED
        BY <3>3, <3>4
    <2>4. CASE Hand!TouchCancel(f)
      BY <1>1, <2>4 DEF Hand!TouchCancel, TouchTyped
    <2>5. CASE Hand!TapTimeout
      BY <1>1, <2>5 DEF Hand!TapTimeout, TouchTyped
    <2> QED
      BY <2>2, <2>3, <2>4, <2>5
  <1>3. UNCHANGED <<mouse, moved>>
    BY DEF Hand!TouchEnd, Hand!TouchCancel, Hand!TapTimeout
  <1> QED
    BY <1>1, <1>2, <1>3, TouchEnough

\* A finger that was held counts as moved, and its tap is cancelled.
LEMMA LongTapKeeps ==
    ASSUME HandInv, NEW p, Hand!LongTap(p)
    PROVE  HandInv'
  <1>1. touch \in TouchTyped /\ moved \in [mouse : BOOLEAN, finger : BOOLEAN]
        /\ (moved.finger \/ touch.far => touch.cancel)
    BY DEF HandInv, HandTyped, MovesCancel
  <1>2. CASE touch.active \in fingers
    <2>1. touch' \in TouchTyped /\ touch'.cancel = TRUE
      BY <1>1, <1>2 DEF Hand!LongTap, TouchTyped
    <2>2. moved' \in [mouse : BOOLEAN, finger : BOOLEAN] /\ moved'.mouse = moved.mouse
      BY <1>1, <1>2 DEF Hand!LongTap
    <2> QED
      BY <2>1, <2>2, TouchEnough DEF Hand!LongTap
  <1>3. CASE touch.active \notin fingers
    <2>1. touch' \in TouchTyped /\ touch'.cancel = touch.cancel /\ touch'.far = touch.far
      BY <1>1, <1>3 DEF Hand!LongTap, TouchTyped
    <2>2. UNCHANGED <<mouse, moved>>
      BY <1>3 DEF Hand!LongTap
    <2> QED
      BY <1>1, <2>1, <2>2, TouchEnough
  <1> QED
    BY <1>2, <1>3

\* The listeners go, and two of the timers.
LEMMA DestroyKeeps ==
    ASSUME HandInv, Hand!Destroy
    PROVE  HandInv'
  <1>1. mouse \in MouseTyped /\ touch \in TouchTyped
    BY DEF HandInv, HandTyped
  <1>2. mouse' \in MouseTyped /\ mouse'.cancel = mouse.cancel
    BY <1>1 DEF Hand!Destroy, MouseTyped
  <1>3. touch' \in TouchTyped /\ touch'.cancel = touch.cancel /\ touch'.far = touch.far
    BY <1>1 DEF Hand!Destroy, TouchTyped
  <1>4. UNCHANGED moved
    BY DEF Hand!Destroy
  <1> QED
    BY <1>2, <1>3, <1>4 DEF HandInv, HandTyped, MovesCancel

LEMMA HandStep == HandInv /\ [Hand!Next]_(Hand!vars) => HandInv'
  <1> SUFFICES ASSUME HandInv, [Hand!Next]_(Hand!vars) PROVE HandInv'
    OBVIOUS
  <1>1. ASSUME NEW p, Hand!MouseDown(p) \/ Hand!MouseDrag(p) \/ Hand!MouseMove(p) \/ Hand!TouchMove(p)
                        \/ Hand!LongTap(p)
        PROVE  HandInv'
    BY <1>1, MouseDownKeeps, MouseDragKeeps, TouchMoveKeeps, LongTapKeeps, ElseKeeps
       DEF Hand!MouseMove
  <1>2. ASSUME NEW p, NEW f \in Fingers, Hand!TouchStart(f, p) \/ Hand!TouchEnd(f, p) PROVE HandInv'
    BY <1>2, TouchStartKeeps, TouchEndKeeps
  <1>3. ASSUME NEW f \in Fingers, Hand!TouchCancel(f) PROVE HandInv'
    BY <1>3, TouchEndKeeps
  <1>4. CASE Hand!MouseUp \/ Hand!ClickTimeout
    BY <1>4, MouseUpKeeps
  <1>5. CASE Hand!MouseLeave \/ Hand!PinchMove
    BY <1>5, ElseKeeps DEF Hand!MouseLeave, Hand!PinchMove
  <1>6. CASE Hand!TapTimeout
    <2>1. touch \in TouchTyped /\ touch' = [touch EXCEPT !.timer = FALSE, !.count = 0]
          /\ UNCHANGED <<mouse, moved>>
      BY <1>6 DEF Hand!TapTimeout, HandInv, HandTyped
    <2>2. touch' \in TouchTyped /\ touch'.cancel = touch.cancel /\ touch'.far = touch.far
      BY <2>1 DEF TouchTyped
    <2> QED
      BY <2>1, <2>2, TouchEnough DEF HandInv, HandTyped, MovesCancel
  <1>7. CASE Hand!Frame
    BY <1>7, ElseKeeps DEF Hand!Frame, Hand!FlingFrame
  <1>8. CASE Hand!Destroy
    BY <1>8, DestroyKeeps
  <1>9. CASE UNCHANGED Hand!vars
    BY <1>9, ElseKeeps DEF Hand!vars
  <1> QED
    BY <1>1, <1>2, <1>3, <1>4, <1>5, <1>6, <1>7, <1>8, <1>9 DEF Hand!Next

-----------------------------------------------------------------------------
\* The state of the pinch, of its fingers alone.
PinchTyped == [on : BOOLEAN, prevented : BOOLEAN]

LEMMA PinchStateTyped ==
    ASSUME HandInv, pinch \in PinchTyped, NEW touching
    PROVE  /\ Hand!PinchState(touching) \in PinchTyped
           /\ Hand!PinchState(touching).on => ~pinch.prevented \/ touching = 1
  <1>1. touch.long \in BOOLEAN
    <2>1. touch \in TouchTyped
      BY DEF HandInv, HandTyped
    <2> QED
      BY <2>1 DEF TouchTyped
  <1>2. pinch.prevented \in BOOLEAN
    BY DEF PinchTyped
  <1> DEFINE prevented == pinch.prevented /\ touching # 1
             on == touching = 2 /\ ~prevented /\ ~touch.long
  <1>3. Hand!PinchState(touching) = [on |-> on, prevented |-> prevented]
    BY DEF Hand!PinchState
  <1>4. on \in BOOLEAN /\ prevented \in BOOLEAN /\ (on => ~pinch.prevented \/ touching = 1)
    BY <1>1, <1>2
  <1> HIDE DEF on, prevented
  <1> QED
    BY <1>3, <1>4 DEF PinchTyped

\* A pinch begins only where PinchState lets it.
LEMMA PinchStep ==
    ASSUME HandInv, pinch \in PinchTyped, [Hand!Next]_(Hand!vars)
    PROVE  /\ pinch' \in PinchTyped
           /\ pinch'.on /\ ~pinch.on => ~pinch.prevented \/ Hand!Cardinality(fingers') = 1
  <1>1. ASSUME NEW p, NEW f, Hand!TouchStart(f, p) \/ Hand!TouchEnd(f, p)
        PROVE  pinch' = Hand!PinchState(Hand!Cardinality(fingers'))
    BY <1>1 DEF Hand!TouchStart, Hand!TouchEnd
  <1>2. ASSUME NEW p, Hand!TouchMove(p) PROVE pinch' \in PinchTyped /\ pinch'.on = pinch.on
    BY <1>2 DEF Hand!TouchMove, PinchTyped
  <1>3. \/ UNCHANGED pinch
        \/ \E p \in Places : Hand!TouchMove(p)
        \/ \E p \in Places, f \in Fingers : Hand!TouchStart(f, p) \/ Hand!TouchEnd(f, p)
    BY DEF Hand!Next, Hand!vars, Hand!MouseDown, Hand!MouseDrag, Hand!MouseMove,
           Hand!LongTap, Hand!TouchCancel, Hand!MouseUp,
           Hand!MouseLeave, Hand!ClickTimeout, Hand!TapTimeout, Hand!PinchMove,
           Hand!Frame, Hand!FlingFrame, Hand!Destroy
  <1> QED
    BY <1>1, <1>2, <1>3, PinchStateTyped

\* Clicks and taps are given only by the end of a press that was not cancelled.
LEMMA EventStep ==
    ASSUME HandInv, [Hand!Next]_(Hand!vars)
    PROVE  Hand!ClicksWereStill
  <1> USE DEF HandInv, MovesCancel
  <1> DEFINE Clicks == {"click", "doubleClick", "tap", "doubleTap"}
  <1>1. CASE Hand!MouseUp
    <2>1. event' \in {event, "mouseUp"}
          \/ (~mouse.cancel /\ event' \in {"click", "doubleClick", "mouseUp"})
      BY <1>1 DEF Hand!MouseUp
    <2> QED
      BY <2>1 DEF Hand!ClicksWereStill
  <1>2. ASSUME NEW p, NEW f, Hand!TouchEnd(f, p) PROVE Hand!ClicksWereStill
    <2>1. event' \in {"finger", "touchEnd"}
          \/ (~touch.cancel /\ event' \in {"tap", "doubleTap", "touchEnd"})
      BY <1>2 DEF Hand!TouchEnd, Hand!IsTap
    <2> QED
      BY <2>1 DEF Hand!ClicksWereStill
  <1>3. ASSUME NEW p, Hand!MouseDown(p) \/ Hand!MouseMove(p) \/ Hand!LongTap(p) PROVE event' = event \/ event' \notin Clicks
    BY <1>3 DEF Hand!MouseDown, Hand!MouseMove, Hand!LongTap
  <1>4. ASSUME NEW p, Hand!MouseDrag(p) PROVE event' = event \/ event' \notin Clicks
    BY <1>4 DEF Hand!MouseDrag
  <1>5. ASSUME NEW p, Hand!TouchMove(p) PROVE event' = event \/ event' \notin Clicks
    BY <1>5 DEF Hand!TouchMove
  <1>6. ASSUME NEW p, NEW f, Hand!TouchStart(f, p) \/ Hand!TouchCancel(f) PROVE event' \notin Clicks
    BY <1>6 DEF Hand!TouchStart, Hand!TouchCancel
  <1>7. CASE Hand!MouseLeave \/ Hand!ClickTimeout \/ Hand!TapTimeout \/ Hand!PinchMove \/ Hand!Frame \/ Hand!Destroy \/ UNCHANGED Hand!vars
    <2>1. event' = event \/ event' \notin Clicks
      BY <1>7 DEF Hand!MouseLeave, Hand!ClickTimeout, Hand!TapTimeout, Hand!PinchMove,
                  Hand!Frame, Hand!FlingFrame,
                  Hand!Destroy, Hand!vars
    <2> QED
      BY <2>1 DEF Hand!ClicksWereStill
  <1> QED
    BY <1>1, <1>2, <1>3, <1>4, <1>5, <1>6, <1>7 DEF Hand!Next, Hand!ClicksWereStill

\* A scroll begins under a pressed button, or a finger that does not pinch.
LEMMA ScrollStep ==
    ASSUME [Hand!Next]_(Hand!vars), event' = "scroll", event # "scroll"
    PROVE  mouse.pressed \/ ~pinch.on
  <1>1. \E p \in Places : Hand!MouseDrag(p) \/ Hand!TouchMove(p)
    BY DEF Hand!Next, Hand!vars, Hand!MouseDown, Hand!MouseMove, Hand!LongTap,
           Hand!TouchStart, Hand!TouchEnd, Hand!IsTap,
           Hand!TouchCancel, Hand!MouseUp, Hand!MouseLeave, Hand!ClickTimeout,
           Hand!TapTimeout, Hand!PinchMove, Hand!Frame,
           Hand!FlingFrame, Hand!Destroy
  <1> QED
    BY <1>1 DEF Hand!MouseDrag, Hand!TouchMove

\* A button or finger that moved far, or was held, never clicks or taps, and
\* fingers either pinch or drag (EventHandlerImp).
THEOREM OneGestureAPress == Spec => OneGesture
  <1> DEFINE Inv == part = "hand" => HandInv /\ pinch \in PinchTyped
  <1>1. Init => Inv
    <2>1. Hand!Init => pinch \in PinchTyped
      BY DEF Hand!Init, PinchTyped
    <2> QED
      BY <2>1, HandInit DEF Init
  <1>2. ASSUME Inv, [Next]_vars, part' = "hand"
        PROVE  /\ part = "hand" /\ [Hand!Next]_(Hand!vars)
               /\ HandInv /\ pinch \in PinchTyped
    BY <1>2 DEF Next, InHand, InDraw, InScale, InRulers, InLine, InShape, InTips, vars, handVars, Hand!vars
  <1>3. Inv /\ [Next]_vars => Inv'
    BY <1>2, HandStep, PinchStep
  <1>4. Inv /\ [Next]_vars => [part = "hand" => Hand!OneGesture]_vars
    <2> SUFFICES ASSUME Inv, [Next]_vars, part = "hand", ~UNCHANGED vars PROVE Hand!OneGesture
      OBVIOUS
    <2>1. part' = "hand"
      BY DEF Next, InHand, InDraw, InScale, InRulers, InLine, InShape, InTips
    <2>2. [Hand!Next]_(Hand!vars) /\ HandInv /\ pinch \in PinchTyped
      BY <1>2, <2>1
    <2>3. Hand!ClicksWereStill
      BY <2>2, EventStep
    <2>4. Hand!OneOfTheTwo
      BY <2>2, PinchStep, ScrollStep DEF Hand!OneOfTheTwo
    <2> QED
      BY <2>3, <2>4 DEF Hand!OneGesture
  <1> HIDE DEF Inv
  <1> QED
    BY <1>1, <1>3, <1>4, PTL DEF Spec, OneGesture

-----------------------------------------------------------------------------
(* The drawings (Drawing): lists that are sorted and filtered.             *)

LEMMA GreatestPlace ==
    ASSUME NEW n \in Nat, NEW s \in SUBSET (1..n), s # {}
    PROVE  Draw!Max(s) \in s /\ \A k \in s : k <= Draw!Max(s)
  <1>1. PICK m \in s : \A k \in s : m >= k
    BY HasGreatest
  <1> QED
    BY <1>1 DEF Draw!Max

LEMMA GreatestOfFirst ==
    ASSUME NEW n \in Nat, NEW i \in 1..n
    PROVE  /\ Draw!Max(1..i) = i /\ (1..i) \ {i} = 1..(i - 1)
           /\ 1..i # {} /\ (1..i) \in SUBSET (1..n)
  <1>1. /\ i \in Nat /\ i \in 1..i /\ \A k \in 1..i : k <= i
        /\ (1..i) \in SUBSET (1..n)
    OBVIOUS
  <1>2. Draw!Max(1..i) \in 1..i /\ i <= Draw!Max(1..i)
    BY <1>1, GreatestPlace
  <1>3. (1..i) \ {i} = 1..(i - 1)
    BY <1>1
  <1> QED
    BY <1>1, <1>2, <1>3

\* A list without some drawings takes the others one after the other.
LEMMA WithoutFolds ==
    ASSUME NEW X, NEW s \in Seq(X), NEW gone
    PROVE  \E f : /\ f[0] = <<>>
                  /\ \A i \in 1..Len(s) :
                        f[i] = IF s[i] \in gone THEN f[i - 1] ELSE Append(f[i - 1], s[i])
                  /\ Draw!Without(s, gone) = f[Len(s)]
  <1> DEFINE n == Len(s)
             G == [p \in Seq(X) \X (1..n) |->
                     IF s[p[2]] \in gone THEN p[1] ELSE Append(p[1], s[p[2]])]
             Is(it) == it = [t \in SUBSET DOMAIN s |->
                               IF t = {} THEN <<>>
                               ELSE IF s[Draw!Max(t)] \in gone
                                    THEN it[t \ {Draw!Max(t)}]
                                    ELSE Append(it[t \ {Draw!Max(t)}], s[Draw!Max(t)])]
             fold == CHOOSE it : Is(it)
  <1>0. n \in Nat /\ DOMAIN s = 1..n
    OBVIOUS
  <1>1. \E it : Is(it)
    <2>1. G \in [Seq(X) \X (1..n) -> Seq(X)] /\ <<>> \in Seq(X)
      OBVIOUS
    <2>2. PICK it : IsFold(it, n, Seq(X), <<>>, G)
      <3> HIDE DEF G, n
      <3> QED
        BY <1>0, <2>1, FoldExists
    <2>3. it = [t \in SUBSET (1..n) |-> it[t]]
      BY <2>2 DEF IsFold
    <2>4. ASSUME NEW t \in SUBSET (1..n), t # {}
          PROVE  it[t] = IF s[Draw!Max(t)] \in gone
                         THEN it[t \ {Draw!Max(t)}]
                         ELSE Append(it[t \ {Draw!Max(t)}], s[Draw!Max(t)])
      <3>1. Draw!Max(t) \in t /\ \A k \in t : k <= Draw!Max(t)
        BY <2>4, <1>0, GreatestPlace
      <3>2. /\ it[t] = G[<<it[t \ {Draw!Max(t)}], Draw!Max(t)>>]
            /\ it[t \ {Draw!Max(t)}] \in Seq(X)
        <4> HIDE DEF G
        <4> QED
          BY <2>2, <3>1 DEF IsFold
      <3> QED
        BY <3>1, <3>2
    <2>5. it[{}] = <<>>
      BY <2>2 DEF IsFold
    <2> HIDE DEF G
    <2>6. Is(it)
      BY <1>0, <2>3, <2>4, <2>5
    <2> QED
      BY <2>6
  <1>2. Is(fold)
    <2> HIDE DEF Is
    <2> QED
      BY <1>1
  <1>3. Draw!Without(s, gone) = fold[DOMAIN s]
    BY DEF Draw!Without, Draw!FoldLeft, Draw!MapThenFoldSet
  <1> HIDE DEF fold
  <1> DEFINE f == [i \in 0..n |-> fold[1..i]]
  <1>4. f[0] = <<>>
    BY <1>2, <1>0
  <1>5. ASSUME NEW i \in 1..n
        PROVE  f[i] = IF s[i] \in gone THEN f[i - 1] ELSE Append(f[i - 1], s[i])
    <2> HIDE DEF n, Is
    <2>1. Draw!Max(1..i) = i /\ (1..i) \ {i} = 1..(i - 1) /\ 1..i # {}
          /\ (1..i) \in SUBSET DOMAIN s
      BY <1>0, GreatestOfFirst
    <2>2. fold[1..i] = IF s[Draw!Max(1..i)] \in gone
                       THEN fold[(1..i) \ {Draw!Max(1..i)}]
                       ELSE Append(fold[(1..i) \ {Draw!Max(1..i)}], s[Draw!Max(1..i)])
      BY <1>2, <2>1 DEF Is
    <2>3. fold[1..i] = IF s[i] \in gone THEN fold[1..(i - 1)]
                       ELSE Append(fold[1..(i - 1)], s[i])
      BY <2>1, <2>2
    <2> QED
      BY <2>3, <1>0
  <1> HIDE DEF f
  <1>6. Draw!Without(s, gone) = f[n]
    BY <1>0, <1>3 DEF f
  <1> QED
    BY <1>4, <1>5, <1>6

\* The members of w are those of s at some places of its first n, in order.
PartOf(w, s, n, gone) ==
    \E e \in [1..Len(w) -> 1..n] :
        /\ \A k \in 1..Len(w) : w[k] = s[e[k]] /\ w[k] \notin gone
        /\ \A k, l \in 1..Len(w) : k < l => e[k] < e[l]

\* What is left of a list is in the order it had, and without the others.
LEMMA WithoutHolds ==
    ASSUME NEW X, NEW s \in Seq(X), NEW gone
    PROVE  /\ Draw!Without(s, gone) \in Seq(X)
           /\ PartOf(Draw!Without(s, gone), s, Len(s), gone)
  <1> DEFINE n == Len(s)
  <1>0. n \in Nat /\ DOMAIN s = 1..n /\ \A i \in 1..n : s[i] \in X
    OBVIOUS
  <1>1. PICK f : /\ f[0] = <<>>
                 /\ \A i \in 1..n :
                       f[i] = IF s[i] \in gone THEN f[i - 1] ELSE Append(f[i - 1], s[i])
                 /\ Draw!Without(s, gone) = f[n]
    BY WithoutFolds
  <1> DEFINE S == {i \in Nat : i <= n => f[i] \in Seq(X) /\ PartOf(f[i], s, i, gone)}
  <1>2. 0 \in S
    <2>1. <<>> \in Seq(X) /\ Len(<<>>) = 0 /\ 1..0 = {}
      OBVIOUS
    <2>2. [k \in {} |-> 1] \in [1..0 -> 1..0]
      BY <2>1
    <2>3. PartOf(<<>>, s, 0, gone)
      BY <2>1, <2>2 DEF PartOf
    <2> QED
      BY <1>1, <2>1, <2>3
  <1>3. ASSUME NEW i \in Nat, i \in S PROVE i + 1 \in S
    <2> SUFFICES ASSUME i + 1 <= n
                 PROVE  f[i + 1] \in Seq(X) /\ PartOf(f[i + 1], s, i + 1, gone)
      OBVIOUS
    <2> HIDE DEF n
    <2>1. i + 1 \in 1..n /\ (i + 1) - 1 = i /\ i <= n
      BY <1>0
    <2> DEFINE w == f[i]
               x == s[i + 1]
               m == Len(w)
    <2>2. w \in Seq(X) /\ PartOf(w, s, i, gone) /\ x \in X
      BY <1>0, <1>3, <2>1
    <2>3. f[i + 1] = IF x \in gone THEN w ELSE Append(w, x)
      BY <1>1, <2>1
    <2> HIDE DEF w
    <2>4. PICK e \in [1..m -> 1..i] :
              /\ \A k \in 1..m : w[k] = s[e[k]] /\ w[k] \notin gone
              /\ \A k, l \in 1..m : k < l => e[k] < e[l]
      BY <2>2 DEF PartOf
    <2>5. m \in Nat
      BY <2>2
    <2>6. CASE x \in gone
      <3>1. e \in [1..m -> 1..(i + 1)]
        BY <2>4
      <3>2. PartOf(w, s, i + 1, gone)
        BY <2>4, <3>1 DEF PartOf
      <3> QED
        BY <2>2, <2>3, <2>6, <3>2
    <2>7. CASE x \notin gone
      <3> DEFINE d == [k \in 1..(m + 1) |-> IF k = m + 1 THEN i + 1 ELSE e[k]]
                 v == Append(w, x)
      <3>1. v \in Seq(X) /\ Len(v) = m + 1 /\ (\A k \in 1..m : v[k] = w[k]) /\ v[m + 1] = x
        BY <2>2
      <3>2. \A k \in 1..(m + 1) : k \in 1..m \/ k = m + 1
        BY <2>5
      <3>3. d \in [1..(m + 1) -> 1..(i + 1)]
        BY <2>4, <2>5
      <3>4. d[m + 1] = i + 1 /\ \A k \in 1..m : d[k] = e[k] /\ e[k] \in 1..i
        BY <2>4, <2>5
      <3> HIDE DEF d, v, m
      <3>5. \A k \in 1..(m + 1) : v[k] = s[d[k]] /\ v[k] \notin gone
        BY <2>4, <2>7, <3>1, <3>2, <3>4
      <3>6. \A k, l \in 1..(m + 1) : k < l => d[k] < d[l]
        BY <2>4, <2>5, <3>2, <3>4
      <3>7. PartOf(v, s, i + 1, gone)
        BY <3>1, <3>3, <3>5, <3>6 DEF PartOf
      <3> QED
        BY <2>3, <2>7, <3>1, <3>7 DEF v
    <2> QED
      BY <2>6, <2>7
  <1>4. n \in S
    <2> HIDE DEF S, n
    <2> QED
      BY <1>0, <1>2, <1>3, SetInduction
  <1> QED
    BY <1>0, <1>1, <1>4

LEMMA SameDrawCount == ASSUME NEW S PROVE Draw!Cardinality(S) = Cardinality(S)
  BY DEF Draw!Cardinality, Cardinality, Draw!IsFiniteSet, IsFiniteSet

Apart(s) == \A i, j \in DOMAIN s : s[i] = s[j] => i = j
Ordered(s, objects) ==
    \A i, j \in DOMAIN s : i < j => objects[s[i]].z <= objects[s[j]].z

\* A sort puts the drawings in the order of their levels, keeps each once and
\* adds none.
LEMMA SortedHolds ==
    ASSUME NEW X, NEW s \in Seq(X), NEW objects,
           \A k \in 1..Len(s) : objects[s[k]].z \in Int
    PROVE  /\ Draw!Sorted(s, objects) \in Seq(X)
           /\ Ordered(Draw!Sorted(s, objects), objects)
           /\ Apart(s) => Apart(Draw!Sorted(s, objects))
           /\ \A k \in DOMAIN Draw!Sorted(s, objects) :
                 \E i \in DOMAIN s : Draw!Sorted(s, objects)[k] = s[i]
  <1> DEFINE n == Len(s)
             R == {p \in (1..n) \X (1..n) : Draw!Before(s, objects, p[1], p[2])}
             row(k) == CHOOSE j \in DOMAIN s : Draw!Place(s, objects, j) = k
             t == Draw!Sorted(s, objects)
             level(i) == objects[s[i]].z
  <1>0. n \in Nat /\ DOMAIN s = 1..n
    OBVIOUS
  <1>1. \A i \in 1..n : level(i) \in Int
    BY <1>0
  <1>2. \A i, j \in 1..n : <<i, j>> \in R <=>
           IF level(i) = level(j) THEN i < j ELSE level(i) < level(j)
    BY DEF Draw!Before
  <1> HIDE DEF level
  <1>3. /\ \A k \in 1..n : \E i \in 1..n :
              /\ Cardinality(Below(R, n, i)) + 1 = k
              /\ \A l \in 1..n : Cardinality(Below(R, n, l)) + 1 = k => l = i
        /\ \A i \in 1..n : Cardinality(Below(R, n, i)) + 1 \in 1..n
        /\ \A i, j \in 1..n :
              <<i, j>> \in R => Cardinality(Below(R, n, i)) < Cardinality(Below(R, n, j))
    <2> HIDE DEF R, n
    <2>1. \A i \in 1..n : <<i, i>> \notin R
      BY <1>0, <1>2
    <2>2. \A i, j \in 1..n : i # j => <<i, j>> \in R \/ <<j, i>> \in R
      BY <1>0, <1>1, <1>2
    <2>3. \A i, j, l \in 1..n : <<i, j>> \in R /\ <<j, l>> \in R => <<i, l>> \in R
      BY <1>0, <1>1, <1>2
    <2> QED
      BY <1>0, <2>1, <2>2, <2>3, RankOf
  <1>4. ASSUME NEW i \in 1..n
        PROVE  Draw!Place(s, objects, i) = Cardinality(Below(R, n, i)) + 1
    <2>1. {j \in DOMAIN s : Draw!Before(s, objects, j, i)} = Below(R, n, i)
      BY <1>0 DEF Below
    <2> QED
      BY <2>1, SameDrawCount DEF Draw!Place
  <1>5. \A k \in 1..n : \E i \in 1..n :
           /\ Draw!Place(s, objects, i) = k
           /\ \A l \in 1..n : Draw!Place(s, objects, l) = k => l = i
    <2> HIDE DEF R, n
    <2> QED
      BY <1>3, <1>4
  <1>6. \A k \in 1..n : row(k) \in 1..n /\ Draw!Place(s, objects, row(k)) = k
    BY <1>0, <1>5
  <1>7. t = [k \in 1..n |-> s[row(k)]]
    BY <1>0 DEF Draw!Sorted
  <1> HIDE DEF row, t, R, n
  <1>8. /\ t \in Seq(X) /\ Len(t) = n /\ DOMAIN t = 1..n
        /\ \A k \in 1..n : t[k] = s[row(k)] /\ row(k) \in DOMAIN s
    <2>1. \A k \in 1..n : s[row(k)] \in X
      BY <1>0, <1>6 DEF n
    <2> QED
      BY <1>0, <1>6, <1>7, <2>1
  <1>9. ASSUME NEW k \in 1..n, NEW l \in 1..n, k < l
        PROVE  objects[t[k]].z <= objects[t[l]].z
    <2> DEFINE i == row(k)
               j == row(l)
    <2>1. i \in 1..n /\ j \in 1..n /\ Draw!Place(s, objects, i) = k /\ Draw!Place(s, objects, j) = l
      BY <1>6
    <2> HIDE DEF i, j
    <2>2. Cardinality(Below(R, n, i)) + 1 = k /\ Cardinality(Below(R, n, j)) + 1 = l
      BY <1>4, <2>1
    <2>3. /\ <<j, i>> \in R => Cardinality(Below(R, n, j)) < Cardinality(Below(R, n, i))
          /\ Cardinality(Below(R, n, i)) + 1 \in 1..n
          /\ Cardinality(Below(R, n, j)) + 1 \in 1..n
      BY <1>3, <2>1
    <2> DEFINE a == Cardinality(Below(R, n, i))
               b == Cardinality(Below(R, n, j))
    <2>4. a \in Int /\ b \in Int /\ ~(b < a)
      <3>1. a = k - 1 /\ b = l - 1
        <4>1. a \in Nat /\ b \in Nat
          <5>1. IsFiniteSet(1..n)
            BY <1>0, FS_Interval
          <5>2. IsFiniteSet(Below(R, n, i)) /\ IsFiniteSet(Below(R, n, j))
            BY <5>1, FS_Subset DEF Below
          <5> QED
            BY <5>2, FS_CardinalityType
        <4> QED
          BY <1>0, <2>2, <4>1
      <3> HIDE DEF a, b
      <3> QED
        BY <1>0, <1>9, <3>1
    <2>5. <<j, i>> \notin R
      BY <2>3, <2>4
    <2>6. level(i) <= level(j)
      BY <1>0, <1>1, <1>2, <2>1, <2>5
    <2> QED
      BY <1>8, <2>6 DEF level, i, j
  <1>10. Ordered(t, objects)
    BY <1>8, <1>9 DEF Ordered
  <1>11. ASSUME Apart(s), NEW k \in 1..n, NEW l \in 1..n, t[k] = t[l] PROVE k = l
    <2>1. row(k) = row(l)
      BY <1>8, <1>11 DEF Apart
    <2> QED
      BY <1>6, <2>1
  <1>12. Apart(s) => Apart(t)
    BY <1>8, <1>11 DEF Apart
  <1> QED
    BY <1>8, <1>10, <1>12 DEF t

-----------------------------------------------------------------------------
(* The points of a drawing.                                                *)

Aligned(kind, spots) ==
    Len(spots) = 2 => /\ kind = "horizontal" => spots[1].v = spots[2].v
                      /\ kind = "vertical"   => spots[1].t = spots[2].t

\* What an overlay is in every state: its points are aligned, and as many as
\* the step it is at when it is not finished.
Sound(x) ==
    /\ x \in Draw!Objects
    /\ x.z \in 0..Draw!OnTop /\ x.prevZ \in 0..(Draw!OnTop - 1)
    /\ Aligned(x.kind, x.points)
    /\ x.step # Draw!Finished =>
          /\ x.step \in {1, 2} /\ x.step <= Draw!TotalStep(x.kind) - 1
          /\ Len(x.points) <= x.step

LEMMA PointTyped ==
    ASSUME Draw!DrawingAssumption, NEW o, NEW pane, NEW p \in Draw!Spots
    PROVE  Draw!PointFor(o, pane, p) \in Draw!Spots
  <1>1. CASE p.t \in DOMAIN Bar
    <2> DEFINE b == Bar[p.t]
    <2>1. /\ b.open \in Int /\ b.high \in Int /\ b.low \in Int /\ b.close \in Int
          /\ Near \in Int /\ p.v \in Int
      BY <1>1 DEF Draw!DrawingAssumption, Draw!Spots
    <2> HIDE DEF b
    <2>2. Draw!Magnet(obj[o].mode, p) \in Int
      BY <2>1 DEF Draw!Magnet, Draw!Nearer, b
    <2> QED
      BY <2>2 DEF Draw!PointFor, Draw!Spots
  <1>2. CASE p.t \notin DOMAIN Bar
    BY <1>2 DEF Draw!PointFor
  <1> QED
    BY <1>1, <1>2

\* Dragging a point aligns both with it.
LEMMA DraggedAligned ==
    ASSUME NEW kind, NEW spots \in Seq(Draw!Spots), NEW p \in Draw!Spots
    PROVE  /\ Draw!DraggedPoint(kind, spots, p) \in Seq(Draw!Spots)
           /\ Aligned(kind, Draw!DraggedPoint(kind, spots, p))
  <1>0. \A i \in DOMAIN spots : spots[i] \in Draw!Spots
    OBVIOUS
  <1>1. p.t \in Int /\ p.v \in Int
    BY DEF Draw!Spots
  <1>2. CASE kind = "horizontal"
    <2> DEFINE d == [i \in DOMAIN spots |-> [spots[i] EXCEPT !.v = p.v]]
    <2>1. \A i \in DOMAIN spots : d[i] \in Draw!Spots /\ d[i].v = p.v
      BY <1>0, <1>1 DEF Draw!Spots
    <2>2. d \in Seq(Draw!Spots) /\ DOMAIN d = DOMAIN spots /\ Len(d) = Len(spots)
      BY <2>1
    <2>3. Draw!DraggedPoint(kind, spots, p) = d
      BY <1>2 DEF Draw!DraggedPoint
    <2> HIDE DEF d
    <2>4. Len(d) = 2 => d[1].v = d[2].v
      BY <2>1, <2>2
    <2> QED
      BY <1>2, <2>2, <2>3, <2>4 DEF Aligned
  <1>3. CASE kind = "vertical"
    <2> DEFINE d == [i \in DOMAIN spots |-> [spots[i] EXCEPT !.t = p.t]]
    <2>1. \A i \in DOMAIN spots : d[i] \in Draw!Spots /\ d[i].t = p.t
      BY <1>0, <1>1 DEF Draw!Spots
    <2>2. d \in Seq(Draw!Spots) /\ DOMAIN d = DOMAIN spots /\ Len(d) = Len(spots)
      BY <2>1
    <2>3. Draw!DraggedPoint(kind, spots, p) = d
      BY <1>3 DEF Draw!DraggedPoint
    <2> HIDE DEF d
    <2>4. Len(d) = 2 => d[1].t = d[2].t
      BY <2>1, <2>2
    <2> QED
      BY <1>3, <2>2, <2>3, <2>4 DEF Aligned
  <1>4. CASE kind \notin {"horizontal", "vertical"}
    BY <1>4 DEF Draw!DraggedPoint, Aligned
  <1> QED
    BY <1>2, <1>3, <1>4

\* Drawing the second point aligns the first with it.
LEMMA FirstFollows ==
    ASSUME NEW kind, NEW put \in Seq(Draw!Spots), NEW q \in Draw!Spots,
           Len(put) = 2 => put[2] = q
    PROVE  /\ Draw!DrawnPoint(kind, 2, put, q) \in Seq(Draw!Spots)
           /\ Len(Draw!DrawnPoint(kind, 2, put, q)) = Len(put)
           /\ Aligned(kind, Draw!DrawnPoint(kind, 2, put, q))
  <1>1. \A i \in DOMAIN put : put[i] \in Draw!Spots
    OBVIOUS
  <1>2. CASE kind = "horizontal"
    <2> DEFINE first == [put[1] EXCEPT !.v = q.v]
               d == [put EXCEPT ![1] = first]
    <2>1. Draw!DrawnPoint(kind, 2, put, q) = d
      BY <1>2 DEF Draw!DrawnPoint
    <2>2. 1 \in DOMAIN put => first \in Draw!Spots /\ first.v = q.v
      BY <1>1 DEF Draw!Spots
    <2> HIDE DEF first
    <2>3. d \in Seq(Draw!Spots) /\ Len(d) = Len(put)
      <3>1. /\ DOMAIN d = 1..Len(put) /\ Len(put) \in Nat
            /\ d = [i \in 1..Len(put) |-> IF i = 1 THEN first ELSE put[i]]
        OBVIOUS
      <3>2. \A i \in 1..Len(put) : d[i] \in Draw!Spots
        BY <1>1, <2>2
      <3> HIDE DEF d
      <3> QED
        BY <3>1, <3>2
    <2>4. ASSUME Len(put) = 2 PROVE d[1].v = d[2].v
      <3>1. 1 \in DOMAIN put /\ 2 \in DOMAIN put
        BY <2>4
      <3>2. d[1] = first /\ d[2] = put[2]
        BY <3>1
      <3> QED
        BY <2>2, <2>4, <3>1, <3>2
    <2> HIDE DEF d
    <2> QED
      BY <1>2, <2>1, <2>3, <2>4 DEF Aligned
  <1>3. CASE kind = "vertical"
    <2> DEFINE first == [put[1] EXCEPT !.t = q.t]
               d == [put EXCEPT ![1] = first]
    <2>1. Draw!DrawnPoint(kind, 2, put, q) = d
      BY <1>3 DEF Draw!DrawnPoint
    <2>2. 1 \in DOMAIN put => first \in Draw!Spots /\ first.t = q.t
      BY <1>1 DEF Draw!Spots
    <2> HIDE DEF first
    <2>3. d \in Seq(Draw!Spots) /\ Len(d) = Len(put)
      <3>1. /\ DOMAIN d = 1..Len(put) /\ Len(put) \in Nat
            /\ d = [i \in 1..Len(put) |-> IF i = 1 THEN first ELSE put[i]]
        OBVIOUS
      <3>2. \A i \in 1..Len(put) : d[i] \in Draw!Spots
        BY <1>1, <2>2
      <3> HIDE DEF d
      <3> QED
        BY <3>1, <3>2
    <2>4. ASSUME Len(put) = 2 PROVE d[1].t = d[2].t
      <3>1. 1 \in DOMAIN put /\ 2 \in DOMAIN put
        BY <2>4
      <3>2. d[1] = first /\ d[2] = put[2]
        BY <3>1
      <3> QED
        BY <2>2, <2>4, <3>1, <3>2
    <2> HIDE DEF d
    <2> QED
      BY <1>3, <2>1, <2>3, <2>4 DEF Aligned
  <1>4. CASE kind \notin {"horizontal", "vertical"}
    BY <1>4 DEF Draw!DrawnPoint, Aligned
  <1> QED
    BY <1>2, <1>3, <1>4

LEMMA DrawnAligned ==
    ASSUME NEW kind, NEW step \in {1, 2}, NEW spots \in Seq(Draw!Spots), Len(spots) <= step,
           NEW q \in Draw!Spots,
           NEW put, put = IF Len(spots) < step THEN Append(spots, q)
                                               ELSE [spots EXCEPT ![step] = q]
    PROVE  /\ Draw!DrawnPoint(kind, step, put, q) \in Seq(Draw!Spots)
           /\ Len(Draw!DrawnPoint(kind, step, put, q)) <= step
           /\ Aligned(kind, Draw!DrawnPoint(kind, step, put, q))
  <1>1. /\ put \in Seq(Draw!Spots) /\ Len(put) <= step /\ Len(put) \in Nat
        /\ Len(put) = 2 => step = 2 /\ put[2] = q
    <2>1. CASE Len(spots) < step
      BY <2>1
    <2>2. CASE ~(Len(spots) < step)
      <3>1. Len(spots) = step
        BY <2>2
      <3> QED
        BY <2>2, <3>1
    <2> QED
      BY <2>1, <2>2
  <1>2. CASE step = 2
    <2>1. /\ Draw!DrawnPoint(kind, 2, put, q) \in Seq(Draw!Spots)
          /\ Len(Draw!DrawnPoint(kind, 2, put, q)) = Len(put)
          /\ Aligned(kind, Draw!DrawnPoint(kind, 2, put, q))
      BY ONLY <1>1, FirstFollows
    <2> QED
      BY <1>1, <1>2, <2>1
  <1>3. CASE step = 1
    <2>1. Draw!DrawnPoint(kind, step, put, q) = put
      BY <1>3 DEF Draw!DrawnPoint
    <2>2. Aligned(kind, put)
      BY <1>1, <1>3 DEF Aligned
    <2> QED
      BY <1>1, <2>1, <2>2
  <1> QED
    BY <1>2, <1>3

\* Following the mouse, a drawing keeps what it is but for its points and, at
\* its first one, its pane.
LEMMA DrawToKeeps ==
    ASSUME Draw!DrawingAssumption, NEW o, Sound(obj[o]), obj[o].step # Draw!Finished,
           NEW pane \in Panes, NEW p \in Points, progress.pane \in Panes
    PROVE  /\ Sound(Draw!DrawTo(o, pane, p))
           /\ Draw!DrawTo(o, pane, p).step = obj[o].step
           /\ Draw!DrawTo(o, pane, p).kind = obj[o].kind
           /\ Draw!DrawTo(o, pane, p).z = obj[o].z
           /\ Draw!DrawTo(o, pane, p).prevZ = obj[o].prevZ
           /\ Draw!DrawTo(o, pane, p).pane \in Panes
           /\ obj[o].step # 1 => Draw!DrawTo(o, pane, p).pane = progress.pane
  <1> DEFINE x == obj[o]
             home == IF x.step = 1 THEN pane ELSE progress.pane
             q == Draw!PointFor(o, pane, p)
             put == IF Len(x.points) < x.step THEN Append(x.points, q)
                                              ELSE [x.points EXCEPT ![x.step] = q]
             drawn == IF home = pane THEN Draw!DrawnPoint(x.kind, x.step, put, q) ELSE x.points
             y == [x EXCEPT !.pane = home, !.points = drawn]
  <1>1. /\ x \in Draw!Objects /\ x.step \in {1, 2} /\ x.points \in Seq(Draw!Spots)
        /\ Len(x.points) <= x.step /\ Aligned(x.kind, x.points)
        /\ x.step <= Draw!TotalStep(x.kind) - 1
        /\ x.z \in 0..Draw!OnTop /\ x.prevZ \in 0..(Draw!OnTop - 1)
    BY DEF Sound, Draw!Objects
  <1>2. q \in Draw!Spots
    <2>1. p \in Draw!Spots
      BY DEF Draw!DrawingAssumption
    <2> QED
      BY <2>1, PointTyped
  <1>3. Draw!DrawTo(o, pane, p) = y
    BY DEF Draw!DrawTo
  <1>4. home \in Panes /\ (x.step # 1 => home = progress.pane)
    OBVIOUS
  <1> HIDE DEF x, q, home
  <1>5. /\ drawn \in Seq(Draw!Spots) /\ Len(drawn) <= x.step /\ Aligned(x.kind, drawn)
    <2>1. put = IF Len(x.points) < x.step THEN Append(x.points, q)
                                          ELSE [x.points EXCEPT ![x.step] = q]
      OBVIOUS
    <2> HIDE DEF put
    <2> QED
      BY <1>1, <1>2, <2>1, DrawnAligned
  <1> HIDE DEF drawn
  <1>6. /\ y \in Draw!Objects /\ y.step = x.step /\ y.kind = x.kind /\ y.z = x.z
        /\ y.prevZ = x.prevZ /\ y.pane = home /\ y.points = drawn
    BY <1>1, <1>4, <1>5 DEF Draw!Objects
  <1> HIDE DEF y
  <1>7. Sound(y)
    BY <1>1, <1>5, <1>6 DEF Sound
  <1> QED
    BY <1>3, <1>4, <1>6, <1>7 DEF x

-----------------------------------------------------------------------------
(* What the drawings are in every state.                                   *)

\* Every overlay is sound, and the one under the mouse, and no other, is on top.
Levelled(objects, top) ==
    /\ objects \in [Ids -> Draw!Objects \cup {None}]
    /\ \A o \in Ids : objects[o] # None =>
          Sound(objects[o]) /\ (objects[o].z = Draw!OnTop <=> o = top)

AtHome(x, p) == x # None /\ x.step = Draw!Finished /\ x.pane = p
Shelf(s, p, objects) ==
    s \in Seq(Ids) /\ Apart(s) /\ \A i \in DOMAIN s : AtHome(objects[s[i]], p)
\* A pane's list has its finished overlays, each once, in the order of levels.
Shelved(lists, objects) ==
    /\ lists = [p \in Panes |-> lists[p]]
    /\ \A p \in Panes : Shelf(lists[p], p, objects) /\ Ordered(lists[p], objects)

\* The overlay that is drawn is not finished.
Underway(prog, objects) ==
    prog # None => /\ prog \in [id : Ids, pane : Panes]
                   /\ objects[prog.id] # None /\ objects[prog.id].step # Draw!Finished
                   /\ objects[prog.id].pane = prog.pane

\* The overlay that is pressed is, and was aligned when it was pressed.
Held(pressing, hold, objects) ==
    pressing # None => /\ pressing \in [id : Ids, figure : Int]
                       /\ objects[pressing.id] # None
                       /\ objects[pressing.id].step = Draw!Finished
                       /\ hold \in [from : Draw!Spots, points : Seq(Draw!Spots)]
                       /\ Aligned(objects[pressing.id].kind, hold.points)

Hovering(top, objects) == top # None => top \in Ids /\ objects[top] # None

DrawInv ==
    /\ Levelled(obj, hover) /\ Hovering(hover, obj) /\ Shelved(list, obj)
    /\ Underway(progress, obj) /\ Held(grabbed, grip, obj)
    /\ bar \in [lock : BOOLEAN, mode : Draw!Modes]

\* Overlays stay, keep their kind, and once finished where they are.
Carries(a, b) ==
    \A o \in Ids : a[o] # None =>
        /\ b[o] # None /\ b[o].kind = a[o].kind
        /\ a[o].step = Draw!Finished => b[o].step = a[o].step /\ b[o].pane = a[o].pane
\* They keep their step and pane, finished or not.
Same(a, b) ==
    \A o \in Ids : a[o] # None =>
        b[o] # None /\ b[o].kind = a[o].kind /\ b[o].step = a[o].step /\ b[o].pane = a[o].pane
SameLevels(a, b) == \A o \in Ids : a[o] # None => b[o].z = a[o].z

LEMMA ShelfCarried ==
    ASSUME NEW s, NEW p, NEW a, NEW b, Shelf(s, p, a), Carries(a, b)
    PROVE  Shelf(s, p, b)
  <1>1. \A i \in DOMAIN s : s[i] \in Ids /\ AtHome(a[s[i]], p)
    BY DEF Shelf
  <1>2. \A i \in DOMAIN s : AtHome(b[s[i]], p)
    BY <1>1 DEF Carries, AtHome
  <1> QED
    BY <1>2 DEF Shelf

LEMMA ShelvesCarried ==
    ASSUME NEW lists, NEW a, NEW b, Shelved(lists, a), Carries(a, b), SameLevels(a, b)
    PROVE  Shelved(lists, b)
  <1>1. ASSUME NEW p \in Panes PROVE Shelf(lists[p], p, b) /\ Ordered(lists[p], b)
    <2>1. Shelf(lists[p], p, a) /\ Ordered(lists[p], a)
      BY DEF Shelved
    <2>2. \A i \in DOMAIN lists[p] : lists[p][i] \in Ids /\ a[lists[p][i]] # None
      BY <2>1 DEF Shelf, AtHome
    <2>3. \A i \in DOMAIN lists[p] : b[lists[p][i]].z = a[lists[p][i]].z
      BY <2>2 DEF SameLevels
    <2>4. Ordered(lists[p], b)
      BY <2>1, <2>3 DEF Ordered
    <2> QED
      BY <2>1, <2>4, ShelfCarried
  <1> QED
    BY <1>1 DEF Shelved

LEMMA HeldCarried ==
    ASSUME NEW pressing, NEW hold, NEW a, NEW b, Held(pressing, hold, a), Carries(a, b)
    PROVE  Held(pressing, hold, b)
  BY DEF Held, Carries

LEMMA SameCarries ==
    ASSUME NEW a, NEW b, Same(a, b) PROVE Carries(a, b)
  BY DEF Same, Carries

LEMMA UnderwaySame ==
    ASSUME NEW prog, NEW a, NEW b, Underway(prog, a), Same(a, b)
    PROVE  Underway(prog, b)
  BY DEF Underway, Same

LEMMA HoveringCarried ==
    ASSUME NEW top, NEW a, NEW b, Hovering(top, a), Carries(a, b)
    PROVE  Hovering(top, b)
  BY DEF Hovering, Carries

\* Sorting puts a shelf in order.
LEMMA ShelfSorted ==
    ASSUME NEW s, NEW p, NEW objects, NEW top, Shelf(s, p, objects), Levelled(objects, top)
    PROVE  /\ Shelf(Draw!Sorted(s, objects), p, objects)
           /\ Ordered(Draw!Sorted(s, objects), objects)
  <1> DEFINE t == Draw!Sorted(s, objects)
  <1>1. /\ s \in Seq(Ids) /\ Apart(s) /\ DOMAIN s = 1..Len(s)
        /\ \A i \in DOMAIN s : AtHome(objects[s[i]], p)
    BY DEF Shelf
  <1>2. \A k \in 1..Len(s) : objects[s[k]].z \in Int
    <2>1. \A o \in Ids : objects[o] # None => objects[o].z \in Int
      BY DEF Levelled, Sound, Draw!Objects
    <2> QED
      BY <1>1, <2>1 DEF AtHome
  <1>3. /\ t \in Seq(Ids) /\ Ordered(t, objects) /\ Apart(t)
        /\ \A k \in DOMAIN t : \E i \in DOMAIN s : t[k] = s[i]
    BY <1>1, <1>2, SortedHolds
  <1> HIDE DEF t
  <1>4. \A k \in DOMAIN t : AtHome(objects[t[k]], p)
    BY <1>1, <1>3
  <1>5. Shelf(t, p, objects)
    BY <1>3, <1>4 DEF Shelf
  <1> QED
    BY <1>3, <1>5 DEF t

LEMMA ShelvesSorted ==
    ASSUME NEW lists, NEW objects, NEW top, Levelled(objects, top),
           \A p \in Panes : Shelf(lists[p], p, objects)
    PROVE  Shelved(Draw!SortedIn(lists, objects), objects)
  <1> DEFINE new == Draw!SortedIn(lists, objects)
  <1>1. new = [p \in Panes |-> Draw!Sorted(lists[p], objects)]
    BY DEF Draw!SortedIn
  <1> HIDE DEF new
  <1>2. \A p \in Panes : new[p] = Draw!Sorted(lists[p], objects)
    BY <1>1
  <1>3. ASSUME NEW p \in Panes PROVE Shelf(new[p], p, objects) /\ Ordered(new[p], objects)
    <2>1. /\ Shelf(Draw!Sorted(lists[p], objects), p, objects)
          /\ Ordered(Draw!Sorted(lists[p], objects), objects)
      BY ShelfSorted
    <2> QED
      BY <1>2, <2>1
  <1>4. new = [p \in Panes |-> new[p]]
    BY <1>1
  <1>5. Shelved(new, objects)
    BY <1>3, <1>4 DEF Shelved
  <1> QED
    BY <1>5 DEF new

\* One more overlay on a shelf that has it not.
LEMMA ShelfWithMore ==
    ASSUME NEW s, NEW p, NEW objects, Shelf(s, p, objects), NEW o \in Ids,
           AtHome(objects[o], p), \A i \in DOMAIN s : s[i] # o
    PROVE  Shelf(Append(s, o), p, objects)
  <1> DEFINE t == Append(s, o)
             n == Len(s)
  <1>1. /\ s \in Seq(Ids) /\ DOMAIN s = 1..n /\ n \in Nat /\ Apart(s)
        /\ \A i \in DOMAIN s : AtHome(objects[s[i]], p)
    BY DEF Shelf
  <1>2. /\ t \in Seq(Ids) /\ DOMAIN t = 1..(n + 1) /\ t[n + 1] = o
        /\ \A i \in 1..n : t[i] = s[i]
    BY <1>1
  <1>3. \A i \in 1..(n + 1) : i \in 1..n \/ i = n + 1
    BY <1>1
  <1> HIDE DEF t, n
  <1>4. Apart(t)
    BY <1>1, <1>2, <1>3 DEF Apart
  <1>5. \A i \in DOMAIN t : AtHome(objects[t[i]], p)
    BY <1>1, <1>2, <1>3
  <1> QED
    BY <1>2, <1>4, <1>5 DEF Shelf, t

\* What is left of a shelf is one.
LEMMA ShelfWithout ==
    ASSUME NEW s, NEW p, NEW objects, NEW gone, Shelf(s, p, objects), Ordered(s, objects)
    PROVE  /\ Shelf(Draw!Without(s, gone), p, objects)
           /\ Ordered(Draw!Without(s, gone), objects)
  <1> DEFINE w == Draw!Without(s, gone)
             n == Len(s)
             m == Len(w)
  <1>1. /\ s \in Seq(Ids) /\ DOMAIN s = 1..n /\ n \in Nat /\ Apart(s)
        /\ \A i \in DOMAIN s : AtHome(objects[s[i]], p)
    BY DEF Shelf
  <1>2. w \in Seq(Ids) /\ PartOf(w, s, n, gone)
    BY <1>1, WithoutHolds
  <1>3. DOMAIN w = 1..m /\ m \in Nat
    BY <1>2
  <1> HIDE DEF w, n
  <1>4. PICK e \in [1..m -> 1..n] :
            /\ \A k \in 1..m : w[k] = s[e[k]] /\ w[k] \notin gone
            /\ \A k, l \in 1..m : k < l => e[k] < e[l]
    BY <1>2 DEF PartOf
  <1> HIDE DEF m
  <1>5. Apart(w)
    <2>1. ASSUME NEW k \in 1..m, NEW l \in 1..m, w[k] = w[l] PROVE k = l
      <3>1. e[k] = e[l] /\ e[k] \in 1..n
        BY <1>1, <1>4, <2>1 DEF Apart
      <3> QED
        BY <1>3, <1>4, <3>1
    <2> QED
      BY <1>3, <2>1 DEF Apart
  <1>6. \A k \in DOMAIN w : AtHome(objects[w[k]], p)
    BY <1>1, <1>3, <1>4
  <1>7. Ordered(w, objects)
    <2>1. ASSUME NEW k \in 1..m, NEW l \in 1..m, k < l
          PROVE  objects[w[k]].z <= objects[w[l]].z
      <3>1. e[k] \in DOMAIN s /\ e[l] \in DOMAIN s /\ e[k] < e[l]
        BY <1>1, <1>4, <2>1
      <3>2. objects[s[e[k]]].z <= objects[s[e[l]]].z
        BY <3>1 DEF Ordered
      <3> QED
        BY <1>4, <3>2
    <2> QED
      BY <1>3, <2>1 DEF Ordered
  <1> QED
    BY <1>2, <1>5, <1>6, <1>7 DEF Shelf, w

\* There are fewer overlays in a pane than there are levels.
LEMMA ShelfBelowTop ==
    ASSUME Draw!DrawingAssumption, NEW s, NEW p, NEW objects, Shelf(s, p, objects)
    PROVE  Len(s) \in 0..(Draw!OnTop - 1)
  <1>1. s \in Seq(Ids) /\ Len(s) \in Nat /\ DOMAIN s = 1..Len(s) /\ Apart(s)
    BY DEF Shelf
  <1>2. IsFiniteSet(Ids) /\ Cardinality(Ids) < Draw!OnTop
    BY SameDrawCount DEF Draw!DrawingAssumption, Draw!IsFiniteSet, IsFiniteSet
  <1>3. s \in Injection(1..Len(s), Ids)
    BY <1>1 DEF Apart, Injection, IsInjective
  <1>4. Cardinality(1..Len(s)) <= Cardinality(Ids)
    BY <1>2, <1>3, FS_Injection
  <1>5. Cardinality(1..Len(s)) = Len(s) /\ Cardinality(Ids) \in Nat
    <2>1. \A n \in Nat : Cardinality(1..n) = n
      BY FS_Interval
    <2> QED
      BY <1>1, <1>2, <2>1, FS_CardinalityType
  <1> DEFINE n == Len(s)
             c == Cardinality(Ids)
  <1>6. n \in Nat /\ c \in Nat /\ n <= c
    BY <1>1, <1>4, <1>5
  <1>7. c < 1000
    BY <1>2 DEF Draw!OnTop
  <1> HIDE DEF n, c
  <1>8. n \in 0..(Draw!OnTop - 1)
    BY <1>6, <1>7 DEF Draw!OnTop
  <1> QED
    BY <1>8, Zenon DEF n

-----------------------------------------------------------------------------
(* What goes under the mouse.                                              *)

LEMMA ObjectIsSomething ==
    ASSUME Draw!DrawingAssumption, NEW x \in Draw!Objects PROVE x # None
  BY DEF Draw!DrawingAssumption

LEMMA LevelSet ==
    ASSUME NEW x, Sound(x), NEW z \in 0..Draw!OnTop, NEW prevZ \in 0..(Draw!OnTop - 1)
    PROVE  LET y == [x EXCEPT !.prevZ = prevZ, !.z = z]
           IN  /\ Sound(y) /\ y \in Draw!Objects /\ y.z = z
               /\ y.kind = x.kind /\ y.step = x.step /\ y.pane = x.pane
  <1> DEFINE y == [x EXCEPT !.prevZ = prevZ, !.z = z]
  <1>1. x \in Draw!Objects
    BY DEF Sound
  <1>2. z \in Int /\ prevZ \in Int
    BY DEF Draw!OnTop
  <1>3. /\ y \in Draw!Objects /\ y.z = z /\ y.prevZ = prevZ /\ y.kind = x.kind
        /\ y.step = x.step /\ y.pane = x.pane /\ y.points = x.points
    BY <1>1, <1>2 DEF Draw!Objects
  <1> HIDE DEF y
  <1>4. Sound(y)
    BY <1>3 DEF Sound
  <1> QED
    BY <1>3, <1>4 DEF y

\* The overlay that was hovered goes down, the one that is goes on top.
LEMMA HoveredHolds ==
    ASSUME Draw!DrawingAssumption, NEW a, Levelled(a, hover), Hovering(hover, a),
           NEW o, Hovering(o, a)
    PROVE  /\ Levelled(Draw!Hovered(o, a), o) /\ Same(a, Draw!Hovered(o, a))
           /\ Hovering(o, Draw!Hovered(o, a))
  <1> DEFINE new == Draw!Hovered(o, a)
  <1>0. /\ a \in [Ids -> Draw!Objects \cup {None}]
        /\ \A i \in Ids : a[i] # None =>
              Sound(a[i]) /\ (a[i].z = Draw!OnTop <=> i = hover)
    BY DEF Levelled
  <1>1. CASE o = hover
    <2>1. new = a
      BY <1>1 DEF Draw!Hovered
    <2>2. Same(a, a)
      BY DEF Same
    <2> HIDE DEF new
    <2> QED
      BY <1>1, <2>1, <2>2 DEF new
  <1>2. CASE o # hover
    <2> DEFINE left == IF hover = None THEN a
                       ELSE [a EXCEPT ![hover].z = a[hover].prevZ]
               low(i) == left[i] # None => Sound(left[i]) /\ left[i].z \in 0..(Draw!OnTop - 1)
               alike(i) == a[i] # None =>
                   /\ left[i] # None /\ left[i].kind = a[i].kind /\ left[i].step = a[i].step
                   /\ left[i].pane = a[i].pane
    <2>1. new = IF o = None THEN left
                ELSE [left EXCEPT ![o].prevZ = left[o].z, ![o].z = Draw!OnTop]
      BY <1>2 DEF Draw!Hovered
    <2>2. ASSUME NEW i \in Ids, i # hover PROVE left[i] = a[i] /\ low(i)
      <3>1. left[i] = a[i]
        BY <1>0, <2>2
      <3>2. a[i] # None => Sound(a[i]) /\ a[i].z # Draw!OnTop /\ a[i].z \in 0..Draw!OnTop
        BY <1>0, <2>2 DEF Sound
      <3>3. a[i] # None => a[i].z \in 0..(Draw!OnTop - 1)
        BY <3>2 DEF Draw!OnTop
      <3> QED
        BY <3>1, <3>2, <3>3
    <2>3. ASSUME hover # None PROVE low(hover) /\ alike(hover) /\ left[hover] \in Draw!Objects
      <3>1. hover \in Ids /\ a[hover] # None /\ Sound(a[hover])
        BY <1>0, <2>3 DEF Hovering
      <3> DEFINE x == a[hover]
                 y == [x EXCEPT !.prevZ = x.prevZ, !.z = x.prevZ]
      <3>2. x \in Draw!Objects /\ x.prevZ \in 0..(Draw!OnTop - 1) /\ x.prevZ \in 0..Draw!OnTop
        <4>1. a[hover] \in Draw!Objects /\ a[hover].prevZ \in 0..(Draw!OnTop - 1)
          BY ONLY <3>1 DEF Sound
        <4>2. \A z \in 0..(Draw!OnTop - 1) : z \in 0..Draw!OnTop
          BY DEF Draw!OnTop
        <4> QED
          BY <4>1, <4>2
      <3>3. left[hover] = y
        <4>1. left[hover] = [a[hover] EXCEPT !.z = a[hover].prevZ]
          <5>1. hover # None
            BY <2>3
          <5> QED
            BY ONLY <1>0, <3>1, <5>1
        <4> QED
          BY <3>2, <4>1 DEF Draw!Objects
      <3>4. /\ Sound(y) /\ y \in Draw!Objects /\ y.z = x.prevZ
            /\ y.kind = x.kind /\ y.step = x.step /\ y.pane = x.pane
        <4> HIDE DEF x
        <4> QED
          BY <3>1, <3>2, LevelSet DEF x
      <3> HIDE DEF y, left
      <3>5. y # None
        BY <3>4, ObjectIsSomething
      <3> QED
        BY <3>2, <3>3, <3>4, <3>5
    <2>4. \A i \in Ids : low(i) /\ alike(i) /\ left[i] \in Draw!Objects \cup {None}
      <3>1. ASSUME NEW i \in Ids, i = hover PROVE hover # None
        BY <3>1 DEF Draw!DrawingAssumption
      <3> QED
        BY <1>0, <2>2, <2>3, <3>1
    <2>5. left = [i \in Ids |-> left[i]]
      BY <1>0
    <2> HIDE DEF left
    <2>6. CASE o = None
      <3>1. new = left
        BY <2>1, <2>6
      <3> HIDE DEF new
      <3>2. None \notin Ids
        BY DEF Draw!DrawingAssumption
      <3>3. Levelled(new, o)
        <4>1. new \in [Ids -> Draw!Objects \cup {None}]
          BY <2>4, <2>5, <3>1
        <4>2. \A i \in Ids : new[i] # None =>
                  Sound(new[i]) /\ (new[i].z = Draw!OnTop <=> i = o)
          BY ONLY <2>4, <2>6, <3>1, <3>2, SMTT(30) DEF Draw!OnTop
        <4> QED
          BY <4>1, <4>2 DEF Levelled
      <3>4. Same(a, new)
        BY <2>4, <3>1 DEF Same
      <3>5. Hovering(o, new)
        BY <2>6 DEF Hovering
      <3> QED
        BY <3>3, <3>4, <3>5 DEF new
    <2>7. CASE o # None
      <3> DEFINE x == left[o]
                 y == [x EXCEPT !.prevZ = x.z, !.z = Draw!OnTop]
      <3>1. o \in Ids /\ a[o] # None /\ left[o] = a[o]
        BY <1>2, <2>2, <2>7 DEF Hovering
      <3>2. Sound(x) /\ x.z \in 0..(Draw!OnTop - 1) /\ x \in Draw!Objects
        BY <2>4, <3>1 DEF Sound
      <3>3. Draw!OnTop \in 0..Draw!OnTop
        BY DEF Draw!OnTop
      <3>4. /\ Sound(y) /\ y \in Draw!Objects /\ y.z = Draw!OnTop
            /\ y.kind = x.kind /\ y.step = x.step /\ y.pane = x.pane
        <4> HIDE DEF x
        <4> QED
          BY <3>2, <3>3, LevelSet
      <3>5. new = [left EXCEPT ![o] = y]
        BY <2>1, <2>5, <2>7, <3>1
      <3> HIDE DEF new, y
      <3>6. new = [i \in Ids |-> IF i = o THEN y ELSE left[i]]
        BY <2>5, <3>1, <3>5
      <3>7. y # None
        BY <3>4, ObjectIsSomething
      <3>8. Levelled(new, o)
        <4>1. new \in [Ids -> Draw!Objects \cup {None}]
          BY <2>4, <3>4, <3>6
        <4>2. \A i \in Ids : new[i] # None =>
                  Sound(new[i]) /\ (new[i].z = Draw!OnTop <=> i = o)
          <5>1. ASSUME NEW i \in Ids, i # o, new[i] # None
                PROVE  Sound(new[i]) /\ new[i].z # Draw!OnTop
            <6>1. new[i] = left[i]
              BY <3>6, <5>1
            <6>2. Sound(left[i]) /\ left[i].z \in 0..(Draw!OnTop - 1)
              BY <2>4, <5>1, <6>1
            <6>3. left[i].z # Draw!OnTop
              BY ONLY <6>2, SMTT(30) DEF Draw!OnTop
            <6> QED
              BY <6>1, <6>2, <6>3
          <5>2. new[o] = y
            BY <3>1, <3>6
          <5> QED
            BY <3>4, <5>1, <5>2
        <4> QED
          BY <4>1, <4>2 DEF Levelled
      <3>9. Same(a, new)
        BY <2>4, <3>1, <3>4, <3>6, <3>7 DEF Same
      <3>10. Hovering(o, new)
        BY <3>1, <3>6, <3>7 DEF Hovering
      <3> QED
        BY <3>8, <3>9, <3>10 DEF new
    <2> QED
      BY <2>6, <2>7
  <1> QED
    BY <1>1, <1>2

LEMMA SetHoverKeeps ==
    ASSUME Draw!DrawingAssumption, NEW objects, Levelled(objects, hover),
           Hovering(hover, objects), Shelved(list, objects), NEW o, Hovering(o, objects),
           Draw!SetHover(o, objects, list)
    PROVE  /\ Levelled(obj', hover') /\ Hovering(hover', obj') /\ Shelved(list', obj')
           /\ Same(objects, obj')
  <1>1. hover' = o /\ obj' = Draw!Hovered(o, objects)
    BY DEF Draw!SetHover
  <1>2. /\ Levelled(Draw!Hovered(o, objects), o) /\ Same(objects, Draw!Hovered(o, objects))
        /\ Hovering(o, Draw!Hovered(o, objects))
    BY HoveredHolds
  <1>3. Levelled(obj', o) /\ Same(objects, obj') /\ Hovering(o, obj')
    BY <1>1, <1>2
  <1>4. CASE o = hover
    <2>1. list' = list
      BY <1>4 DEF Draw!SetHover
    <2>2. obj' = objects
      BY <1>1, <1>4 DEF Draw!Hovered
    <2> QED
      BY <1>1, <1>3, <2>1, <2>2
  <1>5. CASE o # hover
    <2>1. list' = Draw!SortedIn(list, obj')
      BY <1>5 DEF Draw!SetHover
    <2>2. \A p \in Panes : Shelf(list[p], p, obj')
      <3>1. Carries(objects, obj')
        BY <1>3, SameCarries
      <3>2. \A p \in Panes : Shelf(list[p], p, objects)
        BY DEF Shelved
      <3> QED
        BY <3>1, <3>2, ShelfCarried
    <2>3. Shelved(list', obj')
      BY <1>3, <2>1, <2>2, ShelvesSorted
    <2> QED
      BY <1>1, <1>3, <2>3
  <1> QED
    BY <1>4, <1>5

-----------------------------------------------------------------------------
(* What each event keeps.                                                  *)

\* Overlays that change neither their level nor where they are.
LEMMA ObjectsChange ==
    ASSUME DrawInv, NEW objects, objects \in [Ids -> Draw!Objects \cup {None}],
           \A o \in Ids : obj[o] = None => objects[o] = None,
           \A o \in Ids : obj[o] # None =>
               /\ Sound(objects[o]) /\ objects[o] # None /\ objects[o].z = obj[o].z
               /\ objects[o].kind = obj[o].kind /\ objects[o].step = obj[o].step
               /\ objects[o].pane = obj[o].pane
    PROVE  /\ Levelled(objects, hover) /\ Hovering(hover, objects) /\ Shelved(list, objects)
           /\ Underway(progress, objects) /\ Held(grabbed, grip, objects)
  <1>1. Same(obj, objects) /\ SameLevels(obj, objects)
    BY DEF Same, SameLevels
  <1>2. Carries(obj, objects)
    BY <1>1, SameCarries
  <1>3. Levelled(objects, hover)
    BY DEF Levelled, DrawInv
  <1>4. Hovering(hover, objects)
    BY <1>2, HoveringCarried DEF DrawInv
  <1>5. Shelved(list, objects)
    BY <1>1, <1>2, ShelvesCarried DEF DrawInv
  <1>6. Underway(progress, objects)
    BY <1>1, UnderwaySame DEF DrawInv
  <1>7. Held(grabbed, grip, objects)
    BY <1>2, HeldCarried DEF DrawInv
  <1> QED
    BY <1>3, <1>4, <1>5, <1>6, <1>7

\* Only overlays that are there are overridden.
LEMMA OverriddenAre ==
    ASSUME DrawInv, NEW o \in Ids, o \in Draw!Kept \/ (progress # None /\ progress.id = o)
    PROVE  obj[o] # None
  <1>1. CASE o \in Draw!Kept
    <2>1. PICK p \in Panes : o \in Draw!ToSet(list[p])
      BY <1>1 DEF Draw!Kept
    <2>2. PICK i \in DOMAIN list[p] : list[p][i] = o
      BY <2>1 DEF Draw!ToSet
    <2>3. Shelf(list[p], p, obj)
      BY DEF DrawInv, Shelved
    <2> QED
      BY <2>2, <2>3 DEF Shelf, AtHome
  <1>2. CASE progress # None /\ progress.id = o
    BY <1>2 DEF DrawInv, Underway
  <1> QED
    BY <1>1, <1>2

LEMMA SetModeKeeps ==
    ASSUME DrawInv, NEW mode \in Draw!Modes, Draw!SetMode(mode)
    PROVE  DrawInv'
  <1>1. /\ bar' = [bar EXCEPT !.mode = mode]
        /\ UNCHANGED <<list, progress, hover, clicked, grabbed, grip>>
    BY DEF Draw!SetMode
  <1>2. obj' = [o \in Ids |-> IF o \in Draw!Kept \/ (progress # None /\ progress.id = o)
                              THEN [obj[o] EXCEPT !.mode = mode] ELSE obj[o]]
    BY DEF Draw!SetMode, Draw!OverrideAll
  <1>3. \A o \in Ids : obj[o] \in Draw!Objects \cup {None} /\ (obj[o] # None => Sound(obj[o]))
    BY DEF DrawInv, Levelled
  <1>4. ASSUME NEW o \in Ids, obj[o] # None
        PROVE  /\ Sound(obj'[o]) /\ obj'[o] \in Draw!Objects /\ obj'[o].z = obj[o].z
               /\ obj'[o].kind = obj[o].kind /\ obj'[o].step = obj[o].step
               /\ obj'[o].pane = obj[o].pane
    <2> DEFINE x == obj[o]
               y == [x EXCEPT !.mode = mode]
    <2>1. obj'[o] = x \/ obj'[o] = y
      BY <1>2
    <2>2. Sound(x) /\ x \in Draw!Objects
      BY <1>3, <1>4
    <2> HIDE DEF x
    <2>3. /\ y \in Draw!Objects /\ y.z = x.z /\ y.kind = x.kind /\ y.step = x.step
          /\ y.pane = x.pane /\ y.prevZ = x.prevZ /\ y.points = x.points
      BY <2>2 DEF Draw!Objects
    <2> HIDE DEF y
    <2>4. Sound(y)
      BY <2>2, <2>3 DEF Sound
    <2> QED
      BY <2>1, <2>2, <2>3, <2>4 DEF x
  <1>5. \A o \in Ids : obj[o] = None => obj'[o] = None
    BY <1>2, OverriddenAre
  <1>6. obj' \in [Ids -> Draw!Objects \cup {None}]
    BY <1>2, <1>3, <1>4, <1>5
  <1>7. \A o \in Ids : obj[o] # None => obj'[o] # None
    BY <1>4, ObjectIsSomething, ConstantsAssumption
  <1>8. /\ Levelled(obj', hover) /\ Hovering(hover, obj') /\ Shelved(list, obj')
        /\ Underway(progress, obj') /\ Held(grabbed, grip, obj')
    BY <1>4, <1>5, <1>6, <1>7, ObjectsChange
  <1>9. bar' \in [lock : BOOLEAN, mode : Draw!Modes]
    BY <1>1 DEF DrawInv
  <1> QED
    BY <1>1, <1>8, <1>9 DEF DrawInv

LEMMA ToggleLockKeeps ==
    ASSUME DrawInv, Draw!ToggleLock
    PROVE  DrawInv'
  <1> DEFINE lock == ~bar.lock
  <1>1. /\ bar' = [bar EXCEPT !.lock = ~bar.lock]
        /\ UNCHANGED <<list, progress, hover, clicked, grabbed, grip>>
    BY DEF Draw!ToggleLock
  <1>2. obj' = [o \in Ids |-> IF o \in Draw!Kept \/ (progress # None /\ progress.id = o)
                              THEN [obj[o] EXCEPT !.lock = lock] ELSE obj[o]]
    BY DEF Draw!ToggleLock, Draw!OverrideAll
  <1>3. \A o \in Ids : obj[o] \in Draw!Objects \cup {None} /\ (obj[o] # None => Sound(obj[o]))
    BY DEF DrawInv, Levelled
  <1>0. lock \in BOOLEAN
    OBVIOUS
  <1> HIDE DEF lock
  <1>4. ASSUME NEW o \in Ids, obj[o] # None
        PROVE  /\ Sound(obj'[o]) /\ obj'[o] \in Draw!Objects /\ obj'[o].z = obj[o].z
               /\ obj'[o].kind = obj[o].kind /\ obj'[o].step = obj[o].step
               /\ obj'[o].pane = obj[o].pane
    <2> DEFINE x == obj[o]
               y == [x EXCEPT !.lock = lock]
    <2>1. obj'[o] = x \/ obj'[o] = y
      BY <1>2
    <2>2. Sound(x) /\ x \in Draw!Objects
      BY <1>3, <1>4
    <2> HIDE DEF x
    <2>3. /\ y \in Draw!Objects /\ y.z = x.z /\ y.kind = x.kind /\ y.step = x.step
          /\ y.pane = x.pane /\ y.prevZ = x.prevZ /\ y.points = x.points
      BY <1>0, <2>2 DEF Draw!Objects
    <2> HIDE DEF y
    <2>4. Sound(y)
      BY <2>2, <2>3 DEF Sound
    <2> QED
      BY <2>1, <2>2, <2>3, <2>4 DEF x
  <1>5. \A o \in Ids : obj[o] = None => obj'[o] = None
    BY <1>2, OverriddenAre
  <1>6. obj' \in [Ids -> Draw!Objects \cup {None}]
    BY <1>2, <1>3, <1>4, <1>5
  <1>7. \A o \in Ids : obj[o] # None => obj'[o] # None
    BY <1>4, ObjectIsSomething, ConstantsAssumption
  <1>8. /\ Levelled(obj', hover) /\ Hovering(hover, obj') /\ Shelved(list, obj')
        /\ Underway(progress, obj') /\ Held(grabbed, grip, obj')
    BY <1>4, <1>5, <1>6, <1>7, ObjectsChange
  <1>9. bar' \in [lock : BOOLEAN, mode : Draw!Modes]
    BY <1>0, <1>1 DEF DrawInv, lock
  <1> QED
    BY <1>1, <1>8, <1>9 DEF DrawInv

\* A drag moves the points that belong together, by as much.
LEMMA DraggedSound ==
    ASSUME NEW x, Sound(x), x.step = Draw!Finished,
           NEW figure \in Int, NEW q \in Draw!Spots,
           grip \in [from : Draw!Spots, points : Seq(Draw!Spots)],
           Aligned(x.kind, grip.points)
    PROVE  LET y == Draw!Dragged(x, figure, q)
           IN  /\ Sound(y) /\ y \in Draw!Objects /\ y.z = x.z /\ y.kind = x.kind
               /\ y.step = x.step /\ y.pane = x.pane
  <1> DEFINE g == grip.points
             b == grip.from
             m == [i \in DOMAIN g |-> [t |-> g[i].t + q.t - b.t, v |-> g[i].v + q.v - b.v]]
             s == x.points
             put == [s EXCEPT ![figure] = q]
             d == Draw!DraggedPoint(x.kind, put, q)
             spots == IF figure = Draw!Other THEN m ELSE d
             y == [x EXCEPT !.points = spots]
  <1>1. x \in Draw!Objects /\ s \in Seq(Draw!Spots)
    BY DEF Sound, Draw!Objects
  <1>2. g \in Seq(Draw!Spots) /\ b \in Draw!Spots
    OBVIOUS
  <1>3. m \in Seq(Draw!Spots) /\ Aligned(x.kind, m)
    <2>2. Aligned(x.kind, g)
      OBVIOUS
    <2> HIDE DEF g, b
    <2>0. \A i \in DOMAIN g : g[i] \in Draw!Spots
      BY <1>2
    <2>1. /\ \A i \in DOMAIN g : g[i].t \in Int /\ g[i].v \in Int
          /\ q.t \in Int /\ q.v \in Int /\ b.t \in Int /\ b.v \in Int
      BY <1>2, <2>0 DEF Draw!Spots
    <2>3. /\ DOMAIN m = 1..Len(g) /\ Len(g) \in Nat
          /\ \A i \in 1..Len(g) : m[i].t = g[i].t + q.t - b.t /\ m[i].v = g[i].v + q.v - b.v
      BY <1>2
    <2>4. \A i \in 1..Len(g) : m[i] \in Draw!Spots
      BY ONLY <1>2, <2>1 DEF Draw!Spots
    <2>5. m \in Seq(Draw!Spots) /\ Len(m) = Len(g)
      BY <2>3, <2>4
    <2> HIDE DEF m
    <2>6. Aligned(x.kind, m)
      <3> SUFFICES ASSUME Len(g) = 2
                   PROVE  /\ x.kind = "horizontal" => m[1].v = m[2].v
                          /\ x.kind = "vertical"   => m[1].t = m[2].t
        BY <2>5 DEF Aligned
      <3>1. 1 \in 1..Len(g) /\ 2 \in 1..Len(g)
        OBVIOUS
      <3>2. /\ x.kind = "horizontal" => g[1].v = g[2].v
            /\ x.kind = "vertical"   => g[1].t = g[2].t
        BY <2>2 DEF Aligned
      <3> QED
        BY <2>3, <3>1, <3>2
    <2> QED
      BY <2>5, <2>6
  <1>4. d \in Seq(Draw!Spots) /\ Aligned(x.kind, d)
    <2>1. put \in Seq(Draw!Spots)
      <3> HIDE DEF s
      <3>1. /\ \A i \in 1..Len(s) : s[i] \in Draw!Spots
            /\ put = [i \in 1..Len(s) |-> IF i = figure THEN q ELSE s[i]] /\ Len(s) \in Nat
        BY <1>1
      <3>2. \A i \in 1..Len(s) : put[i] \in Draw!Spots
        BY <3>1
      <3> HIDE DEF put
      <3> QED
        BY <3>1, <3>2
    <2> HIDE DEF put
    <2> QED
      BY <2>1, DraggedAligned
  <1>5. spots \in Seq(Draw!Spots) /\ Aligned(x.kind, spots)
    <2> HIDE DEF m, d
    <2> QED
      BY <1>3, <1>4
  <1>6. Draw!Dragged(x, figure, q) = y
    BY DEF Draw!Dragged
  <1> HIDE DEF spots
  <1>7. /\ y \in Draw!Objects /\ y.z = x.z /\ y.kind = x.kind /\ y.step = x.step
        /\ y.pane = x.pane /\ y.prevZ = x.prevZ /\ y.points = spots
    BY <1>1, <1>5 DEF Draw!Objects
  <1> HIDE DEF y
  <1>8. Sound(y)
    BY <1>5, <1>7 DEF Sound
  <1> QED
    BY <1>6, <1>7, <1>8

LEMMA PressedMoveKeeps ==
    ASSUME DrawInv, NEW p \in Points, Draw!PressedMove(p)
    PROVE  DrawInv'
  <1> DEFINE o == grabbed.id
             q == Draw!PointFor(o, obj[o].pane, p)
             y == Draw!Dragged(obj[o], grabbed.figure, q)
  <1>1. /\ grabbed # None /\ obj' = [obj EXCEPT ![o] = y]
        /\ UNCHANGED <<list, progress, hover, clicked, grabbed, grip, bar>>
    BY DEF Draw!PressedMove
  <1>2. /\ o \in Ids /\ grabbed.figure \in Int /\ obj[o] # None
        /\ obj[o].step = Draw!Finished
        /\ grip \in [from : Draw!Spots, points : Seq(Draw!Spots)]
        /\ Aligned(obj[o].kind, grip.points)
    BY <1>1 DEF DrawInv, Held
  <1>3. /\ obj \in [Ids -> Draw!Objects \cup {None}]
        /\ \A i \in Ids : obj[i] # None => Sound(obj[i])
    BY DEF DrawInv, Levelled
  <1>4. q \in Draw!Spots
    <2>1. p \in Draw!Spots
      BY ConstantsAssumption DEF Draw!DrawingAssumption
    <2> QED
      BY <2>1, ConstantsAssumption, PointTyped
  <1> DEFINE x == obj[o]
  <1>5. /\ Sound(y) /\ y \in Draw!Objects /\ y.z = x.z /\ y.kind = x.kind
        /\ y.step = x.step /\ y.pane = x.pane
    <2> HIDE DEF q
    <2>1. Sound(obj[o])
      BY <1>2, <1>3
    <2> QED
      BY <1>2, <1>4, <2>1, DraggedSound
  <1>6. y # None
    BY <1>5, ConstantsAssumption, ObjectIsSomething
  <1> HIDE DEF y
  <1>7. obj' = [i \in Ids |-> IF i = o THEN y ELSE obj[i]]
    BY <1>1, <1>3
  <1> DEFINE objects == [i \in Ids |-> IF i = o THEN y ELSE obj[i]]
  <1>8. /\ objects \in [Ids -> Draw!Objects \cup {None}]
        /\ \A i \in Ids : obj[i] = None => objects[i] = None
    BY <1>2, <1>3, <1>5
  <1>9. \A i \in Ids : obj[i] # None =>
            /\ Sound(objects[i]) /\ objects[i] # None /\ objects[i].z = obj[i].z
            /\ objects[i].kind = obj[i].kind /\ objects[i].step = obj[i].step
            /\ objects[i].pane = obj[i].pane
    BY <1>2, <1>3, <1>5, <1>6
  <1> HIDE DEF objects
  <1>10. /\ Levelled(objects, hover) /\ Hovering(hover, objects) /\ Shelved(list, objects)
         /\ Underway(progress, objects) /\ Held(grabbed, grip, objects)
    BY <1>8, <1>9, ObjectsChange
  <1>11. obj' = objects
    BY <1>7 DEF objects
  <1> QED
    BY <1>1, <1>10, <1>11 DEF DrawInv

\* What is kept is finished.
LEMMA KeptIsHome ==
    ASSUME DrawInv, NEW o \in Draw!Kept
    PROVE  o \in Ids /\ obj[o] # None /\ obj[o].step = Draw!Finished
  <1>1. PICK p \in Panes : o \in Draw!ToSet(list[p])
    BY DEF Draw!Kept
  <1>2. PICK i \in DOMAIN list[p] : list[p][i] = o
    BY <1>1 DEF Draw!ToSet
  <1>3. Shelf(list[p], p, obj)
    BY DEF DrawInv, Shelved
  <1> QED
    BY <1>2, <1>3 DEF Shelf, AtHome

LEMMA OverridePointsKeeps ==
    ASSUME DrawInv, NEW o, NEW spots \in Seq(Draw!Spots), Draw!OverridePoints(o, spots)
    PROVE  DrawInv'
  <1> DEFINE last == Draw!Last(spots)
             put == Draw!DraggedPoint(obj[o].kind, spots, last)
             y == [obj[o] EXCEPT !.points = put]
  <1>1. /\ obj' = [obj EXCEPT ![o] = y] /\ o \in Draw!Kept
        /\ Len(spots) = Draw!TotalStep(obj[o].kind) - 1
        /\ UNCHANGED <<list, progress, hover, clicked, grabbed, grip, bar>>
    BY DEF Draw!OverridePoints
  <1>2. o \in Ids /\ obj[o] # None /\ obj[o].step = Draw!Finished
    BY <1>1, KeptIsHome
  <1>3. /\ obj \in [Ids -> Draw!Objects \cup {None}]
        /\ \A i \in Ids : obj[i] # None => Sound(obj[i])
    BY DEF DrawInv, Levelled
  <1>4. put \in Seq(Draw!Spots) /\ Aligned(obj[o].kind, put)
    <2>1. Len(spots) \in {1, 2}
      BY <1>1 DEF Draw!TotalStep
    <2>2. last \in Draw!Spots
      BY <2>1 DEF Draw!Last
    <2> HIDE DEF last
    <2> QED
      BY <2>2, DraggedAligned
  <1> HIDE DEF put
  <1>5. /\ Sound(y) /\ y \in Draw!Objects /\ y.z = obj[o].z /\ y.kind = obj[o].kind
        /\ y.step = obj[o].step /\ y.pane = obj[o].pane
    <2>1. Sound(obj[o])
      BY <1>2, <1>3
    <2>2. /\ y \in Draw!Objects /\ y.z = obj[o].z /\ y.kind = obj[o].kind
          /\ y.step = obj[o].step /\ y.pane = obj[o].pane /\ y.prevZ = obj[o].prevZ
          /\ y.points = put
      BY <1>4, <2>1 DEF Sound, Draw!Objects
    <2> HIDE DEF y
    <2> QED
      BY <1>2, <1>4, <2>1, <2>2 DEF Sound
  <1>6. y # None
    BY <1>5, ConstantsAssumption, ObjectIsSomething
  <1> HIDE DEF y
  <1>7. obj' = [i \in Ids |-> IF i = o THEN y ELSE obj[i]]
    BY <1>1, <1>3
  <1> DEFINE objects == [i \in Ids |-> IF i = o THEN y ELSE obj[i]]
  <1>8. /\ objects \in [Ids -> Draw!Objects \cup {None}]
        /\ \A i \in Ids : obj[i] = None => objects[i] = None
    BY <1>2, <1>3, <1>5
  <1>9. \A i \in Ids : obj[i] # None =>
            /\ Sound(objects[i]) /\ objects[i] # None /\ objects[i].z = obj[i].z
            /\ objects[i].kind = obj[i].kind /\ objects[i].step = obj[i].step
            /\ objects[i].pane = obj[i].pane
    BY <1>2, <1>3, <1>5, <1>6
  <1> HIDE DEF objects
  <1>10. /\ Levelled(objects, hover) /\ Hovering(hover, objects) /\ Shelved(list, objects)
         /\ Underway(progress, objects) /\ Held(grabbed, grip, objects)
    BY <1>8, <1>9, ObjectsChange
  <1>11. obj' = objects
    BY <1>7 DEF objects
  <1> QED
    BY <1>1, <1>10, <1>11 DEF DrawInv

LEMMA OverrideLevelKeeps ==
    ASSUME DrawInv, NEW o, NEW z \in 0..(Draw!OnTop - 1), Draw!OverrideLevel(o, z)
    PROVE  DrawInv'
  <1> DEFINE y == [obj[o] EXCEPT !.z = z]
  <1>1. /\ obj' = [obj EXCEPT ![o] = y] /\ o \in Draw!Kept /\ o # hover
        /\ list' = Draw!SortedIn(list, obj')
        /\ UNCHANGED <<progress, hover, clicked, grabbed, grip, bar>>
    BY DEF Draw!OverrideLevel
  <1>2. o \in Ids /\ obj[o] # None
    BY <1>1, KeptIsHome
  <1>3. /\ obj \in [Ids -> Draw!Objects \cup {None}]
        /\ \A i \in Ids : obj[i] # None => Sound(obj[i]) /\ (obj[i].z = Draw!OnTop <=> i = hover)
    BY DEF DrawInv, Levelled
  <1>4. /\ Sound(y) /\ y \in Draw!Objects /\ y.z # Draw!OnTop /\ y.kind = obj[o].kind
        /\ y.step = obj[o].step /\ y.pane = obj[o].pane
    <2>1. Sound(obj[o])
      BY <1>2, <1>3
    <2>2. z \in Int /\ z \in 0..Draw!OnTop /\ z # Draw!OnTop
      BY DEF Draw!OnTop
    <2>3. /\ y \in Draw!Objects /\ y.z = z /\ y.kind = obj[o].kind
          /\ y.step = obj[o].step /\ y.pane = obj[o].pane /\ y.prevZ = obj[o].prevZ
          /\ y.points = obj[o].points
      BY <2>1, <2>2 DEF Sound, Draw!Objects
    <2> HIDE DEF y
    <2> QED
      BY <2>1, <2>2, <2>3 DEF Sound
  <1>5. y # None
    BY <1>4, ConstantsAssumption, ObjectIsSomething
  <1> HIDE DEF y
  <1>6. obj' = [i \in Ids |-> IF i = o THEN y ELSE obj[i]]
    BY <1>1, <1>3
  <1>7. Levelled(obj', hover)
    BY <1>1, <1>2, <1>3, <1>4, <1>6 DEF Levelled
  <1>8. Same(obj, obj')
    BY <1>2, <1>4, <1>5, <1>6 DEF Same
  <1>9. Carries(obj, obj')
    BY <1>8, SameCarries
  <1>10. \A p \in Panes : Shelf(list[p], p, obj')
    <2>1. \A p \in Panes : Shelf(list[p], p, obj)
      BY DEF DrawInv, Shelved
    <2> QED
      BY <1>9, <2>1, ShelfCarried
  <1>11. Shelved(list', obj')
    BY <1>1, <1>7, <1>10, ShelvesSorted
  <1>12. Hovering(hover, obj') /\ Underway(progress, obj') /\ Held(grabbed, grip, obj')
    BY <1>8, <1>9, HoveringCarried, UnderwaySame, HeldCarried DEF DrawInv
  <1> QED
    BY <1>1, <1>7, <1>11, <1>12 DEF DrawInv

LEMMA RemoveKeeps ==
    ASSUME DrawInv, NEW gone, Draw!RemoveOverlays(gone),
           UNCHANGED <<obj, hover, clicked, grabbed, grip, bar>>
    PROVE  DrawInv'
  <1>1. list' = [p \in Panes |-> Draw!Without(list[p], gone)]
    BY DEF Draw!RemoveOverlays
  <1>2. progress' = None \/ progress' = progress
    BY DEF Draw!RemoveOverlays
  <1>3. ASSUME NEW p \in Panes PROVE Shelf(list'[p], p, obj) /\ Ordered(list'[p], obj)
    <2>1. Shelf(list[p], p, obj) /\ Ordered(list[p], obj)
      BY DEF DrawInv, Shelved
    <2>2. /\ Shelf(Draw!Without(list[p], gone), p, obj)
          /\ Ordered(Draw!Without(list[p], gone), obj)
      BY <2>1, ShelfWithout
    <2>3. list'[p] = Draw!Without(list[p], gone)
      BY <1>1
    <2> QED
      BY <2>2, <2>3
  <1>4. Shelved(list', obj)
    <2>1. list' = [p \in Panes |-> list'[p]]
      BY <1>1
    <2> QED
      BY <1>3, <2>1 DEF Shelved
  <1>5. Underway(progress', obj)
    BY <1>2 DEF DrawInv, Underway
  <1> QED
    BY <1>4, <1>5 DEF DrawInv

LEMMA OverlayPressKeeps ==
    ASSUME DrawInv, NEW o \in Ids, NEW figure \in {Draw!Other, 1, 2}, NEW p \in Points,
           Draw!MouseDown(o, figure, p)
    PROVE  DrawInv'
  <1> DEFINE q == Draw!PointFor(o, obj[o].pane, p)
  <1>1. /\ o \in Draw!Kept /\ grabbed' = [id |-> o, figure |-> figure]
        /\ grip' = [from |-> q, points |-> obj[o].points]
        /\ UNCHANGED <<obj, list, progress, hover, clicked, bar>>
    BY DEF Draw!MouseDown
  <1>2. obj[o] # None /\ obj[o].step = Draw!Finished
    <2>1. PICK pane \in Panes : o \in Draw!ToSet(list[pane])
      BY <1>1 DEF Draw!Kept
    <2>2. PICK i \in DOMAIN list[pane] : list[pane][i] = o
      BY <2>1 DEF Draw!ToSet
    <2>3. Shelf(list[pane], pane, obj)
      BY DEF DrawInv, Shelved
    <2> QED
      BY <2>2, <2>3 DEF Shelf, AtHome
  <1>3. Sound(obj[o])
    BY <1>2 DEF DrawInv, Levelled
  <1>4. obj[o].points \in Seq(Draw!Spots) /\ Aligned(obj[o].kind, obj[o].points)
    BY <1>3 DEF Sound, Draw!Objects
  <1>5. q \in Draw!Spots
    <2>1. p \in Draw!Spots
      BY ConstantsAssumption DEF Draw!DrawingAssumption
    <2> QED
      BY <2>1, ConstantsAssumption, PointTyped
  <1> HIDE DEF q
  <1>6. /\ grabbed' \in [id : Ids, figure : Int] /\ grabbed'.id = o
        /\ grip' \in [from : Draw!Spots, points : Seq(Draw!Spots)]
        /\ grip'.points = obj[o].points
    BY <1>1, <1>4, <1>5 DEF Draw!Other
  <1>7. Held(grabbed', grip', obj)
    BY <1>2, <1>4, <1>6 DEF Held
  <1> QED
    BY <1>1, <1>7 DEF DrawInv

LEMMA OverlayHoverKeeps ==
    ASSUME DrawInv, NEW o \in Ids \cup {None}, Draw!MouseMove(o)
    PROVE  DrawInv'
  <1>1. /\ o \in Draw!Kept \cup {None} /\ Draw!SetHover(o, obj, list)
        /\ UNCHANGED <<progress, clicked, grabbed, grip, bar>>
    BY DEF Draw!MouseMove
  <1>2. Hovering(o, obj)
    <2> SUFFICES ASSUME o # None PROVE o \in Ids /\ obj[o] # None
      BY DEF Hovering
    <2> QED
      BY <1>1, OverriddenAre
  <1>3. /\ Levelled(obj', hover') /\ Hovering(hover', obj') /\ Shelved(list', obj')
        /\ Same(obj, obj')
    <2>1. Levelled(obj, hover) /\ Hovering(hover, obj) /\ Shelved(list, obj)
      BY DEF DrawInv
    <2> QED
      BY <1>1, <1>2, <2>1, ConstantsAssumption, SetHoverKeeps
  <1>4. Underway(progress, obj')
    BY <1>3, UnderwaySame DEF DrawInv
  <1>5. Held(grabbed, grip, obj')
    BY <1>3, SameCarries, HeldCarried DEF DrawInv
  <1> QED
    BY <1>1, <1>3, <1>4, <1>5 DEF DrawInv

\* The overlay that is drawn changes but for its kind and its level.
LEMMA UnderwayChange ==
    ASSUME DrawInv, progress # None, NEW x, Sound(x), x.kind = obj[progress.id].kind,
           x.z = obj[progress.id].z
    PROVE  LET objects == [obj EXCEPT ![progress.id] = x]
           IN  /\ Levelled(objects, hover) /\ Hovering(hover, objects)
               /\ Shelved(list, objects) /\ Held(grabbed, grip, objects)
               /\ progress.id \in Ids /\ objects[progress.id] = x /\ x # None
               /\ \A p \in Panes : \A i \in DOMAIN list[p] : list[p][i] # progress.id
  <1> DEFINE o == progress.id
             objects == [obj EXCEPT ![o] = x]
  <1>1. o \in Ids /\ obj[o] # None /\ obj[o].step # Draw!Finished
    BY DEF DrawInv, Underway
  <1>2. /\ obj \in [Ids -> Draw!Objects \cup {None}]
        /\ \A i \in Ids : obj[i] # None =>
               Sound(obj[i]) /\ (obj[i].z = Draw!OnTop <=> i = hover)
    BY DEF DrawInv, Levelled
  <1>3. x \in Draw!Objects /\ x # None
    BY ConstantsAssumption, ObjectIsSomething DEF Sound
  <1>4. objects = [i \in Ids |-> IF i = o THEN x ELSE obj[i]]
    BY <1>2
  <1> HIDE DEF objects
  <1>5. objects[o] = x /\ \A i \in Ids : i # o => objects[i] = obj[i]
    BY <1>1, <1>4
  <1>6. Carries(obj, objects) /\ SameLevels(obj, objects)
    BY <1>1, <1>3, <1>5 DEF Carries, SameLevels
  <1>7. Levelled(objects, hover)
    <2>1. objects \in [Ids -> Draw!Objects \cup {None}]
      BY <1>2, <1>3, <1>4
    <2>2. Sound(objects[o]) /\ (objects[o].z = Draw!OnTop <=> o = hover)
      BY <1>1, <1>2, <1>5
    <2>3. \A i \in Ids : objects[i] # None =>
               Sound(objects[i]) /\ (objects[i].z = Draw!OnTop <=> i = hover)
      BY <1>2, <1>5, <2>2
    <2> QED
      BY <2>1, <2>3 DEF Levelled
  <1>8. Shelved(list, objects)
    BY <1>6, ShelvesCarried DEF DrawInv
  <1>9. Held(grabbed, grip, objects) /\ Hovering(hover, objects)
    BY <1>6, HeldCarried, HoveringCarried DEF DrawInv
  <1>10. ASSUME NEW p \in Panes, NEW i \in DOMAIN list[p] PROVE list[p][i] # o
    <2>1. Shelf(list[p], p, obj)
      BY DEF DrawInv, Shelved
    <2>2. obj[list[p][i]].step = Draw!Finished
      BY <2>1 DEF Shelf, AtHome
    <2> QED
      BY <1>1, <2>2
  <1> QED
    BY <1>1, <1>3, <1>5, <1>7, <1>8, <1>9, <1>10 DEF objects

\* A drawing that is done goes to the list of its pane.
LEMMA Completed ==
    ASSUME DrawInv, progress # None, NEW x, Sound(x), x.kind = obj[progress.id].kind,
           x.z = obj[progress.id].z, x.step = Draw!Finished,
           NEW pane \in Panes, x.pane = pane,
           obj' = [obj EXCEPT ![progress.id] = x],
           Draw!ProgressComplete(progress.id, pane, [obj EXCEPT ![progress.id] = x]),
           UNCHANGED <<hover, grabbed, grip, bar>>
    PROVE  DrawInv'
  <1> DEFINE o == progress.id
             objects == [obj EXCEPT ![progress.id] = x]
             more == Append(list[pane], o)
  <1>1. /\ list' = [list EXCEPT ![pane] = Draw!Sorted(more, objects)]
        /\ progress' = None /\ obj' = objects
    BY DEF Draw!ProgressComplete
  <1>2. /\ Levelled(objects, hover) /\ Hovering(hover, objects)
        /\ Shelved(list, objects) /\ Held(grabbed, grip, objects)
        /\ o \in Ids /\ objects[o] = x /\ x # None
        /\ \A p \in Panes : \A i \in DOMAIN list[p] : list[p][i] # o
    BY UnderwayChange
  <1> HIDE DEF objects
  <1>3. \A p \in Panes : Shelf(list[p], p, objects) /\ Ordered(list[p], objects)
    BY <1>2 DEF Shelved
  <1>4. list = [p \in Panes |-> list[p]]
    BY <1>2 DEF Shelved
  <1>5. Shelf(more, pane, objects)
    <2>1. AtHome(objects[o], pane)
      BY <1>2 DEF AtHome
    <2> QED
      BY <1>2, <1>3, <2>1, ShelfWithMore
  <1>6. /\ Shelf(Draw!Sorted(more, objects), pane, objects)
        /\ Ordered(Draw!Sorted(more, objects), objects)
    BY <1>2, <1>5, ShelfSorted
  <1> DEFINE sorted == Draw!Sorted(more, objects)
             new == [p \in Panes |-> IF p = pane THEN sorted ELSE list[p]]
  <1>7. list' = new
    BY <1>1, <1>4
  <1> HIDE DEF sorted
  <1>8. new[pane] = sorted /\ \A p \in Panes : p # pane => new[p] = list[p]
    OBVIOUS
  <1>9. new = [p \in Panes |-> new[p]]
    OBVIOUS
  <1> HIDE DEF new
  <1>10. \A p \in Panes : Shelf(new[p], p, objects) /\ Ordered(new[p], objects)
    BY <1>3, <1>6, <1>8 DEF sorted
  <1>11. Shelved(new, objects)
    BY <1>9, <1>10 DEF Shelved
  <1>12. Underway(progress', objects)
    BY <1>1 DEF Underway
  <1> QED
    BY <1>1, <1>2, <1>7, <1>11, <1>12 DEF DrawInv

\* What DrawTo makes of the overlay that is drawn.
LEMMA DrawnTo ==
    ASSUME DrawInv, progress # None, NEW pane \in Panes, NEW p \in Points
    PROVE  LET o == progress.id
               x == Draw!DrawTo(o, pane, p)
           IN  /\ Sound(x) /\ x.step = obj[o].step /\ x.kind = obj[o].kind
               /\ x.z = obj[o].z /\ x.pane \in Panes
               /\ x.step \in {1, 2} /\ x.step <= Draw!TotalStep(x.kind) - 1
               /\ Len(x.points) <= x.step /\ x.step # Draw!Finished
               /\ progress \in [id : Ids, pane : Panes]
  <1> DEFINE o == progress.id
             x == Draw!DrawTo(o, pane, p)
  <1>1. /\ progress \in [id : Ids, pane : Panes] /\ o \in Ids /\ progress.pane \in Panes
        /\ obj[o] # None /\ obj[o].step # Draw!Finished
    BY DEF DrawInv, Underway
  <1>2. Sound(obj[o])
    BY <1>1 DEF DrawInv, Levelled
  <1>3. /\ Sound(x) /\ x.step = obj[o].step /\ x.kind = obj[o].kind
        /\ x.z = obj[o].z /\ x.pane \in Panes
    BY <1>1, <1>2, ConstantsAssumption, DrawToKeeps
  <1> HIDE DEF x
  <1>4. /\ x.step \in {1, 2} /\ x.step <= Draw!TotalStep(x.kind) - 1
        /\ Len(x.points) <= x.step /\ x.step # Draw!Finished
    BY <1>1, <1>3 DEF Sound
  <1> QED
    BY <1>1, <1>3, <1>4 DEF x

LEMMA DrawMoveKeeps ==
    ASSUME DrawInv, NEW pane \in Panes, NEW p \in Points, Draw!DrawMove(pane, p)
    PROVE  DrawInv'
  <1> DEFINE o == progress.id
             x == Draw!DrawTo(o, pane, p)
             objects == [obj EXCEPT ![o] = x]
  <1>1. /\ progress # None /\ progress' = [progress EXCEPT !.pane = x.pane]
        /\ Draw!SetHover(o, objects, list)
        /\ UNCHANGED <<clicked, grabbed, grip, bar>>
    BY DEF Draw!DrawMove, Draw!Drawing
  <1>2. /\ Sound(x) /\ x.step = obj[o].step /\ x.kind = obj[o].kind
        /\ x.z = obj[o].z /\ x.pane \in Panes /\ x.step # Draw!Finished
        /\ progress \in [id : Ids, pane : Panes]
    BY <1>1, DrawnTo
  <1> HIDE DEF x
  <1>3. /\ Levelled(objects, hover) /\ Hovering(hover, objects)
        /\ Shelved(list, objects) /\ Held(grabbed, grip, objects)
        /\ o \in Ids /\ objects[o] = x /\ x # None
    BY <1>1, <1>2, UnderwayChange
  <1> HIDE DEF objects
  <1>4. Hovering(o, objects)
    BY <1>3 DEF Hovering
  <1>5. /\ Levelled(obj', hover') /\ Hovering(hover', obj') /\ Shelved(list', obj')
        /\ Same(objects, obj')
    BY <1>1, <1>3, <1>4, ConstantsAssumption, SetHoverKeeps
  <1>6. Held(grabbed, grip, obj')
    BY <1>3, <1>5, SameCarries, HeldCarried
  <1>7. Underway(progress', obj')
    <2>1. /\ progress' \in [id : Ids, pane : Panes] /\ progress'.id = o
          /\ progress'.pane = x.pane
      BY <1>1, <1>2
    <2>2. Underway(progress', objects)
      BY <1>2, <1>3, <2>1 DEF Underway
    <2> QED
      BY <1>5, <2>2, UnderwaySame
  <1> QED
    BY <1>1, <1>5, <1>6, <1>7 DEF DrawInv

LEMMA DrawClickKeeps ==
    ASSUME DrawInv, NEW pane \in Panes, NEW p \in Points, Draw!DrawClick(pane, p)
    PROVE  DrawInv'
  <1> DEFINE o == progress.id
             shifted == Draw!DrawTo(o, pane, p)
             step == IF shifted.step = Draw!TotalStep(shifted.kind) - 1
                     THEN Draw!Finished ELSE shifted.step + 1
             x == IF shifted.pane # pane THEN shifted ELSE [shifted EXCEPT !.step = step]
             objects == [obj EXCEPT ![o] = x]
  <1>1. /\ progress # None /\ obj' = objects
        /\ IF x.step = Draw!Finished
           THEN Draw!ProgressComplete(o, x.pane, objects)
           ELSE progress' = [progress EXCEPT !.pane = x.pane] /\ UNCHANGED list
        /\ UNCHANGED <<hover, grabbed, grip, bar>>
    BY DEF Draw!DrawClick, Draw!Drawing
  <1>2. /\ Sound(shifted) /\ shifted.kind = obj[o].kind
        /\ shifted.z = obj[o].z /\ shifted.pane \in Panes /\ shifted.step \in {1, 2}
        /\ shifted.step <= Draw!TotalStep(shifted.kind) - 1 /\ Len(shifted.points) <= shifted.step
        /\ progress \in [id : Ids, pane : Panes]
    BY <1>1, DrawnTo
  <1> HIDE DEF shifted
  <1>3. /\ Sound(x) /\ x.kind = obj[o].kind /\ x.z = obj[o].z /\ x.pane \in Panes
    <2>1. CASE shifted.pane # pane
      BY <1>2, <2>1
    <2>2. CASE shifted.pane = pane
      <3> DEFINE y == [shifted EXCEPT !.step = step]
      <3>1. /\ step \in Int
            /\ step # Draw!Finished => /\ step \in {1, 2}
                                       /\ step <= Draw!TotalStep(shifted.kind) - 1
                                       /\ shifted.step <= step
        BY <1>2 DEF Draw!TotalStep, Draw!Finished
      <3> HIDE DEF step
      <3>2. shifted \in Draw!Objects
        BY <1>2 DEF Sound
      <3>3. /\ y \in Draw!Objects /\ y.step = step /\ y.kind = shifted.kind /\ y.z = shifted.z
            /\ y.prevZ = shifted.prevZ /\ y.pane = shifted.pane /\ y.points = shifted.points
        BY <3>1, <3>2 DEF Draw!Objects
      <3> HIDE DEF y
      <3>4. step # Draw!Finished => Len(shifted.points) <= step
        <4>1. Len(shifted.points) \in Nat
          BY <3>2 DEF Draw!Objects
        <4> QED
          BY <1>2, <3>1, <4>1
      <3>5. Sound(y)
        BY <1>2, <3>1, <3>3, <3>4 DEF Sound
      <3>6. x = y
        BY <2>2 DEF y
      <3> QED
        BY <1>2, <3>3, <3>5, <3>6
    <2> QED
      BY <2>1, <2>2
  <1> HIDE DEF x
  <1>4. CASE x.step = Draw!Finished
    BY <1>1, <1>3, <1>4, Completed
  <1>5. CASE x.step # Draw!Finished
    <2>1. progress' = [progress EXCEPT !.pane = x.pane] /\ list' = list
      BY <1>1, <1>5
    <2>2. /\ Levelled(objects, hover) /\ Hovering(hover, objects)
          /\ Shelved(list, objects) /\ Held(grabbed, grip, objects)
          /\ o \in Ids /\ objects[o] = x /\ x # None
      BY <1>1, <1>3, UnderwayChange
    <2> HIDE DEF objects
    <2>3. /\ progress' \in [id : Ids, pane : Panes] /\ progress'.id = o
          /\ progress'.pane = x.pane
      BY <1>2, <1>3, <2>1
    <2>4. Underway(progress', objects)
      BY <1>5, <2>2, <2>3 DEF Underway
    <2> QED
      BY <1>1, <2>1, <2>2, <2>4 DEF DrawInv
  <1> QED
    BY <1>4, <1>5

LEMMA DrawDoubleClickKeeps ==
    ASSUME DrawInv, NEW pane \in Panes, Draw!DrawDoubleClick(pane)
    PROVE  DrawInv'
  <1> DEFINE o == progress.id
             x == [obj[o] EXCEPT !.step = Draw!Finished]
  <1>0. progress # None /\ UNCHANGED <<hover, grabbed, grip, bar>>
    BY DEF Draw!DrawDoubleClick, Draw!Drawing
  <1>1. CASE progress.pane = pane
    <2>1. /\ obj' = [obj EXCEPT ![o].step = Draw!Finished]
          /\ Draw!ProgressComplete(o, pane, [obj EXCEPT ![o].step = Draw!Finished])
      BY <1>1 DEF Draw!DrawDoubleClick
    <2>2. o \in Ids /\ obj[o] # None /\ obj[o].pane = pane
      BY <1>0, <1>1 DEF DrawInv, Underway
    <2>3. Sound(obj[o])
      BY <2>2 DEF DrawInv, Levelled
    <2>4. obj[o] \in Draw!Objects
      BY <2>3 DEF Sound
    <2>5. /\ x \in Draw!Objects /\ x.step = Draw!Finished /\ x.kind = obj[o].kind
          /\ x.z = obj[o].z /\ x.prevZ = obj[o].prevZ /\ x.pane = pane
          /\ x.points = obj[o].points
      BY <2>2, <2>4 DEF Draw!Objects, Draw!Finished
    <2>6. [obj EXCEPT ![o].step = Draw!Finished] = [obj EXCEPT ![o] = x]
      OBVIOUS
    <2> HIDE DEF x
    <2>7. Sound(x)
      BY <2>3, <2>5 DEF Sound
    <2> QED
      BY <1>0, <2>1, <2>5, <2>6, <2>7, Completed
  <1>2. CASE progress.pane # pane
    <2>1. UNCHANGED <<obj, list, progress>>
      BY <1>2 DEF Draw!DrawDoubleClick
    <2> QED
      BY <1>0, <2>1 DEF DrawInv
  <1> QED
    BY <1>1, <1>2

\* A new overlay is at its first step, or it has all its points.
LEMMA CreateKeeps ==
    ASSUME DrawInv, NEW o \in Ids, NEW kind \in Kinds, NEW group \in {Draw!GroupId} \cup Ids,
           NEW pane \in Panes, NEW spots \in Seq(Draw!Spots),
           spots = <<>> \/ Len(spots) = Draw!TotalStep(kind) - 1,
           Draw!CreateOverlay(o, kind, group, pane, spots)
    PROVE  DrawInv'
  <1> DEFINE done == Len(spots) >= Draw!TotalStep(kind) - 1 /\ spots # <<>>
             step == IF done THEN Draw!Finished ELSE Len(spots) + 1
             put == IF done THEN Draw!DraggedPoint(kind, spots, Draw!Last(spots)) ELSE spots
             z == Len(list[pane])
             x == [kind |-> kind, group |-> group, pane |-> pane, step |-> step,
                   z |-> z, prevZ |-> 0, lock |-> bar.lock, mode |-> bar.mode,
                   points |-> put]
             objects == [obj EXCEPT ![o] = x]
             lists == IF done THEN [list EXCEPT ![pane] = Append(@, o)] ELSE list
  <1>1. /\ obj[o] = None /\ obj' = objects /\ list' = Draw!SortedIn(lists, objects)
        /\ progress' = IF done THEN progress ELSE [id |-> o, pane |-> pane]
        /\ UNCHANGED <<hover, clicked, grabbed, grip, bar>>
    BY DEF Draw!CreateOverlay
  <1>2. /\ \A p \in Panes : Shelf(list[p], p, obj)
        /\ list = [p \in Panes |-> list[p]]
    BY DEF DrawInv, Shelved
  <1>3. z \in 0..(Draw!OnTop - 1)
    BY <1>2, ConstantsAssumption, ShelfBelowTop
  <1>4. put \in Seq(Draw!Spots) /\ (done => Aligned(kind, put)) /\ (~done => put = <<>>)
    <2>1. CASE done
      <3>1. Draw!Last(spots) \in Draw!Spots
        <4>1. Len(spots) \in 1..Len(spots)
          BY <2>1
        <4> QED
          BY <4>1 DEF Draw!Last
      <3> QED
        BY <2>1, <3>1, DraggedAligned
    <2>2. CASE ~done
      <3>1. Draw!TotalStep(kind) \in {2, 3}
        BY DEF Draw!TotalStep
      <3>2. spots = <<>>
        BY <2>2, <3>1
      <3> QED
        BY <2>2, <3>2
    <2> QED
      BY <2>1, <2>2
  <1>5. step = IF done THEN Draw!Finished ELSE 1
    <2>1. CASE done
      BY <2>1
    <2>2. CASE ~done
      <3>1. spots = <<>>
        BY <1>4, <2>2
      <3> QED
        BY <2>2, <3>1
    <2> QED
      BY <2>1, <2>2
  <1> HIDE DEF done, step, put, z
  <1>6. /\ x \in Draw!Objects /\ x.step = step /\ x.pane = pane /\ x.z = z /\ x.prevZ = 0
        /\ x.points = put /\ x.kind = kind
    <2>1. step \in Int /\ z \in Int
      BY <1>3, <1>5 DEF Draw!Finished, Draw!OnTop
    <2>2. bar.lock \in BOOLEAN /\ bar.mode \in Draw!Modes
      BY DEF DrawInv
    <2> QED
      BY <1>4, <2>1, <2>2 DEF Draw!Objects
  <1>7. x # None
    BY <1>6, ConstantsAssumption, ObjectIsSomething
  <1> HIDE DEF x
  <1>8. Sound(x)
    <2>1. x.z \in 0..Draw!OnTop /\ x.prevZ \in 0..(Draw!OnTop - 1)
      BY <1>3, <1>6 DEF Draw!OnTop
    <2>2. Aligned(x.kind, x.points)
      <3>1. CASE done
        BY <1>4, <1>6, <3>1
      <3>2. CASE ~done
        <4>1. Len(put) # 2
          BY <1>4, <3>2
        <4> QED
          BY <1>6, <4>1 DEF Aligned
      <3> QED
        BY <3>1, <3>2
    <2>3. x.step # Draw!Finished =>
              /\ x.step \in {1, 2} /\ x.step <= Draw!TotalStep(x.kind) - 1
              /\ Len(x.points) <= x.step
      <3> SUFFICES ASSUME x.step # Draw!Finished
                   PROVE  x.step = 1 /\ Draw!TotalStep(x.kind) \in {2, 3}
                          /\ Len(x.points) = 0
        OBVIOUS
      <3>1. ~done
        BY <1>5, <1>6
      <3>2. Len(put) = 0 /\ step = 1
        BY <1>4, <1>5, <3>1
      <3> QED
        BY <1>6, <3>2 DEF Draw!TotalStep
    <2> QED
      BY <1>6, <2>1, <2>2, <2>3 DEF Sound
  <1>9. /\ obj \in [Ids -> Draw!Objects \cup {None}]
        /\ \A i \in Ids : obj[i] # None =>
               Sound(obj[i]) /\ (obj[i].z = Draw!OnTop <=> i = hover)
    BY DEF DrawInv, Levelled
  <1>10. objects = [i \in Ids |-> IF i = o THEN x ELSE obj[i]]
    BY <1>9
  <1> HIDE DEF objects
  <1>11. objects[o] = x /\ \A i \in Ids : i # o => objects[i] = obj[i]
    BY <1>10
  <1>12. Same(obj, objects)
    BY <1>1, <1>11 DEF Same
  <1>13. Carries(obj, objects)
    BY <1>12, SameCarries
  <1>14. Hovering(hover, objects)
    BY <1>13, HoveringCarried DEF DrawInv
  <1>15. Levelled(objects, hover)
    <2>1. objects \in [Ids -> Draw!Objects \cup {None}]
      BY <1>6, <1>9, <1>10
    <2>2. o # hover
      <3>1. hover # None => obj[hover] # None
        BY DEF DrawInv, Hovering
      <3>2. o # None
        BY ConstantsAssumption DEF Draw!DrawingAssumption
      <3> QED
        BY <1>1, <3>1, <3>2
    <2>3. x.z # Draw!OnTop
      BY <1>3, <1>6 DEF Draw!OnTop
    <2>4. \A i \in Ids : objects[i] # None =>
               Sound(objects[i]) /\ (objects[i].z = Draw!OnTop <=> i = hover)
      BY <1>8, <1>9, <1>11, <2>2, <2>3
    <2> QED
      BY <2>1, <2>4 DEF Levelled
  <1>16. \A p \in Panes : Shelf(lists[p], p, objects)
    <2>1. \A p \in Panes : Shelf(list[p], p, objects)
      BY <1>2, <1>13, ShelfCarried
    <2>2. CASE done
      <3>1. Shelf(Append(list[pane], o), pane, objects)
        <4>1. AtHome(objects[o], pane)
          BY <1>5, <1>6, <1>7, <1>11, <2>2 DEF AtHome
        <4>2. \A i \in DOMAIN list[pane] : list[pane][i] # o
          <5>1. Shelf(list[pane], pane, obj)
            BY <1>2
          <5> QED
            BY <1>1, <5>1 DEF Shelf, AtHome
        <4> QED
          BY <2>1, <4>1, <4>2, ShelfWithMore
      <3>2. lists[pane] = Append(list[pane], o)
            /\ \A p \in Panes : p # pane => lists[p] = list[p]
        BY <1>2, <2>2
      <3> HIDE DEF lists
      <3> QED
        BY <2>1, <3>1, <3>2
    <2>3. CASE ~done
      BY <2>1, <2>3
    <2> QED
      BY <2>2, <2>3
  <1> HIDE DEF lists
  <1>17. Shelved(list', objects)
    BY <1>1, <1>15, <1>16, ShelvesSorted
  <1>18. Underway(progress', objects)
    <2>1. CASE done
      BY <1>1, <1>12, <2>1, UnderwaySame DEF DrawInv
    <2>2. CASE ~done
      <3>1. progress' = [id |-> o, pane |-> pane]
        BY <1>1, <2>2
      <3>2. x.step # Draw!Finished
        BY <1>5, <1>6, <2>2 DEF Draw!Finished
      <3> QED
        BY <1>6, <1>7, <1>11, <3>1, <3>2 DEF Underway
    <2> QED
      BY <2>1, <2>2
  <1>19. Held(grabbed, grip, objects)
    BY <1>13, HeldCarried DEF DrawInv
  <1> QED
    BY <1>1, <1>14, <1>15, <1>17, <1>18, <1>19 DEF DrawInv

LEMMA PickToolKeeps ==
    ASSUME DrawInv, NEW o \in Ids, NEW kind \in Kinds, Draw!PickTool(o, kind)
    PROVE  DrawInv'
  <1>1. PICK group \in {Draw!GroupId, o} : Draw!CreateOverlay(o, kind, group, Candle, <<>>)
    BY DEF Draw!PickTool
  <1>2. group \in {Draw!GroupId} \cup Ids /\ Candle \in Panes /\ <<>> \in Seq(Draw!Spots)
    BY ConstantsAssumption DEF Draw!DrawingAssumption
  <1> QED
    BY <1>1, <1>2, CreateKeeps

LEMMA DrawZoneKeeps ==
    ASSUME DrawInv, NEW o \in Ids, NEW kind \in Kinds, NEW pane \in Panes,
           Draw!DrawZone(o, kind, pane)
    PROVE  DrawInv'
  <1>1. PICK p \in Points, q \in Points :
            Draw!CreateOverlay(o, kind, o, pane, IF kind = "price" THEN <<p>> ELSE <<p, q>>)
    BY DEF Draw!DrawZone
  <1> DEFINE spots == IF kind = "price" THEN <<p>> ELSE <<p, q>>
  <1>2. spots \in Seq(Draw!Spots) /\ Len(spots) = Draw!TotalStep(kind) - 1
    <2>1. p \in Draw!Spots /\ q \in Draw!Spots
      BY ConstantsAssumption DEF Draw!DrawingAssumption
    <2> QED
      BY <2>1 DEF Draw!TotalStep
  <1>3. Draw!CreateOverlay(o, kind, o, pane, spots)
    BY <1>1
  <1> HIDE DEF spots
  <1> QED
    BY <1>2, <1>3, CreateKeeps

-----------------------------------------------------------------------------
(* Every behaviour.                                                        *)

LEMMA DrawBegins ==
    ASSUME Draw!Init
    PROVE  DrawInv
  <1>1. /\ obj = [o \in Ids |-> None] /\ list = [p \in Panes |-> <<>>]
        /\ progress = None /\ hover = None /\ grabbed = None
        /\ bar = [lock |-> FALSE, mode |-> "normal"]
    BY DEF Draw!Init
  <1>2. Levelled(obj, hover) /\ Hovering(hover, obj)
    BY <1>1 DEF Levelled, Hovering
  <1>3. Shelved(list, obj)
    <2>1. list = [p \in Panes |-> list[p]]
      BY <1>1
    <2>2. ASSUME NEW p \in Panes PROVE Shelf(list[p], p, obj) /\ Ordered(list[p], obj)
      <3>1. list[p] = <<>>
        BY <1>1
      <3>2. <<>> \in Seq(Ids) /\ DOMAIN <<>> = {}
        OBVIOUS
      <3> QED
        BY <3>1, <3>2 DEF Shelf, Ordered, Apart
    <2> QED
      BY <2>1, <2>2 DEF Shelved
  <1>4. Underway(progress, obj) /\ Held(grabbed, grip, obj)
    BY <1>1 DEF Underway, Held
  <1>5. bar \in [lock : BOOLEAN, mode : Draw!Modes]
    BY <1>1 DEF Draw!Modes
  <1> QED
    BY <1>2, <1>3, <1>4, <1>5 DEF DrawInv

LEMMA DrawSteps ==
    ASSUME DrawInv, Draw!Next
    PROVE  DrawInv'
  <1>1. ASSUME NEW o \in Ids, NEW k \in Kinds, Draw!PickTool(o, k) PROVE DrawInv'
    BY <1>1, PickToolKeeps
  <1>2. ASSUME NEW o \in Ids, NEW k \in Kinds, NEW pane \in Panes, Draw!DrawZone(o, k, pane)
        PROVE  DrawInv'
    BY <1>2, DrawZoneKeeps
  <1>3. ASSUME NEW pane \in Panes, NEW p \in Points, Draw!DrawMove(pane, p) PROVE DrawInv'
    BY <1>3, DrawMoveKeeps
  <1>4. ASSUME NEW pane \in Panes, NEW p \in Points, Draw!DrawClick(pane, p) PROVE DrawInv'
    BY <1>4, DrawClickKeeps
  <1>5. ASSUME NEW pane \in Panes, Draw!DrawDoubleClick(pane) PROVE DrawInv'
    BY <1>5, DrawDoubleClickKeeps
  <1>6. ASSUME Draw!DrawRightClick PROVE DrawInv'
    BY <1>6, RemoveKeeps DEF Draw!DrawRightClick
  <1>7. ASSUME Draw!MouseUp PROVE DrawInv'
    <2>1. grabbed' = None /\ UNCHANGED <<obj, list, progress, hover, clicked, grip, bar>>
      BY <1>7 DEF Draw!MouseUp
    <2>2. Held(grabbed', grip', obj)
      BY <2>1 DEF Held
    <2> QED
      BY <2>1, <2>2 DEF DrawInv
  <1>8. ASSUME Draw!ToggleLock PROVE DrawInv'
    BY <1>8, ToggleLockKeeps
  <1>9. ASSUME NEW o \in Ids \cup {None}, Draw!MouseMove(o) PROVE DrawInv'
    BY <1>9, OverlayHoverKeeps
  <1>10. ASSUME NEW o \in Ids \cup {None}, Draw!MouseClick(o) PROVE DrawInv'
    BY <1>10 DEF DrawInv, Draw!MouseClick
  <1>11. ASSUME NEW o \in Ids, Draw!RightClick(o) PROVE DrawInv'
    BY <1>11, RemoveKeeps DEF Draw!RightClick
  <1>12. ASSUME NEW o \in Ids, NEW figure \in {Draw!Other, 1, 2}, NEW p \in Points,
                Draw!MouseDown(o, figure, p)
         PROVE  DrawInv'
    BY <1>12, OverlayPressKeeps
  <1>13. ASSUME NEW p \in Points, Draw!PressedMove(p) PROVE DrawInv'
    BY <1>13, PressedMoveKeeps
  <1>14. ASSUME NEW mode \in Draw!Modes, Draw!SetMode(mode) PROVE DrawInv'
    BY <1>14, SetModeKeeps
  <1>15. ASSUME NEW all \in BOOLEAN, Draw!Clear(all) PROVE DrawInv'
    BY <1>15, RemoveKeeps DEF Draw!Clear
  <1>16. ASSUME NEW o \in Ids, NEW p \in Points, NEW q \in Points,
                Draw!OverridePoints(o, <<p>>) \/ Draw!OverridePoints(o, <<p, q>>)
         PROVE  DrawInv'
    <2>1. p \in Draw!Spots /\ q \in Draw!Spots
      BY ConstantsAssumption DEF Draw!DrawingAssumption
    <2>2. <<p>> \in Seq(Draw!Spots) /\ <<p, q>> \in Seq(Draw!Spots)
      BY <2>1
    <2> QED
      BY <1>16, <2>2, OverridePointsKeeps
  <1>17. ASSUME NEW o \in Ids, NEW z \in {0, Draw!Cardinality(Ids)}, Draw!OverrideLevel(o, z)
         PROVE  DrawInv'
    <2>1. z \in 0..(Draw!OnTop - 1)
      <3>1. IsFiniteSet(Ids) /\ Cardinality(Ids) < Draw!OnTop
        BY SameDrawCount, ConstantsAssumption
           DEF Draw!DrawingAssumption, Draw!IsFiniteSet, IsFiniteSet
      <3>2. Cardinality(Ids) \in Nat
        BY <3>1, FS_CardinalityType
      <3>3. Draw!Cardinality(Ids) = Cardinality(Ids)
        BY SameDrawCount
      <3> QED
        BY <3>1, <3>2, <3>3 DEF Draw!OnTop
    <2> QED
      BY <1>17, <2>1, OverrideLevelKeeps
  <1> QED
    BY <1>1, <1>2, <1>3, <1>4, <1>5, <1>6, <1>7, <1>8, <1>9, <1>10, <1>11, <1>12, <1>13,
       <1>14, <1>15, <1>16, <1>17 DEF Draw!Next

LEMMA DrawKept ==
    ASSUME DrawInv
    PROVE  Draw!DrawingsKept
  <1>1. \A p \in Panes : Shelf(list[p], p, obj) /\ Ordered(list[p], obj)
    BY DEF DrawInv, Shelved
  <1>2. \A o \in Ids : obj[o] # None =>
            Sound(obj[o]) /\ (obj[o].z = Draw!OnTop <=> o = hover)
    BY DEF DrawInv, Levelled
  <1>3. \A p \in Panes : \A i \in DOMAIN list[p] :
            /\ list[p][i] \in Ids /\ obj[list[p][i]] # None
            /\ obj[list[p][i]].step = Draw!Finished /\ obj[list[p][i]].pane = p
    BY <1>1 DEF Shelf, AtHome
  <1>4. Draw!OneHome
    <2>1. ASSUME progress # None
          PROVE  /\ obj[progress.id].step # Draw!Finished /\ progress.id \notin Draw!Kept
                 /\ obj[progress.id].pane = progress.pane
      <3>1. /\ obj[progress.id].step # Draw!Finished
            /\ obj[progress.id].pane = progress.pane
        BY <2>1 DEF DrawInv, Underway
      <3>2. \A p \in Panes : progress.id \notin Draw!ToSet(list[p])
        BY <1>3, <3>1 DEF Draw!ToSet
      <3> QED
        BY <3>1, <3>2 DEF Draw!Kept
    <2>2. \A p \in Panes : Draw!IsInjective(list[p])
      BY <1>1 DEF Shelf, Apart, Draw!IsInjective
    <2> QED
      BY <1>3, <2>1, <2>2 DEF Draw!OneHome
  <1>5. Draw!DrawnInOrder
    BY <1>1, <1>2, <1>3 DEF Draw!DrawnInOrder, Ordered
  <1>6. Draw!StaysAligned
    BY <1>2 DEF Draw!StaysAligned, Sound, Aligned
  <1> QED
    BY <1>4, <1>5, <1>6 DEF Draw!DrawingsKept

Drawn == part = "draw" => DrawInv

\* What was drawn stays where and as it was drawn: one place for each drawing,
\* drawn by level with the hovered one on top, aligned as its kind says.
THEOREM DrawingsStay == Spec => []DrawingsKept
  <1>1. Init => Drawn
    BY DrawBegins DEF Init, Drawn
  <1>2. Drawn /\ [Next]_vars => Drawn'
    <2> SUFFICES ASSUME Drawn, [Next]_vars PROVE Drawn'
      OBVIOUS
    <2>1. CASE InDraw(Draw!Next)
      <3>1. part = "draw" /\ Draw!Next
        BY <2>1 DEF InDraw
      <3> QED
        BY <3>1, DrawSteps DEF Drawn
    <2>2. CASE \/ InHand(Hand!Next) \/ InScale(Scale!Next) \/ InRulers(Rulers!Next)
               \/ InLine(Line!Next) \/ InShape(Shape!Next) \/ InTips(Tips!Next)
      BY <2>2 DEF InHand, InScale, InRulers, InLine, InShape, InTips, Drawn
    <2>3. CASE UNCHANGED vars
      BY <2>3 DEF vars, drawVars, Drawn, DrawInv
    <2> QED
      BY <2>1, <2>2, <2>3 DEF Next
  <1>3. Drawn => DrawingsKept
    BY DrawKept DEF Drawn, DrawingsKept
  <1> QED
    BY <1>1, <1>2, <1>3, PTL DEF Spec

-----------------------------------------------------------------------------
(* Widths in bars (TimeScale).                                             *)

LEMMA UnitIs ==
    ASSUME NEW s \in Spaces
    PROVE  /\ s \in Nat \ {0} /\ Unit \in Nat \ {0}
           /\ \E k \in Nat \ {0} : Unit = 2 * s * k
  <1>1. s \in Nat \ {0} /\ Unit \in Nat \ {0} /\ Unit % (2 * s) = 0
    BY ConstantsAssumption DEF Scale!UnitAssumption
  <1> DEFINE m == 2 * s
             k == Unit \div m
  <1>2. m \in Nat \ {0} /\ Unit % m = 0 /\ m = 2 * s
    BY <1>1
  <1> HIDE DEF m
  <1>3. k \in Int /\ Unit = m * k
    <2>1. m \in Nat \ {0} /\ Unit \in Int
      BY <1>1, <1>2
    <2>2. Unit \div m \in Int /\ Unit = m * (Unit \div m) + (Unit % m)
      BY <2>1, Division
    <2> QED
      BY <1>2, <2>2
  <1> HIDE DEF k
  <1>4. k > 0
    <2>1. SUFFICES ASSUME k <= 0 PROVE FALSE
      BY <1>3
    <2>2. k * m <= 0 * m
      BY <1>2, <1>3, <2>1, TimesMonotone
    <2> QED
      BY <1>1, <1>2, <1>3, <2>2
  <1>5. Unit = 2 * s * k
    BY <1>1, <1>2, <1>3
  <1> QED
    BY <1>1, <1>3, <1>4, <1>5

\* A width in pixels is a whole number of parts of a bar.
LEMMA BarsExact ==
    ASSUME NEW w \in Int, NEW s \in Spaces
    PROVE  Scale!BarsIn(w, s) \in Int /\ Scale!BarsIn(w, s) * s = w * Unit
  <1>1. PICK k \in Nat \ {0} : Unit = 2 * s * k
    BY UnitIs
  <1>2. s \in Nat \ {0}
    BY UnitIs
  <1>3. w * Unit = s * (w * (2 * k)) /\ w * (2 * k) \in Int
    BY <1>1, <1>2
  <1>4. (w * Unit) \div s = w * (2 * k)
    <2> DEFINE m == w * (2 * k)
    <2>1. m \in Int /\ s * m \in Int
      BY <1>2, <1>3
    <2> HIDE DEF m
    <2>2. (s * m) \div s = m
      BY <1>2, <2>1, QuotientBounds, Division
    <2> QED
      BY <2>2, <1>3 DEF m
  <1> QED
    BY <1>2, <1>3, <1>4 DEF Scale!BarsIn

\* Math.round, in whole bars.
LEMMA RoundBounds ==
    ASSUME NEW q \in Int, NEW m \in Int, Unit \in Nat \ {0}
    PROVE  /\ Scale!Round(q) \in Int
           /\ 2 * q < 2 * (m * Unit) + Unit => Scale!Round(q) <= m
           /\ 2 * (m * Unit) - Unit <= 2 * q => m <= Scale!Round(q)
  <1>1. 2 * Unit \in Nat \ {0} /\ 2 * q + Unit \in Int /\ m * Unit \in Int
        /\ (2 * Unit) * m = 2 * (m * Unit)
    OBVIOUS
  <1>2. (2 * q + Unit) \div (2 * Unit) \in Int
    BY <1>1, Division
  <1>3. /\ 2 * q + Unit < (2 * Unit) * m + 2 * Unit => (2 * q + Unit) \div (2 * Unit) <= m
        /\ (2 * Unit) * m <= 2 * q + Unit => m <= (2 * q + Unit) \div (2 * Unit)
    BY <1>1, QuotientBounds
  <1> QED
    BY <1>1, <1>2, <1>3 DEF Scale!Round

-----------------------------------------------------------------------------
(* The bars in view (TimeScale).                                           *)

\* The view's width in parts of a bar, the half of a bar and the width of a bar.
LEMMA Measures ==
    ASSUME NEW s \in Spaces, NEW w \in Nat
    PROVE  /\ Unit \in Nat \ {0} /\ s \in Nat \ {0}
           /\ Scale!BarsIn(w, s) \in Nat /\ Scale!BarsIn(w, s) * s = w * Unit
           /\ 2 * (Unit \div 2) = Unit
  <1>1. Unit \in Nat \ {0} /\ s \in Nat \ {0}
    BY UnitIs
  <1>2. PICK k \in Nat \ {0} : Unit = 2 * s * k
    BY UnitIs
  <1>3. s * k \in Int /\ Unit = 2 * (s * k)
    BY <1>1, <1>2
  <1>4. 2 * (Unit \div 2) = Unit
    BY <1>3
  <1> DEFINE b == Scale!BarsIn(w, s)
  <1>5. b \in Int /\ b * s = w * Unit
    BY BarsExact
  <1> HIDE DEF b
  <1>6. b >= 0
    <2>1. SUFFICES ASSUME b <= -1 PROVE FALSE
      BY <1>5
    <2>2. b * s <= -1 * s
      BY <1>1, <1>5, <2>1, TimesMonotone
    <2>3. 0 * Unit <= w * Unit
      BY <1>1, TimesMonotone
    <2> QED
      BY <1>1, <1>5, <2>2, <2>3
  <1> QED
    BY <1>1, <1>4, <1>5, <1>6 DEF b

\* An offset that leaves no more than all bars to the left gives a range of
\* bars there are.
LEMMA RangeInside ==
    ASSUME NEW n \in Nat, NEW d \in Int, NEW s \in Spaces, NEW w \in Nat,
           d >= -(n * Unit)
    PROVE  LET r == Scale!VisibleRange(n, d, s, w)
           IN  0 <= r.from /\ r.from <= r.to /\ r.to <= n
  <1> DEFINE b == Scale!BarsIn(w, s)
             realTo == Scale!Round(d + n * Unit + Unit \div 2)
             to == Scale!AtMost(realTo, n)
             left == Scale!Round(to * Unit - b)
  <1>1. Unit \in Nat \ {0} /\ b \in Nat /\ 2 * (Unit \div 2) = Unit
    BY Measures
  <1> HIDE DEF b
  <1>2. d + n * Unit + Unit \div 2 \in Int
    BY <1>1
  <1>3. realTo \in Int /\ realTo >= 0
    BY <1>1, <1>2, RoundBounds
  <1> HIDE DEF realTo
  <1>4. to \in Nat /\ to <= n
    BY <1>3 DEF Scale!AtMost
  <1> HIDE DEF to
  <1>5. left \in Int /\ left <= to
    <2>1. to * Unit \in Int
      BY <1>1, <1>4
    <2> QED
      BY <1>1, <1>4, <2>1, RoundBounds
  <1> HIDE DEF left
  <1>6. /\ Scale!VisibleRange(n, d, s, w).from = Scale!AtLeast(0, left - 1)
        /\ Scale!VisibleRange(n, d, s, w).to = to
    BY DEF Scale!VisibleRange, b, realTo, to, left
  <1> QED
    BY <1>4, <1>5, <1>6 DEF Scale!AtLeast

\* A bar in view is in its range, on either side of the last bar's offset.
LEMMA RangeShowsView ==
    ASSUME NEW n \in Nat, NEW d \in Int, NEW s \in Spaces, NEW w \in Nat,
           NEW i \in 0..(n - 1),
           LET x == Scale!Coordinate(i, n, d, s, w)
           IN  /\ x > 0 \/ (d > 0 /\ 2 * x + s > 0)
               /\ 2 * x - s < 2 * w
    PROVE  LET r == Scale!VisibleRange(n, d, s, w)
           IN  r.realFrom <= i /\ i < r.realTo
  <1> DEFINE b == Scale!BarsIn(w, s)
             half == Unit \div 2
             nU == n * Unit
             iU == i * Unit
             x == Scale!Coordinate(i, n, d, s, w)
             e == nU + d - iU
             realTo == Scale!Round(d + nU + half)
             to == Scale!AtMost(realTo, n)
  <1>1. /\ Unit \in Nat \ {0} /\ s \in Nat \ {0} /\ b \in Nat /\ b * s = w * Unit
        /\ half \in Int /\ 2 * half = Unit
    BY Measures
  <1>2. /\ nU \in Int /\ iU \in Int /\ (i + 1) * Unit = iU + Unit /\ nU = n * Unit
        /\ iU = i * Unit /\ e \in Int /\ iU + Unit <= nU /\ iU >= 0
    <2>1. (i + 1) * Unit <= n * Unit
      BY <1>1, TimesMonotone
    <2> QED
      BY <1>1, <2>1
  <1> HIDE DEF b, half, nU, iU
  <1>3. x \in Int /\ Unit * x <= b * s - (e - half) * s + half
        /\ b * s - (e - half) * s + half < Unit * x + Unit
    <2>1. x = (w * Unit - (e - half) * s + half) \div Unit
      BY <1>1, <1>2 DEF Scale!Coordinate, nU, iU, half
    <2> DEFINE a == w * Unit - (e - half) * s + half
    <2>2. a \in Int /\ a = b * s - (e - half) * s + half /\ x = a \div Unit /\ Unit \in Nat \ {0}
      BY <1>1, <1>2, <2>1
    <2> HIDE DEF a, x, e
    <2>3. a \div Unit \in Int /\ Unit * (a \div Unit) <= a /\ a < Unit * (a \div Unit) + Unit
      <3>1. a \in Int /\ Unit \in Nat \ {0}
        BY <2>2
      <3> QED
        BY <3>1, Division
    <2> QED
      BY <2>2, <2>3
  <1> HIDE DEF x
  <1>4. /\ x > 0 \/ (d > 0 /\ 2 * x + s > 0)
        /\ 2 * x - s < 2 * w
    BY DEF x
  <1>5. e * s \in Int /\ half * s \in Int /\ 2 * (half * s) = Unit * s /\ Unit * s \in Int
        /\ (e - half) * s = e * s - half * s /\ b * s \in Int /\ Unit * x \in Int
    BY <1>1, <1>2, <1>3
  \* It begins left of the right edge.
  <1>6. e > 0
    <2>1. SUFFICES ASSUME e <= 0 PROVE FALSE
      BY <1>2
    <2>2. e * s <= 0 * s
      BY <1>1, <1>2, <2>1, TimesMonotone
    <2>3. (2 * x + 1) * Unit <= (2 * w + s) * Unit
      BY <1>1, <1>3, <1>4, TimesMonotone
    <2>4. (2 * x + 1) * Unit = 2 * (Unit * x) + Unit /\ (2 * w + s) * Unit = 2 * (b * s) + Unit * s
      BY <1>1, <1>3
    <2> QED
      BY <1>1, <1>3, <1>5, <2>2, <2>3, <2>4
  <1>7. realTo \in Int /\ i + 1 <= realTo
    <2>1. 2 * ((i + 1) * Unit) - Unit <= 2 * (d + nU + half)
      BY <1>1, <1>2, <1>6
    <2> QED
      BY <1>1, <1>2, <2>1, RoundBounds
  <1>8. CASE d > 0
    <2>1. e - b <= Unit
      <3>1. SUFFICES ASSUME b + Unit + 1 <= e PROVE FALSE
        BY <1>1, <1>2
      <3>2. (b + Unit + 1) * s <= e * s
        BY <1>1, <1>2, <3>1, TimesMonotone
      <3>3. (b + Unit + 1) * s = b * s + Unit * s + s
        BY <1>1
      <3>4. (1 - s) * Unit <= (2 * x) * Unit
        BY <1>1, <1>3, <1>4, TimesMonotone
      <3>5. (1 - s) * Unit = Unit - Unit * s /\ (2 * x) * Unit = 2 * (Unit * x)
        BY <1>1, <1>3
      <3> QED
        BY <1>1, <1>3, <1>5, <3>2, <3>3, <3>4, <3>5
    <2>2. Scale!Round(nU + d - b) \in Int /\ Scale!Round(nU + d - b) <= i + 1
      <3>1. 2 * (nU + d - b) < 2 * ((i + 1) * Unit) + Unit
        BY <1>1, <1>2, <2>1
      <3> QED
        BY <1>1, <1>2, <3>1, RoundBounds
    <2>3. /\ Scale!VisibleRange(n, d, s, w).realFrom = Scale!Round(nU + d - b) - 1
          /\ Scale!VisibleRange(n, d, s, w).realTo = realTo
      BY <1>8 DEF Scale!VisibleRange, nU, b, half
    <2> QED
      BY <1>7, <2>2, <2>3
  <1>9. CASE ~(d > 0)
    <2>1. x >= 1
      BY <1>3, <1>4, <1>9
    <2>2. 2 * (e - b) < Unit
      <3>1. SUFFICES ASSUME Unit <= 2 * (e - b) PROVE FALSE
        BY <1>1, <1>2
      <3>2. Unit * s <= (2 * (e - b)) * s
        BY <1>1, <1>2, <3>1, TimesMonotone
      <3>3. (2 * (e - b)) * s = 2 * (e * s) - 2 * (b * s)
        BY <1>1, <1>2
      <3>4. 1 * Unit <= x * Unit
        BY <1>1, <1>3, <2>1, TimesMonotone
      <3> QED
        BY <1>1, <1>3, <1>5, <3>2, <3>3, <3>4
    <2>3. to \in Int /\ to * Unit \in Int /\ to * Unit <= nU + d + Unit
      <3>1. to \in Int /\ to <= realTo /\ to * Unit \in Int
        BY <1>1, <1>7 DEF Scale!AtMost
      <3>2. to * Unit <= realTo * Unit
        BY <1>1, <1>7, <3>1, TimesMonotone
      <3>3. realTo * Unit <= nU + d + Unit
        <4> DEFINE a == 2 * (d + nU + half) + Unit
                   u == 2 * Unit
        <4>1. a \in Int /\ u \in Nat \ {0} /\ realTo = a \div u
          BY <1>1, <1>2 DEF Scale!Round
        <4>2. a = 2 * (d + nU + half) + Unit /\ u = 2 * Unit
          OBVIOUS
        <4> HIDE DEF a, u, realTo
        <4>3. u * realTo <= a
          BY <4>1, Division
        <4> QED
          BY <1>1, <1>2, <1>7, <4>2, <4>3
      <3> QED
        BY <1>1, <1>2, <1>7, <3>1, <3>2, <3>3
    <2> DEFINE left == Scale!Round(to * Unit - b)
    <2>4. left \in Int /\ left <= i + 1
      <3>1. 2 * (to * Unit - b) < 2 * ((i + 1) * Unit) + Unit
        BY <1>1, <1>2, <2>2, <2>3
      <3> QED
        BY <1>1, <1>2, <2>3, <3>1, RoundBounds
    <2>5. /\ Scale!VisibleRange(n, d, s, w).realFrom = Scale!AtLeast(0, left - 1)
          /\ Scale!VisibleRange(n, d, s, w).realTo = realTo
      BY <1>9 DEF Scale!VisibleRange, nU, b, half
    <2> HIDE DEF left
    <2> QED
      BY <1>7, <2>4, <2>5 DEF Scale!AtLeast
  <1> QED
    BY <1>8, <1>9

Sides == {"left", "right"}

\* The view is the one its offset gives, the crosshair the one the view gives,
\* and until there are bars there may be no view.
ScaleInv ==
    /\ count \in Nat /\ space \in Spaces /\ total \in Nat
    /\ diff \in Int /\ startDiff \in Int /\ offset \in Int
    /\ minBars \in [Sides -> Int] /\ maxOffset \in [Sides -> Int]
    /\ cross.x \in Cursors \cup {None}
    /\ Scale!CrosshairFresh
    /\ \/ diff >= -(count * Unit) /\ range = Scale!VisibleRange(count, diff, space, total)
       \/ count = 0 /\ range = [from |-> 0, to |-> 0, realFrom |-> 0, realTo |-> 0]

\* What the limits leave of an offset.
LEMMA ClampedIs ==
    ASSUME NEW d \in Int, NEW n \in Nat, NEW s \in Spaces, NEW w \in Nat,
           minBars \in [Sides -> Int], maxOffset \in [Sides -> Int]
    PROVE  Scale!Clamped(d, n, s, w) \in Int /\ Scale!Clamped(d, n, s, w) >= -(n * Unit)
  <1>1. Unit \in Nat \ {0} /\ Scale!BarsIn(w, s) \in Int
    BY Measures
  <1>2. \A side \in Sides : Scale!MinVisible(side, s, w) \in Nat
    <2> SUFFICES ASSUME NEW side \in Sides PROVE Scale!MinVisible(side, s, w) \in Nat
      OBVIOUS
    <2>1. \A other \in Sides : w - maxOffset[other] \in Int
      OBVIOUS
    <2>2. \A other \in Sides : Scale!BarsIn(w - maxOffset[other], s) \in Int
      BY <2>1, BarsExact
    <2>3. minBars[side] * Unit \in Int
      BY <1>1
    <2>4. \A a \in Int : Scale!AtLeast(0, a) \in Nat
      BY DEF Scale!AtLeast
    <2> DEFINE other == IF side = "left" THEN "right" ELSE "left"
               a == IF role = "distance" THEN Scale!BarsIn(w - maxOffset[other], s)
                                         ELSE minBars[side] * Unit
    <2>5. other \in Sides
      BY DEF Sides
    <2>6. a \in Int
      BY <2>2, <2>3, <2>5
    <2>7. Scale!MinVisible(side, s, w) = Scale!AtLeast(0, a)
      BY DEF Scale!MinVisible
    <2> HIDE DEF a
    <2> QED
      BY <2>4, <2>6, <2>7
  <1>3. n * Unit \in Nat
    BY <1>1
  <1>4. /\ Scale!AtMost(Scale!MinVisible("left", s, w), n * Unit) \in Nat
        /\ Scale!AtMost(Scale!MinVisible("right", s, w), n * Unit) \in Nat
    BY <1>2, <1>3 DEF Scale!AtMost, Sides
  <1> DEFINE a == Scale!AtMost(Scale!MinVisible("left", s, w), n * Unit)
             b == Scale!AtMost(Scale!MinVisible("right", s, w), n * Unit)
             c == Scale!AtMost(d, Scale!BarsIn(w, s) - a)
  <1>5. c \in Int
    BY <1>1, <1>4 DEF Scale!AtMost
  <1>6. Scale!Clamped(d, n, s, w) = Scale!AtLeast(c, -(n * Unit) + b)
    BY DEF Scale!Clamped
  <1> HIDE DEF a, b, c
  <1>7. b \in Nat
    BY <1>4 DEF b
  <1> QED
    BY <1>3, <1>5, <1>6, <1>7 DEF Scale!AtLeast

\* Every adjustment gives a view and its crosshair.
LEMMA AdjustKeeps ==
    ASSUME NEW d \in Int, NEW n \in Nat, NEW s \in Spaces, NEW w \in Nat,
           NEW x \in Cursors \cup {None},
           minBars \in [Sides -> Int], maxOffset \in [Sides -> Int],
           Scale!AdjustVisibleRange(d, n, s, w, x),
           count' = n, space' = s, total' = w
    PROVE  /\ diff' \in Int /\ cross'.x \in Cursors \cup {None} /\ Scale!CrosshairFresh'
           /\ diff' >= -(n * Unit) /\ range' = Scale!VisibleRange(n, diff', s, w)
  <1>1. Scale!Clamped(d, n, s, w) \in Int /\ Scale!Clamped(d, n, s, w) >= -(n * Unit)
    BY ClampedIs
  <1>2. /\ diff' = Scale!Clamped(d, n, s, w) /\ range' = Scale!VisibleRange(n, diff', s, w)
        /\ cross' = Scale!Crosshair(x, n, diff', s, w)
    BY DEF Scale!AdjustVisibleRange
  <1>3. cross'.x = x
    BY <1>2 DEF Scale!Crosshair
  <1>4. Scale!CrosshairFresh'
    BY <1>2, <1>3 DEF Scale!CrosshairFresh
  <1> QED
    BY <1>1, <1>2, <1>3, <1>4

LEMMA ScaleBegins == Scale!Init => ScaleInv
  <1> SUFFICES ASSUME Scale!Init PROVE ScaleInv
    OBVIOUS
  <1>1. DefaultSpace \in Spaces /\ DefaultOffset \in Int
    BY ConstantsAssumption DEF Scale!UnitAssumption
  <1>2. Scale!BarsIn(DefaultOffset, DefaultSpace) \in Int
    BY <1>1, BarsExact
  <1>3. Scale!CrosshairFresh
    BY DEF Scale!Init, Scale!CrosshairFresh
  <1> QED
    BY <1>1, <1>2, <1>3 DEF Scale!Init, ScaleInv, Sides

LEMMA ScaleStep == ScaleInv /\ [Scale!Next]_(Scale!vars) => ScaleInv'
  <1> SUFFICES ASSUME ScaleInv, [Scale!Next]_(Scale!vars) PROVE ScaleInv'
    OBVIOUS
  <1> USE DEF ScaleInv
  <1>0. /\ Unit \in Nat \ {0} /\ Pages \subseteq Nat /\ Widths \subseteq Nat
        /\ Drags \subseteq Int /\ Limits \subseteq Int /\ Cursors \subseteq Int
        /\ Spaces \subseteq Nat \ {0} /\ Scales \subseteq Int
    BY ConstantsAssumption DEF Scale!UnitAssumption
  <1>a. \A w \in Int, s \in Spaces : Scale!BarsIn(w, s) \in Int
    BY BarsExact
  <1>b. \A a \in Int : Scale!OffsetFor(a) \in Int
    BY DEF Scale!OffsetFor, Scale!AtMost, Sides
  <1>1. CASE Scale!InitPage
    <2>1. PICK n \in Pages \cup {0} :
             /\ count' = n /\ offset' = Scale!OffsetFor(offset)
             /\ Scale!AdjustVisibleRange(Scale!BarsIn(offset', space), n, space, total, None)
             /\ UNCHANGED <<space, startDiff, total, role, minBars, maxOffset>>
      BY <1>1 DEF Scale!InitPage
    <2>2. n \in Nat /\ offset' \in Int /\ Scale!BarsIn(offset', space) \in Int
      BY <1>0, <1>a, <1>b, <2>1
    <2> QED
      BY <2>1, <2>2, AdjustKeeps
  <1>2. ASSUME NEW n \in Pages, Scale!PrependPage(n) PROVE ScaleInv'
    <2>1. count + n \in Nat
      BY <1>0
    <2> QED
      BY <1>2, <2>1, AdjustKeeps DEF Scale!PrependPage
  <1>3. ASSUME NEW n \in Pages, Scale!AppendPage(n) PROVE ScaleInv'
    <2>1. count + n \in Nat /\ Scale!BackwardOffset(n) \in Int
      BY <1>0 DEF Scale!BackwardOffset
    <2> QED
      BY <1>3, <2>1, AdjustKeeps DEF Scale!AppendPage
  <1>4. CASE Scale!PushBar
    <2>1. count + 1 \in Nat /\ (IF diff < 0 THEN diff - Unit ELSE diff) \in Int
      BY <1>0
    <2> QED
      BY <1>4, <2>1, AdjustKeeps DEF Scale!PushBar
  <1>5. CASE Scale!ReplaceBar
    BY <1>5, AdjustKeeps DEF Scale!ReplaceBar
  <1>6. CASE Scale!SetTotalBarSpace
    BY <1>0, <1>6, AdjustKeeps DEF Scale!SetTotalBarSpace
  <1>7. CASE Scale!SetBarSpace
    BY <1>7, AdjustKeeps DEF Scale!SetBarSpace
  <1>8. CASE Scale!SetOffsetRightDistance
    <2>1. PICK distance \in Limits :
             /\ offset' = Scale!OffsetFor(distance)
             /\ Scale!AdjustVisibleRange(Scale!BarsIn(offset', space), count, space, total, cross.x)
             /\ UNCHANGED <<count, space, startDiff, total, role, minBars, maxOffset>>
      BY <1>8 DEF Scale!SetOffsetRightDistance
    <2>2. offset' \in Int /\ Scale!BarsIn(offset', space) \in Int
      BY <1>0, <1>a, <1>b, <2>1
    <2> QED
      BY <2>1, <2>2, AdjustKeeps
  <1>9. CASE Scale!SetMaxOffset
    BY <1>0, <1>9 DEF Scale!SetMaxOffset, Sides, Scale!CrosshairFresh
  <1>10. CASE Scale!SetMinVisibleBarCount
    BY <1>10 DEF Scale!SetMinVisibleBarCount, Sides, Scale!CrosshairFresh
  <1>11. CASE Scale!StartScroll
    BY <1>11 DEF Scale!StartScroll, Scale!CrosshairFresh
  <1>12. CASE Scale!Scroll
    <2>1. PICK distance \in Drags :
             /\ Scale!AdjustVisibleRange(startDiff - Scale!BarsIn(distance, space), count, space,
                                         total, cross.x)
             /\ UNCHANGED <<count, space, startDiff, total, role, minBars, maxOffset, offset>>
      BY <1>12 DEF Scale!Scroll, Scale!ScrollTo
    <2>2. startDiff - Scale!BarsIn(distance, space) \in Int
      BY <1>0, <1>a
    <2> QED
      BY <2>1, <2>2, AdjustKeeps
  <1>13. ASSUME NEW x \in Int, NEW scale \in Scales, Scale!ZoomAt(x, scale) PROVE ScaleInv'
    <2> DEFINE s == space + (scale * space) \div 10
    <2>1. /\ s \in Spaces /\ space' = s
          /\ Scale!AdjustVisibleRange(Scale!Zoomed(x, s), count, s, total, cross.x)
          /\ UNCHANGED <<count, startDiff, total, role, minBars, maxOffset, offset>>
      BY <1>13 DEF Scale!ZoomAt
    <2> HIDE DEF s
    <2>2. total - x \in Int
      OBVIOUS
    <2>3. Scale!Zoomed(x, s) \in Int
      BY <1>0, <1>a, <2>1, <2>2 DEF Scale!Zoomed, Scale!FloatIndex
    <2> QED
      BY <2>1, <2>3, AdjustKeeps
  <1>14. CASE Scale!Zoom
    <2>1. Scale!Coordinate(count - 1, count, diff, space, total) \in Int
      <3> DEFINE a == total * Unit - (count * Unit + diff - (count - 1) * Unit - Unit \div 2) * space
                         + Unit \div 2
      <3>1. a \in Int /\ Unit \in Nat \ {0}
        BY <1>0
      <3> HIDE DEF a
      <3>2. a \div Unit \in Int
        BY <3>1, Division
      <3> QED
        BY <3>2 DEF a, Scale!Coordinate
    <2>2. (IF cross.x = None THEN total \div 2 ELSE cross.x) \in Int
      <3>1. total \in Int
        OBVIOUS
      <3>2. total \div 2 \in Int
        BY <3>1, Division
      <3>3. cross.x # None => cross.x \in Int
        BY <1>0
      <3> QED
        BY <3>2, <3>3
    <2> QED
      BY <1>0, <1>13, <1>14, <2>1, <2>2 DEF Scale!Zoom
  <1>15. CASE Scale!SetCrosshair
    <2>1. PICK x \in Cursors \cup {None} :
             /\ cross' = Scale!Crosshair(x, count, diff, space, total)
             /\ UNCHANGED <<count, space, diff, startDiff, total, role, minBars, maxOffset,
                            offset, range>>
      BY <1>15 DEF Scale!SetCrosshair
    <2>2. cross'.x = x
      BY <2>1 DEF Scale!Crosshair
    <2>3. Scale!CrosshairFresh'
      BY <2>1, <2>2 DEF Scale!CrosshairFresh
    <2> QED
      BY <2>1, <2>2, <2>3
  <1>16. CASE UNCHANGED Scale!vars
    BY <1>16 DEF Scale!vars, Scale!CrosshairFresh
  <1> QED
    BY <1>1, <1>2, <1>3, <1>4, <1>5, <1>6, <1>7, <1>8, <1>9, <1>10, <1>11, <1>12, <1>14,
       <1>15, <1>16 DEF Scale!Next

\* The view that is kept shows all that is in view.
LEMMA ScaleShows == ScaleInv => Scale!ViewIsDrawn /\ Scale!CrosshairFresh
  <1> SUFFICES ASSUME ScaleInv PROVE Scale!ViewIsDrawn
    BY DEF ScaleInv
  <1>1. CASE diff >= -(count * Unit) /\ range = Scale!VisibleRange(count, diff, space, total)
    <2>1. ASSUME NEW i \in Scale!InView PROVE range.realFrom <= i /\ i < range.realTo
      <3>1. i \in 0..(count - 1)
        BY DEF Scale!InView
      <3>2. LET x == Scale!Coordinate(i, count, diff, space, total)
            IN  /\ x > 0 \/ (diff > 0 /\ 2 * x + space > 0)
                /\ 2 * x - space < 2 * total
        BY DEF Scale!InView, Scale!X
      <3> QED
        BY <1>1, <3>1, <3>2, RangeShowsView DEF ScaleInv
    <2>2. 0 <= range.from /\ range.from <= range.to /\ range.to <= count
      BY <1>1, RangeInside DEF ScaleInv
    <2> QED
      BY <2>1, <2>2 DEF Scale!ViewIsDrawn
  <1>2. CASE count = 0 /\ range = [from |-> 0, to |-> 0, realFrom |-> 0, realTo |-> 0]
    BY <1>2 DEF Scale!ViewIsDrawn, Scale!InView
  <1> QED
    BY <1>1, <1>2 DEF ScaleInv

\* Bars added before or behind, with the offset taken back, move no bar.
LEMMA SamePlace ==
    ASSUME NEW i \in Int, NEW j \in Int, NEW n \in Int, NEW m \in Int,
           NEW d \in Int, NEW c \in Int, NEW s \in Int, NEW w \in Int, Unit \in Nat,
           n * Unit + d - i * Unit = m * Unit + c - j * Unit
    PROVE  Scale!Coordinate(i, n, d, s, w) = Scale!Coordinate(j, m, c, s, w)
  BY DEF Scale!Coordinate

LEMMA ScaleStays == ScaleInv => Scale!StaysPut /\ Scale!AnchorStays
  <1> SUFFICES ASSUME ScaleInv PROVE Scale!StaysPut /\ Scale!AnchorStays
    OBVIOUS
  <1>1. /\ Unit \in Nat \ {0} /\ Pages \subseteq Nat /\ space \in Int /\ count \in Nat
        /\ diff \in Int /\ total \in Nat /\ Cursors \subseteq Int /\ space \in Spaces
    BY ConstantsAssumption DEF Scale!UnitAssumption, ScaleInv
  <1>2. ASSUME NEW n \in Pages, Scale!PrependPage(n), Scale!Free(diff, count + n, space, total),
               NEW i \in 0..(count - 1)
        PROVE  Scale!X(i + n)' = Scale!X(i)
    <2>1. count' = count + n /\ diff' = diff /\ space' = space /\ total' = total
      BY <1>2 DEF Scale!PrependPage, Scale!AdjustVisibleRange, Scale!Free
    <2>2. (count + n) * Unit + diff - (i + n) * Unit = count * Unit + diff - i * Unit
      BY <1>1
    <2>3. Scale!Coordinate(i + n, count + n, diff, space, total)
             = Scale!Coordinate(i, count, diff, space, total)
      BY <1>1, <2>2, SamePlace
    <2> QED
      BY <2>1, <2>3 DEF Scale!X
  <1>3. ASSUME NEW n \in Pages, Scale!AppendPage(n),
               Scale!Free(diff - n * Unit, count + n, space, total), NEW i \in 0..(count - 1)
        PROVE  Scale!X(i)' = Scale!X(i)
    <2>1. count' = count + n /\ diff' = diff - n * Unit /\ space' = space /\ total' = total
      BY <1>3 DEF Scale!AppendPage, Scale!AdjustVisibleRange, Scale!Free, Scale!BackwardOffset
    <2>2. (count + n) * Unit + (diff - n * Unit) - i * Unit = count * Unit + diff - i * Unit
      BY <1>1
    <2>3. Scale!Coordinate(i, count + n, diff - n * Unit, space, total)
             = Scale!Coordinate(i, count, diff, space, total)
      BY <1>1, <2>2, SamePlace
    <2> QED
      BY <2>1, <2>3 DEF Scale!X
  <1>4. ASSUME Scale!PushBar, diff < 0, Scale!Free(diff - Unit, count + 1, space, total),
               NEW i \in 0..(count - 1)
        PROVE  Scale!X(i)' = Scale!X(i)
    <2>1. count' = count + 1 /\ diff' = diff - Unit /\ space' = space /\ total' = total
      BY <1>4 DEF Scale!PushBar, Scale!AdjustVisibleRange, Scale!Free
    <2>2. (count + 1) * Unit + (diff - Unit) - i * Unit = count * Unit + diff - i * Unit
      BY <1>1
    <2>3. Scale!Coordinate(i, count + 1, diff - Unit, space, total)
             = Scale!Coordinate(i, count, diff, space, total)
      BY <1>1, <2>2, SamePlace
    <2> QED
      BY <2>1, <2>3 DEF Scale!X
  <1>5. ASSUME NEW x \in Cursors, NEW scale \in Scales, Scale!ZoomAt(x, scale),
               diff' = Scale!Zoomed(x, space')
        PROVE  Scale!FloatIndex(x, count', diff', space', total')
                  = Scale!FloatIndex(x, count, diff, space, total)
    <2>1. count' = count /\ total' = total /\ space' \in Spaces
      BY <1>5 DEF Scale!ZoomAt
    <2>2. total - x \in Int
      BY <1>1
    <2>3. Scale!BarsIn(total - x, space) \in Int /\ Scale!BarsIn(total - x, space') \in Int
      BY <1>1, <2>1, <2>2, BarsExact
    <2> DEFINE a == Scale!BarsIn(total - x, space)
               b == Scale!BarsIn(total - x, space')
               nU == count * Unit
    <2>4. nU \in Int
      BY <1>1
    <2>5. diff' = diff + ((nU + diff - a) - (nU + diff - b))
      BY <1>5 DEF Scale!Zoomed, Scale!FloatIndex
    <2>6. /\ Scale!FloatIndex(x, count', diff', space', total') = nU + diff' - b
          /\ Scale!FloatIndex(x, count, diff, space, total) = nU + diff - a
      BY <2>1 DEF Scale!FloatIndex
    <2> HIDE DEF a, b, nU
    <2>7. a \in Int /\ b \in Int
      BY <2>3 DEF a, b
    <2> QED
      BY <1>1, <2>4, <2>5, <2>6, <2>7
  <1>6. Scale!StaysPut
    BY <1>2, <1>3, <1>4 DEF Scale!StaysPut
  <1> QED
    BY <1>5, <1>6 DEF Scale!AnchorStays

Viewed == part = "scale" => ScaleInv

LEMMA ViewedAlways ==
    /\ Init => Viewed
    /\ Viewed /\ [Next]_vars => Viewed'
  <1>1. Init => Viewed
    BY ScaleBegins DEF Init, Viewed
  <1>2. ASSUME Viewed, [Next]_vars, part' = "scale"
        PROVE  part = "scale" /\ [Scale!Next]_(Scale!vars)
    BY <1>2 DEF Next, InHand, InDraw, InScale, InRulers, InLine, InShape, InTips, vars, scaleVars, Scale!vars
  <1> QED
    BY <1>1, <1>2, ScaleStep DEF Viewed

\* Every bar in view is drawn, but for one of which the left edge leaves less than
\* half while the last bar is beyond the right edge, and the crosshair names the
\* bar under it, for any widths of bars and chart, limits, pages and number of
\* operations.
THEOREM ViewDrawn == Spec => []ViewIsDrawn
  <1>1. Viewed => ViewIsDrawn
    BY ScaleShows DEF Viewed, ViewIsDrawn
  <1> QED
    BY <1>1, ViewedAlways, PTL DEF Spec

\* Pages and new bars move nothing that is on the screen, and a zoom keeps what
\* is under its anchor, for any of them.
THEOREM ViewHolds == Spec => ViewStays
  <1>1. Viewed /\ [Next]_vars => [part = "scale" => Scale!StaysPut /\ Scale!AnchorStays]_vars
    BY ScaleStays DEF Viewed
  <1> QED
    BY <1>1, ViewedAlways, PTL DEF Spec, ViewStays

-----------------------------------------------------------------------------
(* The range of the y axis (Axes).                                         *)

LEMMA AxesConstants ==
    /\ Parts \in Nat \ {0} /\ Parts % 100 = 0 /\ MinSpan \in Nat \ {0}
    /\ Values \subseteq Int /\ IsFiniteSet(Values) /\ None \notin Int
    /\ Mins \ {None} \subseteq Int /\ Maxs \ {None} \subseteq Int
    /\ \A lo \in Mins \ {None}, hi \in Maxs \ {None} : hi - lo >= MinSpan
    /\ \A h \in Heights : h \in Nat /\ h >= 7
    /\ TextSize \in Nat /\ TextWidth \in Nat \ {0}
    /\ \A y \in Ys : y \in Nat \ {0}
    /\ \A b \in Bars : b \in Nat \ {0}
    /\ Shifts \subseteq Int
  BY ConstantsAssumption DEF Rulers!AxesAssumption, Rulers!IsFiniteSet, IsFiniteSet

\* Some numbers, finitely many, have a least and a greatest.
LEMMA HasEnds ==
    ASSUME NEW S \in SUBSET Int, IsFiniteSet(S), S # {}
    PROVE  /\ \E m \in S : \A k \in S : m <= k
           /\ \E m \in S : \A k \in S : k <= m
  <1> DEFINE Ends(t) == /\ \E m \in t : \A k \in t : m <= k
                        /\ \E m \in t : \A k \in t : k <= m
             N == {n \in Nat : \A t \in SUBSET Int :
                      IsFiniteSet(t) /\ Cardinality(t) = n /\ t # {} => Ends(t)}
  <1>1. 0 \in N
    BY FS_EmptySet
  <1>2. ASSUME NEW n \in Nat, n \in N PROVE n + 1 \in N
    <2> SUFFICES ASSUME NEW t \in SUBSET Int, IsFiniteSet(t), Cardinality(t) = n + 1, t # {}
                 PROVE  Ends(t)
      OBVIOUS
    <2>1. PICK x \in t : TRUE
      OBVIOUS
    <2> DEFINE u == t \ {x}
    <2>2. IsFiniteSet(u) /\ Cardinality(u) = n
      <3>1. IsFiniteSet(t \ {x}) /\ Cardinality(t \ {x}) = Cardinality(t) - 1
        <4> HIDE DEF N, Ends
        <4> QED
          BY <2>1, FS_RemoveElement
      <3> QED
        BY <3>1
    <2>3. CASE u = {}
      <3>1. t \subseteq {x} /\ x \in Int /\ x \in t
        BY <2>1, <2>3
      <3>2. \A k \in t : x <= k /\ k <= x
        BY <3>1
      <3> QED
        BY <3>1, <3>2
    <2>4. CASE u # {}
      <3>1. u \in SUBSET Int
        OBVIOUS
      <3>2. Ends(u)
        <4> HIDE DEF u, Ends
        <4> QED
          BY <1>2, <2>2, <2>4, <3>1
      <3>3. PICK a \in u : \A k \in u : a <= k
        BY <3>2
      <3>4. PICK b \in u : \A k \in u : k <= b
        BY <3>2
      <3>5. t = u \cup {x} /\ a \in Int /\ b \in Int /\ x \in Int /\ a \in t /\ b \in t
        BY <2>1, <3>1
      <3> HIDE DEF u
      <3>6. \A k \in t : (IF a <= x THEN a ELSE x) <= k
        BY <3>1, <3>3, <3>5
      <3>7. \A k \in t : k <= (IF x <= b THEN b ELSE x)
        BY <3>1, <3>4, <3>5
      <3>8. (IF a <= x THEN a ELSE x) \in t /\ (IF x <= b THEN b ELSE x) \in t
        BY <2>1, <3>5
      <3> QED
        BY <3>6, <3>7, <3>8
    <2> QED
      BY <2>3, <2>4
  <1>3. Cardinality(S) \in N
    <2>1. Cardinality(S) \in Nat
      BY FS_CardinalityType
    <2> HIDE DEF N
    <2> QED
      BY <1>1, <1>2, <2>1, SetInduction
  <1> QED
    BY <1>3

LEMMA EndsAre ==
    ASSUME NEW S \in SUBSET Int, IsFiniteSet(S), S # {}
    PROVE  /\ Rulers!Least(S) \in S /\ \A k \in S : Rulers!Least(S) <= k
           /\ Rulers!Greatest(S) \in S /\ \A k \in S : k <= Rulers!Greatest(S)
  <1>1. \E m \in S : \A k \in S : m <= k
    BY HasEnds
  <1>2. \E m \in S : \A k \in S : m >= k
    BY HasEnds
  <1>3. Rulers!Least(S) \in S /\ \A k \in S : Rulers!Least(S) <= k
    BY <1>1 DEF Rulers!Least
  <1>4. Rulers!Greatest(S) \in S /\ \A k \in S : Rulers!Greatest(S) >= k
    BY <1>2 DEF Rulers!Greatest
  <1> QED
    BY <1>3, <1>4

Ranges == [from : Int, to : Int]
Limited == [min : Mins \cup {None}, max : Maxs \cup {None}]

\* Whatever the values are, what is widened holds them and is not empty.
LEMMA WidenedHolds ==
    ASSUME NEW lo \in Int, NEW hi \in Int, lo <= hi, NEW lim \in Limited
    PROVE  LET w == Rulers!Widened(lo, hi, lim)
           IN  w[1] \in Int /\ w[2] \in Int /\ w[1] <= lo /\ hi <= w[2] /\ w[1] < w[2]
  <1>1. Rulers!TickCount = 8 /\ 8 \div 2 = 4 /\ MinSpan \in Nat \ {0}
    BY AxesConstants DEF Rulers!TickCount
  <1>2. lo = lim.min /\ hi = lim.max => hi - lo >= MinSpan
    BY AxesConstants DEF Limited
  <1> QED
    BY <1>1, <1>2 DEF Rulers!Widened

\* The range made for some values has the gaps around them.
LEMMA RangeHolds ==
    ASSUME NEW S \in SUBSET Values, NEW lim \in Limited
    PROVE  LET r == Rulers!CreateRange(S, lim)
           IN  /\ r \in Ranges
               /\ \E a \in Nat \ {0} :
                     /\ r.to - r.from = 13 * a
                     /\ \A v \in S : /\ v * Parts \in Int
                                     /\ 2 * a <= r.to - v * Parts
                                     /\ r.to - v * Parts <= 12 * a
  <1> DEFINE lo == IF S = {} THEN 0 ELSE Rulers!Least(S \cup Rulers!Given(lim.min))
             hi == IF S = {} THEN 10 ELSE Rulers!Greatest(S \cup Rulers!Given(lim.max))
             w == Rulers!Widened(lo, hi, lim)
             q == Parts \div 10
             r == Rulers!CreateRange(S, lim)
  <1>1. lo \in Int /\ hi \in Int /\ lo <= hi /\ \A v \in S : v \in Int /\ lo <= v /\ v <= hi
    <2>1. CASE S = {}
      BY <2>1
    <2>2. CASE S # {}
      <3>1. /\ Rulers!Given(lim.min) \in SUBSET Int /\ IsFiniteSet(Rulers!Given(lim.min))
            /\ Rulers!Given(lim.max) \in SUBSET Int /\ IsFiniteSet(Rulers!Given(lim.max))
        <4>1. lim.min \in Mins \cup {None} /\ lim.max \in Maxs \cup {None}
          BY DEF Limited
        <4>2. \A x : IsFiniteSet({x}) /\ IsFiniteSet({x} \ {None})
          BY FS_Singleton, FS_RemoveElement
        <4> QED
          BY <4>1, <4>2, AxesConstants DEF Rulers!Given
      <3>2. IsFiniteSet(S) /\ S \in SUBSET Int
        BY AxesConstants, FS_Subset
      <3> DEFINE A == S \cup Rulers!Given(lim.min)
                 B == S \cup Rulers!Given(lim.max)
      <3>3. /\ A \in SUBSET Int /\ IsFiniteSet(A) /\ A # {}
            /\ B \in SUBSET Int /\ IsFiniteSet(B) /\ B # {}
        BY <2>2, <3>1, <3>2, FS_Union
      <3>4. S \subseteq A /\ S \subseteq B
        OBVIOUS
      <3>5. lo = Rulers!Least(A) /\ hi = Rulers!Greatest(B)
        BY <2>2
      <3> HIDE DEF A, B, lo, hi
      <3>6. lo \in A /\ (\A k \in A : lo <= k) /\ hi \in B /\ \A k \in B : k <= hi
        BY <3>3, <3>5, EndsAre
      <3>7. PICK v \in S : TRUE
        BY <2>2
      <3> QED
        BY <3>2, <3>3, <3>4, <3>6, <3>7
    <2> QED
      BY <2>1, <2>2
  <1> HIDE DEF lo, hi
  <1>2. w[1] \in Int /\ w[2] \in Int /\ w[1] <= lo /\ hi <= w[2] /\ w[1] < w[2]
    BY <1>1, WidenedHolds
  <1>3. q \in Nat \ {0} /\ Parts = 10 * q
    <2>1. Parts \in Nat \ {0} /\ Parts % 100 = 0
      BY AxesConstants
    <2> QED
      BY <2>1
  <1>4. r = [from |-> w[1] * Parts - (w[2] - w[1]) * q,
             to |-> w[2] * Parts + 2 * ((w[2] - w[1]) * q)]
    BY DEF Rulers!CreateRange, lo, hi
  <1> DEFINE l == w[1]
             u == w[2]
             a == (u - l) * q
  <1>5. l \in Int /\ u \in Int /\ l < u /\ l <= lo /\ hi <= u
    BY <1>2
  <1>6. r = [from |-> l * Parts - a, to |-> u * Parts + 2 * a]
    BY <1>4
  <1> HIDE DEF r, w, q, l, u
  <1>7. a \in Nat \ {0} /\ u * Parts = l * Parts + 10 * a /\ l * Parts \in Int
    <2>1. u - l \in Nat \ {0} /\ Parts \in Int
      BY <1>3, <1>5
    <2>2. (u - l) * q \in Nat \ {0}
      BY <1>3, <2>1
    <2>3. u * (10 * q) = l * (10 * q) + 10 * ((u - l) * q) /\ l * (10 * q) \in Int
      BY <1>3, <1>5
    <2> QED
      BY <1>3, <2>2, <2>3
  <1>8. ASSUME NEW v \in S
        PROVE  v * Parts \in Int /\ l * Parts <= v * Parts /\ v * Parts <= u * Parts
    <2>1. v \in Int /\ l <= v /\ v <= u /\ Parts \in Nat
      BY <1>1, <1>3, <1>5
    <2> QED
      BY <1>5, <2>1, TimesMonotone
  <1> HIDE DEF a
  <1>9. r \in Ranges
    BY <1>3, <1>5, <1>6, <1>7 DEF Ranges
  <1>10. r.to - r.from = 13 * a /\ \A v \in S : /\ v * Parts \in Int
                                              /\ 2 * a <= r.to - v * Parts
                                              /\ r.to - v * Parts <= 12 * a
    BY <1>6, <1>7, <1>8
  <1> QED
    BY <1>7, <1>9, <1>10 DEF r

\* The values with gaps around them are on the pane.
LEMMA ValuesShown ==
    ASSUME NEW r \in Ranges, NEW a \in Nat \ {0}, r.to - r.from = 13 * a,
           NEW x \in Int, 2 * a <= r.to - x, r.to - x <= 12 * a, NEW h \in Nat, h >= 7
    PROVE  Rulers!Pixel(x, r, h) > 0 /\ Rulers!Pixel(x, r, h) < h
  <1> DEFINE t == r.to - x
             p == t * h
             b == a * h
             e == Rulers!Extent(r)
             n == 2 * p + e
             m == 2 * e
  <1>1. t \in Int /\ 2 * a <= t /\ t <= 12 * a /\ e = 13 * a
    BY DEF Ranges, Rulers!Extent
  <1>2. Rulers!Pixel(x, r, h) = n \div m
    <2>1. (2 * (r.to - x) * h + Rulers!Extent(r)) = 2 * ((r.to - x) * h) + Rulers!Extent(r)
      BY DEF Ranges, Rulers!Extent
    <2> QED
      BY <2>1 DEF Rulers!Pixel
  <1> HIDE DEF t, e
  <1>3. p \in Int /\ b \in Int /\ 2 * b <= p /\ p <= 12 * b /\ 7 * a <= b
    <2>1. (2 * a) * h <= t * h /\ t * h <= (12 * a) * h
      BY <1>1, TimesMonotone
    <2>2. 7 * a <= h * a
      BY TimesMonotone
    <2>3. (2 * a) * h = 2 * b /\ (12 * a) * h = 12 * b /\ h * a = b
      OBVIOUS
    <2> QED
      BY <1>1, <2>1, <2>2, <2>3
  <1>4. n \in Int /\ m \in Nat \ {0} /\ m * 1 <= n /\ n < m * (h - 1) + m
    <2>1. m * (h - 1) + m = 26 * b
      BY <1>1
    <2>2. n \in Int /\ m \in Nat \ {0} /\ m * 1 = 26 * a /\ n = 2 * p + 13 * a
      BY <1>1, <1>3
    <2> HIDE DEF p, b, n, m
    <2> QED
      BY <1>3, <2>1, <2>2
  <1> HIDE DEF n, m
  <1>5. 1 <= n \div m /\ n \div m <= h - 1 /\ n \div m \in Int
    <2> DEFINE g == h - 1
    <2>1. g \in Int /\ n \in Int /\ m \in Nat \ {0} /\ m * 1 <= n /\ n < m * g + m
      BY <1>4
    <2> HIDE DEF g
    <2>2. \A c \in Int : m * c <= n => c <= n \div m
      BY <2>1, QuotientBounds
    <2>3. 1 <= n \div m
      <3> HIDE DEF m, n
      <3> QED
        BY <2>1, <2>2
    <2>4. n \div m <= g
      BY <2>1, QuotientBounds
    <2>5. n \div m \in Int
      BY <2>1, Division
    <2> QED
      BY <2>3, <2>4, <2>5 DEF g
  <1> QED
    BY <1>2, <1>5

-----------------------------------------------------------------------------
(* The labels of the y axis.                                               *)

LEMMA SameRulerCount == ASSUME NEW S PROVE Rulers!Cardinality(S) = Cardinality(S)
  BY DEF Rulers!Cardinality, Cardinality, Rulers!IsFiniteSet, IsFiniteSet

LEMMA FourFinite ==
    ASSUME NEW a, NEW b, NEW c, NEW d PROVE IsFiniteSet({a, b, c, d})
  <1>1. IsFiniteSet({a})
    BY FS_Singleton
  <1>2. IsFiniteSet({a} \cup {b})
    BY <1>1, FS_AddElement
  <1>3. IsFiniteSet(({a} \cup {b}) \cup {c})
    BY <1>2, FS_AddElement
  <1>4. IsFiniteSet((({a} \cup {b}) \cup {c}) \cup {d})
    BY <1>3, FS_AddElement
  <1>5. (({a} \cup {b}) \cup {c}) \cup {d} = {a, b, c, d}
    OBVIOUS
  <1> QED
    BY <1>4, <1>5

LEMMA NiceIs ==
    ASSUME NEW e \in Int
    PROVE  Rulers!Nice(e) \in Nat \ {0}
  <1> DEFINE powers == {Parts \div 100, Parts \div 10, Parts, 10 * Parts}
             A == {q \in powers : q * Rulers!TickCount <= e} \cup {Parts \div 100}
             p == Rulers!Greatest(A)
             K == {k \in 1..6 : e >= (2 * k + 1) * p * (Rulers!TickCount \div 2)}
             steps8 == <<1, 2, 3, 4, 5, 6, 8>>
  <1>1. powers \subseteq Nat \ {0}
    <2>1. Parts \in Nat \ {0} /\ Parts % 100 = 0
      BY AxesConstants
    <2>2. Parts \div 100 \in Nat \ {0} /\ Parts \div 10 \in Nat \ {0} /\ 10 * Parts \in Nat \ {0}
      BY <2>1
    <2> QED
      BY <2>1, <2>2
  <1>2. A \in SUBSET Int /\ IsFiniteSet(A) /\ A # {} /\ A \subseteq powers
    <2>1. IsFiniteSet(powers)
      BY FourFinite
    <2>2. A \in SUBSET powers
      OBVIOUS
    <2>3. IsFiniteSet(A)
      <3> HIDE DEF A, powers
      <3> QED
        BY <2>1, <2>2, FS_Subset
    <2> QED
      BY <1>1, <2>2, <2>3
  <1>3. p \in A
    <2> HIDE DEF A
    <2> QED
      BY <1>2, EndsAre
  <1> HIDE DEF A
  <1>4. p \in Nat \ {0}
    BY <1>1, <1>2, <1>3
  <1> HIDE DEF p, powers
  <1>5. Cardinality(K) \in 0..6
    <2>1. K \in SUBSET (1..6)
      OBVIOUS
    <2> HIDE DEF K
    <2>0. IsFiniteSet(1..6) /\ Cardinality(1..6) = 6
      <3> DEFINE six == 6
      <3>1. six \in Nat \ {0}
        OBVIOUS
      <3> HIDE DEF six
      <3>2. IsFiniteSet(1..six) /\ Cardinality(1..six) = six
        BY <3>1, FS_Interval
      <3> QED
        BY <3>2 DEF six
    <2>2. IsFiniteSet(K) /\ Cardinality(K) <= 6
      BY <2>0, <2>1, FS_Subset
    <2> QED
      BY <2>2, FS_CardinalityType
  <1>6. Rulers!Nice(e) = p * steps8[1 + Cardinality(K)]
    BY SameRulerCount DEF Rulers!Nice, p, A, powers
  <1> HIDE DEF K
  <1>7. steps8[1 + Cardinality(K)] \in Nat \ {0}
    <2>1. 1 + Cardinality(K) \in 1..7
      BY <1>5
    <2>2. \A k \in 1..7 : steps8[k] \in Nat \ {0}
      OBVIOUS
    <2> HIDE DEF steps8
    <2> QED
      BY <2>1, <2>2
  <1> HIDE DEF steps8
  <1> QED
    BY <1>4, <1>6, <1>7

\* The multiples come from below, each once.
LEMMA MultiplesRise ==
    ASSUME NEW r \in Ranges
    PROVE  LET m == Rulers!Multiples(r)
           IN  /\ \E n \in Nat : DOMAIN m = 1..n
               /\ \A k \in DOMAIN m : m[k] \in Int
               /\ \A k, l \in DOMAIN m : k < l => m[k] < m[l]
  <1> DEFINE e == Rulers!Extent(r)
             step == Rulers!Nice(e)
             first == Rulers!CeilDiv(r.from, step)
             last == r.to \div step - first + 1
             m == Rulers!Multiples(r)
  <1>1. e \in Int
    BY DEF Ranges, Rulers!Extent
  <1>2. step \in Nat \ {0}
    BY <1>1, NiceIs
  <1>3. m = [k \in 1..last |-> (first + k - 1) * step]
    BY DEF Rulers!Multiples
  <1> HIDE DEF step, m
  <1>4. first \in Int /\ last \in Int
    <2>1. r.from \in Int /\ -r.from \in Int /\ r.to \in Int
      BY DEF Ranges
    <2>2. (-r.from) \div step \in Int /\ r.to \div step \in Int
      BY <1>2, <2>1, Division
    <2> QED
      BY <2>2 DEF Rulers!CeilDiv
  <1> HIDE DEF first, last
  <1>5. \E n \in Nat : 1..last = 1..n
    <2>1. CASE last >= 0
      BY <1>4, <2>1
    <2>2. CASE last < 0
      <3>1. 1..last = 1..0
        BY <1>4, <2>2
      <3> QED
        BY <3>1
    <2> QED
      BY <1>4, <2>1, <2>2
  <1>6. ASSUME NEW k \in 1..last PROVE (first + k - 1) * step \in Int
    BY <1>2, <1>4
  <1>7. ASSUME NEW k \in 1..last, NEW l \in 1..last, k < l
        PROVE  (first + k - 1) * step < (first + l - 1) * step
    <2> DEFINE a == first + k - 1
               b == first + l - 1
    <2>1. a \in Int /\ b \in Int /\ a + 1 <= b
      BY <1>4, <1>7
    <2> HIDE DEF a, b
    <2>2. (a + 1) * step <= b * step /\ (a + 1) * step = a * step + step
      BY <1>2, <2>1, TimesMonotone
    <2>3. a * step \in Int /\ b * step \in Int
      BY <1>2, <2>1
    <2>4. a * step < b * step
      BY <1>2, <2>2, <2>3
    <2> QED
      BY <2>4 DEF a, b
  <1> QED
    BY <1>3, <1>5, <1>6, <1>7 DEF m

\* Of two values the greater is drawn no lower.
LEMMA PixelFalls ==
    ASSUME NEW r \in Ranges, Rulers!Extent(r) > 0, NEW h \in Nat,
           NEW v \in Int, NEW u \in Int, v <= u
    PROVE  /\ Rulers!Pixel(v, r, h) \in Int /\ Rulers!Pixel(u, r, h) \in Int
           /\ Rulers!Pixel(u, r, h) <= Rulers!Pixel(v, r, h)
  <1> DEFINE e == Rulers!Extent(r)
             b == 2 * e
             N(x) == 2 * (r.to - x) * h + e
  <1>1. b \in Nat \ {0} /\ r.to \in Int /\ e \in Int
    BY DEF Ranges, Rulers!Extent
  <1>2. N(v) \in Int /\ N(u) \in Int /\ N(u) <= N(v)
    <2>1. (r.to - u) * h <= (r.to - v) * h
      BY <1>1, TimesMonotone
    <2>2. /\ 2 * (r.to - u) * h = 2 * ((r.to - u) * h) /\ (r.to - u) * h \in Int
          /\ 2 * (r.to - v) * h = 2 * ((r.to - v) * h) /\ (r.to - v) * h \in Int
      BY <1>1
    <2> HIDE DEF e
    <2> QED
      BY <1>1, <2>1, <2>2
  <1>3. Rulers!Pixel(v, r, h) = N(v) \div b /\ Rulers!Pixel(u, r, h) = N(u) \div b
    BY DEF Rulers!Pixel
  <1> DEFINE c == N(v)
             d == N(u)
             p == d \div b
  <1>4. c \in Int /\ d \in Int /\ d <= c
    BY <1>2
  <1> HIDE DEF N, b, c, d, p
  <1>5. p \in Int /\ b * p <= d
    BY <1>1, <1>4, Division DEF p
  <1>6. b * p \in Int /\ b * p <= c
    BY <1>1, <1>4, <1>5
  <1>7. p <= c \div b /\ c \div b \in Int
    BY <1>1, <1>4, <1>5, <1>6, QuotientBounds, Division
  <1> QED
    BY <1>3, <1>5, <1>7 DEF c, d, p

Label == [value : Int, y : Int]
Labels == Seq(Label)

LEMMA LabelsAre ==
    ASSUME NEW s \in Labels
    PROVE  /\ Len(s) \in Nat /\ DOMAIN s = 1..Len(s) /\ \A k \in 1..Len(s) : s[k] \in Label
           /\ \A x \in Label : /\ Append(s, x) \in Labels
                             /\ DOMAIN Append(s, x) = 1..(Len(s) + 1)
                             /\ Append(s, x)[Len(s) + 1] = x
                             /\ \A k \in 1..Len(s) : Append(s, x)[k] = s[k]
  BY DEF Labels

\* The labels are taken one multiple after the other.
LEMMA LabelsFold ==
    ASSUME NEW r \in Ranges, Rulers!Extent(r) > 0, NEW h \in Nat,
           NEW n \in Nat, NEW m, m = Rulers!Multiples(r), DOMAIN m = 1..n
    PROVE  \E f : /\ f[0] = <<>>
                  /\ \A i \in 1..n : f[i] = Rulers!Keep(f[i - 1], m[i], r, h)
                  /\ Rulers!CreateTicks(r, h) = f[n]
  <1> DEFINE G == [p \in Labels \X (1..n) |-> Rulers!Keep(p[1], m[p[2]], r, h)]
             Is(it) == it = [t \in SUBSET DOMAIN m |->
                               IF t = {} THEN <<>>
                               ELSE Rulers!Keep(it[t \ {Rulers!Max(t)}], m[Rulers!Max(t)], r, h)]
             fold == CHOOSE it : Is(it)
  <1>0. \A t \in SUBSET (1..n) : t # {} => Rulers!Max(t) \in t /\ \A k \in t : k <= Rulers!Max(t)
    <2> SUFFICES ASSUME NEW t \in SUBSET (1..n), t # {}
                 PROVE  Rulers!Max(t) \in t /\ \A k \in t : k <= Rulers!Max(t)
      OBVIOUS
    <2>1. PICK x \in t : \A k \in t : x >= k
      BY HasGreatest
    <2> QED
      BY <2>1 DEF Rulers!Max
  <1>1. \E it : Is(it)
    <2>1. G \in [Labels \X (1..n) -> Labels] /\ <<>> \in Labels
      <3>1. ASSUME NEW k \in Labels, NEW i \in 1..n PROVE Rulers!Keep(k, m[i], r, h) \in Labels
        <4>1. m[i] \in Int
          BY MultiplesRise
        <4>2. Rulers!Pixel(m[i], r, h) \in Int
          BY <4>1, PixelFalls
        <4>3. [value |-> m[i], y |-> Rulers!Pixel(m[i], r, h)] \in Label
          BY <4>1, <4>2 DEF Label
        <4> QED
          BY <4>3, LabelsAre DEF Rulers!Keep
      <3>2. <<>> \in Labels
        BY DEF Labels
      <3> QED
        BY <3>1, <3>2
    <2>2. PICK it : IsFold(it, n, Labels, <<>>, G)
      <3> HIDE DEF G
      <3> QED
        BY <2>1, FoldExists
    <2>3. it = [t \in SUBSET (1..n) |-> it[t]]
      BY <2>2 DEF IsFold
    <2>4. ASSUME NEW t \in SUBSET (1..n), t # {}
          PROVE  it[t] = Rulers!Keep(it[t \ {Rulers!Max(t)}], m[Rulers!Max(t)], r, h)
      <3>1. Rulers!Max(t) \in t /\ \A k \in t : k <= Rulers!Max(t)
        BY <2>4, <1>0
      <3>2. /\ it[t] = G[<<it[t \ {Rulers!Max(t)}], Rulers!Max(t)>>]
            /\ it[t \ {Rulers!Max(t)}] \in Labels
        <4> HIDE DEF G
        <4> QED
          BY <2>2, <3>1 DEF IsFold
      <3> QED
        BY <3>1, <3>2
    <2>5. it[{}] = <<>>
      BY <2>2 DEF IsFold
    <2> HIDE DEF G
    <2>6. Is(it)
      BY <2>3, <2>4, <2>5
    <2> QED
      BY <2>6
  <1>2. Is(fold)
    <2> HIDE DEF Is
    <2> QED
      BY <1>1
  <1>3. Rulers!CreateTicks(r, h) = fold[DOMAIN m]
    BY DEF Rulers!CreateTicks, Rulers!FoldLeft, Rulers!MapThenFoldSet
  <1> HIDE DEF fold
  <1> DEFINE f == [i \in 0..n |-> fold[1..i]]
  <1>4. f[0] = <<>>
    BY <1>2
  <1>5. ASSUME NEW i \in 1..n PROVE f[i] = Rulers!Keep(f[i - 1], m[i], r, h)
    <2> HIDE DEF Is
    <2>1. i \in Nat /\ i \in 1..i /\ (1..i) \in SUBSET (1..n)
          /\ 1..i # {} /\ (1..i) \ {i} = 1..(i - 1)
      BY GreatestOfFirst
    <2>2. Rulers!Max(1..i) \in 1..i /\ i <= Rulers!Max(1..i)
      BY <1>0, <2>1
    <2>3. Rulers!Max(1..i) = i
      BY <2>1, <2>2
    <2>4. fold[1..i] = Rulers!Keep(fold[(1..i) \ {Rulers!Max(1..i)}], m[Rulers!Max(1..i)], r, h)
      BY <1>2, <2>1 DEF Is
    <2>5. fold[1..i] = Rulers!Keep(fold[1..(i - 1)], m[i], r, h)
      BY <2>1, <2>3, <2>4
    <2> QED
      BY <2>5
  <1> HIDE DEF f
  <1>6. Rulers!CreateTicks(r, h) = f[n]
    BY <1>3 DEF f
  <1> QED
    BY <1>4, <1>5, <1>6

\* Labels that stand at their values, from below, none over another.
Placed(kept, r, h) ==
    /\ kept \in Labels
    /\ \A k \in DOMAIN kept :
          /\ kept[k].y = Rulers!Pixel(kept[k].value, r, h)
          /\ k > 1 => kept[k - 1].y - kept[k].y > 2 * TextSize

LEMMA KeepPlaces ==
    ASSUME NEW r \in Ranges, Rulers!Extent(r) > 0, NEW h \in Nat, NEW v \in Int,
           NEW kept, Placed(kept, r, h), \A k \in DOMAIN kept : kept[k].value <= v
    PROVE  /\ Placed(Rulers!Keep(kept, v, r, h), r, h)
           /\ \A k \in DOMAIN Rulers!Keep(kept, v, r, h) : Rulers!Keep(kept, v, r, h)[k].value <= v
  <1> DEFINE y == Rulers!Pixel(v, r, h)
             new == [value |-> v, y |-> y]
             w == Append(kept, new)
             n == Len(kept)
  <1>0. kept \in Labels
    BY DEF Placed
  <1>1. y \in Int
    BY PixelFalls
  <1>2. n \in Nat /\ DOMAIN kept = 1..n /\ \A k \in 1..n : kept[k].value \in Int /\ kept[k].y \in Int
    BY <1>0, LabelsAre DEF Label
  <1>3. CASE Rulers!Room(kept, y, h)
    <2>1. Rulers!Keep(kept, v, r, h) = w
      BY <1>3 DEF Rulers!Keep
    <2>2. w \in Labels /\ DOMAIN w = 1..(n + 1) /\ w[n + 1] = new /\ \A k \in 1..n : w[k] = kept[k]
      <3>1. new \in Label
        BY <1>1 DEF Label
      <3> HIDE DEF new
      <3> QED
        BY <1>0, <3>1, LabelsAre
    <2>3. ASSUME n > 0 PROVE kept[n].y - y > 2 * TextSize
      <3>1. kept # <<>> /\ n \in 1..n
        BY <1>2, <2>3
      <3>2. kept[n].y - y > 2 * TextSize \/ y - kept[n].y > 2 * TextSize
        BY <1>3, <3>1 DEF Rulers!Room
      <3>3. y <= kept[n].y
        <4>1. kept[n].value \in Int /\ kept[n].value <= v /\ kept[n].y = Rulers!Pixel(kept[n].value, r, h)
          BY <1>2, <3>1 DEF Placed
        <4> QED
          BY <4>1, PixelFalls
      <3> QED
        BY <1>1, <1>2, <3>1, <3>2, <3>3, AxesConstants
    <2> HIDE DEF w
    <2>4. ASSUME NEW k \in 1..(n + 1)
          PROVE  /\ w[k].y = Rulers!Pixel(w[k].value, r, h) /\ w[k].value <= v
                 /\ k > 1 => w[k - 1].y - w[k].y > 2 * TextSize
      <3>1. CASE k \in 1..n
        <4>1. k > 1 => k - 1 \in 1..n
          BY <3>1, <1>2
        <4> QED
          BY <1>2, <2>2, <3>1, <4>1 DEF Placed
      <3>2. CASE k = n + 1
        <4>1. w[k].y = y /\ w[k].value = v
          BY <2>2, <3>2
        <4>2. k > 1 => n > 0 /\ w[k - 1] = kept[n]
          BY <1>2, <2>2, <3>2
        <4> QED
          BY <2>3, <4>1, <4>2
      <3> QED
        BY <1>2, <3>1, <3>2
    <2> QED
      BY <2>1, <2>2, <2>4 DEF Placed
  <1>4. CASE ~Rulers!Room(kept, y, h)
    BY <1>4 DEF Rulers!Keep
  <1> QED
    BY <1>3, <1>4

LEMMA TicksPlaced ==
    ASSUME NEW r \in Ranges, NEW h \in Nat
    PROVE  Placed(Rulers!CreateTicks(r, h), r, h)
  <1>0. Placed(<<>>, r, h)
    BY DEF Placed, Labels
  <1>1. CASE ~(Rulers!Extent(r) > 0)
    BY <1>0, <1>1 DEF Rulers!CreateTicks
  <1>2. CASE Rulers!Extent(r) > 0
    <2> DEFINE m == Rulers!Multiples(r)
    <2>1. PICK n \in Nat : DOMAIN m = 1..n
      BY MultiplesRise
    <2>2. (\A k \in 1..n : m[k] \in Int) /\ \A k, l \in 1..n : k < l => m[k] < m[l]
      BY <2>1, MultiplesRise
    <2>3. PICK f : /\ f[0] = <<>>
                   /\ \A i \in 1..n : f[i] = Rulers!Keep(f[i - 1], m[i], r, h)
                   /\ Rulers!CreateTicks(r, h) = f[n]
      BY <1>2, <2>1, LabelsFold
    <2> HIDE DEF m
    <2> DEFINE Upto(i) == /\ Placed(f[i], r, h)
                          /\ i > 0 => \A k \in DOMAIN f[i] : f[i][k].value <= m[i]
               S == {i \in Nat : i <= n => Upto(i)}
    <2>4. 0 \in S
      BY <1>0, <2>3
    <2>5. ASSUME NEW i \in Nat, i \in S PROVE i + 1 \in S
      <3> SUFFICES ASSUME i + 1 <= n PROVE Upto(i + 1)
        OBVIOUS
      <3>1. i + 1 \in 1..n /\ (i + 1) - 1 = i /\ i <= n /\ Upto(i)
        BY <2>5
      <3>2. f[i + 1] = Rulers!Keep(f[i], m[i + 1], r, h) /\ m[i + 1] \in Int
        BY <2>2, <2>3, <3>1
      <3>3. \A k \in DOMAIN f[i] : f[i][k].value <= m[i + 1]
        <4>1. CASE i = 0
          BY <2>3, <4>1
        <4>2. CASE i > 0
          <5>1. i \in 1..n /\ m[i] \in Int /\ m[i] < m[i + 1]
            BY <2>2, <3>1, <4>2
          <5>2. \A k \in DOMAIN f[i] : f[i][k].value \in Int /\ f[i][k].value <= m[i]
            <6>1. f[i] \in Labels /\ \A k \in DOMAIN f[i] : f[i][k].value <= m[i]
              BY <3>1, <4>2 DEF Placed
            <6> QED
              BY <6>1, LabelsAre DEF Label
          <5> QED
            BY <3>2, <5>1, <5>2
        <4> QED
          BY <4>1, <4>2
      <3> QED
        BY <1>2, <3>1, <3>2, <3>3, KeepPlaces
    <2>6. n \in S
      <3> HIDE DEF S
      <3> QED
        BY <2>4, <2>5, SetInduction
    <2> QED
      BY <2>3, <2>6
  <1> QED
    BY <1>1, <1>2

-----------------------------------------------------------------------------
(* The labels of the x axis.                                               *)

LEMMA SameRest ==
    ASSUME NEW i \in Int, NEW k \in Int, NEW n \in Nat \ {0}
    PROVE  (i - k * n) % n = i % n
  <1> DEFINE j == i - k * n
             q == i \div n
             p == j \div n
             a == i % n
             b == j % n
             t == q - k - p
  <1>1. k * n \in Int /\ j \in Int
    OBVIOUS
  <1>2. q \in Int /\ a \in 0..(n - 1) /\ i = n * q + a
    BY Division
  <1> HIDE DEF q, a
  <1>3. p \in Int /\ b \in 0..(n - 1) /\ j = n * p + b
    <2> HIDE DEF j
    <2> QED
      BY <1>1, Division
  <1> HIDE DEF p, b
  <1>4. j = i - k * n /\ t = q - k - p /\ t \in Int /\ t * n = n * q - k * n - n * p /\ t * n \in Int
    BY <1>1, <1>2, <1>3
  <1> HIDE DEF j, t
  <1>5. n * q \in Int /\ n * p \in Int /\ t * n = b - a
    BY <1>1, <1>2, <1>3, <1>4
  <1>6. ~(1 <= t)
    <2>1. SUFFICES ASSUME 1 <= t PROVE FALSE
      OBVIOUS
    <2>2. 1 * n <= t * n
      BY <1>4, <2>1, TimesMonotone
    <2> QED
      BY <1>2, <1>3, <1>5, <2>2
  <1>7. ~(t <= -1)
    <2>1. SUFFICES ASSUME t <= -1 PROVE FALSE
      OBVIOUS
    <2>2. t * n <= (-1) * n
      BY <1>4, <2>1, TimesMonotone
    <2> QED
      BY <1>2, <1>3, <1>5, <2>2
  <1>8. t = 0
    BY <1>4, <1>6, <1>7
  <1>9. a = b
    BY <1>2, <1>3, <1>5, <1>8
  <1> QED
    BY <1>9 DEF a, b, j

\* A view that begins where its first bar is, or at the first there is.
Viewing == [from : Int, realFrom : Int, realTo : Int, bar : Bars]
Begins(v) == v.from = IF v.realFrom < 0 THEN 0 ELSE v.realFrom

LEMMA BarsBetween ==
    ASSUME NEW wide \in Bars
    PROVE  Rulers!TickBetweenBarCount(wide) \in Nat \ {0}
  <1> DEFINE c == Rulers!CeilDiv(TextWidth, wide)
             a == -TextWidth
             q == a \div wide
  <1>1. wide \in Nat \ {0} /\ TextWidth \in Nat \ {0}
    BY AxesConstants
  <1>2. a \in Int /\ a < 0
    BY <1>1
  <1>3. q \in Int /\ wide * q <= a
    <2> HIDE DEF a
    <2> QED
      BY <1>1, <1>2, Division
  <1>4. c = -q
    BY DEF Rulers!CeilDiv
  <1> HIDE DEF q, c, a
  <1>5. ~(0 <= q)
    <2>1. SUFFICES ASSUME 0 <= q PROVE FALSE
      OBVIOUS
    <2>2. 0 * wide <= q * wide
      BY <1>1, <1>3, <2>1, TimesMonotone
    <2> QED
      BY <1>1, <1>2, <1>3, <2>2
  <1>6. c \in Nat \ {0}
    BY <1>3, <1>4, <1>5
  <1>7. c % 2 \in 0..1
    BY <1>6
  <1>8. c + (c % 2) \in Nat \ {0}
    BY <1>6, <1>7
  <1> QED
    BY <1>8 DEF Rulers!TickBetweenBarCount, c

\* The bars that get a label are the multiples in view.
LEMMA LabelledAre ==
    ASSUME NEW v, v.from \in Int, v.realFrom \in Int, v.realTo \in Int, v.bar \in Bars,
           NEW i \in Int, (IF v.realFrom < 0 THEN 0 ELSE v.realFrom) <= v.from
    PROVE  i \in Rulers!XTicks(v) <=>
              v.from <= i /\ i <= v.realTo - 1 /\ i % Rulers!TickBetweenBarCount(v.bar) = 0
  <1> DEFINE n == Rulers!TickBetweenBarCount(v.bar)
             real == v.realFrom
             k == IF real < 0 THEN 0 ELSE real \div n
             start == IF real < 0 THEN 0 ELSE (real \div n) * n
  <1>1. n \in Nat \ {0}
    BY BarsBetween
  <1>2. real \in Int /\ v.from \in Int /\ v.realTo \in Int
    OBVIOUS
  <1>3. i \in Rulers!XTicks(v) <=> /\ i \in start..(v.realTo - 1) /\ (i - start) % n = 0 /\ i >= v.from
    BY DEF Rulers!XTicks
  <1> HIDE DEF n
  <1>4. k \in Int /\ start = k * n /\ start \in Int /\ start <= v.from
    <2>1. real \div n \in Int /\ n * (real \div n) <= real
      <3> HIDE DEF real
      <3> QED
        BY <1>1, <1>2, Division
    <2>2. (real \div n) * n = n * (real \div n) /\ n * (real \div n) \in Int /\ 0 * n = 0
      BY <1>1, <2>1
    <2> QED
      BY <1>2, <2>1, <2>2
  <1> HIDE DEF k, start
  <1>5. (i - start) % n = i % n
    BY <1>1, <1>4, SameRest
  <1> QED
    BY <1>2, <1>3, <1>4, <1>5 DEF n

LEMMA ScrolledView ==
    ASSUME NEW v \in Viewing, NEW d \in Int
    PROVE  LET on == [v EXCEPT !.from = @ + d, !.realFrom = @ + d, !.realTo = @ + d]
           IN  /\ on.from = v.from + d /\ on.realFrom = v.realFrom + d
               /\ on.realTo = v.realTo + d /\ on.bar = v.bar
  BY DEF Viewing

LEMMA BarsKeepLabels ==
    ASSUME view \in Viewing, Begins(view)
    PROVE  Rulers!LabelsScroll
  <1> SUFFICES ASSUME NEW d \in 1..Rulers!TickBetweenBarCount(view.bar)
               PROVE  LET on == [view EXCEPT !.from = @ + d, !.realFrom = @ + d, !.realTo = @ + d]
                      IN  Rulers!XTicks(view) \cap (on.from..(view.realTo - 1))
                             = Rulers!XTicks(on) \cap (on.from..(view.realTo - 1))
    BY DEF Rulers!LabelsScroll
  <1> DEFINE on == [view EXCEPT !.from = @ + d, !.realFrom = @ + d, !.realTo = @ + d]
  <1>1. d \in Nat \ {0}
    BY BarsBetween DEF Viewing
  <1>2. on.from = view.from + d /\ on.realFrom = view.realFrom + d
        /\ on.realTo = view.realTo + d /\ on.bar = view.bar
    BY <1>1, ScrolledView
  <1> HIDE DEF on
  <1>3. /\ (IF view.realFrom < 0 THEN 0 ELSE view.realFrom) <= view.from
        /\ (IF on.realFrom < 0 THEN 0 ELSE on.realFrom) <= on.from
    BY <1>1, <1>2 DEF Viewing, Begins
  <1>4. ASSUME NEW i \in on.from..(view.realTo - 1)
        PROVE  i \in Rulers!XTicks(view) <=> i \in Rulers!XTicks(on)
    <2>1. /\ i \in Int /\ view.from <= i /\ on.from <= i
          /\ i <= view.realTo - 1 /\ i <= on.realTo - 1
      BY <1>1, <1>2 DEF Viewing
    <2>2. i \in Rulers!XTicks(view) <=> i % Rulers!TickBetweenBarCount(view.bar) = 0
      BY <1>3, <2>1, LabelledAre DEF Viewing
    <2>3. i \in Rulers!XTicks(on) <=> i % Rulers!TickBetweenBarCount(on.bar) = 0
      <3>1. /\ on.from \in Int /\ on.realFrom \in Int /\ on.realTo \in Int
            /\ on.bar \in Bars
        BY <1>1, <1>2 DEF Viewing
      <3> QED
        BY <1>3, <2>1, <3>1, LabelledAre
    <2> QED
      BY <1>2, <2>2, <2>3
  <1>5. Rulers!XTicks(view) \cap (on.from..(view.realTo - 1))
           = Rulers!XTicks(on) \cap (on.from..(view.realTo - 1))
    BY <1>4
  <1> QED
    BY <1>5 DEF on

-----------------------------------------------------------------------------
(* The axes (Axes), however they are dragged.                              *)

Presses == [on : {"yAxis", "main"}, held : Ranges \cup {None}, y : Ys, last : Ys]

AxesTyped ==
    /\ seen \in SUBSET Values /\ limits \in Limited /\ height \in Heights
    /\ auto \in BOOLEAN /\ waiting \in BOOLEAN
    /\ shown \in Ranges
    /\ press # None => press \in Presses /\ (press.on = "yAxis" => press.held \in Ranges)
    /\ view \in Viewing /\ Begins(view)

\* The range and the labels are those of the last layout, which followed the
\* values unless the axis was dragged, and then the pointer.
RulerInv ==
    /\ AxesTyped
    /\ auto /\ ~waiting => shown = Rulers!CreateRange(seen, limits)
    /\ built = shown /\ ticks = Rulers!CreateTicks(shown, height)
    /\ Rulers!DragReturns

\* What a layout does.
LEMMA LayoutHolds ==
    ASSUME RulerInv, NEW force \in BOOLEAN, NEW S \in SUBSET Values, NEW r \in Ranges,
           NEW flag \in BOOLEAN, NEW h \in Heights, h = height \/ force, limits' \in Limited,
           Rulers!BuildTicks(force, S, r, flag, h)
    PROVE  /\ waiting' = FALSE /\ shown' \in Ranges
           /\ shown' = IF flag THEN Rulers!CreateRange(S, limits') ELSE r
           /\ built' = shown' /\ ticks' = Rulers!CreateTicks(shown', h)
  <1>1. Rulers!CreateRange(S, limits') \in Ranges
    BY RangeHolds
  <1> QED
    BY <1>1 DEF Rulers!BuildTicks, RulerInv

LEMMA RulersBegin == Rulers!Init => RulerInv
  <1> SUFFICES ASSUME Rulers!Init PROVE RulerInv
    OBVIOUS
  <1> USE DEF Rulers!Init
  <1>1. seen \in SUBSET Values /\ limits \in Limited /\ height \in Heights
    BY DEF Rulers!Visible, Rulers!NoLimits, Limited
  <1>2. shown \in Ranges
    BY <1>1, RangeHolds
  <1>3. view \in Viewing /\ Begins(view)
    BY DEF Viewing, Begins
  <1>4. AxesTyped
    BY <1>1, <1>2, <1>3 DEF AxesTyped
  <1> QED
    BY <1>4 DEF RulerInv, Rulers!DragReturns

\* A drag that comes back to where it began adds nothing.
LEMMA NothingDragged ==
    ASSUME NEW r \in Ranges, NEW n \in Nat \ {0}, NEW y \in Int
    PROVE  (Rulers!Extent(r) * (y - y)) \div n = 0
  <1> DEFINE e == Rulers!Extent(r)
  <1>1. e \in Int
    BY DEF Ranges, Rulers!Extent
  <1> HIDE DEF e
  <1>2. e * (y - y) = 0
    BY <1>1
  <1> DEFINE q == 0 \div n
  <1>3. q \in Int /\ 0 \in Int /\ 0 % n \in 0..(n - 1) /\ 0 = n * q + (0 % n)
    BY Division
  <1>4. n * 0 <= 0 /\ 0 < n * 0 + n
    OBVIOUS
  <1>5. q = 0
    <2>1. \A m \in Int : (0 < n * m + n => q <= m) /\ (n * m <= 0 => m <= q)
      BY QuotientBounds
    <2>2. \A m \in Int : m = 0 => 0 < n * m + n /\ n * m <= 0
      OBVIOUS
    <2> HIDE DEF q
    <2>3. \A m \in Int : m = 0 => q <= m /\ m <= q
      BY <2>1, <2>2
    <2> QED
      BY <1>3, <2>3
  <1> QED
    BY <1>2, <1>5 DEF e

\* A range dragged along with the pointer is one of whole numbers.
LEMMA DraggedIs ==
    ASSUME RulerInv, press # None, press.held \in Ranges, NEW y \in Ys
    PROVE  /\ Rulers!Scaled(y) \in Ranges /\ Rulers!Scrolled(y) \in Ranges
           /\ y = press.y => Rulers!Scaled(y) = press.held /\ Rulers!Scrolled(y) = press.held
  <1>1. press.held \in Ranges /\ press.y \in Ys
    BY DEF RulerInv, AxesTyped, Presses
  <1>2. height \in Nat \ {0} /\ 2 * press.y \in Nat \ {0} /\ y \in Int /\ press.y \in Int
    BY <1>1, AxesConstants DEF RulerInv, AxesTyped
  <1> DEFINE r == press.held
             a == Rulers!Extent(r) * (y - press.y)
             m == 2 * press.y
  <1>3. r \in Ranges /\ a \in Int /\ m \in Nat \ {0}
    BY <1>1, <1>2 DEF Ranges, Rulers!Extent
  <1>4. /\ Rulers!Scaled(y) = [from |-> r.from - a \div m, to |-> r.to + a \div m]
        /\ Rulers!Scrolled(y) = [from |-> r.from + a \div height, to |-> r.to + a \div height]
    BY DEF Rulers!Scaled, Rulers!Scrolled
  <1>5. y = press.y => a \div m = 0 /\ a \div height = 0
    BY <1>1, <1>2, NothingDragged
  <1> HIDE DEF r, a, m
  <1>6. a \div m \in Int /\ a \div height \in Int
    BY <1>2, <1>3, Division
  <1>7. r = [from |-> r.from, to |-> r.to] /\ r.from \in Int /\ r.to \in Int
    BY <1>3 DEF Ranges
  <1>8. Rulers!Scaled(y) \in Ranges /\ Rulers!Scrolled(y) \in Ranges
    BY <1>4, <1>6, <1>7 DEF Ranges
  <1>9. y = press.y => Rulers!Scaled(y) = r /\ Rulers!Scrolled(y) = r
    BY <1>4, <1>5, <1>7
  <1> QED
    BY <1>8, <1>9 DEF r

LEMMA RulersStep == RulerInv /\ [Rulers!Next]_(Rulers!vars) => RulerInv'
  <1> SUFFICES ASSUME RulerInv, [Rulers!Next]_(Rulers!vars) PROVE RulerInv'
    OBVIOUS
  <1>0. /\ AxesTyped /\ seen \in SUBSET Values /\ shown \in Ranges /\ auto \in BOOLEAN
        /\ height \in Heights /\ limits \in Limited /\ view \in Viewing /\ Begins(view)
        /\ Rulers!DragReturns
    BY DEF RulerInv, AxesTyped
  <1>1. ASSUME NEW S \in Rulers!Visible, Rulers!ValuesChange(S) PROVE RulerInv'
    <2>1. S \in SUBSET Values
      BY DEF Rulers!Visible
    <2>2. PICK d \in Shifts, b \in Bars :
             view' = [view EXCEPT !.realFrom = @ + d, !.realTo = @ + d, !.bar = b,
                                  !.from = IF view.realFrom + d < 0 THEN 0 ELSE view.realFrom + d]
      BY <1>1 DEF Rulers!ValuesChange
    <2>3. view' \in Viewing /\ Begins(view')
      <3>1. d \in Int /\ view.realFrom \in Int /\ view.realTo \in Int
        BY <1>0, AxesConstants DEF Viewing
      <3>2. view' = [from |-> IF view.realFrom + d < 0 THEN 0 ELSE view.realFrom + d,
                     realFrom |-> view.realFrom + d, realTo |-> view.realTo + d, bar |-> b]
        BY <1>0, <2>2 DEF Viewing
      <3>3. view.realFrom + d \in Int /\ view.realTo + d \in Int
        BY <3>1
      <3> QED
        BY <3>2, <3>3 DEF Viewing, Begins
    <2>4. seen' = S /\ UNCHANGED <<limits, height, auto, press>>
          /\ Rulers!BuildTicks(FALSE, S, shown, auto, height)
      BY <1>1 DEF Rulers!ValuesChange
    <2>5. /\ waiting' = FALSE /\ shown' \in Ranges
          /\ shown' = IF auto THEN Rulers!CreateRange(S, limits') ELSE shown
          /\ built' = shown' /\ ticks' = Rulers!CreateTicks(shown', height)
      BY <1>0, <2>1, <2>4, LayoutHolds
    <2> QED
      BY <1>0, <2>1, <2>3, <2>4, <2>5 DEF RulerInv, AxesTyped, Rulers!DragReturns
  <1>2. ASSUME NEW lo \in Mins, NEW hi \in Maxs, Rulers!IndicatorsChange([min |-> lo, max |-> hi])
        PROVE  RulerInv'
    <2>1. limits' \in Limited /\ UNCHANGED <<seen, height, auto, press, view>>
          /\ Rulers!BuildTicks(TRUE, seen, shown, auto, height)
      BY <1>2 DEF Rulers!IndicatorsChange, Limited
    <2>2. /\ waiting' = FALSE /\ shown' \in Ranges
          /\ shown' = IF auto THEN Rulers!CreateRange(seen, limits') ELSE shown
          /\ built' = shown' /\ ticks' = Rulers!CreateTicks(shown', height)
      BY <1>0, <2>1, LayoutHolds
    <2> QED
      BY <1>0, <2>1, <2>2 DEF RulerInv, AxesTyped, Rulers!DragReturns
  <1>3. ASSUME NEW h \in Heights, Rulers!ResizePane(h) PROVE RulerInv'
    <2>1. height' = h /\ UNCHANGED <<seen, limits, auto, press, view>>
          /\ Rulers!BuildTicks(TRUE, seen, shown, auto, h)
      BY <1>3 DEF Rulers!ResizePane
    <2>2. /\ waiting' = FALSE /\ shown' \in Ranges
          /\ shown' = IF auto THEN Rulers!CreateRange(seen, limits') ELSE shown
          /\ built' = shown' /\ ticks' = Rulers!CreateTicks(shown', h)
      BY <1>0, <2>1, LayoutHolds
    <2> QED
      BY <1>0, <2>1, <2>2 DEF RulerInv, AxesTyped, Rulers!DragReturns
  <1>4. ASSUME NEW force \in BOOLEAN, Rulers!FollowAgain(force) PROVE RulerInv'
    <2>1. auto' = TRUE /\ UNCHANGED <<seen, limits, height, press, view>>
          /\ Rulers!BuildTicks(force, seen, shown, TRUE, height)
      BY <1>4 DEF Rulers!FollowAgain
    <2>2. /\ waiting' = FALSE /\ shown' \in Ranges
          /\ shown' = Rulers!CreateRange(seen, limits')
          /\ built' = shown' /\ ticks' = Rulers!CreateTicks(shown', height)
      BY <1>0, <2>1, LayoutHolds
    <2> QED
      BY <1>0, <2>1, <2>2 DEF RulerInv, AxesTyped, Rulers!DragReturns
  <1>5. CASE Rulers!ResetYAxisAutoCalcTickFlag
    BY <1>0, <1>5 DEF Rulers!ResetYAxisAutoCalcTickFlag, RulerInv, AxesTyped, Rulers!DragReturns
  <1>6. ASSUME NEW on \in {"yAxis", "main"}, NEW y \in Ys, Rulers!PressAt(on, y) PROVE RulerInv'
    <2>1. /\ press' = [on |-> on, held |-> IF on = "yAxis" \/ ~auto THEN shown ELSE None,
                       y |-> y, last |-> y]
          /\ UNCHANGED <<seen, limits, height, auto, waiting, shown, built, ticks, view>>
      BY <1>6 DEF Rulers!PressAt
    <2>2. press' \in Presses /\ (press'.on = "yAxis" => press'.held \in Ranges)
      BY <1>0, <2>1 DEF Presses
    <2>3. AxesTyped'
      BY <1>0, <2>1, <2>2 DEF AxesTyped
    <2>4. Rulers!DragReturns'
      BY <1>0, <2>1 DEF Rulers!DragReturns
    <2> QED
      BY <2>1, <2>3, <2>4 DEF RulerInv
  <1>7. ASSUME NEW y \in Ys, Rulers!DragAxis(y) PROVE RulerInv'
    <2>1. /\ press # None /\ press.on = "yAxis" /\ press' = [press EXCEPT !.last = y]
          /\ auto' = FALSE /\ UNCHANGED <<seen, limits, height, view>>
          /\ Rulers!BuildTicks(FALSE, seen, Rulers!Scaled(y), FALSE, height)
      BY <1>7 DEF Rulers!DragAxis
    <2>2. press \in Presses /\ press.held \in Ranges
      BY <1>0, <2>1 DEF AxesTyped
    <2>3. Rulers!Scaled(y) \in Ranges /\ (y = press.y => Rulers!Scaled(y) = press.held)
      BY <2>1, <2>2, DraggedIs
    <2>4. /\ waiting' = FALSE /\ shown' = Rulers!Scaled(y)
          /\ built' = shown' /\ ticks' = Rulers!CreateTicks(shown', height)
      BY <1>0, <2>1, <2>3, LayoutHolds
    <2>5. /\ press' \in Presses /\ press'.on = press.on /\ press'.held = press.held
          /\ press'.y = press.y /\ press'.last = y
      BY <2>1, <2>2 DEF Presses
    <2>6. AxesTyped'
      BY <1>0, <2>1, <2>2, <2>3, <2>4, <2>5 DEF AxesTyped
    <2>7. Rulers!DragReturns'
      BY <2>3, <2>4, <2>5 DEF Rulers!DragReturns
    <2> QED
      BY <2>1, <2>4, <2>6, <2>7 DEF RulerInv
  <1>8. ASSUME NEW y \in Ys, Rulers!DragMain(y) PROVE RulerInv'
    <2> DEFINE r == IF press.held # None /\ ~auto THEN Rulers!Scrolled(y) ELSE shown
    <2>1. /\ press # None /\ press.on = "main" /\ press' = [press EXCEPT !.last = y]
          /\ UNCHANGED <<seen, limits, height, auto, view>>
          /\ Rulers!BuildTicks(FALSE, seen, r, auto, height)
      BY <1>8 DEF Rulers!DragMain
    <2>2. press \in Presses
      BY <1>0, <2>1 DEF AxesTyped
    <2>3. r \in Ranges /\ (press.held # None /\ ~auto /\ y = press.y => r = press.held)
      <3>1. CASE press.held # None /\ ~auto
        <4>1. press.held \in Ranges
          BY <2>2, <3>1 DEF Presses
        <4> QED
          BY <2>1, <3>1, <4>1, DraggedIs
      <3>2. CASE ~(press.held # None /\ ~auto)
        BY <1>0, <3>2
      <3> QED
        BY <3>1, <3>2
    <2> HIDE DEF r
    <2>4. /\ waiting' = FALSE /\ shown' \in Ranges
          /\ shown' = IF auto THEN Rulers!CreateRange(seen, limits') ELSE r
          /\ built' = shown' /\ ticks' = Rulers!CreateTicks(shown', height)
      BY <1>0, <2>1, <2>3, LayoutHolds
    <2>5. /\ press' \in Presses /\ press'.on = press.on /\ press'.held = press.held
          /\ press'.y = press.y /\ press'.last = y
      BY <2>1, <2>2 DEF Presses
    <2>6. AxesTyped'
      BY <1>0, <2>1, <2>4, <2>5 DEF AxesTyped
    <2>7. Rulers!DragReturns'
      BY <2>1, <2>3, <2>4, <2>5 DEF Rulers!DragReturns
    <2> QED
      BY <2>1, <2>4, <2>6, <2>7 DEF RulerInv
  <1>9. CASE Rulers!Release
    <2>1. /\ press' = None
          /\ UNCHANGED <<seen, limits, height, auto, waiting, shown, built, ticks, view>>
      BY <1>9 DEF Rulers!Release
    <2>2. AxesTyped'
      BY <1>0, <2>1 DEF AxesTyped
    <2>3. Rulers!DragReturns'
      BY <2>1 DEF Rulers!DragReturns
    <2> QED
      BY <2>1, <2>2, <2>3 DEF RulerInv
  <1>10. CASE UNCHANGED Rulers!vars
    BY <1>10 DEF Rulers!vars, RulerInv, AxesTyped, Rulers!DragReturns
  <1> QED
    BY <1>1, <1>2, <1>3, <1>4, <1>5, <1>6, <1>7, <1>8, <1>9, <1>10 DEF Rulers!Next

\* The last layout shows what the axes promise.
LEMMA RulersShow == RulerInv => Rulers!AxesSound
  <1> SUFFICES ASSUME RulerInv PROVE Rulers!AxesSound
    OBVIOUS
  <1>0. /\ seen \in SUBSET Values /\ shown \in Ranges /\ limits \in Limited
        /\ height \in Nat /\ height >= 7
    BY AxesConstants DEF RulerInv, AxesTyped
  <1>1. Rulers!ValuesOnPane
    <2> SUFFICES ASSUME auto, ~waiting, NEW v \in seen
                 PROVE  /\ Rulers!Pixel(v * Parts, shown, height) > 0
                        /\ Rulers!Pixel(v * Parts, shown, height) < height
      BY DEF Rulers!ValuesOnPane
    <2>1. shown = Rulers!CreateRange(seen, limits)
      BY DEF RulerInv
    <2>2. PICK a \in Nat \ {0} : /\ shown.to - shown.from = 13 * a
                                 /\ v * Parts \in Int
                                 /\ 2 * a <= shown.to - v * Parts
                                 /\ shown.to - v * Parts <= 12 * a
      BY <1>0, <2>1, RangeHolds
    <2> QED
      BY <1>0, <2>2, ValuesShown
  <1>2. Rulers!LabelsInPlace
    <2>1. Placed(ticks, shown, height)
      BY <1>0, TicksPlaced DEF RulerInv
    <2> QED
      BY <2>1 DEF Placed, Rulers!LabelsInPlace
  <1>3. Rulers!LabelsScroll
    BY BarsKeepLabels DEF RulerInv, AxesTyped
  <1> QED
    BY <1>1, <1>2, <1>3 DEF RulerInv, Rulers!AxesSound

Ruled == part = "rulers" => RulerInv

\* The axes show the values they stand for, however they were dragged, for any
\* values, limits, heights, presses and number of operations: values in view
\* are on the pane, labels stand at their values and clear of each other, a drag
\* that comes back restores the range, a scrolled bar keeps its label.
THEOREM AxesAreSound == Spec => []AxesSound
  <1>1. Init => Ruled
    BY RulersBegin DEF Init, Ruled
  <1>2. Ruled /\ [Next]_vars => Ruled'
    <2>1. ASSUME Ruled, [Next]_vars, part' = "rulers"
          PROVE  part = "rulers" /\ [Rulers!Next]_(Rulers!vars)
      BY <2>1 DEF Next, InHand, InDraw, InScale, InRulers, InLine, InShape, InTips, vars, rulerVars, Rulers!vars
    <2> QED
      BY <2>1, RulersStep DEF Ruled
  <1>3. Ruled => AxesSound
    BY RulersShow DEF Ruled, AxesSound
  <1> QED
    BY <1>1, <1>2, <1>3, PTL DEF Spec

-----------------------------------------------------------------------------
(* The times of the bars (Timeline).                                       *)

\* Indexes name the bars they are of.
LineInv ==
    /\ period \in [type : Line!Types, span : Nat \ {0}]
    /\ times \in Seq(Int)
    /\ \A i, j \in 1..Len(times) : i < j => times[i] < times[j]

LEMMA LineBegins == Line!Init => LineInv
  <1> SUFFICES ASSUME Line!Init PROVE LineInv
    OBVIOUS
  <1>1. Spans \subseteq Nat \ {0}
    BY ConstantsAssumption DEF Line!BarsAssumption
  <1>2. period \in [type : Line!Types, span : Nat \ {0}]
    BY <1>1 DEF Line!Init
  <1>3. times \in Seq(Int) /\ Len(times) = 0
    BY DEF Line!Init
  <1> QED
    BY <1>2, <1>3 DEF LineInv

LEMMA LineStep == LineInv /\ [Line!Next]_(Line!vars) => LineInv'
  <1> SUFFICES ASSUME LineInv, [Line!Next]_(Line!vars) PROVE LineInv'
    OBVIOUS
  <1>1. CASE Line!AddBar
    <2>1. PICK t \in IF times = <<>> THEN FirstDays ELSE {times[Len(times)] + g : g \in Gaps} :
             times' = Append(times, t) /\ period' = period
      BY <1>1 DEF Line!AddBar
    <2> DEFINE n == Len(times)
    <2>2. times \in Seq(Int) /\ n \in Nat /\ \A i \in 1..n : times[i] \in Int
      BY DEF LineInv
    <2>3. t \in Int /\ (n > 0 => times[n] < t)
      <3>1. CASE n = 0
        BY <2>1, <2>2, <3>1, ConstantsAssumption DEF Line!BarsAssumption
      <3>2. CASE n > 0
        <4>1. times # <<>> /\ times[n] \in Int
          BY <2>2, <3>2
        <4>2. PICK g \in Gaps : t = times[n] + g
          BY <2>1, <4>1
        <4>3. g \in Nat \ {0}
          BY ConstantsAssumption DEF Line!BarsAssumption
        <4> QED
          BY <4>1, <4>2, <4>3
      <3> QED
        BY <2>2, <3>1, <3>2
    <2>4. /\ times' \in Seq(Int) /\ Len(times') = n + 1
          /\ \A i \in 1..n : times'[i] = times[i]
          /\ times'[n + 1] = t
      BY <2>1, <2>2, <2>3
    <2>5. ASSUME NEW i \in 1..n PROVE times[i] < t
      <3>1. times[i] \in Int /\ times[n] \in Int /\ (i = n \/ times[i] < times[n])
        BY <2>2, <2>5 DEF LineInv
      <3> QED
        BY <2>3, <2>5, <3>1
    <2>6. ASSUME NEW i \in 1..(n + 1), NEW j \in 1..(n + 1), i < j
          PROVE  times'[i] < times'[j]
      <3>1. CASE j = n + 1
        <4>1. i \in 1..n
          BY <2>2, <2>6, <3>1
        <4> QED
          BY <2>4, <2>5, <3>1, <4>1
      <3>2. CASE j # n + 1
        <4>1. i \in 1..n /\ j \in 1..n
          BY <2>2, <2>6, <3>2
        <4>2. times[i] < times[j]
          BY <2>6, <4>1 DEF LineInv
        <4> QED
          BY <2>4, <4>1, <4>2
      <3> QED
        BY <3>1, <3>2
    <2>7. period' \in [type : Line!Types, span : Nat \ {0}]
      BY <2>1 DEF LineInv
    <2> QED
      BY <2>4, <2>6, <2>7 DEF LineInv
  <1>2. CASE UNCHANGED Line!vars
    BY <1>2 DEF Line!vars, LineInv
  <1> QED
    BY <1>1, <1>2 DEF Line!Next

-----------------------------------------------------------------------------
(* The calendar.                                                           *)

LEMMA CycleIs ==
    /\ Months \in Nat \ {0} /\ Years \in Nat \ {0} /\ Days \in Nat \ {0}
    /\ Line!Cycle \in Nat \ {0} /\ Line!Cycle = Years * Months
    /\ \A k \in 1..Line!Cycle : Starts[k] \in 0..(Days - 1)
    /\ Starts[1] = 0
    /\ \A k \in 2..Line!Cycle : Starts[k - 1] < Starts[k]
  BY ConstantsAssumption DEF Line!CalendarAssumption, Line!Cycle

\* The month that is r months into a cycle.
LEMMA InCycle ==
    ASSUME NEW m \in Int, NEW q \in Int, NEW r \in 0..(Line!Cycle - 1), m = Line!Cycle * q + r
    PROVE  Line!FirstDay(m) = q * Days + Starts[r + 1] /\ Line!FirstDay(m) \in Int
  <1>1. Line!Cycle \in Nat \ {0} /\ Days \in Int
    BY CycleIs
  <1>2. m \div Line!Cycle = q /\ m % Line!Cycle = r
    BY <1>1, QuotientIs
  <1>3. Line!FirstDay(m) = q * Days + Starts[r + 1]
    BY <1>2 DEF Line!FirstDay
  <1>4. Starts[r + 1] \in Int
    <2>1. r + 1 \in 1..Line!Cycle
      BY <1>1
    <2> QED
      BY <2>1, CycleIs
  <1>5. q * Days \in Int
    BY <1>1
  <1> QED
    BY <1>3, <1>4, <1>5

\* The month after one: in the same cycle, or the first of the next.
LEMMA NextInCycle ==
    ASSUME NEW m \in Int, NEW q \in Int, NEW r \in 0..(Line!Cycle - 1), m = Line!Cycle * q + r
    PROVE  Line!FirstDay(m + 1) = IF r + 1 < Line!Cycle THEN q * Days + Starts[r + 2]
                                              ELSE q * Days + Days
  <1>0. Line!Cycle \in Nat \ {0} /\ Days \in Int /\ m + 1 \in Int
    BY CycleIs
  <1> DEFINE n == m + 1
  <1>1. CASE r + 1 < Line!Cycle
    <2> DEFINE s == r + 1
    <2>1. n \in Int /\ s \in 0..(Line!Cycle - 1) /\ n = Line!Cycle * q + s /\ s + 1 = r + 2
      BY <1>0, <1>1
    <2> HIDE DEF n, s
    <2>2. Line!FirstDay(n) = q * Days + Starts[s + 1]
      BY <2>1, InCycle
    <2> QED
      BY <1>1, <2>1, <2>2 DEF n
  <1>2. CASE ~(r + 1 < Line!Cycle)
    <2> DEFINE p == q + 1
               z == 0
    <2>1. p \in Int /\ z \in 0..(Line!Cycle - 1)
      BY <1>0
    <2>2. n \in Int /\ n = Line!Cycle * p + z
      BY <1>0, <1>2
    <2>3. p * Days = q * Days + Days /\ p * Days \in Int
      BY <1>0
    <2>4. z + 1 = 1
      OBVIOUS
    <2> HIDE DEF n, p, z
    <2>5. Line!FirstDay(n) = p * Days + Starts[z + 1]
      BY <2>1, <2>2, InCycle
    <2>6. Starts[z + 1] = 0
      BY <2>4, CycleIs
    <2> QED
      BY <1>2, <2>3, <2>5, <2>6 DEF n
  <1> QED
    BY <1>1, <1>2

\* Every month has a day, and the next one begins after its last.
LEMMA MonthsFollow ==
    ASSUME NEW m \in Int
    PROVE  Line!FirstDay(m) \in Int /\ Line!FirstDay(m + 1) \in Int /\ Line!FirstDay(m) < Line!FirstDay(m + 1)
  <1> DEFINE q == m \div Line!Cycle
             r == m % Line!Cycle
  <1>1. q \in Int /\ r \in 0..(Line!Cycle - 1) /\ m = Line!Cycle * q + r
    BY CycleIs, Division
  <1> HIDE DEF q, r
  <1>2. Line!FirstDay(m) = q * Days + Starts[r + 1] /\ Line!FirstDay(m) \in Int
    BY <1>1, InCycle
  <1>3. Line!FirstDay(m + 1) = IF r + 1 < Line!Cycle THEN q * Days + Starts[r + 2] ELSE q * Days + Days
    BY <1>1, NextInCycle
  <1>4. Starts[r + 1] \in 0..(Days - 1) /\ q * Days \in Int /\ Days \in Nat
    <2>1. r + 1 \in 1..Line!Cycle
      BY <1>1, CycleIs
    <2> QED
      BY <1>1, <2>1, CycleIs
  <1>5. r + 1 < Line!Cycle => Starts[r + 2] \in Int /\ Starts[r + 1] < Starts[r + 2]
    <2> SUFFICES ASSUME r + 1 < Line!Cycle PROVE Starts[r + 2] \in Int /\ Starts[r + 1] < Starts[r + 2]
      OBVIOUS
    <2>1. r + 2 \in 2..Line!Cycle /\ r + 2 \in 1..Line!Cycle /\ (r + 2) - 1 = r + 1
      BY <1>1, CycleIs
    <2> QED
      BY <2>1, CycleIs
  <1> QED
    BY <1>2, <1>3, <1>4, <1>5

\* So a later month begins later.
LEMMA MonthsRise ==
    ASSUME NEW m \in Int, NEW n \in Int, m < n
    PROVE  Line!FirstDay(m + 1) <= Line!FirstDay(n)
  <1> DEFINE S == {k \in Nat : Line!FirstDay(m + 1) <= Line!FirstDay(m + 1 + k)}
  <1>1. 0 \in S
    BY MonthsFollow
  <1>2. ASSUME NEW k \in Nat, k \in S PROVE k + 1 \in S
    <2>1. m + 1 + k \in Int /\ (m + 1 + k) + 1 = m + 1 + (k + 1) /\ m + 1 \in Int
      OBVIOUS
    <2>2. Line!FirstDay(m + 1 + k) < Line!FirstDay(m + 1 + (k + 1))
          /\ Line!FirstDay(m + 1 + k) \in Int /\ Line!FirstDay(m + 1 + (k + 1)) \in Int
          /\ Line!FirstDay(m + 1) \in Int
      BY <2>1, MonthsFollow
    <2> QED
      BY <1>2, <2>2
  <1>3. n - (m + 1) \in Nat /\ m + 1 + (n - (m + 1)) = n
    OBVIOUS
  <1>4. Nat \subseteq S
    <2> HIDE DEF S
    <2> QED
      BY <1>1, <1>2, SetInduction
  <1> QED
    BY <1>3, <1>4

\* A day is in the month it is said to be in.
LEMMA MonthHolds ==
    ASSUME NEW t \in Int
    PROVE  /\ Line!MonthOf(t) \in Int
           /\ Line!FirstDay(Line!MonthOf(t)) <= t /\ t < Line!FirstDay(Line!MonthOf(t) + 1)
  <1> DEFINE q == t \div Days
             d == t % Days
             k == CHOOSE k \in Line!Begun(d) : \A n \in Line!Begun(d) : n <= k
             r == k - 1
             m == q * Line!Cycle + k - 1
  <1>1. q \in Int /\ d \in 0..(Days - 1) /\ t = Days * q + d
    BY CycleIs, Division
  <1>2. k \in Line!Begun(d) /\ \A n \in Line!Begun(d) : n <= k
    <2> HIDE DEF d, q
    <2>1. 1 \in 1..Line!Cycle /\ Starts[1] <= d
      BY <1>1, CycleIs
    <2>2. 1 \in Line!Begun(d) /\ Line!Begun(d) \in SUBSET (1..Line!Cycle)
      BY <2>1 DEF Line!Begun
    <2>3. \E n \in Line!Begun(d) : \A l \in Line!Begun(d) : l <= n
      BY <2>2, CycleIs, HasGreatest
    <2> QED
      BY <2>3
  <1>3. Line!MonthOf(t) = m
    BY DEF Line!MonthOf
  <1> HIDE DEF q, d, k
  <1>4. k \in 1..Line!Cycle /\ Starts[k] <= d /\ (k < Line!Cycle => d < Starts[k + 1])
    <2>1. k \in 1..Line!Cycle /\ Starts[k] <= d
      BY <1>2 DEF Line!Begun
    <2>2. ASSUME k < Line!Cycle PROVE d < Starts[k + 1]
      <3>1. k + 1 \in 1..Line!Cycle /\ ~(k + 1 <= k)
        BY <2>1, <2>2, CycleIs
      <3>2. k + 1 \notin Line!Begun(d)
        BY <1>2, <3>1
      <3> QED
        BY <1>1, <3>1, <3>2, CycleIs DEF Line!Begun
    <2> QED
      BY <2>1, <2>2
  <1>5. m \in Int /\ r \in 0..(Line!Cycle - 1) /\ m = Line!Cycle * q + r /\ r + 1 = k /\ r + 2 = k + 1
    BY <1>1, <1>4, CycleIs
  <1> HIDE DEF m, r
  <1>6. Line!FirstDay(m) = q * Days + Starts[k]
    BY <1>1, <1>5, InCycle
  <1>7. Line!FirstDay(m + 1) = IF k < Line!Cycle THEN q * Days + Starts[k + 1] ELSE q * Days + Days
    BY <1>1, <1>5, NextInCycle
  <1>8. Starts[k] \in Int /\ (k < Line!Cycle => Starts[k + 1] \in Int) /\ q * Days \in Int
        /\ Days * q = q * Days /\ Days \in Nat
    <2>1. k < Line!Cycle => k + 1 \in 1..Line!Cycle
      BY <1>4, CycleIs
    <2> QED
      BY <1>1, <1>4, <2>1, CycleIs
  <1> QED
    BY <1>1, <1>3, <1>4, <1>5, <1>6, <1>7, <1>8

\* And in no other.
LEMMA MonthIs ==
    ASSUME NEW t \in Int, NEW m \in Int, Line!FirstDay(m) <= t, t < Line!FirstDay(m + 1)
    PROVE  Line!MonthOf(t) = m
  <1> DEFINE n == Line!MonthOf(t)
  <1>1. n \in Int /\ Line!FirstDay(n) <= t /\ t < Line!FirstDay(n + 1)
    BY MonthHolds
  <1> HIDE DEF n
  <1>2. /\ Line!FirstDay(n) \in Int /\ Line!FirstDay(n + 1) \in Int
        /\ Line!FirstDay(m) \in Int /\ Line!FirstDay(m + 1) \in Int
    BY <1>1, MonthsFollow
  <1>3. ~(m < n)
    <2>1. m < n => Line!FirstDay(m + 1) <= Line!FirstDay(n)
      BY <1>1, MonthsRise
    <2> QED
      BY <1>1, <1>2, <2>1
  <1>4. ~(n < m)
    <2>1. n < m => Line!FirstDay(n + 1) <= Line!FirstDay(m)
      BY <1>1, MonthsRise
    <2> QED
      BY <1>1, <1>2, <2>1
  <1> QED
    BY <1>1, <1>3, <1>4 DEF n

\* Its number there is one of the month's.
LEMMA DayHolds ==
    ASSUME NEW t \in Int
    PROVE  /\ Line!DayOf(t) \in 1..Line!LastDay(Line!MonthOf(t)) /\ Line!LastDay(Line!MonthOf(t)) \in Nat
           /\ t = Line!FirstDay(Line!MonthOf(t)) + Line!DayOf(t) - 1
  <1> DEFINE n == Line!MonthOf(t)
  <1>1. n \in Int /\ Line!FirstDay(n) <= t /\ t < Line!FirstDay(n + 1)
    BY MonthHolds
  <1>2. Line!FirstDay(n) \in Int /\ Line!FirstDay(n + 1) \in Int
    <2> HIDE DEF n
    <2> QED
      BY <1>1, MonthsFollow
  <1> QED
    BY <1>1, <1>2 DEF Line!DayOf, Line!LastDay

\* A cycle later, or several, months begin as they do in this one.
LEMMA CyclesLater ==
    ASSUME NEW q \in Int, NEW n \in Int
    PROVE  Line!FirstDay(Line!Cycle * q + n) = q * Days + Line!FirstDay(n)
  <1> DEFINE p == n \div Line!Cycle
             r == n % Line!Cycle
             m == Line!Cycle * q + n
             s == q + p
  <1>1. p \in Int /\ r \in 0..(Line!Cycle - 1) /\ n = Line!Cycle * p + r
    BY CycleIs, Division
  <1> HIDE DEF p, r
  <1>2. m \in Int /\ s \in Int /\ m = Line!Cycle * s + r
    <2>1. Line!Cycle * s = Line!Cycle * q + Line!Cycle * p /\ Line!Cycle * q \in Int /\ Line!Cycle * p \in Int
      BY <1>1, CycleIs
    <2> QED
      BY <1>1, <2>1
  <1>3. s * Days = q * Days + p * Days /\ q * Days \in Int /\ p * Days \in Int
    BY <1>1, CycleIs
  <1> HIDE DEF m, s
  <1>4. Line!FirstDay(m) = s * Days + Starts[r + 1]
    BY <1>1, <1>2, InCycle
  <1>5. Line!FirstDay(n) = p * Days + Starts[r + 1]
    BY <1>1, InCycle
  <1>6. Starts[r + 1] \in Int
    <2>1. r + 1 \in 1..Line!Cycle
      BY <1>1, CycleIs
    <2> QED
      BY <2>1, CycleIs
  <1> QED
    BY <1>3, <1>4, <1>5, <1>6 DEF m

\* Months that are whole years apart, or cycles, are the same in their year.
LEMMA YearsApart ==
    ASSUME NEW m \in Int, NEW y \in Int
    PROVE  /\ (m + y * Months) % Months = m % Months
           /\ Line!YearOf(m + y * Months) = Line!YearOf(m) + y
           /\ Line!YearOf(m) \in Int
           /\ Line!YearOf(m) * Months <= m /\ m < (Line!YearOf(m) + 1) * Months
  <1> DEFINE q == m \div Months
             r == m % Months
             n == m + y * Months
             s == q + y
  <1>1. q \in Int /\ r \in 0..(Months - 1) /\ m = Months * q + r /\ Months \in Nat \ {0}
    BY CycleIs, Division
  <1>2. q = Line!YearOf(m)
    BY DEF Line!YearOf
  <1> HIDE DEF q, r
  <1>3. /\ Months * q \in Int /\ Months * q = q * Months /\ (q + 1) * Months = q * Months + Months
        /\ y * Months \in Int
        /\ Months * s = q * Months + y * Months
    BY <1>1
  <1>4. n \in Int /\ s \in Int /\ n = Months * s + r
    BY <1>1, <1>3
  <1> HIDE DEF n, s
  <1>5. n \div Months = s /\ n % Months = r
    BY <1>1, <1>4, QuotientIs
  <1>6. Line!YearOf(n) = s
    BY <1>5 DEF Line!YearOf
  <1> QED
    BY <1>1, <1>2, <1>3, <1>5, <1>6 DEF n, s, r

\* The place of a month in its cycle.
LEMMA CyclePlace ==
    ASSUME NEW m \in Int
    PROVE  \E q \in Int, r \in 0..(Line!Cycle - 1) :
              /\ m = Line!Cycle * q + r
              /\ m % Months = r % Months
              /\ Line!YearOf(m) = Line!YearOf(r) + q * Years /\ Line!YearOf(r) \in Int
  <1> DEFINE q == m \div Line!Cycle
             r == m % Line!Cycle
             y == q * Years
  <1>1. q \in Int /\ r \in 0..(Line!Cycle - 1) /\ m = Line!Cycle * q + r
    BY CycleIs, Division
  <1> HIDE DEF q, r
  <1>2. r \in Int /\ y \in Int /\ r + y * Months = m
    <2>1. Line!Cycle * q = (Years * Months) * q /\ (Years * Months) * q = (q * Years) * Months
          /\ (q * Years) * Months \in Int /\ q * Years \in Int
      BY <1>1, CycleIs
    <2> QED
      BY <1>1, <2>1
  <1> HIDE DEF y
  <1>3. (r + y * Months) % Months = r % Months /\ Line!YearOf(r + y * Months) = Line!YearOf(r) + y
        /\ Line!YearOf(r) \in Int
    BY <1>2, YearsApart
  <1>4. m % Months = r % Months /\ Line!YearOf(m) = Line!YearOf(r) + y
    BY <1>2, <1>3
  <1> QED
    BY <1>1, <1>3, <1>4 DEF y

-----------------------------------------------------------------------------
(* Periods away and back.                                                  *)

\* A month so many months away.
LEMMA MonthBack ==
    ASSUME NEW t \in Int, NEW k \in Int
    PROVE  /\ Line!MonthsLater(t, k) \in Int
           /\ Line!MonthOf(Line!MonthsLater(t, k)) = Line!MonthOf(t) + k
  <1> DEFINE m == Line!MonthOf(t) + k
             x == Line!MonthsLater(t, k)
  <1>1. m \in Int
    BY MonthHolds
  <1>2. /\ Line!FirstDay(m) \in Int /\ Line!FirstDay(m + 1) \in Int /\ Line!FirstDay(m) < Line!FirstDay(m + 1)
    <2> HIDE DEF m
    <2> QED
      BY <1>1, MonthsFollow
  <1>3. Line!DayOf(t) \in Nat /\ 1 <= Line!DayOf(t)
    BY DayHolds
  <1>4. x = Line!FirstDay(m) + (IF Line!DayOf(t) < Line!LastDay(m) THEN Line!DayOf(t) ELSE Line!LastDay(m)) - 1
    BY DEF Line!MonthsLater
  <1>5. x \in Int /\ Line!FirstDay(m) <= x /\ x < Line!FirstDay(m + 1)
    <2> HIDE DEF x, m
    <2> QED
      BY <1>2, <1>3, <1>4 DEF Line!LastDay
  <1>6. Line!MonthOf(x) = m
    <2> HIDE DEF x, m
    <2> QED
      BY <1>1, <1>5, MonthIs
  <1> QED
    BY <1>5, <1>6

\* A day that month does not have in another year is still one of that year.
LEMMA YearKeepsDays ==
    ASSUME NEW m \in Int, NEW n \in Int, m % Months = n % Months
    PROVE  Line!FirstDay(n) + Line!LastDay(m) <= Line!FirstDay((Line!YearOf(n) + 1) * Months)
  <1>1. PICK p \in Int, a \in 0..(Line!Cycle - 1) :
           m = Line!Cycle * p + a /\ m % Months = a % Months
    BY CyclePlace
  <1>2. PICK q \in Int, b \in 0..(Line!Cycle - 1) :
           n = Line!Cycle * q + b /\ n % Months = b % Months
           /\ Line!YearOf(n) = Line!YearOf(b) + q * Years /\ Line!YearOf(b) \in Int
    BY CyclePlace
  <1> DEFINE e == (Line!YearOf(b) + 1) * Months
             a1 == a + 1
  <1>3. Line!FirstDay(b) + Line!LastDay(a) <= Line!FirstDay(e)
    BY <1>1, <1>2, ConstantsAssumption DEF Line!CalendarAssumption
  <1>4. /\ a \in Int /\ b \in Int /\ e \in Int /\ a1 \in Int
        /\ (Line!YearOf(n) + 1) * Months = Line!Cycle * q + e
        /\ m + 1 = Line!Cycle * p + a1
    <2>1. /\ (Line!YearOf(b) + q * Years + 1) * Months = (q * Years) * Months + (Line!YearOf(b) + 1) * Months
          /\ (q * Years) * Months = (Years * Months) * q
          /\ (Line!YearOf(b) + 1) * Months \in Int
      BY <1>2, CycleIs
    <2> QED
      BY <1>1, <1>2, <2>1, CycleIs
  <1> HIDE DEF e
  <1>5. /\ Line!FirstDay(Line!Cycle * q + e) = q * Days + Line!FirstDay(e)
        /\ Line!FirstDay(n) = q * Days + Line!FirstDay(b)
        /\ Line!FirstDay(m) = p * Days + Line!FirstDay(a)
    BY <1>1, <1>2, <1>4, CyclesLater
  <1>6. Line!FirstDay(m + 1) = p * Days + Line!FirstDay(a + 1)
    <2> HIDE DEF a1
    <2>1. Line!FirstDay(Line!Cycle * p + a1) = p * Days + Line!FirstDay(a1)
      BY <1>4, CyclesLater
    <2> QED
      BY <2>1, <1>4 DEF a1
  <1>7. /\ Line!FirstDay(e) \in Int /\ Line!FirstDay(b) \in Int /\ Line!FirstDay(a) \in Int
        /\ Line!FirstDay(a + 1) \in Int /\ p * Days \in Int /\ q * Days \in Int
    BY <1>4, MonthsFollow, CycleIs
  <1>8. Line!LastDay(m) = Line!LastDay(a)
    BY <1>5, <1>6, <1>7 DEF Line!LastDay
  <1>9. Line!LastDay(a) \in Int
    BY <1>7 DEF Line!LastDay
  <1> QED
    BY <1>3, <1>4, <1>5, <1>7, <1>8, <1>9

\* A year so many years away.
LEMMA YearBack ==
    ASSUME NEW t \in Int, NEW y \in Int
    PROVE  /\ Line!YearsLater(t, y) \in Int
           /\ Line!YearOf(Line!MonthOf(Line!YearsLater(t, y))) = Line!YearOf(Line!MonthOf(t)) + y
  <1> DEFINE m == Line!MonthOf(t)
             n == m + y * Months
             x == Line!YearsLater(t, y)
             e == (Line!YearOf(n) + 1) * Months
             o == Line!MonthOf(x)
  <1>1. m \in Int /\ n \in Int
    BY MonthHolds, CycleIs
  <1>2. Line!DayOf(t) \in Nat /\ 1 <= Line!DayOf(t) /\ Line!DayOf(t) <= Line!LastDay(m) /\ Line!LastDay(m) \in Nat
    BY DayHolds
  <1>3. x = Line!FirstDay(n) + Line!DayOf(t) - 1
    BY DEF Line!YearsLater
  <1> HIDE DEF m, x
  <1>4. n % Months = m % Months /\ Line!YearOf(n) = Line!YearOf(m) + y
    BY <1>1, YearsApart
  <1>5. Line!YearOf(n) \in Int /\ Line!YearOf(n) * Months <= n /\ n < (Line!YearOf(n) + 1) * Months
        /\ Line!YearOf(m) \in Int
    <2> HIDE DEF n
    <2> QED
      BY <1>1, YearsApart
  <1> HIDE DEF n
  <1>6. e \in Int
    BY <1>5, CycleIs
  <1>7. Line!FirstDay(n) + Line!LastDay(m) <= Line!FirstDay(e)
    BY <1>1, <1>4, YearKeepsDays
  <1>8. Line!FirstDay(n) \in Int /\ Line!FirstDay(e) \in Int
    <2> HIDE DEF e
    <2> QED
      BY <1>1, <1>6, MonthsFollow
  <1>9. x \in Int /\ Line!FirstDay(n) <= x /\ x < Line!FirstDay(e)
    BY <1>2, <1>3, <1>7, <1>8
  <1>10. o \in Int /\ Line!FirstDay(o) <= x /\ x < Line!FirstDay(o + 1)
         /\ Line!FirstDay(o) \in Int /\ Line!FirstDay(o + 1) \in Int
    <2>1. o \in Int /\ Line!FirstDay(o) <= x /\ x < Line!FirstDay(o + 1)
      BY <1>9, MonthHolds
    <2> HIDE DEF o
    <2> QED
      BY <2>1, MonthsFollow
  <1> HIDE DEF e, o
  <1>11. n <= o /\ o < e
    <2>1. ~(o < n)
      <3>1. o < n => Line!FirstDay(o + 1) <= Line!FirstDay(n)
        BY <1>1, <1>10, MonthsRise
      <3> QED
        BY <1>8, <1>9, <1>10, <3>1
    <2>2. ~(e < o) /\ e # o
      <3>1. e < o => Line!FirstDay(e + 1) <= Line!FirstDay(o)
        BY <1>6, <1>10, MonthsRise
      <3>2. Line!FirstDay(e) < Line!FirstDay(e + 1) /\ Line!FirstDay(e + 1) \in Int
        BY <1>6, MonthsFollow
      <3> QED
        BY <1>8, <1>9, <1>10, <3>1, <3>2
    <2> QED
      BY <1>1, <1>6, <1>10, <2>1, <2>2
  <1>12. Line!YearOf(o) = Line!YearOf(n)
    <2> DEFINE q == Line!YearOf(n)
               r == o - Months * q
    <2>1. q * Months <= o /\ o < (q + 1) * Months /\ Months \in Nat \ {0} /\ q \in Int
      BY <1>1, <1>5, <1>10, <1>11, CycleIs DEF e
    <2> HIDE DEF q
    <2>2. (q + 1) * Months = q * Months + Months /\ q * Months \in Int /\ Months * q = q * Months
      BY <2>1
    <2>3. r \in 0..(Months - 1) /\ o = Months * q + r
      BY <1>10, <2>1, <2>2
    <2> HIDE DEF r
    <2>4. o \div Months = q
      BY <1>10, <2>1, <2>3, QuotientIs
    <2> QED
      BY <2>4 DEF Line!YearOf, q
  <1> QED
    BY <1>4, <1>9, <1>12 DEF x, m, o

\* What is in a later month is later, and so is what is in a later year.
LEMMA LaterMonth ==
    ASSUME NEW t \in Int, NEW x \in Int, Line!MonthOf(t) < Line!MonthOf(x)
    PROVE  t < x
  <1> DEFINE m == Line!MonthOf(t)
             n == Line!MonthOf(x)
  <1>1. m \in Int /\ n \in Int /\ t < Line!FirstDay(m + 1) /\ Line!FirstDay(n) <= x
    BY MonthHolds
  <1>2. m < n
    OBVIOUS
  <1> HIDE DEF m, n
  <1>3. Line!FirstDay(m + 1) <= Line!FirstDay(n)
    BY <1>1, <1>2, MonthsRise
  <1>4. Line!FirstDay(m + 1) \in Int /\ Line!FirstDay(n) \in Int
    BY <1>1, MonthsFollow
  <1> QED
    BY <1>1, <1>3, <1>4

LEMMA LaterYear ==
    ASSUME NEW m \in Int, NEW n \in Int, Line!YearOf(m) < Line!YearOf(n)
    PROVE  m < n
  <1>1. /\ Line!YearOf(m) \in Int /\ m < (Line!YearOf(m) + 1) * Months
        /\ Line!YearOf(n) \in Int /\ Line!YearOf(n) * Months <= n
    BY YearsApart
  <1>2. Line!YearOf(m) + 1 <= Line!YearOf(n) /\ Line!YearOf(m) + 1 \in Int /\ Months \in Nat
    BY <1>1, CycleIs
  <1>3. (Line!YearOf(m) + 1) * Months <= Line!YearOf(n) * Months
    BY <1>1, <1>2, TimesMonotone
  <1>4. (Line!YearOf(m) + 1) * Months \in Int /\ Line!YearOf(n) * Months \in Int
    BY <1>1, CycleIs
  <1> QED
    BY <1>1, <1>3, <1>4

LEMMA ManyOf ==
    ASSUME NEW s \in Nat \ {0}, NEW k \in Int
    PROVE  /\ s * k \in Int /\ (s * k) \div s = k
           /\ (k > 0 => s * k > 0) /\ (k < 0 => s * k < 0)
  <1> DEFINE a == s * k
  <1>1. a \in Int /\ 0 \in 0..(s - 1) /\ a = s * k + 0
    OBVIOUS
  <1>2. (k > 0 => a > 0) /\ (k < 0 => a < 0)
    OBVIOUS
  <1> HIDE DEF a
  <1>3. a \div s = k
    BY <1>1, QuotientIs
  <1> QED
    BY <1>1, <1>2, <1>3 DEF a

\* So many periods away it is so many periods away, on that side.
LEMMA AwayAndBack ==
    ASSUME period \in [type : Line!Types, span : Nat \ {0}], period.type # "none",
           NEW t \in Int, NEW k \in Int
    PROVE  /\ Line!Away(t, k) \in Int
           /\ Line!UnitsBetween(Line!Away(t, k), t) = k
           /\ (k > 0 => t < Line!Away(t, k)) /\ (k < 0 => Line!Away(t, k) < t)
  <1> DEFINE s == period.span
             d == s * k
             x == Line!Away(t, k)
  <1>1. s \in Nat \ {0}
    OBVIOUS
  <1>2. d \in Int /\ d \div s = k /\ (k > 0 => d > 0) /\ (k < 0 => d < 0)
    <2> HIDE DEF s
    <2> QED
      BY <1>1, ManyOf
  <1>3. CASE period.type = "month"
    <2>1. x = Line!MonthsLater(t, d)
      BY <1>3 DEF Line!Away
    <2>2. Line!UnitsBetween(x, t) = (Line!MonthOf(x) - Line!MonthOf(t)) \div s
      BY <1>3 DEF Line!UnitsBetween
    <2> HIDE DEF x, d, s
    <2>3. x \in Int /\ Line!MonthOf(x) = Line!MonthOf(t) + d /\ Line!MonthOf(t) \in Int
      BY <1>2, <2>1, MonthBack, MonthHolds
    <2>4. Line!MonthOf(x) - Line!MonthOf(t) = d
      BY <1>2, <2>3
    <2>5. (k > 0 => t < x) /\ (k < 0 => x < t)
      BY <1>2, <2>3, LaterMonth
    <2> QED
      BY <1>2, <2>2, <2>3, <2>4, <2>5 DEF x
  <1>4. CASE period.type = "year"
    <2>1. x = Line!YearsLater(t, d)
      BY <1>4 DEF Line!Away
    <2>2. Line!UnitsBetween(x, t) = (Line!YearOf(Line!MonthOf(x)) - Line!YearOf(Line!MonthOf(t))) \div s
      BY <1>4 DEF Line!UnitsBetween
    <2> HIDE DEF x, d, s
    <2>3. x \in Int /\ Line!YearOf(Line!MonthOf(x)) = Line!YearOf(Line!MonthOf(t)) + d
      BY <1>2, <2>1, YearBack
    <2>4. Line!MonthOf(t) \in Int /\ Line!MonthOf(x) \in Int /\ Line!YearOf(Line!MonthOf(t)) \in Int
      BY <2>3, MonthHolds, YearsApart
    <2>5. Line!YearOf(Line!MonthOf(x)) - Line!YearOf(Line!MonthOf(t)) = d
      BY <1>2, <2>3, <2>4
    <2>6. (k > 0 => Line!MonthOf(t) < Line!MonthOf(x)) /\ (k < 0 => Line!MonthOf(x) < Line!MonthOf(t))
      <3>1. k > 0 => Line!YearOf(Line!MonthOf(t)) < Line!YearOf(Line!MonthOf(x))
        BY <1>2, <2>3, <2>4
      <3>2. k < 0 => Line!YearOf(Line!MonthOf(x)) < Line!YearOf(Line!MonthOf(t))
        BY <1>2, <2>3, <2>4
      <3> QED
        BY <3>1, <3>2, <2>4, LaterYear
    <2>7. (k > 0 => t < x) /\ (k < 0 => x < t)
      BY <2>3, <2>6, LaterMonth
    <2> QED
      BY <1>2, <2>2, <2>3, <2>5, <2>7 DEF x
  <1>5. CASE period.type \in {"day", "week"}
    <2> DEFINE w == s * Line!Fixed[period.type]
               a == w * k
    <2>1. w \in Nat \ {0}
      <3>1. Line!Fixed[period.type] \in {1, 7}
        BY <1>5 DEF Line!Fixed
      <3> HIDE DEF s
      <3> QED
        BY <1>1, <3>1
    <2>2. x = t + a
      BY <1>5 DEF Line!Away
    <2>3. Line!UnitsBetween(x, t) = (x - t) \div w
      BY <1>5 DEF Line!UnitsBetween
    <2> HIDE DEF w, x
    <2>4. a \in Int /\ a \div w = k /\ (k > 0 => a > 0) /\ (k < 0 => a < 0)
      BY <2>1, ManyOf
    <2> HIDE DEF a
    <2>5. x \in Int /\ x - t = a
      BY <2>2, <2>4
    <2> QED
      BY <2>2, <2>3, <2>4, <2>5 DEF x
  <1>6. period.type \in {"day", "week", "month", "year"}
    BY DEF Line!Types
  <1> QED
    BY <1>3, <1>4, <1>5, <1>6

-----------------------------------------------------------------------------
(* The search.                                                             *)

\* A turn of the loop keeps the index of a time that is there between its two,
\* and brings them together or closer.
LEMMA TurnHolds ==
    ASSUME LineInv, NEW i \in 1..Len(times),
           NEW left \in 1..Len(times), NEW right \in 1..Len(times), left <= i, i <= right
    PROVE  LET at == Line!Halved(times[i], left, right)
           IN  /\ at[1] \in 1..Len(times) /\ at[2] \in 1..Len(times)
               /\ at = <<at[1], at[2]>>
               /\ at[1] <= i /\ i <= at[2]
               /\ at[1] = at[2] \/ at[2] - at[1] < right - left
  <1> DEFINE middle == (left + right) \div 2
             at == Line!Halved(times[i], left, right)
             n == Len(times)
  <1>1. n \in Nat /\ middle \in Int /\ 2 * middle <= left + right /\ left + right < 2 * middle + 2
    BY DEF LineInv
  <1>2. at = IF left = right \/ times[i] = times[left] THEN <<left, left>>
             ELSE IF times[i] = times[right]  THEN <<right, right>>
             ELSE IF times[i] = times[middle] THEN <<middle, middle>>
             ELSE IF right - left <= 2
                  THEN IF times[i] > times[middle] THEN <<middle, middle>> ELSE <<left, left>>
             ELSE IF times[i] > times[middle] THEN <<middle, right>> ELSE <<left, middle>>
    BY DEF Line!Halved
  <1> HIDE DEF middle, at, n
  <1>3. middle \in 1..n /\ left <= middle /\ middle <= right
    BY <1>1 DEF n
  <1>4. \A j \in 1..n : times[j] \in Int
    BY DEF LineInv, n
  <1>5. \A j \in 1..n : times[i] = times[j] => i = j
    <2> SUFFICES ASSUME NEW j \in 1..n, times[i] = times[j], i # j PROVE FALSE
      OBVIOUS
    <2>1. i < j \/ j < i
      BY <1>1 DEF n
    <2>2. i < j => times[i] < times[j]
      BY DEF LineInv, n
    <2>3. j < i => times[j] < times[i]
      BY DEF LineInv, n
    <2> QED
      BY <1>4, <2>1, <2>2, <2>3 DEF n
  <1>6. /\ times[i] > times[middle] => middle < i
        /\ ~(times[i] > times[middle]) => i <= middle
    <2>1. i < middle => times[i] < times[middle]
      BY <1>3 DEF LineInv, n
    <2>2. middle < i => times[middle] < times[i]
      BY <1>3 DEF LineInv, n
    <2>3. times[i] \in Int /\ times[middle] \in Int /\ i \in Int /\ middle \in Int
      BY <1>1, <1>3, <1>4 DEF n
    <2> QED
      BY <2>1, <2>2, <2>3
  <1>7. CASE right - left <= 2
    <2>1. i \in {left, right, middle}
      BY <1>1, <1>7
    <2>2. at = <<i, i>>
      <3>1. left \in 1..n /\ right \in 1..n
        BY DEF n
      <3> QED
        BY <1>2, <1>3, <1>5, <2>1, <3>1
    <2> QED
      BY <2>2 DEF at
  <1>8. CASE ~(right - left <= 2)
    <2>1. left < middle /\ middle < right
      BY <1>1, <1>8
    <2>2. \/ at = <<i, i>>
          \/ at = <<middle, right>> /\ middle <= i
          \/ at = <<left, middle>> /\ i <= middle
      <3>1. left \in 1..n /\ right \in 1..n /\ left # right
        BY <2>1, <1>1 DEF n
      <3>2. times[i] = times[left] \/ times[i] = times[right] \/ times[i] = times[middle]
              => at = <<i, i>>
        BY <1>2, <1>3, <1>5, <3>1
      <3>3. CASE ~(times[i] = times[left] \/ times[i] = times[right] \/ times[i] = times[middle])
        <4>1. at = IF times[i] > times[middle] THEN <<middle, right>> ELSE <<left, middle>>
          BY <1>2, <1>8, <3>1, <3>3
        <4>2. middle < i => middle <= i
          BY <1>1
        <4> QED
          BY <1>6, <4>1, <4>2
      <3> QED
        BY <3>2, <3>3
    <2>3. at = <<i, i>> => at[1] = i /\ at[2] = i
      OBVIOUS
    <2>4. at = <<middle, right>> => at[1] = middle /\ at[2] = right
      OBVIOUS
    <2>5. at = <<left, middle>> => at[1] = left /\ at[2] = middle
      OBVIOUS
    <2> QED
      BY <1>1, <1>3, <2>1, <2>2, <2>3, <2>4, <2>5 DEF at, n
  <1> QED
    BY <1>7, <1>8

\* So the search finds every time that is there.
LEMMA SearchFinds ==
    ASSUME LineInv, NEW i \in 1..Len(times)
    PROVE  Line!Search(times[i]) = i
  <1> DEFINE n == Len(times)
             Inside == {p \in (1..n) \X (1..n) : p[1] <= i /\ i <= p[2]}
             G == [p \in Inside \X (0..n) |-> Line!Halved(times[i], p[1][1], p[1][2])]
             at == CHOOSE at : at = [turn \in 0..n |->
                      IF turn = 0 THEN <<1, n>>
                      ELSE Line!Halved(times[i], at[turn - 1][1], at[turn - 1][2])]
  <1>0. n \in Nat /\ i \in 1..n
    BY DEF LineInv
  <1>1. ASSUME NEW p \in Inside
        PROVE  /\ Line!Halved(times[i], p[1], p[2]) \in Inside
               /\ LET h == Line!Halved(times[i], p[1], p[2])
                  IN  h[1] = h[2] \/ h[2] - h[1] < p[2] - p[1]
    <2>1. p[1] \in 1..n /\ p[2] \in 1..n /\ p[1] <= i /\ i <= p[2]
      BY <1>1
    <2> DEFINE h == Line!Halved(times[i], p[1], p[2])
    <2>2. /\ h[1] \in 1..n /\ h[2] \in 1..n /\ h = <<h[1], h[2]>>
          /\ h[1] <= i /\ i <= h[2]
          /\ h[1] = h[2] \/ h[2] - h[1] < p[2] - p[1]
      BY <2>1, TurnHolds
    <2> HIDE DEF h
    <2>3. h \in Inside
      <3>1. <<h[1], h[2]>> \in (1..n) \X (1..n)
        BY <2>2
      <3> QED
        BY <2>2, <3>1
    <2> QED
      BY <2>2, <2>3 DEF h
  <1>2. <<1, n>> \in Inside
    BY <1>0
  <1>3. G \in [Inside \X (0..n) -> Inside]
    <2> SUFFICES ASSUME NEW p \in Inside \X (0..n) PROVE Line!Halved(times[i], p[1][1], p[1][2]) \in Inside
      OBVIOUS
    <2>1. p[1] \in Inside
      OBVIOUS
    <2> HIDE DEF Inside
    <2> QED
      BY <1>1, <2>1
  <1>4. PICK f : IsRecursion(f, 0, n, Inside, <<1, n>>, G)
    <2> DEFINE start == <<1, n>>
    <2>1. start \in Inside /\ 0 \in Int /\ n \in Int
      BY <1>0, <1>2
    <2> HIDE DEF G, Inside, start, n
    <2>2. \E f : IsRecursion(f, 0, n, Inside, start, G)
      BY <1>3, <2>1, RecursionExists
    <2> QED
      BY <2>2 DEF start
  <1>5. f = [turn \in 0..n |->
                IF turn = 0 THEN <<1, n>>
                ELSE Line!Halved(times[i], f[turn - 1][1], f[turn - 1][2])]
    <2>1. ASSUME NEW k \in 0..n, k # 0
          PROVE  G[<<f[k - 1], k>>] = Line!Halved(times[i], f[k - 1][1], f[k - 1][2])
      <3>1. f[k - 1] \in Inside
        <4>1. k - 1 \in 0..n
          BY <2>1, <1>0
        <4> HIDE DEF Inside
        <4> QED
          BY <1>4, <4>1 DEF IsRecursion
      <3> HIDE DEF Inside
      <3> QED
        BY <3>1
    <2> HIDE DEF G
    <2> QED
      BY <1>4, <2>1 DEF IsRecursion
  <1>6. at = [turn \in 0..n |->
                 IF turn = 0 THEN <<1, n>>
                 ELSE Line!Halved(times[i], at[turn - 1][1], at[turn - 1][2])]
    BY <1>5
  <1>7. Line!Search(times[i]) = at[n][1]
    BY DEF Line!Search
  <1> HIDE DEF at, G
  <1> DEFINE S == {k \in Nat : k <= n =>
                      /\ at[k] \in Inside
                      /\ at[k][1] = at[k][2] \/ at[k][2] - at[k][1] <= n - 1 - k}
  <1>8. 0 \in S
    <2>1. at[0] = <<1, n>>
      BY <1>0, <1>6
    <2>2. <<1, n>>[1] = 1 /\ <<1, n>>[2] = n
      OBVIOUS
    <2> HIDE DEF Inside
    <2> QED
      BY <1>0, <1>2, <2>1, <2>2
  <1>9. ASSUME NEW k \in Nat, k \in S PROVE k + 1 \in S
    <2>1. SUFFICES ASSUME k + 1 <= n
                   PROVE  /\ at[k + 1] \in Inside
                          /\ at[k + 1][1] = at[k + 1][2] \/ at[k + 1][2] - at[k + 1][1] <= n - 1 - (k + 1)
      BY <1>9
    <2> DEFINE p == at[k]
               h == at[k + 1]
    <2>2. p \in Inside /\ (p[1] = p[2] \/ p[2] - p[1] <= n - 1 - k)
      BY <1>0, <1>9, <2>1
    <2>3. h = Line!Halved(times[i], p[1], p[2])
      <3>1. k + 1 \in 0..n /\ k + 1 # 0 /\ (k + 1) - 1 = k
        BY <1>0, <2>1
      <3> QED
        BY <1>6, <3>1
    <2> HIDE DEF p, h
    <2>4. h \in Inside /\ (h[1] = h[2] \/ h[2] - h[1] < p[2] - p[1])
      <3> HIDE DEF Inside
      <3> QED
        BY <1>1, <2>2, <2>3
    <2>5. h[1] \in Int /\ h[2] \in Int /\ p[1] \in Int /\ p[2] \in Int /\ h[1] <= h[2]
      BY <1>0, <2>2, <2>4
    <2>6. h[1] = h[2] \/ h[2] - h[1] <= n - 1 - (k + 1)
      BY <1>0, <2>2, <2>4, <2>5
    <2> QED
      BY <2>4, <2>6 DEF h
  <1>10. n \in S
    <2> HIDE DEF S
    <2> QED
      BY <1>0, <1>8, <1>9, SetInduction
  <1>11. at[n] \in Inside /\ (at[n][1] = at[n][2] \/ at[n][2] - at[n][1] <= -1)
    BY <1>0, <1>10
  <1> QED
    BY <1>0, <1>7, <1>11

\* The index of an index's time.
LEMMA LineShows == LineInv => Line!IndexOfTimeOfIndex
  <1> SUFFICES ASSUME LineInv, times # <<>>, period.type # "none", NEW i \in Line!Indexes
               PROVE  Line!TimeToIndex(Line!IndexToTime(i)) = i
    BY DEF Line!IndexOfTimeOfIndex
  <1> DEFINE n == Len(times)
             last == times[n]
             first == times[1]
  <1>1. n \in Nat \ {0} /\ DOMAIN times = 1..n /\ \A j \in 1..n : times[j] \in Int
    BY DEF LineInv
  <1>2. i \in Int
    <2>1. Reach \in Nat
      BY ConstantsAssumption DEF Line!BarsAssumption
    <2> QED
      BY <1>1, <2>1 DEF Line!Indexes
  <1>3. last \in Int /\ first \in Int /\ first <= last
    <2>1. 1 \in 1..n /\ n \in 1..n
      BY <1>1
    <2>2. 1 < n => times[1] < times[n]
      BY <2>1 DEF LineInv
    <2> QED
      BY <1>1, <2>1, <2>2
  <1>4. period \in [type : Line!Types, span : Nat \ {0}]
    BY DEF LineInv
  <1>5. CASE i \in 1..n
    <2>1. Line!IndexToTime(i) = times[i]
      BY <1>1, <1>5 DEF Line!IndexToTime
    <2>2. first <= times[i] /\ times[i] <= last
      <3>1. 1 \in 1..n /\ n \in 1..n
        BY <1>1
      <3>2. (1 < i => times[1] < times[i]) /\ (i < n => times[i] < times[n])
        BY <1>5, <3>1 DEF LineInv
      <3>3. (1 = i \/ 1 < i) /\ (i = n \/ i < n)
        <4> HIDE DEF n
        <4> QED
          BY <1>1, <1>2, <1>5
      <3>4. times[i] \in Int /\ times[1] \in Int /\ times[n] \in Int
        BY <1>1, <1>5, <3>1
      <3> QED
        BY <3>2, <3>3, <3>4
    <2>3. Line!TimeToIndex(times[i]) = Line!Search(times[i])
      BY <1>1, <1>3, <1>5, <2>2 DEF Line!TimeToIndex
    <2> QED
      BY <1>5, <2>1, <2>3, SearchFinds
  <1>6. CASE i > n
    <2> DEFINE x == Line!Away(last, i - n)
    <2>1. Line!IndexToTime(i) = x
      BY <1>1, <1>2, <1>6 DEF Line!IndexToTime
    <2>2. i - n \in Int /\ i - n > 0
      BY <1>1, <1>2, <1>6
    <2>3. x \in Int /\ Line!UnitsBetween(x, last) = i - n /\ last < x
      <3> HIDE DEF last, n
      <3> QED
        BY <1>3, <1>4, <2>2, AwayAndBack
    <2>4. Line!TimeToIndex(x) = n + Line!UnitsBetween(x, last)
      <3> HIDE DEF x
      <3> QED
        BY <1>3, <2>3 DEF Line!TimeToIndex
    <2> QED
      BY <1>1, <1>2, <2>1, <2>3, <2>4
  <1>7. CASE i < 1
    <2> DEFINE x == Line!Away(first, i - 1)
    <2>1. Line!IndexToTime(i) = x
      BY <1>1, <1>2, <1>7 DEF Line!IndexToTime
    <2>2. i - 1 \in Int /\ i - 1 < 0
      BY <1>2, <1>7
    <2>3. x \in Int /\ Line!UnitsBetween(x, first) = i - 1 /\ x < first
      <3> HIDE DEF first
      <3> QED
        BY <1>3, <1>4, <2>2, AwayAndBack
    <2>4. Line!TimeToIndex(x) = 1 + Line!UnitsBetween(x, first)
      <3> HIDE DEF x
      <3> QED
        BY <1>3, <2>3 DEF Line!TimeToIndex
    <2> QED
      BY <1>2, <2>1, <2>3, <2>4
  <1> QED
    BY <1>1, <1>2, <1>5, <1>6, <1>7

Timed == part = "line" => LineInv

\* The index of the time of an index is that index: inside the bars, whatever
\* is missing between them, and beyond both ends, for every period and span,
\* for every calendar whose months are as CalendarAssumption says.
THEOREM IndexesReturn == Spec => []IndexOfTimeOfIndex
  <1>1. Init => Timed
    BY LineBegins DEF Init, Timed
  <1>2. Timed /\ [Next]_vars => Timed'
    <2>1. ASSUME Timed, [Next]_vars, part' = "line"
          PROVE  part = "line" /\ [Line!Next]_(Line!vars)
      BY <2>1 DEF Next, InHand, InDraw, InScale, InRulers, InLine, InShape, InTips, vars, lineVars, Line!vars
    <2> QED
      BY <2>1, LineStep DEF Timed
  <1>3. Timed => IndexOfTimeOfIndex
    BY LineShows DEF Timed, IndexOfTimeOfIndex
  <1> QED
    BY <1>1, <1>2, <1>3, PTL DEF Spec

-----------------------------------------------------------------------------
(* The shapes of the drawings (Shapes).                                    *)

Coords == [x : Columns, y : Rows]
Level == {"horizontalRayLine", "horizontalSegment"}
Upright == {"verticalRayLine", "verticalSegment"}

\* A drawing has no more points than it needs, all on the grid, and those of a
\* level or upright one are aligned.
ShapeInv ==
    /\ tool \in Shape!Names
    /\ points \in Seq(Coords)
    /\ Len(points) <= Shape!PointsOf(tool)
    /\ Len(points) = 2 => /\ tool \in Level => points[1].y = points[2].y
                          /\ tool \in Upright => points[1].x = points[2].x

LEMMA ShapeBegins == Shape!Init => ShapeInv
  <1> SUFFICES ASSUME Shape!Init PROVE ShapeInv
    OBVIOUS
  <1>1. tool \in Shape!Names
    BY ConstantsAssumption DEF Shape!Init, Shape!GridAssumption
  <1>2. points \in Seq(Coords) /\ Len(points) = 0
    BY DEF Shape!Init
  <1>3. 0 <= Shape!PointsOf(tool)
    BY DEF Shape!PointsOf
  <1> QED
    BY <1>1, <1>2, <1>3 DEF ShapeInv

LEMMA OneMore ==
    ASSUME NEW S, NEW s \in Seq(S), NEW e \in S
    PROVE  /\ Append(s, e) \in Seq(S) /\ Len(Append(s, e)) = Len(s) + 1
           /\ \A i \in 1..Len(s) : Append(s, e)[i] = s[i]
           /\ Append(s, e)[Len(s) + 1] = e
  OBVIOUS

LEMMA ShapeStep == ShapeInv /\ [Shape!Next]_(Shape!vars) => ShapeInv'
  <1> SUFFICES ASSUME ShapeInv, [Shape!Next]_(Shape!vars) PROVE ShapeInv'
    OBVIOUS
  <1>1. CASE UNCHANGED Shape!vars
    BY <1>1 DEF ShapeInv, Shape!vars
  <1>2. CASE Shape!Next
    <2>1. PICK x \in Columns, y \in Rows : Shape!Place(Shape!At(x, y))
      BY <1>2 DEF Shape!Next
    <2> DEFINE p == Shape!At(x, y)
               aligned == IF points = <<>> THEN points
                          ELSE CASE tool \in Level   -> <<[points[1] EXCEPT !.y = p.y]>>
                                 [] tool \in Upright -> <<[points[1] EXCEPT !.x = p.x]>>
                                 [] OTHER -> points
    <2>2. Len(points) < Shape!PointsOf(tool) /\ points' = Append(aligned, p) /\ tool' = tool
      BY <2>1 DEF Shape!Place, Level, Upright
    <2>3. p \in Coords /\ p.x = x /\ p.y = y
      BY DEF Shape!At, Coords
    <2>4. tool \in Level \cup Upright => Shape!PointsOf(tool) = 2
      BY DEF Shape!PointsOf, Level, Upright
    <2>0. /\ points \in Seq(Coords) /\ Len(points) \in Nat /\ Shape!PointsOf(tool) \in Nat
          /\ tool \in Shape!Names
      BY DEF ShapeInv, Shape!PointsOf
    <2>5. tool \notin Level \cup Upright \/ points = <<>> => aligned = points
      OBVIOUS
    <2>6. CASE tool \notin Level \cup Upright \/ points = <<>>
      <3>1. points' = Append(points, p)
        BY <2>2, <2>5, <2>6
      <3>2. points' \in Seq(Coords) /\ Len(points') = Len(points) + 1
        BY <2>0, <2>3, <3>1
      <3>3. tool \in Level \cup Upright => Len(points') = 1
        BY <2>6, <3>2
      <3> QED
        BY <2>0, <2>2, <3>2, <3>3 DEF ShapeInv
    <2>7. CASE tool \in Level \cup Upright /\ points # <<>>
      <3>1. Len(points) = 1 /\ points[1] \in Coords
        BY <2>0, <2>2, <2>4, <2>7
      <3>2. CASE tool \in Level
        <4> DEFINE q == [points[1] EXCEPT !.y = p.y]
        <4>1. aligned = <<q>>
          <5> DEFINE r == <<q>>
                     t == <<[points[1] EXCEPT !.x = p.x]>>
          <5>1. aligned = IF points = <<>> THEN points
                          ELSE CASE tool \in Level -> r [] tool \in Upright -> t [] OTHER -> points
            OBVIOUS
          <5>2. tool \notin Upright
            BY <3>2 DEF Level, Upright
          <5> HIDE DEF r, t, aligned
          <5>3. aligned = r
            BY <2>7, <3>2, <5>1, <5>2
          <5> QED
            BY <5>3 DEF r
        <4>2. q \in Coords /\ q.y = p.y
          BY <2>3, <3>1 DEF Coords
        <4>3. points' = Append(<<q>>, p)
          <5> HIDE DEF p, q, aligned
          <5> QED
            BY <2>2, <4>1
        <4>4. tool \notin Upright
          BY <3>2 DEF Level, Upright
        <4> HIDE DEF q, p
        <4>5. points' \in Seq(Coords) /\ Len(points') = 2 /\ points'[1] = q /\ points'[2] = p
          <5> DEFINE w == <<q>>
          <5>1. w \in Seq(Coords) /\ Len(w) = 1 /\ w[1] = q
            BY <4>2
          <5>2. points' = Append(w, p) /\ p \in Coords
            BY <2>3, <4>3
          <5> HIDE DEF w, aligned
          <5>3. /\ Append(w, p) \in Seq(Coords) /\ Len(Append(w, p)) = Len(w) + 1
                /\ \A i \in 1..Len(w) : Append(w, p)[i] = w[i]
                /\ Append(w, p)[Len(w) + 1] = p
            BY <5>1, <5>2, OneMore
          <5> DEFINE m == Append(w, p)
          <5> HIDE DEF m
          <5>4. m \in Seq(Coords) /\ Len(m) = 2 /\ m[1] = q /\ m[2] = p
            BY <5>1, <5>3 DEF m
          <5> QED
            BY <5>2, <5>4 DEF m
        <4> QED
          BY <2>0, <2>2, <2>4, <2>7, <4>2, <4>4, <4>5 DEF ShapeInv
      <3>3. CASE tool \in Upright
        <4> DEFINE q == [points[1] EXCEPT !.x = p.x]
        <4>0. tool \notin Level
          BY <3>3 DEF Level, Upright
        <4>1. aligned = <<q>>
          BY <2>7, <3>3, <4>0
        <4>2. q \in Coords /\ q.x = p.x
          BY <2>3, <3>1 DEF Coords
        <4>3. points' = Append(<<q>>, p)
          <5> HIDE DEF p, q, aligned
          <5> QED
            BY <2>2, <4>1
        <4> HIDE DEF q, p
        <4>5. points' \in Seq(Coords) /\ Len(points') = 2 /\ points'[1] = q /\ points'[2] = p
          <5> DEFINE w == <<q>>
          <5>1. w \in Seq(Coords) /\ Len(w) = 1 /\ w[1] = q
            BY <4>2
          <5>2. points' = Append(w, p) /\ p \in Coords
            BY <2>3, <4>3
          <5> HIDE DEF w, aligned
          <5>3. /\ Append(w, p) \in Seq(Coords) /\ Len(Append(w, p)) = Len(w) + 1
                /\ \A i \in 1..Len(w) : Append(w, p)[i] = w[i]
                /\ Append(w, p)[Len(w) + 1] = p
            BY <5>1, <5>2, OneMore
          <5> DEFINE m == Append(w, p)
          <5> HIDE DEF m
          <5>4. m \in Seq(Coords) /\ Len(m) = 2 /\ m[1] = q /\ m[2] = p
            BY <5>1, <5>3 DEF m
          <5> QED
            BY <5>2, <5>4 DEF m
        <4> QED
          BY <2>0, <2>2, <2>4, <2>7, <4>0, <4>2, <4>5 DEF ShapeInv
      <3> QED
        BY <2>7, <3>2, <3>3
    <2> QED
      BY <2>6, <2>7
  <1> QED
    BY <1>1, <1>2

-----------------------------------------------------------------------------
Whole2D == [x : Int, y : Int]

LEMMA GridIs ==
    /\ Sheet \in Nat /\ Sheet \in Nat
    /\ Coords \subseteq Whole2D
    /\ \A c \in Coords : /\ c.x \in Columns /\ c.y \in Rows
                         /\ 0 <= c.x /\ c.x <= Sheet /\ 0 <= c.y /\ c.y <= Sheet
  <1>1. Sheet \in Nat /\ Sheet \in Nat /\ Columns \subseteq 0..Sheet /\ Rows \subseteq 0..Sheet
    BY ConstantsAssumption DEF Shape!GridAssumption
  <1> SUFFICES ASSUME NEW c \in Coords
               PROVE  /\ c \in Whole2D /\ c.x \in Columns /\ c.y \in Rows
                      /\ 0 <= c.x /\ c.x <= Sheet /\ 0 <= c.y /\ c.y <= Sheet
    BY <1>1
  <1>2. c.x \in Columns /\ c.y \in Rows
    BY DEF Coords
  <1>3. c.x \in 0..Sheet /\ c.y \in 0..Sheet
    BY <1>1, <1>2
  <1>4. c \in Whole2D
    <2>1. c = [x |-> c.x, y |-> c.y]
      BY DEF Coords
    <2>2. c.x \in Int /\ c.y \in Int
      BY <1>1, <1>3
    <2> QED
      BY <2>1, <2>2 DEF Whole2D
  <1> QED
    BY <1>1, <1>2, <1>3, <1>4

LEMMA AtIs ==
    ASSUME NEW x \in Int, NEW y \in Int
    PROVE  Shape!At(x, y) \in Whole2D /\ Shape!At(x, y).x = x /\ Shape!At(x, y).y = y
  BY DEF Shape!At, Whole2D

Within(v, from, to) == \/ from <= v /\ v <= to
                       \/ to <= v /\ v <= from
OnStraight(a, b, c) == (b.x - a.x) * (c.y - a.y) = (b.y - a.y) * (c.x - a.x)

\* A line is hit where it is: between its ends, with no distance from it.
LEMMA SegmentHit ==
    ASSUME NEW a \in Whole2D, NEW b \in Whole2D, NEW c \in Whole2D,
           Within(c.x, a.x, b.x), a.x = b.x => Within(c.y, a.y, b.y),
           a.x # b.x => OnStraight(a, b, c)
    PROVE  Shape!OnSegment(c, a, b)
  <1> DEFINE dx == b.x - a.x
             dy == b.y - a.y
  <1>1. /\ a.x \in Int /\ a.y \in Int /\ b.x \in Int /\ b.y \in Int /\ c.x \in Int /\ c.y \in Int
        /\ dx \in Int /\ dy \in Int
    BY DEF Whole2D
  <1>3. CASE dx = 0
    <2>1. a.x = b.x /\ c.x = a.x /\ Within(c.y, a.y, b.y)
      BY <1>1, <1>3 DEF Within
    <2>2. Shape!Abs(c.x - a.x) < Shape!Deviation
      BY <1>1, <2>1 DEF Shape!Abs, Shape!Deviation
    <2>3. Shape!Abs(a.y - c.y) + Shape!Abs(b.y - c.y) - Shape!Abs(a.y - b.y) < 2 * Shape!Deviation
      BY <1>1, <2>1 DEF Shape!Abs, Shape!Deviation, Within
    <2> QED
      BY <1>3, <2>2, <2>3 DEF Shape!OnSegment
  <1>4. CASE dx # 0
    <2>1. Shape!Abs(a.x - c.x) + Shape!Abs(b.x - c.x) - Shape!Abs(a.x - b.x) < 2 * Shape!Deviation
      BY <1>1 DEF Shape!Abs, Shape!Deviation, Within
    <2>2. dx * (c.y - a.y) - dy * (c.x - a.x) = 0
      <3> DEFINE u == dx * (c.y - a.y)
                 v == dy * (c.x - a.x)
      <3>1. u = v
        BY <1>1, <1>4 DEF OnStraight
      <3>2. u \in Int
        BY <1>1
      <3> HIDE DEF u, v
      <3>3. u - v = 0
        BY <3>1, <3>2
      <3> QED
        BY <3>3 DEF u, v
    <2>3. Shape!Square(dx * (c.y - a.y) - dy * (c.x - a.x)) = 0
      BY <2>2 DEF Shape!Square
    <2>4. 0 < Shape!Square(Shape!Deviation) * (dx * dx + dy * dy)
      <3>1. dx * dx > 0 /\ dy * dy >= 0
        BY <1>1, <1>4
      <3> DEFINE u == dx * dx
                 v == dy * dy
      <3>2. u \in Int /\ v \in Int
        BY <1>1
      <3>3. 0 < 4 * (u + v)
        <4> HIDE DEF u, v
        <4>1. u > 0 /\ v >= 0
          BY <3>1 DEF u, v
        <4> QED
          BY <3>2, <4>1
      <3>4. Shape!Square(Shape!Deviation) = 4
        BY DEF Shape!Square, Shape!Deviation
      <3> QED
        BY <3>3, <3>4
    <2>5. Shape!Square(dx * (c.y - a.y) - dy * (c.x - a.x)) < Shape!Square(Shape!Deviation) * (dx * dx + dy * dy)
      BY <2>3, <2>4
    <2> QED
      BY <1>4, <2>1, <2>5 DEF Shape!OnSegment
  <1> QED
    BY <1>3, <1>4

\* So it is at both ends, and where it is level or upright all along.
LEMMA EndsHit ==
    ASSUME NEW a \in Whole2D, NEW b \in Whole2D
    PROVE  Shape!OnSegment(a, a, b) /\ Shape!OnSegment(b, a, b)
  <1>1. /\ a.x \in Int /\ a.y \in Int /\ b.x \in Int /\ b.y \in Int
    BY DEF Whole2D
  <1>2. OnStraight(a, b, a) /\ OnStraight(a, b, b)
    BY <1>1 DEF OnStraight
  <1>3. Within(a.x, a.x, b.x) /\ Within(b.x, a.x, b.x) /\ Within(a.y, a.y, b.y) /\ Within(b.y, a.y, b.y)
    BY <1>1 DEF Within
  <1> QED
    BY <1>2, <1>3, SegmentHit

LEMMA LevelHit ==
    ASSUME NEW a \in Whole2D, NEW b \in Whole2D, NEW c \in Whole2D,
           a.y = b.y, a.y = c.y, Within(c.x, a.x, b.x)
    PROVE  Shape!OnSegment(c, a, b)
  <1>1. /\ a.x \in Int /\ a.y \in Int /\ b.x \in Int /\ b.y \in Int /\ c.x \in Int /\ c.y \in Int
    BY DEF Whole2D
  <1>2. OnStraight(a, b, c)
    BY <1>1 DEF OnStraight
  <1>3. Within(c.y, a.y, b.y)
    BY <1>1 DEF Within
  <1> QED
    BY <1>2, <1>3, SegmentHit

LEMMA UprightHit ==
    ASSUME NEW a \in Whole2D, NEW b \in Whole2D, NEW c \in Whole2D,
           a.x = b.x, a.x = c.x, Within(c.y, a.y, b.y)
    PROVE  Shape!OnSegment(c, a, b)
  <1>1. /\ a.x \in Int /\ a.y \in Int /\ b.x \in Int /\ b.y \in Int /\ c.x \in Int /\ c.y \in Int
    BY DEF Whole2D
  <1>2. Within(c.x, a.x, b.x)
    BY <1>1 DEF Within
  <1> QED
    BY <1>2, SegmentHit

\* A figure of two ends.
LEMMA PairIsOn ==
    ASSUME NEW a, NEW b, NEW c, Shape!OnSegment(c, a, b)
    PROVE  Shape!IsOn(c, Shape!LineOf(<<a, b>>))
  BY DEF Shape!IsOn, Shape!LineOf, Shape!OnLine

\* A figure through some coordinates is hit at each.
LEMMA ThroughIsOn ==
    ASSUME NEW c \in Seq(Whole2D), Len(c) >= 2, NEW i \in 1..Len(c)
    PROVE  Shape!IsOn(c[i], Shape!LineOf(c))
  <1>1. \E k \in 2..Len(c) : Shape!OnSegment(c[i], c[k - 1], c[k])
    <2>1. CASE i = 1
      <3>1. 2 \in 2..Len(c) /\ c[1] \in Whole2D /\ c[2] \in Whole2D
        OBVIOUS
      <3>2. Shape!OnSegment(c[1], c[1], c[2])
        BY <3>1, EndsHit
      <3> QED
        BY <2>1, <3>1, <3>2
    <2>2. CASE i # 1
      <3>1. i \in 2..Len(c) /\ c[i] \in Whole2D /\ c[i - 1] \in Whole2D
        BY <2>2
      <3>2. Shape!OnSegment(c[i], c[i - 1], c[i])
        BY <3>1, EndsHit
      <3> QED
        BY <3>1, <3>2
    <2> QED
      BY <2>1, <2>2
  <1> QED
    BY <1>1 DEF Shape!IsOn, Shape!LineOf, Shape!OnLine

-----------------------------------------------------------------------------
(* Slopes are exact. *)

LEMMA Distribute ==
    ASSUME NEW d \in Int, NEW u \in Int, NEW v \in Int
    PROVE  d * (u - v) = d * u - d * v
  OBVIOUS

LEMMA Cancel ==
    ASSUME NEW d \in Int, d # 0, NEW u \in Int, NEW v \in Int, d * u = d * v
    PROVE  u = v
  <1>1. d * (u - v) = 0
    BY Distribute
  <1>2. u - v = 0
    BY <1>1
  <1> QED
    BY <1>2

LEMMA DividesEither ==
    ASSUME NEW d \in Int, d # 0, NEW m \in Int, m % Shape!Abs(d) = 0
    PROVE  \E k \in Int : d * k = m
  <1>1. CASE d > 0
    <2>1. Shape!Abs(d) = d /\ d \in Nat \ {0}
      BY <1>1 DEF Shape!Abs
    <2>2. m \div d \in Int /\ m = d * (m \div d) + (m % d)
      BY <2>1, Division
    <2> QED
      BY <2>1, <2>2
  <1>2. CASE d < 0
    <2> DEFINE e == -d
               q == m \div e
    <2>1. Shape!Abs(d) = e /\ e \in Nat \ {0}
      BY <1>2 DEF Shape!Abs
    <2>2. q \in Int /\ m = e * q + (m % e)
      BY <2>1, Division
    <2>5. m % e = 0
      BY <2>1
    <2>3. m = e * q
      <3> HIDE DEF q, e
      <3>1. e * q \in Int
        BY <2>1, <2>2
      <3> QED
        BY <2>2, <2>5, <3>1
    <2>4. e * q = d * (-q)
      <3> HIDE DEF q
      <3> QED
        BY <2>2
    <2> HIDE DEF e, q
    <2>6. -q \in Int /\ d * (-q) = m
      BY <2>2, <2>3, <2>4
    <2> QED
      BY <2>6
  <1> QED
    BY <1>1, <1>2

LEMMA RiseIs ==
    ASSUME NEW dx \in Int, dx # 0, NEW dy \in Int, NEW run \in Int, NEW k \in Int,
           dx * k = run * dy
    PROVE  Shape!Rise(dy, dx, run) = k
  <1>1. CASE dx > 0
    <2>1. run * dy \in Int /\ run * dy = dx * k + 0 /\ dx \in Nat \ {0} /\ 0 \in 0..(dx - 1)
      BY <1>1
    <2>2. (run * dy) \div dx = k
      BY <2>1, QuotientIs
    <2> QED
      BY <1>1, <2>2 DEF Shape!Rise
  <1>2. CASE dx < 0
    <2> DEFINE e == -dx
               m == run * (-dy)
    <2>1. m \in Int /\ e \in Nat \ {0} /\ 0 \in 0..(e - 1)
      BY <1>2
    <2>2. m = e * k + 0
      <3>1. m = -(run * dy)
        OBVIOUS
      <3>2. e * k = -(dx * k)
        OBVIOUS
      <3> QED
        BY <3>1, <3>2, <2>1
    <2>3. m \div e = k
      <3> HIDE DEF m, e
      <3> QED
        BY <2>1, <2>2, QuotientIs
    <2> QED
      BY <1>2, <2>3 DEF Shape!Rise
  <1> QED
    BY <1>1, <1>2

\* The line through two points rises by k along x.
Rises(a, b, x, k) == (b.x - a.x) * k = x * (b.y - a.y)

\* What a slope rises up to a place of the grid or to the right edge.
LEMMA SlopeExact ==
    ASSUME NEW a \in Coords, NEW b \in Coords, a.x # b.x, NEW x \in Columns \cup {Sheet}
    PROVE  \E k \in Int : /\ Rises(a, b, x, k)
                          /\ Shape!Rise(b.y - a.y, b.x - a.x, x) = k
  <1> DEFINE dx == b.x - a.x
             dy == b.y - a.y
  <1>1. a.x \in Columns /\ b.x \in Columns /\ a.y \in Rows /\ b.y \in Rows
    BY DEF Coords
  <1>0. a.x \in Int /\ b.x \in Int /\ a.y \in Int /\ b.y \in Int /\ Sheet \in Int /\ Columns \subseteq Int
    <2>1. a \in Whole2D /\ b \in Whole2D
      BY GridIs
    <2>2. Sheet \in Nat /\ Columns \subseteq 0..Sheet
      BY ConstantsAssumption DEF Shape!GridAssumption
    <2> QED
      BY <2>1, <2>2 DEF Whole2D
  <1>2. dx \in Int /\ dx # 0 /\ dy \in Int /\ x \in Int
    BY <1>0
  <1>3. (x * dy) % Shape!Abs(dx) = 0
    BY <1>1, ConstantsAssumption DEF Shape!GridAssumption
  <1> HIDE DEF dx, dy
  <1>4. x * dy \in Int
    BY <1>2
  <1>5. PICK k \in Int : dx * k = x * dy
    BY <1>2, <1>3, <1>4, DividesEither
  <1>6. Shape!Rise(dy, dx, x) = k
    BY <1>2, <1>5, RiseIs
  <1> QED
    BY <1>5, <1>6 DEF dx, dy, Rises

\* How high a line through two points is at a place of the grid, the right
\* edge, or the left one.
LEMMA LinearIs ==
    ASSUME NEW a \in Coords, NEW b \in Coords, a.x # b.x, NEW x \in Int,
           NEW ka \in Int, Rises(a, b, a.x, ka), NEW k \in Int, Rises(a, b, x, k)
    PROVE  Shape!LinearY(a, b, x) = a.y + k - ka
  <1> DEFINE dx == b.x - a.x
             dy == b.y - a.y
             ax == a.x
  <1>1. dx \in Int /\ dx # 0 /\ dy \in Int /\ ax \in Int /\ a.y \in Int
    <2>1. a \in Whole2D /\ b \in Whole2D
      BY GridIs
    <2>2. a.x \in Int /\ b.x \in Int /\ a.y \in Int /\ b.y \in Int
      BY <2>1 DEF Whole2D
    <2> QED
      BY <2>2
  <1>2. dx * ka = ax * dy /\ dx * k = x * dy
    BY DEF Rises
  <1> HIDE DEF dx, dy, ax
  <1>3. dx * (k - ka) = (x - ax) * dy
    <2>1. dx * (k - ka) = dx * k - dx * ka
      BY <1>1
    <2>2. (x - ax) * dy = x * dy - ax * dy
      BY <1>1
    <2> QED
      BY <1>2, <2>1, <2>2
  <1>4. Shape!Rise(dy, dx, x - ax) = k - ka
    BY <1>1, <1>3, RiseIs
  <1>5. Shape!LinearY(a, b, x) = a.y + Shape!Rise(dy, dx, x - ax)
    BY DEF Shape!LinearY, dx, dy, ax
  <1> QED
    BY <1>1, <1>4, <1>5

\* The line that crosses the sheet with a slope is hit at what lies on it.
LEMMA SlopedHit ==
    ASSUME NEW dx \in Int, dx # 0, NEW dy \in Int, NEW y0 \in Int, NEW kw \in Int,
           NEW k \in Int, NEW x \in Int, Sheet > 0, 0 <= x, x <= Sheet,
           dx * kw = Sheet * dy, dx * k = x * dy
    PROVE  Shape!OnSegment(Shape!At(x, y0 + k), Shape!At(0, y0), Shape!At(Sheet, y0 + kw))
  <1> DEFINE a == Shape!At(0, y0)
             b == Shape!At(Sheet, y0 + kw)
             c == Shape!At(x, y0 + k)
  <1>0. Sheet \in Int
    BY GridIs
  <1>1. /\ a \in Whole2D /\ a.x = 0 /\ a.y = y0
        /\ b \in Whole2D /\ b.x = Sheet /\ b.y = y0 + kw
        /\ c \in Whole2D /\ c.x = x /\ c.y = y0 + k
    BY <1>0, AtIs
  <1>2. Sheet * k = kw * x
    <2>1. dx * (Sheet * k) = Sheet * (dx * k)
      BY <1>0
    <2>2. dx * (kw * x) = (dx * kw) * x
      BY <1>0
    <2>3. Sheet * (x * dy) = (Sheet * dy) * x
      BY <1>0
    <2>4. dx * (Sheet * k) = dx * (kw * x)
      BY <2>1, <2>2, <2>3
    <2>5. Sheet * k \in Int /\ kw * x \in Int
      BY <1>0
    <2> QED
      BY <2>4, <2>5, Cancel
  <1>3. OnStraight(a, b, c)
    <2>1. (Sheet - 0) * ((y0 + k) - y0) = Sheet * k
      BY <1>0
    <2>2. ((y0 + kw) - y0) * (x - 0) = kw * x
      BY <1>0
    <2> HIDE DEF a, b, c
    <2> QED
      BY <1>1, <1>2, <2>1, <2>2 DEF OnStraight
  <1>4. Within(c.x, a.x, b.x) /\ a.x # b.x
    BY <1>0, <1>1 DEF Within
  <1> HIDE DEF a, b, c
  <1>5. Shape!OnSegment(c, a, b)
    BY <1>1, <1>3, <1>4, SegmentHit
  <1> QED
    BY <1>5 DEF a, b, c

\* A ray is hit at the two points it goes through.
LEMMA RayHit ==
    ASSUME NEW a \in Coords, NEW b \in Coords
    PROVE  \A c \in {a, b} : \E f \in Shape!Ray(a, b) : Shape!IsOn(c, f)
  <1> DEFINE end == CASE a.x = b.x /\ a.y < b.y -> Shape!At(a.x, Sheet)
                      [] a.x = b.x /\ a.y > b.y -> Shape!At(a.x, 0)
                      [] a.x > b.x -> Shape!At(0, Shape!LinearY(a, b, 0))
                      [] OTHER -> Shape!At(Sheet, Shape!LinearY(a, b, Sheet))
  <1>0. /\ a \in Whole2D /\ b \in Whole2D
        /\ a.x \in Int /\ a.y \in Int /\ b.x \in Int /\ b.y \in Int
        /\ 0 <= b.x /\ b.x <= Sheet /\ 0 <= b.y /\ b.y <= Sheet
        /\ 0 <= a.x /\ a.x <= Sheet
        /\ Sheet \in Nat /\ Sheet \in Nat
    BY GridIs DEF Whole2D
  <1> DEFINE e1 == Shape!At(a.x, Sheet)
             e2 == Shape!At(a.x, 0)
             e3 == Shape!At(0, Shape!LinearY(a, b, 0))
             e4 == Shape!At(Sheet, Shape!LinearY(a, b, Sheet))
  <1>5. end = CASE a.x = b.x /\ a.y < b.y -> e1
                [] a.x = b.x /\ a.y > b.y -> e2
                [] a.x > b.x -> e3
                [] OTHER -> e4
    OBVIOUS
  <1>6. /\ a.x = b.x /\ a.y < b.y => end = e1
        /\ a.x = b.x /\ a.y > b.y => end = e2
        /\ a.x > b.x => end = e3
        /\ (a.x < b.x \/ (a.x = b.x /\ a.y = b.y)) => end = e4
    <2> HIDE DEF e1, e2, e3, e4, end
    <2> QED
      BY <1>0, <1>5
  <1>1. end \in Whole2D /\ Shape!OnSegment(b, a, end)
    <2>1. CASE a.x = b.x /\ a.y < b.y
      <3>1. end = Shape!At(a.x, Sheet)
        BY <1>6, <2>1
      <3>2. end \in Whole2D /\ end.x = a.x /\ end.y = Sheet
        BY <1>0, <3>1, AtIs
      <3>3. Within(b.y, a.y, end.y)
        BY <1>0, <2>1, <3>2 DEF Within
      <3> HIDE DEF end
      <3> QED
        BY <1>0, <2>1, <3>2, <3>3, UprightHit
    <2>2. CASE a.x = b.x /\ a.y > b.y
      <3>1. end = Shape!At(a.x, 0)
        BY <1>6, <2>2
      <3>2. end \in Whole2D /\ end.x = a.x /\ end.y = 0
        BY <1>0, <3>1, AtIs
      <3>3. Within(b.y, a.y, end.y)
        BY <1>0, <2>2, <3>2 DEF Within
      <3> HIDE DEF end
      <3> QED
        BY <1>0, <2>2, <3>2, <3>3, UprightHit
    <2>3. CASE a.x > b.x
      <3>1. PICK ka \in Int : Rises(a, b, a.x, ka)
        BY <1>0, <2>3, GridIs, SlopeExact
      <3>2. Shape!LinearY(a, b, 0) = a.y - ka
        <4>1. Rises(a, b, 0, 0)
          BY <1>0 DEF Rises
        <4>2. Shape!LinearY(a, b, 0) = a.y + 0 - ka
          BY <1>0, <2>3, <3>1, <4>1, LinearIs
        <4> QED
          BY <1>0, <4>2
      <3>3. end = Shape!At(0, a.y - ka)
        BY <1>6, <2>3, <3>2
      <3>4. end \in Whole2D /\ end.x = 0 /\ end.y = a.y - ka
        <4> HIDE DEF end
        <4> QED
          BY <1>0, <3>1, <3>3, AtIs
      <3>5. OnStraight(a, end, b)
        <4>1. (0 - a.x) * (b.y - a.y) = -(a.x * (b.y - a.y))
          BY <1>0
        <4>2. ((a.y - ka) - a.y) * (b.x - a.x) = -((b.x - a.x) * ka)
          BY <1>0
        <4> HIDE DEF end
        <4> QED
          BY <3>1, <3>4, <4>1, <4>2 DEF OnStraight, Rises
      <3>6. Within(b.x, a.x, end.x) /\ a.x # end.x
        BY <1>0, <2>3, <3>4 DEF Within
      <3> HIDE DEF end
      <3> QED
        BY <1>0, <3>4, <3>5, <3>6, SegmentHit
    <2>4. CASE a.x < b.x
      <3>1. PICK ka \in Int : Rises(a, b, a.x, ka)
        BY <1>0, <2>4, GridIs, SlopeExact
      <3>2. PICK kw \in Int : Rises(a, b, Sheet, kw)
        <4>1. a.x # b.x /\ Sheet \in Columns \cup {Sheet}
          BY <1>0, <2>4
        <4> HIDE DEF end
        <4> QED
          BY <4>1, SlopeExact
      <3>3. Shape!LinearY(a, b, Sheet) = a.y + kw - ka
        BY <1>0, <2>4, <3>1, <3>2, LinearIs
      <3>4. end = Shape!At(Sheet, a.y + kw - ka)
        <4>1. end = e4
          <5> HIDE DEF end, e1, e2, e3, e4
          <5> QED
            BY <1>6, <2>4
        <4> HIDE DEF end
        <4> QED
          BY <4>1, <3>3
      <3>5. end \in Whole2D /\ end.x = Sheet /\ end.y = a.y + kw - ka
        BY <1>0, <3>4, AtIs
      <3>6. OnStraight(a, end, b)
        <4>1. (Sheet - a.x) * (b.y - a.y) = Sheet * (b.y - a.y) - a.x * (b.y - a.y)
          BY <1>0
        <4>2. ((a.y + kw - ka) - a.y) * (b.x - a.x) = (b.x - a.x) * kw - (b.x - a.x) * ka
          BY <1>0
        <4> HIDE DEF end
        <4> QED
          BY <3>1, <3>2, <3>5, <4>1, <4>2 DEF OnStraight, Rises
      <3>7. Within(b.x, a.x, end.x) /\ a.x # end.x
        BY <1>0, <2>4, <3>5 DEF Within
      <3> HIDE DEF end
      <3> QED
        BY <1>0, <3>5, <3>6, <3>7, SegmentHit
    <2>5. CASE a.x = b.x /\ a.y = b.y
      <3>1. Shape!LinearY(a, b, Sheet) = a.y
        BY <2>5 DEF Shape!LinearY
      <3>2. end = Shape!At(Sheet, a.y)
        BY <1>6, <2>5, <3>1
      <3>3. end \in Whole2D /\ end.x = Sheet /\ end.y = a.y
        BY <1>0, <3>2, AtIs
      <3>4. Within(b.x, a.x, end.x)
        BY <1>0, <2>5, <3>3 DEF Within
      <3> HIDE DEF end
      <3> QED
        BY <1>0, <2>5, <3>3, <3>4, LevelHit
    <2> HIDE DEF end
    <2> QED
      BY <1>0, <2>1, <2>2, <2>3, <2>4, <2>5
  <1>2. Shape!Ray(a, b) = {Shape!LineOf(<<a, end>>)}
    BY DEF Shape!Ray
  <1> HIDE DEF end
  <1>3. Shape!OnSegment(a, a, end)
    BY <1>0, <1>1, EndsHit
  <1>4. Shape!IsOn(a, Shape!LineOf(<<a, end>>)) /\ Shape!IsOn(b, Shape!LineOf(<<a, end>>))
    BY <1>1, <1>3, PairIsOn
  <1> QED
    BY <1>2, <1>4

-----------------------------------------------------------------------------
(* The templates. *)

\* Every point is on one of the figures.
HitAll(c, figures) == \A i \in DOMAIN c : \E f \in figures : Shape!IsOn(c[i], f)

LEMMA PointsWhole ==
    ASSUME NEW c \in Seq(Coords)
    PROVE  /\ c \in Seq(Whole2D)
           /\ \A i \in 1..Len(c) : /\ c[i] \in Coords /\ c[i] \in Whole2D
                                   /\ c[i] = Shape!At(c[i].x, c[i].y)
                                   /\ c[i].x \in Int /\ c[i].y \in Int
                                   /\ 0 <= c[i].x /\ c[i].x <= Sheet
                                   /\ 0 <= c[i].y /\ c[i].y <= Sheet
  <1>1. ASSUME NEW a \in Coords
        PROVE  /\ a \in Whole2D /\ a = Shape!At(a.x, a.y) /\ a.x \in Int /\ a.y \in Int
               /\ 0 <= a.x /\ a.x <= Sheet /\ 0 <= a.y /\ a.y <= Sheet
    <2>1. a \in Whole2D
      BY GridIs
    <2>2. a.x \in Int /\ a.y \in Int
      BY <2>1 DEF Whole2D
    <2>3. a = Shape!At(a.x, a.y)
      BY DEF Coords, Shape!At
    <2> QED
      BY <2>1, <2>2, <2>3, GridIs
  <1>2. \A i \in 1..Len(c) : c[i] \in Coords
    OBVIOUS
  <1>3. c \in Seq(Whole2D)
    BY GridIs
  <1> QED
    BY <1>1, <1>2, <1>3

LEMMA ThroughHit ==
    ASSUME NEW c \in Seq(Coords), Len(c) >= 2, NEW S, Shape!LineOf(c) \in S
    PROVE  HitAll(c, S)
  <1>1. c \in Seq(Whole2D)
    BY PointsWhole
  <1>2. DOMAIN c = 1..Len(c)
    OBVIOUS
  <1> QED
    BY <1>1, <1>2, ThroughIsOn DEF HitAll

LEMMA TwoHit ==
    ASSUME NEW c \in Seq(Coords), Len(c) = 2, NEW S,
           \E f \in S : Shape!IsOn(c[1], f), \E f \in S : Shape!IsOn(c[2], f)
    PROVE  HitAll(c, S)
  <1>1. DOMAIN c = 1..2
    OBVIOUS
  <1>2. \A i \in 1..2 : i = 1 \/ i = 2
    OBVIOUS
  <1> QED
    BY <1>1, <1>2 DEF HitAll

LEMMA OneHit ==
    ASSUME NEW c \in Seq(Coords), Len(c) = 1, NEW S, \E f \in S : Shape!IsOn(c[1], f)
    PROVE  HitAll(c, S)
  <1>1. DOMAIN c = 1..1
    OBVIOUS
  <1>2. \A i \in 1..1 : i = 1
    OBVIOUS
  <1> QED
    BY <1>1, <1>2 DEF HitAll

\* A point of the sheet is on the lines that cross the sheet at it.
LEMMA AcrossHit ==
    ASSUME NEW a \in Coords
    PROVE  Shape!IsOn(a, Shape!Across(a.y)) /\ Shape!IsOn(a, Shape!UpAndDown(a.x))
  <1>0. /\ a \in Whole2D /\ a.x \in Int /\ a.y \in Int /\ Sheet \in Int /\ Sheet \in Int
        /\ 0 <= a.x /\ a.x <= Sheet /\ 0 <= a.y /\ a.y <= Sheet
    BY GridIs DEF Whole2D
  <1>1. Shape!OnSegment(a, Shape!At(0, a.y), Shape!At(Sheet, a.y))
    <2> DEFINE u == Shape!At(0, a.y)
               v == Shape!At(Sheet, a.y)
    <2>1. u \in Whole2D /\ v \in Whole2D /\ u.x = 0 /\ v.x = Sheet /\ u.y = a.y /\ v.y = a.y
      BY <1>0, AtIs
    <2> HIDE DEF u, v
    <2>2. Within(a.x, u.x, v.x)
      BY <1>0, <2>1 DEF Within
    <2>3. Shape!OnSegment(a, u, v)
      BY <1>0, <2>1, <2>2, LevelHit
    <2> QED
      BY <2>3 DEF u, v
  <1>2. Shape!OnSegment(a, Shape!At(a.x, 0), Shape!At(a.x, Sheet))
    <2> DEFINE u == Shape!At(a.x, 0)
               v == Shape!At(a.x, Sheet)
    <2>1. u \in Whole2D /\ v \in Whole2D /\ u.x = a.x /\ v.x = a.x /\ u.y = 0 /\ v.y = Sheet
      BY <1>0, AtIs
    <2> HIDE DEF u, v
    <2>2. Within(a.y, u.y, v.y)
      BY <1>0, <2>1 DEF Within
    <2>3. Shape!OnSegment(a, u, v)
      BY <1>0, <2>1, <2>2, UprightHit
    <2> QED
      BY <2>3 DEF u, v
  <1> QED
    BY <1>1, <1>2, PairIsOn DEF Shape!Across, Shape!UpAndDown

LEMMA HorizontalRayHit ==
    ASSUME NEW c \in Seq(Coords), Len(c) = 2, c[1].y = c[2].y
    PROVE  HitAll(c, Shape!HorizontalRay(c))
  <1> DEFINE a == c[1]
             b == c[2]
             edge == IF Len(c) > 1 /\ c[1].x < c[2].x THEN Sheet ELSE 0
             end == Shape!At(edge, a.y)
  <1>1. /\ a \in Whole2D /\ b \in Whole2D /\ a.x \in Int /\ a.y \in Int /\ b.x \in Int
        /\ 0 <= b.x /\ b.x <= Sheet
    <2>1. 1 \in 1..Len(c) /\ 2 \in 1..Len(c)
      OBVIOUS
    <2> HIDE DEF edge, end
    <2> QED
      BY <2>1, PointsWhole
  <1>2. edge \in Int /\ (a.x < b.x => edge = Sheet) /\ (~(a.x < b.x) => edge = 0)
    BY GridIs
  <1>3. Shape!HorizontalRay(c) = {Shape!LineOf(<<a, end>>)}
    BY DEF Shape!HorizontalRay
  <1> HIDE DEF edge
  <1>4. end \in Whole2D /\ end.x = edge /\ end.y = a.y
    BY <1>1, <1>2, AtIs
  <1> HIDE DEF end
  <1>5. Shape!OnSegment(a, a, end)
    BY <1>1, <1>4, EndsHit
  <1>6. Within(b.x, a.x, end.x)
    BY <1>1, <1>2, <1>4 DEF Within
  <1>7. Shape!OnSegment(b, a, end)
    BY <1>1, <1>4, <1>6, LevelHit
  <1>8. Shape!IsOn(a, Shape!LineOf(<<a, end>>)) /\ Shape!IsOn(b, Shape!LineOf(<<a, end>>))
    BY <1>5, <1>7, PairIsOn
  <1> QED
    BY <1>3, <1>8, TwoHit

LEMMA VerticalRayHit ==
    ASSUME NEW c \in Seq(Coords), Len(c) = 2, c[1].x = c[2].x
    PROVE  HitAll(c, Shape!VerticalRay(c))
  <1> DEFINE a == c[1]
             b == c[2]
             edge == IF c[1].y < c[2].y THEN Sheet ELSE 0
             end == Shape!At(a.x, edge)
  <1>1. /\ a \in Whole2D /\ b \in Whole2D /\ a.x \in Int /\ a.y \in Int /\ b.y \in Int
        /\ 0 <= b.y /\ b.y <= Sheet
    <2>1. 1 \in 1..Len(c) /\ 2 \in 1..Len(c)
      OBVIOUS
    <2> QED
      BY <2>1, PointsWhole
  <1>2. edge \in Int /\ (a.y < b.y => edge = Sheet) /\ (~(a.y < b.y) => edge = 0)
    BY GridIs
  <1>3. Shape!VerticalRay(c) = {Shape!LineOf(<<a, end>>)}
    BY DEF Shape!VerticalRay
  <1> HIDE DEF edge
  <1>4. end \in Whole2D /\ end.x = a.x /\ end.y = edge
    BY <1>1, <1>2, AtIs
  <1> HIDE DEF end
  <1>5. Shape!OnSegment(a, a, end)
    BY <1>1, <1>4, EndsHit
  <1>6. Within(b.y, a.y, end.y)
    BY <1>1, <1>2, <1>4 DEF Within
  <1>7. Shape!OnSegment(b, a, end)
    BY <1>1, <1>4, <1>6, UprightHit
  <1>8. Shape!IsOn(a, Shape!LineOf(<<a, end>>)) /\ Shape!IsOn(b, Shape!LineOf(<<a, end>>))
    BY <1>5, <1>7, PairIsOn
  <1> QED
    BY <1>3, <1>8, TwoHit

\* The line through two points crosses the sheet, and so do those parallel to
\* it, each through the points that lie as high on it.
Crosses(a, b, ka, kw) ==
    /\ Shape!LinearY(a, b, 0) = a.y - ka
    /\ Shape!LinearY(a, b, Sheet) = a.y - ka + kw
    /\ Shape!Rise(b.y - a.y, b.x - a.x, Sheet) = kw
    /\ Shape!OnSegment(a, Shape!At(0, a.y - ka), Shape!At(Sheet, a.y - ka + kw))
    /\ Shape!OnSegment(b, Shape!At(0, a.y - ka), Shape!At(Sheet, a.y - ka + kw))
    /\ \A p \in Coords : \E kp \in Int :
          /\ Shape!Rise(b.y - a.y, b.x - a.x, p.x) = kp
          /\ Shape!LinearY(a, b, p.x) = a.y - ka + kp
          /\ \A y \in Int : Shape!OnSegment(Shape!At(p.x, y + kp), Shape!At(0, y), Shape!At(Sheet, y + kw))

LEMMA CrossingLine ==
    ASSUME NEW a \in Coords, NEW b \in Coords, a.x # b.x
    PROVE  \E ka, kw \in Int : Crosses(a, b, ka, kw)
  <1> DEFINE dx == b.x - a.x
             dy == b.y - a.y
  <1>0. /\ a.x \in Int /\ a.y \in Int /\ b.x \in Int /\ b.y \in Int /\ Sheet \in Int
        /\ 0 <= a.x /\ a.x <= Sheet /\ 0 <= b.x /\ b.x <= Sheet
    <2>1. a \in Whole2D /\ b \in Whole2D
      BY GridIs
    <2> QED
      BY <2>1, GridIs DEF Whole2D
  <1>1. Sheet > 0 /\ dx \in Int /\ dx # 0 /\ dy \in Int
    BY <1>0
  <1>2. a.x \in Columns /\ b.x \in Columns
    BY GridIs
  <1>3. PICK ka \in Int : Rises(a, b, a.x, ka)
    BY <1>2, SlopeExact
  <1>4. PICK kb \in Int : Rises(a, b, b.x, kb)
    BY <1>2, SlopeExact
  <1>5. PICK kw \in Int : Rises(a, b, Sheet, kw) /\ Shape!Rise(dy, dx, Sheet) = kw
    <2>1. Sheet \in Columns \cup {Sheet}
      OBVIOUS
    <2> QED
      BY <2>1, SlopeExact
  <1>6. Shape!LinearY(a, b, 0) = a.y - ka
    <2>1. Rises(a, b, 0, 0)
      BY <1>0 DEF Rises
    <2>2. Shape!LinearY(a, b, 0) = a.y + 0 - ka
      BY <1>3, <2>1, LinearIs
    <2> QED
      BY <1>0, <2>2
  <1>7. Shape!LinearY(a, b, Sheet) = a.y - ka + kw
    <2>1. Shape!LinearY(a, b, Sheet) = a.y + kw - ka
      BY <1>0, <1>3, <1>5, LinearIs
    <2> QED
      BY <1>0, <2>1
  <1>8. dx * kw = Sheet * dy /\ dx * ka = a.x * dy /\ dx * kb = b.x * dy
    BY <1>3, <1>4, <1>5 DEF Rises
  <1>9. kb = ka + dy
    <2> HIDE DEF dy
    <2> DEFINE d == dx
    <2>1. dx * (ka + dy) = dx * ka + dx * dy
      <3> HIDE DEF dx
      <3> QED
        BY <1>1
    <2>2. dx * dy = b.x * dy - a.x * dy
      BY <1>0, <1>1
    <2>3. a.x * dy \in Int /\ b.x * dy \in Int
      BY <1>0, <1>1
    <2>4. dx * (ka + dy) = dx * kb
      BY <1>8, <2>1, <2>2, <2>3
    <2>5. ka + dy \in Int
      BY <1>1
    <2> HIDE DEF dx
    <2> QED
      BY <1>1, <2>4, <2>5, Cancel
  <1>10. ASSUME NEW x \in Int, NEW k \in Int, NEW y \in Int, 0 <= x, x <= Sheet, dx * k = x * dy
         PROVE  Shape!OnSegment(Shape!At(x, y + k), Shape!At(0, y), Shape!At(Sheet, y + kw))
    <2> HIDE DEF dx, dy
    <2> QED
      BY <1>1, <1>8, <1>10, SlopedHit
  <1>11. Shape!OnSegment(a, Shape!At(0, a.y - ka), Shape!At(Sheet, a.y - ka + kw))
    <2>1. Shape!OnSegment(Shape!At(a.x, (a.y - ka) + ka), Shape!At(0, a.y - ka), Shape!At(Sheet, a.y - ka + kw))
      <3>1. a.y - ka \in Int
        BY <1>0
      <3> HIDE DEF dx, dy
      <3> QED
        BY <1>0, <1>8, <1>10, <3>1
    <2>2. a = Shape!At(a.x, (a.y - ka) + ka)
      <3>1. (a.y - ka) + ka = a.y
        BY <1>0
      <3> QED
        BY <3>1 DEF Shape!At, Coords
    <2> QED
      BY <2>1, <2>2
  <1>12. Shape!OnSegment(b, Shape!At(0, a.y - ka), Shape!At(Sheet, a.y - ka + kw))
    <2>1. Shape!OnSegment(Shape!At(b.x, (a.y - ka) + kb), Shape!At(0, a.y - ka), Shape!At(Sheet, a.y - ka + kw))
      <3>1. a.y - ka \in Int
        BY <1>0
      <3> HIDE DEF dx, dy
      <3> QED
        BY <1>0, <1>8, <1>10, <3>1
    <2>2. b = Shape!At(b.x, (a.y - ka) + kb)
      <3>1. (a.y - ka) + kb = b.y
        BY <1>0, <1>9
      <3> QED
        BY <3>1 DEF Shape!At, Coords
    <2> QED
      BY <2>1, <2>2
  <1>13. ASSUME NEW p \in Coords
         PROVE  \E kp \in Int :
                    /\ Shape!Rise(b.y - a.y, b.x - a.x, p.x) = kp
                    /\ Shape!LinearY(a, b, p.x) = a.y - ka + kp
                    /\ \A y \in Int : Shape!OnSegment(Shape!At(p.x, y + kp), Shape!At(0, y), Shape!At(Sheet, y + kw))
    <2>1. p.x \in Columns /\ p.x \in Int /\ 0 <= p.x /\ p.x <= Sheet
      <3>1. p \in Whole2D
        BY GridIs
      <3> QED
        BY <3>1, GridIs DEF Whole2D
    <2>2. PICK kp \in Int : Rises(a, b, p.x, kp) /\ Shape!Rise(dy, dx, p.x) = kp
      BY <2>1, SlopeExact
    <2>3. Shape!LinearY(a, b, p.x) = a.y + kp - ka
      BY <1>3, <2>1, <2>2, LinearIs
    <2>4. a.y + kp - ka = a.y - ka + kp
      BY <1>0
    <2>5. dx * kp = p.x * dy
      BY <2>2 DEF Rises
    <2>6. \A y \in Int : Shape!OnSegment(Shape!At(p.x, y + kp), Shape!At(0, y), Shape!At(Sheet, y + kw))
      <3> HIDE DEF dx, dy
      <3> QED
        BY <2>1, <2>5, <1>10
    <2> QED
      BY <2>2, <2>3, <2>4, <2>6
  <1> QED
    BY <1>5, <1>6, <1>7, <1>11, <1>12, <1>13 DEF Crosses

LEMMA StraightHit ==
    ASSUME NEW c \in Seq(Coords), Len(c) = 2
    PROVE  HitAll(c, Shape!StraightLine(c))
  <1> DEFINE a == c[1]
             b == c[2]
  <1>1. a \in Coords /\ b \in Coords
    OBVIOUS
  <1>2. CASE a.x = b.x
    <2>1. Shape!StraightLine(c) = {Shape!UpAndDown(a.x)}
      BY <1>2 DEF Shape!StraightLine
    <2>2. Shape!IsOn(a, Shape!UpAndDown(a.x)) /\ Shape!IsOn(b, Shape!UpAndDown(a.x))
      BY <1>1, <1>2, AcrossHit
    <2> QED
      BY <2>1, <2>2, TwoHit
  <1>3. CASE a.x # b.x
    <2> DEFINE line == Shape!LineOf(<<Shape!At(0, Shape!LinearY(a, b, 0)), Shape!At(Sheet, Shape!LinearY(a, b, Sheet))>>)
    <2>1. Shape!StraightLine(c) = {line}
      BY <1>3 DEF Shape!StraightLine
    <2>2. Shape!IsOn(a, line) /\ Shape!IsOn(b, line)
      <3> HIDE DEF a, b
      <3> QED
        BY <1>1, <1>3, CrossingLine, PairIsOn DEF Crosses
    <2> HIDE DEF line
    <2> QED
      BY <2>1, <2>2, TwoHit
  <1> QED
    BY <1>2, <1>3

LEMMA ThreeHit ==
    ASSUME NEW c \in Seq(Coords), Len(c) = 3, NEW S,
           \E f \in S : Shape!IsOn(c[1], f), \E f \in S : Shape!IsOn(c[2], f), \E f \in S : Shape!IsOn(c[3], f)
    PROVE  HitAll(c, S)
  <1>1. DOMAIN c = 1..3
    OBVIOUS
  <1>2. \A i \in 1..3 : i = 1 \/ i = 2 \/ i = 3
    OBVIOUS
  <1> QED
    BY <1>1, <1>2 DEF HitAll

LEMMA ParallelHit ==
    ASSUME NEW c \in Seq(Coords), Len(c) = 3, NEW extra \in {0, 1}
    PROVE  /\ HitAll(c, Shape!ParallelLines(c, extra))
           /\ extra = 1 => \E f \in Shape!ParallelLines(c, extra) : Shape!IsOn(Shape!Mirrored(c[1], c[2], c[3]), f)
  <1> DEFINE a == c[1]
             b == c[2]
             p == c[3]
             S == Shape!ParallelLines(c, extra)
             m == Shape!Mirrored(a, b, p)
  <1>1. a \in Coords /\ b \in Coords /\ p \in Coords
    <2>1. 1 \in 1..Len(c) /\ 2 \in 1..Len(c) /\ 3 \in 1..Len(c)
      OBVIOUS
    <2> HIDE DEF S, m
    <2> QED
      BY <2>1, PointsWhole
  <1>2. /\ a.x \in Int /\ b.x \in Int /\ a.y \in Int /\ b.y \in Int /\ p.x \in Int /\ p.y \in Int
        /\ 0 <= p.y /\ p.y <= Sheet
    <2>1. a \in Whole2D /\ b \in Whole2D /\ p \in Whole2D
      BY <1>1, GridIs
    <2> QED
      BY <1>1, <2>1, GridIs DEF Whole2D
  <1>3. CASE a.x = b.x
    <2>0. b.x - a.x = 0 /\ ~(Len(c) < 2) /\ Len(c) # 2
      BY <1>2, <1>3
    <2>1. S = {Shape!UpAndDown(a.x)} \cup ({Shape!UpAndDown(p.x)}
                \cup {Shape!UpAndDown(a.x + (a.x - p.x) * i) : i \in 1..extra})
      BY <2>0 DEF Shape!ParallelLines
    <2>2. Shape!IsOn(a, Shape!UpAndDown(a.x)) /\ Shape!IsOn(b, Shape!UpAndDown(a.x)) /\ Shape!IsOn(p, Shape!UpAndDown(p.x))
      BY <1>1, <1>3, AcrossHit
    <2>3. HitAll(c, S)
      <3> HIDE DEF S
      <3>1. Shape!UpAndDown(a.x) \in S /\ Shape!UpAndDown(p.x) \in S
        BY <2>1
      <3> QED
        BY <2>2, <3>1, ThreeHit
    <2>4. ASSUME extra = 1 PROVE \E f \in S : Shape!IsOn(m, f)
      <3> DEFINE x == 2 * a.x - p.x
                 u == Shape!At(x, 0)
                 v == Shape!At(x, Sheet)
                 w == Shape!At(x, p.y)
      <3>1. m = w
        BY <1>3 DEF Shape!Mirrored
      <3>2. a.x + (a.x - p.x) * 1 = x
        BY <1>2
      <3>3. Shape!UpAndDown(x) \in S
        <4>1. 1 \in 1..extra
          BY <2>4
        <4> HIDE DEF S, x, a, p
        <4> QED
          BY <2>1, <3>2, <4>1
      <3>4. /\ u \in Whole2D /\ v \in Whole2D /\ w \in Whole2D
            /\ u.x = x /\ v.x = x /\ w.x = x /\ u.y = 0 /\ v.y = Sheet /\ w.y = p.y
        <4>1. x \in Int /\ Sheet \in Int
          BY <1>2, GridIs
        <4> HIDE DEF x, p
        <4> QED
          BY <1>2, <4>1, AtIs
      <3>5. Shape!UpAndDown(x) = Shape!LineOf(<<u, v>>)
        BY DEF Shape!UpAndDown
      <3> HIDE DEF u, v, w
      <3>6. Within(w.y, u.y, v.y)
        BY <1>2, <3>4, GridIs DEF Within
      <3>7. Shape!OnSegment(w, u, v)
        BY <3>4, <3>6, UprightHit
      <3>8. Shape!IsOn(w, Shape!LineOf(<<u, v>>))
        BY <3>7, PairIsOn
      <3> HIDE DEF S, m, x
      <3> QED
        BY <3>1, <3>3, <3>5, <3>8
    <2> QED
      BY <2>3, <2>4
  <1>4. CASE a.x # b.x
    <2> DEFINE dx == b.x - a.x
               dy == b.y - a.y
               sloped(y) == Shape!LineOf(<<Shape!At(0, y), Shape!At(Sheet, y + Shape!Rise(dy, dx, Sheet))>>)
               at0 == Shape!LinearY(a, b, 0)
               third == p.y - Shape!Rise(dy, dx, p.x)
    <2>0. dx # 0 /\ ~(Len(c) < 2) /\ Len(c) # 2
      BY <1>2, <1>4
    <2>1. S = {sloped(at0)} \cup ({sloped(third)}
                \cup {sloped(at0 + (at0 - third) * i) : i \in 1..extra})
      BY <2>0 DEF Shape!ParallelLines
    <2>11. PICK ka \in Int, kw \in Int : Crosses(a, b, ka, kw)
      <3> HIDE DEF a, b
      <3> QED
        BY <1>1, <1>4, CrossingLine
    <2>2. /\ at0 = a.y - ka
          /\ Shape!Rise(dy, dx, Sheet) = kw
          /\ Shape!OnSegment(a, Shape!At(0, a.y - ka), Shape!At(Sheet, a.y - ka + kw))
          /\ Shape!OnSegment(b, Shape!At(0, a.y - ka), Shape!At(Sheet, a.y - ka + kw))
      BY <2>11 DEF Crosses
    <2>3. PICK kp \in Int :
             /\ Shape!Rise(dy, dx, p.x) = kp
             /\ Shape!LinearY(a, b, p.x) = a.y - ka + kp
             /\ \A y \in Int : Shape!OnSegment(Shape!At(p.x, y + kp), Shape!At(0, y), Shape!At(Sheet, y + kw))
      BY <1>1, <2>11 DEF Crosses
    <2>4. \A y \in Int : sloped(y) = Shape!LineOf(<<Shape!At(0, y), Shape!At(Sheet, y + kw)>>)
      BY <2>2
    <2>5. third = p.y - kp
      BY <2>3
    <2>6. at0 \in Int /\ third \in Int
      <3>1. a.y \in Int /\ p.y \in Int
        BY <1>2
      <3>2. ka \in Int /\ kp \in Int /\ at0 = a.y - ka
        BY <2>2
      <3> HIDE DEF at0, third
      <3> QED
        BY ONLY <2>5, <3>1, <3>2
    <2> DEFINE first == a.y - ka
               lower == p.y - kp
    <2>7. Shape!IsOn(a, sloped(at0)) /\ Shape!IsOn(b, sloped(at0))
      <3>1. sloped(at0) = Shape!LineOf(<<Shape!At(0, first), Shape!At(Sheet, first + kw)>>)
        <4> HIDE DEF sloped, at0
        <4> QED
          BY <2>2, <2>4, <2>6
      <3> HIDE DEF a, b, sloped
      <3> QED
        BY <2>2, <3>1, PairIsOn
    <2>8. Shape!IsOn(p, sloped(third))
      <3>1. sloped(third) = Shape!LineOf(<<Shape!At(0, lower), Shape!At(Sheet, lower + kw)>>)
        <4> HIDE DEF sloped, third
        <4> QED
          BY <2>4, <2>5, <2>6
      <3>2. lower \in Int /\ lower + kp = p.y
        BY <1>2
      <3>3. p = Shape!At(p.x, lower + kp)
        BY <1>1, <3>2 DEF Shape!At, Coords
      <3>4. Shape!OnSegment(p, Shape!At(0, lower), Shape!At(Sheet, lower + kw))
        <4> HIDE DEF lower
        <4> QED
          BY <2>3, <3>2, <3>3
      <3> HIDE DEF sloped, lower, p
      <3> QED
        BY <3>1, <3>4, PairIsOn
    <2> HIDE DEF sloped, at0, third, S
    <2>9. HitAll(c, S)
      <3>1. sloped(at0) \in S /\ sloped(third) \in S
        BY <2>1
      <3> QED
        BY <2>7, <2>8, <3>1, ThreeHit
    <2>10. ASSUME extra = 1 PROVE \E f \in S : Shape!IsOn(m, f)
      <3> DEFINE y == at0 + (at0 - third) * 1
      <3>1. y \in Int /\ y + kp = 2 * (a.y - ka + kp) - p.y
        <4>1. at0 = a.y - ka /\ third = p.y - kp /\ a.y \in Int /\ p.y \in Int
          BY <1>2, <2>2, <2>5
        <4> DEFINE u == a.y
                   v == p.y
        <4>2. at0 = u - ka /\ third = v - kp /\ u \in Int /\ v \in Int
          BY <4>1
        <4> HIDE DEF a, p, u, v
        <4>3. y \in Int /\ y + kp = 2 * (u - ka + kp) - v
          BY <4>2
        <4> QED
          BY <4>3 DEF u, v
      <3>2. m = Shape!At(p.x, 2 * (a.y - ka + kp) - p.y)
        BY <1>4, <2>3 DEF Shape!Mirrored
      <3>3. sloped(y) \in S
        <4>1. 1 \in 1..extra
          BY <2>10
        <4> QED
          BY <2>1, <4>1
      <3> HIDE DEF y
      <3>4. m = Shape!At(p.x, y + kp)
        BY <3>1, <3>2
      <3>5. Shape!OnSegment(m, Shape!At(0, y), Shape!At(Sheet, y + kw))
        BY <2>3, <3>1, <3>4
      <3>6. Shape!IsOn(m, sloped(y))
        <4> HIDE DEF m
        <4> QED
          BY <2>4, <3>1, <3>5, PairIsOn
      <3> QED
        BY <3>3, <3>6
    <2> QED
      BY <2>9, <2>10 DEF S
  <1> QED
    BY <1>3, <1>4

LEMMA PriceLineHit ==
    ASSUME NEW c \in Seq(Coords), Len(c) = 1
    PROVE  HitAll(c, Shape!PriceLine(c))
  <1> DEFINE a == c[1]
             end == Shape!At(Sheet, a.y)
  <1>1. a \in Whole2D /\ a.y \in Int
    <2>1. 1 \in 1..Len(c)
      OBVIOUS
    <2> QED
      BY <2>1, PointsWhole
  <1>2. end \in Whole2D
    BY <1>1, GridIs, AtIs
  <1>3. Shape!PriceLine(c) = {Shape!LineOf(<<a, end>>)}
    BY DEF Shape!PriceLine
  <1> HIDE DEF end
  <1>4. Shape!IsOn(a, Shape!LineOf(<<a, end>>))
    BY <1>1, <1>2, EndsHit, PairIsOn
  <1> QED
    BY <1>3, <1>4, OneHit

LEMMA DiscHit ==
    ASSUME NEW a \in Whole2D, NEW b \in Whole2D
    PROVE  LET rim == Shape!SquareDistance(a, b)
               disc == Shape!Disc(a, rim, Whole)
           IN  /\ Shape!WholeRoot(rim) => Shape!IsOn(b, disc)
               /\ \A c \in Whole2D : Shape!SquareDistance(c, a) < rim => Shape!IsOn(c, disc)
  <1> DEFINE rim == Shape!SquareDistance(a, b)
             disc == Shape!Disc(a, rim, Whole)
             w == Shape!Square(Whole)
  <1>1. ASSUME NEW c \in Whole2D
        PROVE  Shape!SquareDistance(c, a) \in Nat /\ Shape!SquareDistance(a, c) = Shape!SquareDistance(c, a)
    <2>1. ASSUME NEW n \in Int PROVE Shape!Square(n) \in Nat /\ Shape!Square(-n) = Shape!Square(n)
      <3>1. n * n \in Nat /\ (-n) * (-n) = n * n
        OBVIOUS
      <3> QED
        BY <3>1 DEF Shape!Square
    <2>2. /\ c.x - a.x \in Int /\ c.y - a.y \in Int
          /\ a.x - c.x = -(c.x - a.x) /\ a.y - c.y = -(c.y - a.y)
      BY DEF Whole2D
    <2>3. /\ Shape!Square(c.x - a.x) \in Nat /\ Shape!Square(c.y - a.y) \in Nat
          /\ Shape!Square(a.x - c.x) = Shape!Square(c.x - a.x)
          /\ Shape!Square(a.y - c.y) = Shape!Square(c.y - a.y)
      BY <2>1, <2>2
    <2> QED
      BY <2>3 DEF Shape!SquareDistance
  <1>2. w \in Nat /\ 0 < w
    <2>1. Whole \in Nat \ {0}
      BY ConstantsAssumption DEF Shape!GridAssumption
    <2>2. ASSUME NEW n \in Nat \ {0} PROVE n * n \in Nat /\ 0 < n * n
      OBVIOUS
    <2> QED
      BY <2>1, <2>2 DEF Shape!Square
  <1>3. rim \in Nat /\ Shape!SquareDistance(b, a) = rim
    BY <1>1
  <1>4. disc.form = "circle" /\ disc.center = a /\ disc.square = rim /\ disc.level = Whole
    BY DEF Shape!Disc
  <1> HIDE DEF rim, disc, w
  <1>5. ASSUME NEW c \in Whole2D, Shape!SquareDistance(c, a) < rim
        PROVE  Shape!IsOn(c, disc)
    <2> DEFINE d == Shape!SquareDistance(c, a)
    <2>1. d \in Nat /\ d < rim
      BY <1>1, <1>5
    <2> HIDE DEF d
    <2>2. d * w < rim * w
      <3>1. (rim - d) * w > 0
        BY <1>2, <1>3, <2>1
      <3>2. (rim - d) * w = rim * w - d * w
        BY <1>2, <1>3, <2>1
      <3>3. d * w \in Int /\ rim * w \in Int
        BY <1>2, <1>3, <2>1
      <3> QED
        BY <3>1, <3>2, <3>3
    <2>3. Shape!OnCircle(c, disc)
      BY <1>4, <2>2 DEF Shape!OnCircle, d, w
    <2> QED
      BY <1>4, <2>3 DEF Shape!IsOn
  <1>6. ASSUME Shape!WholeRoot(rim) PROVE Shape!IsOn(b, disc)
    <2>1. [square |-> rim, level |-> Whole] \notin Short
      BY <1>6, ConstantsAssumption DEF Shape!GridAssumption
    <2>2. Shape!OnCircle(b, disc)
      BY <1>3, <1>4, <2>1 DEF Shape!OnCircle
    <2> QED
      BY <1>4, <2>2 DEF Shape!IsOn
  <1> QED
    BY <1>5, <1>6 DEF rim, disc

LEMMA SameShapeCount == ASSUME NEW S PROVE Shape!Cardinality(S) = Cardinality(S)
  BY DEF Shape!Cardinality, Cardinality, Shape!IsFiniteSet, IsFiniteSet

\* The edge from a to b is to the right of c.
CrossedBy(c, a, b) ==
    /\ (a.y > c.y) # (b.y > c.y)
    /\ IF b.y > a.y THEN (c.x - a.x) * (b.y - a.y) < (b.x - a.x) * (c.y - a.y)
                    ELSE (c.x - a.x) * (b.y - a.y) > (b.x - a.x) * (c.y - a.y)

LEMMA OneEdge ==
    ASSUME NEW c, NEW t, NEW k,
           {i \in DOMAIN t : CrossedBy(c, t[i], t[IF i = 1 THEN Len(t) ELSE i - 1])} = {k}
    PROVE  Shape!IsOn(c, Shape!PolygonOf(t))
  <1>1. Shape!Cardinality({k}) = 1
    BY FS_Singleton, SameShapeCount
  <1>2. 1 % 2 = 1
    OBVIOUS
  <1>3. Shape!Cardinality({i \in DOMAIN t :
            CrossedBy(c, t[i], t[IF i = 1 THEN Len(t) ELSE i - 1])}) % 2 = 1
    BY <1>1, <1>2
  <1>4. Shape!OnPolygon(c, t)
    BY <1>3 DEF Shape!OnPolygon, CrossedBy
  <1>5. Shape!PolygonOf(t).form = "polygon" /\ Shape!PolygonOf(t).through = t
    BY DEF Shape!PolygonOf
  <1> QED
    BY <1>4, <1>5 DEF Shape!IsOn

\* The middle of two coordinates lies between them.
LEMMA HalfWay ==
    ASSUME NEW u \in Int, NEW v \in Int, NEW m \in Int, 2 * m = u + v, u # v
    PROVE  (u < m /\ m < v) \/ (v < m /\ m < u)
  OBVIOUS

\* Coordinates are whole where they are halved.
LEMMA Middle ==
    ASSUME NEW u \in Int, NEW v \in Int, u % 4 = 0, v % 4 = 0
    PROVE  (u + v) \div 2 \in Int /\ 2 * ((u + v) \div 2) = u + v /\ ((u + v) \div 2) % 2 = 0
  <1>1. u = 4 * (u \div 4) /\ v = 4 * (v \div 4) /\ u \div 4 \in Int /\ v \div 4 \in Int
    OBVIOUS
  <1> DEFINE i == u \div 4
             j == v \div 4
  <1>2. u + v = 2 * (2 * (i + j)) + 0
    BY <1>1
  <1>3. (u + v) \div 2 = 2 * (i + j)
    <2>1. 2 * (i + j) \in Int /\ u + v \in Int
      BY <1>1
    <2> HIDE DEF i, j
    <2> QED
      BY <1>2, <2>1, QuotientIs
  <1>4. (2 * (i + j)) % 2 = 0
    <2>1. i + j \in Int /\ 2 * (i + j) = 2 * (i + j) + 0
      BY <1>1
    <2> HIDE DEF i, j
    <2> QED
      BY <2>1
  <1>5. 2 * (i + j) \in Int
    BY <1>1
  <1> HIDE DEF i, j
  <1> QED
    BY <1>2, <1>3, <1>4, <1>5

LEMMA HalfWhole ==
    ASSUME NEW u \in Int, NEW v \in Int, u % 4 = 0, v % 2 = 0
    PROVE  (u + v) \div 2 \in Int /\ 2 * ((u + v) \div 2) = u + v
  OBVIOUS

LEMMA GridWhole ==
    ASSUME NEW a \in Coords
    PROVE  a.x \in Int /\ a.y \in Int /\ a.x % 4 = 0 /\ a.y % 4 = 0
  <1>1. a.x \in Columns /\ a.y \in Rows
    BY GridIs
  <1>2. a.x % 4 = 0 /\ a.y % 4 = 0
    BY <1>1, ConstantsAssumption DEF Shape!GridAssumption
  <1>3. a \in Whole2D
    BY GridIs
  <1> QED
    BY <1>2, <1>3 DEF Whole2D

\* An upright edge is to the right of what is beside it, and left of it.
LEMMA UprightEdge ==
    ASSUME NEW x \in Int, NEW y1 \in Int, NEW y2 \in Int, NEW cx \in Int, NEW cy \in Int,
           (y1 < cy /\ cy < y2) \/ (y2 < cy /\ cy < y1)
    PROVE  CrossedBy(Shape!At(cx, cy), Shape!At(x, y1), Shape!At(x, y2)) <=> cx < x
  <1> DEFINE c == Shape!At(cx, cy)
             a == Shape!At(x, y1)
             b == Shape!At(x, y2)
  <1>1. /\ c.x = cx /\ c.y = cy /\ a.x = x /\ a.y = y1 /\ b.x = x /\ b.y = y2
    BY AtIs
  <1>2. (y1 > cy) # (y2 > cy)
    OBVIOUS
  <1>3. (x - x) * (cy - y1) = 0
    OBVIOUS
  <1>4. y2 > y1 => ((cx - x) * (y2 - y1) < 0 <=> cx < x)
    <2>1. ASSUME NEW u \in Int, NEW v \in Int, v > 0 PROVE u * v < 0 <=> u < 0
      BY <2>1
    <2>2. cx - x \in Int /\ y2 - y1 \in Int /\ (cx - x < 0 <=> cx < x)
      OBVIOUS
    <2>3. y2 > y1 => y2 - y1 > 0
      OBVIOUS
    <2> QED
      BY <2>1, <2>2, <2>3
  <1>5. ~(y2 > y1) => ((cx - x) * (y2 - y1) > 0 <=> cx < x)
    <2>1. ASSUME NEW u \in Int, NEW v \in Int, v < 0 PROVE u * v > 0 <=> u < 0
      BY <2>1
    <2>2. cx - x \in Int /\ y2 - y1 \in Int /\ (cx - x < 0 <=> cx < x)
      OBVIOUS
    <2>3. ~(y2 > y1) => y2 - y1 < 0
      OBVIOUS
    <2> QED
      BY <2>1, <2>2, <2>3
  <1> HIDE DEF c, a, b
  <1>6. CrossedBy(c, a, b) <=> cx < x
    BY <1>1, <1>2, <1>3, <1>4, <1>5 DEF CrossedBy
  <1> QED
    BY <1>6 DEF a, b, c

\* Nothing crosses a level edge.
LEMMA LevelEdge ==
    ASSUME NEW c, NEW a, NEW b, a.y = b.y
    PROVE  ~CrossedBy(c, a, b)
  BY DEF CrossedBy

LEMMA RectHit ==
    ASSUME NEW c \in Seq(Coords), Len(c) = 2, c[1].x # c[2].x, c[1].y # c[2].y
    PROVE  \E f \in Shape!Rect(c) : Shape!IsOn(Shape!Between(c[1], c[2]), f)
  <1> DEFINE a == c[1]
             b == c[2]
             mx == (a.x + b.x) \div 2
             my == (a.y + b.y) \div 2
             m == Shape!At(mx, my)
             t == Shape!Corners(a, b)
             Edges == {i \in DOMAIN t : CrossedBy(m, t[i], t[IF i = 1 THEN Len(t) ELSE i - 1])}
  <1>1. a \in Coords /\ b \in Coords
    OBVIOUS
  <1>2. /\ a.x \in Int /\ a.y \in Int /\ b.x \in Int /\ b.y \in Int
        /\ a.x % 4 = 0 /\ a.y % 4 = 0 /\ b.x % 4 = 0 /\ b.y % 4 = 0
    BY <1>1, GridWhole
  <1>3. mx \in Int /\ my \in Int /\ 2 * mx = a.x + b.x /\ 2 * my = a.y + b.y
    BY <1>2, Middle
  <1> HIDE DEF mx, my
  <1>4. /\ (a.y < my /\ my < b.y) \/ (b.y < my /\ my < a.y)
        /\ (mx < a.x <=> ~(mx < b.x))
    <2>1. a.x # b.x /\ a.y # b.y
      OBVIOUS
    <2> HIDE DEF a, b
    <2> QED
      <3>1. (a.x < mx /\ mx < b.x) \/ (b.x < mx /\ mx < a.x)
        BY ONLY <1>2, <1>3, <2>1, HalfWay
      <3>2. (a.y < my /\ my < b.y) \/ (b.y < my /\ my < a.y)
        BY ONLY <1>2, <1>3, <2>1, HalfWay
      <3>3. mx < a.x <=> ~(mx < b.x)
        <4>1. a.x \in Int /\ b.x \in Int /\ mx \in Int
          BY ONLY <1>2, <1>3
        <4> QED
          BY ONLY <3>1, <4>1
      <3> QED
        BY <3>2, <3>3
  <1>5. /\ DOMAIN t = 1..4 /\ Len(t) = 4
        /\ t[1] = a /\ t[2] = Shape!At(b.x, a.y) /\ t[3] = b /\ t[4] = Shape!At(a.x, b.y)
    BY DEF Shape!Corners
  <1>6. a = Shape!At(a.x, a.y) /\ b = Shape!At(b.x, b.y)
    BY <1>1, PointsWhole
  <1> HIDE DEF t
  <1>7. (1 \in Edges <=> mx < a.x) /\ (3 \in Edges <=> mx < b.x)
    <2>1. 1 \in Edges <=> CrossedBy(m, Shape!At(a.x, a.y), Shape!At(a.x, b.y))
      <3> HIDE DEF a, b, m
      <3> QED
        BY <1>5, <1>6
    <2>2. 3 \in Edges <=> CrossedBy(m, Shape!At(b.x, b.y), Shape!At(b.x, a.y))
      <3> HIDE DEF a, b, m
      <3> QED
        BY <1>5, <1>6
    <2> HIDE DEF a, b, Edges
    <2>3. CrossedBy(m, Shape!At(a.x, a.y), Shape!At(a.x, b.y)) <=> mx < a.x
      BY <1>2, <1>3, <1>4, UprightEdge
    <2>4. CrossedBy(m, Shape!At(b.x, b.y), Shape!At(b.x, a.y)) <=> mx < b.x
      BY <1>2, <1>3, <1>4, UprightEdge
    <2> QED
      BY <2>1, <2>2, <2>3, <2>4
  <1>8. 2 \notin Edges /\ 4 \notin Edges
    <2>1. Shape!At(b.x, a.y).y = a.y /\ Shape!At(a.x, b.y).y = b.y
      BY <1>2, AtIs
    <2>2. ~CrossedBy(m, t[2], t[1]) /\ ~CrossedBy(m, t[4], t[3])
      <3> HIDE DEF a, b, m
      <3> QED
        BY <1>5, <2>1, LevelEdge
    <2> HIDE DEF a, b, m
    <2> QED
      BY <1>5, <2>2
  <1>9. Edges \subseteq {1, 2, 3, 4}
    <2> HIDE DEF a, b, m
    <2> QED
      BY <1>5
  <1> HIDE DEF Edges
  <1>10. Edges = {1} \/ Edges = {3}
    BY <1>4, <1>7, <1>8, <1>9
  <1>11. Shape!IsOn(m, Shape!PolygonOf(t))
    BY <1>10, OneEdge DEF Edges
  <1>12. m = Shape!Between(a, b)
    BY DEF Shape!Between, mx, my
  <1>13. Shape!Rect(c) = {Shape!PolygonOf(t)}
    BY DEF Shape!Rect, t
  <1> HIDE DEF m
  <1> QED
    BY <1>11, <1>12, <1>13

\* The edge from p to q is to the right of the origin, told by the way they
\* turn around it.
LEMMA EdgeTurns ==
    ASSUME NEW c \in Whole2D, NEW p \in Whole2D, NEW q \in Whole2D
    PROVE  LET px == p.x - c.x
               py == p.y - c.y
               qx == q.x - c.x
               qy == q.y - c.y
               turn == px * qy - qx * py
           IN  CrossedBy(c, p, q) <=>
                   /\ (py > 0) # (qy > 0)
                   /\ IF qy > py THEN turn > 0 ELSE turn < 0
  <1> DEFINE px == p.x - c.x
             py == p.y - c.y
             qx == q.x - c.x
             qy == q.y - c.y
             l == (c.x - p.x) * (q.y - p.y)
             r == (q.x - p.x) * (c.y - p.y)
  <1>1. /\ c.x \in Int /\ c.y \in Int /\ p.x \in Int /\ p.y \in Int /\ q.x \in Int /\ q.y \in Int
    BY DEF Whole2D
  <1>2. /\ px \in Int /\ py \in Int /\ qx \in Int /\ qy \in Int
        /\ c.x - p.x = -px /\ c.y - p.y = -py /\ q.y - p.y = qy - py /\ q.x - p.x = qx - px
        /\ (p.y > c.y <=> py > 0) /\ (q.y > c.y <=> qy > 0) /\ (q.y > p.y <=> qy > py)
    BY <1>1
  <1>3. l = (-px) * (qy - py) /\ r = (qx - px) * (-py)
    BY <1>2
  <1>4. CrossedBy(c, p, q) <=> /\ (py > 0) # (qy > 0)
                               /\ IF qy > py THEN l < r ELSE l > r
    BY <1>2 DEF CrossedBy
  <1> HIDE DEF px, py, qx, qy, l, r
  <1>5. (-px) * (qy - py) = px * py - px * qy /\ (qx - px) * (-py) = px * py - qx * py
    BY <1>2
  <1>6. px * py \in Int /\ px * qy \in Int /\ qx * py \in Int
    BY <1>2
  <1>7. (l < r <=> px * qy - qx * py > 0) /\ (l > r <=> px * qy - qx * py < 0)
    BY <1>3, <1>5, <1>6
  <1>8. CrossedBy(c, p, q) <=> /\ (py > 0) # (qy > 0)
                               /\ IF qy > py THEN px * qy - qx * py > 0
                                             ELSE px * qy - qx * py < 0
    BY <1>4, <1>7
  <1> QED
    BY <1>8 DEF px, py, qx, qy

\* m is half way from p to n, which is half way from q to r.
Halfway(p, q, r, n, m) ==
    /\ p \in Int /\ q \in Int /\ r \in Int /\ n \in Int /\ m \in Int
    /\ 2 * n = q + r /\ 2 * m = p + n

LEMMA Quarter ==
    ASSUME NEW p, NEW q, NEW r, NEW n, NEW m, Halfway(p, q, r, n, m)
    PROVE  /\ p - m \in Int /\ q - m \in Int /\ r - m \in Int
           /\ r - m = -(2 * (p - m) + (q - m))
           /\ q - p = (q - m) - (p - m) /\ r - p = (r - m) - (p - m)
  <1>1. ASSUME NEW i \in Int, NEW j \in Int, NEW k \in Int, NEW l \in Int, NEW h \in Int,
               2 * l = j + k, 2 * h = i + l
        PROVE  /\ i - h \in Int /\ j - h \in Int /\ k - h \in Int
               /\ k - h = -(2 * (i - h) + (j - h))
               /\ j - i = (j - h) - (i - h) /\ k - i = (k - h) - (i - h)
    BY <1>1
  <1> QED
    BY <1>1 DEF Halfway

LEMMA TriangleHit ==
    ASSUME NEW c \in Seq(Coords), Len(c) = 3, Shape!Area(c[1], c[2], c[3]) > 0
    PROVE  \E f \in Shape!Triangle(c) : Shape!IsOn(Shape!Between(c[1], Shape!Between(c[2], c[3])), f)
  <1> DEFINE p == c[1]
             q == c[2]
             r == c[3]
             nx == (q.x + r.x) \div 2
             ny == (q.y + r.y) \div 2
             mx == (p.x + nx) \div 2
             my == (p.y + ny) \div 2
             m == Shape!At(mx, my)
             Edges == {i \in DOMAIN c : CrossedBy(m, c[i], c[IF i = 1 THEN Len(c) ELSE i - 1])}
             ax == p.x - mx
             ay == p.y - my
             bx == q.x - mx
             by == q.y - my
             ex == r.x - mx
             ey == r.y - my
             k == ax * by - bx * ay
  <1>1. p \in Coords /\ q \in Coords /\ r \in Coords
    OBVIOUS
  <1>2. p \in Whole2D /\ q \in Whole2D /\ r \in Whole2D
    BY <1>1, GridIs
  <1>3. /\ p.x \in Int /\ p.x % 4 = 0 /\ p.y \in Int /\ p.y % 4 = 0
        /\ q.x \in Int /\ q.x % 4 = 0 /\ q.y \in Int /\ q.y % 4 = 0
        /\ r.x \in Int /\ r.x % 4 = 0 /\ r.y \in Int /\ r.y % 4 = 0
    BY <1>1, GridWhole
  <1>4. /\ nx \in Int /\ 2 * nx = q.x + r.x /\ nx % 2 = 0
        /\ ny \in Int /\ 2 * ny = q.y + r.y /\ ny % 2 = 0
    BY <1>3, Middle
  <1> HIDE DEF p, q, r, nx, ny
  <1>5. mx \in Int /\ 2 * mx = p.x + nx /\ my \in Int /\ 2 * my = p.y + ny
    BY <1>3, <1>4, HalfWhole
  <1>6. m \in Whole2D /\ m.x = mx /\ m.y = my
    BY <1>5, AtIs DEF Whole2D, Shape!At
  <1> HIDE DEF m, mx, my
  <1>0. p.x \in Int /\ p.y \in Int /\ q.x \in Int /\ q.y \in Int /\ r.x \in Int /\ r.y \in Int
    BY <1>3
  <1>7. /\ ax \in Int /\ bx \in Int /\ ex \in Int /\ ex = -(2 * ax + bx)
        /\ q.x - p.x = bx - ax /\ r.x - p.x = ex - ax
    <2>1. Halfway(p.x, q.x, r.x, nx, mx)
      BY <1>0, <1>4, <1>5 DEF Halfway
    <2> QED
      BY <2>1, Quarter
  <1>8. /\ ay \in Int /\ by \in Int /\ ey \in Int /\ ey = -(2 * ay + by)
        /\ q.y - p.y = by - ay /\ r.y - p.y = ey - ay
    <2>1. Halfway(p.y, q.y, r.y, ny, my)
      BY <1>0, <1>4, <1>5 DEF Halfway
    <2> QED
      BY <2>1, Quarter
  <1>9. CrossedBy(m, p, r) <=>
              /\ (ay > 0) # (ey > 0)
              /\ IF ey > ay THEN ax * ey - ex * ay > 0 ELSE ax * ey - ex * ay < 0
    BY <1>2, <1>6, EdgeTurns
  <1>10. CrossedBy(m, q, p) <=>
              /\ (by > 0) # (ay > 0)
              /\ IF ay > by THEN bx * ay - ax * by > 0 ELSE bx * ay - ax * by < 0
    BY <1>2, <1>6, EdgeTurns
  <1>11. CrossedBy(m, r, q) <=>
              /\ (ey > 0) # (by > 0)
              /\ IF by > ey THEN ex * by - bx * ey > 0 ELSE ex * by - bx * ey < 0
    BY <1>2, <1>6, EdgeTurns
  <1>12. Shape!Area(p, q, r) = Shape!Abs((bx - ax) * (ey - ay) - (ex - ax) * (by - ay))
    BY <1>7, <1>8 DEF Shape!Area
  <1>13. Shape!Area(p, q, r) > 0
    BY DEF p, q, r
  <1> HIDE DEF ax, ay, bx, by, ex, ey
  <1>14. /\ k \in Int /\ ax * ey - ex * ay = -k /\ bx * ay - ax * by = -k
         /\ ex * by - bx * ey = -2 * k
         /\ (bx - ax) * (ey - ay) - (ex - ax) * (by - ay) = 4 * k
    BY <1>7, <1>8
  <1>15. ay = 0 /\ by = 0 => k = 0
    BY <1>7, <1>8
  <1> HIDE DEF k
  <1>16. k # 0
    BY <1>12, <1>13, <1>14 DEF Shape!Abs
  <1>17. CrossedBy(m, p, r) <=> (ay > 0) # (ey > 0) /\ (IF ey > ay THEN k < 0 ELSE k > 0)
    BY <1>9, <1>14
  <1>18. CrossedBy(m, q, p) <=> (by > 0) # (ay > 0) /\ (IF ay > by THEN k < 0 ELSE k > 0)
    BY <1>10, <1>14
  <1>19. CrossedBy(m, r, q) <=> (ey > 0) # (by > 0) /\ (IF by > ey THEN k < 0 ELSE k > 0)
    BY <1>11, <1>14
  <1>20. 1 \in Edges <=> CrossedBy(m, p, r)
    BY DEF p, r
  <1>21. 2 \in Edges <=> CrossedBy(m, q, p)
    BY DEF p, q
  <1>22. 3 \in Edges <=> CrossedBy(m, r, q)
    BY DEF q, r
  <1>23. Edges \subseteq {1, 2, 3}
    OBVIOUS
  <1> HIDE DEF Edges
  <1>24. Edges = {1} \/ Edges = {2} \/ Edges = {3}
    <2>1. \/ CrossedBy(m, p, r) /\ ~CrossedBy(m, q, p) /\ ~CrossedBy(m, r, q)
          \/ ~CrossedBy(m, p, r) /\ CrossedBy(m, q, p) /\ ~CrossedBy(m, r, q)
          \/ ~CrossedBy(m, p, r) /\ ~CrossedBy(m, q, p) /\ CrossedBy(m, r, q)
      BY <1>7, <1>8, <1>14, <1>15, <1>16, <1>17, <1>18, <1>19
    <2> QED
      BY <1>20, <1>21, <1>22, <1>23, <2>1
  <1>25. Shape!IsOn(m, Shape!PolygonOf(c))
    BY <1>24, OneEdge DEF Edges
  <1>26. m = Shape!Between(p, Shape!Between(q, r))
    <2>1. Shape!Between(q, r).x = nx /\ Shape!Between(q, r).y = ny
      BY DEF Shape!Between, Shape!At, nx, ny
    <2> QED
      BY <2>1 DEF Shape!Between, m, mx, my
  <1> QED
    BY <1>25, <1>26 DEF Shape!Triangle, p, q, r

-----------------------------------------------------------------------------
(* Shares. *)

LEMMA ShareEnds ==
    ASSUME NEW u \in Int, NEW v \in Int
    PROVE  /\ 0 \in Levels /\ Whole \in Levels
           /\ Shape!Share(u, v, 0) = v /\ Shape!Share(u, v, Whole) = u
           /\ (u * 0) \div Whole = 0 /\ (u * Whole) \div Whole = u
  <1>1. Whole \in Nat \ {0} /\ 0 \in Levels /\ Whole \in Levels
    BY ConstantsAssumption DEF Shape!GridAssumption
  <1>2. ASSUME NEW n \in Int PROVE (n * 0) \div Whole = 0 /\ (n * Whole) \div Whole = n
    <2>1. n * 0 = 0 * Whole + 0 /\ n * Whole = n * Whole + 0 /\ n * Whole \in Int /\ n * 0 \in Int
      BY <1>1
    <2>2. (n * 0) \div Whole = 0
      BY <1>1
    <2>3. (n * Whole) \div Whole = n
      <3> DEFINE w == n * Whole
      <3>1. w = Whole * n + 0 /\ w \in Int
        BY <1>1
      <3> HIDE DEF w
      <3>2. w \div Whole = n
        BY <1>1, <3>1, QuotientIs
      <3> QED
        BY <3>2 DEF w
    <2> QED
      BY <2>2, <2>3
  <1>3. u - v \in Int /\ v + 0 = v /\ v + (u - v) = u
    OBVIOUS
  <1> QED
    BY <1>1, <1>2, <1>3 DEF Shape!Share

LEMMA FibonacciLineHit ==
    ASSUME NEW c \in Seq(Coords), Len(c) = 2
    PROVE  HitAll(c, Shape!FibonacciLine(c))
  <1> DEFINE S == {Shape!Across(Shape!Share(c[1].y, c[2].y, l)) : l \in Levels}
  <1>1. c[1] \in Coords /\ c[2] \in Coords /\ c[1].y \in Int /\ c[2].y \in Int
    BY PointsWhole
  <1>2. Shape!Across(c[1].y) \in S /\ Shape!Across(c[2].y) \in S
    BY <1>1, ShareEnds
  <1>3. Shape!IsOn(c[1], Shape!Across(c[1].y)) /\ Shape!IsOn(c[2], Shape!Across(c[2].y))
    BY <1>1, AcrossHit
  <1>4. Shape!FibonacciLine(c) = S
    BY DEF Shape!FibonacciLine
  <1> HIDE DEF S
  <1> QED
    BY <1>2, <1>3, <1>4, TwoHit

LEMMA FibonacciSegmentHit ==
    ASSUME NEW c \in Seq(Coords), Len(c) = 2
    PROVE  HitAll(c, Shape!FibonacciSegment(c))
  <1> DEFINE level(y) == Shape!LineOf(<<Shape!At(c[1].x, y), Shape!At(c[2].x, y)>>)
             S == {level(Shape!Share(c[1].y, c[2].y, l)) : l \in Levels}
  <1>1. /\ c[1] = Shape!At(c[1].x, c[1].y) /\ c[2] = Shape!At(c[2].x, c[2].y)
        /\ c[1].x \in Int /\ c[1].y \in Int /\ c[2].x \in Int /\ c[2].y \in Int
    BY PointsWhole
  <1>2. level(c[1].y) \in S /\ level(c[2].y) \in S
    <2> HIDE DEF level
    <2> QED
      BY <1>1, ShareEnds
  <1>3. Shape!IsOn(c[1], level(c[1].y))
    <2>1. Shape!OnSegment(Shape!At(c[1].x, c[1].y), Shape!At(c[1].x, c[1].y), Shape!At(c[2].x, c[1].y))
      BY <1>1, AtIs, EndsHit
    <2> QED
      BY <1>1, <2>1, PairIsOn
  <1>4. Shape!IsOn(c[2], level(c[2].y))
    <2>1. Shape!OnSegment(Shape!At(c[2].x, c[2].y), Shape!At(c[1].x, c[2].y), Shape!At(c[2].x, c[2].y))
      BY <1>1, AtIs, EndsHit
    <2> QED
      BY <1>1, <2>1, PairIsOn
  <1>5. Shape!FibonacciSegment(c) = S
    BY DEF Shape!FibonacciSegment
  <1> HIDE DEF S, level
  <1> QED
    BY <1>2, <1>3, <1>4, <1>5, TwoHit

\* Both discs have one that reaches to the second point.
LEMMA DiscsHit ==
    ASSUME NEW name \in Shape!Discs, NEW c \in Seq(Coords), Len(c) = 2
    PROVE  /\ c[1] \in Whole2D /\ c[2] \in Whole2D
           /\ Shape!Disc(c[1], Shape!SquareDistance(c[1], c[2]), Whole) \in Shape!ShapeOf(name, c)
  <1>1. c[1] \in Whole2D /\ c[2] \in Whole2D
    BY PointsWhole
  <1>2. Whole \in Levels \ {0}
    BY ConstantsAssumption DEF Shape!GridAssumption
  <1>3. CASE name = "circle"
    <2>1. Shape!ShapeOf(name, c) = Shape!Circle(c)
      BY <1>3 DEF Shape!ShapeOf
    <2> QED
      BY <1>1, <2>1 DEF Shape!Circle
  <1>4. CASE name = "fibonacciCircle"
    <2>1. Shape!ShapeOf(name, c) = Shape!FibonacciCircle(c)
      BY <1>4 DEF Shape!ShapeOf
    <2> QED
      BY <1>1, <1>2, <2>1 DEF Shape!FibonacciCircle
  <1> QED
    BY <1>3, <1>4 DEF Shape!Discs

LEMMA FanHit ==
    ASSUME NEW c \in Seq(Coords), Len(c) = 2
    PROVE  HitAll(c, Shape!FibonacciSpeedResistanceFan(c))
  <1> DEFINE a == c[1]
             b == c[2]
             x(l) == Shape!Share(a.x, b.x, l)
             y(l) == Shape!Share(a.y, b.y, l)
             upright(v) == Shape!LineOf(<<Shape!At(v, a.y), Shape!At(v, b.y)>>)
             figures(l) == {Shape!LineOf(<<Shape!At(x(l), a.y), Shape!At(x(l), b.y)>>),
                         Shape!LineOf(<<Shape!At(a.x, y(l)), Shape!At(b.x, y(l))>>)}
                        \cup Shape!Ray(a, Shape!At(x(l), b.y)) \cup Shape!Ray(a, Shape!At(b.x, y(l)))
  <1>1. /\ a = Shape!At(a.x, a.y) /\ b = Shape!At(b.x, b.y)
        /\ a.x \in Int /\ a.y \in Int /\ b.x \in Int /\ b.y \in Int
    BY PointsWhole
  <1>2. Shape!IsOn(a, upright(a.x))
    <2>1. Shape!OnSegment(Shape!At(a.x, a.y), Shape!At(a.x, a.y), Shape!At(a.x, b.y))
      BY <1>1, AtIs, EndsHit
    <2> QED
      BY <1>1, <2>1, PairIsOn
  <1>3. Shape!IsOn(b, upright(b.x))
    <2>1. Shape!OnSegment(Shape!At(b.x, b.y), Shape!At(b.x, a.y), Shape!At(b.x, b.y))
      BY <1>1, AtIs, EndsHit
    <2> QED
      BY <1>1, <2>1, PairIsOn
  <1>4. \A l \in Levels : upright(x(l)) \in figures(l)
    OBVIOUS
  <1>5. x(0) = b.x /\ x(Whole) = a.x /\ 0 \in Levels /\ Whole \in Levels
    BY <1>1, ShareEnds
  <1>6. Shape!FibonacciSpeedResistanceFan(c) = UNION {figures(l) : l \in Levels}
    BY DEF Shape!FibonacciSpeedResistanceFan
  <1> HIDE DEF figures, x, y, upright
  <1>7. /\ upright(a.x) \in Shape!FibonacciSpeedResistanceFan(c)
        /\ upright(b.x) \in Shape!FibonacciSpeedResistanceFan(c)
    BY <1>4, <1>5, <1>6
  <1> QED
    BY <1>2, <1>3, <1>7, TwoHit

LEMMA GannHit ==
    ASSUME NEW c \in Seq(Coords), Len(c) = 2
    PROVE  HitAll(c, Shape!GannBox(c))
  <1>1. c[1] \in Whole2D /\ c[2] \in Whole2D
    BY PointsWhole
  <1>2. Shape!IsOn(c[1], Shape!LineOf(<<c[1], c[2]>>)) /\ Shape!IsOn(c[2], Shape!LineOf(<<c[1], c[2]>>))
    BY <1>1, EndsHit, PairIsOn
  <1>3. Shape!LineOf(<<c[1], c[2]>>) \in Shape!GannBox(c)
    BY DEF Shape!GannBox
  <1> QED
    BY <1>2, <1>3, TwoHit

-----------------------------------------------------------------------------
(* Every drawing. *)

\* The drawings that are, or hold, one line through all their points.
Through ==
    {"horizontalSegment", "verticalSegment", "segment", "arrow",
     "abcd", "xabcd", "threeWaves", "fiveWaves", "eightWaves",
     "anyWaves", "fibonacciExtension"}

LEMMA ThroughAll ==
    ASSUME NEW name \in Through, NEW c \in Seq(Coords), Len(c) = Shape!PointsOf(name)
    PROVE  HitAll(c, Shape!ShapeOf(name, c))
  <1>1. Len(c) >= 2 /\ (name \in {"horizontalSegment", "verticalSegment", "segment", "arrow"} =>
                           Len(c) = 2)
    BY DEF Shape!PointsOf, Through
  <1>2. Shape!LineOf(c) \in Shape!ShapeOf(name, c)
    <2>1. CASE name = "horizontalSegment"
      <3>1. Shape!ShapeOf(name, c) = Shape!HorizontalSegment(c)
        BY <2>1 DEF Shape!ShapeOf
      <3> QED
        BY <1>1, <2>1, <3>1 DEF Shape!HorizontalSegment
    <2>2. CASE name = "verticalSegment"
      <3>1. Shape!ShapeOf(name, c) = Shape!VerticalSegment(c)
        BY <2>2 DEF Shape!ShapeOf
      <3> QED
        BY <1>1, <2>2, <3>1 DEF Shape!VerticalSegment
    <2>3. CASE name = "segment"
      <3>1. Shape!ShapeOf(name, c) = Shape!Segment(c)
        BY <2>3 DEF Shape!ShapeOf
      <3> QED
        BY <1>1, <2>3, <3>1 DEF Shape!Segment
    <2>4. CASE name = "arrow"
      <3>1. Shape!ShapeOf(name, c) = Shape!Arrow(c)
        BY <2>4 DEF Shape!ShapeOf
      <3> QED
        BY <1>1, <2>4, <3>1 DEF Shape!Arrow
    <2>5. CASE name = "abcd"
      <3>1. Shape!ShapeOf(name, c) = Shape!Abcd(c)
        BY <2>5 DEF Shape!ShapeOf
      <3> QED
        BY <1>1, <2>5, <3>1 DEF Shape!Abcd
    <2>6. CASE name = "xabcd"
      <3>1. Shape!ShapeOf(name, c) = Shape!Xabcd(c)
        BY <2>6 DEF Shape!ShapeOf
      <3> QED
        BY <1>1, <2>6, <3>1 DEF Shape!Xabcd
    <2>7. CASE name = "threeWaves"
      <3>1. Shape!ShapeOf(name, c) = Shape!ThreeWaves(c)
        BY <2>7 DEF Shape!ShapeOf
      <3> QED
        BY <1>1, <2>7, <3>1 DEF Shape!ThreeWaves
    <2>8. CASE name = "fiveWaves"
      <3>1. Shape!ShapeOf(name, c) = Shape!FiveWaves(c)
        BY <2>8 DEF Shape!ShapeOf
      <3> QED
        BY <1>1, <2>8, <3>1 DEF Shape!FiveWaves
    <2>9. CASE name = "eightWaves"
      <3>1. Shape!ShapeOf(name, c) = Shape!EightWaves(c)
        BY <2>9 DEF Shape!ShapeOf
      <3> QED
        BY <1>1, <2>9, <3>1 DEF Shape!EightWaves
    <2>10. CASE name = "anyWaves"
      <3>1. Shape!ShapeOf(name, c) = Shape!AnyWaves(c)
        BY <2>10 DEF Shape!ShapeOf
      <3> QED
        BY <1>1, <2>10, <3>1 DEF Shape!AnyWaves
    <2>11. CASE name = "fibonacciExtension"
      <3>1. Shape!ShapeOf(name, c) = Shape!FibonacciExtension(c)
        BY <2>11 DEF Shape!ShapeOf
      <3> QED
        BY <1>1, <2>11, <3>1 DEF Shape!FibonacciExtension
    <2> QED
      BY <2>1, <2>2, <2>3, <2>4, <2>5, <2>6, <2>7, <2>8, <2>9, <2>10, <2>11 DEF Through
  <1> QED
    BY <1>1, <1>2, ThroughHit

\* The drawings of two points that are made of other lines.
OfTwo ==
    {"horizontalRayLine", "verticalRayLine", "straightLine", "gannBox",
     "fibonacciLine", "fibonacciSegment", "fibonacciSpeedResistanceFan",
     "rayLine", "fibonacciSpiral"}

LEMMA TwoAll ==
    ASSUME NEW name \in OfTwo, NEW c \in Seq(Coords), Len(c) = Shape!PointsOf(name),
           name = "horizontalRayLine" => c[1].y = c[2].y,
           name = "verticalRayLine" => c[1].x = c[2].x
    PROVE  HitAll(c, Shape!ShapeOf(name, c))
  <1>1. Len(c) = 2
    BY DEF Shape!PointsOf, OfTwo
  <1>2. c[1] \in Coords /\ c[2] \in Coords /\ c[1] \in Whole2D /\ c[2] \in Whole2D
    BY <1>1, PointsWhole
  <1>3. CASE name = "horizontalRayLine"
    <2>1. Shape!ShapeOf(name, c) = Shape!HorizontalRay(c)
      BY <1>3 DEF Shape!ShapeOf
    <2> QED
      BY <1>1, <1>3, <2>1, HorizontalRayHit
  <1>4. CASE name = "verticalRayLine"
    <2>1. Shape!ShapeOf(name, c) = Shape!VerticalRay(c)
      BY <1>4 DEF Shape!ShapeOf
    <2> QED
      BY <1>1, <1>4, <2>1, VerticalRayHit
  <1>5. CASE name = "straightLine"
    <2>1. Shape!ShapeOf(name, c) = Shape!StraightLine(c)
      BY <1>5 DEF Shape!ShapeOf
    <2> QED
      BY <1>1, <1>5, <2>1, StraightHit
  <1>6. CASE name = "gannBox"
    <2>1. Shape!ShapeOf(name, c) = Shape!GannBox(c)
      BY <1>6 DEF Shape!ShapeOf
    <2> QED
      BY <1>1, <1>6, <2>1, GannHit
  <1>7. CASE name = "fibonacciLine"
    <2>1. Shape!ShapeOf(name, c) = Shape!FibonacciLine(c)
      BY <1>7 DEF Shape!ShapeOf
    <2> QED
      BY <1>1, <1>7, <2>1, FibonacciLineHit
  <1>8. CASE name = "fibonacciSegment"
    <2>1. Shape!ShapeOf(name, c) = Shape!FibonacciSegment(c)
      BY <1>8 DEF Shape!ShapeOf
    <2> QED
      BY <1>1, <1>8, <2>1, FibonacciSegmentHit
  <1>10. CASE name = "fibonacciSpeedResistanceFan"
    <2>1. Shape!ShapeOf(name, c) = Shape!FibonacciSpeedResistanceFan(c)
      BY <1>10 DEF Shape!ShapeOf
    <2> QED
      BY <1>1, <1>10, <2>1, FanHit
  <1>11. CASE name = "rayLine"
    <2>1. Shape!ShapeOf(name, c) = Shape!Ray(c[1], c[2])
      BY <1>1, <1>11 DEF Shape!ShapeOf, Shape!RayLine
    <2> QED
      BY <1>1, <1>2, <2>1, RayHit, TwoHit
  <1>12. CASE name = "fibonacciSpiral"
    <2>1. Shape!ShapeOf(name, c) = Shape!Ray(c[1], c[2])
      BY <1>1, <1>12 DEF Shape!ShapeOf, Shape!FibonacciSpiral
    <2> QED
      BY <1>1, <1>2, <2>1, RayHit, TwoHit
  <1> QED
    BY <1>3, <1>4, <1>5, <1>6, <1>7, <1>8, <1>10, <1>11, <1>12 DEF OfTwo

LEMMA OneAll ==
    ASSUME NEW name \in {"horizontalStraightLine", "verticalStraightLine", "priceLine"},
           NEW c \in Seq(Coords), Len(c) = Shape!PointsOf(name)
    PROVE  HitAll(c, Shape!ShapeOf(name, c))
  <1>1. Len(c) = 1
    BY DEF Shape!PointsOf
  <1>2. c[1] \in Coords
    BY <1>1, PointsWhole
  <1>3. CASE name = "horizontalStraightLine"
    <2>1. Shape!ShapeOf(name, c) = {Shape!Across(c[1].y)}
      BY <1>3 DEF Shape!ShapeOf, Shape!HorizontalStraight
    <2> QED
      BY <1>1, <1>2, <2>1, AcrossHit, OneHit
  <1>4. CASE name = "verticalStraightLine"
    <2>1. Shape!ShapeOf(name, c) = {Shape!UpAndDown(c[1].x)}
      BY <1>4 DEF Shape!ShapeOf, Shape!VerticalStraight
    <2> QED
      BY <1>1, <1>2, <2>1, AcrossHit, OneHit
  <1>5. CASE name = "priceLine"
    <2>1. Shape!ShapeOf(name, c) = Shape!PriceLine(c)
      BY <1>5 DEF Shape!ShapeOf
    <2> QED
      BY <1>1, <2>1, PriceLineHit
  <1> QED
    BY <1>3, <1>4, <1>5

LEMMA ShapeShows == ShapeInv => Shape!HitAtItsPoints
  <1> SUFFICES ASSUME ShapeInv, Shape!Finished PROVE Shape!HitAtItsPoints
    BY DEF Shape!HitAtItsPoints
  <1>1. tool \in Shape!Names /\ points \in Seq(Coords) /\ Len(points) = Shape!PointsOf(tool)
    BY DEF ShapeInv, Shape!Finished
  <1>2. /\ tool \in {"parallelStraightLine", "priceChannelLine", "triangle"} => Len(points) = 3
        /\ tool = "rect" => Len(points) = 2
    BY <1>1 DEF Shape!PointsOf
  <1>3. /\ tool = "parallelStraightLine" => Shape!ShapeOf(tool, points) = Shape!ParallelLines(points, 0)
        /\ tool = "priceChannelLine" => Shape!ShapeOf(tool, points) = Shape!ParallelLines(points, 1)
    BY DEF Shape!ShapeOf, Shape!ParallelStraightLine, Shape!PriceChannelLine
  <1>4. /\ tool = "rect" => Shape!ShapeOf(tool, points) = Shape!Rect(points)
        /\ tool = "triangle" => Shape!ShapeOf(tool, points) = Shape!Triangle(points)
    BY DEF Shape!ShapeOf
  <1>5. tool \notin Shape!Filled \cup Shape!Discs \cup {"parallelogram"} => \A i \in DOMAIN points : Shape!Hit(points[i])
    <2> SUFFICES ASSUME tool \notin Shape!Filled \cup Shape!Discs \cup {"parallelogram"}
                 PROVE  HitAll(points, Shape!ShapeOf(tool, points))
      BY DEF HitAll, Shape!Hit
    <2>1. CASE tool \in Through
      BY <1>1, <2>1, ThroughAll
    <2>2. CASE tool \in OfTwo
      <3>1. Len(points) = 2
        BY <1>1, <2>2 DEF Shape!PointsOf, OfTwo
      <3>2. /\ tool = "horizontalRayLine" => points[1].y = points[2].y
            /\ tool = "verticalRayLine" => points[1].x = points[2].x
        BY <3>1 DEF ShapeInv, Level, Upright
      <3> QED
        BY <1>1, <2>2, <3>2, TwoAll
    <2>3. CASE tool \in {"horizontalStraightLine", "verticalStraightLine", "priceLine"}
      BY <1>1, <2>3, OneAll
    <2>4. CASE tool = "parallelStraightLine"
      BY <1>1, <1>2, <1>3, <2>4, ParallelHit
    <2>5. CASE tool = "priceChannelLine"
      BY <1>1, <1>2, <1>3, <2>5, ParallelHit
    <2> QED
      BY <1>1, <2>1, <2>2, <2>3, <2>4, <2>5 DEF Shape!Names, Through, OfTwo, Shape!Filled, Shape!Discs
  <1>6. tool = "priceChannelLine" => Shape!Hit(Shape!Mirrored(points[1], points[2], points[3]))
    BY <1>1, <1>2, <1>3, ParallelHit DEF Shape!Hit
  <1>7. tool = "rect" /\ points[1].x # points[2].x /\ points[1].y # points[2].y =>
            Shape!Hit(Shape!Between(points[1], points[2]))
    BY <1>1, <1>2, <1>4, RectHit DEF Shape!Hit
  <1>8. tool = "triangle" /\ Shape!Area(points[1], points[2], points[3]) > 0 =>
            Shape!Hit(Shape!Between(points[1], Shape!Between(points[2], points[3])))
    BY <1>1, <1>2, <1>4, TriangleHit DEF Shape!Hit
  <1>9. ASSUME tool \in Shape!Discs
        PROVE  LET rim == Shape!SquareDistance(points[1], points[2])
               IN  /\ Shape!WholeRoot(rim) => Shape!Hit(points[2])
                   /\ \A x \in Columns, y \in Rows :
                         Shape!SquareDistance(Shape!At(x, y), points[1]) < rim => Shape!Hit(Shape!At(x, y))
    <2> DEFINE disc == Shape!Disc(points[1], Shape!SquareDistance(points[1], points[2]), Whole)
    <2>1. points[1] \in Whole2D /\ points[2] \in Whole2D /\ disc \in Shape!ShapeOf(tool, points)
      <3>1. Len(points) = 2
        BY <1>1, <1>9 DEF Shape!PointsOf, Shape!Discs
      <3> QED
        BY <1>1, <1>9, <3>1, DiscsHit
    <2>2. \A p : Shape!IsOn(p, disc) => Shape!Hit(p)
      BY <2>1 DEF Shape!Hit
    <2>3. ASSUME NEW x \in Columns, NEW y \in Rows PROVE Shape!At(x, y) \in Whole2D
      <3>1. x \in Int /\ y \in Int
        BY ConstantsAssumption DEF Shape!GridAssumption
      <3> QED
        BY <3>1, AtIs
    <2> QED
      BY <2>1, <2>2, <2>3, DiscHit
  <1> QED
    BY <1>5, <1>6, <1>7, <1>8, <1>9 DEF Shape!HitAtItsPoints

Shaped == part = "shape" => ShapeInv

\* A finished drawing is hit at the points it was put at, or inside, a disc
\* inside and where its radius is whole at its rim; for every template, every
\* sheet and every grid of points on it whose slopes are exact, all shares and
\* any rounding of roots that are not whole.
THEOREM ShapesHit == Spec => []HitAtItsPoints
  <1>1. Init => Shaped
    BY ShapeBegins DEF Init, Shaped
  <1>2. Shaped /\ [Next]_vars => Shaped'
    <2>1. ASSUME Shaped, [Next]_vars, part' = "shape"
          PROVE  part = "shape" /\ [Shape!Next]_(Shape!vars)
      BY <2>1 DEF Next, InHand, InDraw, InScale, InRulers, InLine, InShape, InTips, vars, shapeVars, Shape!vars
    <2> QED
      BY <2>1, ShapeStep DEF Shaped
  <1>3. Shaped => HitAtItsPoints
    BY ShapeShows DEF Shaped, HitAtItsPoints
  <1> QED
    BY <1>1, <1>2, <1>3, PTL DEF Spec
-----------------------------------------------------------------------------
(* Legends: what is drawn, and where the pen is (Tooltips).                *)

Items == [kind : {"text", "icon", "rect", "line"}, owner : Tips!Owners \cup {None},
          id : STRING \cup {None}, x : Int, y : Int, w : Nat, h : Nat]
Pens == [x : Int, y : Int, row : Nat, right : Int, drawn : Seq(Items)]
Records == [title : Nat, value : Nat]
Icons == [id : STRING, position : STRING, size : Nat]
Styles == [left : Nat, top : Nat, right : Nat, bottom : Nat, size : Nat]

\* What is drawn later than a lies beside it or below it, an icon with a gap.
Clear(a, b) ==
    IF b.kind = "icon" THEN a.x + a.w < b.x \/ a.y + a.h < b.y
                       ELSE a.x + a.w <= b.x \/ a.y + a.h <= b.y
Separate(s) ==
    \A k, n \in DOMAIN s :
        k < n /\ s[k].kind # "rect" /\ s[n].kind # "rect" => Clear(s[k], s[n])

\* A text that reaches beyond the room begins a row.
Wraps(d, right) ==
    d.kind = "text" => d.x + d.w <= right \/ d.x - Offset.left \in {Text.left, Title.left}

\* Everything drawn is above the row of the pen or in it and left of the pen.
Above(d, pen) ==
    /\ d.kind \in {"text", "icon"}
    /\ d.y + d.h <= pen.y + pen.row
    /\ d.y + d.h <= pen.y \/ d.x + d.w <= pen.x
    /\ Wraps(d, pen.right)
SoundPen(pen) == Separate(pen.drawn) /\ \A k \in DOMAIN pen.drawn : Above(pen.drawn[k], pen)

StartsWith(r, s) == Len(r) <= Len(s) /\ \A k \in 1..Len(r) : s[k] = r[k]
Mark(d) == <<d.kind, d.owner, d.id>>

\* The pens that have drawn some more, of those marks.
Onward(pen, S) ==
    {p \in Pens : /\ SoundPen(p) /\ p.right = pen.right /\ StartsWith(pen.drawn, p.drawn)
                  /\ \A k \in (Len(pen.drawn) + 1)..Len(p.drawn) : Mark(p.drawn[k]) \in S}

LEMMA StylesAre ==
    /\ Text \in Styles /\ Title \in Styles /\ Text.left > 0 /\ Text.top > 0
    /\ Offset.left \in Nat /\ Offset.top \in Nat /\ Offset.right \in Nat /\ Offset.bottom \in Nat
    /\ LastBar \in Nat \ {0}
  <1>1. Offset \in [left : Nat, top : Nat, right : Nat, bottom : Nat]
    BY ConstantsAssumption DEF Tips!StylesAssumption
  <1>2. {Title, Text} \subseteq Styles /\ {Text.left, Text.top} \subseteq Nat \ {0}
    BY ConstantsAssumption DEF Tips!StylesAssumption, Styles
  <1>3. LastBar \in Nat \ {0}
    BY ConstantsAssumption DEF Tips!LegendsAssumption
  <1>4. /\ Offset.left \in Nat /\ Offset.top \in Nat
        /\ Offset.right \in Nat /\ Offset.bottom \in Nat
    BY ONLY <1>1
  <1>5. Text.left > 0 /\ Text.top > 0
    BY ONLY <1>2
  <1> QED
    BY <1>2, <1>3, <1>4, <1>5

LEMMA GreaterOfTwo ==
    ASSUME NEW a \in Int, NEW b \in Int
    PROVE  Tips!Max({a, b}) \in {a, b} /\ Tips!Max({a, b}) >= a /\ Tips!Max({a, b}) >= b
  <1> DEFINE Top(x) == x \in {a, b} /\ \A y \in {a, b} : x >= y
  <1>1. \E x : Top(x)
    <2>1. Top(a) \/ Top(b)
      OBVIOUS
    <2> QED
      BY <2>1
  <1>2. Tips!Max({a, b}) = CHOOSE x : Top(x)
    BY DEF Tips!Max
  <1>3. Top(Tips!Max({a, b}))
    <2> HIDE DEF Top
    <2> QED
      BY <1>1, <1>2
  <1> QED
    BY <1>3

LEMMA LeastOfTwo ==
    ASSUME NEW a \in Int, NEW b \in Int
    PROVE  Tips!Min({a, b}) \in {a, b}
  <1> DEFINE Low(x) == x \in {a, b} /\ \A y \in {a, b} : x <= y
  <1>1. \E x : Low(x)
    <2>1. Low(a) \/ Low(b)
      OBVIOUS
    <2> QED
      BY <2>1
  <1>2. Tips!Min({a, b}) = CHOOSE x : Low(x)
    BY DEF Tips!Min
  <1>3. Low(Tips!Min({a, b}))
    <2> HIDE DEF Low
    <2> QED
      BY <1>1, <1>2
  <1> QED
    BY <1>3

LEMMA OnwardSelf ==
    ASSUME NEW pen \in Pens, SoundPen(pen), NEW S
    PROVE  pen \in Onward(pen, S)
  <1>1. pen.drawn \in Seq(Items)
    BY DEF Pens
  <1>2. Len(pen.drawn) \in Nat
    BY <1>1
  <1> QED
    BY <1>2 DEF Onward, StartsWith

LEMMA OnwardOn ==
    ASSUME NEW pen \in Pens, NEW S, NEW T, S \subseteq T,
           NEW p \in Onward(pen, S), NEW q \in Onward(p, T)
    PROVE  q \in Onward(pen, T)
  <1>1. /\ p \in Pens /\ q \in Pens /\ StartsWith(pen.drawn, p.drawn) /\ StartsWith(p.drawn, q.drawn)
        /\ SoundPen(q) /\ q.right = pen.right
        /\ \A k \in (Len(pen.drawn) + 1)..Len(p.drawn) : Mark(p.drawn[k]) \in S
        /\ \A k \in (Len(p.drawn) + 1)..Len(q.drawn) : Mark(q.drawn[k]) \in T
    BY DEF Onward
  <1> DEFINE a == pen.drawn
             b == p.drawn
             c == q.drawn
  <1>2. Len(a) \in Nat /\ Len(b) \in Nat /\ Len(c) \in Nat
    BY <1>1 DEF Pens
  <1>3. Len(a) <= Len(b) /\ Len(b) <= Len(c)
    BY <1>1 DEF StartsWith
  <1>4. StartsWith(a, c)
    <2>1. \A k \in 1..Len(a) : k \in 1..Len(b) /\ b[k] = a[k]
      BY <1>1, <1>2, <1>3 DEF StartsWith
    <2>2. \A k \in 1..Len(b) : c[k] = b[k]
      BY <1>1 DEF StartsWith
    <2> HIDE DEF a, b, c
    <2> QED
      BY <1>2, <1>3, <2>1, <2>2 DEF StartsWith
  <1>5. ASSUME NEW k \in (Len(a) + 1)..Len(c) PROVE Mark(c[k]) \in T
    <2>1. CASE k <= Len(b)
      <3>1. k \in 1..Len(b) /\ k \in (Len(a) + 1)..Len(b)
        BY <1>2, <2>1
      <3>2. c[k] = b[k]
        BY <1>1, <3>1 DEF StartsWith
      <3> QED
        BY <1>1, <3>1, <3>2
    <2>2. CASE ~(k <= Len(b))
      <3>1. k \in (Len(b) + 1)..Len(c)
        BY <1>2, <2>2
      <3> QED
        BY <1>1, <3>1
    <2> QED
      BY <2>1, <2>2
  <1> QED
    BY <1>1, <1>4, <1>5 DEF Onward

-----------------------------------------------------------------------------
(* One more item. *)

LEMMA PenIs ==
    ASSUME NEW pen \in Pens
    PROVE  /\ pen.x \in Int /\ pen.y \in Int /\ pen.row \in Nat /\ pen.right \in Int
           /\ pen.drawn \in Seq(Items)
  BY DEF Pens

LEMMA ItemIs ==
    ASSUME NEW d \in Items
    PROVE  d.x \in Int /\ d.y \in Int /\ d.w \in Nat /\ d.h \in Nat
  BY DEF Items

LEMMA PenShape ==
    ASSUME NEW pen \in Pens
    PROVE  /\ DOMAIN pen = {"x", "y", "row", "right", "drawn"}
           /\ pen = [x |-> pen.x, y |-> pen.y, row |-> pen.row, right |-> pen.right,
                     drawn |-> pen.drawn]
  BY DEF Pens

\* What is above a pen is above it further on.
LEMMA AboveStays ==
    ASSUME NEW d \in Items, NEW p \in Pens, NEW q \in Pens, Above(d, p), q.right = p.right,
           \/ q.y = p.y /\ p.row <= q.row /\ p.x <= q.x
           \/ q.y = p.y + p.row
    PROVE  Above(d, q)
  <1>1. /\ d.kind \in {"text", "icon"} /\ d.y + d.h <= p.y + p.row
        /\ d.y + d.h <= p.y \/ d.x + d.w <= p.x
        /\ Wraps(d, p.right)
    BY DEF Above
  <1>2. /\ p.x \in Int /\ p.y \in Int /\ p.row \in Nat
        /\ q.x \in Int /\ q.y \in Int /\ q.row \in Nat
        /\ d.x \in Int /\ d.y \in Int /\ d.w \in Nat /\ d.h \in Nat
    BY PenIs, ItemIs
  <1>3. d.y + d.h <= q.y + q.row /\ (d.y + d.h <= q.y \/ d.x + d.w <= q.x)
    <2>1. CASE q.y = p.y /\ p.row <= q.row /\ p.x <= q.x
      BY ONLY <1>1, <1>2, <2>1
    <2>2. CASE q.y = p.y + p.row
      BY ONLY <1>1, <1>2, <2>2
    <2> QED
      BY <2>1, <2>2
  <1> QED
    BY <1>1, <1>3 DEF Above

LEMMA ClearOf ==
    ASSUME NEW a \in Items, NEW d \in Items, NEW p \in Pens, Above(a, p),
           p.y <= d.y, p.x <= d.x, d.kind = "icon" => p.x < d.x /\ p.y < d.y
    PROVE  Clear(a, d)
  <1>1. a.y + a.h <= p.y \/ a.x + a.w <= p.x
    BY DEF Above
  <1> QED
    BY <1>1, PenIs, ItemIs DEF Clear

LEMMA PenPasses ==
    ASSUME NEW pen \in Pens, NEW d \in Items, NEW w \in Int
    PROVE  /\ Tips!Drawn(pen, d, w) \in Pens /\ Tips!Drawn(pen, d, w).x = pen.x + w
           /\ Tips!Drawn(pen, d, w).y = pen.y /\ Tips!Drawn(pen, d, w).row = pen.row
           /\ Tips!Drawn(pen, d, w).right = pen.right
           /\ Tips!Drawn(pen, d, w).drawn = Append(pen.drawn, d)
  <1> DEFINE t == Append(pen.drawn, d)
             x == pen.x + w
             q == [pen EXCEPT !.x = x, !.drawn = t]
  <1>1. t \in Seq(Items) /\ x \in Int
    BY PenIs
  <1>2. Tips!Drawn(pen, d, w) = q
    BY DEF Tips!Drawn
  <1> HIDE DEF t, x
  <1>3. /\ q \in Pens /\ q.x = x /\ q.y = pen.y /\ q.row = pen.row /\ q.right = pen.right
        /\ q.drawn = t
    BY <1>1, PenShape, PenIs DEF Pens
  <1> HIDE DEF q
  <1> QED
    BY <1>2, <1>3 DEF t, x

\* What is set at the pen, in its row, and passed by it, leaves a sound pen.
LEMMA SetDown ==
    ASSUME NEW pen \in Pens, NEW d \in Items, NEW w \in Nat, SoundPen(pen),
           d.kind \in {"text", "icon"},
           pen.y <= d.y, d.y + d.h <= pen.y + pen.row, pen.x <= d.x, d.x + d.w <= pen.x + w,
           d.kind = "icon" => pen.x < d.x /\ pen.y < d.y,
           Wraps(d, pen.right)
    PROVE  /\ Tips!Drawn(pen, d, w) \in Onward(pen, {Mark(d)})
           /\ Tips!Drawn(pen, d, w).y = pen.y /\ Tips!Drawn(pen, d, w).row = pen.row
  <1> DEFINE s == pen.drawn
             n == Len(s)
             q == Tips!Drawn(pen, d, w)
  <1>1. /\ s \in Seq(Items) /\ n \in Nat /\ DOMAIN s = 1..n /\ n = Len(s)
        /\ pen.x \in Int /\ pen.y \in Int /\ pen.row \in Nat /\ pen.right \in Int
        /\ d.x \in Int /\ d.y \in Int /\ d.w \in Nat /\ d.h \in Nat
    BY PenIs, ItemIs
  <1>2. /\ q \in Pens /\ q.x = pen.x + w /\ q.y = pen.y /\ q.row = pen.row
        /\ q.right = pen.right /\ q.drawn = Append(s, d)
    BY PenPasses
  <1> HIDE DEF q
  <1>3. /\ Len(q.drawn) = n + 1 /\ DOMAIN q.drawn = 1..(n + 1) /\ q.drawn[n + 1] = d
        /\ \A k \in 1..n : q.drawn[k] = s[k]
    BY <1>1, <1>2
  <1>4. \A k \in 1..n : s[k] \in Items
    BY <1>1
  <1>5. ASSUME NEW k \in 1..n PROVE Above(s[k], q) /\ Clear(s[k], d)
    <2>1. s[k] \in Items /\ Above(s[k], pen)
      BY <1>1, <1>4 DEF SoundPen
    <2>2. Above(s[k], q)
      <3>1. q.y = pen.y /\ pen.row <= q.row /\ pen.x <= q.x
        BY <1>1, <1>2
      <3> QED
        BY <1>2, <2>1, <3>1, AboveStays
    <2>3. Clear(s[k], d)
      BY <2>1, ClearOf
    <2> QED
      BY <2>2, <2>3
  <1>6. Above(d, q)
    BY <1>1, <1>2 DEF Above
  <1>7. Separate(q.drawn)
    <2> SUFFICES ASSUME NEW k \in 1..(n + 1), NEW j \in 1..(n + 1), k < j,
                        q.drawn[k].kind # "rect", q.drawn[j].kind # "rect"
                 PROVE  Clear(q.drawn[k], q.drawn[j])
      BY <1>3 DEF Separate
    <2>1. k \in 1..n
      BY <1>1
    <2>2. CASE j = n + 1
      <3>1. q.drawn[k] = s[k] /\ q.drawn[j] = d
        BY <1>3, <2>1, <2>2
      <3> QED
        BY <1>5, <2>1, <3>1
    <2>3. CASE j \in 1..n
      <3>1. q.drawn[k] = s[k] /\ q.drawn[j] = s[j] /\ j \in DOMAIN s /\ k \in DOMAIN s
        BY <1>1, <1>3, <2>1, <2>3
      <3> QED
        BY <3>1 DEF Separate, SoundPen
    <2>4. j = n + 1 \/ j \in 1..n
      <3>1. j \in Int /\ 1 <= j /\ j <= n + 1 /\ n \in Int
        BY <1>1
      <3> HIDE DEF n
      <3> QED
        BY <3>1
    <2> QED
      BY <2>2, <2>3, <2>4
  <1>8. \A k \in DOMAIN q.drawn : Above(q.drawn[k], q)
    <2> SUFFICES ASSUME NEW k \in DOMAIN q.drawn PROVE Above(q.drawn[k], q)
      OBVIOUS
    <2>1. CASE k = n + 1
      BY <1>3, <1>6, <2>1
    <2>2. CASE k # n + 1
      <3>1. k \in 1..n
        BY <1>1, <1>3, <2>2
      <3>2. q.drawn[k] = s[k]
        BY <1>3, <3>1
      <3> QED
        BY <1>5, <3>1, <3>2
    <2> QED
      BY <2>1, <2>2
  <1>9. SoundPen(q)
    BY <1>7, <1>8 DEF SoundPen
  <1>10. StartsWith(s, q.drawn)
    BY <1>1, <1>3, SMTT(30) DEF StartsWith
  <1>11. \A k \in (n + 1)..Len(q.drawn) : Mark(q.drawn[k]) \in {Mark(d)}
    <2>1. \A k \in (n + 1)..Len(q.drawn) : k = n + 1
      BY <1>1, <1>3
    <2> QED
      BY <1>3, <2>1
  <1>12. q \in Onward(pen, {Mark(d)})
    BY <1>2, <1>9, <1>10, <1>11 DEF Onward
  <1> QED
    BY <1>2, <1>12 DEF q

\* A row of its own, or room in this one: nothing drawn is in the way.
LEMMA RoomMade ==
    ASSUME NEW pen \in Pens, SoundPen(pen), NEW w, NEW h \in Nat
    PROVE  LET q == Tips!MakeRoom(pen, w, h)
           IN  /\ q \in Pens /\ SoundPen(q) /\ q.drawn = pen.drawn /\ q.right = pen.right
               /\ h <= q.row
               /\ w \in Int => q.x + w <= q.right \/ q.x = Offset.left
               /\ pen.row = 0 => q.y = pen.y
  <1> DEFINE q == Tips!MakeRoom(pen, w, h)
             s == pen.drawn
  <1>1. /\ s \in Seq(Items) /\ pen.x \in Int /\ pen.y \in Int /\ pen.row \in Nat
        /\ pen.right \in Int /\ Offset.left \in Int
    BY StylesAre DEF Pens
  <1>2. \A k \in DOMAIN s : s[k] \in Items /\ Above(s[k], pen)
    BY <1>1 DEF SoundPen
  <1>3. Tips!Max({pen.row, h}) \in Nat /\ Tips!Max({pen.row, h}) >= pen.row /\ Tips!Max({pen.row, h}) >= h
    <2>1. pen.row \in Int /\ h \in Int
      BY <1>1
    <2>2. Tips!Max({pen.row, h}) \in {pen.row, h}
      BY <2>1, GreaterOfTwo
    <2>3. Tips!Max({pen.row, h}) >= pen.row /\ Tips!Max({pen.row, h}) >= h
      BY <2>1, GreaterOfTwo
    <2> QED
      BY <1>1, <2>2, <2>3
  <1>4. CASE pen.x + w > pen.right
    <2>1. q = [pen EXCEPT !.x = Offset.left, !.y = @ + pen.row, !.row = h]
      BY <1>4 DEF Tips!MakeRoom
    <2>2. /\ q \in Pens /\ q.x = Offset.left /\ q.y = pen.y + pen.row /\ q.row = h
          /\ q.right = pen.right /\ q.drawn = s
      <3>1. pen.y + pen.row \in Int
        BY <1>1
      <3> QED
        BY <1>1, <2>1, <3>1, PenShape DEF Pens
    <2> HIDE DEF q
    <2>3. ASSUME NEW k \in DOMAIN s PROVE Above(s[k], q)
      BY <1>2, <2>2, AboveStays
    <2>4. SoundPen(q)
      BY <2>2, <2>3 DEF SoundPen
    <2> QED
      BY <1>1, <2>2, <2>4 DEF q
  <1>5. CASE ~(pen.x + w > pen.right)
    <2>1. q = [pen EXCEPT !.row = Tips!Max({@, h})]
      BY <1>5 DEF Tips!MakeRoom
    <2>2. /\ q \in Pens /\ q.x = pen.x /\ q.y = pen.y /\ q.row = Tips!Max({pen.row, h})
          /\ q.right = pen.right /\ q.drawn = s
      <3> DEFINE m == Tips!Max({pen.row, h})
      <3>1. m \in Nat
        BY <1>3
      <3>2. q = [pen EXCEPT !.row = m]
        BY <2>1
      <3> HIDE DEF m, q
      <3>3. q \in Pens /\ q.row = m
        BY <1>1, <3>1, <3>2, PenShape DEF Pens
      <3> QED
        BY <1>1, <3>2, <3>3, PenShape DEF m
    <2> HIDE DEF q
    <2>3. ASSUME NEW k \in DOMAIN s PROVE Above(s[k], q)
      BY <1>1, <1>2, <1>3, <2>2, AboveStays
    <2>4. SoundPen(q)
      BY <2>2, <2>3 DEF SoundPen
    <2>5. w \in Int => q.x + w <= q.right
      BY <1>1, <1>5, <2>2
    <2> QED
      BY <1>1, <1>3, <2>2, <2>4, <2>5 DEF q
  <1> QED
    BY <1>4, <1>5

\* Pens that have drawn the same go on to the same.
LEMMA OnwardSame ==
    ASSUME NEW pen, NEW p, p.drawn = pen.drawn, p.right = pen.right, NEW S
    PROVE  Onward(p, S) = Onward(pen, S)
  BY DEF Onward

LEMMA OnwardMore ==
    ASSUME NEW pen, NEW S, NEW T, S \subseteq T
    PROVE  Onward(pen, S) \subseteq Onward(pen, T)
  BY DEF Onward

-----------------------------------------------------------------------------
(* Legends. *)

Texts == {"text"} \X Tips!Owners \X {None}

LEMMA LegendDrawn ==
    ASSUME NEW pen \in Pens, SoundPen(pen), NEW owner \in Tips!Owners, NEW legend \in Records,
           NEW s \in {Title, Text}
    PROVE  LET q == Tips!DrawLegend(pen, owner, legend, s)
           IN  q \in Onward(pen, Texts) /\ (pen.row = 0 => q.y = pen.y)
  <1> DEFINE w == s.left + legend.title + legend.value + s.right
             h == s.top + s.size + s.bottom
             p == Tips!MakeRoom(pen, w, h)
             d == Tips!Piece("text", owner, None, p.x + s.left, p.y + s.top,
                        legend.title + legend.value, s.size)
             q == Tips!Drawn(p, d, w)
  <1>1. /\ s.left \in Nat /\ s.top \in Nat /\ s.right \in Nat /\ s.bottom \in Nat
        /\ s.size \in Nat /\ legend.title \in Nat /\ legend.value \in Nat
        /\ s.left \in {Text.left, Title.left}
    BY StylesAre DEF Styles, Records
  <1>2. w \in Nat /\ h \in Nat
    BY <1>1
  <1>3. /\ p \in Pens /\ SoundPen(p) /\ p.drawn = pen.drawn /\ p.right = pen.right /\ h <= p.row
        /\ p.x + w <= p.right \/ p.x = Offset.left
        /\ pen.row = 0 => p.y = pen.y
    <2> HIDE DEF w, h
    <2> QED
      BY <1>2, RoomMade
  <1> HIDE DEF p
  <1>4. p.x \in Int /\ p.y \in Int /\ p.row \in Nat /\ p.right \in Int
    BY <1>3, PenIs
  <1>5. /\ d.kind = "text" /\ d.owner = owner /\ d.id = None /\ d.x = p.x + s.left
        /\ d.y = p.y + s.top /\ d.w = legend.title + legend.value /\ d.h = s.size
    BY DEF Tips!Piece
  <1>6. d \in Items
    BY <1>1, <1>4 DEF Tips!Piece, Items
  <1> HIDE DEF d
  <1>7. Wraps(d, p.right)
    <2>1. CASE p.x + w <= p.right
      BY <1>1, <1>4, <1>5, <2>1 DEF Wraps
    <2>2. CASE p.x = Offset.left
      <3>1. d.x - Offset.left = s.left
        BY <1>1, <1>4, <1>5, <2>2, StylesAre
      <3> QED
        BY <1>1, <3>1 DEF Wraps
    <2> QED
      BY <1>3, <2>1, <2>2
  <1>8. q \in Onward(p, {Mark(d)}) /\ q.y = p.y
    <2>1. p.y <= d.y /\ d.y + d.h <= p.y + p.row /\ p.x <= d.x /\ d.x + d.w <= p.x + w
      BY <1>1, <1>3, <1>4, <1>5
    <2>2. d.kind \in {"text", "icon"} /\ (d.kind = "icon" => p.x < d.x /\ p.y < d.y)
      BY <1>5
    <2> HIDE DEF w
    <2> QED
      BY <1>2, <1>3, <1>6, <1>7, <2>1, <2>2, SetDown
  <1>9. {Mark(d)} \subseteq Texts
    BY <1>5 DEF Mark, Texts
  <1>10. q \in Onward(pen, Texts)
    <2> HIDE DEF q
    <2> QED
      BY <1>3, <1>8, <1>9, OnwardSame, OnwardMore
  <1>11. Tips!DrawLegend(pen, owner, legend, s) = q
    BY DEF Tips!DrawLegend, p, d
  <1> HIDE DEF q
  <1> QED
    BY <1>3, <1>8, <1>10, <1>11

\* One legend after another, each from the pen of the one before.
LEMMA LegendsGoOn ==
    ASSUME NEW pen \in Pens, SoundPen(pen), NEW owner \in Tips!Owners, NEW legends \in Seq(Records),
           NEW s \in {Title, Text}
    PROVE  \E after :
              /\ after[0] = pen /\ after[Len(legends)] = Tips!DrawLegends(pen, owner, legends, s)
              /\ \A k \in 0..Len(legends) : after[k] \in Onward(pen, Texts)
              /\ \A k \in 1..Len(legends) : after[k] = Tips!DrawLegend(after[k - 1], owner, legends[k], s)
  <1> DEFINE n == Len(legends)
             A == Onward(pen, Texts)
             G == [x \in A \X (0..n) |->
                      IF x[2] = 0 THEN pen ELSE Tips!DrawLegend(x[1], owner, legends[x[2]], s)]
             Eq(f) == f = [k \in 0..n |->
                              IF k = 0 THEN pen ELSE Tips!DrawLegend(f[k - 1], owner, legends[k], s)]
             after == CHOOSE f : Eq(f)
  <1>1. n \in Nat /\ 0 \in Int /\ n \in Int /\ DOMAIN legends = 1..n
    OBVIOUS
  <1>2. ASSUME NEW p \in A, NEW k \in 1..n PROVE Tips!DrawLegend(p, owner, legends[k], s) \in A
    <2>1. p \in Pens /\ SoundPen(p) /\ legends[k] \in Records
      BY <1>1 DEF Onward
    <2>2. Tips!DrawLegend(p, owner, legends[k], s) \in Onward(p, Texts)
      BY <2>1, LegendDrawn
    <2> QED
      BY <2>2, OnwardOn
  <1>3. pen \in A
    BY OnwardSelf
  <1> HIDE DEF A
  <1>4. G \in [A \X (0..n) -> A]
    <2> SUFFICES ASSUME NEW x \in A \X (0..n)
                 PROVE  (IF x[2] = 0 THEN pen ELSE Tips!DrawLegend(x[1], owner, legends[x[2]], s)) \in A
      OBVIOUS
    <2>1. x[1] \in A /\ x[2] \in 0..n
      OBVIOUS
    <2>2. x[2] # 0 => x[2] \in 1..n
      BY <1>1, <2>1
    <2> QED
      BY <1>2, <1>3, <2>1, <2>2
  <1>5. PICK f : IsRecursion(f, 0, n, A, pen, G)
    <2> HIDE DEF G
    <2> QED
      BY <1>1, <1>3, <1>4, RecursionExists
  <1>6. f \in [0..n -> A]
    BY <1>5 DEF IsRecursion
  <1>7. ASSUME NEW k \in 0..n
        PROVE  f[k] = IF k = 0 THEN pen ELSE Tips!DrawLegend(f[k - 1], owner, legends[k], s)
    <2>1. f[k] = IF k = 0 THEN pen ELSE G[<<f[k - 1], k>>]
      BY <1>5 DEF IsRecursion
    <2>2. k # 0 => f[k - 1] \in A /\ <<f[k - 1], k>> \in A \X (0..n)
      BY <1>1, <1>6
    <2> QED
      BY <2>1, <2>2
  <1>8. Eq(f)
    BY <1>6, <1>7
  <1>9. Eq(after)
    <2> HIDE DEF Eq
    <2> QED
      BY <1>8
  <1>10. Tips!DrawLegends(pen, owner, legends, s) = after[n]
    BY DEF Tips!DrawLegends
  <1> HIDE DEF after
  <1>11. \A k \in 0..n : after[k] = IF k = 0 THEN pen
                                    ELSE Tips!DrawLegend(after[k - 1], owner, legends[k], s)
    BY <1>9
  <1>12. 0..n \subseteq {k \in 0..n : after[k] \in A}
    <2> DEFINE S == {k \in 0..n : after[k] \in A}
    <2>1. 0 \in S
      BY <1>1, <1>3, <1>11
    <2>2. ASSUME NEW k \in (0 + 1)..n, k - 1 \in S PROVE k \in S
      <3>1. k \in 1..n /\ k \in 0..n /\ k # 0
        BY <1>1
      <3>2. after[k] = Tips!DrawLegend(after[k - 1], owner, legends[k], s)
        BY <1>11, <3>1
      <3> QED
        BY <1>2, <2>2, <3>1, <3>2
    <2> HIDE DEF S
    <2>3. 0..n \subseteq S
      BY <1>1, <2>1, <2>2, IntervalInduction
    <2> QED
      BY <2>3 DEF S
  <1>13. after[0] = pen /\ \A k \in 1..n : after[k] = Tips!DrawLegend(after[k - 1], owner, legends[k], s)
    BY <1>1, <1>11
  <1> QED
    BY <1>10, <1>12, <1>13 DEF A

-----------------------------------------------------------------------------
(* Icons. *)

IconMarks(owner, position) ==
    {<<"icon", owner, IconsOf[owner][k].id>> : k \in Tips!Placed(owner, position)}

LEMMA IconsAre ==
    ASSUME NEW owner \in Tips!Owners
    PROVE  /\ IconsOf[owner] \in Seq(Icons)
           /\ \A k, n \in DOMAIN IconsOf[owner] :
                 IconsOf[owner][k].id = IconsOf[owner][n].id => k = n
  BY ConstantsAssumption DEF Tips!LegendsAssumption, Icons

\* 0 and some numbers have a greatest.
LEMMA GreatestOf ==
    ASSUME NEW n \in Nat, NEW D, D \subseteq 1..n, NEW f, \A k \in D : f[k] \in Nat,
           NEW S, 0 \in S, \A k \in D : f[k] \in S, \A y \in S : y = 0 \/ \E k \in D : y = f[k]
    PROVE  Tips!Max(S) \in Nat /\ \A k \in D : f[k] <= Tips!Max(S)
  <1> DEFINE g == [k \in 0..n |-> IF k \in D THEN f[k] ELSE 0]
             Top(x) == x \in S /\ \A y \in S : x >= y
  <1>1. /\ \A k \in 0..n : g[k] \in Nat
        /\ \A k \in 0..n : g[k] \in S
        /\ \A y \in S : \E k \in 0..n : y = g[k]
    <2>1. \A k \in 0..n : g[k] = IF k \in D THEN f[k] ELSE 0
      OBVIOUS
    <2>2. 0 \in 0..n /\ 0 \notin D /\ \A k \in D : k \in 0..n
      OBVIOUS
    <2> HIDE DEF g
    <2> QED
      BY <2>1, <2>2
  <1>2. \E j \in 0..n : \A k \in 0..n : g[k] <= g[j]
    <2> HIDE DEF g
    <2>1. \A k \in 0..n : g[k] \in Int
      BY <1>1
    <2>2. 0 \in Int /\ n \in Int /\ 0 <= n
      OBVIOUS
    <2> QED
      BY <2>1, <2>2, ExtremesOf
  <1>3. \E x : Top(x)
    <2>1. PICK j \in 0..n : \A k \in 0..n : g[k] <= g[j]
      BY <1>2
    <2> HIDE DEF g
    <2>2. Top(g[j])
      BY <1>1, <2>1
    <2> QED
      BY <2>2
  <1>4. Tips!Max(S) = CHOOSE x : Top(x)
    BY DEF Tips!Max
  <1>5. Top(Tips!Max(S))
    <2> HIDE DEF Top
    <2> QED
      BY <1>3, <1>4
  <1>6. \A y \in S : y \in Nat
    <2> HIDE DEF g
    <2> QED
      BY <1>1
  <1> QED
    BY <1>5, <1>6

LEMMA HeightCovers ==
    ASSUME NEW owner \in Tips!Owners, NEW position
    PROVE  /\ Tips!IconsHeight(owner, position) \in Nat
           /\ \A k \in Tips!Placed(owner, position) :
                 Text.top + IconsOf[owner][k].size + Text.bottom <= Tips!IconsHeight(owner, position)
  <1> DEFINE icons == IconsOf[owner]
             D == Tips!Placed(owner, position)
             f == [k \in D |-> Text.top + icons[k].size + Text.bottom]
             n == Len(icons)
  <1>1. /\ icons \in Seq(Icons) /\ n \in Nat /\ DOMAIN icons = 1..n
        /\ Text.top \in Nat /\ Text.bottom \in Nat
    BY IconsAre, StylesAre DEF Styles
  <1>2. D \subseteq 1..n
    BY <1>1 DEF Tips!Placed
  <1>3. \A k \in D : f[k] \in Nat /\ f[k] = Text.top + icons[k].size + Text.bottom
    <2>1. \A k \in D : icons[k] \in Icons
      BY <1>1, <1>2
    <2> QED
      BY <1>1, <2>1 DEF Icons
  <1>4. {Text.top + icons[k].size + Text.bottom : k \in D} = {f[k] : k \in D}
    BY <1>3
  <1> DEFINE S == {0} \cup {f[k] : k \in D}
  <1>5. Tips!IconsHeight(owner, position) = Tips!Max(S)
    BY <1>4 DEF Tips!IconsHeight
  <1>6. Tips!Max(S) \in Nat /\ \A k \in D : f[k] <= Tips!Max(S)
    <2>1. 0 \in S /\ (\A k \in D : f[k] \in S) /\ \A y \in S : y = 0 \/ \E k \in D : y = f[k]
      OBVIOUS
    <2> HIDE DEF f, D, n, S
    <2> QED
      BY <1>1, <1>2, <1>3, <2>1, GreatestOf
  <1> QED
    BY <1>3, <1>5, <1>6

LEMMA IconDrawn ==
    ASSUME NEW pen \in Pens, SoundPen(pen), NEW owner \in Tips!Owners, NEW icon \in Icons,
           Text.top + icon.size + Text.bottom <= pen.row
    PROVE  /\ Tips!DrawIcon(pen, owner, icon) \in Onward(pen, {<<"icon", owner, icon.id>>})
           /\ Tips!DrawIcon(pen, owner, icon).row = pen.row
  <1> DEFINE w == Text.left + icon.size + Text.right
             d == Tips!Piece("icon", owner, icon.id, pen.x + Text.left, pen.y + Text.top,
                        icon.size, icon.size)
  <1>1. /\ Text.left \in Nat /\ Text.top \in Nat /\ Text.right \in Nat /\ Text.bottom \in Nat
        /\ Text.left > 0 /\ Text.top > 0 /\ icon.size \in Nat /\ icon.id \in STRING
        /\ pen.x \in Int /\ pen.y \in Int /\ pen.row \in Nat
    BY StylesAre, PenIs DEF Styles, Icons
  <1>2. w \in Nat
    BY <1>1
  <1>3. /\ d.kind = "icon" /\ d.owner = owner /\ d.id = icon.id /\ d.x = pen.x + Text.left
        /\ d.y = pen.y + Text.top /\ d.w = icon.size /\ d.h = icon.size
    BY DEF Tips!Piece
  <1>4. d \in Items
    BY <1>1 DEF Tips!Piece, Items
  <1> HIDE DEF d
  <1>5. /\ pen.y < d.y /\ pen.x < d.x /\ d.y + d.h <= pen.y + pen.row /\ d.x + d.w <= pen.x + w
        /\ pen.y <= d.y /\ pen.x <= d.x
    BY <1>1, <1>3
  <1>6. Wraps(d, pen.right)
    BY <1>3 DEF Wraps
  <1>7. Mark(d) = <<"icon", owner, icon.id>>
    BY <1>3 DEF Mark
  <1>8. Tips!DrawIcon(pen, owner, icon) = Tips!Drawn(pen, d, w)
    BY DEF Tips!DrawIcon, d
  <1> HIDE DEF w
  <1>9. d.kind \in {"text", "icon"}
    BY <1>3
  <1>10. /\ Tips!Drawn(pen, d, w) \in Onward(pen, {Mark(d)})
         /\ Tips!Drawn(pen, d, w).y = pen.y /\ Tips!Drawn(pen, d, w).row = pen.row
    BY <1>2, <1>4, <1>5, <1>6, <1>9, SetDown
  <1> QED
    BY <1>7, <1>8, <1>10

\* The icons of one place stay above the end of the row made for them.
LEMMA IconsDrawn ==
    ASSUME NEW pen \in Pens, SoundPen(pen), NEW owner \in Tips!Owners, NEW position
    PROVE  Tips!DrawIcons(pen, owner, position) \in Onward(pen, IconMarks(owner, position))
  <1> DEFINE icons == IconsOf[owner]
             D == Tips!Placed(owner, position)
             n == Len(icons)
             M == IconMarks(owner, position)
             h == Tips!IconsHeight(owner, position)
             p == Tips!MakeRoom(pen, Tips!IconsWidth(owner, position), h)
             A == {q \in Onward(pen, M) : h <= q.row}
             G == [x \in A \X (0..n) |->
                      IF x[2] = 0 THEN p
                      ELSE IF x[2] \in D THEN Tips!DrawIcon(x[1], owner, icons[x[2]]) ELSE x[1]]
             Eq(f) == f = [k \in 0..n |->
                              IF k = 0 THEN p
                              ELSE IF k \in D THEN Tips!DrawIcon(f[k - 1], owner, icons[k]) ELSE f[k - 1]]
             after == CHOOSE f : Eq(f)
  <1>1. /\ icons \in Seq(Icons) /\ n \in Nat /\ 0 \in Int /\ n \in Int /\ DOMAIN icons = 1..n
        /\ D \subseteq 1..n
    BY IconsAre DEF Tips!Placed
  <1>2. h \in Nat /\ \A k \in D : Text.top + icons[k].size + Text.bottom <= h
    BY HeightCovers
  <1>3. p \in A
    <2>1. p \in Pens /\ SoundPen(p) /\ p.drawn = pen.drawn /\ p.right = pen.right /\ h <= p.row
      <3> HIDE DEF h
      <3> QED
        BY <1>2, RoomMade
    <2> HIDE DEF p, h
    <2>2. p \in Onward(p, M)
      BY <2>1, OnwardSelf
    <2> QED
      BY <2>1, <2>2, OnwardSame
  <1>4. ASSUME NEW q \in A, NEW k \in D PROVE Tips!DrawIcon(q, owner, icons[k]) \in A
    <2>1. q \in Pens /\ SoundPen(q) /\ q.row \in Nat /\ h <= q.row /\ q \in Onward(pen, M)
      BY PenIs DEF Onward
    <2>2. icons[k] \in Icons /\ icons[k].size \in Nat /\ Text.top \in Nat /\ Text.bottom \in Nat
      <3>1. k \in DOMAIN icons
        BY <1>1
      <3>2. icons[k] \in Icons
        BY <1>1, <3>1
      <3> HIDE DEF icons, D
      <3> QED
        BY <3>2, StylesAre DEF Icons, Styles
    <2>3. Text.top + icons[k].size + Text.bottom <= q.row
      BY <1>2, <2>1, <2>2
    <2>4. {<<"icon", owner, icons[k].id>>} \subseteq M
      BY DEF IconMarks
    <2> HIDE DEF icons, M, h, A
    <2>5. /\ Tips!DrawIcon(q, owner, icons[k]) \in Onward(q, {<<"icon", owner, icons[k].id>>})
          /\ Tips!DrawIcon(q, owner, icons[k]).row = q.row
      BY <2>1, <2>2, <2>3, IconDrawn
    <2>6. Tips!DrawIcon(q, owner, icons[k]) \in Onward(q, M)
      BY <2>4, <2>5, OnwardMore
    <2>7. Tips!DrawIcon(q, owner, icons[k]) \in Onward(pen, M)
      BY <2>1, <2>6, OnwardOn
    <2> QED
      BY <2>1, <2>5, <2>7 DEF A
  <1> HIDE DEF A, D, p, icons
  <1>5. G \in [A \X (0..n) -> A]
    <2> SUFFICES ASSUME NEW x \in A \X (0..n)
                 PROVE  (IF x[2] = 0 THEN p
                         ELSE IF x[2] \in D THEN Tips!DrawIcon(x[1], owner, icons[x[2]])
                                            ELSE x[1]) \in A
      OBVIOUS
    <2>1. x[1] \in A /\ x[2] \in 0..n
      OBVIOUS
    <2> QED
      BY <1>3, <1>4, <2>1
  <1>6. PICK f : IsRecursion(f, 0, n, A, p, G)
    <2> HIDE DEF G, n
    <2> QED
      BY <1>1, <1>3, <1>5, RecursionExists
  <1>7. f \in [0..n -> A]
    BY <1>6 DEF IsRecursion
  <1>8. ASSUME NEW k \in 0..n
        PROVE  f[k] = IF k = 0 THEN p
                      ELSE IF k \in D THEN Tips!DrawIcon(f[k - 1], owner, icons[k]) ELSE f[k - 1]
    <2>1. f[k] = IF k = 0 THEN p ELSE G[<<f[k - 1], k>>]
      BY <1>6 DEF IsRecursion
    <2>2. k # 0 => f[k - 1] \in A /\ <<f[k - 1], k>> \in A \X (0..n)
      BY <1>1, <1>7
    <2> QED
      BY <2>1, <2>2
  <1>9. Eq(f)
    BY <1>7, <1>8
  <1>10. Eq(after)
    <2> HIDE DEF Eq
    <2> QED
      BY <1>9
  <1>11. Tips!DrawIcons(pen, owner, position) = IF D = {} THEN pen ELSE after[n]
    BY DEF Tips!DrawIcons, D, p, icons
  <1> HIDE DEF after
  <1>12. \A k \in 0..n : after[k] = IF k = 0 THEN p
                                    ELSE IF k \in D THEN Tips!DrawIcon(after[k - 1], owner, icons[k])
                                                    ELSE after[k - 1]
    BY <1>10
  <1>13. after[n] \in A
    <2> DEFINE S == {k \in 0..n : after[k] \in A}
    <2> HIDE DEF n
    <2>1. 0 \in S
      BY <1>1, <1>3, <1>12
    <2>2. ASSUME NEW k \in (0 + 1)..n, k - 1 \in S PROVE k \in S
      <3>1. k \in 1..n /\ k \in 0..n /\ k # 0 /\ after[k - 1] \in A
        BY <1>1, <2>2
      <3>2. after[k] = IF k \in D THEN Tips!DrawIcon(after[k - 1], owner, icons[k]) ELSE after[k - 1]
        BY <1>12, <3>1
      <3> QED
        BY <1>4, <3>1, <3>2
    <2> HIDE DEF S
    <2>3. 0..n \subseteq S
      BY <1>1, <2>1, <2>2, IntervalInduction
    <2> QED
      BY <1>1, <2>3 DEF S
  <1>14. after[n] \in Onward(pen, M)
    BY <1>13 DEF A
  <1>15. pen \in Onward(pen, M)
    <2> HIDE DEF M
    <2> QED
      BY OnwardSelf
  <1> QED
    BY <1>11, <1>14, <1>15

LEMMA LegendsDrawn ==
    ASSUME NEW pen \in Pens, SoundPen(pen), NEW owner \in Tips!Owners, NEW legends \in Seq(Records),
           NEW s \in {Title, Text}
    PROVE  Tips!DrawLegends(pen, owner, legends, s) \in Onward(pen, Texts)
  <1>1. Len(legends) \in 0..Len(legends)
    OBVIOUS
  <1> QED
    BY <1>1, LegendsGoOn

-----------------------------------------------------------------------------
(* The legends of one owner. *)

\* A pen at the left edge of the row after what another has drawn.
NextRow(pen) == [Tips!Pen(Tips!Bottom(pen)) EXCEPT !.drawn = pen.drawn]

LEMMA NextRowMade ==
    ASSUME NEW pen \in Pens, SoundPen(pen), pen.right = Tips!MaxWidth
    PROVE  /\ NextRow(pen) \in Pens /\ SoundPen(NextRow(pen))
           /\ NextRow(pen).drawn = pen.drawn /\ NextRow(pen).right = pen.right
           /\ NextRow(pen).row = 0 /\ NextRow(pen).y = pen.y + pen.row
  <1> DEFINE q == NextRow(pen)
             y == pen.y + pen.row
             s == pen.drawn
  <1>1. /\ s \in Seq(Items) /\ y \in Int /\ Offset.left \in Int /\ pen.right \in Int
        /\ \A k \in DOMAIN s : s[k] \in Items
    BY PenIs, StylesAre
  <1>2. q = [x |-> Offset.left, y |-> y, row |-> 0, right |-> pen.right, drawn |-> s]
    BY DEF NextRow, Tips!Pen, Tips!Bottom
  <1>3. /\ q.x = Offset.left /\ q.y = y /\ q.row = 0 /\ q.right = pen.right /\ q.drawn = s
    BY <1>2
  <1>4. q \in Pens
    BY <1>1, <1>2 DEF Pens
  <1> HIDE DEF q
  <1>5. ASSUME NEW k \in DOMAIN s PROVE Above(s[k], q)
    <2>1. s[k] \in Items /\ Above(s[k], pen)
      BY <1>1 DEF SoundPen
    <2> QED
      BY <1>3, <1>4, <2>1, AboveStays
  <1>6. SoundPen(q)
    BY <1>3, <1>5 DEF SoundPen
  <1> QED
    BY <1>3, <1>4, <1>6 DEF q

LEMMA FirstPen ==
    ASSUME Tips!MaxWidth \in Int
    PROVE  /\ Tips!Pen(Offset.top) \in Pens /\ SoundPen(Tips!Pen(Offset.top))
           /\ Tips!Pen(Offset.top).right = Tips!MaxWidth /\ Tips!Pen(Offset.top).row = 0
           /\ Tips!Pen(Offset.top).drawn = <<>>
  <1>1. /\ Tips!Pen(Offset.top).right = Tips!MaxWidth /\ Tips!Pen(Offset.top).row = 0
        /\ Tips!Pen(Offset.top).drawn = <<>>
    BY DEF Tips!Pen
  <1>2. Tips!Pen(Offset.top) \in Pens
    BY StylesAre DEF Tips!Pen, Pens
  <1>3. DOMAIN <<>> = {}
    OBVIOUS
  <1> QED
    BY <1>1, <1>2, <1>3 DEF SoundPen, Separate

LEMMA OnwardIs ==
    ASSUME NEW pen, NEW S, NEW p \in Onward(pen, S)
    PROVE  p \in Pens /\ SoundPen(p) /\ p.right = pen.right
  BY DEF Onward

\* What one owner's legends and icons are marked with.
MarksOf(owner) == Texts \cup {<<"icon", owner, id>> : id \in STRING}

LEMMA MarksAre ==
    ASSUME NEW owner \in Tips!Owners, NEW position
    PROVE  Texts \subseteq MarksOf(owner) /\ IconMarks(owner, position) \subseteq MarksOf(owner)
  <1>1. \A k \in Tips!Placed(owner, position) : IconsOf[owner][k].id \in STRING
    <2>1. \A k \in DOMAIN IconsOf[owner] : IconsOf[owner][k] \in Icons
      BY IconsAre
    <2> QED
      BY <2>1 DEF Icons, Tips!Placed
  <1> QED
    BY <1>1 DEF MarksOf, IconMarks

LEMMA NameIs ==
    ASSUME NEW owner \in Tips!Owners
    PROVE  Tips!Name(owner) \in Seq(Records) /\ Tips!Name(owner) # <<>>
  <1>1. NameWidth[owner] \in Nat
    BY ConstantsAssumption DEF Tips!LegendsAssumption
  <1>2. [title |-> 0, value |-> NameWidth[owner]] \in Records
    BY <1>1 DEF Records
  <1> QED
    BY <1>2 DEF Tips!Name

\* The values of an owner follow its lead.
LEMMA ValuesDrawn ==
    ASSUME NEW pen \in Pens, SoundPen(pen), NEW owner \in Tips!Owners, NEW legends \in Seq(Records)
    PROVE  Tips!DrawIcons(Tips!DrawLegends(pen, owner, legends, Text), owner, "right")
               \in Onward(pen, Texts \cup IconMarks(owner, "right"))
  <1> DEFINE M == Texts \cup IconMarks(owner, "right")
             p == Tips!DrawLegends(pen, owner, legends, Text)
  <1>1. p \in Onward(pen, Texts) /\ p \in Pens /\ SoundPen(p)
    BY LegendsDrawn, OnwardIs
  <1>2. Tips!DrawIcons(p, owner, "right") \in Onward(p, IconMarks(owner, "right"))
    BY <1>1, IconsDrawn
  <1>3. Tips!DrawIcons(p, owner, "right") \in Onward(p, M)
    BY <1>2, OnwardMore
  <1>4. Texts \subseteq M
    OBVIOUS
  <1> HIDE DEF p, M
  <1>5. Tips!DrawIcons(p, owner, "right") \in Onward(pen, M)
    BY <1>1, <1>3, <1>4, OnwardOn
  <1> QED
    BY <1>5 DEF p, M

\* The pen that has drawn the icons and the name before an indicator's values.
StudyLead(pen, i) ==
    Tips!DrawIcons(Tips!DrawLegends(Tips!DrawIcons(NextRow(pen), i, "left"), i, Tips!Name(i), Title), i, "middle")

LEMMA LeadDrawn ==
    ASSUME NEW pen \in Pens, SoundPen(pen), pen.right = Tips!MaxWidth, NEW i \in Tips!Owners,
           NEW name \in Seq(Records)
    PROVE  Tips!DrawIcons(Tips!DrawLegends(Tips!DrawIcons(NextRow(pen), i, "left"), i, name, Title), i, "middle")
               \in Onward(pen, MarksOf(i))
  <1> DEFINE r == NextRow(pen)
             left == Tips!DrawIcons(r, i, "left")
             named == Tips!DrawLegends(left, i, name, Title)
             lead == Tips!DrawIcons(named, i, "middle")
             M == MarksOf(i)
  <1>1. r \in Pens /\ SoundPen(r) /\ r.drawn = pen.drawn /\ r.right = pen.right
    BY NextRowMade
  <1> HIDE DEF r
  <1>2. left \in Onward(r, M) /\ left \in Pens /\ SoundPen(left)
    <2>1. left \in Onward(r, IconMarks(i, "left"))
      BY <1>1, IconsDrawn
    <2> HIDE DEF left
    <2> QED
      BY <2>1, OnwardMore, MarksAre, OnwardIs
  <1> HIDE DEF left
  <1>3. named \in Onward(r, M) /\ named \in Pens /\ SoundPen(named)
    <2>1. named \in Onward(left, Texts)
      BY <1>2, LegendsDrawn
    <2> HIDE DEF named
    <2>2. named \in Onward(left, M)
      BY <2>1, OnwardMore, MarksAre
    <2> QED
      BY <1>1, <1>2, <2>2, OnwardOn, OnwardIs
  <1> HIDE DEF named
  <1>4. lead \in Onward(r, M)
    <2>1. lead \in Onward(named, IconMarks(i, "middle"))
      BY <1>3, IconsDrawn
    <2> HIDE DEF lead
    <2>2. lead \in Onward(named, M)
      BY <2>1, OnwardMore, MarksAre
    <2> QED
      BY <1>1, <1>3, <2>2, OnwardOn
  <1> HIDE DEF lead
  <1>5. lead \in Onward(pen, M)
    BY <1>1, <1>4, OnwardSame
  <1> QED
    BY <1>5 DEF lead, named, left, r

LEMMA IndicatorDrawn ==
    ASSUME NEW pen \in Pens, SoundPen(pen), pen.right = Tips!MaxWidth, NEW i \in Tips!Owners,
           Tips!Legends(i) \in Seq(Records)
    PROVE  /\ Tips!DrawIndicator(pen, i) \in Onward(pen, MarksOf(i))
           /\ NameWidth[i] # 0 =>
                 Tips!DrawIndicator(pen, i)
                     \in Onward(StudyLead(pen, i), Texts \cup IconMarks(i, "right"))
  <1> DEFINE name == IF NameWidth[i] = 0 THEN <<>> ELSE Tips!Name(i)
             lead == Tips!DrawIcons(Tips!DrawLegends(Tips!DrawIcons(NextRow(pen), i, "left"), i, name, Title),
                               i, "middle")
             end == Tips!DrawIcons(Tips!DrawLegends(lead, i, Tips!Legends(i), Text), i, "right")
  <1>1. name \in Seq(Records)
    BY NameIs
  <1>2. lead \in Onward(pen, MarksOf(i)) /\ lead \in Pens /\ SoundPen(lead)
    <2> HIDE DEF name
    <2> QED
      BY <1>1, LeadDrawn, OnwardIs
  <1>3. NameWidth[i] # 0 => lead = StudyLead(pen, i)
    BY DEF StudyLead
  <1>4. Tips!DrawIndicator(pen, i) = IF name = <<>> /\ Tips!Legends(i) = <<>> THEN pen ELSE end
    BY DEF Tips!DrawIndicator, NextRow
  <1>5. NameWidth[i] # 0 => name # <<>>
    BY NameIs
  <1> HIDE DEF lead, name
  <1>6. end \in Onward(lead, Texts \cup IconMarks(i, "right"))
    BY <1>2, ValuesDrawn
  <1>7. Texts \cup IconMarks(i, "right") \subseteq MarksOf(i)
    BY MarksAre
  <1> HIDE DEF end
  <1>8. end \in Onward(pen, MarksOf(i))
    <2>1. end \in Onward(lead, MarksOf(i))
      BY <1>6, <1>7, OnwardMore
    <2> QED
      BY <1>2, <2>1, OnwardOn
  <1>9. pen \in Onward(pen, MarksOf(i))
    BY OnwardSelf
  <1> QED
    BY <1>3, <1>4, <1>5, <1>6, <1>8, <1>9

-----------------------------------------------------------------------------
(* The legends of all indicators, and of the candles. *)

Studies == {Inds[k] : k \in DOMAIN Inds}
StudyMarks == Texts \cup {<<"icon", o, id>> : o \in Studies, id \in STRING}

\* What comes after the lead of an owner: texts, its last icons, those of others.
Behind(owner) ==
    Texts \cup IconMarks(owner, "right")
          \cup {<<"icon", o, id>> : o \in Tips!Owners \ {owner}, id \in STRING}

LEMMA IndsAre ==
    /\ Inds \in Seq(STRING) /\ Len(Inds) \in Nat /\ Len(Inds) >= 1 /\ DOMAIN Inds = 1..Len(Inds)
    /\ \A k \in 1..Len(Inds) : Inds[k] \in Studies /\ Inds[k] \in Tips!Owners
    /\ Tips!Candles \in Tips!Owners /\ Tips!Candles \notin Studies /\ Studies \subseteq Tips!Owners
    /\ \A k \in 2..Len(Inds) : Inds[k] # Inds[1]
  <1>1. /\ Inds \in Seq(STRING \ {"candle"}) /\ Inds # <<>>
        /\ \A k, n \in DOMAIN Inds : Inds[k] = Inds[n] => k = n
    BY ConstantsAssumption DEF Tips!OwnersAssumption
  <1>2. /\ Len(Inds) \in Nat /\ DOMAIN Inds = 1..Len(Inds) /\ Len(Inds) >= 1
        /\ Inds \in Seq(STRING)
    BY <1>1
  <1>3. \A k \in 1..Len(Inds) : Inds[k] \in STRING \ {"candle"}
    BY <1>1
  <1>4. \A k \in 2..Len(Inds) : k \in 1..Len(Inds) /\ 1 \in 1..Len(Inds) /\ k # 1
    BY <1>2
  <1> QED
    BY <1>1, <1>2, <1>3, <1>4 DEF Tips!Owners, Studies, Tips!Candles

LEMMA StudiesGoOn ==
    ASSUME NEW pen \in Pens, SoundPen(pen), pen.right = Tips!MaxWidth,
           \A i \in Tips!Owners : Tips!Legends(i) \in Seq(Records)
    PROVE  \E after :
              /\ after[0] = pen
              /\ Tips!DrawIndicatorTooltip(pen) = IF Tips!IsDrawTooltip THEN after[Len(Inds)] ELSE pen
              /\ \A k \in 0..Len(Inds) : after[k] \in Onward(pen, StudyMarks)
              /\ \A k \in 1..Len(Inds) : after[k] = Tips!DrawIndicator(after[k - 1], Inds[k])
  <1> DEFINE n == Len(Inds)
             A == Onward(pen, StudyMarks)
             G == [x \in A \X (0..n) |->
                      IF x[2] = 0 THEN pen ELSE Tips!DrawIndicator(x[1], Inds[x[2]])]
             Eq(f) == f = [k \in 0..n |->
                              IF k = 0 THEN pen ELSE Tips!DrawIndicator(f[k - 1], Inds[k])]
             after == CHOOSE f : Eq(f)
  <1>1. n \in Nat /\ 0 \in Int /\ n \in Int
    BY IndsAre
  <1>2. ASSUME NEW p \in A, NEW k \in 1..n PROVE Tips!DrawIndicator(p, Inds[k]) \in A
    <2>1. p \in Pens /\ SoundPen(p) /\ p.right = Tips!MaxWidth
      BY OnwardIs
    <2>2. Inds[k] \in Tips!Owners /\ Inds[k] \in Studies
      BY IndsAre
    <2>3. Tips!Legends(Inds[k]) \in Seq(Records)
      BY <2>2
    <2>4. Tips!DrawIndicator(p, Inds[k]) \in Onward(p, MarksOf(Inds[k]))
      BY <2>1, <2>2, <2>3, IndicatorDrawn
    <2>5. MarksOf(Inds[k]) \subseteq StudyMarks
      BY <2>2 DEF MarksOf, StudyMarks
    <2>6. Tips!DrawIndicator(p, Inds[k]) \in Onward(p, StudyMarks)
      BY <2>4, <2>5, OnwardMore
    <2> QED
      BY <2>6, OnwardOn
  <1>3. pen \in A
    BY OnwardSelf
  <1> HIDE DEF A
  <1>4. G \in [A \X (0..n) -> A]
    <2> SUFFICES ASSUME NEW x \in A \X (0..n)
                 PROVE  (IF x[2] = 0 THEN pen ELSE Tips!DrawIndicator(x[1], Inds[x[2]])) \in A
      OBVIOUS
    <2>1. x[1] \in A /\ x[2] \in 0..n
      OBVIOUS
    <2>2. x[2] # 0 => x[2] \in 1..n
      BY <1>1, <2>1
    <2> QED
      BY <1>2, <1>3, <2>1, <2>2
  <1>5. PICK f : IsRecursion(f, 0, n, A, pen, G)
    <2> HIDE DEF G
    <2> QED
      BY <1>1, <1>3, <1>4, RecursionExists
  <1>6. f \in [0..n -> A]
    BY <1>5 DEF IsRecursion
  <1>7. ASSUME NEW k \in 0..n
        PROVE  f[k] = IF k = 0 THEN pen ELSE Tips!DrawIndicator(f[k - 1], Inds[k])
    <2>1. f[k] = IF k = 0 THEN pen ELSE G[<<f[k - 1], k>>]
      BY <1>5 DEF IsRecursion
    <2>2. k # 0 => f[k - 1] \in A /\ <<f[k - 1], k>> \in A \X (0..n)
      BY <1>1, <1>6
    <2> QED
      BY <2>1, <2>2
  <1>8. Eq(f)
    BY <1>6, <1>7
  <1>9. Eq(after)
    <2> HIDE DEF Eq
    <2> QED
      BY <1>8
  <1>10. Tips!DrawIndicatorTooltip(pen) = IF Tips!IsDrawTooltip THEN after[n] ELSE pen
    BY DEF Tips!DrawIndicatorTooltip
  <1> HIDE DEF after
  <1>11. \A k \in 0..n : after[k] = IF k = 0 THEN pen ELSE Tips!DrawIndicator(after[k - 1], Inds[k])
    BY <1>9
  <1>12. 0..n \subseteq {k \in 0..n : after[k] \in A}
    <2> DEFINE S == {k \in 0..n : after[k] \in A}
    <2>1. 0 \in S
      BY <1>1, <1>3, <1>11
    <2>2. ASSUME NEW k \in (0 + 1)..n, k - 1 \in S PROVE k \in S
      <3>1. k \in 1..n /\ k \in 0..n /\ k # 0
        BY <1>1
      <3>2. after[k] = Tips!DrawIndicator(after[k - 1], Inds[k])
        BY <1>11, <3>1
      <3> QED
        BY <1>2, <2>2, <3>1, <3>2
    <2> HIDE DEF S
    <2>3. 0..n \subseteq S
      BY <1>1, <2>1, <2>2, IntervalInduction
    <2> QED
      BY <2>3 DEF S
  <1>13. after[0] = pen /\ \A k \in 1..n : after[k] = Tips!DrawIndicator(after[k - 1], Inds[k])
    BY <1>1, <1>11
  <1> QED
    BY <1>10, <1>12, <1>13 DEF A

LEMMA StudiesDrawn ==
    ASSUME NEW pen \in Pens, SoundPen(pen), pen.right = Tips!MaxWidth,
           \A i \in Tips!Owners : Tips!Legends(i) \in Seq(Records)
    PROVE  /\ Tips!DrawIndicatorTooltip(pen) \in Onward(pen, StudyMarks)
           /\ Tips!IsDrawTooltip /\ NameWidth[Inds[1]] # 0 =>
                 /\ StudyLead(pen, Inds[1]) \in Pens
                 /\ Tips!DrawIndicatorTooltip(pen)
                        \in Onward(StudyLead(pen, Inds[1]), Behind(Inds[1]))
  <1> DEFINE n == Len(Inds)
             first == Inds[1]
             lead == StudyLead(pen, first)
  <1>1. PICK after :
            /\ after[0] = pen
            /\ Tips!DrawIndicatorTooltip(pen) = IF Tips!IsDrawTooltip THEN after[n] ELSE pen
            /\ \A k \in 0..n : after[k] \in Onward(pen, StudyMarks)
            /\ \A k \in 1..n : after[k] = Tips!DrawIndicator(after[k - 1], Inds[k])
    BY StudiesGoOn
  <1>2. n \in Nat /\ n >= 1 /\ n \in 0..n /\ 1 \in 1..n /\ first \in Tips!Owners /\ 1 \in Int /\ n \in Int
    BY IndsAre
  <1> HIDE DEF n
  <1>3. Tips!DrawIndicatorTooltip(pen) \in Onward(pen, StudyMarks)
    BY <1>1, <1>2, OnwardSelf
  <1>4. ASSUME Tips!IsDrawTooltip, NameWidth[first] # 0
        PROVE  lead \in Pens /\ Tips!DrawIndicatorTooltip(pen) \in Onward(lead, Behind(first))
    <2> DEFINE S == {k \in 1..n : after[k] \in Onward(lead, Behind(first))}
    <2> HIDE DEF first
    <2>1. lead \in Pens
      <3>1. Tips!Name(first) \in Seq(Records)
        BY <1>2, NameIs
      <3>2. lead \in Onward(pen, MarksOf(first))
        BY <1>2, <3>1, LeadDrawn DEF StudyLead
      <3> QED
        BY <3>2, OnwardIs
    <2>2. 1 \in S
      <3>1. after[1] = Tips!DrawIndicator(pen, first)
        BY <1>1, <1>2 DEF first
      <3>2. Tips!Legends(first) \in Seq(Records)
        BY <1>2
      <3>3. Tips!DrawIndicator(pen, first) \in Onward(lead, Texts \cup IconMarks(first, "right"))
        BY <1>2, <1>4, <3>2, IndicatorDrawn
      <3>4. Texts \cup IconMarks(first, "right") \subseteq Behind(first)
        BY DEF Behind
      <3> HIDE DEF lead
      <3>5. Tips!DrawIndicator(pen, first) \in Onward(lead, Behind(first))
        BY <3>3, <3>4, OnwardMore
      <3> QED
        BY <1>2, <3>1, <3>5
    <2>3. ASSUME NEW k \in (1 + 1)..n, k - 1 \in S PROVE k \in S
      <3> DEFINE p == after[k - 1]
                 i == Inds[k]
      <3>1. k \in 1..n /\ k \in 2..n /\ k - 1 \in 0..n
        BY <1>2
      <3>2. p \in Onward(lead, Behind(first)) /\ p \in Onward(pen, StudyMarks)
        BY <1>1, <2>3, <3>1
      <3>3. p \in Pens /\ SoundPen(p) /\ p.right = Tips!MaxWidth
        BY <3>2, OnwardIs
      <3>4. i \in Tips!Owners /\ i # first /\ Tips!Legends(i) \in Seq(Records)
        BY <3>1, IndsAre DEF first, n
      <3>5. after[k] = Tips!DrawIndicator(p, i)
        BY <1>1, <3>1
      <3> HIDE DEF p, i
      <3>6. Tips!DrawIndicator(p, i) \in Onward(p, MarksOf(i))
        BY <3>3, <3>4, IndicatorDrawn
      <3>7. MarksOf(i) \subseteq Behind(first)
        BY <3>4 DEF MarksOf, Behind
      <3> HIDE DEF lead
      <3>8. Tips!DrawIndicator(p, i) \in Onward(p, Behind(first))
        BY <3>6, <3>7, OnwardMore
      <3>9. Tips!DrawIndicator(p, i) \in Onward(lead, Behind(first))
        BY <2>1, <3>2, <3>8, OnwardOn
      <3> QED
        BY <3>1, <3>5, <3>9
    <2> HIDE DEF S
    <2>4. 1..n \subseteq S
      BY <1>2, <2>2, <2>3, IntervalInduction
    <2>5. after[n] \in Onward(lead, Behind(first))
      BY <1>2, <2>4 DEF S
    <2> QED
      BY <1>1, <1>4, <2>1, <2>5
  <1> QED
    BY <1>3, <1>4

\* The pen that has drawn the title and the icons before the values of the bar.
CandleLead(pen) ==
    LET title == Tips!DrawLegends(pen, Tips!Candles, Tips!Name(Tips!Candles), Title)
    IN  Tips!DrawIcons(Tips!DrawIcons(NextRow(title), Tips!Candles, "left"), Tips!Candles, "middle")

LEMMA OneLegend ==
    ASSUME NEW pen \in Pens, SoundPen(pen), pen.row = 0, NEW owner \in Tips!Owners,
           NEW legends \in Seq(Records), Len(legends) = 1, NEW s \in {Title, Text}
    PROVE  Tips!DrawLegends(pen, owner, legends, s).y = pen.y
  <1>1. PICK after :
            /\ after[0] = pen /\ after[Len(legends)] = Tips!DrawLegends(pen, owner, legends, s)
            /\ \A k \in 0..Len(legends) : after[k] \in Onward(pen, Texts)
            /\ \A k \in 1..Len(legends) :
                  after[k] = Tips!DrawLegend(after[k - 1], owner, legends[k], s)
    BY LegendsGoOn
  <1>2. 1 \in 1..Len(legends) /\ 1 - 1 = 0 /\ legends[1] \in Records
    OBVIOUS
  <1>3. Tips!DrawLegends(pen, owner, legends, s) = Tips!DrawLegend(pen, owner, legends[1], s)
    BY <1>1, <1>2
  <1> QED
    BY <1>2, <1>3, LegendDrawn

LEMMA TitleDrawn ==
    ASSUME NEW pen \in Pens, SoundPen(pen), pen.row = 0
    PROVE  LET title == Tips!DrawLegends(pen, Tips!Candles, Tips!Name(Tips!Candles), Title)
           IN  title \in Onward(pen, Texts) /\ title.y = pen.y
  <1> DEFINE legends == Tips!Name(Tips!Candles)
             owner == Tips!Candles
             s == Title
  <1>1. legends \in Seq(Records) /\ owner \in Tips!Owners /\ Len(legends) = 1 /\ s \in {Title, Text}
    BY IndsAre, NameIs DEF Tips!Name
  <1> HIDE DEF legends, owner, s
  <1>2. Tips!DrawLegends(pen, owner, legends, s) \in Onward(pen, Texts)
    BY <1>1, LegendsDrawn
  <1>3. Tips!DrawLegends(pen, owner, legends, s).y = pen.y
    BY <1>1, OneLegend
  <1> QED
    BY <1>2, <1>3 DEF legends, owner, s

LEMMA CandleDrawn ==
    ASSUME NEW pen \in Pens, SoundPen(pen), pen.right = Tips!MaxWidth, pen.row = 0,
           Tips!Legends(Tips!Candles) \in Seq(Records)
    PROVE  /\ Tips!DrawCandle(pen) \in Onward(pen, MarksOf(Tips!Candles))
           /\ Tips!IsDrawTooltip =>
                 /\ CandleLead(pen) \in Pens
                 /\ Tips!DrawCandle(pen)
                        \in Onward(CandleLead(pen), Texts \cup IconMarks(Tips!Candles, "right"))
  <1> DEFINE M == MarksOf(Tips!Candles)
             title == Tips!DrawLegends(pen, Tips!Candles, Tips!Name(Tips!Candles), Title)
             r == NextRow(title)
             left == Tips!DrawIcons(r, Tips!Candles, "left")
             lead == Tips!DrawIcons(left, Tips!Candles, "middle")
             end == Tips!DrawIcons(Tips!DrawLegends(lead, Tips!Candles, Tips!Legends(Tips!Candles), Text), Tips!Candles, "right")
  <1>1. Tips!Candles \in Tips!Owners
    BY IndsAre
  <1>2. title \in Onward(pen, Texts) /\ title.y = pen.y
    BY TitleDrawn
  <1>3. Tips!DrawCandle(pen) = (IF Tips!IsDrawTooltip THEN end ELSE pen) /\ CandleLead(pen) = lead
    BY <1>2 DEF Tips!DrawCandle, CandleLead, NextRow, Tips!Bottom
  <1> HIDE DEF title
  <1>4. title \in Onward(pen, M) /\ title \in Pens /\ SoundPen(title) /\ title.right = Tips!MaxWidth
    <2>1. title \in Onward(pen, M)
      BY <1>1, <1>2, OnwardMore, MarksAre
    <2> QED
      BY <1>2, <2>1, OnwardIs
  <1>5. r \in Pens /\ SoundPen(r) /\ r.drawn = title.drawn /\ r.right = title.right
    BY <1>4, NextRowMade
  <1> HIDE DEF r
  <1>6. left \in Onward(r, M) /\ left \in Pens /\ SoundPen(left)
    <2>1. left \in Onward(r, IconMarks(Tips!Candles, "left"))
      BY <1>1, <1>5, IconsDrawn
    <2> HIDE DEF left
    <2> QED
      BY <1>1, <2>1, OnwardMore, MarksAre, OnwardIs
  <1> HIDE DEF left
  <1>7. lead \in Onward(left, M) /\ lead \in Pens /\ SoundPen(lead)
    <2>1. lead \in Onward(left, IconMarks(Tips!Candles, "middle"))
      BY <1>1, <1>6, IconsDrawn
    <2> HIDE DEF lead
    <2> QED
      BY <1>1, <2>1, OnwardMore, MarksAre, OnwardIs
  <1> HIDE DEF lead
  <1>8. end \in Onward(lead, Texts \cup IconMarks(Tips!Candles, "right"))
    BY <1>1, <1>7, ValuesDrawn
  <1> HIDE DEF end
  <1>9. end \in Onward(pen, M)
    <2>1. Texts \cup IconMarks(Tips!Candles, "right") \subseteq M
      BY <1>1, MarksAre
    <2> HIDE DEF M
    <2>2. end \in Onward(lead, M)
      BY <1>8, <2>1, OnwardMore
    <2>3. end \in Onward(left, M)
      BY <1>6, <1>7, <2>2, OnwardOn
    <2>4. end \in Onward(r, M)
      BY <1>5, <1>6, <2>3, OnwardOn
    <2>5. end \in Onward(title, M)
      BY <1>5, <2>4, OnwardSame
    <2> QED
      BY <1>4, <2>5, OnwardOn
  <1>10. pen \in Onward(pen, M)
    <2> HIDE DEF M
    <2> QED
      BY OnwardSelf
  <1> QED
    BY <1>3, <1>7, <1>8, <1>9, <1>10

-----------------------------------------------------------------------------
(* The rectangle. *)

Holds(r, b) ==
    /\ b.x >= r.x /\ b.x + b.w <= r.x + r.w
    /\ b.y >= r.y /\ b.y + b.h <= r.y + r.h
RectHolds(s) ==
    \A k \in DOMAIN s : s[k].kind = "rect" =>
        \A n \in DOMAIN s \ {k} :
            IF s[n].kind = "line" THEN Holds(s[k], s[n]) ELSE Tips!Apart(s[n], s[k])

\* In the pane, beside the middle of the crosshair's bar, when there is room,
\* and beside what is nearer to it than the rectangle.
Off(r, x) == x < r.x \/ x > r.x + r.w
Close(x) == x < realX + RectStyle.left /\ x > realX - RectStyle.right
Beside(r) ==
    /\ 2 * (r.w + RectStyle.left + RectStyle.right + Offset.left + Offset.right) <= paneWidth
    /\ Tips!ByPointer => realX \in 0..paneWidth
    => /\ r.x >= 0 /\ r.x + r.w <= paneWidth
       /\ guide # None => Off(r, realX) /\ (Close(guide.x) => Off(r, guide.x))
RectPlaced(s) == \A k \in DOMAIN s : s[k].kind = "rect" => Beside(s[k])

\* A rectangle and its lines after what a pen has drawn.
LEMMA RectAdded ==
    ASSUME NEW pen \in Pens, SoundPen(pen), NEW r \in Items, NEW lines \in Seq(Items),
           r.kind = "rect", pen.y + pen.row <= r.y,
           \A j \in DOMAIN lines : /\ lines[j].kind = "line" /\ Holds(r, lines[j])
                                   /\ r.y < lines[j].y,
           \A i, j \in DOMAIN lines : i < j => Clear(lines[i], lines[j])
    PROVE  LET s == Append(pen.drawn, r) \o lines
           IN  /\ s \in Seq(Items) /\ Separate(s) /\ RectHolds(s) /\ StartsWith(pen.drawn, s)
               /\ \A k \in (Len(pen.drawn) + 1)..Len(s) : s[k].kind \in {"rect", "line"}
               /\ \A k \in DOMAIN s : s[k].kind = "rect" => s[k] = r
  <1> DEFINE d == pen.drawn
             n == Len(d)
             m == Len(lines)
             s == Append(d, r) \o lines
  <1>1. /\ d \in Seq(Items) /\ n \in Nat /\ m \in Nat /\ DOMAIN d = 1..n /\ DOMAIN lines = 1..m
        /\ Append(d, r) \in Seq(Items)
    BY PenIs
  <1>2. /\ s \in Seq(Items) /\ Len(s) = n + 1 + m /\ DOMAIN s = 1..(n + 1 + m)
        /\ \A k \in 1..n : s[k] = d[k]
        /\ s[n + 1] = r
        /\ \A k \in (n + 2)..(n + 1 + m) : s[k] = lines[k - (n + 1)] /\ k - (n + 1) \in 1..m
    BY <1>1
  <1> HIDE DEF s
  <1>3. ASSUME NEW k \in 1..n
        PROVE  /\ s[k] \in Items /\ s[k].kind \in {"text", "icon"} /\ Above(s[k], pen)
               /\ s[k].y + s[k].h <= r.y
    <2>1. d[k] \in Items /\ Above(d[k], pen) /\ s[k] = d[k]
      <3>1. k \in DOMAIN pen.drawn
        BY <1>1
      <3>2. Above(pen.drawn[k], pen)
        BY <3>1 DEF SoundPen
      <3> QED
        BY <1>1, <1>2, <3>2
    <2>2. s[k].y + s[k].h <= pen.y + pen.row /\ s[k].kind \in {"text", "icon"}
      BY <2>1 DEF Above
    <2>3. s[k].y + s[k].h <= r.y
      BY <2>1, <2>2, PenIs, ItemIs
    <2> QED
      BY <2>1, <2>2, <2>3
  <1>4. ASSUME NEW k \in (n + 2)..(n + 1 + m)
        PROVE  s[k] \in Items /\ s[k].kind = "line" /\ Holds(r, s[k]) /\ r.y < s[k].y
    <2>1. s[k] = lines[k - (n + 1)] /\ k - (n + 1) \in DOMAIN lines
      BY <1>1, <1>2
    <2> QED
      BY <1>1, <2>1
  <1>5. \A k \in 1..(n + 1 + m) : k \in 1..n \/ k = n + 1 \/ k \in (n + 2)..(n + 1 + m)
    BY <1>1
  <1>6. Separate(s)
    <2> SUFFICES ASSUME NEW k \in 1..(n + 1 + m), NEW j \in 1..(n + 1 + m), k < j,
                        s[k].kind # "rect", s[j].kind # "rect"
                 PROVE  Clear(s[k], s[j])
      BY <1>2 DEF Separate
    <2>1. k # n + 1 /\ j # n + 1
      BY <1>2
    <2>2. CASE j \in 1..n
      <3>1. k \in 1..n
        BY <1>1, <2>2
      <3>2. s[k] = d[k] /\ s[j] = d[j] /\ k \in DOMAIN d /\ j \in DOMAIN d
        BY <1>1, <1>2, <2>2, <3>1
      <3> QED
        BY <3>2 DEF SoundPen, Separate
    <2>3. CASE k \in 1..n /\ j \in (n + 2)..(n + 1 + m)
      <3>1. s[k].y + s[k].h <= r.y /\ s[k] \in Items
        BY <1>3, <2>3
      <3>2. r.y < s[j].y /\ s[j] \in Items
        BY <1>4, <2>3
      <3>3. s[k].y + s[k].h < s[j].y
        BY <3>1, <3>2, ItemIs
      <3>4. s[k].y + s[k].h <= s[j].y
        BY <3>1, <3>2, ItemIs
      <3> QED
        BY <3>3, <3>4 DEF Clear
    <2>4. CASE k \in (n + 2)..(n + 1 + m) /\ j \in (n + 2)..(n + 1 + m)
      <3>1. /\ s[k] = lines[k - (n + 1)] /\ k - (n + 1) \in DOMAIN lines
            /\ s[j] = lines[j - (n + 1)] /\ j - (n + 1) \in DOMAIN lines
        BY <1>1, <1>2, <2>4
      <3>2. k - (n + 1) < j - (n + 1)
        BY <1>1
      <3> QED
        BY <3>1, <3>2
    <2>5. k \in (n + 2)..(n + 1 + m) => j \notin 1..n
      BY <1>1
    <2> QED
      BY <1>5, <2>1, <2>2, <2>3, <2>4, <2>5
  <1>7. \A k \in 1..(n + 1 + m) : s[k].kind = "rect" => k = n + 1
    BY <1>3, <1>4, <1>5
  <1>8. RectHolds(s)
    <2> SUFFICES ASSUME NEW k \in 1..(n + 1 + m), s[k].kind = "rect",
                        NEW j \in 1..(n + 1 + m), j # k
                 PROVE  IF s[j].kind = "line" THEN Holds(s[k], s[j]) ELSE Tips!Apart(s[j], s[k])
      BY <1>2 DEF RectHolds
    <2>1. k = n + 1 /\ s[k] = r
      BY <1>2, <1>7
    <2>2. CASE j \in 1..n
      <3>1. s[j].kind # "line" /\ s[j].y + s[j].h <= r.y
        BY <1>3, <2>2
      <3> QED
        BY <2>1, <3>1 DEF Tips!Apart
    <2>3. CASE j \in (n + 2)..(n + 1 + m)
      BY <1>4, <2>1, <2>3
    <2> QED
      BY <1>5, <2>1, <2>2, <2>3
  <1>9. StartsWith(d, s)
    BY <1>1, <1>2 DEF StartsWith
  <1>10. \A k \in (n + 1)..(n + 1 + m) : s[k].kind \in {"rect", "line"}
    <2>1. \A k \in (n + 1)..(n + 1 + m) : k = n + 1 \/ k \in (n + 2)..(n + 1 + m)
      BY <1>1
    <2> QED
      BY <1>2, <1>4, <2>1
  <1>11. \A k \in DOMAIN s : s[k].kind = "rect" => s[k] = r
    BY <1>2, <1>7
  <1> QED
    BY <1>2, <1>6, <1>8, <1>9, <1>10, <1>11 DEF s

\* The legends in the rectangle.
LEMMA RectLegendsAre ==
    ASSUME \A o \in Tips!Owners : Tips!Legends(o) \in Seq(Records), NEW candle, NEW studies
    PROVE  Tips!RectLegends(candle, studies) \in Seq(Records)
  <1> DEFINE n == Len(Inds)
             A == Seq(Records)
             b == IF candle THEN Tips!Legends(Tips!Candles) ELSE <<>>
             G == [x \in A \X (0..n) |-> IF x[2] = 0 THEN b ELSE x[1] \o Tips!Legends(Inds[x[2]])]
             Eq(f) == f = [k \in 0..n |->
                              IF k = 0 THEN IF candle THEN Tips!Legends(Tips!Candles) ELSE <<>>
                              ELSE f[k - 1] \o Tips!Legends(Inds[k])]
             all == CHOOSE f : Eq(f)
  <1>1. n \in Nat /\ 0 \in Int /\ n \in Int /\ \A k \in 1..n : Inds[k] \in Tips!Owners
    BY IndsAre
  <1>2. b \in A
    <2>1. Tips!Legends(Tips!Candles) \in A
      BY IndsAre
    <2>2. <<>> \in A
      OBVIOUS
    <2> QED
      BY <2>1, <2>2
  <1>3. ASSUME NEW p \in A, NEW k \in 1..n PROVE p \o Tips!Legends(Inds[k]) \in A
    <2>1. Tips!Legends(Inds[k]) \in A
      BY <1>1
    <2> QED
      BY <2>1
  <1> HIDE DEF A
  <1>4. G \in [A \X (0..n) -> A]
    <2> SUFFICES ASSUME NEW x \in A \X (0..n)
                 PROVE  (IF x[2] = 0 THEN b ELSE x[1] \o Tips!Legends(Inds[x[2]])) \in A
      OBVIOUS
    <2>1. x[1] \in A /\ x[2] \in 0..n
      OBVIOUS
    <2>2. x[2] # 0 => x[2] \in 1..n
      BY <1>1, <2>1
    <2> QED
      BY <1>2, <1>3, <2>1, <2>2
  <1>5. PICK f : IsRecursion(f, 0, n, A, b, G)
    <2> HIDE DEF G, b
    <2> QED
      BY <1>1, <1>2, <1>4, RecursionExists
  <1>6. f \in [0..n -> A]
    BY <1>5 DEF IsRecursion
  <1>7. ASSUME NEW k \in 0..n
        PROVE  f[k] = IF k = 0 THEN b ELSE f[k - 1] \o Tips!Legends(Inds[k])
    <2>1. f[k] = IF k = 0 THEN b ELSE G[<<f[k - 1], k>>]
      BY <1>5 DEF IsRecursion
    <2>2. k # 0 => f[k - 1] \in A /\ <<f[k - 1], k>> \in A \X (0..n)
      BY <1>1, <1>6
    <2> QED
      BY <2>1, <2>2
  <1>8. Eq(f)
    BY <1>6, <1>7
  <1>9. Eq(all)
    <2> HIDE DEF Eq
    <2> QED
      BY <1>8
  <1>10. Tips!RectLegends(candle, studies) = all[IF studies THEN n ELSE 0]
    BY DEF Tips!RectLegends
  <1> HIDE DEF all
  <1>11. \A k \in 0..n : all[k] = IF k = 0 THEN b ELSE all[k - 1] \o Tips!Legends(Inds[k])
    BY <1>9
  <1>12. \A k \in 0..n : all[k] \in A
    <2> DEFINE S == {k \in 0..n : all[k] \in A}
    <2>1. 0 \in S
      BY <1>1, <1>2, <1>11
    <2>2. ASSUME NEW k \in (0 + 1)..n, k - 1 \in S PROVE k \in S
      <3>1. k \in 1..n /\ k \in 0..n /\ k # 0
        BY <1>1
      <3>2. all[k] = all[k - 1] \o Tips!Legends(Inds[k])
        BY <1>11, <3>1
      <3> QED
        BY <1>3, <2>2, <3>1, <3>2
    <2> HIDE DEF S
    <2>3. 0..n \subseteq S
      BY <1>1, <2>1, <2>2, IntervalInduction
    <2> QED
      BY <2>3 DEF S
  <1>13. (IF studies THEN n ELSE 0) \in 0..n
    BY <1>1
  <1> QED
    BY <1>10, <1>12, <1>13 DEF A

Guides == [x : Nat, y : Nat, bar : 1..LastBar]

LEMMA FrameIs ==
    /\ RectStyle.left \in Nat /\ RectStyle.top \in Nat /\ RectStyle.right \in Nat /\ RectStyle.bottom \in Nat
    /\ RectStyle.padX \in Nat /\ RectStyle.padY \in Nat /\ RectStyle.border \in Nat
    /\ RectStyle.left > 0 /\ RectStyle.right > 0 /\ Offset.bottom \in Nat /\ PaneHeight \in Nat
  BY ConstantsAssumption DEF Tips!StylesAssumption

\* Line k + 1 of the legends comes below line k, the last one within the height.
LEMMA LinesGoDown ==
    ASSUME NEW line \in Nat, NEW j \in Nat, NEW k \in Nat, j < k
    PROVE  (j - 1) * line + line <= (k - 1) * line
  <1>1. j * line <= (k - 1) * line
    BY TimesMonotone
  <1>2. (j - 1) * line + line = j * line
    OBVIOUS
  <1> QED
    BY <1>1, <1>2

LEMMA MeasuresAre ==
    /\ Text.left \in Nat /\ Text.top \in Nat /\ Text.right \in Nat /\ Text.bottom \in Nat
    /\ Text.size \in Nat /\ Text.top > 0 /\ Tips!LineHeight \in Nat /\ Tips!InsetX \in Nat /\ Tips!InsetY \in Nat
    /\ Tips!LineHeight = Text.top + Text.size + Text.bottom
  <1>1. /\ Text.left \in Nat /\ Text.top \in Nat /\ Text.right \in Nat /\ Text.bottom \in Nat
        /\ Text.size \in Nat /\ Text.top > 0
    BY StylesAre DEF Styles
  <1>2. Tips!InsetX \in Nat /\ Tips!InsetY \in Nat
    BY FrameIs DEF Tips!InsetX, Tips!InsetY
  <1> QED
    BY <1>1, <1>2 DEF Tips!LineHeight

LEMMA RectXIs ==
    ASSUME NEW w \in Nat, NEW r, r.w = w, r.x = Tips!RectX(w), paneWidth \in Nat,
           guide \in Guides \cup {None}, realX \in Int
    PROVE  Beside(r) /\ r.x \in Int
  <1> DEFINE room == 2 * (r.w + RectStyle.left + RectStyle.right + Offset.left + Offset.right)
                        <= paneWidth
             x == guide.x
             inside == r.x >= 0 /\ r.x + r.w <= paneWidth
  <1>1. /\ RectStyle.left \in Nat /\ RectStyle.right \in Nat /\ Offset.left \in Nat /\ Offset.right \in Nat
        /\ RectStyle.left > 0 /\ RectStyle.right > 0
    BY FrameIs, StylesAre
  <1>2. guide # None => x \in Int
    BY DEF Guides
  <1>3. Beside(r) <=>
            (room /\ (Tips!ByPointer => realX \in 0..paneWidth)
             => inside /\ (guide # None => Off(r, realX) /\ (Close(x) => Off(r, x))))
    BY DEF Beside
  <1> HIDE DEF x
  <1>4. CASE Tips!ByPointer
    <2>1. r.x = IF 2 * realX > paneWidth THEN realX - RectStyle.right - w ELSE realX + RectStyle.left
      BY <1>4 DEF Tips!RectX
    <2>2. r.x \in Int
      BY <1>1, <2>1
    <2>3. ASSUME room, realX \in 0..paneWidth PROVE inside
      BY <1>1, <2>1, <2>3
    <2>4. Off(r, realX)
      BY <1>1, <2>1 DEF Off
    <2>5. ASSUME x \in Int, Close(x) PROVE Off(r, x)
      BY <1>1, <2>1, <2>5 DEF Off, Close
    <2> QED
      BY <1>2, <1>3, <1>4, <2>2, <2>3, <2>4, <2>5
  <1>5. CASE ~Tips!ByPointer
    <2>1. r.x = IF 2 * realX > paneWidth THEN RectStyle.left + Offset.left
                ELSE paneWidth - RectStyle.right - w - Offset.right
      BY <1>5 DEF Tips!RectX
    <2>2. r.x \in Int
      BY <1>1, <2>1
    <2>3. ASSUME room PROVE inside
      BY <1>1, <2>1, <2>3
    <2>4. ASSUME room PROVE Off(r, realX)
      BY <1>1, <2>1, <2>4 DEF Off
    <2>5. ASSUME room, x \in Int, Close(x) PROVE Off(r, x)
      BY <1>1, <2>1, <2>5 DEF Off, Close
    <2> QED
      BY <1>2, <1>3, <2>2, <2>3, <2>4, <2>5
  <1> QED
    BY <1>4, <1>5

LEMMA RectYIs ==
    ASSUME NEW pen \in Pens, NEW h \in Nat, guide \in Guides \cup {None}
    PROVE  Tips!RectY(pen, h) \in Int /\ pen.y + pen.row <= Tips!RectY(pen, h)
  <1> DEFINE top == Tips!Bottom(pen) + RectStyle.top
             centred == guide.y - h \div 2
             lowest == PaneHeight - RectStyle.bottom - Offset.bottom - h
             wanted == Tips!Min({centred, lowest})
  <1>1. top \in Int /\ pen.y + pen.row <= top /\ Offset.top \in Nat
    BY FrameIs, StylesAre, PenIs DEF Tips!Bottom
  <1>2. Tips!RectY(pen, h) = IF ~Tips!ByPointer THEN top
                        ELSE IF wanted < top THEN top + Offset.top ELSE wanted
    BY DEF Tips!RectY
  <1>3. Tips!ByPointer => wanted \in Int
    <2> SUFFICES ASSUME Tips!ByPointer PROVE wanted \in Int
      OBVIOUS
    <2>1. lowest \in Int
      BY FrameIs
    <2>2. guide.y \in Nat
      BY DEF Guides, Tips!ByPointer
    <2>3. h \div 2 \in Int
      OBVIOUS
    <2>4. centred \in Int
      BY <2>2, <2>3
    <2> HIDE DEF centred, lowest
    <2>5. wanted \in {centred, lowest}
      BY <2>1, <2>4, LeastOfTwo
    <2> HIDE DEF wanted
    <2> QED
      BY <2>1, <2>4, <2>5
  <1> HIDE DEF top, wanted
  <1>4. CASE ~Tips!ByPointer \/ wanted < top
    <2>1. Tips!RectY(pen, h) = top \/ Tips!RectY(pen, h) = top + Offset.top
      BY <1>2, <1>4
    <2> QED
      BY <1>1, <2>1, PenIs
  <1>5. CASE Tips!ByPointer /\ ~(wanted < top)
    <2>1. Tips!RectY(pen, h) = wanted /\ wanted \in Int
      BY <1>2, <1>3, <1>5
    <2> QED
      BY <1>1, <1>5, <2>1, PenIs
  <1> QED
    BY <1>4, <1>5

LEMMA WithinInsets ==
    ASSUME NEW i \in Nat, NEW l \in Nat, NEW a \in Nat, NEW b \in Nat, NEW r \in Nat,
           NEW m \in Nat, l + a + b + r <= m
    PROVE  i + l + a + b + r + i <= m + 2 * i
  OBVIOUS

LEMMA RectWidthIs ==
    ASSUME NEW legends \in Seq(Records)
    PROVE  /\ Tips!RectWidth(legends) \in Nat
           /\ \A k \in 1..Len(legends) :
                 Tips!InsetX + Text.left + legends[k].title + legends[k].value + Text.right + Tips!InsetX
                     <= Tips!RectWidth(legends)
  <1> DEFINE n == Len(legends)
             f == [k \in 1..n |-> Text.left + legends[k].title + legends[k].value + Text.right]
             S == {0} \cup {Text.left + legends[k].title + legends[k].value + Text.right :
                               k \in DOMAIN legends}
  <1>1. n \in Nat /\ DOMAIN legends = 1..n
    OBVIOUS
  <1>2. \A k \in 1..n : legends[k] \in Records
    OBVIOUS
  <1> HIDE DEF n
  <1>3. ASSUME NEW k \in 1..n
        PROVE  legends[k].title \in Nat /\ legends[k].value \in Nat
    BY <1>2 DEF Records
  <1>4. \A k \in 1..n : f[k] = Text.left + legends[k].title + legends[k].value + Text.right
    OBVIOUS
  <1>5. S = {0} \cup {f[k] : k \in 1..n}
    BY <1>1
  <1> HIDE DEF f, S
  <1>6. ASSUME NEW k \in 1..n PROVE f[k] \in Nat
    <2> DEFINE a == legends[k].title
               b == legends[k].value
    <2>1. a \in Nat /\ b \in Nat /\ f[k] = Text.left + a + b + Text.right
      BY <1>3, <1>4
    <2> HIDE DEF a, b
    <2> QED
      BY <2>1, MeasuresAre
  <1>7. Tips!Max(S) \in Nat /\ \A k \in 1..n : f[k] <= Tips!Max(S)
    <2>1. 0 \in S /\ (\A k \in 1..n : f[k] \in S) /\ \A z \in S : z = 0 \/ \E k \in 1..n : z = f[k]
      BY <1>5
    <2> QED
      BY <1>1, <1>6, <2>1, GreatestOf
  <1>8. Tips!RectWidth(legends) = Tips!Max(S) + 2 * Tips!InsetX
    BY DEF Tips!RectWidth, S
  <1>9. ASSUME NEW k \in 1..n
        PROVE  Tips!InsetX + Text.left + legends[k].title + legends[k].value + Text.right + Tips!InsetX
                   <= Tips!RectWidth(legends)
    <2>1. f[k] \in Nat /\ f[k] <= Tips!Max(S)
      BY <1>6, <1>7
    <2> DEFINE a == legends[k].title
               b == legends[k].value
    <2>2. a \in Nat /\ b \in Nat /\ f[k] = Text.left + a + b + Text.right
      BY <1>3, <1>4
    <2> DEFINE m == Tips!Max(S)
               W == Tips!RectWidth(legends)
    <2> HIDE DEF a, b
    <2>3. m \in Nat /\ Text.left + a + b + Text.right <= m
      BY <1>7, <2>1, <2>2
    <2>4. W = m + 2 * Tips!InsetX
      BY <1>8
    <2> HIDE DEF m, W
    <2>5. Tips!InsetX + Text.left + a + b + Text.right + Tips!InsetX <= W
      BY <2>2, <2>3, <2>4, MeasuresAre, WithinInsets
    <2> QED
      BY <2>5 DEF a, b, W
  <1>10. Tips!RectWidth(legends) \in Nat
    BY <1>7, <1>8, MeasuresAre
  <1> QED
    BY <1>9, <1>10 DEF n

LEMMA RectHeightIs ==
    ASSUME NEW legends \in Seq(Records)
    PROVE  /\ Tips!RectHeight(legends) \in Nat
           /\ Tips!RectHeight(legends) = Len(legends) * Tips!LineHeight + 2 * Tips!InsetY
           /\ Len(legends) * Tips!LineHeight \in Nat
  <1>1. Len(legends) \in Nat /\ Tips!LineHeight \in Nat
    BY MeasuresAre
  <1>2. Len(legends) * Tips!LineHeight \in Nat
    BY <1>1
  <1> QED
    BY <1>2, MeasuresAre DEF Tips!RectHeight

\* Line k is within the rectangle, and below the lines before it.
LEMMA LineYIs ==
    ASSUME NEW n \in Nat, NEW k \in 1..n, NEW y \in Int, NEW h \in Nat,
           h = n * Tips!LineHeight + 2 * Tips!InsetY
    PROVE  /\ Tips!LineY(k, y) \in Int /\ y < Tips!LineY(k, y) /\ Tips!LineY(k, y) + Text.size <= y + h
           /\ \A j \in 1..n : j < k => Tips!LineY(j, y) + Text.size <= Tips!LineY(k, y)
  <1>1. k \in Nat /\ k - 1 \in Nat /\ n + 1 \in Nat /\ k < n + 1 /\ (n + 1) - 1 = n
    OBVIOUS
  <1> DEFINE a(j) == (j - 1) * Tips!LineHeight
             c == n * Tips!LineHeight
  <1>2. a(k) \in Nat /\ c \in Nat /\ a(k) + Tips!LineHeight <= c
    <2>1. (k - 1) * Tips!LineHeight + Tips!LineHeight <= ((n + 1) - 1) * Tips!LineHeight
      BY <1>1, MeasuresAre, LinesGoDown
    <2>2. (k - 1) * Tips!LineHeight \in Nat /\ n * Tips!LineHeight \in Nat
      BY <1>1, MeasuresAre
    <2> QED
      BY <1>1, <2>1, <2>2
  <1>3. \A j \in 1..n : Tips!LineY(j, y) = y + Tips!InsetY + a(j) + Text.top
    BY DEF Tips!LineY
  <1>4. ASSUME NEW j \in 1..n, j < k PROVE a(j) \in Nat /\ a(j) + Tips!LineHeight <= a(k)
    <2>1. j \in Nat /\ j - 1 \in Nat
      OBVIOUS
    <2>2. (j - 1) * Tips!LineHeight \in Nat
      BY <2>1, MeasuresAre
    <2>3. (j - 1) * Tips!LineHeight + Tips!LineHeight <= (k - 1) * Tips!LineHeight
      BY <1>1, <1>4, <2>1, MeasuresAre, LinesGoDown
    <2> QED
      BY <2>2, <2>3
  <1>5. h = c + 2 * Tips!InsetY
    OBVIOUS
  <1> HIDE DEF a, c
  <1>6. /\ Tips!LineY(k, y) \in Int /\ y < Tips!LineY(k, y) /\ Tips!LineY(k, y) + Text.size <= y + h
    BY <1>2, <1>3, <1>5, MeasuresAre
  <1>7. ASSUME NEW j \in 1..n, j < k PROVE Tips!LineY(j, y) + Text.size <= Tips!LineY(k, y)
    <2>1. a(j) \in Nat /\ a(j) + Tips!LineHeight <= a(k) /\ a(k) \in Nat
      BY <1>2, <1>4, <1>7
    <2>2. Tips!LineY(j, y) = y + Tips!InsetY + a(j) + Text.top /\ Tips!LineY(k, y) = y + Tips!InsetY + a(k) + Text.top
      BY <1>3
    <2> QED
      BY <2>1, <2>2, MeasuresAre
  <1> QED
    BY <1>6, <1>7

\* Both lie in the rectangle, the title left of the value.
LEMMA LineIs ==
    ASSUME NEW legend \in Records, NEW k, NEW x \in Int, NEW y \in Int, NEW w \in Nat,
           NEW h \in Nat, NEW r, r.x = x, r.y = y, r.w = w, r.h = h,
           Tips!InsetX + Text.left + legend.title + legend.value + Text.right + Tips!InsetX <= w,
           Tips!LineY(k, y) \in Int, y < Tips!LineY(k, y), Tips!LineY(k, y) + Text.size <= y + h
    PROVE  LET a == Tips!RectTitle(legend, k, x, y)
               b == Tips!RectValue(legend, k, x, y, w)
           IN  /\ a \in Items /\ a.kind = "line" /\ Holds(r, a)
               /\ a.y = Tips!LineY(k, y) /\ a.h = Text.size
               /\ b \in Items /\ b.kind = "line" /\ Holds(r, b)
               /\ b.y = Tips!LineY(k, y) /\ b.h = Text.size
               /\ a.x + a.w <= b.x
  <1> DEFINE a == Tips!RectTitle(legend, k, x, y)
             b == Tips!RectValue(legend, k, x, y, w)
  <1>1. legend.title \in Nat /\ legend.value \in Nat
    BY DEF Records
  <1>2. /\ a.kind = "line" /\ a.x = x + Tips!InsetX + Text.left /\ a.y = Tips!LineY(k, y)
        /\ a.w = legend.title /\ a.h = Text.size
        /\ b.kind = "line" /\ b.x = x + w - Tips!InsetX - Text.right - legend.value
        /\ b.y = Tips!LineY(k, y) /\ b.w = legend.value /\ b.h = Text.size
    BY DEF Tips!Piece, Tips!RectTitle, Tips!RectValue
  <1>3. x + Tips!InsetX + Text.left \in Int /\ x + w - Tips!InsetX - Text.right - legend.value \in Int
    BY <1>1, MeasuresAre
  <1>4. a \in Items
    BY <1>1, <1>3, MeasuresAre DEF Tips!RectTitle, Tips!Piece, Items
  <1>5. b \in Items
    BY <1>1, <1>3, MeasuresAre DEF Tips!RectValue, Tips!Piece, Items
  <1> HIDE DEF a, b
  <1>6. /\ a.x >= x /\ a.x + a.w <= x + w /\ b.x >= x /\ b.x + b.w <= x + w
        /\ a.x + a.w <= b.x
    BY <1>1, <1>2, MeasuresAre
  <1>7. a.y >= y /\ a.y + a.h <= y + h /\ b.y >= y /\ b.y + b.h <= y + h
    BY <1>2, MeasuresAre
  <1>8. Holds(r, a) /\ Holds(r, b)
    BY <1>6, <1>7 DEF Holds
  <1> QED
    BY <1>2, <1>4, <1>5, <1>6, <1>8 DEF a, b

\* Of two numbers the greater has the greater half, rounded up, or they share it.
LEMMA HalvesOf ==
    ASSUME NEW i \in Int, NEW j \in Int, i < j
    PROVE  \/ (i + 1) \div 2 < (j + 1) \div 2
           \/ (i + 1) \div 2 = (j + 1) \div 2 /\ i % 2 = 1 /\ j % 2 # 1
  OBVIOUS

LEMMA LinesAre ==
    ASSUME NEW legends \in Seq(Records), NEW x \in Int, NEW y \in Int, NEW r,
           r.x = x, r.y = y, r.w = Tips!RectWidth(legends), r.h = Tips!RectHeight(legends)
    PROVE  LET lines == Tips!RectLines(legends, x, y, Tips!RectWidth(legends))
           IN  /\ lines \in Seq(Items)
               /\ \A j \in DOMAIN lines : /\ lines[j].kind = "line" /\ Holds(r, lines[j])
                                          /\ r.y < lines[j].y
               /\ \A i, j \in DOMAIN lines : i < j => Clear(lines[i], lines[j])
  <1> DEFINE n == Len(legends)
             w == Tips!RectWidth(legends)
             h == Tips!RectHeight(legends)
             lines == Tips!RectLines(legends, x, y, w)
             title(k) == Tips!RectTitle(legends[k], k, x, y)
             val(k) == Tips!RectValue(legends[k], k, x, y, w)
             half(j) == (j + 1) \div 2
  <1>1. n \in Nat /\ \A k \in 1..n : legends[k] \in Records
    OBVIOUS
  <1>2. w \in Nat /\ h \in Nat /\ h = n * Tips!LineHeight + 2 * Tips!InsetY
    BY RectWidthIs, RectHeightIs
  <1>3. \A k \in 1..n :
            Tips!InsetX + Text.left + legends[k].title + legends[k].value + Text.right + Tips!InsetX <= w
    BY RectWidthIs
  <1>4. /\ DOMAIN lines = 1..(2 * n) /\ 2 * n \in Nat
        /\ lines = [j \in 1..(2 * n) |-> lines[j]]
        /\ \A j \in 1..(2 * n) : lines[j] = IF j % 2 = 1 THEN title(half(j)) ELSE val(half(j))
    BY <1>1 DEF Tips!RectLines
  <1> HIDE DEF n, w, h, lines
  <1>5. ASSUME NEW k \in 1..n
        PROVE  /\ Tips!LineY(k, y) \in Int /\ y < Tips!LineY(k, y) /\ Tips!LineY(k, y) + Text.size <= y + h
               /\ \A j \in 1..n : j < k => Tips!LineY(j, y) + Text.size <= Tips!LineY(k, y)
    BY <1>1, <1>2, LineYIs
  <1>6. ASSUME NEW k \in 1..n
        PROVE  /\ title(k) \in Items /\ title(k).kind = "line" /\ Holds(r, title(k))
               /\ title(k).y = Tips!LineY(k, y) /\ title(k).h = Text.size
               /\ val(k) \in Items /\ val(k).kind = "line" /\ Holds(r, val(k))
               /\ val(k).y = Tips!LineY(k, y) /\ val(k).h = Text.size
               /\ title(k).x + title(k).w <= val(k).x
    <2>1. legends[k] \in Records
      BY <1>1
    <2>2. Tips!InsetX + Text.left + legends[k].title + legends[k].value + Text.right + Tips!InsetX <= w
      BY <1>3
    <2>3. r.w = w /\ r.h = h
      BY DEF w, h
    <2> DEFINE legend == legends[k]
    <2> HIDE DEF legend
    <2>4. legend \in Records
          /\ Tips!InsetX + Text.left + legend.title + legend.value + Text.right + Tips!InsetX <= w
      BY <2>1, <2>2 DEF legend
    <2> DEFINE A == Tips!RectTitle(legend, k, x, y)
               B == Tips!RectValue(legend, k, x, y, w)
    <2>5. /\ A \in Items /\ A.kind = "line" /\ Holds(r, A)
          /\ A.y = Tips!LineY(k, y) /\ A.h = Text.size
          /\ B \in Items /\ B.kind = "line" /\ Holds(r, B)
          /\ B.y = Tips!LineY(k, y) /\ B.h = Text.size
          /\ A.x + A.w <= B.x
      BY <1>2, <1>5, <2>3, <2>4, LineIs
    <2> QED
      BY <2>5 DEF legend
  <1> HIDE DEF title, val
  <1>7. \A j \in 1..(2 * n) : half(j) \in 1..n
    BY <1>1
  <1>8. ASSUME NEW i \in 1..(2 * n), NEW j \in 1..(2 * n), i < j
        PROVE  half(i) < half(j) \/ (half(i) = half(j) /\ i % 2 = 1 /\ j % 2 # 1)
    <2>1. i \in Int /\ j \in Int
      BY <1>4
    <2> QED
      BY <1>8, <2>1, HalvesOf
  <1> HIDE DEF half
  <1>9. \A j \in 1..(2 * n) : /\ lines[j] \in Items /\ lines[j].kind = "line"
                              /\ Holds(r, lines[j]) /\ r.y < lines[j].y
    BY <1>4, <1>5, <1>6, <1>7
  <1>10. lines \in Seq(Items)
    <2>1. lines \in [1..(2 * n) -> Items]
      BY <1>4, <1>9
    <2> QED
      BY <1>4, <2>1
  <1>11. ASSUME NEW i \in 1..(2 * n), NEW j \in 1..(2 * n), i < j
         PROVE  Clear(lines[i], lines[j])
    <2> DEFINE a == half(i)
               b == half(j)
    <2>1. a \in 1..n /\ b \in 1..n
      BY <1>7
    <2>2. a < b \/ (a = b /\ i % 2 = 1 /\ j % 2 # 1)
      BY <1>8, <1>11
    <2>3. /\ lines[i] = IF i % 2 = 1 THEN title(a) ELSE val(a)
          /\ lines[j] = IF j % 2 = 1 THEN title(b) ELSE val(b)
      BY <1>4
    <2>4. lines[i].kind = "line" /\ lines[j].kind = "line"
      BY <1>9
    <2> HIDE DEF a, b
    <2>5. CASE a < b
      <3>1. lines[i].y = Tips!LineY(a, y) /\ lines[i].h = Text.size /\ lines[j].y = Tips!LineY(b, y)
        BY <1>6, <2>1, <2>3
      <3>2. Tips!LineY(a, y) + Text.size <= Tips!LineY(b, y)
        BY <1>5, <2>1, <2>5
      <3> QED
        BY <2>4, <3>1, <3>2 DEF Clear
    <2>6. CASE a = b /\ i % 2 = 1 /\ j % 2 # 1
      <3>1. lines[i] = title(a) /\ lines[j] = val(a)
        BY <2>3, <2>6
      <3>2. lines[i].x + lines[i].w <= lines[j].x
        BY <1>6, <2>1, <3>1
      <3> QED
        BY <2>4, <3>2 DEF Clear
    <2> QED
      BY <2>2, <2>5, <2>6
  <1> QED
    BY <1>4, <1>9, <1>10, <1>11 DEF lines, w

LEMMA RectDrawn ==
    ASSUME NEW pen \in Pens, SoundPen(pen), \A o \in Tips!Owners : Tips!Legends(o) \in Seq(Records),
           paneWidth \in Nat, guide \in Guides \cup {None}, realX \in Int, NEW candle, NEW studies
    PROVE  LET s == Tips!DrawRect(pen, candle, studies).drawn
           IN  /\ s \in Seq(Items) /\ Separate(s) /\ RectHolds(s) /\ StartsWith(pen.drawn, s)
               /\ \A k \in (Len(pen.drawn) + 1)..Len(s) : s[k].kind \in {"rect", "line"}
               /\ RectPlaced(s)
  <1> DEFINE legends == Tips!RectLegends(candle, studies)
             w == Tips!RectWidth(legends)
             h == Tips!RectHeight(legends)
             x == Tips!RectX(w)
             y == Tips!RectY(pen, h)
             r == Tips!Piece("rect", None, None, x, y, w, h)
             lines == Tips!RectLines(legends, x, y, w)
             q == [pen EXCEPT !.drawn = Append(@, r) \o lines]
             s == q.drawn
             d == pen.drawn
  <1>1. Tips!DrawRect(pen, candle, studies) = IF ~Tips!IsDrawTooltip \/ legends = <<>> THEN pen ELSE q
    BY DEF Tips!DrawRect
  <1>2. legends \in Seq(Records)
    BY RectLegendsAre
  <1> HIDE DEF legends
  <1>3. w \in Nat /\ h \in Nat
    BY <1>2, RectWidthIs, RectHeightIs
  <1>4. y \in Int /\ pen.y + pen.row <= y
    <2> HIDE DEF h
    <2> QED
      BY <1>3, RectYIs
  <1>5. r.kind = "rect" /\ r.x = x /\ r.y = y /\ r.w = w /\ r.h = h
    BY DEF Tips!Piece
  <1>6. Beside(r) /\ x \in Int
    <2> HIDE DEF w, r
    <2> QED
      BY <1>3, <1>5, RectXIs
  <1>7. r \in Items
    <2> HIDE DEF x, y, w, h
    <2> QED
      BY <1>3, <1>4, <1>6 DEF Tips!Piece, Items
  <1>8. s = Append(d, r) \o lines
    <2> HIDE DEF r, lines
    <2> QED
      BY PenShape
  <1> HIDE DEF r, x, y
  <1>9. /\ lines \in Seq(Items)
        /\ \A j \in DOMAIN lines : /\ lines[j].kind = "line" /\ Holds(r, lines[j])
                                   /\ r.y < lines[j].y
        /\ \A i, j \in DOMAIN lines : i < j => Clear(lines[i], lines[j])
    BY <1>2, <1>4, <1>5, <1>6, LinesAre
  <1> HIDE DEF lines, q, w, h
  <1>10. /\ s \in Seq(Items) /\ Separate(s) /\ RectHolds(s) /\ StartsWith(d, s)
         /\ \A k \in (Len(d) + 1)..Len(s) : s[k].kind \in {"rect", "line"}
         /\ \A k \in DOMAIN s : s[k].kind = "rect" => s[k] = r
    <2>1. pen.y + pen.row <= r.y
      BY <1>4, <1>5
    <2> HIDE DEF s
    <2> QED
      BY <1>5, <1>7, <1>8, <1>9, <2>1, RectAdded
  <1>11. RectPlaced(s)
    BY <1>6, <1>10 DEF RectPlaced
  <1>12. /\ d \in Seq(Items) /\ Separate(d) /\ RectHolds(d) /\ RectPlaced(d) /\ StartsWith(d, d)
         /\ \A k \in (Len(d) + 1)..Len(d) : d[k].kind \in {"rect", "line"}
    <2>1. d \in Seq(Items) /\ Len(d) \in Nat
      BY PenIs
    <2>2. \A k \in DOMAIN d : d[k].kind # "rect"
      BY DEF SoundPen, Above
    <2>3. Separate(d)
      BY DEF SoundPen
    <2> HIDE DEF d
    <2> QED
      BY <2>1, <2>2, <2>3 DEF RectHolds, RectPlaced, StartsWith
  <1> HIDE DEF s
  <1>13. Tips!DrawRect(pen, candle, studies).drawn = s \/ Tips!DrawRect(pen, candle, studies).drawn = d
    BY <1>1 DEF s
  <1> QED
    BY <1>10, <1>11, <1>12, <1>13

-----------------------------------------------------------------------------
(* What is painted. *)

Looks == [pane : {Tips!Candles, "other"}, candle : {"rect", "standard"},
          studies : {"rect", "standard"}, rule : {"always", "follow_cross"},
          at : {"pointer", "fixed"}]
Measured ==
    style \in Looks /\ paneWidth \in Nat /\ guide \in Guides \cup {None} /\ realX \in Int

\* What a pen drew in rows, and perhaps the rectangle after it.
Fine(s, q) ==
    /\ s \in Seq(Items) /\ Separate(s) /\ RectHolds(s) /\ RectPlaced(s)
    /\ \A k \in DOMAIN s : Wraps(s[k], Tips!MaxWidth)
    /\ StartsWith(q.drawn, s)
    /\ \A k \in (Len(q.drawn) + 1)..Len(s) : s[k].kind \in {"rect", "line"}

\* Legends are always shown, and those of the first owner begin with its lead,
\* whatever values there are.
Steady == style.rule = "always" /\ (Tips!First = Tips!Candles \/ NameWidth[Tips!First] # 0)
FixedPen ==
    IF Tips!First = Tips!Candles THEN CandleLead(Tips!Pen(Offset.top))
    ELSE IF style.pane # Tips!Candles \/ style.studies = "standard"
         THEN StudyLead(Tips!Pen(Offset.top), Inds[1])
         ELSE Tips!Pen(Offset.top)
Late(d) == d.kind \in {"rect", "line"} \/ Mark(d) \in Behind(Tips!First)

LEMMA LegendsAre ==
    ASSUME guide \in Guides \cup {None}
    PROVE  \A o \in Tips!Owners : Tips!Legends(o) \in Seq(Records)
  <1> SUFFICES ASSUME NEW o \in Tips!Owners PROVE Tips!Legends(o) \in Seq(Records)
    OBVIOUS
  <1>1. Tips!BarShown \in 1..LastBar
    <2>1. LastBar \in Nat \ {0}
      BY StylesAre
    <2>2. guide # None => guide.bar \in 1..LastBar
      BY DEF Guides
    <2> QED
      BY <2>1, <2>2 DEF Tips!BarShown
  <1>2. LegendsOf \in [Tips!Owners -> [1..LastBar -> Seq(Records)]]
    BY ConstantsAssumption DEF Tips!LegendsAssumption, Records
  <1>3. LegendsOf[o][Tips!BarShown] \in Seq(Records)
    BY <1>1, <1>2
  <1>4. <<>> \in Seq(Records)
    OBVIOUS
  <1> QED
    BY <1>3, <1>4 DEF Tips!Legends

LEMMA WidthIs ==
    ASSUME Measured
    PROVE  Tips!MaxWidth \in Int
  BY StylesAre DEF Measured, Tips!MaxWidth

LEMMA FineRows ==
    ASSUME NEW q \in Pens, SoundPen(q), q.right = Tips!MaxWidth
    PROVE  Fine(q.drawn, q)
  <1> DEFINE d == q.drawn
  <1>1. d \in Seq(Items) /\ Len(d) \in Nat
    BY PenIs
  <1>2. \A k \in DOMAIN d : d[k].kind # "rect" /\ Wraps(d[k], Tips!MaxWidth)
    BY DEF SoundPen, Above
  <1>3. Separate(d)
    BY DEF SoundPen
  <1> HIDE DEF d
  <1>4. RectHolds(d) /\ RectPlaced(d) /\ StartsWith(d, d)
    BY <1>1, <1>2 DEF RectHolds, RectPlaced, StartsWith
  <1>5. \A k \in (Len(d) + 1)..Len(d) : d[k].kind \in {"rect", "line"}
    BY <1>1
  <1> QED
    BY <1>1, <1>2, <1>3, <1>4, <1>5 DEF Fine, d

LEMMA FineRect ==
    ASSUME NEW q \in Pens, SoundPen(q), q.right = Tips!MaxWidth, Measured, NEW candle, NEW studies
    PROVE  Fine(Tips!DrawRect(q, candle, studies).drawn, q)
  <1> DEFINE d == q.drawn
             s == Tips!DrawRect(q, candle, studies).drawn
  <1>1. /\ s \in Seq(Items) /\ Separate(s) /\ RectHolds(s) /\ StartsWith(d, s) /\ RectPlaced(s)
        /\ \A k \in (Len(d) + 1)..Len(s) : s[k].kind \in {"rect", "line"}
    BY LegendsAre, RectDrawn DEF Measured
  <1>2. d \in Seq(Items) /\ Len(d) \in Nat /\ DOMAIN d = 1..Len(d)
    BY PenIs
  <1>3. \A k \in DOMAIN d : Wraps(d[k], Tips!MaxWidth)
    BY DEF SoundPen, Above
  <1> HIDE DEF d, s
  <1>4. ASSUME NEW k \in DOMAIN s PROVE Wraps(s[k], Tips!MaxWidth)
    <2>1. k \in 1..Len(s) /\ Len(s) \in Nat
      BY <1>1
    <2>2. CASE k <= Len(d)
      <3>1. k \in 1..Len(d)
        BY <1>2, <2>1, <2>2
      <3> QED
        BY <1>1, <1>2, <1>3, <3>1 DEF StartsWith
    <2>3. CASE ~(k <= Len(d))
      <3>1. k \in (Len(d) + 1)..Len(s)
        BY <1>2, <2>1, <2>3
      <3>2. s[k].kind # "text"
        BY <1>1, <3>1
      <3> QED
        BY <3>2 DEF Wraps
    <2> QED
      BY <2>2, <2>3
  <1> QED
    BY <1>1, <1>4 DEF Fine, d, s

LEMMA CandleBehind ==
    /\ StudyMarks \subseteq Behind(Tips!Candles)
    /\ Texts \cup IconMarks(Tips!Candles, "right") \subseteq Behind(Tips!Candles)
  <1>1. \A o \in Studies : o \in Tips!Owners \ {Tips!Candles}
    BY IndsAre
  <1> QED
    BY <1>1 DEF StudyMarks, Behind

LEMMA PaintedIs ==
    ASSUME Measured
    PROVE  \E q \in Pens :
              /\ Fine(Tips!Painted, q)
              /\ Steady => FixedPen \in Pens /\ q \in Onward(FixedPen, Behind(Tips!First))
  <1> DEFINE pen == Tips!Pen(Offset.top)
  <1>1. pen \in Pens /\ SoundPen(pen) /\ pen.right = Tips!MaxWidth /\ pen.row = 0
    BY WidthIs, FirstPen
  <1>2. \A o \in Tips!Owners : Tips!Legends(o) \in Seq(Records)
    BY LegendsAre DEF Measured
  <1>3. Tips!Candles \in Tips!Owners /\ Inds[1] # Tips!Candles
    <2>1. Inds[1] \in Studies
      BY IndsAre
    <2> QED
      BY <2>1, IndsAre
  <1>4. /\ style.candle \in {"rect", "standard"} /\ style.studies \in {"rect", "standard"}
        /\ Steady => Tips!IsDrawTooltip
    BY DEF Measured, Looks, Steady, Tips!IsDrawTooltip
  <1> HIDE DEF pen
  \* The studies in rows: of the pen at the top and of one past the candles.
  <1> DEFINE rows == Tips!DrawIndicatorTooltip(pen)
             top == Tips!DrawCandle(pen)
             both == Tips!DrawIndicatorTooltip(top)
  <1>5. /\ rows \in Pens /\ SoundPen(rows) /\ rows.right = Tips!MaxWidth
        /\ Tips!IsDrawTooltip /\ NameWidth[Inds[1]] # 0 =>
              StudyLead(pen, Inds[1]) \in Pens /\ rows \in Onward(StudyLead(pen, Inds[1]), Behind(Inds[1]))
    <2>1. rows \in Onward(pen, StudyMarks)
      BY <1>1, <1>2, StudiesDrawn
    <2>2. Tips!IsDrawTooltip /\ NameWidth[Inds[1]] # 0 =>
              StudyLead(pen, Inds[1]) \in Pens /\ rows \in Onward(StudyLead(pen, Inds[1]), Behind(Inds[1]))
      BY <1>1, <1>2, StudiesDrawn
    <2> HIDE DEF rows
    <2>3. rows \in Pens /\ SoundPen(rows) /\ rows.right = Tips!MaxWidth
      BY <1>1, <2>1, OnwardIs
    <2> QED
      BY <2>2, <2>3
  <1>6. /\ top \in Pens /\ SoundPen(top) /\ top.right = Tips!MaxWidth
        /\ Tips!IsDrawTooltip => CandleLead(pen) \in Pens /\ top \in Onward(CandleLead(pen), Behind(Tips!Candles))
    <2>1. Tips!Legends(Tips!Candles) \in Seq(Records)
      BY <1>2, <1>3
    <2>2. top \in Onward(pen, MarksOf(Tips!Candles))
      BY <1>1, <2>1, CandleDrawn
    <2>3. Tips!IsDrawTooltip =>
              CandleLead(pen) \in Pens
              /\ top \in Onward(CandleLead(pen), Texts \cup IconMarks(Tips!Candles, "right"))
      BY <1>1, <2>1, CandleDrawn
    <2> HIDE DEF top
    <2>4. top \in Pens /\ SoundPen(top) /\ top.right = Tips!MaxWidth
      BY <1>1, <2>2, OnwardIs
    <2>5. Tips!IsDrawTooltip => top \in Onward(CandleLead(pen), Behind(Tips!Candles))
      BY <2>3, CandleBehind, OnwardMore
    <2> QED
      BY <2>3, <2>4, <2>5
  <1> HIDE DEF top
  <1>7. /\ both \in Pens /\ SoundPen(both) /\ both.right = Tips!MaxWidth
        /\ Tips!IsDrawTooltip => both \in Onward(CandleLead(pen), Behind(Tips!Candles))
    <2>1. both \in Onward(top, StudyMarks)
      BY <1>2, <1>6, StudiesDrawn
    <2> HIDE DEF both
    <2>2. both \in Pens /\ SoundPen(both) /\ both.right = Tips!MaxWidth
      BY <1>6, <2>1, OnwardIs
    <2>3. both \in Onward(top, Behind(Tips!Candles))
      BY <2>1, CandleBehind, OnwardMore
    <2>4. Tips!IsDrawTooltip => both \in Onward(CandleLead(pen), Behind(Tips!Candles))
      BY <1>6, <2>3, OnwardOn
    <2> QED
      BY <2>2, <2>4
  <1> HIDE DEF both, rows
  <1>8. CASE style.pane # Tips!Candles
    <2>1. Tips!Painted = rows.drawn
      BY <1>8 DEF Tips!Painted, rows, pen
    <2>2. Tips!First = Inds[1]
      BY <1>8 DEF Tips!First
    <2>3. FixedPen = StudyLead(pen, Inds[1])
      BY <1>3, <1>8, <2>2 DEF FixedPen, pen
    <2>4. Fine(rows.drawn, rows)
      BY <1>5, FineRows
    <2>5. Steady => NameWidth[Inds[1]] # 0 /\ Tips!IsDrawTooltip
      BY <1>3, <1>4, <2>2 DEF Steady
    <2> QED
      BY <1>5, <2>1, <2>2, <2>3, <2>4, <2>5
  <1>9. CASE style.pane = Tips!Candles /\ style.candle = "rect" /\ style.studies = "rect"
    <2>1. Tips!Painted = Tips!DrawRect(pen, TRUE, TRUE).drawn
      BY <1>9 DEF Tips!Painted, pen
    <2>2. Tips!First = Inds[1]
      BY <1>9 DEF Tips!First
    <2>3. FixedPen = pen
      BY <1>3, <1>9, <2>2 DEF FixedPen, pen
    <2>4. Fine(Tips!Painted, pen)
      BY <1>1, <2>1, FineRect
    <2>5. pen \in Onward(pen, Behind(Tips!First))
      BY <1>1, OnwardSelf
    <2> QED
      BY <1>1, <2>3, <2>4, <2>5
  <1>10. CASE style.pane = Tips!Candles /\ style.candle = "standard" /\ style.studies = "standard"
    <2>1. Tips!Painted = both.drawn
      BY <1>10 DEF Tips!Painted, both, top, pen
    <2>2. Tips!First = Tips!Candles
      BY <1>10 DEF Tips!First
    <2>3. FixedPen = CandleLead(pen)
      BY <2>2 DEF FixedPen, pen
    <2>4. Fine(both.drawn, both)
      BY <1>7, FineRows
    <2> QED
      BY <1>4, <1>6, <1>7, <2>1, <2>2, <2>3, <2>4
  <1>11. CASE style.pane = Tips!Candles /\ style.candle = "rect" /\ style.studies = "standard"
    <2>1. Tips!Painted = Tips!DrawRect(rows, TRUE, FALSE).drawn
      BY <1>11 DEF Tips!Painted, rows, pen
    <2>2. Tips!First = Inds[1]
      BY <1>11 DEF Tips!First
    <2>3. FixedPen = StudyLead(pen, Inds[1])
      BY <1>3, <1>11, <2>2 DEF FixedPen, pen
    <2>4. Fine(Tips!Painted, rows)
      BY <1>5, <2>1, FineRect
    <2>5. Steady => NameWidth[Inds[1]] # 0 /\ Tips!IsDrawTooltip
      BY <1>3, <1>4, <2>2 DEF Steady
    <2> QED
      BY <1>5, <2>2, <2>3, <2>4, <2>5
  <1>12. CASE style.pane = Tips!Candles /\ style.candle = "standard" /\ style.studies = "rect"
    <2>1. Tips!Painted = Tips!DrawRect(top, FALSE, TRUE).drawn
      BY <1>12 DEF Tips!Painted, top, pen
    <2>2. Tips!First = Tips!Candles
      BY <1>12 DEF Tips!First
    <2>3. FixedPen = CandleLead(pen)
      BY <2>2 DEF FixedPen, pen
    <2>4. Fine(Tips!Painted, top)
      BY <1>6, <2>1, FineRect
    <2> QED
      BY <1>4, <1>6, <2>2, <2>3, <2>4
  <1> QED
    BY <1>4, <1>8, <1>9, <1>10, <1>11, <1>12

-----------------------------------------------------------------------------
(* The pointer. *)

\* What was painted for the width the pane still has.
Fits(s) ==
    /\ \A k \in DOMAIN s : Wraps(s[k], Tips!MaxWidth)
    /\ Steady => /\ StartsWith(FixedPen.drawn, s)
                 /\ \A k \in (Len(FixedPen.drawn) + 1)..Len(s) : Late(s[k])

LEMMA PaintedFits ==
    ASSUME Measured
    PROVE  /\ Tips!Painted \in Seq(Items) /\ Separate(Tips!Painted) /\ RectHolds(Tips!Painted)
           /\ RectPlaced(Tips!Painted) /\ Fits(Tips!Painted)
  <1> DEFINE s == Tips!Painted
             f == FixedPen
             B == Behind(Tips!First)
  <1>1. PICK q \in Pens : Fine(s, q) /\ (Steady => f \in Pens /\ q \in Onward(f, B))
    BY PaintedIs
  <1>2. /\ s \in Seq(Items) /\ Separate(s) /\ RectHolds(s) /\ RectPlaced(s)
        /\ \A k \in DOMAIN s : Wraps(s[k], Tips!MaxWidth)
        /\ StartsWith(q.drawn, s)
        /\ \A k \in (Len(q.drawn) + 1)..Len(s) : s[k].kind \in {"rect", "line"}
    BY <1>1 DEF Fine
  <1> HIDE DEF s, f, B
  <1>3. ASSUME Steady
        PROVE  StartsWith(f.drawn, s) /\ \A k \in (Len(f.drawn) + 1)..Len(s) : Late(s[k])
    <2> DEFINE a == f.drawn
               b == q.drawn
    <2>1. /\ f \in Pens /\ StartsWith(a, b)
          /\ \A k \in (Len(a) + 1)..Len(b) : Mark(b[k]) \in B
      BY <1>1, <1>3 DEF Onward
    <2>2. Len(a) \in Nat /\ Len(b) \in Nat /\ Len(s) \in Nat
      BY <1>2, <2>1, PenIs
    <2> HIDE DEF a, b
    <2>3. /\ Len(a) <= Len(b) /\ Len(b) <= Len(s)
          /\ (\A k \in 1..Len(a) : b[k] = a[k]) /\ \A k \in 1..Len(b) : s[k] = b[k]
      BY <1>2, <2>1 DEF StartsWith, b
    <2>4. \A k \in 1..Len(a) : k \in 1..Len(b)
      BY <2>2, <2>3
    <2>5. StartsWith(a, s)
      BY <2>2, <2>3, <2>4 DEF StartsWith
    <2>6. ASSUME NEW k \in (Len(a) + 1)..Len(s) PROVE Late(s[k])
      <3>1. CASE k <= Len(b)
        <4>1. k \in (Len(a) + 1)..Len(b) /\ k \in 1..Len(b)
          BY <2>2, <3>1
        <4>2. Mark(s[k]) \in B
          BY <2>1, <2>3, <4>1
        <4> QED
          BY <4>2 DEF Late, B
      <3>2. CASE ~(k <= Len(b))
        <4>1. k \in (Len(b) + 1)..Len(s)
          BY <2>2, <3>2
        <4> QED
          BY <1>2, <4>1 DEF Late, b
      <3> QED
        BY <3>1, <3>2
    <2> QED
      BY <2>5, <2>6 DEF a
  <1> QED
    BY <1>2, <1>3 DEF Fits, s, f

\* Two icons are nowhere together under a point.
LEMMA OneIcon ==
    ASSUME painted \in Seq(Items), Separate(painted), NEW p, NEW k \in Tips!Hits(p)
    PROVE  Tips!Hits(p) = {k} /\ Tips!Hit(p) = [owner |-> painted[k].owner, id |-> painted[k].id]
  <1>1. ASSUME NEW i \in DOMAIN painted, NEW j \in DOMAIN painted, i < j,
               painted[i].kind = "icon", painted[j].kind = "icon",
               Tips!On(p, painted[i]), Tips!On(p, painted[j])
        PROVE  FALSE
    <2>1. Clear(painted[i], painted[j])
      BY <1>1 DEF Separate
    <2> DEFINE a == painted[i]
               b == painted[j]
    <2>2. a \in Items /\ b \in Items
      BY <1>1
    <2>3. a.x + a.w < b.x \/ a.y + a.h < b.y
      BY <1>1, <2>1 DEF Clear
    <2>4. /\ p.x \in a.x..(a.x + a.w) /\ p.y \in a.y..(a.y + a.h)
          /\ p.x \in b.x..(b.x + b.w) /\ p.y \in b.y..(b.y + b.h)
      BY <1>1 DEF Tips!On
    <2> HIDE DEF a, b
    <2>5. /\ a.x \in Int /\ a.y \in Int /\ a.w \in Int /\ a.h \in Int
          /\ b.x \in Int /\ b.y \in Int /\ b.w \in Int /\ b.h \in Int
      BY <2>2, ItemIs
    <2> DEFINE u == p.x
               v == p.y
    <2>6. u \in a.x..(a.x + a.w) /\ v \in a.y..(a.y + a.h)
      BY <2>4
    <2>7. u \in b.x..(b.x + b.w) /\ v \in b.y..(b.y + b.h)
      BY <2>4
    <2> HIDE DEF u, v
    <2>8. u \in Int /\ v \in Int /\ u <= a.x + a.w /\ v <= a.y + a.h
      BY <2>5, <2>6
    <2>9. b.x <= u /\ b.y <= v
      BY <2>5, <2>7
    <2> QED
      BY <2>3, <2>5, <2>8, <2>9
  <1>2. Tips!Hits(p) = {k}
    <2> SUFFICES ASSUME NEW j \in Tips!Hits(p) PROVE j = k
      OBVIOUS
    <2>1. /\ j \in DOMAIN painted /\ k \in DOMAIN painted
          /\ painted[j].kind = "icon" /\ painted[k].kind = "icon"
          /\ Tips!On(p, painted[j]) /\ Tips!On(p, painted[k])
      BY DEF Tips!Hits
    <2>2. j \in Int /\ k \in Int
      BY <2>1
    <2>3. j < k \/ k < j \/ j = k
      BY <2>2
    <2> QED
      BY <1>1, <2>1, <2>3
  <1>3. Tips!Max(Tips!Hits(p)) = k
    <2>1. k \in Int
      BY DEF Tips!Hits
    <2> QED
      BY <1>2, <2>1, GreaterOfTwo
  <1> QED
    BY <1>2, <1>3 DEF Tips!Hit

\* An icon of the first owner that is not after its values.
Early(id) ==
    \E k \in DOMAIN IconsOf[Tips!First] :
        IconsOf[Tips!First][k].id = id /\ IconsOf[Tips!First][k].position # "right"

Lit == /\ style.rule = "always" /\ active # None /\ pointer # None
       /\ pointer.sized /\ active.owner = Tips!First /\ (Tips!First = Tips!Candles \/ NameWidth[Tips!First] # 0)
       /\ Early(active.id)
IconHeld == \E k \in 1..Len(FixedPen.drawn) :
            LET d == FixedPen.drawn[k]
            IN  d.kind = "icon" /\ Tips!On(pointer, d) /\ active = [owner |-> d.owner, id |-> d.id]

TipsInv ==
    /\ style \in Looks /\ paneWidth \in Nat /\ guide \in Guides \cup {None} /\ realX \in Int
    /\ painted \in Seq(Items) /\ Separate(painted) /\ RectHolds(painted)
    /\ sized => Fits(painted)
    /\ ~due => RectPlaced(painted)
    /\ pointer # None => (pointer.sized => sized)
    /\ Lit => IconHeld

\* Where the middle of a bar may be.
LEMMA MiddlesAre == ASSUME NEW c \in Guides \cup {None} PROVE Tips!MiddlesOf(c) \subseteq Int
  <1>1. Lasts \subseteq Int /\ \A d \in Asides : d \in Int
    BY ConstantsAssumption DEF Tips!StylesAssumption
  <1>2. CASE c = None
    BY <1>1, <1>2 DEF Tips!MiddlesOf
  <1>3. CASE c # None
    <2>1. c.x \in Int
      BY <1>3 DEF Guides
    <2> DEFINE x == c.x
    <2> HIDE DEF x
    <2>2. {x + d : d \in Asides} \subseteq Int
      BY <1>1, <2>1 DEF x
    <2> QED
      BY <1>3, <2>2 DEF Tips!MiddlesOf, x
  <1> QED
    BY <1>2, <1>3

LEMMA FirstIs == Tips!First \in Tips!Owners
  <1>1. Inds[1] \in Tips!Owners /\ Tips!Candles \in Tips!Owners
    BY IndsAre
  <1> QED
    BY <1>1 DEF Tips!First

\* What is late is not such an icon.
LEMMA EarlyNotLate ==
    ASSUME NEW d \in Items, d.kind = "icon", d.owner = Tips!First, Early(d.id)
    PROVE  ~Late(d)
  <1> SUFFICES ASSUME Late(d) PROVE FALSE
    OBVIOUS
  <1>1. <<"icon", Tips!First, d.id>> \in Behind(Tips!First)
    BY DEF Late, Mark
  <1>2. <<"icon", Tips!First, d.id>> \in IconMarks(Tips!First, "right")
    BY <1>1 DEF Behind, Texts
  <1>3. PICK k \in Tips!Placed(Tips!First, "right") : d.id = IconsOf[Tips!First][k].id
    BY <1>2 DEF IconMarks
  <1>4. PICK n \in DOMAIN IconsOf[Tips!First] :
            IconsOf[Tips!First][n].id = d.id /\ IconsOf[Tips!First][n].position # "right"
    BY DEF Early
  <1>5. k \in DOMAIN IconsOf[Tips!First] /\ IconsOf[Tips!First][k].position = "right"
    BY DEF Tips!Placed
  <1>6. k = n
    BY <1>3, <1>4, <1>5, FirstIs, IconsAre
  <1> QED
    BY <1>4, <1>5, <1>6

-----------------------------------------------------------------------------
(* The steps. *)

LEMMA TipsInit == Tips!Init => TipsInv
  <1> SUFFICES ASSUME Tips!Init PROVE TipsInv
    OBVIOUS
  <1>1. style \in Looks /\ paneWidth \in Nat /\ guide = None /\ painted = <<>> /\ due /\ ~sized
        /\ active = None /\ pointer = None
    BY ConstantsAssumption DEF Tips!Init, Looks, Tips!StylesAssumption
  <1>2. painted \in Seq(Items) /\ DOMAIN painted = {}
    BY <1>1
  <1>3. Separate(painted) /\ RectHolds(painted)
    BY <1>2 DEF Separate, RectHolds
  <1>4. realX \in Int
    BY ConstantsAssumption DEF Tips!Init, Tips!StylesAssumption
  <1> QED
    BY <1>1, <1>2, <1>3, <1>4 DEF TipsInv, Lit

\* Where icons have their place depends on the width and the styles alone.
LEMMA FixedStays ==
    ASSUME UNCHANGED <<style, paneWidth>>
    PROVE  /\ FixedPen' = FixedPen /\ Tips!MaxWidth' = Tips!MaxWidth /\ Tips!First' = Tips!First
           /\ Steady' = Steady
  <1>1. Tips!MaxWidth' = Tips!MaxWidth /\ Tips!First' = Tips!First
    BY DEF Tips!MaxWidth, Tips!First
  <1>2. FixedPen' = FixedPen
    BY <1>1 DEF FixedPen, CandleLead, StudyLead, NextRow, Tips!Pen, Tips!Bottom
  <1>3. Steady' = Steady
    BY <1>1 DEF Steady
  <1> QED
    BY <1>1, <1>2, <1>3

LEMMA FitsStays ==
    ASSUME UNCHANGED <<style, paneWidth, painted>>
    PROVE  Fits(painted)' = Fits(painted)
  <1>1. /\ FixedPen' = FixedPen /\ Tips!MaxWidth' = Tips!MaxWidth /\ Tips!First' = Tips!First
        /\ Steady' = Steady
    BY FixedStays
  <1> QED
    BY <1>1 DEF Fits, Late, Behind

LEMMA InvMeasured == TipsInv => Measured
  BY DEF TipsInv, Measured

LEMMA FixedIs ==
    ASSUME Measured, Steady
    PROVE  FixedPen \in Pens /\ Len(FixedPen.drawn) \in Nat
  <1>1. FixedPen \in Pens
    BY PaintedIs
  <1> QED
    BY <1>1, PenIs

\* Nothing but a repaint, or a press: the icon stays where it is.
LEMMA LitStays ==
    ASSUME UNCHANGED <<style, paneWidth, active, pointer>>
    PROVE  Lit' = Lit /\ IconHeld' = IconHeld
  <1>1. FixedPen' = FixedPen /\ Tips!First' = Tips!First
    BY FixedStays
  <1>2. Lit' = Lit
    BY <1>1 DEF Lit, Early
  <1>3. IconHeld' = IconHeld
    BY <1>1 DEF IconHeld, Tips!On
  <1> QED
    BY <1>2, <1>3

LEMMA PlacedStays ==
    ASSUME UNCHANGED <<style, paneWidth, guide, realX, painted>>
    PROVE  RectPlaced(painted)' = RectPlaced(painted)
  <1>1. Tips!ByPointer' = Tips!ByPointer
    BY DEF Tips!ByPointer
  <1> QED
    BY <1>1 DEF RectPlaced, Beside, Off, Close

LEMMA TipsDraw == TipsInv /\ Tips!Draw => TipsInv'
  <1> SUFFICES ASSUME TipsInv, Tips!Draw PROVE TipsInv'
    OBVIOUS
  <1>1. /\ painted' = Tips!Painted /\ ~due' /\ sized'
        /\ UNCHANGED <<style, paneWidth, visible, guide, realX, active, pointer, chosen, acts>>
    BY DEF Tips!Draw
  <1>2. /\ Tips!Painted \in Seq(Items) /\ Separate(Tips!Painted) /\ RectHolds(Tips!Painted)
        /\ RectPlaced(Tips!Painted) /\ Fits(Tips!Painted)
    BY InvMeasured, PaintedFits
  <1>3. /\ FixedPen' = FixedPen /\ Tips!MaxWidth' = Tips!MaxWidth /\ Tips!First' = Tips!First /\ Steady' = Steady
    BY <1>1, FixedStays
  <1>4. Fits(painted)'
    <2> DEFINE s == Tips!Painted
    <2>1. Fits(s) /\ painted' = s
      BY <1>1, <1>2
    <2> HIDE DEF s
    <2> QED
      BY <1>3, <2>1 DEF Fits, Late, Behind
  <1>5. RectPlaced(painted)'
    <2> DEFINE s == Tips!Painted
    <2>1. RectPlaced(s) /\ painted' = s
      BY <1>1, <1>2
    <2> HIDE DEF s
    <2>2. Tips!ByPointer' = Tips!ByPointer
      BY <1>1 DEF Tips!ByPointer
    <2> QED
      BY <1>1, <2>1, <2>2 DEF RectPlaced, Beside, Off, Close
  <1>6. Lit' => IconHeld'
    BY <1>1, LitStays DEF TipsInv
  <1>7. (painted \in Seq(Items) /\ Separate(painted) /\ RectHolds(painted))'
    <2> DEFINE s == Tips!Painted
    <2>1. s \in Seq(Items) /\ Separate(s) /\ RectHolds(s) /\ painted' = s
      BY <1>1, <1>2
    <2> HIDE DEF s
    <2> QED
      BY <2>1
  <1>8. style' \in Looks /\ paneWidth' \in Nat /\ guide' \in Guides \cup {None} /\ realX' \in Int
    BY <1>1 DEF TipsInv
  <1> QED
    BY <1>1, <1>4, <1>5, <1>6, <1>7, <1>8 DEF TipsInv

LEMMA TipsLeave == TipsInv /\ Tips!MouseLeave => TipsInv'
  <1> SUFFICES ASSUME TipsInv, Tips!MouseLeave PROVE TipsInv'
    OBVIOUS
  <1>1. /\ pointer' = None /\ guide' = None /\ realX' \in Int
        /\ due' = (due \/ None # guide \/ realX' # realX)
        /\ UNCHANGED <<style, paneWidth, visible, painted, sized, active, chosen>>
    BY MiddlesAre DEF Tips!MouseLeave, Tips!SetCrosshair
  <1>2. ~due' => RectPlaced(painted)'
    <2>1. ~due' => ~due /\ guide' = guide /\ realX' = realX
      BY <1>1
    <2> QED
      BY <1>1, <2>1, PlacedStays DEF TipsInv
  <1>3. sized' => Fits(painted)'
    BY <1>1, FitsStays DEF TipsInv
  <1>4. ~Lit'
    BY <1>1 DEF Lit
  <1> QED
    BY <1>1, <1>2, <1>3, <1>4 DEF TipsInv

LEMMA TipsDown == TipsInv /\ Tips!MouseDown => TipsInv'
  <1> SUFFICES ASSUME TipsInv, Tips!MouseDown PROVE TipsInv'
    OBVIOUS
  <1>1. /\ UNCHANGED <<style, paneWidth, guide, realX, painted, sized, active, pointer>>
        /\ due => due'
    BY DEF Tips!MouseDown
  <1>2. ~due' => RectPlaced(painted)'
    BY <1>1, PlacedStays DEF TipsInv
  <1>3. sized' => Fits(painted)'
    BY <1>1, FitsStays DEF TipsInv
  <1>4. Lit' => IconHeld'
    BY <1>1, LitStays DEF TipsInv
  <1> QED
    BY <1>1, <1>2, <1>3, <1>4 DEF TipsInv

LEMMA TipsResize == TipsInv /\ Tips!Resize => TipsInv'
  <1> SUFFICES ASSUME TipsInv, Tips!Resize PROVE TipsInv'
    OBVIOUS
  <1>1. /\ paneWidth' \in Nat /\ due' /\ ~sized' /\ pointer' = None
        /\ UNCHANGED <<style, visible, painted, active, chosen>>
    BY ConstantsAssumption DEF Tips!Resize, Tips!StylesAssumption
  <1>2. ~Lit'
    BY <1>1 DEF Lit
  <1>3. guide' \in Guides \cup {None} /\ realX' \in Int
    <2>1. guide \in Guides \cup {None}
      BY DEF TipsInv
    <2>2. PICK b \in 1..LastBar :
             /\ guide' = IF guide = None THEN None ELSE [x |-> guide.x, y |-> guide.y, bar |-> b]
             /\ realX' \in Tips!MiddlesOf(guide)
      BY DEF Tips!Resize
    <2>3. realX' \in Int
      BY <2>1, <2>2, MiddlesAre
    <2> QED
      BY <2>1, <2>2, <2>3 DEF Guides
  <1> QED
    BY <1>1, <1>2, <1>3 DEF TipsInv

LEMMA TipsMove == ASSUME NEW p \in PointerSpots PROVE TipsInv /\ Tips!MouseMove(p) => TipsInv'
  <1> SUFFICES ASSUME TipsInv, Tips!MouseMove(p) PROVE TipsInv'
    OBVIOUS
  <1>1. /\ pointer' = [x |-> p.x, y |-> p.y, sized |-> sized]
        /\ UNCHANGED <<style, paneWidth, visible, painted, sized, chosen>>
        /\ due' = (due \/ guide' # guide \/ realX' # realX)
        /\ realX' \in Tips!MiddlesOf(guide')
        /\ guide' = None \/ \E b \in 1..LastBar : guide' = [x |-> p.x, y |-> p.y, bar |-> b]
        /\ IF Tips!Hits(p) # {} THEN active' = Tips!Hit(p) ELSE active' = None
    <2>1. ASSUME NEW c, Tips!SetCrosshair(c)
          PROVE  /\ due' = (due \/ guide' # guide \/ realX' # realX)
                 /\ realX' \in Tips!MiddlesOf(guide') /\ guide' = c
      BY <2>1 DEF Tips!SetCrosshair
    <2>2. /\ pointer' = [x |-> p.x, y |-> p.y, sized |-> sized]
          /\ UNCHANGED <<style, paneWidth, visible, painted, sized, chosen>>
      BY DEF Tips!MouseMove
    <2>3. IF Tips!Hits(p) # {}
          THEN active' = Tips!Hit(p) /\ Tips!SetCrosshair(None)
          ELSE /\ active' = None
               /\ \E b \in 1..LastBar : Tips!SetCrosshair([x |-> p.x, y |-> p.y, bar |-> b])
      BY DEF Tips!MouseMove
    <2> QED
      BY <2>1, <2>2, <2>3
  <1>2. guide' \in Guides \cup {None}
    <2>1. p.x \in Nat /\ p.y \in Nat
      BY ConstantsAssumption DEF Tips!StylesAssumption
    <2> QED
      BY <1>1, <2>1 DEF Guides
  <1>7. realX' \in Int
    BY <1>1, <1>2, MiddlesAre
  <1>3. ~due' => RectPlaced(painted)'
    <2>1. ~due' => ~due /\ guide' = guide /\ realX' = realX
      BY <1>1
    <2> QED
      BY <1>1, <2>1, PlacedStays DEF TipsInv
  <1>4. sized' => Fits(painted)'
    BY <1>1, FitsStays DEF TipsInv
  <1>5. ASSUME Lit' PROVE IconHeld'
    <2>1. FixedPen' = FixedPen /\ Tips!First' = Tips!First
      BY <1>1, FixedStays
    <2>2. /\ style.rule = "always" /\ active' # None /\ sized
          /\ active'.owner = Tips!First /\ (Tips!First = Tips!Candles \/ NameWidth[Tips!First] # 0)
          /\ Early(active'.id)
      BY <1>1, <1>5, <2>1 DEF Lit, Early
    <2>3. PICK k : k \in Tips!Hits(p)
      BY <1>1, <2>2
    <2> DEFINE d == painted[k]
    <2>4. /\ k \in DOMAIN painted /\ d \in Items /\ d.kind = "icon" /\ Tips!On(p, d)
      BY <2>3 DEF Tips!Hits, TipsInv
    <2>5. active' = [owner |-> d.owner, id |-> d.id]
      BY <1>1, <2>3, OneIcon DEF TipsInv
    <2>6. ~Late(d)
      BY <2>2, <2>4, <2>5, EarlyNotLate
    <2> HIDE DEF d
    <2>7. Steady
      BY <2>2 DEF Steady
    <2> DEFINE f == FixedPen.drawn
    <2>8. /\ Len(f) \in Nat /\ Len(f) <= Len(painted) /\ Len(painted) \in Nat
          /\ k \in 1..Len(painted)
          /\ \A j \in 1..Len(f) : painted[j] = f[j]
          /\ \A j \in (Len(f) + 1)..Len(painted) : Late(painted[j])
      <3>1. Len(f) \in Nat
        BY <2>7, InvMeasured, FixedIs
      <3>2. StartsWith(f, painted) /\ \A j \in (Len(f) + 1)..Len(painted) : Late(painted[j])
        BY <2>2, <2>7 DEF TipsInv, Fits
      <3>3. painted \in Seq(Items)
        BY DEF TipsInv
      <3> HIDE DEF f
      <3> QED
        BY <2>4, <3>1, <3>2, <3>3 DEF StartsWith
    <2> HIDE DEF f
    <2>9. k \in 1..Len(f)
      <3>1. k \notin (Len(f) + 1)..Len(painted)
        BY <2>6, <2>8 DEF d
      <3> QED
        BY <2>8, <3>1
    <2>10. f[k] = d
      BY <2>8, <2>9 DEF d
    <2>11. Tips!On(pointer', d)
      BY <1>1, <2>4 DEF Tips!On
    <2>12. (FixedPen.drawn)' = f
      BY <2>1 DEF f
    <2>13. \E j \in 1..Len(f) : f[j].kind = "icon" /\ Tips!On(pointer', f[j])
                               /\ active' = [owner |-> f[j].owner, id |-> f[j].id]
      BY <2>4, <2>5, <2>9, <2>10, <2>11
    <2> QED
      BY <2>12, <2>13 DEF IconHeld, Tips!On
  <1>6. pointer' # None => (pointer'.sized => sized')
    BY <1>1
  <1> QED
    BY <1>1, <1>2, <1>3, <1>4, <1>5, <1>6, <1>7 DEF TipsInv

LEMMA TipsStep == TipsInv /\ [Tips!Next]_(Tips!vars) => TipsInv'
  <1> SUFFICES ASSUME TipsInv, [Tips!Next]_(Tips!vars) PROVE TipsInv'
    OBVIOUS
  <1>1. CASE UNCHANGED Tips!vars
    <2>1. Fits(painted)' = Fits(painted)
      BY <1>1, FitsStays DEF Tips!vars
    <2>2. RectPlaced(painted)' = RectPlaced(painted)
      BY <1>1, PlacedStays DEF Tips!vars
    <2>3. Lit' = Lit /\ IconHeld' = IconHeld
      BY <1>1, LitStays DEF Tips!vars
    <2> QED
      BY <1>1, <2>1, <2>2, <2>3 DEF Tips!vars, TipsInv
  <1> QED
    BY <1>1, TipsDraw, TipsLeave, TipsDown, TipsResize, TipsMove DEF Tips!Next

\* The invariant holds what is said of the legends.
LEMMA TipsHold == TipsInv => Tips!TooltipsSound
  <1> SUFFICES ASSUME TipsInv PROVE Tips!TooltipsSound
    OBVIOUS
  <1>1. /\ painted \in Seq(Items) /\ Separate(painted) /\ RectHolds(painted)
        /\ sized => Fits(painted)
        /\ ~due => RectPlaced(painted)
        /\ pointer # None => (pointer.sized => sized)
        /\ Lit => IconHeld
    BY DEF TipsInv
  <1>2. Tips!RowsApart
    <2> SUFFICES ASSUME NEW k \in DOMAIN painted \ Tips!Rects
                 PROVE  /\ \A n \in (DOMAIN painted \ Tips!Rects) \ {k} : Tips!Apart(painted[k], painted[n])
                        /\ painted[k].kind = "text" /\ sized
                           /\ painted[k].x + painted[k].w > Tips!MaxWidth =>
                               painted[k].x - Offset.left \in {Text.left, Title.left}
      BY DEF Tips!RowsApart
    <2>1. ASSUME NEW i \in DOMAIN painted, NEW j \in DOMAIN painted, i < j,
                 painted[i].kind # "rect", painted[j].kind # "rect"
          PROVE  Tips!Apart(painted[i], painted[j]) /\ Tips!Apart(painted[j], painted[i])
      <3>1. Clear(painted[i], painted[j])
        BY <1>1, <2>1 DEF Separate
      <3> DEFINE a == painted[i]
                 b == painted[j]
      <3>2. a \in Items /\ b \in Items
        BY <1>1
      <3> HIDE DEF a, b
      <3>3. a.x + a.w <= b.x \/ a.y + a.h <= b.y
        <4>1. Clear(a, b)
          BY <3>1 DEF a, b
        <4> QED
          BY <3>2, <4>1, ItemIs DEF Clear
      <3>4. Tips!Apart(a, b) /\ Tips!Apart(b, a)
        BY <3>3 DEF Tips!Apart
      <3> QED
        BY <3>4 DEF a, b
    <2>2. ASSUME NEW n \in (DOMAIN painted \ Tips!Rects) \ {k} PROVE Tips!Apart(painted[k], painted[n])
      <3>1. k \in Int /\ n \in Int /\ k # n /\ painted[k].kind # "rect" /\ painted[n].kind # "rect"
        BY <1>1 DEF Tips!Rects
      <3>2. k < n \/ n < k
        BY <3>1
      <3> QED
        BY <2>1, <3>1, <3>2
    <2>3. ASSUME painted[k].kind = "text", sized, painted[k].x + painted[k].w > Tips!MaxWidth
          PROVE  painted[k].x - Offset.left \in {Text.left, Title.left}
      <3>1. Wraps(painted[k], Tips!MaxWidth)
        BY <1>1, <2>3 DEF Fits
      <3>2. painted[k] \in Items /\ Tips!MaxWidth \in Int
        BY <1>1, InvMeasured, WidthIs
      <3>3. ~(painted[k].x + painted[k].w <= Tips!MaxWidth)
        BY <2>3, <3>2, ItemIs
      <3> QED
        BY <2>3, <3>1, <3>3 DEF Wraps
    <2> QED
      BY <2>2, <2>3
  <1>3. Tips!RectClear
    <2> SUFFICES ASSUME NEW k \in Tips!Rects
                 PROVE  /\ \A n \in DOMAIN painted \ {k} :
                               IF painted[n].kind = "line"
                               THEN Holds(painted[k], painted[n])
                               ELSE Tips!Apart(painted[n], painted[k])
                        /\ ~due => Beside(painted[k])
      BY DEF Tips!RectClear, Holds, Beside, Off, Close
    <2>1. k \in DOMAIN painted /\ painted[k].kind = "rect"
      BY DEF Tips!Rects
    <2>2. ~due => Beside(painted[k])
      BY <1>1, <2>1 DEF RectPlaced
    <2> QED
      BY <1>1, <2>1, <2>2 DEF RectHolds
  <1>4. Tips!LitStaysUnderPointer
    <2> SUFFICES ASSUME Lit PROVE Tips!Hits(pointer) # {} /\ Tips!Hit(pointer) = active
      BY DEF Tips!LitStaysUnderPointer, Lit, Early
    <2>1. PICK k \in 1..Len(FixedPen.drawn) :
              /\ FixedPen.drawn[k].kind = "icon" /\ Tips!On(pointer, FixedPen.drawn[k])
              /\ active = [owner |-> FixedPen.drawn[k].owner, id |-> FixedPen.drawn[k].id]
      BY <1>1 DEF IconHeld
    <2>2. sized /\ Steady
      BY <1>1 DEF Lit, Steady
    <2>3. StartsWith(FixedPen.drawn, painted) /\ Len(FixedPen.drawn) \in Nat
      BY <1>1, <2>2, InvMeasured, FixedIs DEF Fits
    <2> DEFINE f == FixedPen.drawn
    <2> HIDE DEF f
    <2>4. painted[k] = f[k] /\ k \in DOMAIN painted
      <3>1. StartsWith(f, painted) /\ Len(f) \in Nat /\ k \in 1..Len(f)
        BY <2>1, <2>3 DEF f
      <3> QED
        BY <1>1, <3>1 DEF StartsWith
    <2>5. k \in Tips!Hits(pointer) /\ active = [owner |-> painted[k].owner, id |-> painted[k].id]
      BY <2>1, <2>4 DEF Tips!Hits, f
    <2> QED
      BY <1>1, <2>5, OneIcon
  <1> QED
    BY <1>2, <1>3, <1>4 DEF Tips!TooltipsSound

Legible == part = "tips" => TipsInv

\* No names, values or icons lie on each other and only what begins a row is
\* wider than the pane; the rectangle stays clear of the crosshair's line; a lit icon
\* stays under the pointer. For all indicators, legends, icons and widths, and
\* all styles that keep icons and rectangle off what is before them.
THEOREM LegendsReadable == Spec => []TooltipsSound
  <1>1. Init => Legible
    BY TipsInit DEF Init, Legible
  <1>2. Legible /\ [Next]_vars => Legible'
    <2>1. ASSUME Legible, [Next]_vars, part' = "tips"
          PROVE  part = "tips" /\ [Tips!Next]_(Tips!vars)
      BY <2>1 DEF Next, InHand, InDraw, InScale, InRulers, InLine, InShape, InTips, vars, tipVars, Tips!vars
    <2> QED
      BY <2>1, TipsStep DEF Legible
  <1>3. Legible => TooltipsSound
    BY TipsHold DEF Legible, TooltipsSound
  <1> QED
    BY <1>1, <1>2, <1>3, PTL DEF Spec
=============================================================================
