----------------------------- MODULE ChartTasks -----------------------------
(***************************************************************************)
(* How a change reaches the screen of the chart: indicators are computed   *)
(* by promises that a TaskScheduler batches, a finished batch asks for a   *)
(* layout, layout requests are merged into one microtask, and the layout   *)
(* builds the axis ticks and paints.                                       *)
(*                                                                         *)
(* Data, calculation parameters, looks and formats are version numbers; a  *)
(* result is the versions it was computed from.                            *)
(***************************************************************************)
EXTENDS Naturals, Sequences, SequencesExt, FiniteSets

CONSTANTS
    Studies,            \* indicators, each with an id of its own
    Async,          \* those whose calc is an async function
    None,           \* no result
    MaxVersion,     \* bound: changes of the data
    MaxEdits        \* bound: calls that change indicators or options

AsyncAssumption == Async \subseteq Studies /\ IsFiniteSet(Studies)
BoundAssumption == MaxVersion \in Nat /\ MaxEdits \in Nat

Options == {"sort", "height", "width", "update", "build", "cache", "force"}

VARIABLES
    data,        \* version of _dataList
    stage,       \* an indicator's life: "new", "shown" or "removed"
    params,      \* version of calcParams
    look,        \* version of what only drawing uses
    result,      \* what result was computed from
    failed,      \* indicators whose last calculation raised
    calcs,       \* calculations that have not settled, oldest first
    running,     \* _running
    holding,     \* _holdingTasks # null
    pending,     \* _layoutPending: "no", "queued", or "stuck" after a throw
    options,     \* _layoutOptions that are on
    format,      \* version of styles, locale, formatter, time zone
    ticks,       \* the format the y-axis ticks were made with
    painted,     \* what the last layout painted
    edits,       \* calls so far
    dropped,     \* a forced tick build was dropped by a later request
    overtaken    \* indicators whose held calculation was replaced by a newer one

vars == <<data, stage, params, look, result, failed, calcs, running, holding,
          pending, options, format, ticks, painted, edits, dropped, overtaken>>

Shown == {i \in Studies : stage[i] = "shown"}
Results == ({None} \cup ((0..MaxVersion) \X {0, 1}))

\* The picture a layout paints now.
Picture == [data |-> data, looks |-> [i \in Shown |-> <<result[i], look[i]>>]]

\* The constructor lays out once before anything can change.
Init ==
    /\ data = 0 /\ stage = [i \in Studies |-> "new"]
    /\ params = [i \in Studies |-> 0] /\ look = [i \in Studies |-> 0]
    /\ result = [i \in Studies |-> None] /\ failed = {}
    /\ calcs = <<>> /\ running = FALSE /\ holding = FALSE
    /\ pending = "no" /\ options = {} /\ format = 0 /\ ticks = 0
    /\ painted = [data |-> 0, looks |-> [i \in {} |-> None]]
    /\ edits = 0 /\ dropped = FALSE /\ overtaken = {}

-----------------------------------------------------------------------------
(* Layout requests and the layout.                                         *)

\* Seeded mutation: a request while one is pending is forgotten.
LayoutForgets(asked) ==
    /\ options' = IF pending = "no" THEN options \cup asked ELSE options
    /\ pending' = IF pending = "no" THEN "queued" ELSE pending
    /\ UNCHANGED dropped

\* Chart.layout: the options add up, except that a request to build ticks
\* decides anew whether the build is forced; one microtask is queued.
Layout(asked) ==
    /\ options' = IF "build" \in asked THEN (options \ {"force"}) \cup asked
                  ELSE options \cup asked
    /\ dropped' = (dropped \/ ("force" \in options /\ "force" \notin options'))
    /\ pending' = IF pending = "no" THEN "queued" ELSE pending

NoLayout == UNCHANGED <<options, pending, dropped>>

\* _layout in its microtask. Ticks are rebuilt if forced or if the range of
\* the axis changed; the picture is painted if an update was asked for. A
\* listener of the visible range that asks for a layout meanwhile is ignored:
\* the options are reset at the end.
DoLayout ==
    /\ pending = "queued"
    /\ pending' = "no" /\ options' = {}
    /\ \E rangeChanged \in BOOLEAN :
           ticks' = IF {"build", "force"} \cap options # {}
                       /\ (rangeChanged \/ "force" \in options)
                    THEN format ELSE ticks
    /\ painted' = IF "update" \in options THEN Picture ELSE painted
    /\ UNCHANGED <<data, stage, params, look, result, failed, calcs, running,
                   holding, format, edits, dropped, overtaken>>

\* Something called by _layout raises: the flag is never taken back.
LayoutThrows ==
    /\ pending = "queued" /\ "width" \in options
    /\ pending' = "stuck"
    /\ UNCHANGED <<data, stage, params, look, result, failed, calcs, running,
                   holding, options, format, ticks, painted, edits, dropped, overtaken>>

-----------------------------------------------------------------------------
(* The task scheduler.                                                     *)

\* TaskScheduler.add: run at once, or hold, where a newer task of the same
\* indicator replaces the one held (its promise goes on by itself).
AddTasks(ids, new) ==
    IF ~running
    THEN /\ running' = TRUE /\ holding' = holding /\ overtaken' = overtaken
         /\ calcs' = calcs \o [k \in DOMAIN new |-> [new[k] EXCEPT !.batch = "run"]]
    ELSE /\ holding' = TRUE /\ running' = running
         /\ overtaken' = overtaken \cup
                {c.id : c \in {calcs[k] : k \in {k \in DOMAIN calcs :
                                  calcs[k].batch = "hold" /\ calcs[k].id \in ids}}}
         /\ calcs' = [k \in DOMAIN calcs |->
                IF calcs[k].batch = "hold" /\ calcs[k].id \in ids
                THEN [calcs[k] EXCEPT !.batch = "alone"] ELSE calcs[k]] \o new

\* _calcIndicator: start a calculation of each and give them to the scheduler.
CalcIndicators(ids, version, prm) ==
    LET order == SetToSeq(ids)
        new == [k \in 1..Len(order) |->
                  [id |-> order[k], data |-> version, params |-> prm[order[k]],
                   batch |-> "hold"]]
    IN  AddTasks(ids, new)

\* A promise settles: a calculation's result is assigned, or it raised and
\* the result stays; an indicator that is gone keeps nothing.
Settle(k) ==
    /\ LET c == calcs[k]
       IN  \/ /\ result' = [result EXCEPT ![c.id] = <<c.data, c.params>>]
              /\ failed' = failed \ {c.id}
           \/ /\ UNCHANGED result
              /\ failed' = failed \cup {c.id}
    /\ calcs' = RemoveAt(calcs, k)
    /\ UNCHANGED <<data, stage, params, look, running, holding, pending, options,
                   format, ticks, painted, edits, dropped, overtaken>>

\* The results of synchronous calculations settle in the order of the calls.
SettleSync ==
    \E k \in DOMAIN calcs :
        /\ calcs[k].id \notin Async
        /\ \A j \in 1..(k - 1) : calcs[j].id \in Async
        /\ Settle(k)

\* Asynchronous ones settle in any order.
SettleAsync ==
    \E k \in DOMAIN calcs : calcs[k].id \in Async /\ Settle(k)

\* Seeded mutation: the held batch is dropped.
NextBatchDropped ==
    /\ running' = FALSE /\ holding' = FALSE
    /\ calcs' = [k \in DOMAIN calcs |-> [calcs[k] EXCEPT !.batch = "alone"]]

\* The held batch becomes the running one.
NextBatch ==
    /\ running' = holding /\ holding' = FALSE
    /\ calcs' = [k \in DOMAIN calcs |->
           IF calcs[k].batch = "hold" THEN [calcs[k] EXCEPT !.batch = "run"]
           ELSE calcs[k]]

\* _runTask after its promises: the callback asks for a layout, then the held
\* batch runs.
RunDone ==
    /\ running /\ \A k \in DOMAIN calcs : calcs[k].batch # "run"
    /\ Layout({"width", "update", "build"})
    /\ NextBatch
    /\ UNCHANGED <<data, stage, params, look, result, failed, format, ticks,
                   painted, edits, overtaken>>

-----------------------------------------------------------------------------
(* Changes.                                                                *)

Edit == edits < MaxEdits /\ edits' = edits + 1

\* _addData: every indicator is computed again, or with none the chart is
\* laid out at once.
AddData ==
    /\ data < MaxVersion
    /\ data' = data + 1
    /\ IF Shown # {}
       THEN CalcIndicators(Shown, data', params) /\ NoLayout
       ELSE /\ Layout({"width", "update", "build", "cache"})
            /\ UNCHANGED <<calcs, running, holding, overtaken>>
    /\ UNCHANGED <<stage, params, look, result, failed, format, ticks, painted, edits>>

\* createIndicator: computed, and laid out with its pane.
CreateIndicator(i) ==
    /\ stage[i] = "new" /\ Edit
    /\ stage' = [stage EXCEPT ![i] = "shown"]
    /\ CalcIndicators({i}, data, params)
    /\ Layout({"sort", "height", "width", "update", "build", "force"})
    /\ UNCHANGED <<data, params, look, result, failed, format, ticks, painted>>

\* removeIndicator: its promises go on.
RemoveIndicator(i) ==
    /\ stage[i] = "shown" /\ Edit
    /\ stage' = [stage EXCEPT ![i] = "removed"]
    /\ Layout({"sort", "height", "width", "update", "build", "force"})
    /\ UNCHANGED <<data, params, look, result, failed, calcs, running, holding,
                   format, ticks, painted, overtaken>>

\* What an override changes.
Override(i) ==
    \/ params' = [params EXCEPT ![i] = 1 - @] /\ UNCHANGED look
    \/ look' = [look EXCEPT ![i] = 1 - @] /\ UNCHANGED params

\* overrideIndicator by the default shouldUpdate. It compares figures with
\* those of a clone, which are never the same array: whatever was changed is
\* computed again, and painted by the batch.
OverrideIndicator(i) ==
    /\ stage[i] = "shown" /\ Edit
    /\ Override(i)
    /\ CalcIndicators({i}, data, params')
    /\ NoLayout
    /\ UNCHANGED <<data, stage, result, failed, format, ticks, painted>>

\* overrideIndicator where the indicator's own shouldUpdate asks for drawing
\* alone.
OverrideLook(i) ==
    /\ stage[i] = "shown" /\ Edit
    /\ look' = [look EXCEPT ![i] = 1 - @]
    /\ Layout({"update"})
    /\ UNCHANGED <<data, stage, params, result, failed, calcs, running, holding,
                   format, ticks, painted, overtaken>>

\* _setOptions: styles, locale, formatter, time zone, separator, decimal fold.
SetOptions ==
    /\ Edit
    /\ format' = 1 - format
    /\ Layout({"height", "width", "update", "build", "force"})
    /\ UNCHANGED <<data, stage, params, look, result, failed, calcs, running,
                   holding, ticks, painted, overtaken>>

\* scroll, setBarSpace, setOffsetRightDistance.
MoveView ==
    /\ Edit
    /\ Layout({"width", "update", "build", "cache"})
    /\ UNCHANGED <<data, stage, params, look, result, failed, calcs, running,
                   holding, format, ticks, painted, overtaken>>

Next ==
    \/ AddData \/ SetOptions \/ MoveView
    \/ \E i \in Studies : CreateIndicator(i) \/ RemoveIndicator(i)
                      \/ OverrideIndicator(i) \/ OverrideLook(i)
    \/ SettleSync \/ SettleAsync \/ RunDone \/ DoLayout \/ LayoutThrows

\* Microtasks are always run, and an asynchronous calculation comes to an end.
Fairness ==
    /\ WF_vars(SettleSync) /\ WF_vars(SettleAsync)
    /\ WF_vars(RunDone) /\ WF_vars(DoLayout)

Spec == Init /\ [][Next]_vars /\ Fairness

-----------------------------------------------------------------------------
(* Properties.                                                             *)

\* What is painted is what there is: the data, and every indicator of which no
\* asynchronous calculation was overtaken.
PaintedIsCurrent ==
    /\ painted.data = data /\ DOMAIN painted.looks = Shown
    /\ \A i \in Shown : i \in overtaken \cap Async
                        \/ painted.looks[i] = <<result[i], look[i]>>

\* When no calculation is out and no layout is queued, the screen shows the
\* newest data, and every synchronous indicator with the result of the newest
\* data and parameters, whatever was merged, held or overtaken on the way
\* (TaskScheduler.add and _runTask, Chart.layout).
QuietMeansPainted ==
    (calcs = <<>> /\ ~running /\ pending = "no") =>
        /\ PaintedIsCurrent
        /\ \A i \in Shown \ (Async \cup failed) : result[i] = <<data, params[i]>>
        /\ ~dropped => ticks = format

UpToDate == pending # "stuck" => PaintedIsCurrent /\ calcs = <<>>

\* After the last change the chart comes to show it, unless a layout raised.
ChangesReachScreen == <>[]UpToDate
=============================================================================
