----------------------------- MODULE ChartData -----------------------------
(***************************************************************************)
(* How the chart's Store gets its bars: getBars requests answered later    *)
(* and in any order, live updates of a subscription, paging at the edges   *)
(* of the view, and resets by a new symbol, period or loader.              *)
(*                                                                         *)
(* A market is a symbol with a period; a bar is its market and its time.   *)
(* Prices are left out, and so is the geometry that says which bars are    *)
(* in view (TimeScale has it): an adjustment finds the view at the left    *)
(* edge, at the right edge or at neither.                                  *)
(***************************************************************************)
EXTENDS Naturals, Sequences, SequencesExt, FiniteSets

CONSTANTS
    Symbols, Periods,
    LiveLoaders,      \* loaders that answer up to now and have subscribeBar
    WindowLoaders,    \* loaders that answer a window of the past and no ticks
    None,             \* null
    PageSize,         \* bars per answer
    MaxTime,          \* bound: bars the market ever has
    MaxResets         \* bound: changes of symbol, period or loader

LoaderAssumption ==
    /\ LiveLoaders \cap WindowLoaders = {}
    /\ None \notin LiveLoaders \cup WindowLoaders \cup Symbols \cup Periods
BoundAssumption == PageSize \in Nat \ {0} /\ MaxTime \in Nat \ {0} /\ MaxResets \in Nat

Loaders == LiveLoaders \cup WindowLoaders
Markets == Symbols \X Periods
Bars    == [market : Markets, time : 1..MaxTime]

VARIABLES
    symbol, period, loader,   \* _symbol, _period, _dataLoader
    bars,                     \* _dataList
    more,                     \* _dataLoadMore
    loading,                  \* _loading
    requests,                 \* getBars calls not answered yet
    streams,                  \* what the loaders have been asked to stream
    destroyed,
    now,                      \* bars every market has by now
    resets,                   \* number of resets so far
    applied,                  \* the resets whose first page came in
    late                      \* an answer from before the last reset was applied

vars == <<symbol, period, loader, bars, more, loading, requests, streams,
          destroyed, now, resets, applied, late>>

Market == <<symbol, period>>
Configured == loader # None /\ symbol # None /\ period # None

Requests == [type : {"init", "forward", "backward"}, loader : Loaders,
             market : Markets, from : 0..MaxTime, reset : 0..MaxResets]

Init ==
    /\ symbol = None /\ period = None /\ loader = None
    /\ bars = <<>> /\ more = [forward |-> FALSE, backward |-> FALSE]
    /\ loading = FALSE /\ requests = <<>> /\ streams = {}
    /\ destroyed = FALSE /\ now \in {0, MaxTime - 1}
    /\ resets = 0 /\ applied = {} /\ late = FALSE

-----------------------------------------------------------------------------
(* Asking for bars.                                                        *)

\* The bars of a market from a time to a time, in order.
Span(m, first, last) ==
    [i \in 1..(IF last < first THEN 0 ELSE last - first + 1) |->
        [market |-> m, time |-> first + i - 1]]

\* The time a request of that type is made from: the first or the last bar's.
From(type, list) ==
    IF list = <<>> THEN 0
    ELSE CASE type = "init"     -> 0
           [] type = "forward"  -> Head(list).time
           [] type = "backward" -> Last(list).time

\* _processDataLoad: a request unless one is out, in a state with the given
\* symbol, period, loader, list of bars and loading flag.
ProcessDataLoad(type, s, p, l, list, busy, pending) ==
    IF ~busy /\ l # None /\ s # None /\ p # None
    THEN /\ loading' = TRUE
         /\ requests' = Append(pending,
                [type |-> type, loader |-> l, market |-> <<s, p>>,
                 from |-> From(type, list), reset |-> resets'])
    ELSE loading' = busy /\ requests' = pending

\* _adjustVisibleRange: at an edge that has more, ask for more. An empty list
\* is at the left edge.
AdjustVisibleRange(list, flags, busy, pending) ==
    \E edge \in IF list = <<>> THEN {"left"} ELSE {"left", "right", "neither"} :
        LET type == CASE edge = "left"  /\ flags.forward  -> "forward"
                      [] edge = "right" /\ flags.backward -> "backward"
                      [] OTHER -> "none"
        IN  IF type = "none"
            THEN loading' = busy /\ requests' = pending
            ELSE ProcessDataLoad(type, symbol, period, loader, list, busy, pending)

-----------------------------------------------------------------------------
(* Calls of the chart's user.                                              *)

\* Seeded mutation: the reset leaves the loading flag alone.
ResetKeepsLoading(s, p, l) ==
    /\ ~destroyed /\ resets < MaxResets
    /\ streams' = IF Configured THEN streams \ {<<loader, Market>>} ELSE streams
    /\ symbol' = s /\ period' = p /\ loader' = l
    /\ resets' = resets + 1 /\ late' = FALSE
    /\ ProcessDataLoad("init", s, p, l, bars, loading, requests)
    /\ UNCHANGED <<bars, more, destroyed, now, applied>>

\* resetData around one assignment: the live stream is given up, the new
\* value takes effect and the first page is asked for, whatever was loading.
ResetData(s, p, l) ==
    /\ ~destroyed /\ resets < MaxResets
    /\ streams' = IF Configured THEN streams \ {<<loader, Market>>} ELSE streams
    /\ symbol' = s /\ period' = p /\ loader' = l
    /\ resets' = resets + 1 /\ late' = FALSE
    /\ ProcessDataLoad("init", s, p, l, bars, FALSE, requests)
    /\ UNCHANGED <<bars, more, destroyed, now, applied>>

SetSymbol     == \E s \in Symbols : ResetData(s, period, loader)
SetPeriod     == \E p \in Periods : ResetData(symbol, p, loader)
SetDataLoader == \E l \in Loaders : ResetData(symbol, period, l)

\* A scroll, a zoom or a new size adjusts the view.
View ==
    /\ ~destroyed /\ bars # <<>>
    /\ UNCHANGED <<symbol, period, loader, bars, more, streams, destroyed, now,
                   resets, applied, late>>
    /\ AdjustVisibleRange(bars, more, loading, requests)

\* destroy clears the data; requests and streams go on.
Destroy ==
    /\ ~destroyed /\ resets > 0
    /\ destroyed' = TRUE
    /\ bars' = <<>> /\ more' = [forward |-> FALSE, backward |-> FALSE]
    /\ loading' = FALSE
    /\ UNCHANGED <<symbol, period, loader, requests, streams, now, resets, applied, late>>

-----------------------------------------------------------------------------
(* What comes back.                                                        *)

\* The page a loader answers a request with, from data up to time t, and
\* whether there is more on each side. A window ends before the last bar.
Page(r, t) ==
    LET live == r.loader \in LiveLoaders
        last == CASE r.type = "init" /\ live -> t
                  [] r.type = "init" /\ ~live -> IF t > PageSize THEN t - 1 ELSE t
                  [] r.type = "forward" -> IF r.from = 0 THEN 0 ELSE r.from - 1
                  [] r.type = "backward" ->
                         IF r.from + PageSize > t THEN t ELSE r.from + PageSize
        first == CASE r.type = "backward" -> r.from + 1
                   [] OTHER -> IF last > PageSize THEN last - PageSize + 1 ELSE 1
    IN  [data |-> Span(r.market, first, last),
         forward |-> r.type # "backward" /\ first > 1 /\ last > 0,
         backward |-> ~live /\ r.type # "forward" /\ last < t]

\* Seeded mutation: forward data is put behind the bars there are.
AddPageAppends(type, page) ==
    CASE type = "init" -> page.data
      [] OTHER -> bars \o page.data

\* _addData, an array: the list with the page in its place.
AddPage(type, page) ==
    CASE type = "init"     -> page.data
      [] type = "backward" -> bars \o page.data
      [] type = "forward"  -> page.data \o bars

\* _addData, an array: the flags of the side that was asked for.
MoreAfter(type, page) ==
    CASE type = "init"     -> [forward |-> page.forward, backward |-> page.backward]
      [] type = "backward" -> [more EXCEPT !.backward = page.backward]
      [] type = "forward"  -> [more EXCEPT !.forward = page.forward]

\* Seeded mutation: the subscription is for the market that was asked for.
SubscribeAsked(r) == IF r.loader \in LiveLoaders THEN {<<r.loader, r.market>>} ELSE {}

\* The first page subscribes to the market the chart shows by now, on the
\* loader it has by now.
SubscribeBar(r) ==
    IF loader \in LiveLoaders /\ symbol # None /\ period # None
    THEN {<<loader, Market>>} ELSE {}

\* The answer to one request, in any order: no longer loading, the page goes
\* into the list, the view is adjusted if the list changed, and after a first
\* page the live bars are subscribed to.
Answer(i) ==
    /\ i \in DOMAIN requests
    /\ UNCHANGED <<symbol, period, loader, destroyed, now, resets>>
    /\ \E t \in {now} \cup (IF now > 1 THEN {now - 1} ELSE {}) :
        LET r == requests[i]
            page == Page(r, t)
            list == AddPage(r.type, page)
            flags == MoreAfter(r.type, page)
            rest == RemoveAt(requests, i)
        IN  /\ bars' = list /\ more' = flags
            /\ late' = (late \/ r.reset # resets)
            /\ applied' = IF r.type = "init" THEN applied \cup {r.reset} ELSE applied
            /\ streams' = IF r.type = "init" THEN streams \cup SubscribeBar(r) ELSE streams
            /\ IF r.type = "init" \/ page.data # <<>>
               THEN AdjustVisibleRange(list, flags, FALSE, rest)
               ELSE loading' = FALSE /\ requests' = rest

\* _addData, one bar: a later time is appended, the last time replaces the
\* last bar, an older time is ignored.
AddBar(bar) ==
    CASE bars = <<>> \/ bar.time > Last(bars).time -> Append(bars, bar)
      [] bars # <<>> /\ bar.time = Last(bars).time -> ReplaceAt(bars, Len(bars), bar)
      [] OTHER -> bars

\* A live update of a streamed market: its newest bar, or the one before, late.
Update ==
    \E s \in streams, time \in {now, now - 1} \ {0} :
        LET bar == [market |-> s[2], time |-> time]
        IN  /\ now > 0
            /\ UNCHANGED <<symbol, period, loader, more, streams, destroyed, now,
                           resets, applied, late>>
            /\ bars' = AddBar(bar)
            /\ IF bars = <<>> \/ bar.time >= Last(bars).time
               THEN AdjustVisibleRange(bars', more, loading, requests)
               ELSE UNCHANGED <<loading, requests>>

\* The market goes on.
Tick ==
    /\ now < MaxTime
    /\ now' = now + 1
    /\ UNCHANGED <<symbol, period, loader, bars, more, loading, requests, streams,
                   destroyed, resets, applied, late>>

-----------------------------------------------------------------------------
\* An answer to the oldest request; the others are for any order.
AnswerOldest == Answer(1)
AnswerOther  == \E i \in 2..Len(requests) : Answer(i)

Next ==
    \/ SetSymbol \/ SetPeriod \/ SetDataLoader \/ View \/ Destroy
    \/ AnswerOldest \/ AnswerOther \/ Update \/ Tick

\* Every getBars call is answered: the chart has no other way to go on.
Spec == Init /\ [][Next]_vars /\ WF_vars(AnswerOldest)

-----------------------------------------------------------------------------
(* Properties.                                                             *)

\* The first page since the last reset is in, and nothing from before it came.
Current == resets \in applied /\ ~late /\ ~destroyed

\* While no answer from before the last reset has been applied, the list is
\* the chart's market alone, in strictly increasing time, through every order
\* of pages, late updates and resets (_addData, Store.ts:536).
OneMarketInOrder ==
    Current =>
        /\ \A i \in DOMAIN bars : bars[i].market = Market
        /\ \A i \in 1..(Len(bars) - 1) : bars[i].time < bars[i + 1].time

\* Under the same condition the loading flag says whether a request of this
\* reset is out, and there is at most one: no page is asked for twice.
LoadingExact ==
    Current =>
        LET mine == {i \in DOMAIN requests : requests[i].reset = resets}
        IN  loading = (mine # {}) /\ Cardinality(mine) <= 1

\* The shown data: one market's, in order, and asked for once.
DataExact == OneMarketInOrder /\ LoadingExact

\* Whatever order answers come in, the only stream a chart holds is the one
\* of the market it shows, on the loader it has: a reset never leaks one.
StreamsFollow == ~destroyed => streams \subseteq {<<loader, Market>>}

LastResetShown == Configured => resets \in applied \/ destroyed

\* A chart with a loader, a symbol and a period comes to show their first
\* page, and with finitely many resets that is the page of the last one.
FirstPageShown == <>[]LastResetShown
=============================================================================
