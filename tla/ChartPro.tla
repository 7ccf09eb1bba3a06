------------------------------ MODULE ChartPro ------------------------------
(***************************************************************************)
(* The toolbar chart around the chart engine (klinechart-pro: the load     *)
(* effect and the indicator lists of ChartProComponent, IndicatorModal,    *)
(* SymbolSearchModal, PeriodBar, DefaultDatafeed). Symbol and period are   *)
(* signals; an effect loads the first page when they change, the chart     *)
(* asks for older pages at its left edge, both share one flag `loading`.   *)
(*                                                                         *)
(* An effect depends on the signals its last run read. The one that loads  *)
(* reads none when it finds `loading` set: it never runs again.            *)
(***************************************************************************)
EXTENDS Integers, Sequences, FiniteSets

CONSTANTS
    Tickers,    \* symbols
    MarketOf,   \* market of each symbol
    Spans,      \* periods, minutes of a bar: below a week
    Count,      \* bars of a page, 500 in the code
    Now,        \* minutes at which pages are asked
    MainNames,  \* indicators offered for the candle pane
    SubNames,   \* indicators offered for a pane of their own
    None,
    MaxChanges, \* bound: changes of symbol, period and indicators
    MaxPages    \* bound: pages asked for

\* What DefaultDatafeed keeps of its socket.
Sockets == [market : {MarketOf[s] : s \in Tickers}, open : BOOLEAN, first : Tickers,
            sent : SUBSET Tickers]

ProAssumption ==
    /\ Spans \subseteq Nat \ {0} /\ Count \in Nat \ {0} /\ Now \in Nat
    /\ IsFiniteSet(MainNames) /\ IsFiniteSet(SubNames)
    /\ None \notin Sockets

VARIABLES
    symbol, period,  \* the signals
    alive,           \* the load effect depends on them
    loading,         \* the flag, no signal
    loader,          \* the loading picture is shown
    reqs,            \* history requests, each [kind, of, from, to, done]
    crossed,         \* an older page was asked for beside a first page
    bars,            \* in the chart: [of: markets of the bars, first, more]
    asking,          \* the chart waits for an older page
    socket,          \* DefaultDatafeed: [market, open, first, sent]
    main, sub,       \* mainIndicators, subIndicators: name |-> pane
    drawn,           \* indicators in the chart, [pane, name]
    changes

data == <<symbol, period, alive, loading, loader, reqs, crossed, bars, asking, socket>>
lists == <<main, sub, drawn>>
vars == <<data, lists, changes>>

Of == <<symbol, period>>
Busy(kind) == {i \in DOMAIN reqs : reqs[i].kind = kind /\ ~reqs[i].done}
Changed == changes < MaxChanges /\ changes' = changes + 1

-----------------------------------------------------------------------------
(* Time ranges.                                                            *)

\* adjustFromTo for minutes, hours and days: to is floored to the unit, the
\* whole hour for a day, from is count bars before.
Unit(p) == IF p >= 60 THEN 60 ELSE 1
AdjustFromTo(p, to, count) ==
    LET floor == to - (to % Unit(p)) IN [from |-> floor - count * p, to |-> floor]

\* The range of an older page: it ends one bar before the first one.
Older(p, first) ==
    LET to == AdjustFromTo(p, first, 1).from
    IN  [from |-> AdjustFromTo(p, to, Count).from, to |-> to]

-----------------------------------------------------------------------------
(* Pages.                                                                  *)

Request(kind, of, r) == [kind |-> kind, of |-> of, from |-> r.from, to |-> r.to, done |-> FALSE]

\* Seeded mutation: a change starts its load whatever is on its way.
LoadAtOnce(s, p) ==
    /\ Len(reqs) < MaxPages
    /\ loading' = TRUE /\ loader' = TRUE /\ UNCHANGED alive
    /\ reqs' = Append(reqs, Request("first", <<s, p>>, AdjustFromTo(p, Now, Count)))

\* The load effect, run when a signal it depends on changed: the first page
\* of the new symbol and period, or nothing, then and ever after.
Load(s, p) ==
    IF loading
    THEN alive' = FALSE /\ UNCHANGED <<loading, loader, reqs>>
    ELSE /\ Len(reqs) < MaxPages
         /\ loading' = TRUE /\ loader' = TRUE /\ UNCHANGED alive
         /\ reqs' = Append(reqs, Request("first", <<s, p>>, AdjustFromTo(p, Now, Count)))

\* A symbol or a period is chosen, in the modal, on the bar or by the page.
Choose(s, p) ==
    /\ <<s, p>> # Of /\ Changed
    /\ symbol' = s /\ period' = p
    /\ IF alive THEN Load(s, p) ELSE UNCHANGED <<alive, loading, loader, reqs>>
    /\ UNCHANGED <<crossed, bars, asking, socket, lists>>

\* DefaultDatafeed.subscribe: another market gets another socket, whose first
\* ticker is sent once it is authorised; the same market's socket takes the
\* ticker now, and raises if it is not open yet. unsubscribe does nothing.
CanSubscribe(s) == socket = None \/ socket.market # MarketOf[s] \/ socket.open
Subscribe(s) ==
    socket' = IF socket = None \/ socket.market # MarketOf[s]
              THEN [market |-> MarketOf[s], open |-> FALSE, first |-> s, sent |-> {}]
              ELSE [socket EXCEPT !.sent = @ \cup {s}]

SocketOpens ==
    /\ socket # None /\ ~socket.open
    /\ socket' = [socket EXCEPT !.open = TRUE, !.sent = @ \cup {socket.first}]
    /\ UNCHANGED <<symbol, period, alive, loading, loader, reqs, crossed, bars, asking,
                   lists, changes>>

\* A first page: applied, then subscribed to; the flag falls unless that raised.
FirstPage(i) ==
    /\ i \in Busy("first")
    /\ reqs' = [reqs EXCEPT ![i].done = TRUE]
    /\ bars' \in {[of |-> {reqs[i].of}, first |-> reqs[i].from, more |-> TRUE],
                  [of |-> {}, first |-> Now, more |-> FALSE]}
    /\ asking' = FALSE
    /\ LET s == reqs[i].of[1]
       IN  IF CanSubscribe(s)
           THEN Subscribe(s) /\ loading' = FALSE /\ loader' = FALSE
           ELSE UNCHANGED <<socket, loading, loader>>
    /\ UNCHANGED <<symbol, period, alive, crossed, lists, changes>>

\* The chart is at its left edge: an older page of the symbol chosen now.
LoadMore ==
    /\ bars.more /\ ~asking /\ Len(reqs) < MaxPages
    /\ asking' = TRUE /\ loading' = TRUE
    /\ reqs' = Append(reqs, Request("more", Of, Older(period, bars.first)))
    /\ crossed' = (crossed \/ Busy("first") # {})
    /\ UNCHANGED <<symbol, period, alive, loader, bars, socket, lists, changes>>

MorePage(i) ==
    /\ i \in Busy("more")
    /\ reqs' = [reqs EXCEPT ![i].done = TRUE]
    /\ \/ bars' = [of |-> bars.of \cup {reqs[i].of}, first |-> reqs[i].from, more |-> TRUE]
       \/ bars' = [bars EXCEPT !.more = FALSE]
    /\ asking' = FALSE /\ loading' = FALSE
    /\ UNCHANGED <<symbol, period, alive, loader, crossed, socket, lists, changes>>

\* A request raises: nothing resets the flag.
PageFails(i) ==
    /\ ~reqs[i].done
    /\ reqs' = [reqs EXCEPT ![i].done = TRUE]
    /\ UNCHANGED <<symbol, period, alive, loading, loader, crossed, bars, asking, socket,
                   lists, changes>>

-----------------------------------------------------------------------------
(* Indicators.                                                             *)

\* onMainIndicatorChange: a row of the modal is checked or unchecked.
MainIndicatorChange(n) ==
    /\ Changed
    /\ IF n \notin main
       THEN drawn' = drawn \cup {[pane |-> 0, name |-> n]} /\ main' = main \cup {n}
       ELSE drawn' = drawn \ {[pane |-> 0, name |-> n]} /\ main' = main \ {n}
    /\ UNCHANGED <<data, sub>>

\* onSubIndicatorChange: in a pane of its own.
NewPane == 1 + Cardinality(drawn) + changes
SubIndicatorChange(n) ==
    /\ Changed
    /\ IF n \notin DOMAIN sub
       THEN /\ drawn' = drawn \cup {[pane |-> NewPane, name |-> n]}
            /\ sub' = [m \in DOMAIN sub \cup {n} |-> IF m = n THEN NewPane ELSE sub[m]]
       ELSE /\ drawn' = drawn \ {[pane |-> sub[n], name |-> n]}
            /\ sub' = [m \in DOMAIN sub \ {n} |-> sub[m]]
    /\ UNCHANGED <<data, main>>

\* The close icon of an indicator's legend.
TooltipClose(d) ==
    /\ d \in drawn /\ Changed
    /\ drawn' = drawn \ {d}
    /\ IF d.pane = 0
       THEN main' = main \ {d.name} /\ UNCHANGED sub
       ELSE sub' = [m \in DOMAIN sub \ {d.name} |-> sub[m]] /\ UNCHANGED main
    /\ UNCHANGED data

-----------------------------------------------------------------------------
\* Mounted: the given indicators are drawn, the effect ran for the first time.
Init ==
    /\ symbol \in Tickers /\ period \in Spans
    /\ alive = TRUE /\ loading = TRUE /\ loader = TRUE /\ crossed = FALSE
    /\ reqs = <<Request("first", <<symbol, period>>, AdjustFromTo(period, Now, Count))>>
    /\ bars = [of |-> {}, first |-> Now, more |-> FALSE] /\ asking = FALSE
    /\ socket = None
    /\ main \in SUBSET MainNames
    /\ \E S \in SUBSET SubNames :
           \E place \in [S -> 1..Cardinality(SubNames)] :
               /\ \A m, n \in S : place[m] = place[n] => m = n
               /\ sub = place
    /\ drawn = {[pane |-> 0, name |-> n] : n \in main}
                   \cup {[pane |-> sub[n], name |-> n] : n \in DOMAIN sub}
    /\ changes = 0

Next ==
    \/ \E s \in Tickers, p \in Spans : Choose(s, p)
    \/ SocketOpens \/ LoadMore
    \/ \E i \in DOMAIN reqs : FirstPage(i) \/ MorePage(i) \/ PageFails(i)
    \/ \E n \in MainNames : MainIndicatorChange(n)
    \/ \E n \in SubNames : SubIndicatorChange(n)
    \/ \E d \in drawn : TooltipClose(d)

Spec == Init /\ [][Next]_vars

-----------------------------------------------------------------------------
\* Once the loading picture is gone, the bars are of the symbol and period
\* chosen last and of no other, and their ticker was sent to the socket or will
\* be: unless a choice met the flag, or an older page was asked for beside a
\* first one (the load effect and loadMore of ChartProComponent).
ShowsTheChosen ==
    ~loader /\ alive /\ ~crossed =>
        /\ bars.of \subseteq {Of}
        /\ socket # None /\ (symbol \in socket.sent \/ symbol = socket.first)

\* Older pages lie before the bars, end to end without overlapping them
\* (adjustFromTo).
OlderIsOlder ==
    alive /\ ~crossed =>
        \A i \in Busy("more") :
            /\ reqs[i].from < reqs[i].to
            /\ reqs[i].to < bars.first
            /\ bars.first - reqs[i].to < period + Unit(period)

\* The indicators checked in the modal are those the chart draws, each where
\* it is drawn (mainIndicators, subIndicators, the tooltip's close icon).
ListsWhatIsDrawn ==
    drawn = {[pane |-> 0, name |-> n] : n \in main}
                \cup {[pane |-> sub[n], name |-> n] : n \in DOMAIN sub}

\* The toolbar chart shows what was chosen on it.
ProSound == ShowsTheChosen /\ OlderIsOlder /\ ListsWhatIsDrawn
=============================================================================
