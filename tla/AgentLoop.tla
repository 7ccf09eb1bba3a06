----------------------------- MODULE AgentLoop -----------------------------
(***************************************************************************)
(* The trading loop: LoopOrchestrator, its TradeAgent and the exchange.    *)
(* The sentinel is the one of Sentinel.tla with prices left out: any watch *)
(* may fire (both modules implement Watches).                              *)
(*                                                                         *)
(* Three asyncio tasks run: the zone scanner, the balance refresh and the  *)
(* event loop, which handles one event at a time.  An action ends where    *)
(* the code awaits.  A call to the exchange returns, or raises with or     *)
(* without effect.  Prices, sizes, the journal and the texts of            *)
(* notifications are left out; an event's price is kept as what it         *)
(* identifies: the zone it lies in, or the entry whose level it crossed.   *)
(***************************************************************************)
EXTENDS Integers, FiniteSets, Sequences, SequencesExt

CONSTANTS
    Symbols,
    WATCHLIST,           \* the order symbols are scanned in
    ScanResults,         \* zone lists a scan of one symbol can return
    None,
    MAX_AT_RISK_SLOTS,
    MaxEntries,          \* bound: market entries per symbol
    MaxQueue             \* bound: events in the queue

Zones  == UNION {Range(zs) : zs \in ScanResults}
Ids    == 1 .. MaxEntries
Trades == [id : Ids, status : {"open", "tp1_hit"}]

ASSUME LoopAssumption ==
    /\ WATCHLIST \in Seq(Symbols)
    /\ \A zs \in ScanResults : zs \in Seq(Range(zs))
    /\ IsFiniteSet(Symbols)
    /\ MAX_AT_RISK_SLOTS \in Nat /\ MaxEntries \in Nat /\ MaxQueue \in Nat
    /\ None \notin Nat \cup Zones \cup Symbols \cup Trades

VARIABLES
    phase,             \* down, starting (entries blocked) or running
    zones,             \* symbol -> its zones at the latest scan
    balance_ok,        \* the cached balance is above the low threshold
    scanner,           \* [todo, symbol, add]: rest of the pass, zones to register
    handler,           \* [pc, event]: the event loop's position in a handler
    trades,            \* symbol -> None or [id, status]
    zone_watches,      \* symbol -> None or the zone watched
    tp1_watches,       \* symbol -> None or the entry whose TP1 is watched
    body_sl_watches,   \* symbol -> None or the entry whose SL is watched
    event_queue,
    position,          \* exchange: entries held open per symbol
    stop,              \* exchange: hard stop of the position: none, disaster, entry
    entries,           \* history: market entries submitted per symbol
    mishap             \* history: a call for this symbol failed, or the process
                       \* ended over its position, since it was last in order

watches  == <<zone_watches, tp1_watches, body_sl_watches>>
exchange == <<position, stop>>
history  == <<entries, mishap>>
vars == <<phase, zones, balance_ok, scanner, handler, trades, watches,
          event_queue, exchange, history>>

Idle    == [pc |-> "idle", event |-> None]
NoScan  == [todo |-> <<>>, symbol |-> None, add |-> <<>>]
EntryPCs == {"open", "tp1", "tp2", "sl"}
PCs == {"notify", "gates", "entered", "watch", "breakeven", "close", "tell"} \cup EntryPCs
Events == [type : {"ZONE_TOUCH"}, symbol : Symbols, ref : Zones]
          \cup [type : {"TP1_HIT", "BODY_SL"}, symbol : Symbols, ref : Ids]

ScanTypes ==
    /\ phase \in {"down", "starting", "running"}
    /\ zones \in [Symbols -> Seq(Zones)]
    /\ balance_ok \in BOOLEAN
    /\ scanner \in [todo : Seq(Symbols), symbol : Symbols \cup {None}, add : Seq(Zones)]
    /\ scanner.add # <<>> => scanner.symbol \in Symbols

EventTypes ==
    /\ zone_watches \in [Symbols -> Zones \cup {None}]
    /\ tp1_watches \in [Symbols -> Ids \cup {None}]
    /\ body_sl_watches \in [Symbols -> Ids \cup {None}]
    /\ event_queue \in Seq(Events)
    /\ handler \in [pc : PCs, event : Events] \cup {Idle}

TradeTypes ==
    /\ trades \in [Symbols -> Trades \cup {None}]
    /\ position \in [Symbols -> 0 .. MaxEntries]
    /\ stop \in [Symbols -> {"none", "disaster", "entry"}]
    /\ entries \in [Symbols -> 0 .. MaxEntries]
    /\ mishap \in [Symbols -> BOOLEAN]

TypeOK == ScanTypes /\ EventTypes /\ TradeTypes

NoWatches ==
    /\ zone_watches = [s \in Symbols |-> None]
    /\ tp1_watches = [s \in Symbols |-> None]
    /\ body_sl_watches = [s \in Symbols |-> None]

Init ==
    /\ phase = "down"
    /\ zones = [s \in Symbols |-> <<>>]
    /\ balance_ok = FALSE
    /\ scanner = NoScan
    /\ handler = Idle
    /\ trades = [s \in Symbols |-> None]
    /\ NoWatches
    /\ event_queue = <<>>
    /\ position = [s \in Symbols |-> 0]
    /\ stop = [s \in Symbols |-> "none"]
    /\ entries = [s \in Symbols |-> 0]
    /\ mishap = [s \in Symbols |-> FALSE]

-----------------------------------------------------------------------------
(* Startup, shutdown and the balance.                                      *)

\* The balance is fetched (blocked if that fails), the sentinel is started and
\* the first scan begins; the event loop does not run yet.
Startup ==
    /\ phase = "down"
    /\ phase' = "starting"
    /\ balance_ok' \in BOOLEAN
    /\ scanner' = [NoScan EXCEPT !.todo = WATCHLIST]
    /\ UNCHANGED <<zones, handler, trades, watches, event_queue, exchange, history>>

\* The first scan is over: entries are unblocked and the tasks spawned.
FinishStartup ==
    /\ phase = "starting"
    /\ scanner.todo = <<>> /\ scanner.add = <<>>
    /\ phase' = "running"
    /\ UNCHANGED <<zones, balance_ok, scanner, handler, trades, watches, event_queue,
                   exchange, history>>

\* A shutdown or a crash, at any await: all of the loop's state was in memory.
Stop ==
    /\ phase # "down"
    /\ phase' = "down"
    /\ zones' = [s \in Symbols |-> <<>>]
    /\ balance_ok' = FALSE
    /\ scanner' = NoScan
    /\ handler' = Idle
    /\ trades' = [s \in Symbols |-> None]
    /\ zone_watches' = [s \in Symbols |-> None]
    /\ tp1_watches' = [s \in Symbols |-> None]
    /\ body_sl_watches' = [s \in Symbols |-> None]
    /\ event_queue' = <<>>
    /\ mishap' = [s \in Symbols |-> mishap[s] \/ position[s] > 0]
    /\ UNCHANGED <<exchange, entries>>

\* The compound cycle: the cached balance is refreshed, or kept on failure.
CheckMinBalance ==
    /\ phase = "running"
    /\ balance_ok' \in BOOLEAN
    /\ UNCHANGED <<phase, zones, scanner, handler, trades, watches, event_queue,
                   exchange, history>>

-----------------------------------------------------------------------------
(* The zone scan.                                                          *)

StartScan ==
    /\ phase = "running"
    /\ scanner.todo = <<>> /\ scanner.add = <<>>
    /\ scanner' = [NoScan EXCEPT !.todo = WATCHLIST]
    /\ UNCHANGED <<phase, zones, balance_ok, handler, trades, watches, event_queue,
                   exchange, history>>

\* The scan of the next symbol returns: its zones are stored, every watch of
\* the symbol is removed and the first zone is registered.
ScanSymbol(zs) ==
    /\ scanner.todo # <<>> /\ scanner.add = <<>>
    /\ LET s == Head(scanner.todo)
       IN  /\ zones' = [zones EXCEPT ![s] = zs]
           /\ zone_watches' =
                  [zone_watches EXCEPT ![s] = IF zs = <<>> THEN None ELSE Head(zs)]
           /\ tp1_watches' = [tp1_watches EXCEPT ![s] = None]
           /\ body_sl_watches' = [body_sl_watches EXCEPT ![s] = None]
           /\ scanner' = [todo |-> Tail(scanner.todo), symbol |-> s,
                          add |-> IF zs = <<>> THEN <<>> ELSE Tail(zs)]
    /\ UNCHANGED <<phase, balance_ok, handler, trades, event_queue, exchange, history>>

\* Fault: the failed scan's missing result is stored.
ScanFailsStored ==
    /\ scanner.todo # <<>> /\ scanner.add = <<>>
    /\ scanner' = [scanner EXCEPT !.todo = Tail(@)]
    /\ zones' = [zones EXCEPT ![Head(scanner.todo)] = None]
    /\ UNCHANGED <<phase, balance_ok, handler, trades, watches, event_queue,
                   exchange, history>>
\* The scan of a symbol raised: the symbol is skipped.
ScanFails ==
    /\ scanner.todo # <<>> /\ scanner.add = <<>>
    /\ scanner' = [scanner EXCEPT !.todo = Tail(@)]
    /\ UNCHANGED <<phase, zones, balance_ok, handler, trades, watches, event_queue,
                   exchange, history>>

\* The previous add_watch returned or raised; the next zone is registered in
\* the symbol's only place for a zone watch.
AddNextZone ==
    /\ scanner.add # <<>>
    /\ zone_watches' = [zone_watches EXCEPT ![scanner.symbol] = Head(scanner.add)]
    /\ scanner' = [scanner EXCEPT !.add = Tail(@)]
    /\ UNCHANGED <<phase, zones, balance_ok, handler, trades, tp1_watches, body_sl_watches,
                   event_queue, exchange, history>>

ScannerNext ==
    StartScan \/ (\E zs \in ScanResults : ScanSymbol(zs)) \/ ScanFails \/ AddNextZone

-----------------------------------------------------------------------------
(* The sentinel: a watch fires, is deleted and its event queued.           *)

Fire(type, s, ref) ==
    /\ phase # "down"
    /\ ref # None
    /\ Len(event_queue) < MaxQueue
    /\ event_queue' = Append(event_queue, [type |-> type, symbol |-> s, ref |-> ref])
    /\ UNCHANGED <<phase, zones, balance_ok, scanner, handler, trades, exchange, history>>

FireZone(s) ==
    /\ Fire("ZONE_TOUCH", s, zone_watches[s])
    /\ zone_watches' = [zone_watches EXCEPT ![s] = None]
    /\ UNCHANGED <<tp1_watches, body_sl_watches>>

\* Fault: the watch outlives its event.
FireTP1Kept(s) == Fire("TP1_HIT", s, tp1_watches[s]) /\ UNCHANGED watches
FireTP1(s) ==
    /\ Fire("TP1_HIT", s, tp1_watches[s])
    /\ tp1_watches' = [tp1_watches EXCEPT ![s] = None]
    /\ UNCHANGED <<zone_watches, body_sl_watches>>

FireBodySL(s) ==
    /\ Fire("BODY_SL", s, body_sl_watches[s])
    /\ body_sl_watches' = [body_sl_watches EXCEPT ![s] = None]
    /\ UNCHANGED <<zone_watches, tp1_watches>>

SentinelNext == \E s \in Symbols : FireZone(s) \/ FireTP1(s) \/ FireBodySL(s)

-----------------------------------------------------------------------------
(* The event loop takes an event and runs its handler up to the first await. *)

Take(type) ==
    /\ phase = "running"
    /\ handler = Idle
    /\ event_queue # <<>>
    /\ Head(event_queue).type = type
    /\ event_queue' = Tail(event_queue)
    /\ UNCHANGED <<phase, zones, balance_ok, scanner, watches, exchange, history>>

At(pc) == [pc |-> pc, event |-> Head(event_queue)]

\* The price is matched with the zones of the latest scan, which may no longer
\* hold the zone that was touched but another one around that price.
HandleZoneTouch ==
    /\ Take("ZONE_TOUCH")
    /\ LET latest == zones[Head(event_queue).symbol]
       IN  \/ latest # <<>> /\ handler' = At("notify")
           \/ Head(event_queue).ref \notin Range(latest) /\ handler' = Idle
    /\ UNCHANGED trades

HandleTP1Hit ==
    /\ Take("TP1_HIT")
    /\ LET s == Head(event_queue).symbol
       IN  IF trades[s] = None
           THEN handler' = Idle /\ UNCHANGED trades
           ELSE /\ trades' = [trades EXCEPT ![s].status = "tp1_hit"]
                /\ handler' = At("breakeven")

\* Fault: the trade is forgotten and its position left open.
HandleBodySLForgets ==
    /\ Take("BODY_SL")
    /\ trades' = [trades EXCEPT ![Head(event_queue).symbol] = None]
    /\ handler' = Idle
\* The trade is forgotten before its position is closed.
HandleBodySL ==
    /\ Take("BODY_SL")
    /\ LET s == Head(event_queue).symbol
       IN  /\ trades' = [trades EXCEPT ![s] = None]
           /\ handler' = IF trades[s] = None THEN Idle ELSE At("close")

-----------------------------------------------------------------------------
(* Entering a trade.                                                       *)

Tracked == {s \in Symbols : trades[s] # None}

\* The next await of the handler; the rest of the state is the action's.
Goto(from, to) ==
    /\ handler.pc = from
    /\ handler' = IF to = "idle" THEN Idle ELSE [handler EXCEPT !.pc = to]
    /\ UNCHANGED <<phase, zones, balance_ok, scanner, zone_watches, event_queue>>

\* Fault: the slots are not counted.
EntryGateBalanceOnly == phase = "running" /\ balance_ok
\* The first scan is over, a slot is free and the cached balance suffices.
EntryGateOpen ==
    /\ phase = "running"
    /\ Cardinality(Tracked) < MAX_AT_RISK_SLOTS
    /\ balance_ok

\* The notification was sent: check_entry begins with the entry gate.
CheckEntry ==
    /\ Goto("notify", IF EntryGateOpen THEN "gates" ELSE "idle")
    /\ UNCHANGED <<trades, tp1_watches, body_sl_watches, exchange, history>>

\* The BTC, 4H, TP and SL gates await candles and prices; they pass or block.
PassGates ==
    /\ \/ Goto("gates", "idle")
       \/ /\ Goto("gates", "open")
          /\ entries[handler.event.symbol] < MaxEntries
    /\ UNCHANGED <<trades, tp1_watches, body_sl_watches, exchange, history>>

\* Fault: the exception ends the event loop's task.
RaisesFatal(from) ==
    /\ Goto(from, "dead")
    /\ mishap' = [mishap EXCEPT ![handler.event.symbol] = TRUE]
    /\ UNCHANGED <<trades, tp1_watches, body_sl_watches>>
\* An exchange call of the handler raised; _event_loop logs it and goes on.
Raises(from) ==
    /\ Goto(from, "idle")
    /\ mishap' = [mishap EXCEPT ![handler.event.symbol] = TRUE]
    /\ UNCHANGED <<trades, tp1_watches, body_sl_watches>>

\* The market order fills, or is cancelled unfilled, or the call raises after
\* either.
PlaceMarketEntry ==
    LET s == handler.event.symbol
    IN  /\ \/ /\ Goto("open", "tp1")
              /\ UNCHANGED <<trades, tp1_watches, body_sl_watches, mishap>>
           \/ Raises("open")
        /\ position' \in {position, [position EXCEPT ![s] = @ + 1]}
        /\ entries' = [entries EXCEPT ![s] = @ + 1]
        /\ UNCHANGED stop

\* TP1 and then TP2; both need an open position.
PlaceTP(from, to) ==
    /\ \/ /\ Goto(from, to)
          /\ position[handler.event.symbol] > 0
          /\ UNCHANGED <<trades, tp1_watches, body_sl_watches, mishap>>
       \/ Raises(from)
    /\ UNCHANGED <<exchange, entries>>

\* Fault: the disaster stop is not placed.
StopSkipped(s) == stop
StopPlaced(s) == [stop EXCEPT ![s] = "disaster"]

\* Only when all four orders were accepted is the trade recorded; the record of
\* an earlier trade of the symbol is overwritten.
PlaceDisasterSL ==
    LET s == handler.event.symbol
    IN  /\ \/ /\ Goto("sl", "entered")
              /\ position[s] > 0
              /\ stop' = StopPlaced(s)
              /\ trades' = [trades EXCEPT ![s] = [id |-> entries[s], status |-> "open"]]
              /\ mishap' = [mishap EXCEPT ![s] = FALSE]
              /\ UNCHANGED <<tp1_watches, body_sl_watches>>
           \/ /\ Raises("sl")
              /\ stop' \in {stop, IF position[s] > 0 THEN StopPlaced(s) ELSE stop}
        /\ UNCHANGED <<position, entries>>

\* enter_trade returned: the TP1 watch is registered, and if subscribing for it
\* raises, the body-SL watch never is.
AddTP1Watch ==
    LET s == handler.event.symbol
    IN  /\ \E to \in {"watch", "idle"} : Goto("entered", to)
        /\ tp1_watches' = [tp1_watches EXCEPT ![s] = entries[s]]
        /\ mishap' = [mishap EXCEPT ![s] = @ \/ handler' = Idle]
        /\ UNCHANGED <<trades, body_sl_watches, exchange, entries>>

AddBodySLWatch ==
    LET s == handler.event.symbol
    IN  /\ Goto("watch", "idle")
        /\ body_sl_watches' = [body_sl_watches EXCEPT ![s] = entries[s]]
        /\ UNCHANGED <<trades, tp1_watches, exchange, history>>

-----------------------------------------------------------------------------
(* Managing a trade.                                                       *)

\* The hard stop moves to the entry price; it needs an open position.
MoveStopToEntry ==
    LET s == handler.event.symbol
    IN  /\ \/ /\ Goto("breakeven", "tell")
              /\ position[s] > 0
              /\ stop' = [stop EXCEPT ![s] = "entry"]
              /\ UNCHANGED <<trades, tp1_watches, body_sl_watches, mishap>>
           \/ /\ Raises("breakeven")
              /\ stop' \in {stop, IF position[s] > 0 THEN [stop EXCEPT ![s] = "entry"] ELSE stop}
        /\ UNCHANGED <<position, entries>>

Closed(s) ==
    /\ position' = [position EXCEPT ![s] = 0]
    /\ stop' = [stop EXCEPT ![s] = "none"]

\* The close order fills; or it fills only in part, the call returning all the
\* same; or it raises, with or without effect, as it does without a position.
ClosePosition ==
    LET s == handler.event.symbol
    IN  /\ \/ /\ Goto("close", "tell")
              /\ position[s] > 0
              /\ \/ Closed(s) /\ mishap' = [mishap EXCEPT ![s] = FALSE]
                 \/ UNCHANGED exchange /\ mishap' = [mishap EXCEPT ![s] = TRUE]
              /\ UNCHANGED <<trades, tp1_watches, body_sl_watches>>
           \/ /\ Raises("close")
              /\ Closed(s) \/ UNCHANGED exchange
        /\ UNCHANGED entries

\* The last notification was sent.
Told ==
    /\ Goto("tell", "idle")
    /\ UNCHANGED <<trades, tp1_watches, body_sl_watches, exchange, history>>

EventLoopNext ==
    \/ HandleZoneTouch \/ HandleTP1Hit \/ HandleBodySL
    \/ CheckEntry \/ PassGates
    \/ PlaceMarketEntry \/ PlaceTP("tp1", "tp2") \/ PlaceTP("tp2", "sl") \/ PlaceDisasterSL
    \/ AddTP1Watch \/ AddBodySLWatch
    \/ MoveStopToEntry \/ ClosePosition \/ Told

-----------------------------------------------------------------------------
\* The exchange: the hard stop, or both take-profits, close the position.
ExchangeExit(s) ==
    /\ position[s] > 0
    /\ Closed(s)
    /\ mishap' = [mishap EXCEPT ![s] = FALSE]
    /\ UNCHANGED <<phase, zones, balance_ok, scanner, handler, trades, watches, event_queue,
                   entries>>

Next ==
    \/ Startup \/ FinishStartup \/ Stop \/ CheckMinBalance
    \/ ScannerNext \/ SentinelNext \/ EventLoopNext
    \/ \E s \in Symbols : ExchangeExit(s)

Spec == Init /\ [][Next]_vars

\* Exchange calls, notifications and scans return or raise.
FairSpec == Spec /\ WF_vars(EventLoopNext) /\ WF_vars(ScannerNext) /\ WF_vars(FinishStartup)

-----------------------------------------------------------------------------
(* Properties.                                                             *)

\* The loop tracks no more trades than it has slots, though the slots are
\* counted long before the trade is recorded.
SlotsRespected == Cardinality(Tracked) <= MAX_AT_RISK_SLOTS

Handling(s, pcs) == handler # Idle /\ handler.event.symbol = s /\ handler.pc \in pcs

\* While no call fails and the process lives, a position on the exchange is
\* tracked, being entered or being closed.
PositionsTracked ==
    \A s \in Symbols :
        position[s] > 0 /\ ~mishap[s]
            => trades[s] # None \/ Handling(s, EntryPCs \cup {"close"})

\* While no call fails, the position of a tracked trade has its stop: at the
\* entry price once TP1 was handled, whatever events, entries and exits overlap.
TrackedProtected ==
    \A s \in Symbols :
        trades[s] # None /\ position[s] > 0 /\ ~mishap[s] /\ ~Handling(s, EntryPCs)
            => /\ stop[s] # "none"
               /\ trades[s].status = "tp1_hit" /\ ~Handling(s, {"breakeven"})
                      => stop[s] = "entry"

\* The watches there are and the events that fired, without what they refer to.
Armed == {<<"ZONE_TOUCH", s>> : s \in {x \in Symbols : zone_watches[x] # None}}
         \cup {<<"TP1_HIT", s>> : s \in {x \in Symbols : tp1_watches[x] # None}}
         \cup {<<"BODY_SL", s>> : s \in {x \in Symbols : body_sl_watches[x] # None}}
Queue == [i \in DOMAIN event_queue |-> <<event_queue[i].type, event_queue[i].symbol>>]

\* What the loop does to the sentinel: events come only from registered watches
\* and are taken once, in order.
Abstract == INSTANCE Watches WITH armed <- Armed, events <- Queue
ImplementsWatches == Abstract!Spec

BodySLQueued(s) ==
    \E i \in DOMAIN event_queue :
        event_queue[i].type = "BODY_SL" /\ event_queue[i].symbol = s

\* A body-close SL event of a tracked trade comes to its close order, whatever
\* call fails before it in the queue, and the order to an answer.
BodySLCloses ==
    \A s \in Symbols :
        /\ BodySLQueued(s) /\ trades[s] # None ~> Handling(s, {"close"}) \/ phase = "down"
        /\ Handling(s, {"close"}) ~> position[s] = 0 \/ mishap[s] \/ phase = "down"

-----------------------------------------------------------------------------
(* What comments and documents of the repository say of the program.       *)

\* "Remove any stale zone watches for this symbol before re-adding": the
\* body-close stop of a live trade stays watched.
LiveTradeWatched ==
    \A s \in Symbols :
        trades[s] # None /\ position[s] > 0 /\ ~mishap[s] /\ ~Handling(s, {"entered", "watch"})
            => body_sl_watches[s] # None \/ BodySLQueued(s)
=============================================================================
