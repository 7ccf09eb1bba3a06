-------------------------- MODULE AgentLoop_proofs --------------------------
(***************************************************************************)
(* Proofs about the trading loop, for any symbols, scan results, number of *)
(* slots and bounds.                                                       *)
(***************************************************************************)
EXTENDS AgentLoop, FiniteSetTheorems, SequenceTheorems, TLAPS

-----------------------------------------------------------------------------
(* What whole groups of actions leave alone.                               *)

LEMMA SentinelFrame ==
    SentinelNext => UNCHANGED <<phase, zones, balance_ok, scanner, handler, trades,
                                position, stop, entries, mishap>>
<1> QED
    BY DEF SentinelNext, FireZone, FireTP1, FireBodySL, Fire, exchange, history

LEMMA EventLoopFrame ==
    EventLoopNext => UNCHANGED <<phase, zones, balance_ok, scanner, zone_watches>>
<1> QED
    BY DEF EventLoopNext, HandleZoneTouch, HandleTP1Hit, HandleBodySL, Take, watches,
           CheckEntry, PassGates, PlaceMarketEntry, PlaceTP, PlaceDisasterSL, AddTP1Watch,
           AddBodySLWatch, MoveStopToEntry, ClosePosition, Told, Raises, Goto

LEMMA ScannerFrame ==
    ScannerNext => UNCHANGED <<phase, balance_ok, handler, trades, event_queue,
                               position, stop, entries, mishap>>
<1> QED
    BY DEF ScannerNext, StartScan, ScanSymbol, ScanFails, AddNextZone, exchange, history

-----------------------------------------------------------------------------
(* Type correctness.                                                       *)

LEMMA HeadAndTail ==
    ASSUME NEW S, NEW q \in Seq(S), q # <<>>
    PROVE  Head(q) \in S /\ Tail(q) \in Seq(S)
<1> QED
    OBVIOUS

LEMMA ScanResultTypes ==
    ASSUME NEW zs \in ScanResults
    PROVE  /\ zs \in Seq(Zones)
           /\ zs # <<>> => Head(zs) \in Zones /\ Tail(zs) \in Seq(Zones)
<1>1. zs \in Seq(Range(zs))
    BY LoopAssumption DEF LoopAssumption
<1>2. Range(zs) \subseteq Zones
    BY DEF Zones
<1>3. zs \in Seq(Zones)
    BY <1>1, <1>2
<1> QED
    BY <1>3

LEMMA NoScanTypes ==
    ASSUME NEW todo \in Seq(Symbols)
    PROVE  LET pass == [NoScan EXCEPT !.todo = todo]
           IN  /\ pass \in [todo : Seq(Symbols), symbol : Symbols \cup {None}, add : Seq(Zones)]
               /\ pass.add = <<>>
<1>1. <<>> \in Seq(Zones)
    OBVIOUS
<1>2. [NoScan EXCEPT !.todo = todo] = [todo |-> todo, symbol |-> None, add |-> <<>>]
    BY DEF NoScan
<1> QED
    BY <1>1, <1>2

LEMMA NoScanItself == NoScan = [NoScan EXCEPT !.todo = <<>>] /\ <<>> \in Seq(Symbols)
<1> QED
    BY DEF NoScan

LEMMA TypeInit == Init => TypeOK
<1> SUFFICES ASSUME Init PROVE TypeOK
    OBVIOUS
<1>1. ScanTypes
    BY NoScanTypes, NoScanItself DEF Init, ScanTypes
<1>2. EventTypes
    BY DEF Init, EventTypes, NoWatches
<1>3. TradeTypes
    BY LoopAssumption DEF Init, TradeTypes, LoopAssumption
<1> QED
    BY <1>1, <1>2, <1>3 DEF TypeOK

LEMMA ScanTypesStep == ScanTypes /\ [Next]_vars => ScanTypes'
<1> SUFFICES ASSUME ScanTypes, [Next]_vars PROVE ScanTypes'
    OBVIOUS
<1> USE DEF ScanTypes
<1>1. CASE Startup
    BY <1>1, LoopAssumption, NoScanTypes DEF Startup, LoopAssumption
<1>2. CASE FinishStartup
    BY <1>2 DEF FinishStartup
<1>3. CASE Stop
    BY <1>3, NoScanTypes, NoScanItself DEF Stop
<1>4. CASE CheckMinBalance
    BY <1>4 DEF CheckMinBalance
<1>5. CASE StartScan
    BY <1>5, LoopAssumption, NoScanTypes DEF StartScan, LoopAssumption
<1>6. ASSUME NEW zs \in ScanResults, ScanSymbol(zs) PROVE ScanTypes'
    BY <1>6, ScanResultTypes DEF ScanSymbol
<1>7. CASE ScanFails
  <2>1. Tail(scanner.todo) \in Seq(Symbols)
      BY <1>7, HeadAndTail DEF ScanFails
  <2>2. scanner' = [todo |-> Tail(scanner.todo), symbol |-> scanner.symbol, add |-> scanner.add]
      BY <1>7 DEF ScanFails
  <2> QED
      BY <1>7, <2>1, <2>2 DEF ScanFails
<1>8. CASE AddNextZone
  <2>1. Tail(scanner.add) \in Seq(Zones) /\ scanner.symbol \in Symbols
      BY <1>8, HeadAndTail DEF AddNextZone
  <2>2. scanner' = [todo |-> scanner.todo, symbol |-> scanner.symbol, add |-> Tail(scanner.add)]
      BY <1>8 DEF AddNextZone
  <2> QED
      BY <1>8, <2>1, <2>2 DEF AddNextZone
<1>9. CASE SentinelNext
    BY <1>9, SentinelFrame
<1>10. CASE EventLoopNext
    BY <1>10, EventLoopFrame
<1>11. ASSUME NEW s \in Symbols, ExchangeExit(s) PROVE ScanTypes'
    BY <1>11 DEF ExchangeExit
<1>12. CASE UNCHANGED vars
    BY <1>12 DEF vars
<1> QED
    BY <1>1, <1>2, <1>3, <1>4, <1>5, <1>6, <1>7, <1>8, <1>9, <1>10, <1>11, <1>12
    DEF Next, ScannerNext

\* The numbering of entries that the types of trades and watches rest on.
Numbering ==
    /\ handler.pc = "open" => entries[handler.event.symbol] < MaxEntries
    /\ handler.pc \in {"tp1", "tp2", "sl", "entered", "watch"}
           => entries[handler.event.symbol] > 0
    /\ \A s \in Symbols : position[s] <= entries[s]

LEMMA NumberingInit == Init => Numbering
<1> QED
    BY DEF Init, Numbering, Idle

LEMMA HandlerTypes ==
    ASSUME EventTypes, handler # Idle
    PROVE  handler.pc \in PCs /\ handler.event \in Events /\ handler.event.symbol \in Symbols
<1> QED
    BY DEF EventTypes, Events

LEMMA GotoTypes ==
    ASSUME EventTypes, NEW from \in PCs, NEW to \in PCs \cup {"idle"}, Goto(from, to)
    PROVE  /\ handler # Idle
           /\ handler' \in [pc : PCs, event : Events] \cup {Idle}
           /\ IF to = "idle" THEN handler' = Idle
              ELSE handler'.pc = to /\ handler'.event = handler.event
<1>1. "idle" \notin PCs
    BY DEF PCs, EntryPCs
<1>2. handler # Idle
    BY <1>1 DEF Goto, Idle
<1>3. handler \in [pc : PCs, event : Events]
    BY <1>2 DEF EventTypes
<1> QED
    BY <1>2, <1>3 DEF Goto

LEMMA TakeTypes ==
    ASSUME EventTypes, NEW type, Take(type)
    PROVE  /\ Head(event_queue) \in Events
           /\ Head(event_queue).symbol \in Symbols
           /\ event_queue' \in Seq(Events)
           /\ \A pc \in PCs : At(pc) \in [pc : PCs, event : Events]
<1>1. Head(event_queue) \in Events /\ Tail(event_queue) \in Seq(Events)
    BY HeadAndTail DEF EventTypes, Take
<1> QED
    BY <1>1 DEF Take, At, Events

LEMMA FireTypes ==
    ASSUME EventTypes, NEW s \in Symbols,
           NEW type, NEW ref, [type |-> type, symbol |-> s, ref |-> ref] \in Events,
           Fire(type, s, ref)
    PROVE  event_queue' \in Seq(Events)
<1> QED
    BY DEF EventTypes, Fire

LEMMA EventTypesStep == TypeOK /\ Numbering /\ [Next]_vars => EventTypes'
<1> SUFFICES ASSUME TypeOK, Numbering, [Next]_vars PROVE EventTypes'
    OBVIOUS
<1>0. EventTypes /\ ScanTypes /\ TradeTypes
    BY DEF TypeOK
<1> USE DEF watches
<1>1. CASE Startup \/ FinishStartup \/ CheckMinBalance \/ StartScan \/ ScanFails
    BY <1>0, <1>1 DEF Startup, FinishStartup, CheckMinBalance, StartScan, ScanFails, EventTypes
<1>2. CASE Stop
    BY <1>0, <1>2 DEF Stop, EventTypes
<1>3. ASSUME NEW zs \in ScanResults, ScanSymbol(zs) PROVE EventTypes'
    BY <1>0, <1>3, ScanResultTypes DEF ScanSymbol, EventTypes
<1>4. CASE AddNextZone
    BY <1>0, <1>4, HeadAndTail DEF AddNextZone, EventTypes, ScanTypes
<1>5. ASSUME NEW s \in Symbols, FireZone(s) PROVE EventTypes'
  <2>1. zone_watches[s] \in Zones
      BY <1>0, <1>5 DEF FireZone, Fire, EventTypes
  <2>2. event_queue' \in Seq(Events)
      BY <1>0, <1>5, <2>1, FireTypes DEF FireZone, Events
  <2> QED
      BY <1>0, <1>5, <2>2 DEF FireZone, Fire, EventTypes
<1>6. ASSUME NEW s \in Symbols, FireTP1(s) PROVE EventTypes'
  <2>1. tp1_watches[s] \in Ids
      BY <1>0, <1>6 DEF FireTP1, Fire, EventTypes
  <2>2. event_queue' \in Seq(Events)
      BY <1>0, <1>6, <2>1, FireTypes DEF FireTP1, Events
  <2> QED
      BY <1>0, <1>6, <2>2 DEF FireTP1, Fire, EventTypes
<1>7. ASSUME NEW s \in Symbols, FireBodySL(s) PROVE EventTypes'
  <2>1. body_sl_watches[s] \in Ids
      BY <1>0, <1>7 DEF FireBodySL, Fire, EventTypes
  <2>2. event_queue' \in Seq(Events)
      BY <1>0, <1>7, <2>1, FireTypes DEF FireBodySL, Events
  <2> QED
      BY <1>0, <1>7, <2>2 DEF FireBodySL, Fire, EventTypes
<1>8. CASE HandleZoneTouch
    BY <1>0, <1>8, TakeTypes DEF HandleZoneTouch, Take, EventTypes, PCs
<1>9. CASE HandleTP1Hit
    BY <1>0, <1>9, TakeTypes DEF HandleTP1Hit, Take, EventTypes, PCs
<1>10. CASE HandleBodySL
    BY <1>0, <1>10, TakeTypes DEF HandleBodySL, Take, EventTypes, PCs
<1>11. CASE CheckEntry \/ PassGates \/ PlaceMarketEntry \/ PlaceTP("tp1", "tp2")
            \/ PlaceTP("tp2", "sl") \/ PlaceDisasterSL \/ MoveStopToEntry
            \/ ClosePosition \/ Told
  <2>1. UNCHANGED <<event_queue, watches>>
      BY <1>11 DEF CheckEntry, PassGates, PlaceMarketEntry, PlaceTP, PlaceDisasterSL,
                   MoveStopToEntry, ClosePosition, Told, Raises, Goto
  <2>2. \E from \in PCs, to \in PCs \cup {"idle"} : Goto(from, to)
      BY <1>11 DEF CheckEntry, PassGates, PlaceMarketEntry, PlaceTP, PlaceDisasterSL,
                   MoveStopToEntry, ClosePosition, Told, Raises, PCs, EntryPCs
  <2>3. handler' \in [pc : PCs, event : Events] \cup {Idle}
      BY <1>0, <2>2, GotoTypes
  <2> QED
      BY <1>0, <2>1, <2>3 DEF EventTypes
<1>12. CASE AddTP1Watch
  <2>1. \E to \in PCs \cup {"idle"} : Goto("entered", to)
      BY <1>12 DEF AddTP1Watch, PCs
  <2>2. /\ handler.pc = "entered" /\ "entered" \in PCs /\ handler # Idle
        /\ handler' \in [pc : PCs, event : Events] \cup {Idle}
      BY <1>0, <2>1, GotoTypes DEF Goto, PCs
  <2>3. entries[handler.event.symbol] \in Ids
      BY <1>0, <2>2, HandlerTypes, LoopAssumption
      DEF Numbering, TradeTypes, Ids, LoopAssumption
  <2> QED
      BY <1>0, <1>12, <2>2, <2>3 DEF AddTP1Watch, Goto, EventTypes
<1>13. CASE AddBodySLWatch
  <2>1. Goto("watch", "idle")
      BY <1>13 DEF AddBodySLWatch
  <2>2. /\ handler.pc = "watch" /\ "watch" \in PCs /\ handler # Idle
        /\ handler' \in [pc : PCs, event : Events] \cup {Idle}
      BY <1>0, <2>1, GotoTypes DEF Goto, PCs
  <2>3. entries[handler.event.symbol] \in Ids
      BY <1>0, <2>2, HandlerTypes, LoopAssumption
      DEF Numbering, TradeTypes, Ids, LoopAssumption
  <2> QED
      BY <1>0, <1>13, <2>2, <2>3 DEF AddBodySLWatch, Goto, EventTypes
<1>14. CASE \E s \in Symbols : ExchangeExit(s)
    BY <1>0, <1>14 DEF ExchangeExit, EventTypes
<1>15. CASE UNCHANGED vars
    BY <1>0, <1>15 DEF vars, EventTypes
<1> QED
    BY <1>1, <1>2, <1>3, <1>4, <1>5, <1>6, <1>7, <1>8, <1>9, <1>10, <1>11, <1>12, <1>13,
       <1>14, <1>15
    DEF Next, ScannerNext, SentinelNext, EventLoopNext

\* What an action of the handler at a given await knows.
LEMMA AtAwait ==
    ASSUME TypeOK, NEW from \in PCs, NEW to \in PCs \cup {"idle"}, Goto(from, to)
    PROVE  /\ handler.pc = from
           /\ handler.event.symbol \in Symbols
           /\ handler' = Idle \/ (handler'.pc = to /\ handler'.event = handler.event)
           /\ to = "idle" => handler' = Idle
           /\ to # "idle" => handler' # Idle /\ handler'.pc = to
           /\ handler # Idle /\ Idle.pc = "idle"
<1>1. EventTypes
    BY DEF TypeOK
<1>2. handler # Idle
    BY <1>1, GotoTypes
<1> QED
    BY <1>1, <1>2, GotoTypes, HandlerTypes DEF Goto, Idle

LEMMA TradeTypesStep ==
    TypeOK /\ Numbering /\ [Next]_vars => TradeTypes' /\ Numbering'
<1> SUFFICES ASSUME TypeOK, Numbering, [Next]_vars PROVE TradeTypes' /\ Numbering'
    OBVIOUS
<1>0. EventTypes /\ ScanTypes /\ TradeTypes
    BY DEF TypeOK
<1>1. MaxEntries \in Nat
    BY LoopAssumption DEF LoopAssumption
<1> USE <1>0, <1>1 DEF exchange, history
<1> DEFINE s == handler.event.symbol
<1>2. CASE Startup \/ FinishStartup \/ CheckMinBalance \/ ScannerNext \/ SentinelNext
    BY <1>2, ScannerFrame, SentinelFrame
    DEF Startup, FinishStartup, CheckMinBalance, TradeTypes, Numbering
<1>3. CASE Stop
    BY <1>3 DEF Stop, TradeTypes, Numbering, Idle
<1>4. CASE HandleZoneTouch
    BY <1>4 DEF HandleZoneTouch, Take, At, TradeTypes, Numbering, Idle
<1>5. CASE HandleTP1Hit
  <2>1. Head(event_queue).symbol \in Symbols
      BY <1>5, TakeTypes DEF HandleTP1Hit
  <2>2. UNCHANGED <<position, stop, entries, mishap>>
      BY <1>5 DEF HandleTP1Hit, Take
  <2>3. trades' \in [Symbols -> Trades \cup {None}]
      BY <1>5, <2>1 DEF HandleTP1Hit, TradeTypes, Trades
  <2>4. handler'.pc \in {"idle", "breakeven"}
      BY <1>5 DEF HandleTP1Hit, At, Idle
  <2> QED
      BY <2>2, <2>3, <2>4 DEF TradeTypes, Numbering
<1>6. CASE HandleBodySL
  <2>1. Head(event_queue).symbol \in Symbols
      BY <1>6, TakeTypes DEF HandleBodySL
  <2> QED
      BY <1>6, <2>1 DEF HandleBodySL, Take, At, Idle, TradeTypes, Numbering
<1>7. CASE CheckEntry
    BY <1>7 DEF CheckEntry, Goto, TradeTypes, Numbering, Idle
<1>8. CASE PassGates
  <2>1. UNCHANGED <<trades, exchange, history>>
      BY <1>8 DEF PassGates
  <2>2. \/ handler'.pc = "idle"
        \/ /\ handler'.pc = "open" /\ handler'.event = handler.event
           /\ entries[s] < MaxEntries
      BY <1>8, AtAwait DEF PassGates, PCs, EntryPCs
  <2> QED
      BY <2>1, <2>2 DEF TradeTypes, Numbering
<1>9. CASE PlaceMarketEntry
  <2>1. /\ handler.pc = "open" /\ s \in Symbols
        /\ handler' = Idle \/ (handler'.pc = "tp1" /\ handler'.event = handler.event)
      BY <1>9, AtAwait DEF PlaceMarketEntry, Raises, PCs, EntryPCs
  <2>2. entries[s] \in 0 .. MaxEntries /\ entries[s] < MaxEntries /\ position[s] <= entries[s]
      BY <2>1 DEF TradeTypes, Numbering
  <2>3. UNCHANGED <<trades, stop>> /\ mishap' \in [Symbols -> BOOLEAN]
      BY <1>9, <2>1 DEF PlaceMarketEntry, Raises, TradeTypes
  <2>4. /\ entries' = [entries EXCEPT ![s] = @ + 1]
        /\ position' \in {position, [position EXCEPT ![s] = @ + 1]}
      BY <1>9 DEF PlaceMarketEntry
  <2>5. \A x \in Symbols : /\ entries'[x] \in 0 .. MaxEntries
                          /\ position'[x] \in 0 .. MaxEntries
                          /\ position'[x] <= entries'[x]
      BY <2>1, <2>2, <2>4 DEF TradeTypes, Numbering
  <2> QED
      BY <2>1, <2>2, <2>3, <2>4, <2>5 DEF TradeTypes, Numbering, Idle
<1>10. CASE PlaceTP("tp1", "tp2") \/ PlaceTP("tp2", "sl")
  <2>1. /\ handler.pc \in {"tp1", "tp2"} /\ s \in Symbols
        /\ handler' = Idle \/ (handler'.pc \in {"tp2", "sl"} /\ handler'.event = handler.event)
      BY <1>10, AtAwait DEF PlaceTP, Raises, PCs, EntryPCs
  <2>2. UNCHANGED <<trades, position, stop, entries>> /\ mishap' \in [Symbols -> BOOLEAN]
      BY <1>10, <2>1 DEF PlaceTP, Raises, TradeTypes
  <2> QED
      BY <2>1, <2>2 DEF TradeTypes, Numbering, Idle
<1>11. CASE PlaceDisasterSL
  <2>1. /\ handler.pc = "sl" /\ s \in Symbols
        /\ handler' = Idle \/ (handler'.pc = "entered" /\ handler'.event = handler.event)
      BY <1>11, AtAwait DEF PlaceDisasterSL, Raises, PCs, EntryPCs
  <2>2. entries[s] \in Ids
      BY <2>1 DEF TradeTypes, Numbering, Ids
  <2>3. UNCHANGED <<position, entries>>
      BY <1>11 DEF PlaceDisasterSL
  <2>4. trades' \in [Symbols -> Trades \cup {None}]
      BY <1>11, <2>1, <2>2 DEF PlaceDisasterSL, Raises, TradeTypes, Trades
  <2>5. stop' \in [Symbols -> {"none", "disaster", "entry"}] /\ mishap' \in [Symbols -> BOOLEAN]
      BY <1>11, <2>1 DEF PlaceDisasterSL, Raises, StopPlaced, TradeTypes
  <2> QED
      BY <2>1, <2>3, <2>4, <2>5 DEF TradeTypes, Numbering, Idle
<1>12. CASE AddTP1Watch
  <2>1. /\ handler.pc = "entered" /\ s \in Symbols
        /\ handler' = Idle \/ (handler'.pc = "watch" /\ handler'.event = handler.event)
      BY <1>12, AtAwait DEF AddTP1Watch, PCs
  <2>2. UNCHANGED <<trades, position, stop, entries>>
      BY <1>12 DEF AddTP1Watch
  <2>3. mishap' \in [Symbols -> BOOLEAN]
      BY <1>12, <2>1 DEF AddTP1Watch, TradeTypes
  <2> QED
      BY <2>1, <2>2, <2>3 DEF TradeTypes, Numbering, Idle
<1>13. CASE AddBodySLWatch \/ Told
    BY <1>13 DEF AddBodySLWatch, Told, Goto, TradeTypes, Numbering, Idle
<1>14. CASE MoveStopToEntry \/ ClosePosition
  <2>1. s \in Symbols /\ handler'.pc \in {"idle", "tell"}
      BY <1>14, AtAwait DEF MoveStopToEntry, ClosePosition, Raises, PCs
  <2>2. UNCHANGED <<trades, entries>>
      BY <1>14 DEF MoveStopToEntry, ClosePosition, Raises
  <2>3. position' \in {position, [position EXCEPT ![s] = 0]}
      BY <1>14 DEF MoveStopToEntry, ClosePosition, Closed
  <2>4. stop' \in [Symbols -> {"none", "disaster", "entry"}] /\ mishap' \in [Symbols -> BOOLEAN]
      BY <1>14, <2>1 DEF MoveStopToEntry, ClosePosition, Raises, Closed, TradeTypes
  <2> QED
      BY <2>1, <2>2, <2>3, <2>4 DEF TradeTypes, Numbering
<1>15. ASSUME NEW x \in Symbols, ExchangeExit(x) PROVE TradeTypes' /\ Numbering'
    BY <1>15 DEF ExchangeExit, Closed, TradeTypes, Numbering
<1>16. CASE UNCHANGED vars
    BY <1>16 DEF vars, TradeTypes, Numbering
<1> QED
    BY <1>2, <1>3, <1>4, <1>5, <1>6, <1>7, <1>8, <1>9, <1>10, <1>11, <1>12, <1>13, <1>14,
       <1>15, <1>16
    DEF Next, EventLoopNext

LEMMA TypesAlways == Spec => [](TypeOK /\ Numbering)
<1>1. Init => TypeOK /\ Numbering
    BY TypeInit, NumberingInit
<1>2. TypeOK /\ Numbering /\ [Next]_vars => (TypeOK /\ Numbering)'
    BY ScanTypesStep, EventTypesStep, TradeTypesStep DEF TypeOK
<1> QED
    BY <1>1, <1>2, PTL DEF Spec

\* Every record, queue entry and counter has its type: the entry that a trade or
\* a watch names exists, though it is numbered several awaits earlier.
THEOREM TypeCorrect == Spec => []TypeOK
<1> QED
    BY TypesAlways, PTL

-----------------------------------------------------------------------------
(* The slots.                                                              *)

\* Why the early count is enough: the event loop is the only task that records
\* trades, so a slot counted free stays free until its own handler takes it.
SlotInv ==
    /\ SlotsRespected
    /\ handler.pc \in {"gates"} \cup EntryPCs => Cardinality(Tracked) < MAX_AT_RISK_SLOTS

LEMMA TrackedFinite == IsFiniteSet(Tracked) /\ Cardinality(Tracked) \in Nat
<1> QED
    BY LoopAssumption, FS_Subset, FS_CardinalityType DEF LoopAssumption, Tracked

LEMMA SlotInit == Init => SlotInv
<1> SUFFICES ASSUME Init PROVE SlotInv
    OBVIOUS
<1>1. Tracked = {}
    BY DEF Init, Tracked
<1>2. Cardinality(Tracked) = 0
    BY <1>1, FS_EmptySet
<1> QED
    BY <1>2, LoopAssumption
    DEF Init, SlotInv, SlotsRespected, Idle, EntryPCs, LoopAssumption

\* An action that records no trade and begins no entry keeps the slots.
LEMMA SlotsKept ==
    ASSUME SlotInv, Tracked' \subseteq Tracked,
           handler'.pc \in {"gates"} \cup EntryPCs =>
               \/ handler.pc \in {"gates"} \cup EntryPCs
               \/ Cardinality(Tracked) < MAX_AT_RISK_SLOTS
    PROVE  SlotInv'
<1>1. Cardinality(Tracked') <= Cardinality(Tracked) /\ Cardinality(Tracked') \in Nat
    BY TrackedFinite, FS_Subset, FS_CardinalityType
<1> QED
    BY <1>1, TrackedFinite, LoopAssumption DEF SlotInv, SlotsRespected, LoopAssumption

LEMMA SlotStep == TypeOK /\ SlotInv /\ [Next]_vars => SlotInv'
<1> SUFFICES ASSUME TypeOK, SlotInv, [Next]_vars PROVE SlotInv'
    OBVIOUS
<1>0. EventTypes /\ TradeTypes
    BY DEF TypeOK
<1> DEFINE Entering == {"gates"} \cup EntryPCs
<1>1. CASE UNCHANGED <<trades, handler>>
    BY <1>1, SlotsKept DEF Tracked
<1>2. CASE Stop
    BY <1>2, SlotsKept DEF Stop, Tracked, Idle, EntryPCs
<1>3. CASE HandleZoneTouch
    BY <1>3, SlotsKept DEF HandleZoneTouch, At, Tracked, Idle, EntryPCs
<1>4. CASE HandleTP1Hit
  <2>1. handler'.pc \notin Entering
      BY <1>4 DEF HandleTP1Hit, At, Idle, EntryPCs
  <2>2. \A s \in Symbols : trades[s] = None => trades'[s] = None
      BY <1>0, <1>4 DEF HandleTP1Hit, TradeTypes
  <2> QED
      BY <2>1, <2>2, SlotsKept DEF Tracked
<1>5. CASE HandleBodySL
  <2>1. handler'.pc \notin Entering
      BY <1>5 DEF HandleBodySL, At, Idle, EntryPCs
  <2>2. \A s \in Symbols : trades[s] = None => trades'[s] = None
      BY <1>0, <1>5 DEF HandleBodySL, TradeTypes
  <2> QED
      BY <2>1, <2>2, SlotsKept DEF Tracked
<1>6. CASE CheckEntry
  <2>1. handler'.pc \in Entering => Cardinality(Tracked) < MAX_AT_RISK_SLOTS
      BY <1>6, AtAwait DEF CheckEntry, EntryGateOpen, PCs, EntryPCs
  <2>2. Tracked' = Tracked
      BY <1>6 DEF CheckEntry, Tracked
  <2> QED
      BY <2>1, <2>2, SlotsKept
<1>7. CASE PassGates \/ PlaceMarketEntry \/ PlaceTP("tp1", "tp2") \/ PlaceTP("tp2", "sl")
  <2>1. handler.pc \in Entering
      BY <1>7 DEF PassGates, PlaceMarketEntry, PlaceTP, Raises, Goto, EntryPCs
  <2>2. Tracked' = Tracked
      BY <1>7 DEF PassGates, PlaceMarketEntry, PlaceTP, Raises, Tracked
  <2> QED
      BY <2>1, <2>2, SlotsKept
<1>8. CASE PlaceDisasterSL
  <2>1. handler.pc = "sl" /\ handler.event.symbol \in Symbols /\ handler'.pc \notin Entering
      BY <1>8, AtAwait DEF PlaceDisasterSL, Raises, PCs, EntryPCs
  <2>2. Cardinality(Tracked) < MAX_AT_RISK_SLOTS
      BY <2>1 DEF SlotInv, EntryPCs
  <2>3. Tracked' \subseteq Tracked \cup {handler.event.symbol}
      BY <1>0, <1>8, <2>1 DEF PlaceDisasterSL, Raises, Tracked, TradeTypes
  <2>4. /\ IsFiniteSet(Tracked \cup {handler.event.symbol})
        /\ Cardinality(Tracked \cup {handler.event.symbol}) <= Cardinality(Tracked) + 1
      BY TrackedFinite, FS_AddElement
  <2>5. Cardinality(Tracked') <= Cardinality(Tracked) + 1 /\ Cardinality(Tracked') \in Nat
      BY <2>3, <2>4, TrackedFinite, FS_Subset, FS_CardinalityType
  <2> QED
      BY <2>1, <2>2, <2>5, TrackedFinite, LoopAssumption
      DEF SlotInv, SlotsRespected, LoopAssumption
<1>9. CASE AddTP1Watch \/ AddBodySLWatch \/ MoveStopToEntry \/ ClosePosition \/ Told
  <2>1. handler'.pc \notin Entering
      BY <1>9, AtAwait
      DEF AddTP1Watch, AddBodySLWatch, MoveStopToEntry, ClosePosition, Told, Raises, PCs, EntryPCs
  <2>2. Tracked' = Tracked
      BY <1>9
      DEF AddTP1Watch, AddBodySLWatch, MoveStopToEntry, ClosePosition, Told, Raises, Tracked
  <2> QED
      BY <2>1, <2>2, SlotsKept
<1>10. Startup \/ FinishStartup \/ CheckMinBalance \/ ScannerNext \/ SentinelNext
           \/ (\E s \in Symbols : ExchangeExit(s)) \/ UNCHANGED vars
           => UNCHANGED <<trades, handler>>
    BY ScannerFrame, SentinelFrame
    DEF Startup, FinishStartup, CheckMinBalance, ExchangeExit, vars
<1> QED
    BY <1>1, <1>2, <1>3, <1>4, <1>5, <1>6, <1>7, <1>8, <1>9, <1>10 DEF Next, EventLoopNext

\* The loop never tracks more trades than it has slots, although the count is
\* taken before the gates and the four orders, and the trade recorded after them.
THEOREM SlotsAreRespected == Spec => []SlotsRespected
<1>1. TypeOK /\ SlotInv /\ [Next]_vars => SlotInv'
    BY SlotStep
<1>2. SlotInv => SlotsRespected
    BY DEF SlotInv
<1> QED
    BY SlotInit, <1>1, <1>2, TypeCorrect, PTL DEF Spec

-----------------------------------------------------------------------------
(* Positions and their stops.                                              *)

\* The two properties for one symbol; together they are inductive.
InOrder(x) ==
    position[x] > 0 /\ ~mishap[x] =>
        /\ trades[x] # None \/ Handling(x, EntryPCs \cup {"close"})
        /\ trades[x] # None /\ ~Handling(x, EntryPCs) =>
               /\ stop[x] # "none"
               /\ trades[x].status = "tp1_hit" /\ ~Handling(x, {"breakeven"})
                      => stop[x] = "entry"

OrderInv == \A x \in Symbols : InOrder(x)

\* A symbol no handler is busy with, before or after, is left in order.
LEMMA OthersKept ==
    ASSUME NEW x \in Symbols, InOrder(x),
           handler = Idle \/ handler.event.symbol # x,
           handler' = Idle \/ handler'.event.symbol # x,
           trades'[x] = trades[x], position'[x] = position[x],
           stop'[x] = stop[x], mishap'[x] = mishap[x]
    PROVE  InOrder(x)'
<1> QED
    BY DEF InOrder, Handling

\* A symbol that lost its position, or whose call failed, is in order trivially.
LEMMA NothingToKeep ==
    ASSUME NEW x \in Symbols, ~(position'[x] > 0) \/ mishap'[x]
    PROVE  InOrder(x)'
<1> QED
    BY DEF InOrder

LEMMA OrderInit == Init => OrderInv
<1> QED
    BY DEF Init, OrderInv, InOrder

LEMMA OrderStep == TypeOK /\ Numbering /\ OrderInv /\ [Next]_vars => OrderInv'
<1> SUFFICES ASSUME TypeOK, Numbering, OrderInv, [Next]_vars, NEW x \in Symbols PROVE InOrder(x)'
    BY DEF OrderInv
<1>0. EventTypes /\ TradeTypes /\ InOrder(x)
    BY DEF TypeOK, OrderInv
<1> USE <1>0 DEF exchange, history
<1> DEFINE s == handler.event.symbol
           e == Head(event_queue).symbol
<1>1. CASE UNCHANGED <<handler, trades, position, stop, mishap>>
    BY <1>1 DEF InOrder, Handling
<1>2. CASE Stop
    BY <1>2, NothingToKeep DEF Stop, TradeTypes
<1>3. CASE HandleZoneTouch
    BY <1>3 DEF HandleZoneTouch, Take, At, InOrder, Handling, EntryPCs
<1>4. CASE HandleTP1Hit
  <2>1. /\ handler = Idle /\ e \in Symbols
        /\ UNCHANGED <<position, stop, mishap>>
      BY <1>4, TakeTypes DEF HandleTP1Hit, Take
  <2>2. CASE trades[e] = None
      BY <1>4, <2>1, <2>2 DEF HandleTP1Hit, InOrder, Handling
  <2>3. CASE trades[e] # None
    <3>1. /\ trades' = [trades EXCEPT ![e].status = "tp1_hit"]
          /\ handler'.pc = "breakeven" /\ handler'.event.symbol = e /\ handler' # Idle
        BY <1>4, <2>3 DEF HandleTP1Hit, At, Idle
    <3>2. CASE x # e
        BY <2>1, <3>1, <3>2, OthersKept DEF TradeTypes
    <3>3. CASE x = e
      <4>1. trades[e] \in Trades
          BY <2>1, <2>3 DEF TradeTypes
      <4>2. trades'[x] \in Trades /\ trades'[x].status = "tp1_hit"
          BY <2>1, <3>1, <3>3, <4>1 DEF TradeTypes, Trades
      <4>3. ~Handling(x, EntryPCs) /\ Handling(x, {"breakeven"})'
          BY <2>1, <3>1, <3>3 DEF Handling
      <4>4. position[x] > 0 /\ ~mishap[x] => stop[x] # "none"
          BY <2>1, <2>3, <3>3, <4>3 DEF InOrder
      <4> QED
          BY <2>1, <4>2, <4>3, <4>4, LoopAssumption DEF InOrder, LoopAssumption
    <3> QED
        BY <3>2, <3>3
  <2> QED
      BY <2>2, <2>3
<1>5. CASE HandleBodySL
  <2>1. /\ handler = Idle /\ e \in Symbols
        /\ UNCHANGED <<position, stop, mishap>>
        /\ trades' = [trades EXCEPT ![e] = None]
        /\ handler' = IF trades[e] = None THEN Idle ELSE At("close")
      BY <1>5, TakeTypes DEF HandleBodySL, Take
  <2>2. CASE x # e
      BY <2>1, <2>2, OthersKept DEF At, TradeTypes
  <2>3. CASE x = e
      BY <2>1, <2>3 DEF At, InOrder, Handling, Idle, TradeTypes
  <2> QED
      BY <2>2, <2>3
<1>6. CASE CheckEntry \/ PassGates \/ AddBodySLWatch \/ Told
  <2>1. /\ UNCHANGED <<trades, position, stop, mishap>>
        /\ handler.pc \in {"notify", "gates", "watch", "tell"}
      BY <1>6 DEF CheckEntry, PassGates, AddBodySLWatch, Told, Goto
  <2>2. handler' = Idle \/ handler'.event = handler.event
      BY <1>6, AtAwait DEF CheckEntry, PassGates, AddBodySLWatch, Told, PCs, EntryPCs
  <2> QED
      BY <2>1, <2>2 DEF InOrder, Handling, EntryPCs
<1>7. CASE PlaceMarketEntry
  <2>1. /\ s \in Symbols /\ handler.pc = "open" /\ handler # Idle
        /\ handler' = Idle \/ (handler'.pc = "tp1" /\ handler'.event = handler.event)
        /\ UNCHANGED <<trades, stop>>
        /\ position' \in {position, [position EXCEPT ![s] = @ + 1]}
      BY <1>7, AtAwait DEF PlaceMarketEntry, Raises, PCs, EntryPCs
  <2>2. \/ mishap' = mishap /\ handler' # Idle
        \/ mishap' = [mishap EXCEPT ![s] = TRUE]
      BY <1>7, AtAwait DEF PlaceMarketEntry, Raises, Goto, PCs, EntryPCs
  <2>3. CASE x # s
      BY <2>1, <2>2, <2>3, OthersKept DEF TradeTypes
  <2>4. CASE x = s
      BY <2>1, <2>2, <2>4 DEF InOrder, Handling, EntryPCs, TradeTypes
  <2> QED
      BY <2>3, <2>4
<1>8. CASE PlaceTP("tp1", "tp2") \/ PlaceTP("tp2", "sl")
  <2>1. /\ s \in Symbols /\ handler.pc \in {"tp1", "tp2"} /\ handler # Idle
        /\ handler' = Idle \/ (handler'.pc \in {"tp2", "sl"} /\ handler'.event = handler.event)
        /\ UNCHANGED <<trades, position, stop>>
      BY <1>8, AtAwait DEF PlaceTP, Raises, PCs, EntryPCs
  <2>2. \/ mishap' = mishap /\ handler' # Idle
        \/ mishap' = [mishap EXCEPT ![s] = TRUE]
      BY <1>8, AtAwait DEF PlaceTP, Raises, Goto, PCs, EntryPCs
  <2>3. CASE x # s
      BY <2>1, <2>2, <2>3, OthersKept DEF TradeTypes
  <2>4. CASE x = s
      BY <2>1, <2>2, <2>4 DEF InOrder, Handling, EntryPCs, TradeTypes
  <2> QED
      BY <2>3, <2>4
<1>9. CASE PlaceDisasterSL
  <2>1. /\ s \in Symbols /\ handler.pc = "sl" /\ handler # Idle
        /\ handler' = Idle \/ (handler'.pc = "entered" /\ handler'.event = handler.event)
        /\ UNCHANGED position
      BY <1>9, AtAwait DEF PlaceDisasterSL, Raises, PCs, EntryPCs
  <2>2. \/ /\ handler'.pc = "entered"
           /\ stop' = [stop EXCEPT ![s] = "disaster"]
           /\ trades' = [trades EXCEPT ![s] = [id |-> entries[s], status |-> "open"]]
           /\ mishap' = [mishap EXCEPT ![s] = FALSE]
        \/ /\ mishap' = [mishap EXCEPT ![s] = TRUE]
           /\ stop' \in {stop, [stop EXCEPT ![s] = "disaster"]}
           /\ trades' = trades
      BY <1>9, AtAwait DEF PlaceDisasterSL, StopPlaced, Raises, PCs, EntryPCs
  <2>3. CASE x # s
      BY <2>1, <2>2, <2>3, OthersKept DEF TradeTypes
  <2>4. CASE x = s
    <3>2. CASE mishap'[s]
        BY <2>1, <2>4, <3>2, NothingToKeep
    <3>3. CASE ~mishap'[s]
      <4>1. /\ trades'[s].status = "open" /\ stop'[s] = "disaster"
            /\ trades'[s] = [id |-> entries[s], status |-> "open"]
          BY <2>1, <2>2, <3>3 DEF TradeTypes
      <4>2. entries[s] \in Ids
          BY <2>1 DEF Numbering, TradeTypes, Ids
      <4>3. trades'[s] # None
          BY <4>1, <4>2, LoopAssumption DEF Trades, LoopAssumption
      <4> QED
          BY <2>1, <2>4, <4>1, <4>3 DEF InOrder
    <3> QED
        BY <3>2, <3>3
  <2> QED
      BY <2>3, <2>4
<1>10. CASE AddTP1Watch
  <2>1. /\ handler.pc = "entered" /\ s \in Symbols
        /\ handler' = Idle \/ (handler'.pc = "watch" /\ handler'.event = handler.event)
        /\ UNCHANGED <<trades, position, stop>>
      BY <1>10, AtAwait DEF AddTP1Watch, PCs
  <2>2. mishap' = [mishap EXCEPT ![s] = @ \/ handler' = Idle]
      BY <1>10 DEF AddTP1Watch
  <2>3. CASE x # s
      BY <2>1, <2>2, <2>3, OthersKept DEF TradeTypes
  <2>4. CASE x = s
      BY <2>1, <2>2, <2>4 DEF InOrder, Handling, EntryPCs, TradeTypes
  <2> QED
      BY <2>3, <2>4
<1>11. CASE MoveStopToEntry
  <2>1. /\ s \in Symbols /\ handler.pc = "breakeven" /\ handler # Idle
        /\ handler' = Idle \/ (handler'.pc = "tell" /\ handler'.event = handler.event)
        /\ UNCHANGED <<position, trades>>
      BY <1>11, AtAwait DEF MoveStopToEntry, Raises, PCs
  <2>2. \/ stop' = [stop EXCEPT ![s] = "entry"] /\ mishap' = mishap
        \/ /\ mishap' = [mishap EXCEPT ![s] = TRUE]
           /\ stop' \in {stop, [stop EXCEPT ![s] = "entry"]}
      BY <1>11 DEF MoveStopToEntry, Raises
  <2>3. CASE x # s
      BY <2>1, <2>2, <2>3, OthersKept DEF TradeTypes
  <2>4. CASE x = s
      BY <2>1, <2>2, <2>4 DEF InOrder, Handling, EntryPCs, TradeTypes
  <2> QED
      BY <2>3, <2>4
<1>12. CASE ClosePosition
  <2>1. /\ s \in Symbols
        /\ handler' = Idle \/ handler'.event = handler.event
        /\ UNCHANGED trades
      BY <1>12, AtAwait DEF ClosePosition, Raises, PCs
  <2>2. /\ position' \in {position, [position EXCEPT ![s] = 0]}
        /\ stop' \in {stop, [stop EXCEPT ![s] = "none"]}
        /\ \/ mishap' = [mishap EXCEPT ![s] = TRUE]
           \/ mishap' = [mishap EXCEPT ![s] = FALSE] /\ position' = [position EXCEPT ![s] = 0]
      BY <1>12 DEF ClosePosition, Closed, Raises
  <2>3. CASE x # s
      BY <2>1, <2>2, <2>3, OthersKept, <1>12, AtAwait DEF TradeTypes
  <2>4. CASE x = s
      BY <2>1, <2>2, <2>4, NothingToKeep DEF TradeTypes
  <2> QED
      BY <2>3, <2>4
<1>13. ASSUME NEW y \in Symbols, ExchangeExit(y) PROVE InOrder(x)'
  <2>1. CASE x = y
      BY <1>13, <2>1, NothingToKeep DEF ExchangeExit, Closed, TradeTypes
  <2>2. CASE x # y
      BY <1>13, <2>2 DEF ExchangeExit, Closed, TradeTypes, InOrder, Handling
  <2> QED
      BY <2>1, <2>2
<1>14. Startup \/ FinishStartup \/ CheckMinBalance \/ ScannerNext \/ SentinelNext
           \/ UNCHANGED vars => UNCHANGED <<handler, trades, position, stop, mishap>>
    BY ScannerFrame, SentinelFrame DEF Startup, FinishStartup, CheckMinBalance, vars
<1> QED
    BY <1>1, <1>2, <1>3, <1>4, <1>5, <1>6, <1>7, <1>8, <1>9, <1>10, <1>11, <1>12, <1>13, <1>14
    DEF Next, EventLoopNext

LEMMA OrderAlways == Spec => []OrderInv
<1> QED
    BY OrderInit, OrderStep, TypesAlways, PTL DEF Spec

\* While no call fails and the process lives, no position on the exchange is
\* ever outside the loop's knowledge: it is tracked, being entered or closed.
THEOREM PositionsAreTracked == Spec => []PositionsTracked
<1>1. OrderInv => PositionsTracked
    BY DEF OrderInv, InOrder, PositionsTracked
<1> QED
    BY OrderAlways, <1>1, PTL

\* While no call fails, a tracked position has its stop, at the entry price once
\* TP1 was handled, whatever scans, entries and exits come between.
THEOREM TrackedAreProtected == Spec => []TrackedProtected
<1>1. OrderInv => TrackedProtected
    BY DEF OrderInv, InOrder, TrackedProtected
<1> QED
    BY OrderAlways, <1>1, PTL

-----------------------------------------------------------------------------
(* The loop uses the sentinel as Watches allows.                           *)

ArmedIs ==
    /\ Armed \subseteq Abstract!Kinds \X Symbols
    /\ \A s \in Symbols : /\ <<"ZONE_TOUCH", s>> \in Armed <=> zone_watches[s] # None
                          /\ <<"TP1_HIT", s>> \in Armed <=> tp1_watches[s] # None
                          /\ <<"BODY_SL", s>> \in Armed <=> body_sl_watches[s] # None

LEMMA ArmedPairs == ArmedIs /\ ArmedIs'
<1>1. ArmedIs
    BY DEF ArmedIs, Armed, Abstract!Kinds
<1>2. ArmedIs'
    BY DEF ArmedIs, Armed, Abstract!Kinds
<1> QED
    BY <1>1, <1>2

\* Registrations and removals of one symbol's watches.
LEMMA OneSymbolChanges ==
    ASSUME NEW s \in Symbols, UNCHANGED event_queue,
           \A x \in Symbols \ {s} : /\ zone_watches'[x] = zone_watches[x]
                                    /\ tp1_watches'[x] = tp1_watches[x]
                                    /\ body_sl_watches'[x] = body_sl_watches[x]
    PROVE  Abstract!Change(s)
<1> DEFINE kinds == {k \in Abstract!Kinds : <<k, s>> \in Armed'}
<1>1. \A w \in Abstract!Kinds \X Symbols :
          w \in Armed' <=> w \in {v \in Armed : v[2] # s} \cup (kinds \X {s})
  <2> TAKE w \in Abstract!Kinds \X Symbols
  <2>1. PICK k \in Abstract!Kinds, x \in Symbols : w = <<k, x>>
      OBVIOUS
  <2>2. CASE x = s
      BY <2>1, <2>2
  <2>3. CASE x # s
    <3>1. w \in Armed' <=> w \in Armed
        <4>1. /\ zone_watches'[x] = zone_watches[x] /\ tp1_watches'[x] = tp1_watches[x]
              /\ body_sl_watches'[x] = body_sl_watches[x]
            BY <2>3
        <4>2. k \in {"ZONE_TOUCH", "TP1_HIT", "BODY_SL"}
            BY DEF Abstract!Kinds
        <4>3. <<k, x>> \in Armed' <=> <<k, x>> \in Armed
          <5>1. CASE k = "ZONE_TOUCH"
              BY <4>1, <5>1, ArmedPairs DEF ArmedIs
          <5>2. CASE k = "TP1_HIT"
              BY <4>1, <5>2, ArmedPairs DEF ArmedIs
          <5>3. CASE k = "BODY_SL"
              BY <4>1, <5>3, ArmedPairs DEF ArmedIs
          <5> QED
              BY <4>2, <5>1, <5>2, <5>3
        <4> QED
            BY <2>1, <4>3
    <3> QED
        BY <2>1, <2>3, <3>1
  <2> QED
      BY <2>2, <2>3
<1>2. Armed' \subseteq Abstract!Kinds \X Symbols /\ Armed \subseteq Abstract!Kinds \X Symbols
    BY ArmedPairs DEF ArmedIs
<1>3. Armed' = {v \in Armed : v[2] # s} \cup (kinds \X {s})
    BY <1>1, <1>2
<1>4. kinds \in SUBSET Abstract!Kinds
    OBVIOUS
<1> QED
    BY <1>3, <1>4 DEF Abstract!Change, Queue

\* A queue that gets or loses an event, seen without the events' references.
LEMMA QueueGrows ==
    ASSUME NEW q \in Seq(Events), event_queue = q, NEW e \in Events, event_queue' = Append(q, e)
    PROVE  Queue' = Queue \o << <<e.type, e.symbol>> >>
<1>1. Queue \in Seq({<<x.type, x.symbol>> : x \in Events}) /\ Len(Queue) = Len(q)
    BY DEF Queue
<1>2. DOMAIN Queue' = 1 .. (Len(q) + 1)
    BY DEF Queue
<1> DEFINE longer == Queue \o << <<e.type, e.symbol>> >>
<1>3. DOMAIN longer = 1 .. (Len(q) + 1) /\ longer = [i \in 1 .. (Len(q) + 1) |-> longer[i]]
    BY <1>1
<1>4. \A i \in 1 .. (Len(q) + 1) : Queue'[i] = longer[i]
    BY <1>1 DEF Queue
<1> QED
    BY <1>2, <1>3, <1>4 DEF Queue

LEMMA TailShifts ==
    ASSUME NEW S, NEW p \in Seq(S), p # <<>>
    PROVE  Tail(p) = [i \in 1 .. (Len(p) - 1) |-> p[i + 1]]
<1>1. Tail(p) \in Seq(S) /\ Len(Tail(p)) = Len(p) - 1
    OBVIOUS
<1>2. Tail(p) = [i \in 1 .. (Len(p) - 1) |-> Tail(p)[i]]
    BY <1>1, LenProperties
<1>3. \A i \in 1 .. (Len(p) - 1) : Tail(p)[i] = p[i + 1]
    OBVIOUS
<1> QED
    BY <1>2, <1>3

LEMMA QueueShrinks ==
    ASSUME NEW q \in Seq(Events), event_queue = q, q # <<>>, event_queue' = Tail(q)
    PROVE  Queue # <<>> /\ Queue' = Tail(Queue)
<1>1. Queue \in Seq({<<x.type, x.symbol>> : x \in Events}) /\ Len(Queue) = Len(q) /\ Len(q) > 0
    BY DEF Queue
<1>2. Queue # <<>> /\ Tail(Queue) = [i \in 1 .. (Len(q) - 1) |-> Queue[i + 1]]
    BY <1>1, TailShifts
<1>3. Queue' = [i \in 1 .. (Len(q) - 1) |-> Queue[i + 1]]
    BY <1>1 DEF Queue
<1> QED
    BY <1>2, <1>3

\* One watch that fires is a set of watches that fires.
LEMMA OneFires ==
    ASSUME EventTypes, NEW w \in Armed, Armed' = Armed \ {w}, Queue' = Queue \o <<w>>
    PROVE  Abstract!Fire
<1>1. <<w>> \in Abstract!SetToSeqs({w})
  <2>1. Abstract!Cardinality({w}) = 1
    <3>1. Abstract!Cardinality({w}) = Cardinality({w})
        BY DEF Cardinality, Abstract!Cardinality
    <3> QED
        BY <3>1, FS_Singleton
  <2>2. <<w>> \in [1 .. 1 -> {w}] /\ \A i, j \in 1 .. 1 : i = j
      OBVIOUS
  <2> QED
      BY <2>1, <2>2 DEF Abstract!SetToSeqs
<1>2. {w} \in (SUBSET Armed) \ {{}}
    OBVIOUS
<1>3. \E fired \in (SUBSET Armed) \ {{}} :
          /\ Armed' = Armed \ fired
          /\ \E order \in Abstract!SetToSeqs(fired) : Queue' = Queue \o order
    BY <1>1, <1>2
<1> QED
    BY <1>3 DEF Abstract!Fire

\* A watch that fires is removed from the armed ones and its event queued.
LEMMA SentinelFires == EventTypes /\ SentinelNext => Abstract!Fire
<1> SUFFICES ASSUME EventTypes, SentinelNext PROVE Abstract!Fire
    OBVIOUS
<1>0. event_queue \in Seq(Events)
    BY DEF EventTypes
<1>1. ASSUME NEW s \in Symbols, FireZone(s) PROVE Abstract!Fire
  <2>1. [type |-> "ZONE_TOUCH", symbol |-> s, ref |-> zone_watches[s]] \in Events
      BY <1>1 DEF FireZone, Fire, EventTypes, Events
  <2>2. Queue' = Queue \o << <<"ZONE_TOUCH", s>> >>
      BY <1>0, <1>1, <2>1, QueueGrows DEF FireZone, Fire
  <2>3. <<"ZONE_TOUCH", s>> \in Armed /\ Armed' = Armed \ {<<"ZONE_TOUCH", s>>}
      BY <1>1 DEF FireZone, Fire, Armed, EventTypes
  <2> QED
      BY <2>2, <2>3, OneFires
<1>2. ASSUME NEW s \in Symbols, FireTP1(s) PROVE Abstract!Fire
  <2>1. [type |-> "TP1_HIT", symbol |-> s, ref |-> tp1_watches[s]] \in Events
      BY <1>2 DEF FireTP1, Fire, EventTypes, Events
  <2>2. Queue' = Queue \o << <<"TP1_HIT", s>> >>
      BY <1>0, <1>2, <2>1, QueueGrows DEF FireTP1, Fire
  <2>3. <<"TP1_HIT", s>> \in Armed /\ Armed' = Armed \ {<<"TP1_HIT", s>>}
      BY <1>2 DEF FireTP1, Fire, Armed, EventTypes
  <2> QED
      BY <2>2, <2>3, OneFires
<1>3. ASSUME NEW s \in Symbols, FireBodySL(s) PROVE Abstract!Fire
  <2>1. [type |-> "BODY_SL", symbol |-> s, ref |-> body_sl_watches[s]] \in Events
      BY <1>3 DEF FireBodySL, Fire, EventTypes, Events
  <2>2. Queue' = Queue \o << <<"BODY_SL", s>> >>
      BY <1>0, <1>3, <2>1, QueueGrows DEF FireBodySL, Fire
  <2>3. <<"BODY_SL", s>> \in Armed /\ Armed' = Armed \ {<<"BODY_SL", s>>}
      BY <1>3 DEF FireBodySL, Fire, Armed, EventTypes
  <2> QED
      BY <2>2, <2>3, OneFires
<1> QED
    BY <1>1, <1>2, <1>3 DEF SentinelNext

LEMMA AbstractInit == Init => Abstract!Init
<1> QED
    BY DEF Init, NoWatches, Armed, Queue, Abstract!Init

LEMMA AbstractStep == TypeOK /\ [Next]_vars => [Abstract!Next]_(Abstract!vars)
<1> SUFFICES ASSUME TypeOK, [Next]_vars PROVE [Abstract!Next]_(Abstract!vars)
    OBVIOUS
<1>0. EventTypes /\ ScanTypes /\ TradeTypes
    BY DEF TypeOK
<1> USE DEF watches
<1> DEFINE Same == UNCHANGED <<watches, event_queue>>
<1>s. Same => UNCHANGED Abstract!vars
    BY DEF Abstract!vars, Armed, Queue
<1>c. \A s \in Symbols : Abstract!Change(s) => Abstract!Next
    BY DEF Abstract!Next
<1>1. CASE Startup \/ FinishStartup \/ CheckMinBalance \/ StartScan \/ ScanFails
    BY <1>1, <1>s DEF Startup, FinishStartup, CheckMinBalance, StartScan, ScanFails
<1>2. CASE Stop
    BY <1>2 DEF Stop, Armed, Queue, Abstract!Next, Abstract!Forget
<1>3. ASSUME NEW zs \in ScanResults, ScanSymbol(zs) PROVE Abstract!Next
  <2>1. Head(scanner.todo) \in Symbols
      BY <1>0, <1>3, HeadAndTail DEF ScanSymbol, ScanTypes
  <2> QED
      BY <1>0, <1>3, <1>c, <2>1, OneSymbolChanges DEF ScanSymbol, EventTypes
<1>4. CASE AddNextZone
  <2>1. scanner.symbol \in Symbols
      BY <1>0, <1>4 DEF AddNextZone, ScanTypes
  <2> QED
      BY <1>0, <1>4, <1>c, <2>1, OneSymbolChanges DEF AddNextZone, EventTypes
<1>5. CASE SentinelNext
    BY <1>0, <1>5, SentinelFires DEF Abstract!Next
<1>6. CASE HandleZoneTouch \/ HandleTP1Hit \/ HandleBodySL
  <2>1. /\ event_queue \in Seq(Events) /\ event_queue # <<>>
        /\ event_queue' = Tail(event_queue) /\ UNCHANGED watches
      BY <1>0, <1>6 DEF HandleZoneTouch, HandleTP1Hit, HandleBodySL, Take, EventTypes
  <2>2. Queue # <<>> /\ Queue' = Tail(Queue) /\ Armed' = Armed
      BY <2>1, QueueShrinks DEF Armed
  <2> QED
      BY <2>2 DEF Abstract!Next, Abstract!Take
<1>7. CASE CheckEntry \/ PassGates \/ PlaceMarketEntry \/ PlaceTP("tp1", "tp2")
           \/ PlaceTP("tp2", "sl") \/ PlaceDisasterSL \/ MoveStopToEntry
           \/ ClosePosition \/ Told
    BY <1>7, <1>s DEF CheckEntry, PassGates, PlaceMarketEntry, PlaceTP, PlaceDisasterSL,
                      MoveStopToEntry, ClosePosition, Told, Raises, Goto
<1>8. CASE AddTP1Watch
  <2>1. handler.event.symbol \in Symbols
      BY <1>8, AtAwait DEF AddTP1Watch, PCs
  <2> QED
      BY <1>0, <1>8, <1>c, <2>1, OneSymbolChanges DEF AddTP1Watch, Goto, EventTypes
<1>9. CASE AddBodySLWatch
  <2>1. handler.event.symbol \in Symbols
      BY <1>9, AtAwait DEF AddBodySLWatch, PCs
  <2> QED
      BY <1>0, <1>9, <1>c, <2>1, OneSymbolChanges DEF AddBodySLWatch, Goto, EventTypes
<1>10. CASE (\E s \in Symbols : ExchangeExit(s)) \/ UNCHANGED vars
    BY <1>10, <1>s DEF ExchangeExit, vars
<1> QED
    BY <1>1, <1>2, <1>3, <1>4, <1>5, <1>6, <1>7, <1>8, <1>9, <1>10
    DEF Next, ScannerNext, EventLoopNext

\* The loop registers, removes and takes watches as the sentinel allows, and
\* meets no event but of a watch that fired once: detailed steps are the steps
\* of Watches or leave what it sees alone.
THEOREM LoopImplementsWatches == Spec => ImplementsWatches
<1> QED
    BY AbstractInit, AbstractStep, TypesAlways, PTL DEF Spec, ImplementsWatches, Abstract!Spec
=============================================================================
