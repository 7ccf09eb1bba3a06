------------------------------ MODULE Sentinel ------------------------------
(***************************************************************************)
(* The sentinel: watches per symbol, the price ticks that fire them, the   *)
(* 30-minute body-close check, the event queue, and the part of the Pyth   *)
(* feed it talks to (cached prices and tick callbacks).                    *)
(*                                                                         *)
(* Everything runs on one asyncio loop, so an action ends where the code   *)
(* suspends: _fire never does (the queue is unbounded), add_watch does     *)
(* while pyth.subscribe sends its message.  Symbols without a Pyth mapping *)
(* never tick and are left out.  The candle's open, high and low only      *)
(* choose a log line and are left out.  The watchlist of the constructor,  *)
(* which no caller passes, would be add_watch calls after the start.       *)
(***************************************************************************)
EXTENDS Integers, FiniteSets, Sequences, SequencesExt

CONSTANTS
    Symbols,       \* strategy symbols with a Pyth feed
    Prices,        \* prices a tick can carry
    ZoneArgs,      \* [bottom, top, direction] that callers register
    TP1Args,       \* [level, direction]
    SLArgs,        \* [level, direction]
    None,          \* no watch
    MaxQueue,      \* bound: events in the queue
    MaxCallbacks   \* bound: callbacks registered per symbol

\* 0 stands for the price before the first one.
Seen       == Prices \cup {0}
ZoneWatch  == [zone : ZoneArgs, prev_price : Seen]
TP1Watch   == [tp1 : TP1Args, prev_price : Seen]
BodySLWatch == [sl : SLArgs, candle_close : Seen]

ASSUME SentinelAssumption ==
    /\ IsFiniteSet(Symbols)
    /\ Prices \subseteq Nat \ {0}
    /\ None \notin ZoneWatch \cup TP1Watch \cup BodySLWatch
    /\ MaxQueue \in Nat /\ MaxCallbacks \in Nat

VARIABLES
    lifecycle,        \* off, on, or stopping: tasks cancelled, still connected
    zone_watches,     \* symbol -> None or the zone with prev_price
    tp1_watches,      \* symbol -> None or the level with prev_price
    body_sl_watches,  \* symbol -> None or the level with candle_close
    event_queue,      \* fired events, <<watch_type, symbol>>
    subscribed,       \* _subscribed_symbols
    subscribing,      \* symbol -> add_watch calls suspended in pyth.subscribe
    prices,           \* symbol -> the feed's cached price, 0 before the first
    callbacks         \* symbol -> tick callbacks registered with the feed

watches == <<zone_watches, tp1_watches, body_sl_watches>>
feed    == <<prices, callbacks>>
vars    == <<lifecycle, watches, event_queue, subscribed, subscribing, feed>>

TypeOK ==
    /\ lifecycle \in {"off", "on", "stopping"}
    /\ zone_watches \in [Symbols -> {None} \cup ZoneWatch]
    /\ tp1_watches \in [Symbols -> {None} \cup TP1Watch]
    /\ body_sl_watches \in [Symbols -> {None} \cup BodySLWatch]
    /\ event_queue \in Seq({"ZONE_TOUCH", "TP1_HIT", "BODY_SL"} \X Symbols)
    /\ subscribed \subseteq Symbols
    /\ subscribing \in [Symbols -> 0 .. MaxCallbacks]
    /\ prices \in [Symbols -> Seen]
    /\ callbacks \in [Symbols -> 0 .. MaxCallbacks]

Init ==
    /\ lifecycle = "off"
    /\ zone_watches = [s \in Symbols |-> None]
    /\ tp1_watches = [s \in Symbols |-> None]
    /\ body_sl_watches = [s \in Symbols |-> None]
    /\ event_queue = <<>>
    /\ subscribed = {}
    /\ subscribing = [s \in Symbols |-> 0]
    /\ prices = [s \in Symbols |-> 0]
    /\ callbacks = [s \in Symbols |-> 0]

-----------------------------------------------------------------------------
(* start and stop.  Watches, queue and callbacks outlive them.             *)

\* The connection opened and the tasks run; if it cannot be opened, start
\* raises and nothing changes.
Start ==
    /\ lifecycle = "off"
    /\ lifecycle' = "on"
    /\ UNCHANGED <<watches, event_queue, subscribed, subscribing, feed>>

\* The tasks are cancelled first; ticks still arrive meanwhile.
Stop ==
    /\ lifecycle = "on"
    /\ lifecycle' = "stopping"
    /\ UNCHANGED <<watches, event_queue, subscribed, subscribing, feed>>

Disconnected ==
    /\ lifecycle = "stopping"
    /\ lifecycle' = "off"
    /\ UNCHANGED <<watches, event_queue, subscribed, subscribing, feed>>

-----------------------------------------------------------------------------
(* add_watch and remove_watch.                                             *)

\* The tail of add_watch: the first watch of a symbol appends a callback and
\* suspends until the subscribe message is sent; only then is it subscribed.
\* With the WebSocket down nothing is sent and nothing suspends.
Subscribe(symbol) ==
    IF symbol \in subscribed
    THEN UNCHANGED <<subscribed, subscribing, callbacks>>
    ELSE /\ callbacks[symbol] < MaxCallbacks
         /\ callbacks' = [callbacks EXCEPT ![symbol] = @ + 1]
         /\ \/ /\ subscribing' = [subscribing EXCEPT ![symbol] = @ + 1]
               /\ UNCHANGED subscribed
            \/ /\ subscribed' = subscribed \cup {symbol}
               /\ UNCHANGED subscribing

\* The suspended add_watch resumes: the message was sent, or sending raised.
SubscribeReturns(symbol) ==
    /\ subscribing[symbol] > 0
    /\ subscribing' = [subscribing EXCEPT ![symbol] = @ - 1]
    /\ subscribed' \in {subscribed, subscribed \cup {symbol}}
    /\ UNCHANGED <<lifecycle, watches, event_queue, feed>>

AddZoneWatch(symbol, zone) ==
    /\ zone_watches' = [zone_watches EXCEPT ![symbol] = [zone |-> zone, prev_price |-> 0]]
    /\ Subscribe(symbol)
    /\ UNCHANGED <<lifecycle, tp1_watches, body_sl_watches, event_queue, prices>>

AddTP1Watch(symbol, tp1) ==
    /\ tp1_watches' = [tp1_watches EXCEPT ![symbol] = [tp1 |-> tp1, prev_price |-> 0]]
    /\ Subscribe(symbol)
    /\ UNCHANGED <<lifecycle, zone_watches, body_sl_watches, event_queue, prices>>

\* Fault: a cache miss is stored as it is.
CandleStartRaw(symbol) == IF prices[symbol] = 0 THEN None ELSE prices[symbol]
\* The candle starts from the feed's cached price, 0.0 if there is none.
CandleStart(symbol) == prices[symbol]

AddBodySLWatch(symbol, sl) ==
    /\ body_sl_watches' =
           [body_sl_watches EXCEPT ![symbol] = [sl |-> sl, candle_close |-> CandleStart(symbol)]]
    /\ Subscribe(symbol)
    /\ UNCHANGED <<lifecycle, zone_watches, tp1_watches, event_queue, prices>>

\* Fault: the feed drops the callback too, the subscribed set keeps the symbol.
UnsubscribeKeepingMark(symbol) ==
    /\ callbacks' = [callbacks EXCEPT ![symbol] = 0]
    /\ UNCHANGED subscribed
\* The symbol leaves the subscribed set; the feed keeps its callbacks.
Unsubscribe(symbol) ==
    /\ subscribed' = subscribed \ {symbol}
    /\ UNCHANGED callbacks

\* Removes the watches of every kind.
RemoveWatch(symbol) ==
    /\ {zone_watches[symbol], tp1_watches[symbol], body_sl_watches[symbol]} # {None}
    /\ zone_watches' = [zone_watches EXCEPT ![symbol] = None]
    /\ tp1_watches' = [tp1_watches EXCEPT ![symbol] = None]
    /\ body_sl_watches' = [body_sl_watches EXCEPT ![symbol] = None]
    /\ Unsubscribe(symbol)
    /\ UNCHANGED <<lifecycle, event_queue, subscribing, prices>>

-----------------------------------------------------------------------------
(* Price ticks.                                                            *)

\* Price enters the zone from the side its direction names, or the first tick
\* the watch sees is already inside.
Touches(watch, price) ==
    /\ watch.zone.bottom <= price /\ price <= watch.zone.top
    /\ \/ watch.zone.direction = "long"  /\ watch.prev_price > watch.zone.top
       \/ watch.zone.direction = "short" /\ watch.prev_price < watch.zone.bottom
       \/ watch.prev_price = 0

\* The tick on which price crosses the level; the first tick never does.
Crosses(watch, price) ==
    /\ watch.prev_price # 0
    /\ \/ /\ watch.tp1.direction = "long"
          /\ watch.prev_price < watch.tp1.level /\ price >= watch.tp1.level
       \/ /\ watch.tp1.direction = "short"
          /\ watch.prev_price > watch.tp1.level /\ price <= watch.tp1.level

ZoneFires(symbol, price) ==
    zone_watches[symbol] # None /\ Touches(zone_watches[symbol], price)
TP1Fires(symbol, price) ==
    tp1_watches[symbol] # None /\ Crosses(tp1_watches[symbol], price)

\* Fault: the watch survives its event.
KeptAfterTick(watch, fires, price) ==
    IF watch = None THEN None ELSE [watch EXCEPT !.prev_price = IF fires THEN @ ELSE price]
\* A watch that fired is deleted, one that did not remembers the tick.
AfterTick(watch, fires, price) ==
    IF watch = None \/ fires THEN None ELSE [watch EXCEPT !.prev_price = price]

\* Fault: the candle keeps its lowest price, so a wick decides.
CandleLow(watch, price) ==
    IF watch = None THEN None
    ELSE [watch EXCEPT !.candle_close = IF @ # 0 /\ @ < price THEN @ ELSE price]
CandleAfterTick(watch, price) ==
    IF watch = None THEN None ELSE [watch EXCEPT !.candle_close = price]

\* _handle_message and _on_price_tick.  A second callback of the symbol sees
\* prev_price = price and changes nothing more.
Tick(symbol, price) ==
    LET touched == ZoneFires(symbol, price)
        crossed == TP1Fires(symbol, price)
        fired   == (IF touched THEN << <<"ZONE_TOUCH", symbol>> >> ELSE <<>>)
                   \o (IF crossed THEN << <<"TP1_HIT", symbol>> >> ELSE <<>>)
    IN  /\ lifecycle # "off"
        /\ prices' = [prices EXCEPT ![symbol] = price]
        /\ IF callbacks[symbol] = 0
           THEN UNCHANGED <<watches, event_queue>>
           ELSE /\ Len(event_queue \o fired) <= MaxQueue
                /\ event_queue' = event_queue \o fired
                /\ zone_watches' =
                       [zone_watches EXCEPT ![symbol] = AfterTick(@, touched, price)]
                /\ tp1_watches' =
                       [tp1_watches EXCEPT ![symbol] = AfterTick(@, crossed, price)]
                /\ body_sl_watches' =
                       [body_sl_watches EXCEPT ![symbol] = CandleAfterTick(@, price)]
        /\ UNCHANGED <<lifecycle, subscribed, subscribing, callbacks>>

\* get_price_rest fills the cache while no tick has arrived; no callback runs.
RestPrice(symbol, price) ==
    /\ prices[symbol] = 0
    /\ prices' = [prices EXCEPT ![symbol] = price]
    /\ UNCHANGED <<lifecycle, watches, event_queue, subscribed, subscribing, callbacks>>

-----------------------------------------------------------------------------
(* The 30-minute body-close check.                                         *)

\* Fault: the comparison for short trades is the one for long trades.
BreachedBelow(watch) == watch.candle_close # 0 /\ watch.candle_close < watch.sl.level
\* A candle without a price is skipped; otherwise only its close counts.
Breached(watch) ==
    /\ watch.candle_close # 0
    /\ \/ watch.sl.direction = "long"  /\ watch.candle_close < watch.sl.level
       \/ watch.sl.direction = "short" /\ watch.candle_close > watch.sl.level

BreachedSymbols == {s \in Symbols : body_sl_watches[s] # None /\ Breached(body_sl_watches[s])}

\* All watches are checked without suspending; those that held start their
\* next candle from its close, which changes nothing kept here.
HalfHour ==
    /\ lifecycle = "on"
    /\ BreachedSymbols # {}
    /\ Len(event_queue) + Cardinality(BreachedSymbols) <= MaxQueue
    /\ \E order \in SetToSeqs(BreachedSymbols) :
           event_queue' = event_queue \o [i \in DOMAIN order |-> <<"BODY_SL", order[i]>>]
    /\ body_sl_watches' =
           [s \in Symbols |-> IF s \in BreachedSymbols THEN None ELSE body_sl_watches[s]]
    /\ UNCHANGED <<lifecycle, zone_watches, tp1_watches, subscribed, subscribing, feed>>

\* The consumer's get_event.
GetEvent ==
    /\ event_queue # <<>>
    /\ event_queue' = Tail(event_queue)
    /\ UNCHANGED <<lifecycle, watches, subscribed, subscribing, feed>>

OwnerNext ==
    \E s \in Symbols :
        \/ \E zone \in ZoneArgs : AddZoneWatch(s, zone)
        \/ \E tp1 \in TP1Args : AddTP1Watch(s, tp1)
        \/ \E sl \in SLArgs : AddBodySLWatch(s, sl)
        \/ RemoveWatch(s)
        \/ SubscribeReturns(s)

FeedNext ==
    \E s \in Symbols, p \in Prices : Tick(s, p) \/ RestPrice(s, p)

Next == Start \/ Stop \/ Disconnected \/ OwnerNext \/ FeedNext \/ HalfHour \/ GetEvent

Spec == Init /\ [][Next]_vars

\* While the sentinel is on, _body_sl_loop wakes at every boundary and the event
\* loop keeps taking events.
FairSpec == Spec /\ WF_vars(HalfHour) /\ WF_vars(lifecycle = "on" /\ GetEvent)

-----------------------------------------------------------------------------
(* Properties.                                                             *)

\* The kinds and symbols that have a watch.
Armed == {<<"ZONE_TOUCH", s>> : s \in {x \in Symbols : zone_watches[x] # None}}
         \cup {<<"TP1_HIT", s>> : s \in {x \in Symbols : tp1_watches[x] # None}}
         \cup {<<"BODY_SL", s>> : s \in {x \in Symbols : body_sl_watches[x] # None}}

Abstract == INSTANCE Watches WITH armed <- Armed, events <- event_queue

\* Every event comes from a registered watch and consumes it; no tick or
\* boundary fires a watch twice, whatever was subscribed twice.
ImplementsWatches == Abstract!Spec

\* A watch never works from an old price: what it remembers is the feed's
\* latest price or nothing yet, through every removal and re-subscription.
WatchesFollowFeed ==
    \A s \in Symbols :
        /\ zone_watches[s] # None => zone_watches[s].prev_price \in {0, prices[s]}
        /\ tp1_watches[s] # None => tp1_watches[s].prev_price \in {0, prices[s]}
        /\ body_sl_watches[s] # None => body_sl_watches[s].candle_close \in {0, prices[s]}

BeyondSL(sl, price) ==
    \/ sl.direction = "long"  /\ price < sl.level
    \/ sl.direction = "short" /\ price > sl.level

\* A wick never closes a trade: a body-SL watch is consumed at a boundary only
\* while the feed's price is beyond its level.
OnlyBodyCloseFires ==
    [][HalfHour => \A s \in Symbols :
           body_sl_watches'[s] # body_sl_watches[s]
               => BeyondSL(body_sl_watches[s].sl, prices[s])]_vars

\* A body-SL watch cannot sit beyond its level for ever: once a price has been
\* seen, the price returns, the watch fires or the sentinel is stopped.
BodySLEventuallyFires ==
    \A s \in Symbols, sl \in SLArgs :
        (/\ body_sl_watches[s] # None
         /\ body_sl_watches[s].sl = sl
         /\ body_sl_watches[s].candle_close # 0
         /\ BeyondSL(sl, prices[s]))
        ~> \/ body_sl_watches[s] = None
           \/ body_sl_watches[s].sl # sl
           \/ body_sl_watches[s].candle_close = 0
           \/ ~BeyondSL(sl, prices[s])
           \/ lifecycle # "on"
=============================================================================
