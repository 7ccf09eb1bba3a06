-------------------------- MODULE Sentinel_proofs --------------------------
(***************************************************************************)
(* Proofs about the sentinel, for any symbols, prices, watches and bounds: *)
(* what a watch remembers is the feed's price, only a close fires a        *)
(* body-SL watch, and the sentinel implements Watches.                     *)
(***************************************************************************)
EXTENDS Sentinel, FiniteSetTheorems, SequenceTheorems, TLAPS

Kinds  == {"ZONE_TOUCH", "TP1_HIT", "BODY_SL"}
Events == Kinds \X Symbols

\* A symbol that is subscribed or has a watch has a callback, and every call
\* that waits registered one: without it the ticks would pass the watches by.
Heard ==
    \A s \in Symbols :
        /\ subscribing[s] <= callbacks[s]
        /\ \/ s \in subscribed
           \/ zone_watches[s] # None \/ tp1_watches[s] # None \/ body_sl_watches[s] # None
           => callbacks[s] > 0

\* The inductive invariant.
FeedInv == TypeOK /\ Heard /\ WatchesFollowFeed

LEMMA FeedInit == Init => FeedInv
<1> SUFFICES ASSUME Init PROVE FeedInv
    OBVIOUS
<1>1. TypeOK
    BY SentinelAssumption DEF Init, TypeOK, Seen, SentinelAssumption
<1>2. Heard /\ WatchesFollowFeed
    BY DEF Init, Heard, WatchesFollowFeed
<1> QED
    BY <1>1, <1>2 DEF FeedInv

-----------------------------------------------------------------------------
(* Registrations and removals.                                             *)

\* The tail of add_watch leaves the symbol with a callback.
LEMMA SubscribeKeeps ==
    ASSUME TypeOK, Heard, NEW s \in Symbols, Subscribe(s)
    PROVE  /\ subscribed' \subseteq Symbols
           /\ subscribing' \in [Symbols -> 0 .. MaxCallbacks]
           /\ callbacks' \in [Symbols -> 0 .. MaxCallbacks]
           /\ \A x \in Symbols : subscribing'[x] <= callbacks'[x]
           /\ \A x \in Symbols : x \in subscribed' \/ callbacks[x] > 0 => callbacks'[x] > 0
           /\ callbacks'[s] > 0
<1> USE SentinelAssumption DEF SentinelAssumption, TypeOK, Heard
<1>1. CASE s \in subscribed
    BY <1>1 DEF Subscribe
<1>2. CASE s \notin subscribed
  <2>1. /\ callbacks' = [callbacks EXCEPT ![s] = @ + 1]
        /\ callbacks[s] + 1 \in 0 .. MaxCallbacks /\ callbacks[s] + 1 > 0
        /\ subscribing[s] + 1 <= callbacks[s] + 1
      BY <1>2 DEF Subscribe
  <2>2. /\ callbacks' \in [Symbols -> 0 .. MaxCallbacks]
        /\ callbacks'[s] = callbacks[s] + 1
        /\ \A x \in Symbols : callbacks'[x] >= callbacks[x]
      BY <2>1
  <2>3. CASE subscribing' = [subscribing EXCEPT ![s] = @ + 1] /\ UNCHANGED subscribed
    <3>1. subscribing[s] + 1 \in 0 .. MaxCallbacks
        BY <2>1
    <3> QED
        BY <2>1, <2>2, <2>3, <3>1
  <2>4. CASE subscribed' = subscribed \cup {s} /\ UNCHANGED subscribing
      BY <2>1, <2>2, <2>4
  <2> QED
      BY <1>2, <2>3, <2>4 DEF Subscribe
<1> QED
    BY <1>1, <1>2

\* What add_watch stores is nothing yet, or the feed's price.
LEMMA AddKeeps ==
    ASSUME FeedInv, NEW s \in Symbols, Subscribe(s), UNCHANGED <<lifecycle, event_queue, prices>>,
           /\ zone_watches' \in [Symbols -> {None} \cup ZoneWatch]
           /\ tp1_watches' \in [Symbols -> {None} \cup TP1Watch]
           /\ body_sl_watches' \in [Symbols -> {None} \cup BodySLWatch],
           \A x \in Symbols \ {s} : /\ zone_watches'[x] = zone_watches[x]
                                    /\ tp1_watches'[x] = tp1_watches[x]
                                    /\ body_sl_watches'[x] = body_sl_watches[x],
           /\ zone_watches'[s] = zone_watches[s] \/ zone_watches'[s].prev_price = 0
           /\ tp1_watches'[s] = tp1_watches[s] \/ tp1_watches'[s].prev_price = 0
           /\ \/ body_sl_watches'[s] = body_sl_watches[s]
              \/ body_sl_watches'[s].candle_close = prices[s]
    PROVE  FeedInv'
<1>1. TypeOK'
    BY SubscribeKeeps DEF FeedInv, TypeOK
<1>2. Heard'
    BY SubscribeKeeps DEF FeedInv, Heard
<1>3. WatchesFollowFeed'
    BY DEF FeedInv, WatchesFollowFeed
<1> QED
    BY <1>1, <1>2, <1>3 DEF FeedInv

LEMMA OwnerKeeps == FeedInv /\ OwnerNext => FeedInv'
<1> SUFFICES ASSUME FeedInv, NEW s \in Symbols,
                    \/ \E zone \in ZoneArgs : AddZoneWatch(s, zone)
                    \/ \E tp1 \in TP1Args : AddTP1Watch(s, tp1)
                    \/ \E sl \in SLArgs : AddBodySLWatch(s, sl)
                    \/ RemoveWatch(s)
                    \/ SubscribeReturns(s)
             PROVE  FeedInv'
    BY DEF OwnerNext
<1> USE SentinelAssumption DEF SentinelAssumption, Seen
<1>0. TypeOK /\ Heard /\ WatchesFollowFeed
    BY DEF FeedInv
<1>1. ASSUME NEW zone \in ZoneArgs, AddZoneWatch(s, zone) PROVE FeedInv'
  <2>1. [zone |-> zone, prev_price |-> 0] \in ZoneWatch
      BY DEF ZoneWatch
  <2> QED
      BY <1>0, <1>1, <2>1, AddKeeps DEF AddZoneWatch, TypeOK
<1>2. ASSUME NEW tp1 \in TP1Args, AddTP1Watch(s, tp1) PROVE FeedInv'
  <2>1. [tp1 |-> tp1, prev_price |-> 0] \in TP1Watch
      BY DEF TP1Watch
  <2> QED
      BY <1>0, <1>2, <2>1, AddKeeps DEF AddTP1Watch, TypeOK
<1>3. ASSUME NEW sl \in SLArgs, AddBodySLWatch(s, sl) PROVE FeedInv'
  <2>1. [sl |-> sl, candle_close |-> prices[s]] \in BodySLWatch
      BY <1>0 DEF BodySLWatch, TypeOK
  <2> QED
      BY <1>0, <1>3, <2>1, AddKeeps DEF AddBodySLWatch, CandleStart, TypeOK
<1>4. CASE RemoveWatch(s)
  <2>1. TypeOK'
      BY <1>0, <1>4 DEF RemoveWatch, Unsubscribe, TypeOK
  <2>2. Heard'
      BY <1>0, <1>4 DEF RemoveWatch, Unsubscribe, Heard, TypeOK
  <2>3. WatchesFollowFeed'
      BY <1>0, <1>4 DEF RemoveWatch, WatchesFollowFeed, TypeOK
  <2> QED
      BY <2>1, <2>2, <2>3 DEF FeedInv
<1>5. CASE SubscribeReturns(s)
  <2>1. /\ subscribing[s] - 1 \in 0 .. MaxCallbacks /\ subscribing[s] > 0
        /\ subscribing' = [subscribing EXCEPT ![s] = @ - 1]
        /\ subscribed' \subseteq subscribed \cup {s}
        /\ UNCHANGED <<lifecycle, watches, event_queue, feed>>
      BY <1>0, <1>5 DEF SubscribeReturns, TypeOK
  <2>2. TypeOK'
      BY <1>0, <2>1 DEF TypeOK, watches, feed
  <2>3. Heard'
      BY <1>0, <2>1 DEF Heard, TypeOK, watches, feed
  <2>4. WatchesFollowFeed'
      BY <1>0, <2>1 DEF WatchesFollowFeed, watches, feed
  <2> QED
      BY <2>2, <2>3, <2>4 DEF FeedInv
<1> QED
    BY <1>1, <1>2, <1>3, <1>4, <1>5

-----------------------------------------------------------------------------
(* Ticks and the half hour.                                                *)

\* What a tick leaves of each kind of watch: nothing, or the watch with its price.
LEMMA TickLeaves ==
    ASSUME TypeOK, NEW x \in Symbols, NEW price \in Prices, NEW fires \in BOOLEAN
    PROVE  /\ LET z == AfterTick(zone_watches[x], fires, price)
              IN  /\ z \in {None} \cup ZoneWatch /\ (z # None => z.prev_price = price)
                  /\ z # None <=> zone_watches[x] # None /\ ~fires
           /\ LET t == AfterTick(tp1_watches[x], fires, price)
              IN  /\ t \in {None} \cup TP1Watch /\ (t # None => t.prev_price = price)
                  /\ t # None <=> tp1_watches[x] # None /\ ~fires
           /\ LET b == CandleAfterTick(body_sl_watches[x], price)
              IN  /\ b \in {None} \cup BodySLWatch /\ (b # None => b.candle_close = price)
                  /\ b # None <=> body_sl_watches[x] # None
<1> USE SentinelAssumption DEF SentinelAssumption, TypeOK, Seen
<1>1. ASSUME zone_watches[x] # None
      PROVE  LET w == [zone_watches[x] EXCEPT !.prev_price = price]
             IN  w \in ZoneWatch /\ w.prev_price = price
    BY <1>1 DEF ZoneWatch
<1>2. ASSUME tp1_watches[x] # None
      PROVE  LET w == [tp1_watches[x] EXCEPT !.prev_price = price]
             IN  w \in TP1Watch /\ w.prev_price = price
    BY <1>2 DEF TP1Watch
<1>3. ASSUME body_sl_watches[x] # None
      PROVE  LET w == [body_sl_watches[x] EXCEPT !.candle_close = price]
             IN  w \in BodySLWatch /\ w.candle_close = price
    BY <1>3 DEF BodySLWatch
<1>4. None \notin ZoneWatch /\ None \notin TP1Watch /\ None \notin BodySLWatch
    OBVIOUS
<1> QED
    BY <1>1, <1>2, <1>3, <1>4 DEF AfterTick, CandleAfterTick

\* The events of a tick.
Fired(x, price) ==
    (IF ZoneFires(x, price) THEN << <<"ZONE_TOUCH", x>> >> ELSE <<>>)
    \o (IF TP1Fires(x, price) THEN << <<"TP1_HIT", x>> >> ELSE <<>>)

LEMMA TickFrame ==
    ASSUME FeedInv, NEW x \in Symbols, NEW price \in Prices, Tick(x, price)
    PROVE  /\ prices' = [prices EXCEPT ![x] = price]
           /\ UNCHANGED <<lifecycle, subscribed, subscribing, callbacks>>
           /\ \/ callbacks[x] = 0 /\ UNCHANGED <<watches, event_queue>>
              \/ /\ event_queue' = event_queue \o Fired(x, price)
                 /\ zone_watches' = [zone_watches EXCEPT ![x] =
                                        AfterTick(@, ZoneFires(x, price), price)]
                 /\ tp1_watches' = [tp1_watches EXCEPT ![x] =
                                        AfterTick(@, TP1Fires(x, price), price)]
                 /\ body_sl_watches' = [body_sl_watches EXCEPT ![x] =
                                        CandleAfterTick(@, price)]
<1> QED
    BY DEF Tick, Fired

LEMMA FiredTyped ==
    ASSUME NEW x \in Symbols, NEW price
    PROVE  Fired(x, price) \in Seq(Events) /\ ZoneFires(x, price) \in BOOLEAN
           /\ TP1Fires(x, price) \in BOOLEAN
<1>1. <<"ZONE_TOUCH", x>> \in Events /\ <<"TP1_HIT", x>> \in Events
    BY DEF Events, Kinds
<1> QED
    BY <1>1 DEF Fired, ZoneFires, TP1Fires, Touches, Crosses

LEMMA TickKeeps ==
    ASSUME FeedInv, NEW x \in Symbols, NEW price \in Prices, Tick(x, price)
    PROVE  FeedInv'
<1>0. TypeOK /\ Heard /\ WatchesFollowFeed
    BY DEF FeedInv
<1>a. prices' = [prices EXCEPT ![x] = price] /\ prices \in [Symbols -> Seen]
    BY <1>0, TickFrame DEF TypeOK
<1>1. prices' \in [Symbols -> Seen]
    BY <1>a DEF Seen
<1>2. CASE callbacks[x] = 0 /\ UNCHANGED <<watches, event_queue>>
  <2>1. zone_watches[x] = None /\ tp1_watches[x] = None /\ body_sl_watches[x] = None
      BY <1>0, <1>2 DEF Heard
  <2>2. TypeOK'
      BY <1>0, <1>1, <1>2, TickFrame DEF TypeOK, watches
  <2>3. Heard'
      BY <1>0, <1>2, TickFrame DEF Heard, watches
  <2>4. WatchesFollowFeed'
      BY <1>0, <1>2, <2>1, TickFrame DEF WatchesFollowFeed, watches, TypeOK
  <2> QED
      BY <2>2, <2>3, <2>4 DEF FeedInv
<1>3. CASE /\ event_queue' = event_queue \o Fired(x, price)
           /\ zone_watches' = [zone_watches EXCEPT ![x] = AfterTick(@, ZoneFires(x, price), price)]
           /\ tp1_watches' = [tp1_watches EXCEPT ![x] = AfterTick(@, TP1Fires(x, price), price)]
           /\ body_sl_watches' = [body_sl_watches EXCEPT ![x] = CandleAfterTick(@, price)]
  <2> DEFINE z == AfterTick(zone_watches[x], ZoneFires(x, price), price)
             t == AfterTick(tp1_watches[x], TP1Fires(x, price), price)
             b == CandleAfterTick(body_sl_watches[x], price)
  <2>1. /\ z \in {None} \cup ZoneWatch /\ (z # None => z.prev_price = price)
        /\ t \in {None} \cup TP1Watch /\ (t # None => t.prev_price = price)
        /\ b \in {None} \cup BodySLWatch /\ (b # None => b.candle_close = price)
        /\ z # None => zone_watches[x] # None
        /\ t # None => tp1_watches[x] # None
        /\ b # None => body_sl_watches[x] # None
      BY <1>0, TickLeaves, FiredTyped
  <2>2. /\ zone_watches' = [zone_watches EXCEPT ![x] = z]
        /\ tp1_watches' = [tp1_watches EXCEPT ![x] = t]
        /\ body_sl_watches' = [body_sl_watches EXCEPT ![x] = b]
      BY <1>3
  <2> HIDE DEF z, t, b
  <2>3. event_queue' \in Seq(Events)
      BY <1>0, <1>3, FiredTyped DEF TypeOK, Events, Kinds
  <2>4. TypeOK'
      BY <1>0, <1>1, <2>1, <2>2, <2>3, TickFrame DEF TypeOK, Events, Kinds
  <2>5. Heard'
      BY <1>0, <2>1, <2>2, TickFrame DEF Heard, TypeOK
  <2>6. WatchesFollowFeed'
    <3> SUFFICES ASSUME NEW s \in Symbols
                 PROVE  /\ zone_watches'[s] # None
                               => zone_watches'[s].prev_price \in {0, prices'[s]}
                        /\ tp1_watches'[s] # None
                               => tp1_watches'[s].prev_price \in {0, prices'[s]}
                        /\ body_sl_watches'[s] # None
                               => body_sl_watches'[s].candle_close \in {0, prices'[s]}
        BY DEF WatchesFollowFeed
    <3>1. CASE s = x
      <4>1. /\ zone_watches'[s] = z /\ tp1_watches'[s] = t /\ body_sl_watches'[s] = b
            /\ prices'[s] = price
          BY <1>0, <1>a, <2>2, <3>1 DEF TypeOK
      <4> QED
          BY <2>1, <4>1
    <3>2. CASE s # x
      <4>1. /\ zone_watches'[s] = zone_watches[s] /\ tp1_watches'[s] = tp1_watches[s]
            /\ body_sl_watches'[s] = body_sl_watches[s] /\ prices'[s] = prices[s]
          BY <1>0, <1>a, <2>2, <3>2 DEF TypeOK
      <4> QED
          BY <1>0, <4>1 DEF WatchesFollowFeed
    <3> QED
        BY <3>1, <3>2
  <2> QED
      BY <2>4, <2>5, <2>6 DEF FeedInv
<1> QED
    BY <1>2, <1>3, TickFrame

\* An order of the breached symbols, as events.
SLEvents(order) == [i \in DOMAIN order |-> <<"BODY_SL", order[i]>>]

LEMMA HalfHourOrder ==
    ASSUME HalfHour
    PROVE  \E order \in [1 .. Cardinality(BreachedSymbols) -> BreachedSymbols] :
               /\ event_queue' = event_queue \o SLEvents(order)
               /\ \A i, j \in 1 .. Cardinality(BreachedSymbols) : i # j => order[i] # order[j]
               /\ SLEvents(order) \in Seq(Events)
<1>1. PICK order \in SetToSeqs(BreachedSymbols) : event_queue' = event_queue \o SLEvents(order)
    BY DEF HalfHour, SLEvents
<1>2. /\ order \in [1 .. Cardinality(BreachedSymbols) -> BreachedSymbols]
      /\ \A i, j \in 1 .. Cardinality(BreachedSymbols) : i # j => order[i] # order[j]
    BY DEF SetToSeqs
<1>3. BreachedSymbols \subseteq Symbols
    BY DEF BreachedSymbols
<1>4. Cardinality(BreachedSymbols) \in Nat
    BY <1>3, FS_Subset, FS_CardinalityType, SentinelAssumption DEF SentinelAssumption
<1>5. SLEvents(order) \in Seq(Events)
    BY <1>2, <1>3, <1>4 DEF SLEvents, Events, Kinds
<1> QED
    BY <1>1, <1>2, <1>5

LEMMA HalfHourKeeps == FeedInv /\ HalfHour => FeedInv'
<1> SUFFICES ASSUME FeedInv, HalfHour PROVE FeedInv'
    OBVIOUS
<1>0. TypeOK /\ Heard /\ WatchesFollowFeed
    BY DEF FeedInv
<1>a. event_queue \in Seq(Events)
    BY <1>0 DEF TypeOK, Events, Kinds
<1>1. event_queue' \in Seq(Events)
  <2>1. PICK e \in Seq(Events) : event_queue' = event_queue \o e
      BY HalfHourOrder
  <2> QED
      BY <1>a, <2>1
<1>2. /\ body_sl_watches' \in [Symbols -> {None} \cup BodySLWatch]
      /\ \A x \in Symbols : body_sl_watches'[x] \in {None, body_sl_watches[x]}
      /\ UNCHANGED <<lifecycle, zone_watches, tp1_watches, subscribed, subscribing, feed>>
    BY <1>0 DEF HalfHour, TypeOK
<1>3. TypeOK'
    BY <1>0, <1>1, <1>2 DEF TypeOK, feed, Events, Kinds
<1>4. Heard'
    BY <1>0, <1>2 DEF Heard, feed
<1>5. WatchesFollowFeed'
    BY <1>0, <1>2 DEF WatchesFollowFeed, feed
<1> QED
    BY <1>3, <1>4, <1>5 DEF FeedInv

LEMMA FeedStep == FeedInv /\ [Next]_vars => FeedInv'
<1> SUFFICES ASSUME FeedInv, [Next]_vars PROVE FeedInv'
    OBVIOUS
<1>0. TypeOK /\ Heard /\ WatchesFollowFeed
    BY DEF FeedInv
<1>1. CASE Start \/ Stop \/ Disconnected
    BY <1>0, <1>1 DEF Start, Stop, Disconnected, FeedInv, TypeOK, Heard, WatchesFollowFeed,
                      watches, feed
<1>2. CASE OwnerNext
    BY <1>2, OwnerKeeps
<1>3. ASSUME NEW x \in Symbols, NEW price \in Prices, Tick(x, price) PROVE FeedInv'
    BY <1>3, TickKeeps
<1>4. ASSUME NEW x \in Symbols, NEW price \in Prices, RestPrice(x, price) PROVE FeedInv'
  <2>1. prices' \in [Symbols -> Seen]
      BY <1>0, <1>4 DEF RestPrice, TypeOK, Seen
  <2> QED
      BY <1>0, <1>4, <2>1 DEF RestPrice, FeedInv, TypeOK, Heard, WatchesFollowFeed, watches
<1>5. CASE HalfHour
    BY <1>5, HalfHourKeeps
<1>6. CASE GetEvent
  <2>1. event_queue' \in Seq(Events)
      BY <1>0, <1>6 DEF GetEvent, TypeOK, Events, Kinds
  <2> QED
      BY <1>0, <1>6, <2>1 DEF GetEvent, FeedInv, TypeOK, Heard, WatchesFollowFeed, watches, feed,
                              Events, Kinds
<1>7. CASE UNCHANGED vars
    BY <1>0, <1>7 DEF vars, watches, feed, FeedInv, TypeOK, Heard, WatchesFollowFeed
<1> QED
    BY <1>1, <1>2, <1>3, <1>4, <1>5, <1>6, <1>7 DEF Next, FeedNext

LEMMA FeedAlways == Spec => []FeedInv
<1> QED
    BY FeedInit, FeedStep, PTL DEF Spec

\* A watch never works from an old price: prev_price and the candle's close are
\* the feed's price or nothing yet (Sentinel._on_price_tick, add_watch).
THEOREM WatchesSeeThePrice == Spec => []WatchesFollowFeed
<1>1. FeedInv => WatchesFollowFeed
    BY DEF FeedInv
<1> QED
    BY <1>1, FeedAlways, PTL

\* Only a close beyond the level consumes a body-SL watch, never a wick
\* (Sentinel._body_sl_loop).
THEOREM WicksNeverClose == Spec => OnlyBodyCloseFires
<1> DEFINE CloseFires ==
        HalfHour => \A s \in Symbols :
           body_sl_watches'[s] # body_sl_watches[s]
               => BeyondSL(body_sl_watches[s].sl, prices[s])
<1>1. FeedInv => CloseFires
  <2> SUFFICES ASSUME FeedInv, HalfHour, NEW s \in Symbols,
                      body_sl_watches'[s] # body_sl_watches[s]
               PROVE  BeyondSL(body_sl_watches[s].sl, prices[s])
      OBVIOUS
  <2>1. s \in BreachedSymbols
      BY DEF HalfHour
  <2>2. body_sl_watches[s] # None /\ Breached(body_sl_watches[s])
      BY <2>1 DEF BreachedSymbols
  <2>3. body_sl_watches[s].candle_close = prices[s]
      BY <2>2 DEF FeedInv, WatchesFollowFeed, Breached
  <2> QED
      BY <2>2, <2>3 DEF Breached, BeyondSL
<1>2. FeedInv /\ [Next]_vars => [CloseFires]_vars
    BY <1>1
<1>3. Spec => [][CloseFires]_vars
    BY <1>2, FeedAlways, PTL DEF Spec
<1> QED
    BY <1>3 DEF OnlyBodyCloseFires

-----------------------------------------------------------------------------
(* The sentinel implements Watches.                                        *)

ArmedIs ==
    /\ Armed \subseteq Events
    /\ \A s \in Symbols : /\ <<"ZONE_TOUCH", s>> \in Armed <=> zone_watches[s] # None
                          /\ <<"TP1_HIT", s>> \in Armed <=> tp1_watches[s] # None
                          /\ <<"BODY_SL", s>> \in Armed <=> body_sl_watches[s] # None

LEMMA ArmedPairs == ArmedIs /\ ArmedIs'
<1>1. ArmedIs
    BY DEF ArmedIs, Armed, Events, Kinds
<1>2. ArmedIs'
    BY DEF ArmedIs, Armed, Events, Kinds
<1> QED
    BY <1>1, <1>2

\* add_watch and remove_watch change the watches of one symbol.
LEMMA OneSymbolChanges ==
    ASSUME NEW s \in Symbols, UNCHANGED event_queue,
           \A x \in Symbols \ {s} : /\ zone_watches'[x] = zone_watches[x]
                                    /\ tp1_watches'[x] = tp1_watches[x]
                                    /\ body_sl_watches'[x] = body_sl_watches[x]
    PROVE  Abstract!Next
<1> DEFINE kinds == {k \in Kinds : <<k, s>> \in Armed'}
<1>1. \A w \in Events : w \in Armed' <=> w \in {v \in Armed : v[2] # s} \cup (kinds \X {s})
  <2> TAKE w \in Events
  <2>1. PICK k \in Kinds, x \in Symbols : w = <<k, x>>
      BY DEF Events
  <2>2. CASE x = s
      BY <2>1, <2>2
  <2>3. CASE x # s
    <3>1. w \in Armed' <=> w \in Armed
        BY <2>1, <2>3, ArmedPairs DEF ArmedIs, Kinds
    <3> QED
        BY <2>1, <2>3, <3>1
  <2> QED
      BY <2>2, <2>3
<1>2. Armed' = {v \in Armed : v[2] # s} \cup (kinds \X {s})
    BY <1>1, ArmedPairs DEF ArmedIs, Events
<1>3. kinds \in SUBSET Abstract!Kinds
    BY DEF Kinds, Abstract!Kinds
<1>4. Abstract!Change(s)
    BY <1>2, <1>3 DEF Abstract!Change
<1> QED
    BY <1>4 DEF Abstract!Next

\* Watches that fire together, each once.
LEMMA TogetherFire ==
    ASSUME NEW fired \in SUBSET Armed, fired # {}, Armed' = Armed \ fired,
           NEW n \in Nat, Cardinality(fired) = n, NEW order \in [1 .. n -> fired],
           \A i, j \in 1 .. n : i # j => order[i] # order[j],
           event_queue' = event_queue \o order
    PROVE  Abstract!Next
<1>1. Abstract!Cardinality(fired) = Cardinality(fired)
    BY DEF Cardinality, Abstract!Cardinality
<1>2. order \in Abstract!SetToSeqs(fired)
    BY <1>1 DEF Abstract!SetToSeqs
<1>3. Abstract!Fire
    BY <1>2 DEF Abstract!Fire
<1> QED
    BY <1>3 DEF Abstract!Next

LEMMA Joined ==
    ASSUME NEW a, NEW b
    PROVE  /\ <<a>> \o <<>> = <<a>> /\ <<>> \o <<b>> = <<b>>
           /\ <<a>> \o <<b>> = <<a, b>> /\ <<>> \o <<>> = <<>>
<1>1. <<a>> \in Seq({a, b}) /\ <<b>> \in Seq({a, b}) /\ <<>> \in Seq({a, b})
    OBVIOUS
<1>2. <<a>> \o <<b>> = <<a, b>>
  <2>1. /\ <<a>> \o <<b>> \in Seq({a, b}) /\ <<a, b>> \in Seq({a, b})
        /\ Len(<<a>> \o <<b>>) = 2 /\ Len(<<a, b>>) = 2
        /\ (<<a>> \o <<b>>)[1] = a /\ (<<a>> \o <<b>>)[2] = b
        /\ <<a, b>>[1] = a /\ <<a, b>>[2] = b
      BY <1>1, ConcatProperties
  <2>2. \A i \in 1 .. 2 : i = 1 \/ i = 2
      OBVIOUS
  <2> QED
      BY <2>1, <2>2, SeqEqual
<1> QED
    BY <1>1, <1>2, ConcatEmptySeq

\* A tick fires no watch, or the zone's, or the level's, or both.
LEMMA TickFires ==
    ASSUME FeedInv, NEW x \in Symbols, NEW price \in Prices, Tick(x, price)
    PROVE  Abstract!Next \/ UNCHANGED Abstract!vars
<1> DEFINE zone == <<"ZONE_TOUCH", x>>
           tp1  == <<"TP1_HIT", x>>
           touched == ZoneFires(x, price)
           crossed == TP1Fires(x, price)
<1>0. TypeOK /\ event_queue \in Seq(Events)
    BY DEF FeedInv, TypeOK, Events, Kinds
<1>1. CASE UNCHANGED <<watches, event_queue>>
    BY <1>1 DEF Abstract!vars, Armed, watches
<1>2. CASE /\ event_queue' = event_queue \o Fired(x, price)
           /\ zone_watches' = [zone_watches EXCEPT ![x] = AfterTick(@, touched, price)]
           /\ tp1_watches' = [tp1_watches EXCEPT ![x] = AfterTick(@, crossed, price)]
           /\ body_sl_watches' = [body_sl_watches EXCEPT ![x] = CandleAfterTick(@, price)]
  <2>1. /\ zone_watches'[x] # None <=> zone_watches[x] # None /\ ~touched
        /\ tp1_watches'[x] # None <=> tp1_watches[x] # None /\ ~crossed
        /\ body_sl_watches'[x] # None <=> body_sl_watches[x] # None
      BY <1>0, <1>2, TickLeaves, FiredTyped DEF TypeOK
  <2>2. \A s \in Symbols \ {x} : /\ zone_watches'[s] = zone_watches[s]
                                /\ tp1_watches'[s] = tp1_watches[s]
                                /\ body_sl_watches'[s] = body_sl_watches[s]
      BY <1>0, <1>2 DEF TypeOK
  <2>3. \A w \in Events : w \in Armed' <=>
            w \in Armed /\ ~(w = zone /\ touched) /\ ~(w = tp1 /\ crossed)
    <3> TAKE w \in Events
    <3>1. PICK k \in Kinds, s \in Symbols : w = <<k, s>>
        BY DEF Events
    <3>2. CASE s = x
        BY <2>1, <3>1, <3>2, ArmedPairs DEF ArmedIs, Kinds
    <3>3. CASE s # x
        BY <2>2, <3>1, <3>3, ArmedPairs DEF ArmedIs, Kinds
    <3> QED
        BY <3>2, <3>3
  <2>4. /\ touched => zone \in Armed
        /\ crossed => tp1 \in Armed
        /\ zone # tp1 /\ zone \in Events /\ tp1 \in Events
      BY ArmedPairs DEF ArmedIs, ZoneFires, TP1Fires, Events, Kinds
  <2>f. /\ touched /\ ~crossed => Fired(x, price) = <<zone>>
        /\ ~touched /\ crossed => Fired(x, price) = <<tp1>>
        /\ touched /\ crossed => Fired(x, price) = <<zone, tp1>>
        /\ ~touched /\ ~crossed => Fired(x, price) = <<>>
      BY Joined DEF Fired
  <2> HIDE DEF zone, tp1
  <2>5. CASE ~touched /\ ~crossed
    <3>1. Armed' = Armed
        BY <2>3, <2>5, ArmedPairs DEF ArmedIs
    <3>2. event_queue' = event_queue
        BY <1>0, <1>2, <2>5, <2>f
    <3> QED
        BY <3>1, <3>2 DEF Abstract!vars
  <2>6. ASSUME NEW w \in {zone, tp1}, w = zone => touched /\ ~crossed, w = tp1 => crossed /\ ~touched
        PROVE  Abstract!Next
    <3>1. Armed' = Armed \ {w} /\ w \in Armed
        BY <2>3, <2>4, <2>6, ArmedPairs DEF ArmedIs
    <3>2. event_queue' = event_queue \o <<w>>
        BY <1>2, <2>6, <2>f
    <3>3. Cardinality({w}) = 1
        BY FS_Singleton
    <3> DEFINE order == <<w>>
    <3>4. /\ order \in [1 .. 1 -> {w}]
          /\ \A i, j \in 1 .. 1 : i # j => order[i] # order[j]
        OBVIOUS
    <3>5. {w} \in SUBSET Armed /\ {w} # {} /\ 1 \in Nat /\ event_queue' = event_queue \o order
        BY <3>1, <3>2
    <3> HIDE DEF order
    <3> QED
        BY <3>1, <3>3, <3>4, <3>5, TogetherFire
  <2>7. CASE touched /\ crossed
    <3> DEFINE order == <<zone, tp1>>
    <3>1. Armed' = Armed \ {zone, tp1} /\ {zone, tp1} \subseteq Armed
        BY <2>3, <2>4, <2>7, ArmedPairs DEF ArmedIs
    <3>2. event_queue' = event_queue \o order
        BY <1>2, <2>7, <2>f
    <3>3. Cardinality({zone, tp1}) = 2
      <4>1. Cardinality({zone}) = 1 /\ IsFiniteSet({zone})
          BY FS_Singleton
      <4>2. tp1 \notin {zone} /\ 1 + 1 = 2
          BY <2>4
      <4>4. Cardinality({zone} \cup {tp1}) = 2
          BY <4>1, <4>2, FS_AddElement
      <4>3. {zone} \cup {tp1} = {zone, tp1}
          OBVIOUS
      <4> QED
          BY <4>3, <4>4
    <3>4. /\ order \in [1 .. 2 -> {zone, tp1}]
          /\ \A i, j \in 1 .. 2 : i # j => order[i] # order[j]
        BY <2>4
    <3> HIDE DEF order
    <3> QED
        BY <3>1, <3>2, <3>3, <3>4, TogetherFire
  <2> QED
      BY <2>4, <2>5, <2>6, <2>7
<1> QED
    BY <1>1, <1>2, TickFrame

LEMMA HalfHourFires == FeedInv /\ HalfHour => Abstract!Next
<1> SUFFICES ASSUME FeedInv, HalfHour PROVE Abstract!Next
    OBVIOUS
<1> DEFINE B == BreachedSymbols
           n == Cardinality(B)
           fired == {<<"BODY_SL", s>> : s \in B}
<1>1. B \subseteq Symbols /\ B # {} /\ \A s \in B : body_sl_watches[s] # None
    BY DEF BreachedSymbols, HalfHour
<1>2. IsFiniteSet(B) /\ n \in Nat
    BY <1>1, FS_Subset, FS_CardinalityType, SentinelAssumption DEF SentinelAssumption
<1>3. PICK order \in [1 .. n -> B] :
          /\ event_queue' = event_queue \o SLEvents(order)
          /\ \A i, j \in 1 .. n : i # j => order[i] # order[j]
    BY HalfHourOrder
<1>4. fired \in SUBSET Armed /\ fired # {}
    BY <1>1, ArmedPairs DEF ArmedIs
<1>5. Cardinality(fired) = n
  <2> DEFINE event == [s \in B |-> <<"BODY_SL", s>>]
  <2>1. event \in Bijection(B, fired)
      BY DEF Bijection, Injection, Surjection, IsInjective
  <2> QED
      BY <1>2, <2>1, FS_Bijection DEF ExistsBijection
<1>6. Armed' = Armed \ fired
  <2>1. /\ \A s \in Symbols : body_sl_watches'[s] # None <=>
                                 body_sl_watches[s] # None /\ s \notin B
        /\ UNCHANGED <<zone_watches, tp1_watches>>
      BY DEF HalfHour
  <2>2. \A w \in Events : w \in Armed' <=> w \in Armed /\ w \notin fired
    <3> TAKE w \in Events
    <3>1. PICK k \in Kinds, s \in Symbols : w = <<k, s>>
        BY DEF Events
    <3>2. w \in fired <=> k = "BODY_SL" /\ s \in B
        BY <3>1
    <3> QED
        BY <2>1, <3>1, <3>2, ArmedPairs DEF ArmedIs, Kinds
  <2> QED
      BY <2>2, ArmedPairs DEF ArmedIs
<1>7. SLEvents(order) \in [1 .. n -> fired]
    BY <1>3 DEF SLEvents
<1>8. \A i, j \in 1 .. n : i # j => SLEvents(order)[i] # SLEvents(order)[j]
    BY <1>3 DEF SLEvents
<1> HIDE DEF fired, n, B
<1> QED
    BY <1>2, <1>3, <1>4, <1>5, <1>6, <1>7, <1>8, TogetherFire

LEMMA AbstractInit == Init => Abstract!Init
<1> QED
    BY DEF Init, Armed, Abstract!Init

LEMMA AbstractStep == FeedInv /\ [Next]_vars => [Abstract!Next]_(Abstract!vars)
<1> SUFFICES ASSUME FeedInv, [Next]_vars PROVE [Abstract!Next]_(Abstract!vars)
    OBVIOUS
<1>0. TypeOK
    BY DEF FeedInv
<1>1. CASE Start \/ Stop \/ Disconnected \/ UNCHANGED vars
    BY <1>1 DEF Start, Stop, Disconnected, vars, watches, Abstract!vars, Armed
<1>2. ASSUME NEW s \in Symbols,
             \/ \E zone \in ZoneArgs : AddZoneWatch(s, zone)
             \/ \E tp1 \in TP1Args : AddTP1Watch(s, tp1)
             \/ \E sl \in SLArgs : AddBodySLWatch(s, sl)
             \/ RemoveWatch(s)
      PROVE  Abstract!Next
    BY <1>0, <1>2, OneSymbolChanges DEF AddZoneWatch, AddTP1Watch, AddBodySLWatch, RemoveWatch, TypeOK
<1>3. ASSUME NEW s \in Symbols, SubscribeReturns(s) PROVE UNCHANGED Abstract!vars
    BY <1>3 DEF SubscribeReturns, watches, Abstract!vars, Armed
<1>4. ASSUME NEW x \in Symbols, NEW price \in Prices, Tick(x, price)
      PROVE  [Abstract!Next]_(Abstract!vars)
    BY <1>4, TickFires
<1>5. ASSUME NEW x \in Symbols, NEW price \in Prices, RestPrice(x, price)
      PROVE  UNCHANGED Abstract!vars
    BY <1>5 DEF RestPrice, watches, Abstract!vars, Armed
<1>6. CASE HalfHour
    BY <1>6, HalfHourFires
<1>7. CASE GetEvent
    BY <1>7 DEF GetEvent, watches, Abstract!Next, Abstract!Take, Armed
<1> QED
    BY <1>1, <1>2, <1>3, <1>4, <1>5, <1>6, <1>7 DEF Next, OwnerNext, FeedNext

\* Every event comes from a registered watch and consumes it, whatever is
\* subscribed twice: each step of the sentinel is a step of Watches or leaves
\* the watches and the queue alone (Sentinel._fire).
THEOREM SentinelImplementsWatches == Spec => ImplementsWatches
<1> QED
    BY AbstractInit, AbstractStep, FeedAlways, PTL DEF Spec, ImplementsWatches, Abstract!Spec
=============================================================================
