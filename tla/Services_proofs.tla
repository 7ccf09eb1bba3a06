--------------------------- MODULE Services_proofs ---------------------------
(***************************************************************************)
(* What MCServices checks on a small instance, proved for any feeds,       *)
(* symbols, users, sockets and bounds: one invariant for each of its       *)
(* parts, which the steps of the others do not touch.                      *)
(***************************************************************************)
EXTENDS MCServices, TLAPS

-----------------------------------------------------------------------------
(* The two exchanges (Venues): the orders of a trade stay on one exchange. *)
(* What makes it so is the flag: it goes down before the first order goes  *)
(* to Jupiter and never up again, so while an order is on its way to Zeta  *)
(* there is nothing of its symbol on Jupiter.                              *)

\* Market orders are numbered as they are begun, and recorded when complete.
Numbered ==
    /\ \A v \in Trade!Venues, s \in Symbols : \A e \in position[v][s] : e <= entries
    /\ \A s \in Symbols : trades[s] # None => trades[s] \in 1 .. entries
    /\ work # None => work.entry \in 1 .. entries
    /\ work # None /\ work.entering =>
           work.todo # <<"close">> /\ \A s \in Symbols : trades[s] # work.entry
    /\ work # None /\ ~work.entering => work.todo \in {<<"sl">>, <<"close">>}

\* Nothing is on Jupiter while Zeta is up, nor of a symbol it does not have,
\* nor of the symbol whose order is on its way to Zeta.
ZetaFirst ==
    /\ \A s \in Symbols : zetaUp \/ Trade!ZetaOnly(s) => position["jupiter"][s] = {}
    /\ call # None =>
           /\ work # None
           /\ call.venue = "jupiter" => ~zetaUp /\ ~Trade!ZetaOnly(work.symbol)
           /\ call.venue = "zeta" => position["jupiter"][work.symbol] = {}

\* An entry still to be opened is open only if it was lost; one that was opened
\* on Zeta has nothing of its symbol on Jupiter.
EntryWhole ==
    work # None /\ work.entering /\ work.entry \notin lost =>
        /\ Trade!Op = "open" => \A v \in Trade!Venues, s \in Symbols : work.entry \notin position[v][s]
        /\ Trade!Op # "open" /\ work.entry \in position["zeta"][work.symbol] =>
               position["jupiter"][work.symbol] = {}

TradeInv == Trade!TypeOK /\ Numbered /\ ZetaFirst /\ EntryWhole /\ Trade!OneVenue /\ Trade!StopsFollow

-----------------------------------------------------------------------------
(* What is still to do, and the accounts of the trigger orders.            *)

LEMMA Todo ==
    ASSUME NEW w \in Trade!Works
    PROVE  /\ Head(w.todo) \in {"open", "tp", "sl", "close"}
           /\ Head(w.todo) = "close" <=> w.todo = <<"close">>
           /\ Len(w.todo) > 1 =>
                  /\ [w EXCEPT !.todo = Tail(@)] \in Trade!Works
                  /\ Tail(w.todo) # <<"close">> /\ Head(Tail(w.todo)) # "open"
           /\ ~(Len(w.todo) > 1) <=> w.todo \in {<<"sl">>, <<"close">>}
           /\ w.todo = <<"sl">> => Head(w.todo) = "sl"
  <1>1. CASE w.todo = <<"open", "tp", "tp", "sl">>
    BY <1>1 DEF Trade!Works
  <1>2. CASE w.todo = <<"tp", "tp", "sl">>
    BY <1>2 DEF Trade!Works
  <1>3. CASE w.todo = <<"tp", "sl">>
    BY <1>3 DEF Trade!Works
  <1>4. CASE w.todo = <<"sl">>
    BY <1>4 DEF Trade!Works
  <1>5. CASE w.todo = <<"close">>
    BY <1>5 DEF Trade!Works
  <1> QED
    BY <1>1, <1>2, <1>3, <1>4, <1>5 DEF Trade!Works

LEMMA SlotOfVenue ==
    ASSUME NEW v \in Trade!Venues, NEW s \in Symbols, NEW k \in {"sl", "tp"},
           NEW u \in Trade!Venues, NEW t \in Symbols, NEW l \in {"sl", "tp"}
    PROVE  /\ Trade!Slot(v, s, k) \in Trade!Slots
           /\ Trade!Slot(v, s, k) = Trade!Slot(u, t, l) => v = u
  BY DEF Trade!Slot, Trade!Slots, Trade!Venues

-----------------------------------------------------------------------------
LEMMA TradeInit == Trade!VenuesAssumption /\ Trade!Init => TradeInv
  <1> SUFFICES ASSUME Trade!VenuesAssumption, Trade!Init PROVE TradeInv
    OBVIOUS
  <1>1. Trade!TypeOK
    BY DEF Trade!Init, Trade!TypeOK
  <1>2. Numbered /\ ZetaFirst /\ EntryWhole
    BY DEF Trade!Init, Numbered, ZetaFirst, EntryWhole, Trade!Venues, Trade!VenuesAssumption
  <1>3. Trade!OneVenue /\ Trade!StopsFollow
    BY DEF Trade!Init, Trade!OneVenue, Trade!StopsFollow, Trade!Venues
  <1> QED
    BY <1>1, <1>2, <1>3 DEF TradeInv

\* An event takes up the trade agent with an entry that is new or recorded.
LEMMA BegunKeeps ==
    ASSUME Trade!VenuesAssumption, TradeInv, NEW s \in Symbols,
           NEW e, NEW todo, NEW entering \in BOOLEAN, Trade!Begin(s, e, todo, entering),
           \/ /\ todo = <<"open", "tp", "tp", "sl">> /\ entering
              /\ e = entries + 1 /\ entries' = entries + 1 /\ trades' = trades
           \/ /\ todo \in {<<"sl">>, <<"close">>} /\ ~entering
              /\ e \in 1 .. entries /\ entries' = entries
              /\ trades' = trades \/ trades' = [trades EXCEPT ![s] = None]
    PROVE  TradeInv'
  <1> USE DEF TradeInv
  <1>1. \/ /\ todo = <<"open", "tp", "tp", "sl">> /\ entering
           /\ e = entries + 1 /\ entries' = entries + 1 /\ trades' = trades
        \/ /\ todo \in {<<"sl">>, <<"close">>} /\ ~entering
           /\ e \in 1 .. entries /\ entries' = entries
           /\ trades' = trades \/ trades' = [trades EXCEPT ![s] = None]
    OBVIOUS
  <1>2. /\ work = None /\ work' = [symbol |-> s, entry |-> e, todo |-> todo, entering |-> entering]
        /\ UNCHANGED <<zetaUp, position, trigger, call, reading, lost, displaced>>
    BY DEF Trade!Begin
  <1>3. entries' \in Nat /\ entries <= entries' /\ e \in 1 .. entries'
    BY <1>1 DEF Trade!TypeOK
  <1>4. \A t \in Symbols : trades'[t] = None \/ trades'[t] = trades[t]
    BY <1>1 DEF Trade!TypeOK
  <1>5. work' \in Trade!Works /\ work'.entry = e /\ work'.todo = todo /\ work'.entering = entering
    <2>1. e \in Nat /\ entering \in BOOLEAN
      BY <1>3
    <2>2. todo \in {<<"open", "tp", "tp", "sl">>, <<"sl">>, <<"close">>}
      BY <1>1
    <2> QED
      BY <1>2, <2>1, <2>2 DEF Trade!Works
  <1>6. Trade!TypeOK'
    BY <1>1, <1>2, <1>3, <1>5 DEF Trade!TypeOK
  <1>7. Numbered'
    <2>1. \A v \in Trade!Venues, t \in Symbols : \A i \in position[v][t] : i <= entries'
      BY <1>3 DEF Numbered, Trade!TypeOK
    <2>2. \A t \in Symbols : trades'[t] # None => trades'[t] \in 1 .. entries'
      BY <1>3, <1>4 DEF Numbered, Trade!TypeOK
    <2>3. entering => todo # <<"close">> /\ \A t \in Symbols : trades'[t] # e
      BY <1>1, Trade!VenuesAssumption DEF Numbered, Trade!TypeOK, Trade!VenuesAssumption
    <2>4. ~entering => todo \in {<<"sl">>, <<"close">>}
      BY <1>1
    <2> QED
      BY <1>2, <1>3, <1>5, <2>1, <2>2, <2>3, <2>4 DEF Numbered
  <1>8. ZetaFirst'
    BY <1>2 DEF ZetaFirst, Trade!ZetaOnly
  <1>9. EntryWhole'
    <2> SUFFICES ASSUME entering
                 PROVE  /\ Head(todo) = "open"
                        /\ \A v \in Trade!Venues, t \in Symbols : e \notin position[v][t]
      BY <1>2, <1>5 DEF EntryWhole, Trade!Op
    <2>1. e = entries + 1 /\ todo = <<"open", "tp", "tp", "sl">>
      BY <1>1
    <2> QED
      BY <2>1 DEF Numbered, Trade!TypeOK
  <1>10. Trade!OneVenue'
    <2> SUFFICES ASSUME NEW t \in Symbols, NEW i \in 1 .. entries',
                        i \in position["zeta"][t], i \in position["jupiter"][t]
                 PROVE  i \in lost
      BY <1>2 DEF Trade!OneVenue
    <2>1. i <= entries
      BY DEF Numbered, Trade!Venues
    <2> QED
      BY <2>1, <1>3 DEF Trade!OneVenue, Trade!TypeOK
  <1>11. Trade!StopsFollow'
    BY <1>2, <1>4 DEF Trade!StopsFollow, Trade!Slot, Trade!Order
  <1> QED
    BY <1>6, <1>7, <1>8, <1>9, <1>10, <1>11

LEMMA BeginKeeps ==
    ASSUME Trade!VenuesAssumption, TradeInv, NEW s \in Symbols,
           Trade!EnterTrade(s) \/ Trade!OnTp1Hit(s) \/ Trade!OnBodyCloseSl(s)
    PROVE  TradeInv'
  <1>1. CASE Trade!EnterTrade(s)
    BY <1>1, BegunKeeps DEF Trade!EnterTrade
  <1>2. CASE Trade!OnTp1Hit(s)
    <2>1. trades[s] \in 1 .. entries
      BY <1>2 DEF Trade!OnTp1Hit, TradeInv, Numbered
    <2> QED
      BY <1>2, <2>1, BegunKeeps DEF Trade!OnTp1Hit
  <1>3. CASE Trade!OnBodyCloseSl(s)
    <2>1. trades[s] \in 1 .. entries
      BY <1>3 DEF Trade!OnBodyCloseSl, TradeInv, Numbered
    <2> QED
      BY <1>3, <2>1, BegunKeeps DEF Trade!OnBodyCloseSl
  <1> QED
    BY <1>1, <1>2, <1>3

\* The call is sent to Zeta while it is up, and then nothing is on Jupiter.
LEMMA CallKeeps ==
    ASSUME TradeInv, Trade!Call
    PROVE  TradeInv'
  <1> USE DEF TradeInv
  <1>1. /\ work # None /\ work \in Trade!Works /\ call' \in Trade!Calls
        /\ call'.venue = IF Trade!ZetaOnly(work.symbol) \/ zetaUp THEN "zeta" ELSE "jupiter"
        /\ UNCHANGED <<zetaUp, position, trigger, trades, work, reading, entries, lost, displaced>>
    BY DEF Trade!Call, Trade!TypeOK, Trade!Calls, Trade!Venues
  <1>2. Trade!TypeOK' /\ Numbered' /\ EntryWhole'
    BY <1>1 DEF Trade!TypeOK, Numbered, EntryWhole, Trade!Op
  <1>3. ZetaFirst'
    BY <1>1 DEF ZetaFirst, Trade!ZetaOnly, Trade!Works
  <1>4. Trade!OneVenue' /\ Trade!StopsFollow'
    BY <1>1 DEF Trade!OneVenue, Trade!StopsFollow, Trade!Slot, Trade!Order
  <1> QED
    BY <1>2, <1>3, <1>4

\* Whatever raises leaves work for Jupiter only once the flag is down.
LEMMA RaisedKeeps ==
    ASSUME Trade!TypeOK, ZetaFirst, call # None, Trade!Raised
    PROVE  /\ zetaUp' \in BOOLEAN /\ (zetaUp' => zetaUp)
           /\ work' \in {work, None}
           /\ call' \in Trade!Calls \cup {None}
           /\ call' # None =>
                  /\ work' = work /\ call'.venue = "jupiter" /\ call.venue = "zeta"
                  /\ ~zetaUp' /\ ~Trade!ZetaOnly(work.symbol)
  <1>1. CASE call.venue = "zeta" /\ ~Trade!ZetaOnly(work.symbol)
    <2>1. zetaUp' = FALSE /\ call' = [venue |-> "jupiter", found |-> FALSE] /\ work' = work
      BY <1>1 DEF Trade!Raised
    <2>2. call' \in Trade!Calls /\ call'.venue = "jupiter"
      BY <2>1 DEF Trade!Calls, Trade!Venues
    <2>3. zetaUp' \in BOOLEAN /\ (zetaUp' => zetaUp) /\ ~zetaUp'
      BY <2>1, Zenon
    <2> QED
      BY <1>1, <2>1, <2>2, <2>3, Zenon
  <1>2. CASE ~(call.venue = "zeta" /\ ~Trade!ZetaOnly(work.symbol))
    <2>1. zetaUp' = zetaUp /\ call' = None /\ work' = None
      BY <1>2 DEF Trade!Raised
    <2>2. zetaUp' \in BOOLEAN
      BY <2>1 DEF Trade!TypeOK
    <2> QED
      BY <2>1, <2>2, Zenon
  <1> QED
    BY <1>1, <1>2

LEMMA FailsKeeps ==
    ASSUME TradeInv, Trade!CallFails \/ (Trade!GetPosition /\ Trade!Raised)
    PROVE  TradeInv'
  <1> USE DEF TradeInv
  <1>1. /\ Trade!Raised /\ call # None
        /\ UNCHANGED <<position, trigger, trades, reading, entries, lost, displaced>>
    BY DEF Trade!CallFails, Trade!GetPosition
  <1>2. /\ zetaUp' \in BOOLEAN /\ (zetaUp' => zetaUp)
        /\ work' \in {work, None}
        /\ call' \in Trade!Calls \cup {None}
        /\ call' # None =>
               /\ work' = work /\ call'.venue = "jupiter" /\ call.venue = "zeta"
               /\ ~zetaUp' /\ ~Trade!ZetaOnly(work.symbol)
    BY <1>1, RaisedKeeps
  <1>3. Trade!TypeOK'
    BY <1>1, <1>2 DEF Trade!TypeOK
  <1>4. Numbered' /\ EntryWhole'
    BY <1>1, <1>2 DEF Numbered, EntryWhole, Trade!Op
  <1>5. ZetaFirst'
    BY <1>1, <1>2 DEF ZetaFirst, Trade!ZetaOnly
  <1>6. Trade!OneVenue' /\ Trade!StopsFollow'
    BY <1>1 DEF Trade!OneVenue, Trade!StopsFollow, Trade!Slot, Trade!Order
  <1> QED
    BY <1>3, <1>4, <1>5, <1>6

LEMMA FoundKeeps ==
    ASSUME TradeInv, Trade!GetPosition, call' = [call EXCEPT !.found = TRUE], UNCHANGED <<zetaUp, work>>
    PROVE  TradeInv'
  <1> USE DEF TradeInv
  <1>1. /\ call # None /\ call \in Trade!Calls /\ call' \in Trade!Calls /\ call'.venue = call.venue
        /\ UNCHANGED <<zetaUp, work, position, trigger, trades, reading, entries, lost, displaced>>
    BY DEF Trade!GetPosition, Trade!TypeOK, Trade!Calls
  <1>2. Trade!TypeOK' /\ Numbered' /\ EntryWhole'
    BY <1>1 DEF Trade!TypeOK, Numbered, EntryWhole, Trade!Op
  <1>3. ZetaFirst'
    BY <1>1 DEF ZetaFirst, Trade!ZetaOnly
  <1>4. Trade!OneVenue' /\ Trade!StopsFollow'
    BY <1>1 DEF Trade!OneVenue, Trade!StopsFollow, Trade!Slot, Trade!Order
  <1> QED
    BY <1>2, <1>3, <1>4

\* The balance refresh only takes the flag down.
LEMMA BalanceKeeps ==
    ASSUME TradeInv, Trade!GetBalance \/ Trade!GetBalanceReturns \/ Trade!GetBalanceFails
    PROVE  TradeInv'
  <1> USE DEF TradeInv
  <1>1. /\ zetaUp' \in BOOLEAN /\ (zetaUp' => zetaUp) /\ reading' \in BOOLEAN
        /\ UNCHANGED <<position, trigger, trades, work, call, entries, lost, displaced>>
    <2>1. zetaUp \in BOOLEAN
      BY DEF Trade!TypeOK
    <2>2. CASE Trade!GetBalance
      BY <2>1, <2>2, Zenon DEF Trade!GetBalance
    <2>3. CASE Trade!GetBalanceReturns
      BY <2>1, <2>3, Zenon DEF Trade!GetBalanceReturns
    <2>4. CASE Trade!GetBalanceFails
      BY <2>1, <2>4, Zenon DEF Trade!GetBalanceFails
    <2> QED
      BY <2>2, <2>3, <2>4
  <1>2. Trade!TypeOK' /\ Numbered' /\ EntryWhole'
    BY <1>1 DEF Trade!TypeOK, Numbered, EntryWhole, Trade!Op
  <1>3. ZetaFirst'
    BY <1>1 DEF ZetaFirst, Trade!ZetaOnly
  <1>4. Trade!OneVenue' /\ Trade!StopsFollow'
    BY <1>1 DEF Trade!OneVenue, Trade!StopsFollow, Trade!Slot, Trade!Order
  <1> QED
    BY <1>2, <1>3, <1>4

\* A position that ends takes only orders of its symbol with it.
LEMMA ExitKeeps ==
    ASSUME TradeInv, NEW v \in Trade!Venues, NEW s \in Symbols, Trade!ExchangeExit(v, s)
    PROVE  TradeInv'
  <1> USE DEF TradeInv
  <1>1. /\ position' = [position EXCEPT ![v][s] = {}]
        /\ UNCHANGED <<zetaUp, trades, work, call, reading, entries, lost, displaced>>
    BY DEF Trade!ExchangeExit
  <1>2. PICK gone \in SUBSET {a \in Trade!Slots : a[1] = v /\ trigger[a] # None} :
            /\ \A a \in gone : trigger[a].symbol = s
            /\ trigger' = [a \in Trade!Slots |-> IF a \in gone THEN None ELSE trigger[a]]
    BY DEF Trade!ExchangeExit
  <1>3. /\ position' \in [Trade!Venues -> [Symbols -> SUBSET Nat]]
        /\ \A u \in Trade!Venues, t \in Symbols : position'[u][t] \subseteq position[u][t]
        /\ position'[v][s] = {}
    BY <1>1 DEF Trade!TypeOK
  <1>4. Trade!TypeOK'
    BY <1>1, <1>2, <1>3 DEF Trade!TypeOK
  <1>5. Numbered'
    BY <1>1, <1>3 DEF Numbered
  <1>6. ZetaFirst'
    BY <1>1, <1>3 DEF ZetaFirst, Trade!ZetaOnly, Trade!Venues, Trade!TypeOK, Trade!Works
  <1>7. EntryWhole'
    BY <1>1, <1>3 DEF EntryWhole, Trade!Op, Trade!Venues, Trade!TypeOK, Trade!Works
  <1>8. Trade!OneVenue'
    BY <1>1, <1>3 DEF Trade!OneVenue, Trade!Venues
  <1>9. Trade!StopsFollow'
    <2> SUFFICES ASSUME NEW t \in Symbols, NEW u \in Trade!Venues,
                        trades[t] # None, trades[t] \in position'[u][t],
                        trades[t] \notin lost \cup displaced
                 PROVE  trigger'[Trade!Slot(u, t, "sl")] = Trade!Order(t, trades[t], "sl")
      BY <1>1 DEF Trade!StopsFollow, Trade!Slot, Trade!Order
    <2>1. trigger[Trade!Slot(u, t, "sl")] = Trade!Order(t, trades[t], "sl")
      BY <1>3 DEF Trade!StopsFollow
    <2>2. Trade!Slot(u, t, "sl") \in Trade!Slots
      BY SlotOfVenue
    <2>3. Trade!Slot(u, t, "sl") \notin gone
      <3>1. CASE t = s
        <4>1. u # v
          BY <3>1, <1>3
        <4>2. Trade!Slot(u, t, "sl")[1] = u
          BY DEF Trade!Slot, Trade!Venues
        <4> QED
          BY <4>1, <4>2
      <3>2. CASE t # s
        BY <3>2, <1>2, <2>1 DEF Trade!Order
      <3> QED
        BY <3>1, <3>2
    <2> QED
      BY <1>2, <2>1, <2>2, <2>3
  <1> QED
    BY <1>4, <1>5, <1>6, <1>7, <1>8, <1>9

-----------------------------------------------------------------------------
(* A transaction takes effect.                                             *)

\* The call returns, or it raises and a market order counts as lost.
Afterwards ==
    /\ call # None
    /\ \/ Trade!Returned /\ UNCHANGED lost
       \/ /\ Trade!Raised /\ UNCHANGED trades
          /\ lost' = IF Trade!Op = "open" THEN lost \cup {work.entry} ELSE lost
    /\ UNCHANGED <<reading, entries>>

\* The last order of an entry has its trade recorded.
Recorded ==
    /\ work.entering /\ work.todo = <<"sl">>
    /\ trades' = [trades EXCEPT ![work.symbol] = work.entry]

LEMMA AfterwardsKeeps ==
    ASSUME Trade!TypeOK, Numbered, ZetaFirst, Afterwards
    PROVE  /\ work # None /\ work \in Trade!Works /\ call \in Trade!Calls
           /\ zetaUp' \in BOOLEAN /\ (zetaUp' => zetaUp)
           /\ work' \in Trade!Works \cup {None} /\ call' \in Trade!Calls \cup {None}
           /\ trades' = trades \/ (Recorded /\ work' = None)
           /\ lost \subseteq lost' /\ lost' \subseteq Nat
           /\ call' # None =>
                  /\ work' = work /\ call'.venue = "jupiter"
                  /\ ~zetaUp' /\ ~Trade!ZetaOnly(work.symbol)
           /\ work' # None =>
                  /\ work'.symbol = work.symbol /\ work'.entry = work.entry
                  /\ work'.entering = work.entering
                  /\ \/ work' = work /\ (Trade!Op = "open" => work.entry \in lost')
                     \/ work'.todo = Tail(work.todo) /\ Len(work.todo) > 1
  <1>1. /\ work # None /\ work \in Trade!Works /\ call \in Trade!Calls
        /\ zetaUp \in BOOLEAN /\ trades \in [Symbols -> Nat \cup {None}]
        /\ lost \subseteq Nat /\ work.entry \in Nat
    BY DEF Trade!TypeOK, Trade!Works, Afterwards, ZetaFirst
  <1>2. CASE Trade!Returned /\ UNCHANGED lost
    <2>1. zetaUp' = zetaUp /\ call' = None /\ lost' = lost
      BY <1>2 DEF Trade!Returned
    <2>2. CASE Len(work.todo) > 1
      <3>1. work' = [work EXCEPT !.todo = Tail(@)] /\ trades' = trades
        BY <1>2, <2>2 DEF Trade!Returned
      <3>2. work' \in Trade!Works
        BY <1>1, <2>2, <3>1, Todo
      <3>3. /\ work'.symbol = work.symbol /\ work'.entry = work.entry
            /\ work'.entering = work.entering /\ work'.todo = Tail(work.todo)
        BY <1>1, <3>1 DEF Trade!Works
      <3> QED
        BY <1>1, <2>1, <2>2, <3>1, <3>2, <3>3
    <2>3. CASE ~(Len(work.todo) > 1)
      <3>1. work' = None /\ trades' = IF work.entering THEN [trades EXCEPT ![work.symbol] = work.entry]
                                      ELSE trades
        BY <1>2, <2>3 DEF Trade!Returned
      <3>2. work.todo \in {<<"sl">>, <<"close">>}
        BY <1>1, <2>3, Todo
      <3>3. work.entering => work.todo = <<"sl">>
        BY <1>1, <3>2 DEF Numbered
      <3>4. trades' = trades \/ Recorded
        BY <3>1, <3>3 DEF Recorded
      <3> QED
        BY <1>1, <2>1, <3>1, <3>4
    <2> QED
      BY <2>2, <2>3
  <1>3. CASE /\ Trade!Raised /\ UNCHANGED trades
             /\ lost' = IF Trade!Op = "open" THEN lost \cup {work.entry} ELSE lost
    <2>1. /\ zetaUp' \in BOOLEAN /\ (zetaUp' => zetaUp)
          /\ work' \in {work, None} /\ call' \in Trade!Calls \cup {None}
          /\ call' # None =>
                 /\ work' = work /\ call'.venue = "jupiter"
                 /\ ~zetaUp' /\ ~Trade!ZetaOnly(work.symbol)
      BY <1>3, RaisedKeeps DEF Afterwards
    <2>2. /\ lost \subseteq lost' /\ lost' \subseteq Nat
          /\ Trade!Op = "open" => work.entry \in lost'
      BY <1>1, <1>3
    <2> QED
      BY <1>1, <1>3, <2>1, <2>2
  <1> QED
    BY <1>2, <1>3 DEF Afterwards

\* What is left to do is in order, whatever the call did to the positions.
LEMMA AfterwardsNumbered ==
    ASSUME Trade!TypeOK, Numbered, ZetaFirst, Afterwards,
           \A v \in Trade!Venues, s \in Symbols : \A e \in position'[v][s] : e <= entries
    PROVE  Numbered'
  <1>1. entries' = entries
    BY DEF Afterwards
  <1>2. /\ work # None /\ work \in Trade!Works /\ work.entry \in 1 .. entries
        /\ trades \in [Symbols -> Nat \cup {None}]
    BY AfterwardsKeeps DEF Numbered, Trade!TypeOK
  <1>3. \A s \in Symbols : trades'[s] # None => trades'[s] \in 1 .. entries
    BY <1>2, AfterwardsKeeps DEF Numbered, Recorded
  <1>4. ASSUME work' # None
        PROVE  /\ trades' = trades /\ work'.entry = work.entry /\ work'.entering = work.entering
               /\ work.entering => work'.todo # <<"close">>
               /\ ~work.entering => work'.todo \in {<<"sl">>, <<"close">>}
    <2>1. /\ trades' = trades /\ work'.entry = work.entry /\ work'.entering = work.entering
          /\ work' = work \/ (work'.todo = Tail(work.todo) /\ Len(work.todo) > 1)
      BY <1>4, AfterwardsKeeps
    <2>2. CASE work' = work
      BY <1>2, <2>1, <2>2 DEF Numbered
    <2>3. CASE work'.todo = Tail(work.todo) /\ Len(work.todo) > 1
      <3>1. work'.todo # <<"close">>
        BY <1>2, <2>3, Todo
      <3>2. ~work.entering => FALSE
        BY <1>2, <2>3, Todo DEF Numbered
      <3> QED
        BY <2>1, <3>1, <3>2
    <2> QED
      BY <2>1, <2>2, <2>3
  <1> QED
    BY <1>1, <1>2, <1>3, <1>4 DEF Numbered

\* A market order.
LEMMA OpenKeeps ==
    ASSUME TradeInv, Afterwards, Trade!OpenPosition
    PROVE  TradeInv'
  <1> USE DEF TradeInv
  <1>1. /\ work # None /\ work \in Trade!Works /\ call \in Trade!Calls
        /\ work.symbol \in Symbols /\ work.entry \in Nat /\ call.venue \in Trade!Venues
    BY AfterwardsKeeps DEF Trade!Works, Trade!Calls
  <1>2. /\ Trade!Op = "open" /\ trigger' = trigger /\ displaced' = displaced
        /\ position' = [position EXCEPT ![call.venue][work.symbol] = @ \cup {work.entry}]
    BY DEF Trade!OpenPosition
  <1>3. /\ position' \in [Trade!Venues -> [Symbols -> SUBSET Nat]]
        /\ \A v \in Trade!Venues, s \in Symbols :
               position'[v][s] = IF v = call.venue /\ s = work.symbol
                                 THEN position[v][s] \cup {work.entry} ELSE position[v][s]
    BY <1>1, <1>2, ZenonT(30) DEF Trade!TypeOK
  <1>4. Trade!Op # "close" /\ work.todo \notin {<<"sl">>, <<"close">>}
    BY <1>1, <1>2, Todo DEF Trade!Op
  <1>5. work.entering /\ trades' = trades
    BY <1>1, <1>4, AfterwardsKeeps DEF Numbered, Recorded
  <1>6. \A s \in Symbols : trades[s] # work.entry
    BY <1>1, <1>5 DEF Numbered
  <1>7. \A v \in Trade!Venues, s \in Symbols : work.entry \in position[v][s] => work.entry \in lost
    BY <1>1, <1>2, <1>5 DEF EntryWhole
  <1>8. Trade!TypeOK'
    BY <1>1, <1>2, <1>3, <1>5, AfterwardsKeeps DEF Trade!TypeOK, Afterwards
  <1>9. Numbered'
    <2>1. ASSUME NEW v \in Trade!Venues, NEW s \in Symbols, NEW e \in position'[v][s]
          PROVE  e <= entries
      <3>1. work.entry <= entries
        BY <1>1 DEF Numbered, Trade!TypeOK
      <3>2. e \in position[v][s] \/ e = work.entry
        BY <1>3, <2>1, ZenonT(30)
      <3> QED
        BY <3>1, <3>2 DEF Numbered
    <2> QED
      BY <2>1, AfterwardsNumbered
  <1>10. ZetaFirst'
    <2>1. ASSUME NEW s \in Symbols, zetaUp' \/ Trade!ZetaOnly(s) PROVE position'["jupiter"][s] = {}
      <3>1. position["jupiter"][s] = {}
        BY <2>1, AfterwardsKeeps DEF ZetaFirst
      <3>2. ~(call.venue = "jupiter" /\ s = work.symbol)
        BY <2>1, AfterwardsKeeps DEF ZetaFirst, Afterwards
      <3> QED
        BY <1>3, <3>1, <3>2 DEF Trade!Venues
    <2>2. call' # None => /\ work' # None /\ work' = work /\ call'.venue = "jupiter"
                          /\ ~zetaUp' /\ ~Trade!ZetaOnly(work.symbol)
      BY <1>1, AfterwardsKeeps
    <2> QED
      BY <2>1, <2>2 DEF ZetaFirst, Trade!ZetaOnly
  <1>11. EntryWhole'
    <2> SUFFICES ASSUME work' # None, work'.entry \notin lost'
                 PROVE  /\ Head(work'.todo) # "open"
                        /\ work'.entry \in position'["zeta"][work'.symbol] =>
                               position'["jupiter"][work'.symbol] = {}
      BY DEF EntryWhole, Trade!Op
    <2>1. /\ work'.symbol = work.symbol /\ work'.entry = work.entry /\ lost \subseteq lost'
          /\ work'.todo = Tail(work.todo) /\ Len(work.todo) > 1
      BY <1>2, AfterwardsKeeps
    <2>2. Head(work'.todo) # "open"
      BY <1>1, <2>1, Todo
    <2>3. CASE call.venue = "zeta"
      <3>1. position["jupiter"][work.symbol] = {}
        BY <2>3 DEF ZetaFirst, Afterwards
      <3> QED
        BY <1>1, <1>3, <2>1, <2>2, <2>3, <3>1 DEF Trade!Venues
    <2>4. CASE call.venue = "jupiter"
      BY <1>1, <1>3, <1>7, <2>1, <2>2, <2>4 DEF Trade!Venues
    <2> QED
      BY <1>1, <2>3, <2>4 DEF Trade!Venues
  <1>12. Trade!OneVenue'
    <2> SUFFICES ASSUME NEW s \in Symbols, NEW e \in 1 .. entries,
                        e \in position'["zeta"][s], e \in position'["jupiter"][s]
                 PROVE  e \in lost'
      BY DEF Trade!OneVenue, Afterwards
    <2>1. e \in position["zeta"][s] /\ e \in position["jupiter"][s] => e \in lost
      BY DEF Trade!OneVenue
    <2>2. e = work.entry => e \in position["zeta"][s] \/ e \in position["jupiter"][s]
      BY <1>3 DEF Trade!Venues
    <2>3. e # work.entry => e \in position["zeta"][s] /\ e \in position["jupiter"][s]
      BY <1>3, ZenonT(30) DEF Trade!Venues
    <2> QED
      BY <1>7, <2>1, <2>2, <2>3, AfterwardsKeeps DEF Trade!Venues
  <1>13. Trade!StopsFollow'
    <2> SUFFICES ASSUME NEW s \in Symbols, NEW v \in Trade!Venues,
                        trades[s] # None, trades[s] \in position'[v][s],
                        trades[s] \notin lost' \cup displaced
                 PROVE  trigger[Trade!Slot(v, s, "sl")] = Trade!Order(s, trades[s], "sl")
      BY <1>2, <1>5 DEF Trade!StopsFollow, Trade!Slot, Trade!Order
    <2>1. trades[s] \in position[v][s]
      <3>1. trades[s] # work.entry
        BY <1>6
      <3>2. position'[v][s] \subseteq position[v][s] \cup {work.entry}
        BY <1>3
      <3> QED
        BY <3>1, <3>2
    <2>2. trades[s] \notin lost \cup displaced
      BY AfterwardsKeeps
    <2> QED
      BY <2>1, <2>2 DEF Trade!StopsFollow
  <1> QED
    BY <1>8, <1>9, <1>10, <1>11, <1>12, <1>13

\* The position is closed, or reversed on Zeta if it had ended meanwhile.
LEMMA CloseKeeps ==
    ASSUME TradeInv, Afterwards, Trade!ClosePosition
    PROVE  TradeInv'
  <1> USE DEF TradeInv
  <1>1. /\ work # None /\ work \in Trade!Works /\ call \in Trade!Calls
        /\ work.symbol \in Symbols /\ call.venue \in Trade!Venues
    BY AfterwardsKeeps DEF Trade!Works, Trade!Calls
  <1>2. /\ Trade!Op = "close" /\ trigger' = trigger /\ displaced' = displaced
        /\ position[call.venue][work.symbol] = {} => call.venue = "zeta"
        /\ position' = [position EXCEPT ![call.venue][work.symbol] =
                            IF @ = {} THEN {Trade!Nobody} ELSE {}]
    BY DEF Trade!ClosePosition
  <1>3. /\ position' \in [Trade!Venues -> [Symbols -> SUBSET Nat]]
        /\ \A v \in Trade!Venues, s \in Symbols : position'[v][s] \subseteq position[v][s] \cup {0}
        /\ \A s \in Symbols : position'["jupiter"][s] \subseteq position["jupiter"][s]
    BY <1>1, <1>2 DEF Trade!TypeOK, Trade!Nobody, Trade!Venues
  <1>4. work.todo = <<"close">>
    BY <1>1, <1>2, Todo DEF Trade!Op
  <1>5. ~work.entering /\ trades' = trades
    BY <1>1, <1>4, AfterwardsKeeps DEF Numbered, Recorded
  <1>6. Trade!TypeOK'
    BY <1>1, <1>2, <1>3, <1>5, AfterwardsKeeps DEF Trade!TypeOK, Afterwards
  <1>7. Numbered'
    <2>1. ASSUME NEW v \in Trade!Venues, NEW s \in Symbols, NEW e \in position'[v][s]
          PROVE  e <= entries
      BY <1>3, <2>1 DEF Numbered, Trade!TypeOK
    <2> QED
      BY <2>1, AfterwardsNumbered
  <1>8. ZetaFirst'
    <2>1. ASSUME NEW s \in Symbols, zetaUp' \/ Trade!ZetaOnly(s) PROVE position'["jupiter"][s] = {}
      BY <1>3, <2>1, AfterwardsKeeps DEF ZetaFirst
    <2>2. call' # None => /\ work' # None /\ work' = work /\ call'.venue = "jupiter"
                          /\ ~zetaUp' /\ ~Trade!ZetaOnly(work.symbol)
      BY <1>1, AfterwardsKeeps
    <2> QED
      BY <2>1, <2>2 DEF ZetaFirst, Trade!ZetaOnly
  <1>9. EntryWhole'
    BY <1>5, AfterwardsKeeps DEF EntryWhole
  <1>10. Trade!OneVenue'
    <2> SUFFICES ASSUME NEW s \in Symbols, NEW e \in 1 .. entries,
                        e \in position'["zeta"][s], e \in position'["jupiter"][s]
                 PROVE  e \in lost'
      BY DEF Trade!OneVenue, Afterwards
    <2>1. e \in position["zeta"][s] /\ e \in position["jupiter"][s]
      BY <1>3 DEF Trade!Venues, Trade!TypeOK
    <2> QED
      BY <2>1, AfterwardsKeeps DEF Trade!OneVenue
  <1>11. Trade!StopsFollow'
    <2> SUFFICES ASSUME NEW s \in Symbols, NEW v \in Trade!Venues,
                        trades[s] # None, trades[s] \in position'[v][s],
                        trades[s] \notin lost' \cup displaced
                 PROVE  trigger[Trade!Slot(v, s, "sl")] = Trade!Order(s, trades[s], "sl")
      BY <1>2, <1>5 DEF Trade!StopsFollow, Trade!Slot, Trade!Order
    <2>1. trades[s] \in 1 .. entries
      BY DEF Numbered
    <2>2. trades[s] \in position[v][s]
      BY <1>3, <2>1 DEF Trade!TypeOK
    <2>3. trades[s] \notin lost \cup displaced
      BY AfterwardsKeeps
    <2> QED
      BY <2>2, <2>3 DEF Trade!StopsFollow
  <1> QED
    BY <1>6, <1>7, <1>8, <1>9, <1>10, <1>11

\* A trigger order: of the trade it is for, on the exchange where that trade's
\* position is; the trade whose order it replaces is noted.
LEMMA SetKeeps ==
    ASSUME Trade!VenuesAssumption, TradeInv, Afterwards, Trade!SetTrigger
    PROVE  TradeInv'
  <1> USE DEF TradeInv
  <1> DEFINE slot == Trade!Slot(call.venue, work.symbol, Trade!Op)
             new == Trade!Order(work.symbol, work.entry, Trade!Op)
  <1>1. /\ work # None /\ work \in Trade!Works /\ call \in Trade!Calls
        /\ work.symbol \in Symbols /\ work.entry \in Nat /\ call.venue \in Trade!Venues
    BY AfterwardsKeeps DEF Trade!Works, Trade!Calls
  <1>2. /\ Trade!Op \in {"sl", "tp"} /\ position' = position
        /\ position[call.venue][work.symbol] = {} => call.venue = "zeta"
        /\ trigger' = [trigger EXCEPT ![slot] = new]
        /\ displaced' = IF trigger[slot] # None /\ trigger[slot] # new
                        THEN displaced \cup {trigger[slot].entry} ELSE displaced
    BY DEF Trade!SetTrigger
  <1>3. slot \in Trade!Slots /\ new \in Trade!Orders
    BY <1>1, <1>2, SlotOfVenue DEF Trade!Order, Trade!Orders
  <1>4. displaced \subseteq displaced' /\ displaced' \subseteq Nat
    BY <1>2, <1>3 DEF Trade!TypeOK, Trade!Orders
  <1>5. Trade!TypeOK'
    <2>1. trigger' \in [Trade!Slots -> Trade!Orders \cup {None}]
      BY <1>2, <1>3 DEF Trade!TypeOK
    <2>2. trades' \in [Symbols -> Nat \cup {None}]
      BY <1>1, AfterwardsKeeps DEF Trade!TypeOK, Recorded
    <2> QED
      BY <1>2, <1>4, <2>1, <2>2, AfterwardsKeeps DEF Trade!TypeOK, Afterwards
  <1>6. Numbered'
    BY <1>2, AfterwardsNumbered DEF Numbered
  <1>7. ZetaFirst'
    <2>1. ASSUME NEW s \in Symbols, zetaUp' \/ Trade!ZetaOnly(s) PROVE position'["jupiter"][s] = {}
      BY <1>2, <2>1, AfterwardsKeeps DEF ZetaFirst
    <2>2. call' # None => /\ work' # None /\ work' = work /\ call'.venue = "jupiter"
                          /\ ~zetaUp' /\ ~Trade!ZetaOnly(work.symbol)
      BY <1>1, AfterwardsKeeps
    <2> QED
      BY <2>1, <2>2 DEF ZetaFirst, Trade!ZetaOnly
  <1>8. EntryWhole'
    <2> SUFFICES ASSUME work' # None, work'.entering, work'.entry \notin lost'
                 PROVE  /\ Head(work'.todo) # "open"
                        /\ work'.entry \in position["zeta"][work'.symbol] =>
                               position["jupiter"][work'.symbol] = {}
      BY <1>2 DEF EntryWhole, Trade!Op
    <2>1. /\ work'.symbol = work.symbol /\ work'.entry = work.entry
          /\ work'.entering = work.entering /\ lost \subseteq lost'
          /\ work'.todo = work.todo \/ (work'.todo = Tail(work.todo) /\ Len(work.todo) > 1)
      BY AfterwardsKeeps
    <2>2. Head(work'.todo) # "open"
      BY <1>1, <1>2, <2>1, Todo DEF Trade!Op
    <2> QED
      BY <1>1, <1>2, <2>1, <2>2 DEF EntryWhole
  <1>9. Trade!OneVenue'
    BY <1>2, AfterwardsKeeps DEF Trade!OneVenue, Afterwards
  <1>10. Trade!StopsFollow'
    <2> SUFFICES ASSUME NEW s \in Symbols, NEW v \in Trade!Venues,
                        trades'[s] # None, trades'[s] \in position[v][s],
                        trades'[s] \notin lost' \cup displaced'
                 PROVE  trigger'[Trade!Slot(v, s, "sl")] = Trade!Order(s, trades'[s], "sl")
      BY <1>2 DEF Trade!StopsFollow, Trade!Slot, Trade!Order
    <2>1. Trade!Slot(v, s, "sl") \in Trade!Slots
      BY SlotOfVenue
    <2>2. trades'[s] \notin lost \cup displaced
      BY <1>4, AfterwardsKeeps
    <2>3. CASE trades'[s] = trades[s]
      <3>1. trigger[Trade!Slot(v, s, "sl")] = Trade!Order(s, trades[s], "sl")
        BY <2>2, <2>3 DEF Trade!StopsFollow
      <3>2. trades[s] \in Nat
        BY <2>3 DEF Numbered, Trade!TypeOK
      <3>3. Trade!Order(s, trades[s], "sl") \in Trade!Orders /\ Trade!Order(s, trades[s], "sl").entry = trades[s]
        BY <3>2 DEF Trade!Order, Trade!Orders
      <3>4. CASE Trade!Slot(v, s, "sl") = slot /\ Trade!Order(s, trades[s], "sl") # new
        <4>1. trades[s] \in displaced'
          BY <1>2, <3>1, <3>3, <3>4 DEF Trade!VenuesAssumption
        <4> QED
          BY <2>3, <4>1
      <3>5. CASE Trade!Slot(v, s, "sl") = slot /\ Trade!Order(s, trades[s], "sl") = new
        BY <1>2, <1>3, <2>3, <3>5 DEF Trade!TypeOK
      <3>6. CASE Trade!Slot(v, s, "sl") # slot
        BY <1>2, <2>1, <2>3, <3>1, <3>6 DEF Trade!TypeOK
      <3> QED
        BY <3>4, <3>5, <3>6
    <2>4. CASE trades'[s] # trades[s]
      <3>1. Recorded
        BY <2>4, AfterwardsKeeps
      <3>2. s = work.symbol /\ trades'[s] = work.entry /\ work.entering /\ Trade!Op = "sl"
        BY <1>1, <2>4, <3>1, Todo DEF Recorded, Trade!TypeOK, Trade!Op
      <3>3. CASE v = call.venue
        BY <1>2, <1>3, <3>2, <3>3 DEF Trade!TypeOK
      <3>4. CASE v = "jupiter" /\ call.venue = "zeta"
        <4>1. position["jupiter"][s] = {}
          BY <3>2, <3>4 DEF ZetaFirst, Afterwards
        <4> QED
          BY <3>4, <4>1
      <3>5. CASE v = "zeta" /\ call.venue = "jupiter"
        <4>1. position["jupiter"][s] # {}
          BY <1>2, <3>2, <3>5
        <4>2. work.entry \notin lost
          BY <2>2, <3>2
        <4>3. work.entry \notin position["zeta"][s]
          BY <1>1, <3>2, <4>1, <4>2 DEF EntryWhole
        <4> QED
          BY <3>2, <3>5, <4>3
      <3> QED
        BY <1>1, <3>3, <3>4, <3>5 DEF Trade!Venues
    <2> QED
      BY <2>3, <2>4
  <1> QED
    BY <1>5, <1>6, <1>7, <1>8, <1>9, <1>10

LEMMA TradeStep == Trade!VenuesAssumption /\ TradeInv /\ [Trade!Next]_(Trade!vars) => TradeInv'
  <1> SUFFICES ASSUME Trade!VenuesAssumption, TradeInv, [Trade!Next]_(Trade!vars) PROVE TradeInv'
    OBVIOUS
  <1>1. ASSUME NEW s \in Symbols, Trade!EnterTrade(s) \/ Trade!OnTp1Hit(s) \/ Trade!OnBodyCloseSl(s)
        PROVE  TradeInv'
    BY <1>1, BeginKeeps
  <1>2. CASE Trade!Call
    BY <1>2, CallKeeps
  <1>3. CASE Trade!CallFails
    BY <1>3, FailsKeeps
  <1>4. CASE Trade!GetPosition
    <2>1. Trade!Raised \/ (call' = [call EXCEPT !.found = TRUE] /\ UNCHANGED <<zetaUp, work>>)
      BY <1>4 DEF Trade!GetPosition
    <2> QED
      BY <1>4, <2>1, FailsKeeps, FoundKeeps
  <1>5. CASE Trade!Lands
    <2>1. Afterwards
      BY <1>5 DEF Trade!Lands, Afterwards
    <2>2. Trade!OpenPosition \/ Trade!ClosePosition \/ Trade!SetTrigger
      BY <1>5 DEF Trade!Lands
    <2> QED
      BY <2>1, <2>2, OpenKeeps, CloseKeeps, SetKeeps
  <1>6. CASE Trade!GetBalance \/ Trade!GetBalanceReturns \/ Trade!GetBalanceFails
    BY <1>6, BalanceKeeps
  <1>7. ASSUME NEW v \in Trade!Venues, NEW s \in Symbols, Trade!ExchangeExit(v, s)
        PROVE  TradeInv'
    BY <1>7, ExitKeeps
  <1>8. CASE UNCHANGED Trade!vars
    BY <1>8 DEF Trade!vars, TradeInv, Trade!TypeOK, Numbered, ZetaFirst, EntryWhole,
                Trade!OneVenue, Trade!StopsFollow,
                Trade!Op, Trade!ZetaOnly, Trade!Slot, Trade!Order
  <1> QED
    BY <1>1, <1>2, <1>3, <1>4, <1>5, <1>6, <1>7, <1>8 DEF Trade!Next

\* An entry is on both exchanges only if its order took effect on Zeta though
\* the call raised, and the stop of a tracked position is on its exchange unless
\* such a call was its entry's or another order took its account, for any symbols
\* and position accounts, any number of orders, and any failures
\* (_call_with_fallback under enter_trade, on_tp1_hit and on_body_close_sl).
THEOREM TradesAreWhole == Spec => []TradesStayWhole
  <1> DEFINE Inv == part = "trade" => TradeInv
  <1>1. Init => Inv
    BY TradeInit, ConstantsAssumption DEF Init
  <1>2. Inv /\ [Next]_vars => Inv'
    <2> SUFFICES ASSUME Inv, [Next]_vars, part' = "trade" PROVE TradeInv'
      OBVIOUS
    <2>1. part = "trade" /\ [Trade!Next]_(Trade!vars)
      BY DEF Next, InFeed, InTrade, InPush, vars, tradeVars, Trade!vars
    <2> QED
      BY <2>1, TradeStep, ConstantsAssumption
  <1>3. Inv => TradesStayWhole
    BY DEF TradesStayWhole, TradeInv, Trade!TradesStayWhole
  <1> QED
    BY <1>1, <1>2, <1>3, PTL DEF Spec

-----------------------------------------------------------------------------
(* The price feed's connection (PythFeed).                                 *)

Listening == {"recv", "sleep", "opening", "resub"}

\* The feeds a connection that is open does not have yet are those the
\* iteration of _resubscribe_all has still to come to.
Covered(i) == known[i] \in server \cup unsent
Resubscribed ==
    listener = "resub" =>
        /\ resub.next \in Nat /\ resub.size \in 0 .. Len(known)
        /\ ws = "open" => \A i \in DOMAIN known :
                             i < resub.next \/ i > resub.size => Covered(i)
FeedInv ==
    /\ running \in BOOLEAN /\ known \in Seq(Feeds)
    /\ listener \in Listening => running
    /\ listener \in {"sleep", "opening"} => ws # "open"
    /\ Resubscribed
    /\ listener = "recv" /\ ws = "open" => \A i \in DOMAIN known : Covered(i)

LEMMA FlowIs == FeedInv => Feed!FeedsFlow
  BY DEF FeedInv, Feed!FeedsFlow, Feed!Range, Covered

LEMMA FeedInit == Feed!Init => FeedInv
  <1> SUFFICES ASSUME Feed!Init PROVE FeedInv
    OBVIOUS
  <1>1. running \in BOOLEAN
    BY Zenon DEF Feed!Init
  <1>2. known \in Seq(Feeds) /\ listener = "none"
    BY DEF Feed!Init
  <1> QED
    BY <1>1, <1>2 DEF FeedInv, Resubscribed, Listening

\* What is asked for is sent at once on an open connection.
LEMMA SubscribeKeeps ==
    ASSUME FeedInv, NEW feed \in Feeds, Feed!Subscribe(feed)
    PROVE  FeedInv'
  <1>1. UNCHANGED <<running, ws, listener, resub>>
    BY DEF Feed!Subscribe
  <1>2. /\ known' \in Seq(Feeds) /\ Len(known') >= Len(known)
        /\ Len(known') \in Nat /\ Len(known) \in Nat
        /\ \A i \in DOMAIN known : i \in DOMAIN known' /\ known'[i] = known[i]
        /\ \A i \in DOMAIN known' : i \in DOMAIN known \/ (known'[i] = feed /\ i > Len(known))
    <2>1. CASE feed \in Feed!Range(known)
      BY <2>1 DEF Feed!Subscribe, FeedInv
    <2>2. CASE feed \notin Feed!Range(known)
      <3>1. known' = Append(known, feed)
        BY <2>2 DEF Feed!Subscribe
      <3> QED
        BY <3>1 DEF FeedInv
    <2> QED
      BY <2>1, <2>2
  <1>3. /\ server \cup unsent \subseteq server' \cup unsent'
        /\ ws = "open" => feed \in server' \cup unsent'
    BY DEF Feed!Subscribe
  <1>4. \A i \in DOMAIN known : Covered(i) => Covered(i)'
    BY <1>2, <1>3 DEF Covered
  <1>5. \A i \in DOMAIN known' : i \in DOMAIN known \/ (ws = "open" => Covered(i)')
    BY <1>2, <1>3 DEF Covered
  <1>6. Resubscribed'
    BY <1>1, <1>2, <1>4, <1>5 DEF FeedInv, Resubscribed
  <1> QED
    BY <1>1, <1>2, <1>4, <1>5, <1>6 DEF FeedInv

LEMMA ResubscribeKeeps ==
    ASSUME FeedInv, Feed!ResubscribeNext \/ Feed!ResubscribeDone \/ Feed!ResubscribeFails
    PROVE  FeedInv'
  <1>0. /\ UNCHANGED <<running, ws, known>> /\ listener = "resub"
        /\ resub.next \in Nat /\ resub.size \in 0 .. Len(known) /\ Len(known) \in Nat
        /\ DOMAIN known = 1 .. Len(known)
    BY DEF Feed!ResubscribeNext, Feed!ResubscribeDone, Feed!ResubscribeFails, Feed!Resubscribing,
           FeedInv, Resubscribed
  <1>1. CASE Feed!ResubscribeNext
    <2>1. /\ server' = server \cup {known[resub.next]} /\ UNCHANGED <<listener, unsent>>
          /\ resub' = [resub EXCEPT !.next = @ + 1] /\ Len(known) = resub.size
      BY <1>1 DEF Feed!ResubscribeNext, Feed!Resubscribing
    <2>2. resub'.size = resub.size /\ resub'.next = resub.next + 1
      BY <1>1, <2>1 DEF Feed!ResubscribeNext
    <2> QED
      BY <1>0, <2>1, <2>2 DEF FeedInv, Resubscribed, Covered
  <1>2. CASE Feed!ResubscribeDone
    <2>1. /\ UNCHANGED <<server, unsent>> /\ listener' = "recv"
          /\ Len(known) = resub.size /\ resub.next > resub.size
      BY <1>2 DEF Feed!ResubscribeDone, Feed!Resubscribing
    <2>2. ws = "open" => \A i \in DOMAIN known : Covered(i)
      BY <1>0, <2>1 DEF FeedInv, Resubscribed
    <2> QED
      BY <1>0, <2>1, <2>2 DEF FeedInv, Resubscribed, Covered, Listening
  <1>3. CASE Feed!ResubscribeFails
    <2>1. /\ UNCHANGED server /\ listener' = "recv"
          /\ unsent' = unsent \cup ({known[i] : i \in resub.next .. resub.size} \ server)
      BY <1>3 DEF Feed!ResubscribeFails, Feed!Resubscribing
    <2>2. ws = "open" => \A i \in DOMAIN known : Covered(i)'
      BY <1>0, <2>1 DEF FeedInv, Resubscribed, Covered
    <2> QED
      BY <1>0, <2>1, <2>2 DEF FeedInv, Resubscribed, Listening
  <1> QED
    BY <1>1, <1>2, <1>3

LEMMA FeedStep == FeedInv /\ [Feed!Next]_(Feed!vars) => FeedInv'
  <1> SUFFICES ASSUME FeedInv, [Feed!Next]_(Feed!vars) PROVE FeedInv'
    OBVIOUS
  <1>1. CASE Feed!Connect
    <2>1. running' = TRUE /\ UNCHANGED known /\ unsent' = Feed!Range(known)
      BY <1>1 DEF Feed!Connect
    <2>2. running' \in BOOLEAN /\ running'
      BY <2>1, Zenon
    <2>3. \A i \in DOMAIN known : Covered(i)'
      BY <2>1 DEF Covered, Feed!Range
    <2>4. listener \notin Listening
      BY <1>1 DEF Feed!Connect, FeedInv
    <2>5. listener' \in {"recv", listener}
      BY <1>1 DEF Feed!Connect
    <2> QED
      BY <2>1, <2>2, <2>3, <2>4, <2>5 DEF FeedInv, Resubscribed, Listening
  <1>2. ASSUME NEW feed \in Feeds, Feed!Subscribe(feed) PROVE FeedInv'
    BY <1>2, SubscribeKeeps
  <1>3. CASE Feed!Disconnect
    <2>1. running' = FALSE /\ UNCHANGED known /\ listener' \in {"none", "done", "crashed"}
      BY <1>3 DEF Feed!Disconnect
    <2>2. running' \in BOOLEAN
      BY <2>1, Zenon
    <2> QED
      BY <2>1, <2>2 DEF FeedInv, Resubscribed, Listening
  <1>4. CASE Feed!Receive \/ UNCHANGED Feed!vars
    BY <1>4 DEF Feed!Receive, Feed!vars, FeedInv, Resubscribed, Covered
  <1>5. CASE Feed!ReceiveMalformed
    BY <1>5 DEF Feed!ReceiveMalformed, FeedInv, Resubscribed, Listening
  <1>6. CASE Feed!ConnectionClosed
    BY <1>6 DEF Feed!ConnectionClosed, FeedInv, Resubscribed, Listening
  <1>7. CASE Feed!WakeUp
    BY <1>7 DEF Feed!WakeUp, FeedInv, Resubscribed, Listening
  <1>8. CASE Feed!Reopened
    <2>1. /\ listener' = "resub" /\ resub' = [next |-> 1, size |-> Len(known)]
          /\ UNCHANGED <<running, known>> /\ listener = "opening"
      BY <1>8 DEF Feed!Reopened, Feed!StartResub
    <2>2. resub'.next = 1 /\ resub'.size = Len(known) /\ Len(known) \in Nat
      BY <2>1 DEF FeedInv
    <2> QED
      BY <2>1, <2>2 DEF FeedInv, Resubscribed, Listening
  <1>9. CASE Feed!ReopenFails
    BY <1>9 DEF Feed!ReopenFails, FeedInv, Resubscribed, Listening
  <1>10. CASE Feed!ResubscribeNext \/ Feed!ResubscribeDone \/ Feed!ResubscribeFails
    BY <1>10, ResubscribeKeeps
  <1>11. ASSUME NEW how \in {"lost", "closed"}, Feed!ConnectionEnds(how) PROVE FeedInv'
    BY <1>11 DEF Feed!ConnectionEnds, FeedInv, Resubscribed, Listening
  <1> QED
    BY <1>1, <1>2, <1>3, <1>4, <1>5, <1>6, <1>7, <1>8, <1>9, <1>10, <1>11
    DEF Feed!Next, Feed!ListenNext

\* While the loop listens on an open connection the server sends every feed that
\* was asked for, however often the connection was lost, reopened and asked again
\* (_listen_loop, _resubscribe_all of PythPriceFeed).
THEOREM FeedsKeepFlowing == Spec => []FeedsFlow
  <1> DEFINE Inv == part = "feed" => FeedInv
  <1>1. Init => Inv
    BY FeedInit DEF Init
  <1>2. Inv /\ [Next]_vars => Inv'
    <2> SUFFICES ASSUME Inv, [Next]_vars, part' = "feed" PROVE FeedInv'
      OBVIOUS
    <2>1. part = "feed" /\ [Feed!Next]_(Feed!vars)
      BY DEF Next, InFeed, InTrade, InPush, vars, feedVars, Feed!vars
    <2> QED
      BY <2>1, FeedStep
  <1>3. Inv => FeedsFlow
    BY FlowIs DEF FeedsFlow
  <1> QED
    BY <1>1, <1>2, <1>3, PTL DEF Spec

-----------------------------------------------------------------------------
(* The dashboard's live connections (Live).                                *)

Pushes == [user : Users, todo : SUBSET Sockets, failed : SUBSET Sockets]

\* A ticket that is kept opened nothing yet.
TicketInv ==
    /\ issued \in Seq(Users) /\ Len(issued) \in Nat
    /\ used \in [1 .. Len(issued) -> Nat]
    /\ DOMAIN store \subseteq 1 .. Len(issued)
    /\ \A t \in DOMAIN store : used[t] = 0
    /\ \A t \in 1 .. Len(issued) : used[t] <= 1

\* A push takes off the list only sockets whose client is gone.
SocketInv ==
    /\ state \in [Sockets -> {"new", "accepting", "open", "done"}]
    /\ owner \in [Sockets -> Users \cup {None}]
    /\ \A s \in Sockets : state[s] \in {"accepting", "open"} => owner[s] \in Users
    /\ listed \in [Users -> SUBSET Sockets] /\ dead \subseteq Sockets
    /\ push # None => push \in Pushes /\ push.failed \subseteq dead
    /\ Push!ListedWhileServed

LEMMA PushInit == Push!Init => TicketInv /\ SocketInv
  <1> SUFFICES ASSUME Push!Init PROVE TicketInv /\ SocketInv
    OBVIOUS
  <1>1. issued = <<>> /\ used = <<>> /\ store = <<>>
    BY DEF Push!Init
  <1>2. <<>> \in Seq(Users) /\ Len(<<>>) = 0 /\ DOMAIN <<>> = {} /\ 1 .. 0 = {}
    OBVIOUS
  <1>3. <<>> \in [1 .. 0 -> Nat]
    OBVIOUS
  <1>4. TicketInv
    BY <1>1, <1>2, <1>3 DEF TicketInv
  <1>5. SocketInv
    BY DEF Push!Init, SocketInv, Push!ListedWhileServed
  <1> QED
    BY <1>4, <1>5

LEMMA TicketStep == TicketInv /\ [Push!Next]_(Push!vars) => TicketInv'
  <1> SUFFICES ASSUME TicketInv, [Push!Next]_(Push!vars) PROVE TicketInv'
    OBVIOUS
  <1> USE DEF TicketInv
  <1>1. CASE Push!Clock
    <2>1. store' = Push!Aged(store) /\ UNCHANGED <<issued, used>>
      BY <1>1 DEF Push!Clock
    <2>2. DOMAIN store' \subseteq DOMAIN store
      BY <2>1 DEF Push!Aged
    <2> QED
      BY <2>1, <2>2
  <1>2. ASSUME NEW u \in Users, Push!CreateWsTicket(u) PROVE TicketInv'
    <2>1. /\ issued' = Append(issued, u) /\ used' = Append(used, 0)
          /\ DOMAIN store' = DOMAIN store \cup {Len(issued) + 1}
      BY <1>2 DEF Push!CreateWsTicket
    <2>2. used \in Seq(Nat) /\ Len(used) = Len(issued)
      OBVIOUS
    <2>3. issued' \in Seq(Users) /\ Len(issued') = Len(issued) + 1
      BY <2>1
    <2>4. /\ used' \in [1 .. Len(issued') -> Nat] /\ used'[Len(issued) + 1] = 0
          /\ \A t \in 1 .. Len(issued) : used'[t] = used[t]
      <3>1. used' \in Seq(Nat) /\ Len(used') = Len(used) + 1
        BY <2>1, <2>2
      <3>2. used' \in [1 .. Len(issued') -> Nat]
        BY <2>2, <2>3, <3>1
      <3>3. used'[Len(used) + 1] = 0 /\ \A t \in 1 .. Len(used) : used'[t] = used[t]
        BY <2>1, <2>2
      <3> QED
        BY <2>2, <3>2, <3>3
    <2> QED
      BY <2>1, <2>3, <2>4
  <1>3. ASSUME NEW s \in Sockets, NEW t \in Push!Tickets, Push!WsLive(s, t) PROVE TicketInv'
    <2>1. DOMAIN store' = DOMAIN store \ {t} /\ UNCHANGED issued
      BY <1>3 DEF Push!WsLive, Push!Consumed
    <2>2. CASE t \in DOMAIN store /\ used' = [used EXCEPT ![t] = @ + 1]
      BY <2>1, <2>2
    <2>3. CASE UNCHANGED used
      BY <2>1, <2>3
    <2> QED
      BY <1>3, <2>2, <2>3 DEF Push!WsLive
  <1>4. CASE \/ Push!SendText \/ Push!SendDone \/ UNCHANGED Push!vars
             \/ \E u \in Users : Push!SendToUser(u)
             \/ \E s \in Sockets : Push!Connect(s) \/ Push!Ends(s) \/ Push!ClientGone(s)
    BY <1>4 DEF Push!SendText, Push!SendDone, Push!vars, Push!SendToUser, Push!Connect, Push!Ends,
                Push!ClientGone
  <1> QED
    BY <1>1, <1>2, <1>3, <1>4 DEF Push!Next

LEMMA SocketStep == TicketInv /\ SocketInv /\ [Push!Next]_(Push!vars) => SocketInv'
  <1> SUFFICES ASSUME TicketInv, SocketInv, [Push!Next]_(Push!vars) PROVE SocketInv'
    OBVIOUS
  <1> USE DEF SocketInv, Push!ListedWhileServed
  <1>1. CASE Push!Clock \/ UNCHANGED Push!vars \/ \E u \in Users : Push!CreateWsTicket(u)
    BY <1>1 DEF Push!Clock, Push!vars, Push!CreateWsTicket
  <1>2. ASSUME NEW s \in Sockets, NEW t \in Push!Tickets, Push!WsLive(s, t) PROVE SocketInv'
    <2>1. state[s] = "new" /\ UNCHANGED <<listed, dead, push>>
      BY <1>2 DEF Push!WsLive
    <2>2. \A u \in Users : s \notin listed[u]
      BY <2>1
    <2>3. CASE /\ state' = [state EXCEPT ![s] = "accepting"]
               /\ owner' = [owner EXCEPT ![s] = issued[t]]
      <3>1. issued[t] \in Users
        BY DEF TicketInv, Push!Tickets
      <3> QED
        BY <2>1, <2>2, <2>3, <3>1
    <2>4. CASE state' = [state EXCEPT ![s] = "done"] /\ UNCHANGED owner
      BY <2>1, <2>2, <2>4
    <2> QED
      BY <1>2, <2>3, <2>4 DEF Push!WsLive
  <1>3. ASSUME NEW s \in Sockets, Push!Connect(s) PROVE SocketInv'
    <2>1. state[s] = "accepting" /\ owner[s] \in Users /\ UNCHANGED <<owner, dead, push>>
      BY <1>3 DEF Push!Connect
    <2>2. \A u \in Users : s \notin listed[u]
      BY <2>1
    <2>3. CASE /\ state' = [state EXCEPT ![s] = "open"]
               /\ listed' = [listed EXCEPT ![owner[s]] = @ \cup {s}]
      BY <2>1, <2>2, <2>3
    <2>4. CASE state' = [state EXCEPT ![s] = "done"] /\ UNCHANGED listed
      BY <2>1, <2>2, <2>4
    <2> QED
      BY <1>3, <2>3, <2>4 DEF Push!Connect
  <1>4. ASSUME NEW s \in Sockets, Push!Ends(s) PROVE SocketInv'
    <2>1. /\ state[s] = "open" /\ owner[s] \in Users /\ UNCHANGED <<owner, dead, push>>
          /\ state' = [state EXCEPT ![s] = "done"]
          /\ listed' = [listed EXCEPT ![owner[s]] = @ \ {s}]
      BY <1>4 DEF Push!Ends, Push!Disconnect
    <2> QED
      BY <2>1
  <1>5. ASSUME NEW s \in Sockets, Push!ClientGone(s) PROVE SocketInv'
    BY <1>5 DEF Push!ClientGone
  <1>6. ASSUME NEW u \in Users, Push!SendToUser(u) PROVE SocketInv'
    <2>1. /\ push' = [user |-> u, todo |-> listed[u], failed |-> {}]
          /\ UNCHANGED <<state, owner, listed, dead>>
      BY <1>6 DEF Push!SendToUser
    <2>2. push' \in Pushes /\ push'.failed = {}
      BY <2>1 DEF Pushes
    <2> QED
      BY <2>1, <2>2
  <1>7. CASE Push!SendText
    <2>1. /\ push # None /\ UNCHANGED <<state, owner, listed, dead>>
          /\ \E s \in push.todo : \E raised \in {{}, {s} \cap dead} :
                 push' = [push EXCEPT !.todo = @ \ {s}, !.failed = @ \cup raised]
      BY <1>7 DEF Push!SendText
    <2>2. PICK s \in push.todo, raised \in SUBSET dead :
              push' = [push EXCEPT !.todo = @ \ {s}, !.failed = @ \cup raised]
      BY <2>1
    <2>3. push' \in Pushes /\ push'.failed = push.failed \cup raised
      BY <2>1, <2>2 DEF Pushes
    <2> QED
      BY <2>1, <2>3
  <1>8. CASE Push!SendDone
    <2>1. /\ push # None /\ push' = None /\ UNCHANGED <<state, owner, dead>>
          /\ listed' = [listed EXCEPT ![push.user] = @ \ push.failed]
      BY <1>8 DEF Push!SendDone, Push!Disconnect
    <2>2. push.user \in Users /\ push.failed \subseteq dead
      BY <2>1 DEF Pushes
    <2> QED
      BY <2>1, <2>2
  <1> QED
    BY <1>1, <1>2, <1>3, <1>4, <1>5, <1>6, <1>7, <1>8 DEF Push!Next

\* A ticket opens one socket, and a socket is on its user's list while it is
\* served, whatever fails during a push (ConnectionManager, _consume_ticket).
THEOREM ConnectionsAreSound == Spec => []LiveSound
  <1> DEFINE Inv == part = "push" => TicketInv /\ SocketInv
  <1>1. Init => Inv
    BY PushInit DEF Init
  <1>2. Inv /\ [Next]_vars => Inv'
    <2> SUFFICES ASSUME Inv, [Next]_vars, part' = "push" PROVE TicketInv' /\ SocketInv'
      OBVIOUS
    <2>1. part = "push" /\ [Push!Next]_(Push!vars)
      BY DEF Next, InFeed, InTrade, InPush, vars, pushVars, Push!vars
    <2> QED
      BY <2>1, TicketStep, SocketStep
  <1>3. Inv => LiveSound
    BY DEF LiveSound, Push!LiveSound, TicketInv, SocketInv, Push!TicketsOpenOne, Push!Tickets
  <1> QED
    BY <1>1, <1>2, <1>3, PTL DEF Spec
=============================================================================
