------------------------------- MODULE Venues -------------------------------
(***************************************************************************)
(* The exchange of AgentLoop in detail: SolanaRouter in front of the two   *)
(* clients, ZetaClient and JupiterClient, and what their orders do on      *)
(* chain.  A call goes to Zeta until a call of any kind has raised there,  *)
(* and is repeated on Jupiter if it may be.                                *)
(*                                                                         *)
(* The trade agent places the orders of one event after the other; the     *)
(* balance refresh, a task of its own, comes in between.  Any call may     *)
(* raise, with or without effect.  Market orders are numbered: an entry.   *)
(* Prices, sizes and sides are left out.  ZetaClient's on-chain journal is *)
(* switched on by set_vault_client, which nothing calls.                   *)
(***************************************************************************)
EXTENDS Integers, Sequences, FiniteSets

CONSTANTS
    Symbols,      \* those of Zeta
    OnJupiter,    \* those that Jupiter has too
    Bump,         \* per symbol, the bump of its position account on Jupiter
    None,
    MaxEntries    \* bound: market orders

VARIABLES
    zetaUp,       \* _zeta_up
    position,     \* external: per venue and symbol, the entries of the position
    trigger,      \* external: per account of a trigger order, the order in it
    trades,       \* TradeAgent._trades: the entry of each tracked trade
    work,         \* what the trade agent has still to order, of which entry
    call,         \* the call on its way: venue, and whether it saw a position
    reading,      \* get_balance is on its way to Zeta
    entries,      \* market orders so far
    lost,         \* history: entries whose market order raised and took effect
    displaced     \* history: entries whose stop gave way to another order

vars == <<zetaUp, position, trigger, trades, work, call, reading, entries, lost, displaced>>

Venues == {"zeta", "jupiter"}
Nobody == 0

\* _get_trigger_order_address: one per bit of the margin account, which all
\* symbols share.  On Jupiter one per counter, the position's bump for a stop
\* and the next for a take-profit.
Slot(venue, s, kind) ==
    IF venue = "zeta" THEN <<venue, IF kind = "sl" THEN 0 ELSE 1>>
    ELSE <<venue, IF kind = "sl" THEN Bump[s] ELSE Bump[s] + 1>>
Slots == {Slot(v, s, k) : v \in Venues, s \in Symbols, k \in {"sl", "tp"}}

Order(s, e, kind) == [symbol |-> s, entry |-> e, kind |-> kind]
Orders == [symbol : Symbols, entry : Nat, kind : {"sl", "tp"}]
VenuesAssumption ==
    /\ OnJupiter \subseteq Symbols /\ Bump \in [Symbols -> Nat]
    /\ None \notin Nat \cup Orders

Works == [symbol : Symbols, entry : Nat,
          todo : {<<"open", "tp", "tp", "sl">>, <<"tp", "tp", "sl">>, <<"tp", "sl">>, <<"sl">>,
                  <<"close">>},
          entering : BOOLEAN]
Calls == [venue : Venues, found : BOOLEAN]

TypeOK ==
    /\ zetaUp \in BOOLEAN /\ reading \in BOOLEAN
    /\ position \in [Venues -> [Symbols -> SUBSET Nat]]
    /\ trigger \in [Slots -> Orders \cup {None}]
    /\ trades \in [Symbols -> Nat \cup {None}]
    /\ work \in Works \cup {None}
    /\ call \in Calls \cup {None}
    /\ entries \in Nat /\ lost \subseteq Nat /\ displaced \subseteq Nat

Init ==
    /\ zetaUp = TRUE /\ reading = FALSE
    /\ position = [v \in Venues |-> [s \in Symbols |-> {}]]
    /\ trigger = [a \in Slots |-> None]
    /\ trades = [s \in Symbols |-> None]
    /\ work = None /\ call = None
    /\ entries = 0 /\ lost = {} /\ displaced = {}

-----------------------------------------------------------------------------
(* The trade agent.                                                        *)

Begin(s, e, todo, entering) ==
    /\ work = None
    /\ work' = [symbol |-> s, entry |-> e, todo |-> todo, entering |-> entering]
    /\ UNCHANGED <<zetaUp, position, trigger, call, reading, lost, displaced>>

\* enter_trade: four orders, then the trade is recorded.
EnterTrade(s) ==
    /\ entries < MaxEntries
    /\ entries' = entries + 1 /\ UNCHANGED trades
    /\ Begin(s, entries + 1, <<"open", "tp", "tp", "sl">>, TRUE)

\* on_tp1_hit: the stop moves to the entry; the old one is not cancelled.
OnTp1Hit(s) ==
    /\ trades[s] # None
    /\ UNCHANGED <<trades, entries>>
    /\ Begin(s, trades[s], <<"sl">>, FALSE)

\* on_body_close_sl: the trade is forgotten, then its position closed.
OnBodyCloseSl(s) ==
    /\ trades[s] # None
    /\ trades' = [trades EXCEPT ![s] = None] /\ UNCHANGED entries
    /\ Begin(s, trades[s], <<"close">>, FALSE)

-----------------------------------------------------------------------------
(* _call_with_fallback.                                                    *)

Op == Head(work.todo)
ZetaOnly(s) == s \notin OnJupiter

Call ==
    /\ work # None /\ call = None
    /\ call' = [venue |-> IF ZetaOnly(work.symbol) \/ zetaUp THEN "zeta" ELSE "jupiter",
                found |-> FALSE]
    /\ UNCHANGED <<zetaUp, position, trigger, trades, work, reading, entries, lost, displaced>>

\* Fault: the flag stays up.
RaisedTriesAgain ==
    IF call.venue = "zeta" /\ ~ZetaOnly(work.symbol)
    THEN /\ call' = [venue |-> "jupiter", found |-> FALSE]
         /\ UNCHANGED <<zetaUp, work>>
    ELSE call' = None /\ work' = None /\ UNCHANGED zetaUp

\* The call raises: once more on Jupiter, and from now on only there; or to
\* the trade agent, which leaves what was still to do.
Raised ==
    IF call.venue = "zeta" /\ ~ZetaOnly(work.symbol)
    THEN /\ zetaUp' = FALSE
         /\ call' = [venue |-> "jupiter", found |-> FALSE]
         /\ UNCHANGED work
    ELSE call' = None /\ work' = None /\ UNCHANGED zetaUp

\* It returns: the next order, or the trade is recorded.
Returned ==
    /\ call' = None
    /\ UNCHANGED zetaUp
    /\ IF Len(work.todo) > 1
       THEN work' = [work EXCEPT !.todo = Tail(@)] /\ UNCHANGED trades
       ELSE /\ work' = None
            /\ trades' = IF work.entering THEN [trades EXCEPT ![work.symbol] = work.entry]
                         ELSE trades

\* No effect: a price or a position cannot be read, the chain refuses (as it
\* may when the trigger order's account is taken), Jupiter was not initialised.
CallFails ==
    /\ call # None
    /\ Raised
    /\ UNCHANGED <<position, trigger, trades, reading, entries, lost, displaced>>

\* get_position within close_position, set_sl and set_tp: none, and it raises.
GetPosition ==
    /\ call # None /\ ~call.found /\ Op # "open"
    /\ IF position[call.venue][work.symbol] # {}
       THEN call' = [call EXCEPT !.found = TRUE] /\ UNCHANGED <<zetaUp, work>>
       ELSE Raised
    /\ UNCHANGED <<position, trigger, trades, reading, entries, lost, displaced>>

-----------------------------------------------------------------------------
(* The transaction of a call takes effect.                                 *)

\* A market order adds to the symbol's position.
OpenPosition ==
    /\ Op = "open"
    /\ position' = [position EXCEPT ![call.venue][work.symbol] = @ \cup {work.entry}]
    /\ UNCHANGED <<trigger, displaced>>

\* The reverse of the position that was seen.  Zeta's order is not reduce-only:
\* if the position is gone by now it opens the reverse one.
ClosePosition ==
    /\ Op = "close" /\ call.found
    /\ position[call.venue][work.symbol] = {} => call.venue = "zeta"
    /\ position' = [position EXCEPT ![call.venue][work.symbol] =
                        IF @ = {} THEN {Nobody} ELSE {}]
    /\ UNCHANGED <<trigger, displaced>>

\* A trigger order in the account for it, instead of one that may be there.
SetTrigger ==
    LET slot == Slot(call.venue, work.symbol, Op)
        old == trigger[slot]
    IN  /\ Op \in {"sl", "tp"} /\ call.found
        /\ position[call.venue][work.symbol] = {} => call.venue = "zeta"
        /\ trigger' = [trigger EXCEPT ![slot] = Order(work.symbol, work.entry, Op)]
        /\ displaced' = IF old # None /\ old # Order(work.symbol, work.entry, Op)
                        THEN displaced \cup {old.entry} ELSE displaced
        /\ UNCHANGED position

Lands ==
    /\ call # None
    /\ OpenPosition \/ ClosePosition \/ SetTrigger
    /\ \/ Returned /\ UNCHANGED lost
       \/ /\ Raised /\ UNCHANGED trades     \* though it took effect
          /\ lost' = IF Op = "open" THEN lost \cup {work.entry} ELSE lost
    /\ UNCHANGED <<reading, entries>>

-----------------------------------------------------------------------------
(* The balance refresh, and the chain.                                     *)

\* get_balance asks Zeta while it counts as up; Jupiter's answer changes nothing.
\* get_price and get_position, which nothing calls, would do the same.
GetBalance ==
    /\ zetaUp /\ ~reading
    /\ reading' = TRUE
    /\ UNCHANGED <<zetaUp, position, trigger, trades, work, call, entries, lost, displaced>>
GetBalanceReturns ==
    /\ reading
    /\ reading' = FALSE
    /\ UNCHANGED <<zetaUp, position, trigger, trades, work, call, entries, lost, displaced>>
GetBalanceFails ==
    /\ reading
    /\ reading' = FALSE /\ zetaUp' = FALSE
    /\ UNCHANGED <<position, trigger, trades, work, call, entries, lost, displaced>>

\* External: a position ends on its exchange, with some of its trigger orders;
\* the others stay.
ExchangeExit(v, s) ==
    /\ position[v][s] # {}
    /\ position' = [position EXCEPT ![v][s] = {}]
    /\ \E gone \in SUBSET {a \in Slots : a[1] = v /\ trigger[a] # None} :
           /\ \A a \in gone : trigger[a].symbol = s
           /\ trigger' = [a \in Slots |-> IF a \in gone THEN None ELSE trigger[a]]
    /\ UNCHANGED <<zetaUp, trades, work, call, reading, entries, lost, displaced>>

Next ==
    \/ \E s \in Symbols : EnterTrade(s) \/ OnTp1Hit(s) \/ OnBodyCloseSl(s)
    \/ Call \/ CallFails \/ GetPosition \/ Lands
    \/ GetBalance \/ GetBalanceReturns \/ GetBalanceFails
    \/ \E v \in Venues, s \in Symbols : ExchangeExit(v, s)

Spec == Init /\ [][Next]_vars

-----------------------------------------------------------------------------
(* Properties.                                                             *)

\* An entry is on both exchanges only if its order took effect on Zeta though
\* the call raised (solana_router.py:66).
OneVenue ==
    \A s \in Symbols, e \in 1..entries :
        e \in position["zeta"][s] /\ e \in position["jupiter"][s] => e \in lost

\* While the position of a tracked trade is open, its stop is on the same
\* exchange, wherever a failed call of the trade agent or of the balance
\* refresh has sent later orders, unless a call that took effect raised or
\* another order took its account.
StopsFollow ==
    \A s \in Symbols, v \in Venues :
        LET e == trades[s]
        IN  e # None /\ e \in position[v][s] /\ e \notin lost \cup displaced =>
                trigger[Slot(v, s, "sl")] = Order(s, e, "sl")

\* Orders are not spread over the exchanges.
TradesStayWhole == OneVenue /\ StopsFollow
=============================================================================
