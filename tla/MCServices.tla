----------------------------- MODULE MCServices -----------------------------
(***************************************************************************)
(* What the agent and the dashboard stand on, three parts that share no    *)
(* variable checked in one run: the price feed's connection, the two       *)
(* exchanges behind the router, and the dashboard's live connections.      *)
(* `part` says which one a behaviour is about, the variables of the others *)
(* stay None.                                                              *)
(***************************************************************************)
EXTENDS Integers, Sequences

CONSTANTS
    None, Feeds,
    Symbols, OnJupiter, Bump, MaxEntries,
    Users, Sockets, Ttl, Limit, MaxTickets

VARIABLES
    part,
    running, ws, listener, backoff, known, resub, server, unsent,
    zetaUp, position, trigger, trades, work, call, reading, entries, lost, displaced,
    issued, store, used, state, owner, listed, dead, push

Feed == INSTANCE PythFeed
Trade == INSTANCE Venues
Push == INSTANCE Live

ASSUME ConstantsAssumption == Trade!VenuesAssumption

feedVars == <<running, ws, listener, backoff, known, resub, server, unsent>>
tradeVars == <<zetaUp, position, trigger, trades, work, call, reading, entries, lost,
               displaced>>
pushVars == <<issued, store, used, state, owner, listed, dead, push>>
vars == <<part, feedVars, tradeVars, pushVars>>

NoFeed ==
    /\ running = None /\ ws = None /\ listener = None /\ backoff = None
    /\ known = None /\ resub = None /\ server = None /\ unsent = None
NoTrade ==
    /\ zetaUp = None /\ position = None /\ trigger = None /\ trades = None
    /\ work = None /\ call = None /\ reading = None /\ entries = None
    /\ lost = None /\ displaced = None
NoPush ==
    /\ issued = None /\ store = None /\ used = None /\ state = None
    /\ owner = None /\ listed = None /\ dead = None /\ push = None

Init ==
    \/ part = "feed"  /\ Feed!Init /\ NoTrade /\ NoPush
    \/ part = "trade" /\ NoFeed /\ Trade!Init /\ NoPush
    \/ part = "push"  /\ NoFeed /\ NoTrade /\ Push!Init

InFeed(A)  == part = "feed" /\ A /\ UNCHANGED <<part, tradeVars, pushVars>>
InTrade(A) == part = "trade" /\ A /\ UNCHANGED <<part, feedVars, pushVars>>
InPush(A)  == part = "push" /\ A /\ UNCHANGED <<part, feedVars, tradeVars>>

Next == InFeed(Feed!Next) \/ InTrade(Trade!Next) \/ InPush(Push!Next)

Spec ==
    Init /\ [][Next]_vars
        /\ WF_vars(InFeed(Feed!ListenNext)) /\ SF_vars(InFeed(Feed!Reopened))

-----------------------------------------------------------------------------
\* What was subscribed flows (PythFeed).
FeedsFlow == part = "feed" => Feed!FeedsFlow
\* A connection lost to an error is replaced (PythFeed).
RecoversFromErrors ==
    part = "feed" /\ ws = "lost" ~> ws \in {"open", "none"} \/ listener = "crashed"
\* The orders of a trade are not spread over the exchanges (Venues).
TradesStayWhole == part = "trade" => Trade!TradesStayWhole
\* A socket is listed while it is served, for one ticket (Live).
LiveSound == part = "push" => Push!LiveSound

-----------------------------------------------------------------------------
\* The stop of the one and the take-profit of the other ask for one account.
MCBump == [s \in Symbols |-> IF s = "sol" THEN 4 ELSE 5]
=============================================================================
