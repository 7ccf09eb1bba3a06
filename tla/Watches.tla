------------------------------ MODULE Watches ------------------------------
(***************************************************************************)
(* What the sentinel promises its consumer, prices and subscriptions left  *)
(* out: a watch is registered for a symbol and a kind, an event is queued  *)
(* only for a registered watch, firing consumes the watch, and events are  *)
(* taken in the order they were fired.                                     *)
(***************************************************************************)
EXTENDS Naturals, FiniteSets, Sequences, SequencesExt

CONSTANT Symbols

Kinds == {"ZONE_TOUCH", "TP1_HIT", "BODY_SL"}

VARIABLES
    armed,    \* <<kind, symbol>> pairs that have a watch
    events    \* queue of <<kind, symbol>> pairs that fired

vars == <<armed, events>>

TypeOK ==
    /\ armed \subseteq Kinds \X Symbols
    /\ events \in Seq(Kinds \X Symbols)

Init == armed = {} /\ events = <<>>

\* The owner registers or removes watches of one symbol.
Change(symbol) ==
    /\ \E kinds \in SUBSET Kinds :
           armed' = {w \in armed : w[2] # symbol} \cup (kinds \X {symbol})
    /\ UNCHANGED events

\* Some registered watches fire together, each once, in some order.
Fire ==
    \E fired \in (SUBSET armed) \ {{}} :
        /\ armed' = armed \ fired
        /\ \E order \in SetToSeqs(fired) : events' = events \o order

Take ==
    /\ events # <<>>
    /\ events' = Tail(events)
    /\ UNCHANGED armed

\* The process ends: watches and queued events were only in memory.
Forget == armed' = {} /\ events' = <<>>

Next == (\E s \in Symbols : Change(s)) \/ Fire \/ Take \/ Forget

Spec == Init /\ [][Next]_vars
=============================================================================
