-------------------------------- MODULE Live --------------------------------
(***************************************************************************)
(* The dashboard's live connections (backend/routes/ws.py): tickets that   *)
(* open one WebSocket each within their time, the sockets listed by user,  *)
(* and the messages pushed to all of them.                                 *)
(*                                                                         *)
(* Everything runs on one asyncio loop: an action is the code between two  *)
(* awaits. What is said on a socket is left out, and the order of a user's *)
(* list, to which a socket is appended when it opens, once. A socket whose *)
(* client is gone is dead: a send to it raises, and so does the wait for a *)
(* message.                                                                *)
(***************************************************************************)
EXTENDS Integers, Sequences, FiniteSets

CONSTANTS
    Users, Sockets,
    Ttl,          \* _TICKET_TTL_SECONDS, in steps of the clock
    Limit,        \* _MAX_CONNECTIONS_PER_USER
    None,
    MaxTickets    \* bound: tickets issued

VARIABLES
    issued,       \* external: what clients hold: the user of each ticket
    store,        \* _TICKET_STORE: the age of each ticket kept
    used,         \* history: by ticket, how many sockets it opened
    state,        \* of each socket: new, accepting, open, done
    owner,        \* its user
    listed,       \* _connections: the sockets of each user
    dead,         \* external: sockets whose client is gone
    push          \* a send to a user: the sockets to come, those that failed

vars == <<issued, store, used, state, owner, listed, dead, push>>

Tickets == DOMAIN issued
Aged(kept) == [t \in {t \in DOMAIN kept : kept[t] < Ttl} |-> kept[t] + 1]

Init ==
    /\ issued = <<>> /\ store = <<>> /\ used = <<>>
    /\ state = [s \in Sockets |-> "new"] /\ owner = [s \in Sockets |-> None]
    /\ listed = [u \in Users |-> {}]
    /\ dead = {} /\ push = None

-----------------------------------------------------------------------------
(* Tickets.                                                                *)

\* Time passes; the next call of _cleanup_expired_tickets finds the others.
Clock ==
    /\ store # <<>>
    /\ store' = Aged(store)
    /\ UNCHANGED <<issued, used, state, owner, listed, dead, push>>

\* create_ws_ticket
CreateWsTicket(u) ==
    /\ Len(issued) < MaxTickets
    /\ issued' = Append(issued, u) /\ used' = Append(used, 0)
    /\ store' = [t \in DOMAIN store \cup {Len(issued) + 1} |->
                    IF t \in DOMAIN store THEN store[t] ELSE 0]
    /\ UNCHANGED <<state, owner, listed, dead, push>>

\* Fault: the ticket is looked up and stays.
Kept(t) == store
\* _consume_ticket
Consumed(t) == [k \in DOMAIN store \ {t} |-> store[k]]

-----------------------------------------------------------------------------
(* ws_live.                                                                *)

\* connection_count is looked at before accept is awaited.
WsLive(s, t) ==
    /\ state[s] = "new"
    /\ store' = Consumed(t)
    /\ IF t \in DOMAIN store /\ Cardinality(listed[issued[t]]) < Limit
       THEN /\ state' = [state EXCEPT ![s] = "accepting"]
            /\ owner' = [owner EXCEPT ![s] = issued[t]]
            /\ used' = [used EXCEPT ![t] = @ + 1]
       ELSE state' = [state EXCEPT ![s] = "done"] /\ UNCHANGED <<owner, used>>
    /\ UNCHANGED <<issued, listed, dead, push>>

\* ConnectionManager.connect, once accept returns; or it raises.
Connect(s) ==
    /\ state[s] = "accepting"
    /\ \/ /\ s \notin dead
          /\ state' = [state EXCEPT ![s] = "open"]
          /\ listed' = [listed EXCEPT ![owner[s]] = @ \cup {s}]
       \/ state' = [state EXCEPT ![s] = "done"] /\ UNCHANGED listed
    /\ UNCHANGED <<issued, store, used, owner, dead, push>>

\* Fault: the user's whole entry goes, not only when it is empty.
DisconnectUser(u, gone) == IF gone = {} THEN listed ELSE [listed EXCEPT ![u] = {}]
\* disconnect: also of a socket no longer listed.
Disconnect(u, gone) == [listed EXCEPT ![u] = @ \ gone]

\* The wait for a message ends with WebSocketDisconnect, or the ping raises.
Ends(s) ==
    /\ state[s] = "open" /\ s \in dead
    /\ state' = [state EXCEPT ![s] = "done"]
    /\ listed' = Disconnect(owner[s], {s})
    /\ UNCHANGED <<issued, store, used, owner, dead, push>>

\* External: a client goes away.
ClientGone(s) ==
    /\ state[s] \in {"accepting", "open"} /\ s \notin dead
    /\ dead' = dead \cup {s}
    /\ UNCHANGED <<issued, store, used, state, owner, listed, push>>

-----------------------------------------------------------------------------
(* send_to_user, which broadcast does for every user.                      *)

\* Over a copy of the list, with an await for each; one push at a time.
SendToUser(u) ==
    /\ push = None /\ listed[u] # {}
    /\ push' = [user |-> u, todo |-> listed[u], failed |-> {}]
    /\ UNCHANGED <<issued, store, used, state, owner, listed, dead>>

SendText ==
    /\ push # None
    /\ \E s \in push.todo : \E raised \in {{}, {s} \cap dead} :
          push' = [push EXCEPT !.todo = @ \ {s}, !.failed = @ \cup raised]
    /\ UNCHANGED <<issued, store, used, state, owner, listed, dead>>

SendDone ==
    /\ push # None /\ push.todo = {}
    /\ listed' = Disconnect(push.user, push.failed)
    /\ push' = None
    /\ UNCHANGED <<issued, store, used, state, owner, dead>>

Next ==
    \/ Clock \/ SendText \/ SendDone
    \/ \E u \in Users : CreateWsTicket(u) \/ SendToUser(u)
    \/ \E s \in Sockets : Connect(s) \/ Ends(s) \/ ClientGone(s)
                          \/ \E t \in Tickets : WsLive(s, t)

Spec == Init /\ [][Next]_vars

-----------------------------------------------------------------------------
(* Properties.                                                             *)

\* A socket is listed for its own user, and only while it is served; and one that
\* is served and whose client is there is listed, whatever pushes failed.
ListedWhileServed ==
    /\ \A u \in Users : \A s \in listed[u] : state[s] = "open" /\ owner[s] = u
    /\ \A s \in Sockets : state[s] = "open" /\ s \notin dead => s \in listed[owner[s]]

\* A ticket opens one socket, however often and late it is presented.
TicketsOpenOne == \A t \in Tickets : used[t] <= 1

LiveSound == ListedWhileServed /\ TicketsOpenOne
=============================================================================
