------------------------------ MODULE PythFeed ------------------------------
(***************************************************************************)
(* The connection of the Pyth price feed: connect, subscribe, the listen   *)
(* loop with its reconnection, and disconnect.  What a price update does   *)
(* is Sentinel.tla's Tick.                                                 *)
(*                                                                         *)
(* A sent subscription takes effect when it is sent; what the server knows *)
(* goes with the connection.  A connection ends with an error or with a    *)
(* normal close, which ends the iteration over its messages silently.      *)
(***************************************************************************)
EXTENDS Integers, Sequences, SequencesExt

CONSTANT Feeds

VARIABLES
    running,      \* _running
    ws,           \* none, open, lost (by an error) or closed (normally)
    listener,     \* _listen_loop: none, recv, sleep, opening, resub, done, crashed
    backoff,      \* seconds to the next attempt
    known,        \* _feed_to_symbol, in insertion order
    resub,        \* [next, size]: iteration of _resubscribe_all
    server,       \* external: feeds the server sends on this connection
    unsent        \* history: feeds known before the connection, or left out by
                  \* a re-subscription the dictionary grew under

vars == <<running, ws, listener, backoff, known, resub, server, unsent>>

NoResub == [next |-> 0, size |-> 0]

TypeOK ==
    /\ running \in BOOLEAN
    /\ ws \in {"none", "open", "lost", "closed"}
    /\ listener \in {"none", "recv", "sleep", "opening", "resub", "done", "crashed"}
    /\ backoff \in {1, 2, 4, 8, 16, 32, 60}
    /\ known \in Seq(Feeds) /\ IsInjective(known)
    /\ resub \in [next : Nat, size : Nat]
    /\ listener = "resub" => ws # "none" /\ resub.next \in 1 .. resub.size + 1
    /\ server \subseteq Range(known)
    /\ unsent \subseteq Range(known)

Init ==
    /\ running = FALSE
    /\ ws = "none"
    /\ listener = "none"
    /\ backoff = 1
    /\ known = <<>>
    /\ resub = NoResub
    /\ server = {}
    /\ unsent = {}

-----------------------------------------------------------------------------
(* The public methods.                                                     *)

\* The sentinel connects once; the feeds asked for earlier are not sent.  If
\* the connection cannot be opened, connect raises and no loop is started.
Connect ==
    /\ ~running
    /\ running' = TRUE
    /\ \/ ws' = "open" /\ listener' = "recv" /\ backoff' = 1 /\ server' = {}
       \/ UNCHANGED <<ws, listener, backoff, server>>
    /\ resub' = NoResub
    /\ unsent' = Range(known)
    /\ UNCHANGED known

\* The feed is recorded, and asked for at once when the connection is open.
Subscribe(feed) ==
    /\ known' = IF feed \in Range(known) THEN known ELSE Append(known, feed)
    /\ IF ws = "open"
       THEN server' = server \cup {feed} /\ unsent' = unsent \ {feed}
       ELSE UNCHANGED <<server, unsent>>
    /\ UNCHANGED <<running, ws, listener, backoff, resub>>

\* The listener is cancelled wherever it waits and the connection closed; a
\* listener that crashed raises its error here, and the connection stays.
Disconnect ==
    /\ running
    /\ running' = FALSE
    /\ \/ /\ listener # "crashed"
          /\ ws' = "none" /\ server' = {}
          /\ listener' = IF listener = "none" THEN "none" ELSE "done"
       \/ /\ listener = "crashed"
          /\ UNCHANGED <<ws, server, listener>>
    /\ UNCHANGED <<backoff, known, resub, unsent>>

-----------------------------------------------------------------------------
(* _listen_loop.                                                           *)

\* A message arrives: the backoff starts anew.
Receive ==
    /\ listener = "recv" /\ ws = "open"
    /\ backoff' = 1
    /\ UNCHANGED <<running, ws, listener, known, resub, server, unsent>>

\* A message that is no object, or whose price is no number: neither
\* _handle_message nor the loop catches what it raises.
ReceiveMalformed ==
    /\ listener = "recv" /\ ws = "open"
    /\ listener' = "crashed" /\ backoff' = 1
    /\ UNCHANGED <<running, ws, known, resub, server, unsent>>

\* ConnectionClosed or OSError: the loop sleeps.  After a normal close the
\* iteration just ends and begins again on the closed connection, for ever.
ConnectionClosed ==
    /\ listener = "recv" /\ ws = "lost"
    /\ listener' = "sleep"
    /\ UNCHANGED <<running, ws, backoff, known, resub, server, unsent>>

\* Fault: no cap.
Doubled(b) == b * 2
NextBackoff(b) == IF b * 2 < 60 THEN b * 2 ELSE 60

WakeUp ==
    /\ listener = "sleep"
    /\ listener' = "opening"
    /\ backoff' = NextBackoff(backoff)
    /\ UNCHANGED <<running, ws, known, resub, server, unsent>>

\* Fault: the first feed is skipped.
StartResubSkipping == [next |-> 2, size |-> Len(known)]
StartResub == [next |-> 1, size |-> Len(known)]

\* _open_ws returns and _resubscribe_all begins to iterate over the dictionary.
Reopened ==
    /\ listener = "opening"
    /\ ws' = "open"
    /\ listener' = "resub"
    /\ resub' = StartResub
    /\ server' = {}
    /\ unsent' = {}
    /\ UNCHANGED <<running, backoff, known>>

\* Fault: the error is not caught inside the loop.
ReopenFailsFatal ==
    /\ listener = "opening"
    /\ listener' = "done"
    /\ UNCHANGED <<running, ws, backoff, known, resub, server, unsent>>
\* The attempt fails and is logged; the loop comes back to the lost connection.
ReopenFails ==
    /\ listener = "opening"
    /\ listener' = "recv"
    /\ UNCHANGED <<running, ws, backoff, known, resub, server, unsent>>

Resubscribing ==
    /\ listener = "resub"
    /\ UNCHANGED <<running, ws, backoff, known>>

\* The next feed is asked for.
ResubscribeNext ==
    /\ Resubscribing
    /\ Len(known) = resub.size /\ resub.next <= resub.size
    /\ ws = "open"
    /\ server' = server \cup {known[resub.next]}
    /\ resub' = [resub EXCEPT !.next = @ + 1]
    /\ UNCHANGED <<listener, unsent>>

ResubscribeDone ==
    /\ Resubscribing
    /\ Len(known) = resub.size /\ resub.next > resub.size
    /\ listener' = "recv"
    /\ UNCHANGED <<resub, server, unsent>>

\* The iteration raises because the dictionary grew, or the send because the
\* connection is gone; caught as a failed reconnect, the rest is not sent.
ResubscribeFails ==
    /\ Resubscribing
    /\ Len(known) # resub.size \/ (ws # "open" /\ resub.next <= resub.size)
    /\ listener' = "recv"
    /\ unsent' = unsent \cup ({known[i] : i \in resub.next .. resub.size} \ server)
    /\ UNCHANGED <<resub, server>>

ListenNext ==
    ConnectionClosed \/ WakeUp \/ Reopened \/ ReopenFails
    \/ ResubscribeNext \/ ResubscribeDone \/ ResubscribeFails

\* External: the connection ends, with an error or with a normal close.
ConnectionEnds(how) ==
    /\ ws = "open"
    /\ ws' = how
    /\ server' = {}
    /\ UNCHANGED <<running, listener, backoff, known, resub, unsent>>

Next ==
    \/ Connect \/ Disconnect \/ Receive \/ ReceiveMalformed \/ ListenNext
    \/ \E feed \in Feeds : Subscribe(feed)
    \/ \E how \in {"lost", "closed"} : ConnectionEnds(how)

Spec == Init /\ [][Next]_vars

\* The listen loop goes on, and not every attempt to reconnect fails.
FairSpec == Spec /\ WF_vars(ListenNext) /\ SF_vars(Reopened)

-----------------------------------------------------------------------------
(* Properties.                                                             *)

\* Through losses and reconnections, while the loop listens on an open
\* connection, the server sends every feed asked for, except those of which
\* _resubscribe_all lost track or that were asked for before connecting.
FeedsFlow ==
    listener = "recv" /\ ws = "open" => Range(known) \subseteq server \cup unsent

\* A connection lost to an error is replaced, however often that fails, unless
\* a malformed message had ended the loop before.
RecoversFromErrors ==
    ws = "lost" ~> ws \in {"open", "none"} \/ listener = "crashed"
=============================================================================
