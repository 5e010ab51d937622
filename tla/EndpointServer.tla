--------------------------- MODULE EndpointServer ---------------------------
(***************************************************************************)
(* The engine's listener: crates/core/src/endpoint/server.rs, with what    *)
(* endpoint/client.rs does on the other end of a connection.               *)
(*                                                                         *)
(* One accept thread counts a connection, lists a clone of its socket, and *)
(* hands it to a thread of its own; that thread answers, takes the clone   *)
(* off the list and gives its place back.  Dropping the server stops the   *)
(* accept thread and closes the sockets on the list.  A client learns that *)
(* no answer will come only when every handle on its socket is closed.     *)
(***************************************************************************)
EXTENDS Naturals, FiniteSets

CONSTANTS
    Conns,              \* connections, each one request
    Quick,              \* those whose client waits QUICK_TIMEOUT, not for ever
    NoConn,             \* the accept thread has none in hand
    MaxConnections,     \* how many are served at once (MAX_CONNECTIONS)
    Faults              \* which of AllFaults the environment may inject

\* A socket that cannot be cloned, a thread that cannot be started, a request
\* that ends without a reply, a handler that panics; a server being dropped that
\* cannot connect to itself.
AllFaults == {"clone", "spawn", "reply", "panic", "wake"}

ASSUME ServerAssumption ==
    /\ IsFiniteSet(Conns)
    /\ NoConn \notin Conns
    /\ Quick \subseteq Conns
    /\ MaxConnections \in Nat \ {0}
    /\ Faults \subseteq AllFaults

VARIABLES
    conn,       \* where each connection is in the server
    hand,       \* the connection the accept thread is placing
    active,     \* Context::active
    live,       \* Context::live: the connections whose clone is listed
    unlisted,   \* the connections whose socket could not be cloned
    cut,        \* the connections that were shut down
    stop,       \* Server::stop
    waking,     \* the server's own connection, made to wake the accept
    listening,  \* the accept loop runs
    dropping,   \* how far Drop for Server has come
    client      \* what each client has heard

acceptVars == <<stop, waking, listening, dropping>>
vars == <<conn, hand, active, live, unlisted, cut, acceptVars, client>>

\* "counted" and "listed" in the accept thread; "serving" to "removed" in the
\* thread of its own; "dead" after a panic, "unstarted" if there is no thread.
Places == {"none", "queued", "counted", "listed", "serving", "served",
           "removed", "dead", "unstarted", "done"}
Heard == {"idle", "waiting", "answered", "refused", "lost", "timedout"}

\* The places at which a connection counts against the limit.
Counted == {"counted", "listed", "serving", "served", "removed"}
At(places) == {c \in Conns : conn[c] \in places}

\* The server still holds a handle on the connection's socket.
Open(c) ==
    \/ conn[c] = "queued" /\ listening
    \/ conn[c] \in {"counted", "listed", "serving"}
    \/ c \in live

\* What a client that still waits hears.
Hears(c, what) ==
    client' = [client EXCEPT ![c] = IF @ = "waiting" THEN what ELSE @]

-----------------------------------------------------------------------------
Init ==
    /\ conn = [c \in Conns |-> "none"]
    /\ hand = NoConn
    /\ active = 0
    /\ live = {}
    /\ unlisted = {}
    /\ cut = {}
    /\ stop = FALSE
    /\ waking = FALSE
    /\ listening = TRUE
    /\ dropping = "no"
    /\ client = [c \in Conns |-> "idle"]

(* The client: Link::open and the reads of ping, work and invoke.          *)

\* A request is sent, or nobody listens at the address any more.
Connect(c) ==
    /\ client[c] = "idle"
    /\ \/ /\ listening
          /\ client' = [client EXCEPT ![c] = "waiting"]
          /\ conn' = [conn EXCEPT ![c] = "queued"]
       \/ /\ ~listening
          /\ client' = [client EXCEPT ![c] = "lost"]
          /\ UNCHANGED conn
    /\ UNCHANGED <<hand, active, live, unlisted, cut, acceptVars>>

\* The connection ended before an answer came (LinkError::Closed).
LoseConnection(c) ==
    /\ client[c] = "waiting"
    /\ c \in cut \/ ~Open(c)
    /\ Hears(c, "lost")
    /\ UNCHANGED <<conn, hand, active, live, unlisted, cut, acceptVars>>

\* ping and work read with a timeout; invoke does not.
TimeOut(c) ==
    /\ client[c] = "waiting"
    /\ c \in Quick
    /\ Hears(c, "timedout")
    /\ UNCHANGED <<conn, hand, active, live, unlisted, cut, acceptVars>>

-----------------------------------------------------------------------------
(* accept_loop                                                             *)

\* A connection is counted, or refused and closed.
Accept(c) ==
    /\ listening /\ ~stop /\ hand = NoConn
    /\ conn[c] = "queued"
    /\ \/ /\ active >= MaxConnections
          /\ conn' = [conn EXCEPT ![c] = "done"]
          /\ Hears(c, "refused")
          /\ UNCHANGED <<hand, active>>
       \/ /\ active < MaxConnections
          /\ active' = active + 1
          /\ conn' = [conn EXCEPT ![c] = "counted"]
          /\ hand' = c
          /\ UNCHANGED client
    /\ UNCHANGED <<live, unlisted, cut, acceptVars>>

\* A clone of the socket goes on the list, if one can be made.
List(c) ==
    /\ hand = c
    /\ conn[c] = "counted"
    /\ conn' = [conn EXCEPT ![c] = "listed"]
    /\ \/ live' = live \cup {c} /\ UNCHANGED unlisted
       \/ "clone" \in Faults /\ unlisted' = unlisted \cup {c} /\ UNCHANGED live
    /\ UNCHANGED <<hand, active, cut, acceptVars, client>>

\* Mutation of Spawn: a place is not given back when no thread starts.
Spawn_KeepingPlace(c) ==
    /\ hand = c
    /\ conn[c] = "listed"
    /\ hand' = NoConn
    /\ \/ conn' = [conn EXCEPT ![c] = "serving"] /\ UNCHANGED active
       \/ "spawn" \in Faults /\ conn' = [conn EXCEPT ![c] = "unstarted"] /\ UNCHANGED active
    /\ UNCHANGED <<live, unlisted, cut, acceptVars, client>>

\* A thread starts to serve it, or none can: then its place is given back.
Spawn(c) ==
    /\ hand = c
    /\ conn[c] = "listed"
    /\ hand' = NoConn
    /\ \/ conn' = [conn EXCEPT ![c] = "serving"] /\ UNCHANGED active
       \/ /\ "spawn" \in Faults
          /\ conn' = [conn EXCEPT ![c] = "unstarted"]
          /\ active' = active - 1
    /\ UNCHANGED <<live, unlisted, cut, acceptVars, client>>

\* accept returns with a connection and the loop sees that it is to stop: the
\* listener is closed, and with it what is still queued.
EndAccept ==
    /\ listening /\ stop /\ hand = NoConn
    /\ waking \/ At({"queued"}) # {}
    /\ listening' = FALSE
    /\ conn' = [c \in Conns |-> IF conn[c] = "queued" THEN "done" ELSE conn[c]]
    /\ UNCHANGED <<hand, active, live, unlisted, cut, stop, waking, dropping, client>>

-----------------------------------------------------------------------------
(* The thread of one connection                                            *)

\* serve_connection: a reply, which a connection that was shut down does not
\* carry; no reply; or a core handler panics and the thread is gone.
ServeConnection(c) ==
    /\ conn[c] = "serving"
    /\ \/ /\ conn' = [conn EXCEPT ![c] = "served"]
          /\ IF c \in cut THEN UNCHANGED client ELSE Hears(c, "answered")
       \/ /\ "reply" \in Faults
          /\ conn' = [conn EXCEPT ![c] = "served"]
          /\ UNCHANGED client
       \/ /\ "panic" \in Faults
          /\ conn' = [conn EXCEPT ![c] = "dead"]
          /\ UNCHANGED client
    /\ UNCHANGED <<hand, active, live, unlisted, cut, acceptVars>>

\* Mutation of Unlist: the clone stays on the list.
Unlist_Keeping(c) ==
    /\ conn[c] = "served"
    /\ conn' = [conn EXCEPT ![c] = "removed"]
    /\ UNCHANGED <<hand, active, live, unlisted, cut, acceptVars, client>>

\* The clone comes off the list, which closes the last handle ...
Unlist(c) ==
    /\ conn[c] = "served"
    /\ conn' = [conn EXCEPT ![c] = "removed"]
    /\ live' = live \ {c}
    /\ UNCHANGED <<hand, active, unlisted, cut, acceptVars, client>>

\* ... and the place is given back.
GiveBack(c) ==
    /\ conn[c] = "removed"
    /\ conn' = [conn EXCEPT ![c] = "done"]
    /\ active' = active - 1
    /\ UNCHANGED <<hand, live, unlisted, cut, acceptVars, client>>

-----------------------------------------------------------------------------
(* Drop for Server                                                         *)

\* The flag is set, and a connection made so that a blocked accept sees it;
\* whether it could be made is not looked at.
StopServer ==
    /\ dropping = "no"
    /\ stop' = TRUE
    /\ waking' \in {TRUE} \cup (IF "wake" \in Faults THEN {FALSE} ELSE {})
    /\ dropping' = "join"
    /\ UNCHANGED <<conn, hand, active, live, unlisted, cut, listening, client>>

\* Mutation of CloseLive: the accept thread is not waited for.
CloseLive_NotJoining ==
    /\ dropping = "join"
    /\ dropping' = "dropped"
    /\ cut' = cut \cup live
    /\ live' = {}
    /\ UNCHANGED <<conn, hand, active, unlisted, stop, waking, listening, client>>

\* Once the accept thread has ended, every listed connection is shut down.
CloseLive ==
    /\ dropping = "join"
    /\ ~listening
    /\ dropping' = "dropped"
    /\ cut' = cut \cup live
    /\ live' = {}
    /\ UNCHANGED <<conn, hand, active, unlisted, stop, waking, listening, client>>

-----------------------------------------------------------------------------
AcceptThread == EndAccept \/ \E c \in Conns : Accept(c) \/ List(c) \/ Spawn(c)
RequestThread(c) == ServeConnection(c) \/ Unlist(c) \/ GiveBack(c)
ClientWaits(c) == LoseConnection(c) \/ TimeOut(c)

Next ==
    \/ AcceptThread
    \/ \E c \in Conns :
        \/ Connect(c)
        \/ ClientWaits(c)
        \/ RequestThread(c)
    \/ StopServer
    \/ CloseLive

Spec == Init /\ [][Next]_vars

\* Threads are scheduled, and a handler that does not panic returns.
FairSpec ==
    /\ Spec
    /\ WF_vars(AcceptThread)
    /\ WF_vars(CloseLive)
    /\ \A c \in Conns : WF_vars(RequestThread(c)) /\ WF_vars(ClientWaits(c))

-----------------------------------------------------------------------------
(* Properties.                                                             *)

\* Every place that was taken is given back exactly once, except by a thread
\* that panicked: the counter neither drifts nor wraps below zero.  So "the
\* number of connections served at once" is bounded (server.rs), with threads
\* ending, failing to start and panicking in any order.
PlacesAreAccountedFor ==
    /\ active = Cardinality(At(Counted \cup {"dead"}))
    /\ Cardinality(At({"counted", "listed", "serving", "served"})) <= MaxConnections

\* "When the server stops, the connections still being served are closed": no
\* connection the accept thread still placed while the server was being dropped
\* escapes, if its socket could be cloned.
DroppedMeansClosed ==
    dropping = "dropped" =>
        \A c \in Conns :
            client[c] = "waiting" /\ Open(c) => c \in cut \cup unlisted

\* A request is always settled: an answer, a refusal, or the news that none
\* will come - also when its socket could not be cloned, its thread ended
\* without a reply, or the server was dropped under it.  The one left waiting,
\* until the server is dropped, has a thread that never started or panicked:
\* nobody takes its clone off the list.  Dropping the server comes to an end
\* too, though accept blocks: with the server's own connection, or else with
\* the next client's.
ClientsAreSettled ==
    /\ \A c \in Conns :
          client[c] = "waiting" ~>
              client[c] # "waiting" \/ (c \in live /\ conn[c] \in {"dead", "unstarted"})
    /\ dropping = "join" /\ (waking \/ At({"queued"}) # {}) ~> dropping = "dropped"

=============================================================================
