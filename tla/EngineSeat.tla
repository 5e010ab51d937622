----------------------------- MODULE EngineSeat -----------------------------
(***************************************************************************)
(* One engine per state root: crates/core/src/endpoint/seat.rs and the     *)
(* roles of endpoint/mod.rs (join, join_composition, attach_or_stand_alone, *)
(* EngineHost::serve and its drop) with the ping of endpoint/client.rs.    *)
(*                                                                         *)
(* The seat is an exclusive file lock the operating system holds; the      *)
(* record is a file beside it that says where the engine listens.  Every   *)
(* file, lock and socket operation is a step of its own, and a process may *)
(* die between any two: its lock and its listener go, its record stays.    *)
(***************************************************************************)
EXTENDS Naturals

CONSTANTS
    Procs,      \* processes that take a role over the one state root
    NoProc,     \* nobody holds the seat
    Release,    \* the release fingerprint of each process
    Patience,   \* bound: looks at the seat a join takes before it gives up
    MaxServes   \* bound: endpoints opened over the life of the root

ASSUME SeatAssumption ==
    /\ NoProc \notin Procs
    /\ DOMAIN Release = Procs
    /\ Patience \in Nat \ {0}
    /\ MaxServes \in Nat

VARIABLES
    pc,         \* where each process is
    kind,       \* a resident frontend, or a command that comes and goes
    looks,      \* how often its join has looked at the seat
    seen,       \* the record its join read last
    lock,       \* who holds engine.lock
    record,     \* the content of engine.endpoint
    listener,   \* the token of each process's open listener, 0 if it has none
    served      \* tokens handed out so far: every listener has a fresh one

joinVars == <<pc, kind, looks, seen>>
vars == <<joinVars, lock, record, listener, served>>

Kinds == {"resident", "command"}
Releases == {Release[p] : p \in Procs}
\* What a record tells a joiner; the token stands for address and token both.
Records == [token: Nat, release: Releases \cup {"none"}]
Absent == [token |-> 0, release |-> "none"]

\* The places at which a process holds the seat.
Seated == {"clear", "held", "publish", "engine", "stop", "drop", "unlock"}
\* A role taken, or the join refused ("none": without a role).
Settled == {"engine", "spoke", "alone", "incompatible", "none"}
PCs == Seated \cup Settled \cup {"out", "claim", "read", "ping", "wait"}

Goto(p, place) == pc' = [pc EXCEPT ![p] = place]

\* join or the role it gave is over, and with it what the join had seen.
EndJoin(p, place) ==
    /\ Goto(p, place)
    /\ looks' = [looks EXCEPT ![p] = 0]
    /\ seen' = [seen EXCEPT ![p] = Absent]

-----------------------------------------------------------------------------
Init ==
    /\ pc = [p \in Procs |-> "out"]
    /\ kind = [p \in Procs |-> "resident"]
    /\ looks = [p \in Procs |-> 0]
    /\ seen = [p \in Procs |-> Absent]
    /\ lock = NoProc
    /\ record = Absent
    /\ listener = [p \in Procs |-> 0]
    /\ served = 0

\* A process starts and asks for its role.
Start(p, k) ==
    /\ pc[p] = "out"
    /\ Goto(p, "claim")
    /\ kind' = [kind EXCEPT ![p] = k]
    /\ UNCHANGED <<looks, seen, lock, record, listener, served>>

-----------------------------------------------------------------------------
(* seat::claim                                                             *)

\* Mutation of TryLock: the record is removed before the lock is asked for.
TryLock_ClearingFirst(p) ==
    /\ pc[p] = "claim"
    /\ record' = Absent
    /\ \/ lock = NoProc /\ lock' = p /\ EndJoin(p, "clear")
       \/ lock # NoProc /\ Goto(p, "read") /\ UNCHANGED <<lock, looks, seen>>
    /\ UNCHANGED <<kind, listener, served>>

\* The lock is free and taken, held by another process, or cannot be asked.
TryLock(p) ==
    /\ pc[p] = "claim"
    /\ \/ lock = NoProc /\ lock' = p /\ EndJoin(p, "clear")
       \/ lock # NoProc /\ Goto(p, "read") /\ UNCHANGED <<lock, looks, seen>>
       \/ EndJoin(p, "none") /\ UNCHANGED lock
    /\ UNCHANGED <<kind, record, listener, served>>

\* The holder removes whatever record is there; if it cannot, the claim fails
\* and the lock file is closed.
ClearRecord(p) ==
    /\ pc[p] = "clear"
    /\ \/ record' = Absent /\ Goto(p, "held") /\ UNCHANGED lock
       \/ lock' = NoProc /\ Goto(p, "none") /\ UNCHANGED record
    /\ UNCHANGED <<kind, looks, seen, listener, served>>

-----------------------------------------------------------------------------
(* join: the seat is held by somebody else                                 *)

\* Mutation of ReadRecord: any engine will do.
ReadRecord_AnyRelease(p) ==
    /\ pc[p] = "read"
    /\ seen' = [seen EXCEPT ![p] = record]
    /\ Goto(p, IF record = Absent THEN "wait" ELSE "ping")
    /\ UNCHANGED <<kind, looks, lock, record, listener, served>>

\* No record, a record of another release, or one to try; or it is unreadable.
ReadRecord(p) ==
    /\ pc[p] = "read"
    /\ \/ /\ record = Absent
          /\ Goto(p, "wait")
          /\ UNCHANGED <<looks, seen>>
       \/ /\ record # Absent /\ record.release # Release[p]
          /\ EndJoin(p, "incompatible")
       \/ /\ record # Absent /\ record.release = Release[p]
          /\ seen' = [seen EXCEPT ![p] = record]
          /\ Goto(p, "ping")
          /\ UNCHANGED looks
       \/ EndJoin(p, "none")
    /\ UNCHANGED <<kind, lock, record, listener, served>>

\* A listener answers a ping that presents its token.
Answers(token) == \E q \in Procs : listener[q] = token

\* Link::ping: attached when the engine answers; it may also not answer in time.
Ping(p) ==
    /\ pc[p] = "ping"
    /\ \/ Answers(seen[p].token) /\ Goto(p, "spoke") /\ UNCHANGED seen
       \/ Goto(p, "wait") /\ seen' = [seen EXCEPT ![p] = Absent]
    /\ UNCHANGED <<kind, looks, lock, record, listener, served>>

\* Mutation of Retry: the deadline is never looked at.
Retry_Forever(p) ==
    /\ pc[p] = "wait"
    /\ Goto(p, "claim")
    /\ UNCHANGED <<kind, looks, seen, lock, record, listener, served>>

\* The deadline is looked at after each look at the seat, then the join sleeps
\* and starts again from the claim.
Retry(p) ==
    /\ pc[p] = "wait"
    /\ \/ /\ looks[p] + 1 >= Patience
          /\ EndJoin(p, "none")
       \/ /\ looks[p] + 1 < Patience
          /\ Goto(p, "claim")
          /\ looks' = [looks EXCEPT ![p] = @ + 1]
          /\ UNCHANGED seen
    /\ UNCHANGED <<kind, lock, record, listener, served>>

-----------------------------------------------------------------------------
(* The holder of the seat                                                  *)

\* attach_or_stand_alone lets the seat go at once.
StandAside(p) ==
    /\ pc[p] = "held"
    /\ kind[p] = "command"
    /\ Goto(p, "drop")
    /\ UNCHANGED <<kind, looks, seen, lock, record, listener, served>>

\* EngineHost::serve: a listener with a fresh token; a failure drops the host.
Serve(p) ==
    /\ pc[p] = "held"
    /\ kind[p] = "resident"
    /\ \/ /\ served < MaxServes
          /\ served' = served + 1
          /\ listener' = [listener EXCEPT ![p] = served + 1]
          /\ Goto(p, "publish")
       \/ Goto(p, "drop") /\ UNCHANGED <<listener, served>>
    /\ UNCHANGED <<kind, looks, seen, lock, record>>

\* Seat::publish renames a complete record into place; if it cannot, the
\* server and then the seat are dropped.
Publish(p) ==
    /\ pc[p] = "publish"
    /\ \/ /\ record' = [token |-> listener[p], release |-> Release[p]]
          /\ Goto(p, "engine")
       \/ Goto(p, "stop") /\ UNCHANGED record
    /\ UNCHANGED <<kind, looks, seen, lock, listener, served>>

\* The engine's process lets go of its role, on exit or to relaunch.
LeaveEngine(p) ==
    /\ pc[p] = "engine"
    /\ Goto(p, "stop")
    /\ UNCHANGED <<kind, looks, seen, lock, record, listener, served>>

\* Mutation of StopServer: the seat lets go before the listener stops.
StopServer_AfterSeat(p) ==
    /\ pc[p] = "stop"
    /\ Goto(p, "drop")
    /\ UNCHANGED <<kind, looks, seen, lock, record, listener, served>>

\* Drop for Server, the host's first field: the listener is closed.
StopServer(p) ==
    /\ pc[p] = "stop"
    /\ listener' = [listener EXCEPT ![p] = 0]
    /\ Goto(p, "drop")
    /\ UNCHANGED <<kind, looks, seen, lock, record, served>>

\* Drop for Seat removes the record, best effort, while it holds the lock ...
DropSeat(p) ==
    /\ pc[p] = "drop"
    /\ \/ record' = Absent
       \/ UNCHANGED record
    /\ Goto(p, "unlock")
    /\ UNCHANGED <<kind, looks, seen, lock, listener, served>>

\* ... and closing the lock file releases it.
Unlock(p) ==
    /\ pc[p] = "unlock"
    /\ lock' = NoProc
    /\ Goto(p, IF kind[p] = "command" THEN "alone" ELSE "none")
    /\ UNCHANGED <<kind, looks, seen, record, listener, served>>

-----------------------------------------------------------------------------
\* A process that has no seat ends its role, or was refused one, and exits.
Exit(p) ==
    /\ pc[p] \in Settled \ {"engine"}
    /\ EndJoin(p, "out")
    /\ kind' = [kind EXCEPT ![p] = "resident"]
    /\ UNCHANGED <<lock, record, listener, served>>

\* A process is killed: the system closes its lock and its listener.
Crash(p) ==
    /\ pc[p] # "out"
    /\ EndJoin(p, "out")
    /\ listener' = [listener EXCEPT ![p] = 0]
    /\ lock' = IF lock = p THEN NoProc ELSE lock
    /\ kind' = [kind EXCEPT ![p] = "resident"]
    /\ UNCHANGED <<record, served>>

\* What a process does of its own accord once it has started.
Proceed(p) ==
    \/ TryLock(p)
    \/ ClearRecord(p)
    \/ ReadRecord(p)
    \/ Ping(p)
    \/ Retry(p)
    \/ StandAside(p)
    \/ Serve(p)
    \/ Publish(p)
    \/ StopServer(p)
    \/ DropSeat(p)
    \/ Unlock(p)

Next ==
    \E p \in Procs :
        \/ \E k \in Kinds : Start(p, k)
        \/ Proceed(p)
        \/ LeaveEngine(p)
        \/ Exit(p)
        \/ Crash(p)

Spec == Init /\ [][Next]_vars

\* A started process is scheduled: none of its own steps blocks.
FairSpec == Spec /\ \A p \in Procs : WF_vars(Proceed(p))

-----------------------------------------------------------------------------
(* Safety.                                                                 *)

\* The type of every variable.
TypeOK ==
    /\ pc \in [Procs -> PCs]
    /\ kind \in [Procs -> Kinds]
    /\ looks \in [Procs -> 0 .. Patience]
    /\ seen \in [Procs -> Records]
    /\ lock \in Procs \cup {NoProc}
    /\ record \in Records
    /\ listener \in [Procs -> Nat]
    /\ served \in Nat

\* At most one process of the root is an engine or on its way in or out of
\* being one, and it is the one that holds the lock ("one engine per state
\* root", endpoint/mod.rs).
OneEngine ==
    \A p \in Procs : pc[p] \in Seated <=> lock = p

\* Two endpoints are never open at once: an engine stops listening before its
\* seat is free to another (EngineHost: "the listener stops before the seat
\* lets go"), so no spoke can be served by an engine that has been succeeded.
OneListener ==
    \A p, q \in Procs : listener[p] # 0 /\ listener[q] # 0 => p = q

\* A serving engine can be found: no join, command or dying predecessor removes
\* or replaces the record of a live engine (claim removes a record only under
\* the lock).
EngineIsFindable ==
    \A p \in Procs : pc[p] = "engine" =>
        record = [token |-> listener[p], release |-> Release[p]]

\* One engine per state root, the only one that listens, and the one that the
\* record names as soon as it serves (claim, Publish, EngineHost's drop).
OneEngineAndFindable == OneEngine /\ OneListener /\ EngineIsFindable

\* Nobody is attached to an engine of another release, however the record, the
\* engine and the joiner interleave: a token names one listener for ever.
SpokesMatchTheirEngine ==
    \A p, q \in Procs :
        pc[p] = "spoke" /\ listener[q] = seen[p].token => Release[q] = Release[p]

\* The election a reader of the docs expects: one process serves at a time, and
\* a process attaches only to the process serving at that moment.
Election == INSTANCE EngineElection WITH
    serving  <- IF lock # NoProc /\ listener[lock] # 0 THEN lock ELSE NoProc,
    term     <- served,
    attached <- [p \in Procs |-> IF pc[p] = "spoke" THEN seen[p].token ELSE 0]
\* The seat, the record and the ping implement that election (an engine "never
\* duplicated", a frontend attached to the one that owns the root).
ImplementsElection == Election!Spec

(* Liveness.                                                               *)

\* Nobody stays on the way: a join ends in a role or in a refusal within its
\* patience, also when engines die and commands take and drop the seat while it
\* looks, and a seat on its way out comes to be free.
JoinSettles ==
    \A p \in Procs : pc[p] \notin Settled \cup {"out"} ~> pc[p] \in Settled \cup {"out"}
=============================================================================
