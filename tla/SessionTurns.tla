---------------------------- MODULE SessionTurns ----------------------------
(***************************************************************************)
(* The turns an engine runs for session.say and how session.stop finds     *)
(* them: core/src/invocable_bootstrap/session.rs, with the directory a     *)
(* handler takes for its caller's (domain/src/paths.rs).                   *)
(*                                                                         *)
(* A call takes work over its caller's workspace, enters the process-wide  *)
(* list of running turns and goes on in a thread of its own, which runs    *)
(* the turn, settles the stream and lets go, in this order, of its work    *)
(* and of its place in the list.  The gate of WorkGate is reduced to what  *)
(* it promises: work and a change of one workspace exclude each other.     *)
(***************************************************************************)
CONSTANTS
    Calls,      \* calls of session.say
    Sessions,
    Roots,      \* workspaces the callers stand in
    EngineRoot, \* the one the engine's process stands in
    NoRoot

ASSUME TurnsAssumption ==
    /\ EngineRoot \in Roots
    /\ NoRoot \notin Roots

VARIABLES
    place,      \* where each call is
    call,       \* its session, its caller's root, and the one it records in
    inFlight,   \* IN_FLIGHT: the calls whose turns can be stopped
    ahead,      \* its order: <<d, c>> when d's entry was pushed before c's
    cancelled,  \* calls whose CancelHandle is set
    work,       \* calls that hold a WorkGuard
    changing    \* workspaces with an installation change under way

vars == <<place, call, inFlight, ahead, cancelled, work, changing>>

Places == {"idle", "refused", "admitted", "registered", "spawned", "running", "recorded",
           "ended", "released", "gone"}

Init ==
    /\ place = [c \in Calls |-> "idle"]
    /\ call \in [Calls -> [session: Sessions, root: Roots, dir: {NoRoot}]]
    /\ inFlight = {}
    /\ ahead = {}
    /\ cancelled = {}
    /\ work = {}
    /\ changing = {}

Step(c, from, to) ==
    /\ place[c] = from
    /\ place' = [place EXCEPT ![c] = to]

-----------------------------------------------------------------------------
\* begin_work over the caller's workspace, refused while it is being changed.
BeginWork(c) ==
    /\ \/ /\ call[c].root \in changing
          /\ Step(c, "idle", "refused")
          /\ UNCHANGED work
       \/ /\ call[c].root \notin changing
          /\ Step(c, "idle", "admitted")
          /\ work' = work \cup {c}
    /\ UNCHANGED <<call, inFlight, ahead, cancelled, changing>>

\* RunningTurn::register
Register(c) ==
    /\ Step(c, "admitted", "registered")
    /\ inFlight' = inFlight \cup {c}
    /\ ahead' = ahead \cup (inFlight \X {c})
    /\ UNCHANGED <<call, cancelled, work, changing>>

\* RunningTurn::drop keeps the entries of other sessions, in their order.
OtherSessions(c) == {d \in inFlight : call[d].session # call[c].session}

KeepOthers(c) ==
    /\ inFlight' = OtherSessions(c)
    /\ ahead' = ahead \cap (OtherSessions(c) \X OtherSessions(c))

\* Mutation of Spawn: the guard is not moved into the thread, and goes when
\* the handler returns.
Spawn_GuardLeftBehind(c) ==
    /\ Step(c, "registered", "spawned")
    /\ work' = work \ {c}
    /\ UNCHANGED <<call, inFlight, ahead, cancelled, changing>>

\* The thread begins, and owns the guard and the entry; the handler has returned
\* the stream.
Spawn(c) ==
    /\ Step(c, "registered", "spawned")
    /\ UNCHANGED <<call, inFlight, ahead, cancelled, work, changing>>

\* It cannot begin: spawn panics, and what the thread would have owned is dropped.
SpawnFails(c) ==
    /\ Step(c, "registered", "gone")
    /\ KeepOthers(c)
    /\ work' = work \ {c}
    /\ UNCHANGED <<call, cancelled, changing>>

\* sessions_dir(), asked by the thread, in which no caller's directory is set.
SessionsDir(c) ==
    /\ Step(c, "spawned", "running")
    /\ call' = [call EXCEPT ![c].dir = EngineRoot]
    /\ UNCHANGED <<inFlight, ahead, cancelled, work, changing>>

\* run_turn comes back, the turn recorded: the model has answered or failed.
Answer(c) ==
    /\ Step(c, "running", "recorded")
    /\ UNCHANGED <<call, inFlight, ahead, cancelled, work, changing>>

\* ... or it was cancelled, which its stream notices.
CutShort(c) ==
    /\ c \in cancelled
    /\ Answer(c)

\* sink.end: the caller sees the turn settled.
End(c) ==
    /\ Step(c, "recorded", "ended")
    /\ UNCHANGED <<call, inFlight, ahead, cancelled, work, changing>>

\* The thread's locals go, the last declared first.
DropWork(c) ==
    /\ Step(c, "ended", "released")
    /\ work' = work \ {c}
    /\ UNCHANGED <<call, inFlight, ahead, cancelled, changing>>

\* Mutation of DropRunning: the entry stays.
DropRunning_Not(c) ==
    /\ Step(c, "released", "gone")
    /\ UNCHANGED <<call, inFlight, ahead, cancelled, work, changing>>

DropRunning(c) ==
    /\ Step(c, "released", "gone")
    /\ KeepOthers(c)
    /\ UNCHANGED <<call, cancelled, work, changing>>

\* session.stop: the first running turn of the session is cancelled; with none
\* there, nothing happens.
Stop(s) ==
    LET found == {c \in inFlight : call[c].session = s} IN
    /\ \E c \in found :
          /\ \A d \in found \ {c} : <<c, d>> \in ahead
          /\ cancelled' = cancelled \cup {c}
    /\ UNCHANGED <<place, call, inFlight, ahead, work, changing>>

\* An installation change of a workspace, refused while work runs over it.
BeginChange(r) ==
    /\ r \notin changing
    /\ \A c \in work : call[c].root # r
    /\ changing' = changing \cup {r}
    /\ UNCHANGED <<place, call, inFlight, ahead, cancelled, work>>

EndChange(r) ==
    /\ r \in changing
    /\ changing' = changing \ {r}
    /\ UNCHANGED <<place, call, inFlight, ahead, cancelled, work>>

ThreadStep(c) ==
    \/ Spawn(c) \/ SpawnFails(c) \/ SessionsDir(c) \/ CutShort(c) \/ End(c) \/ DropWork(c)
    \/ DropRunning(c)

Next ==
    \/ \E c \in Calls : BeginWork(c) \/ Register(c) \/ ThreadStep(c) \/ Answer(c)
    \/ \E s \in Sessions : Stop(s)
    \/ \E r \in Roots : BeginChange(r) \/ EndChange(r)

Spec == Init /\ [][Next]_vars

\* A thread runs on, and a cancelled model's stream is polled; a model that
\* was not cancelled need never answer.
FairSpec == Spec /\ \A c \in Calls : WF_vars(Register(c)) /\ WF_vars(ThreadStep(c))

-----------------------------------------------------------------------------
(* Properties.                                                             *)

\* "A change is refused while one is running", and no turn begins under one:
\* from its admission to its settled stream a turn's workspace is not changed,
\* though the handler that admitted it returned long before.
ChangesWaitForTurns ==
    \A c \in Calls :
        place[c] \in {"admitted", "registered", "spawned", "running", "recorded", "ended"}
            => call[c].root \notin changing

\* A turn's entry is "removed when the turn ends however it ends": what can be
\* stopped is a turn that has not let go yet.  And the end of a
\* turn takes no other session's turn out of reach: one that has its session
\* to itself can be stopped as long as it runs.
EntriesAreOfLiveTurns ==
    /\ \A c \in inFlight : place[c] \notin {"idle", "refused", "admitted", "gone"}
    /\ \A c \in Calls :
          /\ place[c] \in {"registered", "spawned", "running"}
          /\ \A d \in Calls \ {c} : call[d].session # call[c].session
          => c \in inFlight

\* A turn that was stopped comes to its end, and gives back its work and its
\* place in the list.
StoppedTurnsEnd ==
    \A c \in Calls :
        c \in cancelled ~> (c \notin work \cup inFlight)

-----------------------------------------------------------------------------
(* A statement of the code that it does not keep.                          *)

\* "its journals live in the current workspace's sessions/", and a handler runs
\* "as an invocation made from there": a turn is recorded in the caller's
\* workspace.
RecordedWhereAsked ==
    \A c \in Calls : call[c].dir \in {NoRoot, call[c].root}

=============================================================================
