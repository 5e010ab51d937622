------------------------------ MODULE WorkGate ------------------------------
(***************************************************************************)
(* The work lock, the work ledger and the gate in front of a recomposing   *)
(* installation change: crates/core/src/endpoint/{worklock,ledger,mod}.rs, *)
(* crates/core/src/installation/{gate,registration}.rs, the recomposing    *)
(* verbs of carry_out/recompose.rs, and the command line's own use of the  *)
(* gate in crates/cli/src/installation.rs.                                 *)
(*                                                                         *)
(* `work.lock` is one reader-writer file lock per state root, decided by   *)
(* the operating system.  A worker is a thread that runs one piece of work *)
(* at a time (a turn, a workflow run, an index build); a changer is a      *)
(* thread that makes one installation request at a time.  Every lock       *)
(* operation is a step of its own, and a process may die between any two.  *)
(***************************************************************************)
EXTENDS Naturals, FiniteSets

CONSTANTS
    Roots,      \* state roots: the workspaces' and the machine's own
    Machine,    \* endpoint::machine_root()
    Procs,      \* operating system processes
    Workers,    \* threads that run work
    Changers,   \* threads that ask for an installation change
    ProcOf,     \* the process each thread runs in
    Shipped     \* the stored composition nobody has changed yet

ASSUME ConstantsAssumption ==
    /\ Machine \in Roots
    /\ ProcOf \in [Workers \cup Changers -> Procs]
    /\ Workers \cap Changers = {}
    /\ Shipped \notin Changers

VARIABLES
    shared,     \* shared[r]: the workers holding r's work.lock shared
    exclusive,  \* exclusive[r]: the changers holding r's work.lock exclusive
    work,       \* each worker's place in begin_work_in, its work or its drop
    ledger,     \* ledger[p]: the entries of process p's work ledger
    change,     \* each changer's request and its place in it
    stored      \* stored[r]: what r's own files say work is built from

lockVars == <<shared, exclusive>>
vars == <<lockVars, work, ledger, change, stored>>

Scopes == {"workspace", "machine"}

\* How a change reaches the gate: the handler registered for the verb, the
\* command line's dispatch, or a surface that only asks whether it could.
Paths == {"handler", "cli", "check"}
Requests == [scope: Scopes, path: Paths, root: Roots]

WorkRecords ==
    [pc: {"idle", "machine", "enter", "running", "leave", "unwind",
          "unwind_machine"},
     root: Roots]
NoWork == [pc |-> "idle", root |-> Machine]

ChangeRecords ==
    [pc: {"idle", "naming", "checked", "apply", "release"}, q: Requests]
NoChange ==
    [pc |-> "idle",
     q |-> [scope |-> "workspace", path |-> "check", root |-> Machine]]

-----------------------------------------------------------------------------
(* The operating system's lock: try_lock_shared and try_lock on work.lock. *)

CanShare(r) == exclusive[r] = {}

CanExclude(r) == exclusive[r] = {} /\ shared[r] = {}

\* Mutation of LockRoot: the verb's scope is not consulted.
LockRoot_IgnoringScope(q) == q.root
\* gate::begin_for locks the root of the verb's scope; the command line's
\* dispatch_leaf calls gate::begin on the workspace root for every verb.
LockRoot(q) ==
    IF q.path = "cli" \/ q.scope = "workspace" THEN q.root ELSE Machine

\* The root whose stored state a verb alters: recompose::registry_set_enabled,
\* ext_activate and dev_admit write under the machine root, the others under
\* the workspace root.
AlteredRoot(q) == IF q.scope = "machine" THEN Machine ELSE q.root

\* Work in every workspace is built from the machine's state and its own.
BuiltFrom(w) == {work[w].root, Machine}

-----------------------------------------------------------------------------
Init ==
    /\ shared = [r \in Roots |-> {}]
    /\ exclusive = [r \in Roots |-> {}]
    /\ work = [w \in Workers |-> NoWork]
    /\ ledger = [p \in Procs |-> {}]
    /\ change = [c \in Changers |-> NoChange]
    /\ stored = [r \in Roots |-> Shipped]

-----------------------------------------------------------------------------
(* begin_work_in: the workspace's lock, then the machine's, then the name. *)

\* Mutation of BeginWork: only the workspace's lock is taken.
BeginWork_WithoutMachine(w, r) ==
    /\ work[w].pc = "idle"
    /\ CanShare(r)
    /\ shared' = [shared EXCEPT ![r] = @ \cup {w}]
    /\ work' = [work EXCEPT ![w] = [pc |-> "enter", root |-> r]]
    /\ UNCHANGED <<exclusive, ledger, change, stored>>

\* The first share.  A begin that is refused (an exclusive holder) or fails
\* (the lock cannot be opened) holds nothing and returns.
BeginWork(w, r) ==
    /\ work[w].pc = "idle"
    /\ CanShare(r)
    /\ shared' = [shared EXCEPT ![r] = @ \cup {w}]
    /\ work' = [work EXCEPT ![w] =
                 [pc |-> IF r = Machine THEN "enter" ELSE "machine", root |-> r]]
    /\ UNCHANGED <<exclusive, ledger, change, stored>>

\* The second share, over the machine root: granted; or refused by an
\* exclusive holder or failed, and the first share has still to be dropped.
ShareMachine(w) ==
    /\ work[w].pc = "machine"
    /\ \/ /\ CanShare(Machine)
          /\ shared' = [shared EXCEPT ![Machine] = @ \cup {w}]
          /\ work' = [work EXCEPT ![w].pc = "enter"]
       \/ /\ work' = [work EXCEPT ![w].pc = "unwind"]
          /\ UNCHANGED shared
    /\ UNCHANGED <<exclusive, ledger, change, stored>>

\* Ledger::enter; the work starts once the guard exists.
EnterLedger(w) ==
    /\ work[w].pc = "enter"
    /\ work' = [work EXCEPT ![w].pc = "running"]
    /\ ledger' = [ledger EXCEPT ![ProcOf[w]] = @ \cup {w}]
    /\ UNCHANGED <<lockVars, change, stored>>

\* Mutation of EndWork: the name outlives the locks (the guard's fields swapped).
EndWork_KeepingName(w) ==
    /\ work[w].pc = "running"
    /\ work' = [work EXCEPT ![w].pc = "leave"]
    /\ UNCHANGED <<lockVars, ledger, change, stored>>

\* The work returns, fails or panics: the guard's entry is dropped first.
EndWork(w) ==
    /\ work[w].pc = "running"
    /\ work' = [work EXCEPT ![w].pc = "leave"]
    /\ ledger' = [ledger EXCEPT ![ProcOf[w]] = @ \ {w}]
    /\ UNCHANGED <<lockVars, change, stored>>

\* The shares are dropped in the order they were taken: the workspace's ...
DropRootShare(w) ==
    /\ work[w].pc \in {"leave", "unwind"}
    /\ shared' = [shared EXCEPT ![work[w].root] = @ \ {w}]
    /\ work' = [work EXCEPT ![w] =
                 IF work[w].pc = "leave" /\ work[w].root # Machine
                   THEN [pc |-> "unwind_machine", root |-> work[w].root]
                   ELSE NoWork]
    /\ UNCHANGED <<exclusive, ledger, change, stored>>

\* ... then the machine's.
DropMachineShare(w) ==
    /\ work[w].pc = "unwind_machine"
    /\ shared' = [shared EXCEPT ![Machine] = @ \ {w}]
    /\ work' = [work EXCEPT ![w] = NoWork]
    /\ UNCHANGED <<exclusive, ledger, change, stored>>

-----------------------------------------------------------------------------
(* gate::begin and the change it guards.                                   *)

\* gate::begin over the root the path locks: applying or busy.  A lock that
\* cannot be opened answers "unknown" and changes nothing.
AskGate(c, q) ==
    /\ change[c].pc = "idle"
    /\ \/ /\ CanExclude(LockRoot(q))
          /\ exclusive' = [exclusive EXCEPT ![LockRoot(q)] = @ \cup {c}]
          /\ change' = [change EXCEPT ![c] =
                 [pc |-> IF q.path = "check" THEN "checked" ELSE "apply", q |-> q]]
       \/ /\ ~CanExclude(LockRoot(q))
          /\ change' = [change EXCEPT ![c] =
                         [pc |-> "naming", q |-> q]]
          /\ UNCHANGED exclusive
    /\ UNCHANGED <<shared, work, ledger, stored>>

\* what_is_running names the ledgers' entries (NamedWorkIsLocked says what that
\* is worth); the busy answer is given and the request ends.
AnswerBusy(c) ==
    /\ change[c].pc = "naming"
    /\ change' = [change EXCEPT ![c] = NoChange]
    /\ UNCHANGED <<lockVars, work, ledger, stored>>

\* Letting go of the gate: check_for at once, a change when it is done.
ReleaseGate(c) ==
    /\ change[c].pc \in {"checked", "release"}
    /\ exclusive' = [exclusive EXCEPT ![LockRoot(change[c].q)] = @ \ {c}]
    /\ change' = [change EXCEPT ![c] = NoChange]
    /\ UNCHANGED <<shared, work, ledger, stored>>

\* The verb of carry_out::recompose writes the root it alters (an archetype
\* marker, the agent or extension registry, the admission, a restored tree);
\* one that is rejected or fails leaves it.
ApplyChange(c, m) ==
    /\ change[c].pc = "apply"
    /\ \/ stored' = [stored EXCEPT ![AlteredRoot(change[c].q)] = m]
       \/ UNCHANGED stored
    /\ change' = [change EXCEPT ![c].pc = "release"]
    /\ UNCHANGED <<lockVars, work, ledger>>

-----------------------------------------------------------------------------
\* A process ends, however it ends: the system releases what it held, its
\* ledger is gone, and a new process may take its place.
Crash(p) ==
    LET gone(t) == ProcOf[t] = p
    IN  /\ shared' = [r \in Roots |-> {w \in shared[r] : ~gone(w)}]
        /\ exclusive' = [r \in Roots |-> {c \in exclusive[r] : ~gone(c)}]
        /\ work' = [w \in Workers |-> IF gone(w) THEN NoWork ELSE work[w]]
        /\ change' = [c \in Changers |-> IF gone(c) THEN NoChange ELSE change[c]]
        /\ ledger' = [ledger EXCEPT ![p] = {}]
        /\ UNCHANGED stored

WorkerStep(w) ==
    \/ \E r \in Roots : BeginWork(w, r)
    \/ ShareMachine(w)
    \/ EnterLedger(w)
    \/ EndWork(w)
    \/ DropRootShare(w)
    \/ DropMachineShare(w)

ChangerStep(c) ==
    \/ \E q \in Requests : AskGate(c, q)
    \/ AnswerBusy(c)
    \/ ReleaseGate(c)
    \/ \E m \in {c, Shipped} : ApplyChange(c, m)

Next ==
    \/ \E w \in Workers : WorkerStep(w)
    \/ \E c \in Changers : ChangerStep(c)
    \/ \E p \in Procs : Crash(p)

Spec == Init /\ [][Next]_vars

-----------------------------------------------------------------------------
(* What the gate promises.                                                 *)

Applying(c) == change[c].pc \in {"apply", "release"}
HoldsGate(c, r) ==
    /\ change[c].pc \in {"checked", "apply", "release"}
    /\ LockRoot(change[c].q) = r
HoldsShare(w, r) ==
    \/ /\ work[w].root = r
       /\ work[w].pc \in {"machine", "enter", "running", "leave", "unwind"}
    \/ /\ Machine = r
       /\ work[w].pc \in {"enter", "running", "leave", "unwind_machine"}
Running(w) == work[w].pc = "running"
CliMachineVerb(c) == change[c].q.path = "cli" /\ change[c].q.scope = "machine"

\* The type of every variable.
TypeOK ==
    /\ shared \in [Roots -> SUBSET Workers]
    /\ exclusive \in [Roots -> SUBSET Changers]
    /\ work \in [Workers -> WorkRecords]
    /\ ledger \in [Procs -> SUBSET Workers]
    /\ change \in [Changers -> ChangeRecords]
    /\ stored \in [Roots -> Changers \cup {Shipped}]

\* A lock is held exactly while the program point says so: a begin refused
\* half-way, a guard dropped share by share, a check and a crash leave no
\* share or claim behind, and none is lost early (worklock.rs, "nothing here
\* is remembered").
LocksFollowPrograms ==
    \A r \in Roots :
        /\ shared[r] = {w \in Workers : HoldsShare(w, r)}
        /\ exclusive[r] = {c \in Changers : HoldsGate(c, r)}

\* The gate: while a change is being applied, no work built from the root it
\* alters is running, in any process (gate.rs: "applied only while nothing is
\* running and while nothing can begin") - except under a machine-wide verb of
\* the command line, which locks the caller's workspace instead.
NoWorkUnderChange ==
    \A c \in Changers, w \in Workers :
        Applying(c) /\ ~CliMachineVerb(c)
        => ~(Running(w) /\ AlteredRoot(change[c].q) \in BuiltFrom(w))

\* Two changes to one workspace are never applied at once, whichever way they
\* reach the gate (worklock.rs, two_changes_do_not_apply_at_once).
OneChangePerWorkspace ==
    \A c, d \in Changers :
        /\ c # d
        /\ Applying(c) /\ change[c].q.scope = "workspace"
        /\ Applying(d) /\ change[d].q.scope = "workspace"
        => change[c].q.root # change[d].q.root

\* A name in a ledger is work that still holds both of its locks: the entry is
\* dropped before the shares (WorkGuard's field order), so a refusal never
\* names work a change could already be applied over.
NamedWorkIsLocked ==
    \A p \in Procs : \A w \in ledger[p] :
        /\ ProcOf[w] = p
        /\ \A r \in BuiltFrom(w) : w \in shared[r] /\ exclusive[r] = {}

\* While a change is applied, nothing else is: no work over what it alters, and
\* no other change of the same workspace (gate::begin, try_lock).
ChangesAreExclusive == NoWorkUnderChange /\ OneChangePerWorkspace

\* The locks and the ledgers tell the truth about the programs, in every state
\* between two of their steps (worklock.rs, ledger.rs).
LocksAreTrue == LocksFollowPrograms /\ NamedWorkIsLocked

\* What running work is built from does not change under it, whatever any
\* process does, except through a machine-wide verb of the command line, which
\* locks the caller's workspace root instead of the machine's.
SteadyUnderWork ==
    [][\A w \in Workers : \A r \in BuiltFrom(w) :
          Running(w) /\ stored'[r] # stored[r]
          => \E c \in Changers : change[c].pc = "apply" /\ CliMachineVerb(c)]_vars

-----------------------------------------------------------------------------
(* A statement of the code that the code does not meet.                    *)

\* "The machine's: agent definitions, the extension registry, the developer-
\* office admission. Work in every workspace is built from them" (gate.rs):
\* no change is applied while work it alters runs.
NoWorkUnderAnyChange ==
    \A c \in Changers, w \in Workers :
        Applying(c) => ~(Running(w) /\ AlteredRoot(change[c].q) \in BuiltFrom(w))

=============================================================================
