--------------------------- MODULE WorkGateProofs ---------------------------
(***************************************************************************)
(* The gate's exclusion for any number of roots, processes, workers and    *)
(* changers.  The invariant says who holds which lock at each program      *)
(* point (LocksFollowPrograms), what the operating system guarantees of    *)
(* the lock (LockExclusion), and that the ledger lists exactly the running *)
(* work (LedgerFollowsWork); the promises of the gate follow from the      *)
(* three together.                                                         *)
(***************************************************************************)
EXTENDS WorkGate, TLAPS

\* The reader-writer lock: a holder of the exclusive lock is alone.
LockExclusion ==
    \A r \in Roots :
        /\ \A c \in exclusive[r] : shared[r] = {}
        /\ \A c, d \in exclusive[r] : c = d

\* The ledger of a process lists its running work and nothing else.
LedgerFollowsWork ==
    \A p \in Procs : ledger[p] = {w \in Workers : ProcOf[w] = p /\ Running(w)}

IInv == TypeOK /\ LocksFollowPrograms /\ LockExclusion /\ LedgerFollowsWork

\* A request locks a state root.
LEMMA LockRootIsRoot ==
    ASSUME NEW q \in Requests
    PROVE  LockRoot(q) \in Roots /\ AlteredRoot(q) \in Roots
BY ConstantsAssumption DEF LockRoot, AlteredRoot, Requests

\* The strengthened invariant holds before anything has begun.
LEMMA InitIInv == Init => IInv
<1> SUFFICES ASSUME Init PROVE IInv
    OBVIOUS
<1>1. TypeOK
    BY ConstantsAssumption
    DEF Init, TypeOK, NoWork, NoChange, WorkRecords, ChangeRecords, Requests,
        Scopes, Paths
<1>2. LocksFollowPrograms /\ LockExclusion /\ LedgerFollowsWork
    BY ConstantsAssumption
    DEF Init, NoWork, NoChange, LocksFollowPrograms, LockExclusion,
        LedgerFollowsWork, HoldsShare, HoldsGate, Running
<1> QED BY <1>1, <1>2 DEF IInv

\* Types are kept by every step of a worker.
LEMMA WorkerStepType ==
    ASSUME TypeOK, NEW w \in Workers, WorkerStep(w)
    PROVE  TypeOK'
<1> USE ConstantsAssumption DEF TypeOK, WorkRecords, NoWork, lockVars
<1>1. CASE \E r \in Roots : BeginWork(w, r)
    BY <1>1 DEF BeginWork
<1>2. CASE ShareMachine(w)
    BY <1>2 DEF ShareMachine
<1>3. CASE EnterLedger(w)
    BY <1>3 DEF EnterLedger
<1>4. CASE EndWork(w)
    BY <1>4 DEF EndWork
<1>5. CASE DropRootShare(w)
    BY <1>5 DEF DropRootShare
<1>6. CASE DropMachineShare(w)
    BY <1>6 DEF DropMachineShare
<1> QED BY <1>1, <1>2, <1>3, <1>4, <1>5, <1>6 DEF WorkerStep

\* ... and by every step of a changer and every crash.
LEMMA ChangerStepType ==
    ASSUME TypeOK, NEW c \in Changers, ChangerStep(c)
    PROVE  TypeOK'
<1> USE ConstantsAssumption DEF TypeOK, lockVars
<1>0. NoChange \in ChangeRecords
    BY DEF NoChange, ChangeRecords, Requests, Scopes, Paths
<1>1. ASSUME NEW q \in Requests, AskGate(c, q) PROVE TypeOK'
    <2>1. LockRoot(q) \in Roots
        BY LockRootIsRoot
    <2>2. \A pc \in {"checked", "apply", "naming"} :
             [pc |-> pc, q |-> q] \in ChangeRecords
        BY DEF ChangeRecords
    <2>3. \E pc \in {"checked", "apply", "naming"} :
             change' = [change EXCEPT ![c] = [pc |-> pc, q |-> q]]
        BY <1>1 DEF AskGate
    <2>4. change' \in [Changers -> ChangeRecords]
        BY <2>2, <2>3
    <2>5. exclusive' \in [Roots -> SUBSET Changers]
        BY <1>1, <2>1 DEF AskGate
    <2> QED BY <1>1, <2>4, <2>5 DEF AskGate
<1>2. CASE AnswerBusy(c)
    BY <1>2, <1>0 DEF AnswerBusy
<1>3. CASE ReleaseGate(c)
    BY <1>3, <1>0, LockRootIsRoot DEF ReleaseGate
<1>4. ASSUME NEW m \in {c, Shipped}, ApplyChange(c, m) PROVE TypeOK'
    BY <1>4, LockRootIsRoot DEF ApplyChange, ChangeRecords
<1> QED BY <1>1, <1>2, <1>3, <1>4 DEF ChangerStep

\* A process's end keeps the types.
LEMMA CrashType ==
    ASSUME TypeOK, NEW p \in Procs, Crash(p)
    PROVE  TypeOK'
<1>1. NoChange \in ChangeRecords /\ NoWork \in WorkRecords
    BY ConstantsAssumption
    DEF NoChange, ChangeRecords, Requests, Scopes, Paths, NoWork, WorkRecords
<1> QED BY <1>1, ConstantsAssumption DEF TypeOK, Crash

\* A worker's step keeps the locks, the exclusion and the ledger in order.
LEMMA WorkerStepLocks ==
    ASSUME IInv, NEW w \in Workers, WorkerStep(w), TypeOK'
    PROVE  (LocksFollowPrograms /\ LockExclusion /\ LedgerFollowsWork)'
<1> USE ConstantsAssumption
    DEF IInv, TypeOK, WorkRecords, NoWork, lockVars, LocksFollowPrograms,
        LockExclusion, LedgerFollowsWork, HoldsShare, HoldsGate, Running
<1>1. ASSUME NEW r \in Roots, BeginWork(w, r)
      PROVE  (LocksFollowPrograms /\ LockExclusion /\ LedgerFollowsWork)'
    BY <1>1 DEF BeginWork, CanShare
<1>2. CASE ShareMachine(w)
    <2>1. CASE CanShare(Machine) /\ work' = [work EXCEPT ![w].pc = "enter"]
                 /\ shared' = [shared EXCEPT ![Machine] = @ \cup {w}]
        BY <1>2, <2>1 DEF ShareMachine, CanShare
    <2>2. CASE work' = [work EXCEPT ![w].pc = "unwind"] /\ UNCHANGED shared
        BY <1>2, <2>2 DEF ShareMachine
    <2> QED BY <1>2, <2>1, <2>2 DEF ShareMachine
<1>3. CASE EnterLedger(w)
    BY <1>3 DEF EnterLedger
<1>4. CASE EndWork(w)
    BY <1>4 DEF EndWork
<1>5. CASE DropRootShare(w)
    BY <1>5 DEF DropRootShare
<1>6. CASE DropMachineShare(w)
    BY <1>6 DEF DropMachineShare
<1> QED BY <1>1, <1>2, <1>3, <1>4, <1>5, <1>6 DEF WorkerStep

\* So does a changer's.
LEMMA ChangerStepLocks ==
    ASSUME IInv, NEW c \in Changers, ChangerStep(c), TypeOK'
    PROVE  (LocksFollowPrograms /\ LockExclusion /\ LedgerFollowsWork)'
<1> USE ConstantsAssumption
    DEF IInv, TypeOK, lockVars, LocksFollowPrograms, LockExclusion,
        LedgerFollowsWork, HoldsShare, HoldsGate, Running
<1>1. ASSUME NEW q \in Requests, AskGate(c, q)
      PROVE  (LocksFollowPrograms /\ LockExclusion /\ LedgerFollowsWork)'
    <2> DEFINE L == LockRoot(q)
    <2>0. L \in Roots
        BY LockRootIsRoot
    <2>1. LedgerFollowsWork' /\ \A r \in Roots, w \in Workers :
             HoldsShare(w, r)' <=> HoldsShare(w, r)
        BY <1>1 DEF AskGate
    <2>2. ASSUME CanExclude(L),
                 NEW pc \in {"checked", "apply"},
                 exclusive' = [exclusive EXCEPT ![L] = @ \cup {c}],
                 change' = [change EXCEPT ![c] = [pc |-> pc, q |-> q]]
          PROVE  (LocksFollowPrograms /\ LockExclusion)'
        <3>1. change'[c] = [pc |-> pc, q |-> q] /\ LockRoot(change'[c].q) = L
            BY <2>2
        <3>2. \A d \in Changers \ {c} : change'[d] = change[d]
            BY <2>2
        <3>3. \A r \in Roots : ~HoldsGate(c, r)
            BY <1>1 DEF AskGate
        <3>4. \A r \in Roots, d \in Changers :
                 d \in exclusive'[r] <=> HoldsGate(d, r)'
            BY <2>0, <2>2, <3>1, <3>2, <3>3
        <3>5. exclusive[L] = {} /\ shared[L] = {}
            BY <2>2 DEF CanExclude
        <3>6. shared' = shared
            BY <1>1 DEF AskGate
        <3>7. LockExclusion'
            BY <2>0, <2>2, <3>5, <3>6
        <3> QED BY <2>1, <3>4, <3>6, <3>7
    <2>3. ASSUME exclusive' = exclusive,
                 change' = [change EXCEPT ![c] = [pc |-> "naming", q |-> q]]
          PROVE  (LocksFollowPrograms /\ LockExclusion)'
        BY <1>1, <2>3 DEF AskGate
    <2> QED BY <1>1, <2>1, <2>2, <2>3 DEF AskGate
<1>2. CASE AnswerBusy(c)
    BY <1>2 DEF AnswerBusy, ChangeRecords, NoChange
<1>3. CASE ReleaseGate(c)
    BY <1>3, LockRootIsRoot DEF ReleaseGate, ChangeRecords, NoChange
<1>4. ASSUME NEW m \in {c, Shipped}, ApplyChange(c, m)
      PROVE  (LocksFollowPrograms /\ LockExclusion /\ LedgerFollowsWork)'
    BY <1>4 DEF ApplyChange, ChangeRecords
<1> QED BY <1>1, <1>2, <1>3, <1>4 DEF ChangerStep

\* A crash releases exactly what the dead process held.
LEMMA CrashLocks ==
    ASSUME IInv, NEW p \in Procs, Crash(p)
    PROVE  (LocksFollowPrograms /\ LockExclusion /\ LedgerFollowsWork)'
BY ConstantsAssumption
DEF IInv, TypeOK, Crash, LocksFollowPrograms, LockExclusion, LedgerFollowsWork,
    HoldsShare, HoldsGate, Running, NoWork, NoChange

\* Every step of a worker, a changer or a dying process keeps the strengthened
\* invariant.
LEMMA StepIInv == IInv /\ [Next]_vars => IInv'
<1> SUFFICES ASSUME IInv, [Next]_vars PROVE IInv'
    OBVIOUS
<1>1. ASSUME NEW w \in Workers, WorkerStep(w) PROVE IInv'
    BY <1>1, WorkerStepType, WorkerStepLocks DEF IInv
<1>2. ASSUME NEW c \in Changers, ChangerStep(c) PROVE IInv'
    BY <1>2, ChangerStepType, ChangerStepLocks DEF IInv
<1>3. ASSUME NEW p \in Procs, Crash(p) PROVE IInv'
    BY <1>3, CrashType, CrashLocks DEF IInv
<1>4. CASE UNCHANGED vars
    BY <1>4
    DEF vars, lockVars, IInv, TypeOK, LocksFollowPrograms, LockExclusion,
        LedgerFollowsWork, HoldsShare, HoldsGate, Running
<1> QED BY <1>1, <1>2, <1>3, <1>4 DEF Next

\* The inductive invariant holds in every reachable state, for any number of
\* roots, processes, workers and changers.
THEOREM GateInvariant == Spec => []IInv
<1>1. Init => IInv
    BY InitIInv
<1>2. IInv /\ [Next]_vars => IInv'
    BY StepIInv
<1> QED BY <1>1, <1>2, PTL DEF Spec

-----------------------------------------------------------------------------
(* The promises of the gate.                                               *)

\* Every variable of the lock, the ledger and the gate keeps its type.
THEOREM GateTypes == Spec => []TypeOK
BY GateInvariant, PTL DEF IInv

\* No share and no claim is leaked or lost: begin_work_in, WorkGuard's drop,
\* check_for, the gated handlers and crashes leave the locks as the program
\* points say.
THEOREM LocksAreAccountedFor == Spec => []LocksFollowPrograms
BY GateInvariant, PTL DEF IInv

\* A running worker holds the lock of every root it is built from.
LEMMA RunningHolds ==
    ASSUME IInv, NEW w \in Workers, Running(w), NEW r \in BuiltFrom(w)
    PROVE  r \in Roots /\ w \in shared[r] /\ exclusive[r] = {}
<1>1. r \in Roots
    BY ConstantsAssumption DEF BuiltFrom, IInv, TypeOK, WorkRecords
<1>2. HoldsShare(w, r)
    BY DEF BuiltFrom, HoldsShare, Running
<1>3. w \in shared[r]
    BY <1>1, <1>2 DEF IInv, LocksFollowPrograms
<1> QED BY <1>1, <1>3 DEF IInv, LockExclusion, TypeOK

\* A change that did not come from the command line's machine-wide verbs locks
\* the root it alters.
LEMMA ApplyingHolds ==
    ASSUME IInv, NEW c \in Changers, Applying(c), ~CliMachineVerb(c)
    PROVE  /\ AlteredRoot(change[c].q) \in Roots
           /\ c \in exclusive[AlteredRoot(change[c].q)]
<1>1. change[c].q \in Requests
    BY DEF IInv, TypeOK, ChangeRecords
<1>2. LockRoot(change[c].q) = AlteredRoot(change[c].q)
    BY <1>1 DEF LockRoot, AlteredRoot, CliMachineVerb, Requests, Scopes, Paths
<1>3. HoldsGate(c, AlteredRoot(change[c].q))
    BY <1>2 DEF HoldsGate, Applying
<1> QED BY <1>1, <1>3, LockRootIsRoot DEF IInv, LocksFollowPrograms

\* While a change is applied, no work built from the root it alters runs.
THEOREM GateExclusion == Spec => []NoWorkUnderChange
<1>1. IInv => NoWorkUnderChange
    BY RunningHolds, ApplyingHolds DEF NoWorkUnderChange
<1> QED BY <1>1, GateInvariant, PTL

\* Two changes to one workspace are never applied at once.
THEOREM WorkspaceChangesSerialised == Spec => []OneChangePerWorkspace
<1>1. IInv => OneChangePerWorkspace
    <2> SUFFICES ASSUME IInv, NEW c \in Changers, NEW d \in Changers, c # d,
                        Applying(c), change[c].q.scope = "workspace",
                        Applying(d), change[d].q.scope = "workspace",
                        change[c].q.root = change[d].q.root
                 PROVE  FALSE
        BY DEF OneChangePerWorkspace
    <2>1. ~CliMachineVerb(c) /\ ~CliMachineVerb(d)
        BY DEF CliMachineVerb
    <2>2. AlteredRoot(change[c].q) = AlteredRoot(change[d].q)
        BY DEF AlteredRoot
    <2> QED BY <2>1, <2>2, ApplyingHolds DEF IInv, LockExclusion
<1> QED BY <1>1, GateInvariant, PTL

\* A ledger names only work that still holds its locks.
THEOREM LedgerNamesLockedWork == Spec => []NamedWorkIsLocked
<1>1. IInv => NamedWorkIsLocked
    <2> SUFFICES ASSUME IInv, NEW p \in Procs, NEW w \in ledger[p]
                 PROVE  /\ ProcOf[w] = p
                        /\ \A r \in BuiltFrom(w) : w \in shared[r] /\ exclusive[r] = {}
        BY DEF NamedWorkIsLocked
    <2>1. w \in Workers /\ ProcOf[w] = p /\ Running(w)
        BY DEF IInv, LedgerFollowsWork
    <2> QED BY <2>1, RunningHolds
<1> QED BY <1>1, GateInvariant, PTL

\* The gate as a whole: a change under way is alone with what it alters.
THEOREM GateKeepsChangesApart == Spec => []ChangesAreExclusive
BY GateExclusion, WorkspaceChangesSerialised, PTL DEF ChangesAreExclusive

\* Lock files and ledgers agree with the programs, in every state.
THEOREM LocksTellTheTruth == Spec => []LocksAreTrue
BY LocksAreAccountedFor, LedgerNamesLockedWork, PTL DEF LocksAreTrue

\* What running work is built from changes only through a machine-wide verb of
\* the command line.
THEOREM WorkIsSteady == Spec => SteadyUnderWork
<1> DEFINE Steady == \A w \in Workers : \A r \in BuiltFrom(w) :
                Running(w) /\ stored'[r] # stored[r]
                => \E c \in Changers : change[c].pc = "apply" /\ CliMachineVerb(c)
<1>1. ASSUME IInv, [Next]_vars PROVE [Steady]_vars
    <2> SUFFICES ASSUME Next, NEW w \in Workers, NEW r \in BuiltFrom(w),
                        Running(w), stored'[r] # stored[r]
                 PROVE  \E c \in Changers : change[c].pc = "apply" /\ CliMachineVerb(c)
        BY <1>1
    <2>1. PICK c \in Changers : \E m \in {c, Shipped} : ApplyChange(c, m)
        BY DEF Next, WorkerStep, ChangerStep, Crash, BeginWork, ShareMachine,
            EnterLedger, EndWork, DropRootShare, DropMachineShare, AskGate,
            AnswerBusy, ReleaseGate
    <2>2. change[c].pc = "apply" /\ r = AlteredRoot(change[c].q)
        BY <1>1, <2>1, RunningHolds DEF ApplyChange, IInv, TypeOK
    <2>3. ASSUME ~CliMachineVerb(c) PROVE FALSE
        BY <1>1, <2>2, <2>3, RunningHolds, ApplyingHolds DEF Applying
    <2> QED BY <2>2, <2>3
<1> QED BY <1>1, GateInvariant, PTL DEF Spec, SteadyUnderWork
=============================================================================
