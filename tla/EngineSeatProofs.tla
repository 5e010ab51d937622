-------------------------- MODULE EngineSeatProofs --------------------------
(***************************************************************************)
(* One engine per state root, for any number of processes and releases,    *)
(* any patience and any number of terms of service; and the proof that the *)
(* lock, the record and the ping implement EngineElection.                 *)
(*                                                                         *)
(* The invariant says which places hold a listener (ListenersAreSeated),   *)
(* what the record can be at each place of the seat's holder               *)
(* (RecordFollowsSeat), and that a record, on disk or in the hands of a    *)
(* joiner, never lies about a listener that is open (Truthful): its token  *)
(* names that listener or one that is gone for ever.                       *)
(***************************************************************************)
EXTENDS EngineSeat, TLAPS

Listening == {"publish", "engine", "stop"}

\* A listener is open exactly while its process is serving or about to stop,
\* and it is the newest there ever was.
ListenersAreSeated ==
    \A p \in Procs :
        /\ pc[p] \in Listening <=> listener[p] # 0
        /\ listener[p] # 0 => listener[p] = served

\* What a record says of a listener that is open is true, and it names no
\* listener that is yet to come.
Truthful(r) ==
    /\ r.token <= served
    /\ \A q \in Procs : listener[q] # 0 /\ listener[q] = r.token => r.release = Release[q]

\* No record before the holder publishes one, then its own.
RecordFollowsSeat ==
    /\ Truthful(record)
    /\ record # Absent => record.token # 0
    /\ \A p \in Procs : pc[p] \in {"held", "publish"} => record = Absent

\* What a joiner goes by.
SeenIsTrue ==
    \A p \in Procs :
        /\ Truthful(seen[p])
        /\ pc[p] \in {"ping", "spoke"} => seen[p].token # 0 /\ seen[p].release = Release[p]

IInv ==
    /\ TypeOK
    /\ OneEngine
    /\ ListenersAreSeated
    /\ RecordFollowsSeat
    /\ SeenIsTrue
    /\ EngineIsFindable

\* The strengthened invariant holds before anybody has started.
LEMMA InitIInv == Init => IInv
BY SeatAssumption
DEF Init, IInv, TypeOK, OneEngine, ListenersAreSeated, RecordFollowsSeat, SeenIsTrue,
    EngineIsFindable, Truthful, Records, Absent, Kinds, PCs, Seated, Settled, Listening

\* Types are kept by every step of a process.
LEMMA NextType == TypeOK /\ [Next]_vars => TypeOK'
<1> SUFFICES ASSUME TypeOK, [Next]_vars PROVE TypeOK'
    OBVIOUS
<1> USE SeatAssumption
    DEF TypeOK, Goto, EndJoin, PCs, Seated, Settled, Kinds
<1>0. Absent \in Records
    BY DEF Absent, Records
<1>1. ASSUME NEW p \in Procs, NEW k \in Kinds, Start(p, k) PROVE TypeOK'
    BY <1>1 DEF Start
<1>2. ASSUME NEW p \in Procs, Proceed(p) PROVE TypeOK'
    <2>1. CASE TryLock(p)
        BY <1>0, <2>1 DEF TryLock
    <2>2. CASE ClearRecord(p)
        BY <1>0, <2>2 DEF ClearRecord
    <2>3. CASE ReadRecord(p)
        BY <1>0, <2>3 DEF ReadRecord
    <2>4. CASE Ping(p)
        BY <1>0, <2>4 DEF Ping
    <2>5. CASE Retry(p)
        BY <1>0, <2>5 DEF Retry
    <2>6. CASE StandAside(p)
        BY <2>6 DEF StandAside
    <2>7. CASE Serve(p)
        BY <2>7 DEF Serve
    <2>8. CASE Publish(p)
        BY <2>8 DEF Publish, Records, Releases
    <2>9. CASE StopServer(p)
        BY <2>9 DEF StopServer
    <2>10. CASE DropSeat(p)
        BY <1>0, <2>10 DEF DropSeat
    <2>11. CASE Unlock(p)
        BY <2>11 DEF Unlock
    <2> QED
        BY <1>2, <2>1, <2>2, <2>3, <2>4, <2>5, <2>6, <2>7, <2>8, <2>9, <2>10, <2>11
        DEF Proceed
<1>3. ASSUME NEW p \in Procs, LeaveEngine(p) PROVE TypeOK'
    BY <1>3 DEF LeaveEngine
<1>4. ASSUME NEW p \in Procs, Exit(p) PROVE TypeOK'
    BY <1>0, <1>4 DEF Exit
<1>5. ASSUME NEW p \in Procs, Crash(p) PROVE TypeOK'
    BY <1>0, <1>5 DEF Crash
<1>6. CASE UNCHANGED vars
    BY <1>6 DEF vars, joinVars
<1> QED BY <1>1, <1>2, <1>3, <1>4, <1>5, <1>6 DEF Next

\* What the seat, the record and the listeners are to each other is kept too.
LEMMA ProceedSeat ==
    ASSUME IInv, TypeOK', NEW p \in Procs, Proceed(p)
    PROVE  IInv'
<1> USE SeatAssumption
    DEF IInv, TypeOK, OneEngine, ListenersAreSeated, RecordFollowsSeat, SeenIsTrue,
        EngineIsFindable, Truthful, Goto, EndJoin, Listening, Seated, Absent, Records
<1>1. CASE TryLock(p)
    <2> USE <1>1 DEF TryLock
    <2>1. OneEngine' /\ ListenersAreSeated'
        OBVIOUS
    <2>2. RecordFollowsSeat' /\ EngineIsFindable'
        OBVIOUS
    <2>3. SeenIsTrue'
        OBVIOUS
    <2> QED BY <2>1, <2>2, <2>3
<1>2. CASE ClearRecord(p)
    BY <1>2, SMTT(30) DEF ClearRecord
<1>3. CASE ReadRecord(p)
    BY <1>3 DEF ReadRecord
<1>4. CASE Ping(p)
    <2> USE <1>4 DEF Ping
    <2>0. pc[p] = "ping" /\ pc' \in {[pc EXCEPT ![p] = "spoke"], [pc EXCEPT ![p] = "wait"]}
        OBVIOUS
    <2>1. OneEngine'
        BY <2>0
    <2>2. ListenersAreSeated'
        BY <2>0
    <2>3. RecordFollowsSeat' /\ EngineIsFindable'
        OBVIOUS
    <2>4. SeenIsTrue'
        OBVIOUS
    <2> QED BY <2>1, <2>2, <2>3, <2>4
<1>5. CASE Retry(p)
    <2> USE <1>5 DEF Retry
    <2>1. OneEngine' /\ ListenersAreSeated'
        OBVIOUS
    <2>2. RecordFollowsSeat' /\ EngineIsFindable'
        OBVIOUS
    <2>3. SeenIsTrue'
        OBVIOUS
    <2> QED BY <2>1, <2>2, <2>3
<1>6. CASE StandAside(p)
    BY <1>6 DEF StandAside
<1>7. CASE Serve(p)
    BY <1>7 DEF Serve
<1>8. CASE Publish(p)
    <2> USE <1>8 DEF Publish
    <2>1. OneEngine' /\ ListenersAreSeated' /\ SeenIsTrue'
        BY SMTT(30)
    <2>2. RecordFollowsSeat'
        OBVIOUS
    <2>3. EngineIsFindable'
        OBVIOUS
    <2> QED BY <2>1, <2>2, <2>3
<1>9. CASE StopServer(p)
    BY <1>9 DEF StopServer
<1>10. CASE DropSeat(p)
    BY <1>10 DEF DropSeat
<1>11. CASE Unlock(p)
    BY <1>11 DEF Unlock
<1> QED
    BY <1>1, <1>2, <1>3, <1>4, <1>5, <1>6, <1>7, <1>8, <1>9, <1>10, <1>11 DEF Proceed

\* ... and by starting, leaving, exiting and being killed.
LEMMA NextIInv == IInv /\ [Next]_vars => IInv'
<1> SUFFICES ASSUME IInv, [Next]_vars PROVE IInv'
    OBVIOUS
<1>0. TypeOK'
    BY NextType DEF IInv
<1>1. ASSUME NEW p \in Procs, Proceed(p) PROVE IInv'
    BY <1>0, <1>1, ProceedSeat
<1> USE <1>0, SeatAssumption
    DEF IInv, TypeOK, OneEngine, ListenersAreSeated, RecordFollowsSeat, SeenIsTrue,
        EngineIsFindable, Truthful, Goto, EndJoin, Listening, Seated, Absent, Records
<1>2. ASSUME NEW p \in Procs, NEW k \in Kinds, Start(p, k) PROVE IInv'
    BY <1>2 DEF Start
<1>3. ASSUME NEW p \in Procs, LeaveEngine(p) PROVE IInv'
    BY <1>3 DEF LeaveEngine
<1>4. ASSUME NEW p \in Procs, Exit(p) PROVE IInv'
    BY <1>4 DEF Exit, Settled
<1>5. ASSUME NEW p \in Procs, Crash(p) PROVE IInv'
    BY <1>5 DEF Crash
<1>6. CASE UNCHANGED vars
    BY <1>6 DEF vars, joinVars
<1> QED BY <1>1, <1>2, <1>3, <1>4, <1>5, <1>6 DEF Next

\* Every variable of the seat keeps its type, whatever processes do.
THEOREM SeatTypes == Spec => []TypeOK
<1>1. TypeOK /\ [Next]_vars => TypeOK'
    BY NextType
<1>2. Init => TypeOK
    BY InitIInv DEF IInv
<1> QED BY <1>1, <1>2, PTL DEF Spec

\* The strengthened invariant holds throughout.
LEMMA SpecIInv == Spec => []IInv
<1> QED BY InitIInv, NextIInv, PTL DEF Spec

\* One engine per state root (endpoint/mod.rs), for any number of processes.
THEOREM SeatHasOneEngine == Spec => []OneEngine
<1>1. IInv => OneEngine
    BY DEF IInv
<1> QED BY <1>1, SpecIInv, PTL

\* Two listeners of one root are never open at once: EngineHost's server is
\* dropped before its seat.
THEOREM SeatHasOneListener == Spec => []OneListener
<1>1. IInv => OneListener
    BY SeatAssumption
    DEF IInv, OneEngine, ListenersAreSeated, OneListener, Listening, Seated
<1> QED BY <1>1, SpecIInv, PTL

\* A serving engine's record is on disk, whatever joiners and predecessors do.
THEOREM EngineStaysFindable == Spec => []EngineIsFindable
<1>1. IInv => EngineIsFindable
    BY DEF IInv
<1> QED BY <1>1, SpecIInv, PTL

\* One engine, one listener, and a record that names it.
THEOREM SeatIsOneAndFindable == Spec => []OneEngineAndFindable
BY SeatHasOneEngine, SeatHasOneListener, EngineStaysFindable, PTL DEF OneEngineAndFindable

\* Nobody is attached to an engine of another release.
THEOREM ReleasesMatch == Spec => []SpokesMatchTheirEngine
<1>1. IInv => SpokesMatchTheirEngine
    BY DEF IInv, SeenIsTrue, Truthful, SpokesMatchTheirEngine
<1> QED BY <1>1, SpecIInv, PTL

-----------------------------------------------------------------------------
(* The refinement of EngineElection.                                       *)

\* Who serves the root and who is attached to which term, as the seat has it.
ServingNow == IF lock # NoProc /\ listener[lock] # 0 THEN lock ELSE NoProc
AttachedNow == [p \in Procs |-> IF pc[p] = "spoke" THEN seen[p].token ELSE 0]

\* A step that touches neither changes nothing of the election.
LEMMA ElectionStutters ==
    ASSUME ServingNow' = ServingNow, AttachedNow' = AttachedNow, served' = served
    PROVE  UNCHANGED Election!evars
BY DEF ServingNow, AttachedNow, Election!evars

\* Before anybody has started nobody serves.
LEMMA InitElection == Init => Election!Init
BY SeatAssumption DEF Init, Election!Init, Absent

\* Every step of a process's own accord opens or closes the election's term,
\* attaches, or is invisible.
LEMMA ProceedElection ==
    ASSUME IInv, NEW p \in Procs, Proceed(p)
    PROVE  Election!Next \/ UNCHANGED Election!evars
<1> USE SeatAssumption DEF Goto, EndJoin
<1>0. /\ \A q \in Procs : pc[q] \in Seated <=> lock = q
      /\ \A q \in Procs : pc[q] \in Listening <=> listener[q] # 0
      /\ \A q \in Procs : listener[q] # 0 => listener[q] = served
      /\ pc \in [Procs -> PCs] /\ listener \in [Procs -> Nat] /\ seen \in [Procs -> Records]
      /\ served \in Nat /\ lock \in Procs \cup {NoProc}
    BY DEF IInv, TypeOK, OneEngine, ListenersAreSeated
<1> USE <1>0 DEF Seated, Listening
<1>1. CASE TryLock(p)
    <2>1. ServingNow' = ServingNow
        BY <1>1 DEF TryLock, ServingNow
    <2>2. AttachedNow' = AttachedNow
        BY <1>1 DEF TryLock, AttachedNow
    <2> QED BY <1>1, <2>1, <2>2, ElectionStutters DEF TryLock
<1>2. CASE ClearRecord(p)
    <2>1. ServingNow' = ServingNow
        BY <1>2 DEF ClearRecord, ServingNow
    <2>2. AttachedNow' = AttachedNow
        BY <1>2 DEF ClearRecord, AttachedNow
    <2> QED BY <1>2, <2>1, <2>2, ElectionStutters DEF ClearRecord
<1>3. CASE ReadRecord(p)
    <2>1. ServingNow' = ServingNow
        BY <1>3 DEF ReadRecord, ServingNow
    <2>2. AttachedNow' = AttachedNow
        BY <1>3 DEF ReadRecord, AttachedNow
    <2> QED BY <1>3, <2>1, <2>2, ElectionStutters DEF ReadRecord
<1>4. CASE Ping(p)
    <2>1. CASE pc' = [pc EXCEPT ![p] = "wait"] /\ seen' = [seen EXCEPT ![p] = Absent]
        <3>1. ServingNow' = ServingNow
            BY <1>4 DEF Ping, ServingNow
        <3>2. AttachedNow' = AttachedNow
            BY <1>4, <2>1 DEF Ping, AttachedNow
        <3> QED BY <1>4, <3>1, <3>2, ElectionStutters DEF Ping
    <2>2. CASE /\ Answers(seen[p].token)
               /\ pc' = [pc EXCEPT ![p] = "spoke"]
               /\ UNCHANGED seen
        <3>1. PICK q \in Procs : listener[q] = seen[p].token
            BY <2>2 DEF Answers
        <3>2. seen[p].token # 0 /\ seen[p].release = Release[p] /\ seen[p].release = Release[q]
            BY <1>4, <3>1 DEF Ping, IInv, SeenIsTrue, Truthful
        <3>3. lock = q /\ seen[p].token = served /\ UNCHANGED <<lock, listener, served>>
            BY <1>4, <3>1, <3>2 DEF Ping
        <3>4. AttachedNow[p] = 0 /\ AttachedNow' = [AttachedNow EXCEPT ![p] = served]
            BY <1>4, <2>2, <3>3 DEF Ping, AttachedNow
        <3>5. ServingNow = q /\ ServingNow' = q
            BY <3>1, <3>2, <3>3 DEF ServingNow
        <3>6. Election!Attach(p)
            BY <3>2, <3>3, <3>4, <3>5 DEF Election!Attach, ServingNow, AttachedNow
        <3> QED BY <3>6 DEF Election!Next
    <2> QED BY <1>4, <2>1, <2>2 DEF Ping
<1>5. CASE Retry(p)
    <2>1. ServingNow' = ServingNow
        BY <1>5 DEF Retry, ServingNow
    <2>2. AttachedNow' = AttachedNow
        BY <1>5 DEF Retry, AttachedNow
    <2> QED BY <1>5, <2>1, <2>2, ElectionStutters DEF Retry
<1>6. CASE StandAside(p)
    <2>1. ServingNow' = ServingNow /\ AttachedNow' = AttachedNow
        BY <1>6 DEF StandAside, ServingNow, AttachedNow
    <2> QED BY <1>6, <2>1, ElectionStutters DEF StandAside
<1>7. CASE Serve(p)
    <2>1. AttachedNow' = AttachedNow
        BY <1>7 DEF Serve, AttachedNow
    <2>2. CASE /\ served' = served + 1
               /\ listener' = [listener EXCEPT ![p] = served + 1]
        <3>1. ServingNow = NoProc /\ ServingNow' = p
            BY <1>7, <2>2 DEF Serve, ServingNow
        <3>2. Election!Open(p)
            BY <2>1, <2>2, <3>1 DEF Election!Open, ServingNow, AttachedNow
        <3> QED BY <3>2 DEF Election!Next
    <2>3. CASE UNCHANGED <<listener, served>>
        <3>1. ServingNow' = ServingNow
            BY <1>7, <2>3 DEF Serve, ServingNow
        <3> QED BY <2>1, <2>3, <3>1, ElectionStutters
    <2> QED BY <1>7, <2>2, <2>3 DEF Serve
<1>8. CASE Publish(p)
    <2>1. ServingNow' = ServingNow /\ AttachedNow' = AttachedNow
        BY <1>8 DEF Publish, ServingNow, AttachedNow
    <2> QED BY <1>8, <2>1, ElectionStutters DEF Publish
<1>9. CASE StopServer(p)
    <2>1. AttachedNow' = AttachedNow
        BY <1>9 DEF StopServer, AttachedNow
    <2>2. ServingNow = p /\ ServingNow' = NoProc /\ UNCHANGED served
        BY <1>9 DEF StopServer, ServingNow
    <2>3. Election!Close
        BY <2>1, <2>2 DEF Election!Close, ServingNow, AttachedNow
    <2> QED BY <2>3 DEF Election!Next
<1>10. CASE DropSeat(p)
    <2>1. ServingNow' = ServingNow /\ AttachedNow' = AttachedNow
        BY <1>10 DEF DropSeat, ServingNow, AttachedNow
    <2> QED BY <1>10, <2>1, ElectionStutters DEF DropSeat
<1>11. CASE Unlock(p)
    <2>1. ServingNow' = ServingNow
        BY <1>11 DEF Unlock, ServingNow
    <2>2. AttachedNow' = AttachedNow
        BY <1>11 DEF Unlock, AttachedNow
    <2> QED BY <1>11, <2>1, <2>2, ElectionStutters DEF Unlock
<1> QED
    BY <1>1, <1>2, <1>3, <1>4, <1>5, <1>6, <1>7, <1>8, <1>9, <1>10, <1>11 DEF Proceed

\* So are starting, leaving, exiting and being killed: the last two detach a
\* spoke, and a killed engine's term is closed.
LEMMA NextElection ==
    ASSUME IInv, [Next]_vars
    PROVE  Election!Next \/ UNCHANGED Election!evars
<1> USE SeatAssumption DEF Goto, EndJoin
<1>0. /\ \A q \in Procs : pc[q] \in Seated <=> lock = q
      /\ \A q \in Procs : pc[q] \in Listening <=> listener[q] # 0
      /\ pc \in [Procs -> PCs] /\ listener \in [Procs -> Nat] /\ seen \in [Procs -> Records]
      /\ served \in Nat /\ lock \in Procs \cup {NoProc}
    BY DEF IInv, TypeOK, OneEngine, ListenersAreSeated
<1>1. ASSUME NEW p \in Procs, Proceed(p)
      PROVE  Election!Next \/ UNCHANGED Election!evars
    BY <1>1, ProceedElection
<1>2. ASSUME NEW p \in Procs, NEW k \in Kinds, Start(p, k)
      PROVE  UNCHANGED Election!evars
    <2>1. ServingNow' = ServingNow /\ AttachedNow' = AttachedNow
        BY <1>0, <1>2 DEF Start, ServingNow, AttachedNow
    <2> QED BY <1>2, <2>1, ElectionStutters DEF Start
<1>3. ASSUME NEW p \in Procs, LeaveEngine(p)
      PROVE  UNCHANGED Election!evars
    <2>1. ServingNow' = ServingNow /\ AttachedNow' = AttachedNow
        BY <1>0, <1>3 DEF LeaveEngine, ServingNow, AttachedNow
    <2> QED BY <1>3, <2>1, ElectionStutters DEF LeaveEngine
\* A process whose place changes to "out" is attached to nothing any more.
<1>4. ASSUME NEW p \in Procs, EndJoin(p, "out"), ServingNow' = ServingNow, UNCHANGED served
      PROVE  Election!Next \/ UNCHANGED Election!evars
    <2>1. CASE pc[p] = "spoke"
        <3>1. AttachedNow[p] # 0 /\ AttachedNow' = [AttachedNow EXCEPT ![p] = 0]
            BY <1>0, <1>4, <2>1 DEF AttachedNow, IInv, SeenIsTrue
        <3>2. Election!Detach(p)
            BY <1>4, <3>1 DEF Election!Detach, ServingNow, AttachedNow
        <3> QED BY <3>2 DEF Election!Next
    <2>2. CASE pc[p] # "spoke"
        <3>1. AttachedNow' = AttachedNow
            BY <1>0, <1>4, <2>2 DEF AttachedNow
        <3> QED BY <1>4, <3>1, ElectionStutters
    <2> QED BY <2>1, <2>2
<1>5. ASSUME NEW p \in Procs, Exit(p)
      PROVE  Election!Next \/ UNCHANGED Election!evars
    <2>1. ServingNow' = ServingNow /\ UNCHANGED served /\ EndJoin(p, "out")
        BY <1>5 DEF Exit, ServingNow
    <2> QED BY <1>4, <2>1
<1>6. ASSUME NEW p \in Procs, Crash(p)
      PROVE  Election!Next \/ UNCHANGED Election!evars
    <2>1. UNCHANGED served /\ EndJoin(p, "out")
        BY <1>6 DEF Crash
    <2>2. CASE ServingNow = p
        <3>1. ServingNow' = NoProc /\ p # NoProc
            BY <1>6, <2>2 DEF Crash, ServingNow
        <3>2. AttachedNow' = AttachedNow
            <4>1. pc[p] # "spoke"
                BY <1>0, <2>2, <3>1 DEF ServingNow, Seated
            <4> QED BY <1>0, <2>1, <4>1 DEF AttachedNow
        <3>3. Election!Close
            BY <2>1, <2>2, <3>1, <3>2 DEF Election!Close, ServingNow, AttachedNow
        <3> QED BY <3>3 DEF Election!Next
    <2>3. CASE ServingNow # p
        <3>1. ServingNow' = ServingNow
            BY <1>0, <1>6, <2>3 DEF Crash, ServingNow
        <3> QED BY <1>4, <2>1, <3>1
    <2> QED BY <2>2, <2>3
<1>7. CASE UNCHANGED vars
    <2>1. ServingNow' = ServingNow /\ AttachedNow' = AttachedNow /\ UNCHANGED served
        BY <1>7 DEF vars, joinVars, ServingNow, AttachedNow
    <2> QED BY <2>1, ElectionStutters
<1> QED BY <1>1, <1>2, <1>3, <1>5, <1>6, <1>7 DEF Next

\* The seat, the record and the ping implement the election, for any number of
\* processes: one serves at a time, each term is new, and a process attaches
\* only to the process serving at that moment and of its own release.
THEOREM SeatImplementsElection == Spec => ImplementsElection
<1>1. Init => Election!Init
    BY InitElection
<1>2. IInv /\ [Next]_vars => [Election!Next]_Election!evars
    BY NextElection
<1> QED BY <1>1, <1>2, SpecIInv, PTL DEF Spec, ImplementsElection, Election!Spec
=============================================================================
