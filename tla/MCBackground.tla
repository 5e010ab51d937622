---------------------------- MODULE MCBackground ----------------------------
(***************************************************************************)
(* What runs without a person at it, on small instances: the workflow      *)
(* executor, the loop runner, the model router and the diagnostic log.     *)
(* They share no state, so a behaviour is of one part, chosen at the       *)
(* start; the others stay as they begin.                                   *)
(***************************************************************************)
EXTENDS MCNodusExecutor

CONSTANTS
    Tasks, Artifacts, Mutable, Evolvable, MaxIterations, Patience, MaxGenerations,
    GenerationPatience,                                                     \* LoopRunner
    N, Local, Calls, Threshold, Cooldown, Interval, NKeys, EvictThreshold,  \* ModelRouter
    QueueLines, MaxSize, MaxFiles, MaxEvents, MaxFaults                     \* DiagnosticLog

VARIABLES part,
    evolving, generation, harness, todo, passed, baseline, predicted, records, refused,
    executing, iteration, streak, ledger, changes, committed,
    circuit, age, mode, turn, call, failures, keys, index,
    seen, held, queue, dropped, reported, told, cut, slot, faults, wakes, releaser, guard

loopVars == <<evolving, generation, harness, todo, passed, baseline, predicted, records,
              refused, executing, iteration, streak, ledger, changes, committed>>
routerVars == <<circuit, age, mode, turn, call, failures, keys, index>>
logVars == <<seen, held, queue, dropped, reported, told, cut, slot, faults, wakes,
             releaser, guard>>

Loop == INSTANCE LoopRunner WITH phase <- evolving, step <- executing, attempt <- changes

Router == INSTANCE ModelRouter

Log == INSTANCE DiagnosticLog

ASSUME PartsAssumption ==
    Loop!LoopAssumption /\ Router!RouterAssumption /\ Log!LogAssumption

OfWorkflow(A) == part = "workflow" /\ A /\ UNCHANGED <<part, loopVars, routerVars, logVars>>
OfLoop(A) == part = "loop" /\ A /\ UNCHANGED <<part, vars, routerVars, logVars>>
OfRouter(A) == part = "router" /\ A /\ UNCHANGED <<part, vars, loopVars, logVars>>
OfLog(A) == part = "log" /\ A /\ UNCHANGED <<part, vars, loopVars, routerVars>>

MCInit ==
    /\ part \in {"workflow", "loop", "router", "log"}
    /\ Init
    /\ part # "workflow" => wf = Unvalidated
    /\ Loop!Init /\ Router!Init /\ Log!Init
    /\ part # "router" => mode = "other"

MCNext ==
    OfWorkflow(Next) \/ OfLoop(Loop!Next) \/ OfRouter(Router!Next) \/ OfLog(Log!Next)

\* The fairness of each part, for the behaviours that are of that part.
MCSpec ==
    /\ MCInit /\ [][MCNext]_<<part, vars, loopVars, routerVars, logVars>>
    /\ WF_vars(OfWorkflow(Next))
    /\ WF_loopVars(OfLoop(Loop!Next))
    /\ WF_routerVars(OfRouter(Router!Tick))
    /\ \A c \in Calls :
          /\ WF_routerVars(OfRouter(Router!Route(c)))
          /\ WF_routerVars(OfRouter(Router!RecordSuccess(c) \/ Router!RecordFailure(c)))
    /\ WF_logVars(OfLog(Log!Wake))
    /\ WF_logVars(OfLog(Log!FlushDue(TRUE)))

-----------------------------------------------------------------------------
(* The parts' properties, stated and explained in their own modules.       *)

\* Every workflow run that is asked for ends, and so do both loops of the loop
\* runner, within their ceilings, whatever is attempted, refused and judged.
RunsAndLoopsEnd ==
    /\ part = "workflow" ~> phase \in {"done", "refused"}
    /\ part = "loop" ~> evolving = "over"
    /\ [](iteration <= MaxIterations)

\* What an execution loop writes back was declared mutable and is in its ledger.
CommitsAreDeclaredAndRecorded == Loop!CommitsAreDeclaredAndRecorded

\* Circuits say what the reports say, and the current credential is left.
CircuitsFollowReports == Router!CircuitsFollowReports

\* A provider the breaker keeps out is not asked, and not kept out for ever.
ProvidersRestAndAreTried == Router!ProvidersRestAndAreTried

\* The diagnostic log reads in order, says nothing twice and counts its losses.
LogIsTrue == Log!LogIsTrue

\* No rotated file is discarded early, and no held event is slept through.
LogIsKept == Log!LogIsKept
=============================================================================
