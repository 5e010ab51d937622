----------------------------- MODULE LoopRunner -----------------------------
(***************************************************************************)
(* The loop runners: domain/src/loop_runner, run_evolution over            *)
(* run_execution, with the governor that both ask.                         *)
(*                                                                         *)
(* An execution loop attempts a task until its oracle says done or its     *)
(* ceiling stops it.  An evolution loop scores its harness by one          *)
(* execution loop for each task, has a candidate made, scores that in the  *)
(* same way, and keeps it when all it predicted came true.                 *)
(*                                                                         *)
(* External: what the backends do.  A turn may change any artifacts and be *)
(* judged either way, the budget and the clock may run out before any      *)
(* iteration, a candidate may be anything.                                 *)
(***************************************************************************)
EXTENDS Naturals, FiniteSets

CONSTANTS
    Tasks,
    Artifacts,          \* kinds of MutableArtifact
    Mutable,            \* what the execution loops' manifest allows
    Evolvable,          \* what the evolution loop's manifest allows
    MaxIterations, Patience,
    MaxGenerations, GenerationPatience

LoopAssumption ==
    /\ Mutable \subseteq Artifacts /\ Evolvable \subseteq Artifacts
    /\ {MaxIterations, Patience, MaxGenerations, GenerationPatience} \subseteq Nat

VARIABLES
    phase,              \* where the evolution loop is
    generation, harness,
    todo, passed,       \* tasks still to be scored, and those that were done
    baseline,           \* what the harness passes
    predicted,          \* what the candidate is to pass besides
    records,            \* the evolution loop's ledger
    refused,            \* generations whose candidate was outside the manifest
    step,               \* where the execution loop is
    iteration, streak, ledger,
    attempt,            \* artifacts changed in the workspace, not yet judged
    committed           \* artifacts written back

outer == <<phase, generation, harness, todo, passed, baseline, predicted, records, refused>>
inner == <<step, iteration, streak, ledger, attempt, committed>>
vars == <<outer, inner>>

Entry(i, artifacts, why) == {[iteration |-> i, artifact |-> a, why |-> why] : a \in artifacts}

\* The state in which run_execution starts.
Fresh ==
    /\ step' = "ceiling" /\ iteration' = 0 /\ streak' = 0
    /\ ledger' = {} /\ attempt' = {} /\ committed' = {}

Init ==
    /\ phase = "ceiling" /\ generation = 0 /\ harness = 0
    /\ todo = {} /\ passed = {} /\ baseline = {} /\ predicted = {}
    /\ records = {} /\ refused = {}
    /\ step = "idle" /\ iteration = 0 /\ streak = 0
    /\ ledger = {} /\ attempt = {} /\ committed = {}

-----------------------------------------------------------------------------
\* check_ceiling; spent is the budget's or the clock's.
CeilingStops(limit, patience, n, spent, idle) == n >= limit \/ spent \/ idle >= patience

\* run_execution, the head of its loop.
Ceiling ==
    /\ step = "ceiling"
    /\ \E spent \in BOOLEAN :
            step' = IF CeilingStops(MaxIterations, Patience, iteration, spent, streak)
                    THEN "stopped" ELSE "turn"
    /\ UNCHANGED <<outer, iteration, streak, ledger, attempt, committed>>

\* backend.run_turn
RunTurn ==
    /\ step = "turn"
    /\ \E changed \in SUBSET Artifacts : attempt' = changed
    /\ step' = "guard"
    /\ UNCHANGED <<outer, iteration, streak, ledger, committed>>

Refused == iteration' = iteration + 1 /\ streak' = streak + 1

\* Mutation of Illegal: only an attempt with nothing legal in it is refused.
Illegal_WhenAllAre(changed, manifest) == changed # {} /\ changed \intersect manifest = {}

\* guard_writes: the batch is refused when one mutation in it is.
Illegal(changed, manifest) == changed \ manifest # {}

\* The first illegal mutation is recorded, and the attempt rolled back.
Refuse ==
    /\ step = "guard"
    /\ Illegal(attempt, Mutable)
    /\ \E first \in attempt \ Mutable : ledger' = ledger \union Entry(iteration, {first}, "refused")
    /\ attempt' = {}
    /\ Refused
    /\ step' = "ceiling"
    /\ UNCHANGED <<outer, committed>>

\* Every mutation of a legal attempt is recorded before it is judged.
Recorded == ledger \union Entry(iteration, attempt, "applied")

\* governor::judge says done: backend.finalize.
JudgeDone ==
    /\ step = "guard"
    /\ ~Illegal(attempt, Mutable)
    /\ ledger' = Recorded
    /\ committed' = attempt
    /\ attempt' = {}
    /\ step' = "done"
    /\ iteration' = iteration + 1
    /\ UNCHANGED <<outer, streak>>

\* It does not: backend.rollback.
JudgeNot ==
    /\ step = "guard"
    /\ ~Illegal(attempt, Mutable)
    /\ ledger' = Recorded
    /\ streak' = IF attempt = {} THEN streak + 1 ELSE 0
    /\ attempt' = {}
    /\ iteration' = iteration + 1
    /\ step' = "ceiling"
    /\ UNCHANGED <<outer, committed>>

-----------------------------------------------------------------------------
\* run_evolution, the head of its loop.  It hands check_ceiling no budget, the time 0 and
\* the streak 0, whatever its own ceiling names.
StartGeneration ==
    /\ phase = "ceiling"
    /\ phase' = IF CeilingStops(MaxGenerations, GenerationPatience, generation, FALSE, 0)
                THEN "over" ELSE "baseline"
    /\ todo' = Tasks
    /\ passed' = {}
    /\ UNCHANGED <<generation, harness, baseline, predicted, records, refused, inner>>

\* evaluate: an execution loop for each task, in the order of the task set.
StartTask ==
    /\ phase \in {"baseline", "candidate"}
    /\ todo # {}
    /\ step = "idle"
    /\ Fresh
    /\ UNCHANGED outer

EndTask ==
    /\ step \in {"done", "stopped"}
    /\ LET task == CHOOSE t \in todo : TRUE
       IN  /\ todo' = todo \ {task}
           /\ passed' = IF step = "done" THEN passed \union {task} ELSE passed
    /\ step' = "idle"
    /\ UNCHANGED <<phase, generation, harness, baseline, predicted, records, refused, iteration,
                   streak, ledger, attempt, committed>>

\* backend.improve and guard_writes.  A refused candidate ends the generation.
Improve ==
    /\ phase = "baseline" /\ todo = {} /\ step = "idle"
    /\ baseline' = passed
    /\ \E changed \in SUBSET Artifacts, claim \in SUBSET Tasks :
            LET bad == Illegal(changed, Evolvable)
            IN  /\ predicted' = claim
                /\ phase' = IF bad THEN "ceiling" ELSE "candidate"
                /\ generation' = IF bad THEN generation + 1 ELSE generation
                /\ refused' = IF bad THEN refused \union {generation} ELSE refused
    /\ todo' = Tasks
    /\ passed' = {}
    /\ UNCHANGED <<harness, records, inner>>

\* score_generation
Verdict(flips) ==
    LET confirmed == predicted \intersect flips
    IN  IF predicted # {} /\ confirmed = predicted THEN "keep"
        ELSE IF confirmed = {} THEN "revert" ELSE "partial"

ScoreCandidate ==
    LET flips == passed \ baseline
    IN  /\ phase = "candidate" /\ todo = {} /\ step = "idle"
        /\ records' = records \union {[generation |-> generation, verdict |-> Verdict(flips)]}
        /\ harness' = IF Verdict(flips) = "keep" THEN generation + 1 ELSE harness
        /\ generation' = generation + 1
        /\ phase' = "ceiling"
        /\ UNCHANGED <<todo, passed, baseline, predicted, refused, inner>>

Next ==
    \/ Ceiling \/ RunTurn \/ Refuse \/ JudgeDone \/ JudgeNot
    \/ StartGeneration \/ StartTask \/ EndTask \/ Improve \/ ScoreCandidate

FairSpec == Init /\ [][Next]_vars /\ WF_vars(Next)

-----------------------------------------------------------------------------
(***************************************************************************)
(* What a loop writes back was declared mutable, all of it, and its ledger *)
(* names it as applied in the iteration that was judged done.              *)
(***************************************************************************)
CommitsAreDeclaredAndRecorded ==
    /\ committed \subseteq Mutable
    /\ \A a \in committed :
            [iteration |-> iteration - 1, artifact |-> a, why |-> "applied"] \in ledger

(***************************************************************************)
(* Both loops end, whatever is attempted, refused and judged, and no       *)
(* execution loop makes more turns than its ceiling has.                   *)
(***************************************************************************)
LoopsEnd == <>(phase = "over") /\ [](iteration <= MaxIterations)

(***************************************************************************)
(* What governor.rs says of a write outside the manifest: "a recorded      *)
(* event (the caller ledgers IllegalMutation), never a silent drop".       *)
(***************************************************************************)
RefusalsAreRecorded ==
    \A g \in refused : \E r \in records : r.generation = g
=============================================================================
