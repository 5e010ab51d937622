--------------------------- MODULE NodusExecutor ---------------------------
(***************************************************************************)
(* The executor of Nodus workflows (nodus/src/executor.rs) behind the gate *)
(* every entry point puts before it (nodus/src/workflows.rs, validator.rs).*)
(*                                                                         *)
(* A workflow is a table of statements.  Statement i belongs to the        *)
(* numbered step node[i].step, stands in the block node[i].up (0 for the   *)
(* step itself, -1 for an ?ELIF or ?ELSE branch, which is entered from its *)
(* ?IF) and its number grows in the order of the text.  The recursion of   *)
(* execute_node over the tree is a stack of frames, one for each block     *)
(* that is being executed.                                                 *)
(*                                                                         *)
(* Conditions and switch values are data: each evaluation may go either    *)
(* way.  The model, the dialog, the settlement rail and the policy are     *)
(* seams of the host: each of their answers is possible at every call.     *)
(* Values are sequences of numbers, the empty one standing for Null; a     *)
(* model call answers with the element of the ~MAP it is made for.         *)
(***************************************************************************)
EXTENDS Integers, Sequences, SequencesExt

CONSTANT Workflows  \* the parsed files that may be run, a set of records

VARIABLES
    wf,       \* the workflow of this run
    phase,    \* where execute_inner stands
    attempt,  \* execute_restartable's counter of restarts
    ctx,      \* ExecutionContext
    pos,      \* the step, its attempt, its error marks and the open blocks
    ended,    \* the flag that the loop over the steps leaves behind
    status    \* the Status of the run once it is settled

vars == <<wf, phase, attempt, ctx, pos, ended, status>>

Model == {"GEN", "ANALYZE"}
Dialog == {"ASK", "CONFIRM"}
Gated == Model \cup Dialog \cup {"SETTLE"}
RuntimeOwned == {"in", "error", "ctx", "restart_count"}
None == [name |-> "none", to |-> "none"]

Flags == {"none", "skip", "halt", "break", "pause"}
Command == [name: STRING, to: STRING]
Statement == [step: Nat, up: Int, op: STRING, name: STRING, to: STRING, n: Nat,
              flag: Flags, alt: Nat]
Declared == [retry: Nat, comp: Command]
WorkflowsAssumption ==
    Workflows \subseteq
        [step: Seq(Declared), node: Seq(Statement), never: SUBSET STRING,
         publishNeedsValidate: BOOLEAN, handler: Command, restartMax: Nat, maxSteps: Nat,
         clocked: BOOLEAN]
ASSUME WorkflowsAssumption

(***************************************************************************)
(* The validator: the errors that keep a workflow from running and that    *)
(* are about what the steps may do.                                        *)
(***************************************************************************)
Nodes(w) == DOMAIN w.node
Commands(w) == {i \in Nodes(w) : w.node[i].op \in {"cmd", "map"}}
Under(w, i, ops) ==
    LET Above[j \in Nodes(w)] ==
            IF w.node[j].up \in Nodes(w) THEN {j} \cup Above[w.node[j].up] ELSE {j}
    IN  \E j \in Above[i] \ {i} : w.node[j].op \in ops

E005(w) == \A i \in Commands(w) : w.node[i].name = "PUBLISH" =>
             \E j \in Commands(w) : j < i /\ w.node[j].name = "VALIDATE"
E010(w) == \A i \in Nodes(w) : w.node[i].op = "until" => w.node[i].n > 0
E013(w) == \A i \in Commands(w) : w.node[i].to \notin RuntimeOwned
E016(w) == \A i \in Nodes(w) : w.node[i].flag = "halt" =>
             \E j \in Nodes(w) : j = i + 1 /\ w.node[j].up = i /\ w.node[j].name = "ESCALATE"
E017(w) == \A s \in DOMAIN w.step : w.step[s].retry \in 1..10
E018(w) == w.restartMax = 0 \/ w.restartMax \in 1..10
E019(w) == \A i \in Commands(w) :
             w.node[i].to = "restart" /\ w.node[i].name # "ASSIGN" => ~Under(w, i, {"for", "par", "switch"})

Valid(w) == E005(w) /\ E010(w) /\ E013(w) /\ E016(w) /\ E017(w) /\ E018(w) /\ E019(w)

(***************************************************************************)
(* The context and what one command does to it.                            *)
(***************************************************************************)
Variables == {"out", "it", "elem", "list", "restart", "x"}
Fresh == [vars |-> [v \in Variables |-> <<>>],
          locked |-> FALSE, log |-> <<>>, errs |-> <<>>, ledger |-> <<>>]

Erred(x, code, s) == [x EXCEPT !.errs = Append(@, [code |-> code, step |-> s])]
Logged(x, c, s) == [x EXCEPT !.log = Append(@, [step |-> s, name |-> c.name])]

\* Mutation of SetVar: the lock of $out is not looked at.
SetVar_Unlocked(x, v, value) ==
    IF v = "none" THEN x ELSE [x EXCEPT !.vars[v] = value]

\* set_var: $out cannot be written once LOG has run.
SetVar(x, v, value) ==
    IF v = "none" THEN x
    ELSE IF v = "out" /\ x.locked THEN Erred(x, "RULE_VIOLATION", 0)
    ELSE [x EXCEPT !.vars[v] = value]

\* check_rules: a !!NEVER rule names a command, or says PUBLISH WITHOUT VALIDATE.
CheckRules(x, c) ==
    \/ c.name \in wf.never
    \/ /\ wf.publishNeedsValidate
       /\ c.name = "PUBLISH"
       /\ \A i \in DOMAIN x.log : x.log[i].name # "VALIDATE"

\* What dispatch, handle_dialog or handle_settlement may make of a permitted
\* command: the contexts and signals it may leave.
Dispatched(x, c, s) ==
    LET value == IF c.name \in Model /\ x.vars["it"] # <<>> THEN x.vars["it"] ELSE <<1>>
        Done(y) == [ctx |-> y, sig |-> "none"]
    IN  CASE c.name \in Model ->
               {Done(SetVar(Logged(x, c, s), c.to, value)),
                Done(Logged(Erred(x, "MODEL_CALL_FAILED", s), c, s))}
          [] c.name \in Dialog ->
               {Done(SetVar(Logged(x, c, s), c.to, value)),
                [ctx |-> x, sig |-> "pause"],
                Done(Erred(x, "DIALOG_TIMEOUT", s))}
          [] c.name = "SETTLE" ->
               {Done(SetVar(Logged(x, c, s), c.to, value)),
                Done(Erred(x, "SETTLEMENT_UNACCOUNTED", s))}
          [] c.name = "ASSIGN" -> {Done(Logged(SetVar(x, c.to, value), c, s))}
          [] c.name = "LOG" ->
               {Done([SetVar(Logged(x, c, s), c.to, <<>>) EXCEPT !.locked = TRUE])}
          [] OTHER -> {Done(SetVar(Logged(x, c, s), c.to, value))}

\* execute_command: the rules, then the policy, then the command.
Executed(x, c, s) ==
    IF CheckRules(x, c)
    THEN {[ctx |-> Erred(x, "RULE_VIOLATION", s), sig |-> "break"]}
    ELSE Dispatched(x, c, s)
         \cup (IF c.name \in Gated
               THEN {[ctx |-> Erred(x, "POLICY_DENIED", s), sig |-> "none"]} ELSE {})

(***************************************************************************)
(* The stack of open blocks.                                               *)
(***************************************************************************)
Frame(at) == [at |-> at, last |-> 0, i |-> 1, errs |-> Len(ctx.errs), out |-> <<>>]
Top == Last(pos.frames)
Node == wf.node[Top.at]
Kids(at) == {j \in Nodes(wf) : wf.node[j].step = pos.step /\ wf.node[j].up = at}
Todo == {j \in Kids(Top.at) : j > Top.last}
Due(j) == j \in Todo /\ \A k \in Todo : j <= k

Push(fs, f) == Append(fs, f)
Visited(j) == [pos.frames EXCEPT ![Len(pos.frames)].last = j]
Again == [pos.frames EXCEPT ![Len(pos.frames)].last = 0, ![Len(pos.frames)].i = @ + 1]
Loops(ops) == {k \in DOMAIN pos.frames : pos.frames[k].at # 0 /\ wf.node[pos.frames[k].at].op \in ops}

\* !SKIP leaves every block up to the loop around it: a ~FOR goes on with its
\* next element, an ~UNTIL with its next statement.
Innermost(k) ==
    LET loops == Loops({"for", "until"})
    IN  k \in loops /\ \A l \in loops : l <= k
AfterSkip(k) ==
    LET fs == SubSeq(pos.frames, 1, k)
    IN  IF wf.node[fs[k].at].op = "for"
        THEN [fs EXCEPT ![k].last = Len(wf.node)] ELSE fs

StartStep(s, x) ==
    [step |-> s, try |-> 1, before |-> Len(x.errs), mark |-> Len(x.errs),
     frames |-> <<[at |-> 0, last |-> 0, i |-> 1, errs |-> Len(x.errs), out |-> <<>>]>>]

\* The head of the loop over the steps: the ceiling of steps, or the clock, may end the run.
BeginStep(s, x) ==
    /\ ctx' = x
    /\ pos' = StartStep(s, x)
    /\ \E late \in {FALSE, wf.clocked} :
         IF late \/ (wf.maxSteps # 0 /\ s > wf.maxSteps)
         THEN phase' = "final" /\ ended' = "budget"
         ELSE phase' = "step" /\ ended' = "none"

\* The loop over the steps goes on with the step s, or ends there.
StepsFrom(s, x) ==
    IF s <= Len(wf.step) THEN BeginStep(s, x)
    ELSE /\ ctx' = x
         /\ pos' = [pos EXCEPT !.frames = <<>>]
         /\ phase' = "final" /\ ended' = "none"
NextStep(x) == StepsFrom(pos.step + 1, x)

\* Mutation of StepReturns: with no handler declared, the steps go on after an error.
StepReturns_GoesOn(x, comp) ==
    IF Len(x.errs) > pos.before /\ wf.handler.name # "none"
    THEN /\ ctx' = x
         /\ phase' = "error"
         /\ UNCHANGED <<pos, ended>>
    ELSE NextStep([x EXCEPT !.ledger = IF comp.name = "none" THEN @
                                        ELSE Append(@, [step |-> pos.step, comp |-> comp])])

\* A step that ends without halting the run: an error it left behind goes to
\* the handler or is recorded as unhandled, and ends the steps.
StepReturns(x, comp) ==
    IF Len(x.errs) > pos.before
    THEN /\ ctx' = x
         /\ phase' = "error"
         /\ UNCHANGED <<pos, ended>>
    ELSE NextStep([x EXCEPT !.ledger = IF comp.name = "none" THEN @
                                        ELSE Append(@, [step |-> pos.step, comp |-> comp])])

\* A signal: !HALT, !BREAK and !PAUSE end the run wherever they are raised.
Signalled(sig, x) ==
    IF sig = "skip" /\ Loops({"for", "until"}) # {}
    THEN /\ \E k \in DOMAIN pos.frames :
              Innermost(k) /\ pos' = [pos EXCEPT !.frames = AfterSkip(k)]
         /\ ctx' = x
         /\ UNCHANGED <<phase, ended>>
    ELSE IF sig = "skip"
    THEN StepReturns(x, None)
    ELSE /\ ctx' = x
         /\ phase' = "final" /\ ended' = sig
         /\ UNCHANGED pos

GoOn(fs, x) ==
    /\ ctx' = x /\ pos' = [pos EXCEPT !.frames = fs]
    /\ UNCHANGED <<phase, ended>>

Running == phase = "step" /\ UNCHANGED <<wf, attempt, status>>

\* Inside a ~PARALLEL block an error ends the block: no later branch, no join.
ParallelFailed == Top.at # 0 /\ Node.op = "par" /\ Len(ctx.errs) > Top.errs

(***************************************************************************)
(* The steps.                                                              *)
(***************************************************************************)
\* The gate: an invalid workflow, a breach of the input contract or an unmet
\* capability ends the run before anything is executed.
Gate ==
    /\ phase = "gate"
    /\ UNCHANGED <<wf, attempt, status>>
    /\ \/ phase' = "refused" /\ UNCHANGED <<ctx, pos, ended>>
       \/ Valid(wf) /\ StepsFrom(1, ctx)

\* A command, or the arm of a ?SWITCH that is taken (0: no arm and no default).
RunCommand ==
    /\ Running /\ ~ParallelFailed
    /\ \E j \in Nodes(wf) :
       /\ Due(j) /\ wf.node[j].op \in {"cmd", "switch"}
       /\ \E a \in IF wf.node[j].op = "cmd" THEN {j} ELSE Kids(j) \cup {0} :
            IF a = 0 THEN GoOn(Visited(j), ctx)
            ELSE \E r \in Executed(ctx, wf.node[a], pos.step) :
                   IF r.sig = "none" THEN GoOn(Visited(j), r.ctx)
                   ELSE Signalled(r.sig, r.ctx)

Branches(j) ==
    LET Chain[b \in Nodes(wf)] ==
            {b} \cup (IF wf.node[b].alt = 0 THEN {} ELSE Chain[wf.node[b].alt])
    IN  {b \in Nodes(wf) : b \in Chain[j]}

\* An ?IF: the first branch whose condition holds is entered, if any.
EnterConditional ==
    /\ Running /\ ~ParallelFailed
    /\ \E j \in Nodes(wf) :
       /\ Due(j) /\ wf.node[j].op = "if"
       /\ \/ \E b \in Branches(j) : GoOn(Push(Visited(j), Frame(b)), ctx)
          \/ /\ \A b \in Branches(j) : wf.node[b].op # "else"
             /\ GoOn(Visited(j), ctx)

EnterBlock ==
    /\ Running /\ ~ParallelFailed
    /\ \E j \in Nodes(wf) :
       /\ Due(j)
       /\ \/ /\ wf.node[j].op \in {"until", "par", "map"}
             /\ GoOn(Push(Visited(j), Frame(j)), ctx)
          \/ /\ wf.node[j].op = "for"
             /\ IF wf.node[j].n = 0 THEN GoOn(Visited(j), ctx)
                ELSE GoOn(Push(Visited(j), Frame(j)), SetVar(ctx, "it", <<1>>))

\* The end of a branch raises the signal its flag names.
LeaveConditional ==
    /\ Running /\ Top.at # 0 /\ Todo = {} /\ Node.op \in {"if", "else"}
    /\ IF Node.flag = "none" THEN GoOn(Front(pos.frames), ctx) ELSE Signalled(Node.flag, ctx)

NextElement ==
    /\ Running /\ Top.at # 0 /\ Todo = {} /\ Node.op = "for"
    /\ IF Top.i < Node.n THEN GoOn(Again, SetVar(ctx, "it", <<Top.i + 1>>))
       ELSE GoOn(Front(pos.frames), ctx)

\* ~UNTIL: the condition is met, or the bound is, or the body runs again.
UntilTurns ==
    /\ Running /\ Top.at # 0 /\ Todo = {} /\ Node.op = "until"
    /\ \/ GoOn(Front(pos.frames), ctx)
       \/ Top.i < Node.n /\ GoOn(Again, ctx)

Join ==
    /\ Running /\ Top.at # 0 /\ Node.op = "par"
    /\ \/ ParallelFailed /\ GoOn(Front(pos.frames), ctx)
       \/ ~ParallelFailed /\ Todo = {} /\ GoOn(Front(pos.frames), SetVar(ctx, Node.to, <<1>>))

\* One element of a ~MAP: its result is what $__map_element holds afterwards.
MapElement ==
    /\ Running /\ Top.at # 0 /\ Node.op = "map"
    /\ IF Top.i <= Node.n
       THEN \E r \in Executed(SetVar(ctx, "it", <<Top.i>>),
                              [name |-> Node.name, to |-> "elem"], pos.step) :
              IF r.sig # "none" THEN Signalled(r.sig, r.ctx)
              ELSE LET e == r.ctx.vars["elem"]
                   IN  GoOn([Again EXCEPT ![Len(pos.frames)].out =
                                 @ \o (IF e = <<>> THEN <<0>> ELSE e)], r.ctx)
       ELSE GoOn(Front(pos.frames), SetVar(ctx, Node.to, Top.out))

\* An attempt at a step ends: clean, to be tried again, or exhausted.
Truncated(x, n) == [x EXCEPT !.errs = SubSeq(@, 1, n)]

StepEnds ==
    /\ Running /\ Top.at = 0 /\ Todo = {}
    /\ IF Len(ctx.errs) = pos.mark
       THEN StepReturns(Truncated(ctx, pos.before), wf.step[pos.step].comp)
       ELSE IF pos.try < wf.step[pos.step].retry
       THEN /\ pos' = [pos EXCEPT !.try = @ + 1, !.mark = Len(ctx.errs), !.frames = <<Frame(0)>>]
            /\ UNCHANGED <<phase, ctx, ended>>
       ELSE StepReturns(ctx, None)

\* The error ends the steps: the handler runs once, or it is unhandled.
HandleError ==
    /\ phase = "error"
    /\ phase' = "final" /\ ended' = "uncaught"
    /\ UNCHANGED <<wf, attempt, pos, status>>
    /\ IF wf.handler.name # "none"
       THEN \E r \in Executed(ctx, wf.handler, pos.step) : ctx' = r.ctx
       ELSE ctx' = Erred(ctx, "UNHANDLED_ERROR", pos.step)

HasRuleViolation == \E i \in DOMAIN ctx.errs : ctx.errs[i].code = "RULE_VIOLATION"

\* The status is settled before the unwinding, and on it the unwinding depends.
StatusOf(flag) ==
    IF flag = "halt" \/ HasRuleViolation THEN "Failed"
    ELSE IF flag = "pause" THEN "Paused"
    ELSE IF flag = "break" THEN "Aborted"
    ELSE IF ctx.errs # <<>> \/ flag = "budget" THEN "Partial"
    ELSE "Ok"

Armed(flag) == StatusOf(flag) \in {"Failed", "Aborted"} \/ flag = "uncaught"

Finalise ==
    /\ phase = "final"
    /\ phase' = IF Armed(ended) THEN "unwind" ELSE "result"
    /\ status' = StatusOf(ended)
    /\ UNCHANGED <<wf, attempt, ctx, pos, ended>>

\* Mutation of Undo: the oldest first.
Undo_Oldest == 1

\* The latest completed effect is compensated; one that fails is reported.
Undo == Len(ctx.ledger)

Unwind ==
    /\ phase = "unwind"
    /\ UNCHANGED <<wf, attempt, pos, ended, status>>
    /\ IF ctx.ledger = <<>> THEN phase' = "result" /\ UNCHANGED ctx
       ELSE /\ UNCHANGED phase
            /\ LET effect == ctx.ledger[Undo] IN
               \E r \in Executed([ctx EXCEPT !.ledger = RemoveAt(@, Undo)], effect.comp, effect.step) :
                 ctx' = IF Len(r.ctx.errs) # Len(ctx.errs)
                        THEN Erred(r.ctx, "COMPENSATION_FAILED", effect.step) ELSE r.ctx

\* Mutation of Restart: the attempts are not counted.
Restart_Uncounted ==
    /\ phase = "result"
    /\ ctx.vars["restart"] # <<>> /\ attempt < wf.restartMax
    /\ StepsFrom(1, Fresh) /\ status' = "none"
    /\ UNCHANGED <<wf, attempt>>

\* A run that set $restart is run again from nothing, as often as declared.
Restart ==
    /\ phase = "result"
    /\ ctx.vars["restart"] # <<>> /\ attempt < wf.restartMax
    /\ attempt' = attempt + 1
    /\ StepsFrom(1, Fresh) /\ status' = "none"
    /\ UNCHANGED wf

Return ==
    /\ phase = "result"
    /\ ctx.vars["restart"] = <<>> \/ attempt >= wf.restartMax
    /\ phase' = "done"
    /\ UNCHANGED <<wf, attempt, ctx, pos, ended, status>>

Over == phase \in {"done", "refused"} /\ UNCHANGED vars

Init ==
    /\ wf \in Workflows
    /\ phase = "gate" /\ attempt = 0 /\ ended = "none" /\ status = "none"
    /\ ctx = Fresh
    /\ pos = [step |-> 0, try |-> 0, before |-> 0, mark |-> 0, frames |-> <<>>]

Next == \/ Gate \/ RunCommand \/ EnterConditional \/ EnterBlock \/ LeaveConditional
        \/ NextElement \/ UntilTurns \/ Join \/ MapElement \/ StepEnds
        \/ HandleError \/ Finalise \/ Unwind \/ Restart \/ Return \/ Over

Spec == Init /\ [][Next]_vars
FairSpec == Spec /\ WF_vars(Next)

-----------------------------------------------------------------------------
\* A run goes by its rules.  Every step starts with no error on record: one that
\* a retry got over is forgotten, and one that nothing caught lets no later step
\* begin (run_step_with_retry, execute_inner).  Whatever runs a command (a step,
\* an element of a ~MAP, the @err handler, a compensation), a command that a
\* !!NEVER rule names is never performed, and under PUBLISH WITHOUT VALIDATE a
\* PUBLISH has a VALIDATE before it.
RulesHold ==
    /\ phase = "step" /\ pos.try = 1 /\ Len(pos.frames) = 1 /\ Top.last = 0 => ctx.errs = <<>>
    /\ \A i \in DOMAIN ctx.log :
          /\ ctx.log[i].name \notin wf.never
          /\ wf.publishNeedsValidate /\ ctx.log[i].name = "PUBLISH" =>
               \E j \in 1..(i - 1) : ctx.log[j].name = "VALIDATE"

Undone == SelectSeq(ctx.log, LAMBDA e : e.name = wf.step[e.step].comp.name)
MaySkip(s) == \E i \in Nodes(wf) : wf.node[i].step = s /\ wf.node[i].flag = "skip"

\* Effects are undone in the reverse order of their completion and once each.
\* A run that is clean, paused or out of budget undoes nothing; one that failed
\* has, when it is over, undone every completed effect or reported that it could
\* not (the unwinding of execute_inner; compensations that ask are set apart).
EffectsAreUndone ==
    /\ \A i, j \in DOMAIN Undone : i < j => Undone[i].step > Undone[j].step
    /\ status \in {"Ok", "Paused"} \/ ended = "budget" => Undone = <<>>
    /\ phase = "done" /\ (status \in {"Failed", "Aborted"} \/ ended = "uncaught") =>
         \A s \in 1..(pos.step - 1) :
             \/ wf.step[s].comp.name \in Dialog \cup {"none"} \/ MaySkip(s)
             \/ \E i \in DOMAIN Undone : Undone[i].step = s
             \/ \E i \in DOMAIN ctx.errs :
                    ctx.errs[i] = [code |-> "COMPENSATION_FAILED", step |-> s]

\* Once LOG has run, $out keeps its value for the rest of the attempt, whatever
\* writes to it: a pipeline target, a ~JOIN, a ~MAP, the handler (set_var).
LoggedOutIsFinal ==
    [][ctx.locked /\ attempt' = attempt => ctx'.vars["out"] = ctx.vars["out"]]_vars

\* Every run that is asked for comes to an end (the bounds of loops, retries and
\* restarts, whose presence the validator checks).
RunsEnd == <>(phase \in {"done", "refused"})

\* "Present only when `status == Paused`: the descriptor a host uses to resume"
\* (executor.rs, RunResult::resume).  The descriptor is made for every run that
\* the pause signal ended.
ResumeOnlyWhenPaused == phase = "done" /\ ended = "pause" => status = "Paused"

\* "each produced element derives from exactly the source element at the same
\* index" (executor.rs, execute_map): an element is what the model answered for
\* it, or Null.
ElementsAreTheirOwn ==
    \A i \in DOMAIN ctx.vars["list"] : ctx.vars["list"][i] \in {0, i}
=============================================================================
