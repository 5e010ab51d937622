-------------------------- MODULE BackgroundProofs --------------------------
(***************************************************************************)
(* What runs without a person at it, for any workflows, tasks, providers,  *)
(* queues and files.  The parts share no state: each has an invariant of   *)
(* its own, and a step of MCNext is a step of one part.                    *)
(*                                                                         *)
(*   executor  What a step may make of the context is one relation         *)
(*             (MayBecome): every operator on contexts is in it, it is     *)
(*             transitive, and so every action is in it, except a restart, *)
(*             which begins afresh.  The rules and the lock of $out        *)
(*             follow.  That no step begins with an error on record needs  *)
(*             the place of the run too (StepsStartClean).                 *)
(*   loop      nothing is committed before an execution loop is done       *)
(*   router    a circuit is what its provider's reports have made of it    *)
(*   log       what the files have, what the queue has and what is held    *)
(*             are in the order of the events, each before the next        *)
(***************************************************************************)
EXTENDS MCBackground, SequenceTheorems, WellFoundedInduction, TLAPS

Codes == {"RULE_VIOLATION", "POLICY_DENIED", "MODEL_CALL_FAILED", "DIALOG_TIMEOUT",
          "SETTLEMENT_UNACCOUNTED", "UNHANDLED_ERROR", "COMPENSATION_FAILED"}
Values == Seq(Nat)
Effect == [step: Nat, comp: Command]
Contexts ==
    [vars: [Variables -> Values], locked: BOOLEAN,
     log: Seq([step: Nat, name: STRING]), errs: Seq([code: Codes, step: Nat]),
     ledger: Seq(Effect)]
Frames == [at: Nat, last: Nat, i: Nat, errs: Nat, out: Values]
Positions == [step: Nat, try: Nat, before: Nat, mark: Nat, frames: Seq(Frames)]
Phases == {"gate", "step", "error", "final", "unwind", "result", "done", "refused"}

TypeOK ==
    /\ wf \in Workflows
    /\ phase \in Phases
    /\ attempt \in Nat
    /\ ctx \in Contexts
    /\ pos \in Positions
    /\ ended \in Flags \cup {"budget", "uncaught"}
    /\ status \in {"none", "Ok", "Partial", "Aborted", "Paused", "Failed"}

\* The log of the context x is one that the rules of the workflow allow.
LogHolds(x) ==
    \A i \in DOMAIN x.log :
        /\ x.log[i].name \notin wf.never
        /\ wf.publishNeedsValidate /\ x.log[i].name = "PUBLISH" =>
              \E j \in 1 .. (i - 1) : x.log[j].name = "VALIDATE"

\* What any number of commands may make of a context.
MayBecome(x, y) ==
    /\ y \in Contexts
    /\ x.locked => y.locked /\ y.vars["out"] = x.vars["out"]
    /\ LogHolds(x) => LogHolds(y)

\* A stack of open blocks: that of the step itself, then blocks of the
\* workflow, which the step has come to.
Open(fs) ==
    /\ fs \in Seq(Frames) /\ fs # <<>>
    /\ \A k \in DOMAIN fs : fs[k].at \in Nodes(wf) \cup {0}
    /\ fs[1].at = 0
    /\ Len(fs) > 1 => fs[1].last # 0

\* Errors that are there when a step begins are none; those of the step come
\* after its first statement, and the outermost frame remembers that it has
\* gone by.
StepsStartClean ==
    /\ phase = "gate" => ctx = Fresh
    /\ phase = "step" =>
          /\ pos.step \in 1 .. Len(wf.step)
          /\ pos.before = 0
          /\ pos.try > 0
          /\ Open(pos.frames)
          /\ pos.try = 1 /\ pos.frames[1].last = 0 => ctx.errs = <<>>

IInv ==
    /\ TypeOK
    /\ LogHolds(ctx)
    /\ StepsStartClean

-----------------------------------------------------------------------------
(* What the operators on contexts do.                                      *)

LEMMA MayStay ==
    ASSUME NEW x \in Contexts
    PROVE  MayBecome(x, x)
BY DEF MayBecome

LEMMA MayGoOn ==
    ASSUME NEW x, NEW y, NEW z, MayBecome(x, y), MayBecome(y, z)
    PROVE  MayBecome(x, z)
BY DEF MayBecome

LEMMA OneValue ==
    ASSUME NEW n \in Nat
    PROVE  <<n>> \in Values
BY DEF Values

\* An error is appended, and nothing else is touched.
LEMMA ErredMay ==
    ASSUME NEW x \in Contexts, NEW code \in Codes, NEW s \in Nat
    PROVE  /\ MayBecome(x, Erred(x, code, s))
           /\ Erred(x, code, s).log = x.log
<1>1. Append(x.errs, [code |-> code, step |-> s]) \in Seq([code: Codes, step: Nat])
    BY DEF Contexts
<1>2. Erred(x, code, s) \in Contexts
    BY <1>1 DEF Erred, Contexts
<1>3. Erred(x, code, s).log = x.log /\ Erred(x, code, s).vars = x.vars
      /\ Erred(x, code, s).locked = x.locked
    BY DEF Erred, Contexts
<1> QED BY <1>2, <1>3 DEF MayBecome, LogHolds

\* set_var keeps a locked $out, whatever is written to whatever variable.
LEMMA SetVarMay ==
    ASSUME NEW x \in Contexts, NEW v, NEW value \in Values
    PROVE  /\ MayBecome(x, SetVar(x, v, value))
           /\ SetVar(x, v, value).log = x.log
<1>1. CASE v = "none"
    BY <1>1, MayStay DEF SetVar
<1>2. CASE v = "out" /\ x.locked
    <2>1. SetVar(x, v, value) = Erred(x, "RULE_VIOLATION", 0)
        BY <1>2 DEF SetVar
    <2>2. "RULE_VIOLATION" \in Codes /\ 0 \in Nat
        BY DEF Codes
    <2> QED BY <2>1, <2>2, ErredMay
<1>3. CASE v # "none" /\ ~(v = "out" /\ x.locked)
    <2> DEFINE y == SetVar(x, v, value)
    <2>1. y = [x EXCEPT !.vars[v] = value]
        BY <1>3 DEF SetVar
    <2>2. y \in Contexts
        BY <2>1 DEF Contexts
    <2>3. y.log = x.log /\ y.locked = x.locked
        BY <2>1 DEF Contexts
    <2>4. v # "out" => y.vars["out"] = x.vars["out"]
        BY <2>1 DEF Contexts, Variables
    <2> HIDE DEF y
    <2>5. MayBecome(x, y) /\ y.log = x.log
        BY <1>3, <2>2, <2>3, <2>4 DEF MayBecome, LogHolds
    <2> QED BY <2>5 DEF y
<1> QED BY <1>1, <1>2, <1>3

\* A command that the rules let through is logged, and the log holds with it.
LEMMA LoggedMay ==
    ASSUME NEW x \in Contexts, NEW c, c.name \in STRING, NEW s \in Nat, ~CheckRules(x, c)
    PROVE  MayBecome(x, Logged(x, c, s))
<1> DEFINE e == [step |-> s, name |-> c.name]
           y == Logged(x, c, s)
           n == Len(x.log) + 1
<1>1. /\ Append(x.log, e) \in Seq([step: Nat, name: STRING])
      /\ DOMAIN Append(x.log, e) = DOMAIN x.log \cup {n}
      /\ DOMAIN x.log = 1 .. Len(x.log)
      /\ Len(x.log) \in Nat
      /\ \A i \in DOMAIN x.log : Append(x.log, e)[i] = x.log[i]
      /\ Append(x.log, e)[n] = e
    BY DEF Contexts
<1>2. y \in Contexts /\ y.log = Append(x.log, e) /\ y.vars = x.vars /\ y.locked = x.locked
    BY <1>1 DEF Logged, Contexts
<1>3. ASSUME LogHolds(x) PROVE LogHolds(y)
    <2>1. SUFFICES ASSUME NEW i \in DOMAIN y.log
                   PROVE  /\ y.log[i].name \notin wf.never
                          /\ wf.publishNeedsValidate /\ y.log[i].name = "PUBLISH" =>
                                \E j \in 1 .. (i - 1) : y.log[j].name = "VALIDATE"
        BY DEF LogHolds
    <2>2. CASE i = n
        BY <1>1, <1>2, <2>2 DEF CheckRules
    <2>3. CASE i \in DOMAIN x.log
        BY <1>1, <1>2, <1>3, <2>3 DEF LogHolds
    <2> QED BY <1>1, <1>2, <2>1, <2>2, <2>3
<1> QED BY <1>2, <1>3 DEF MayBecome

\* Whatever a command does, it does within what a context may become.
LEMMA DispatchedMay ==
    ASSUME NEW x \in Contexts, NEW c, c.name \in STRING, NEW s \in Nat, ~CheckRules(x, c),
           NEW r \in Dispatched(x, c, s)
    PROVE  MayBecome(x, r.ctx) /\ r.sig \in {"none", "pause"}
<1> DEFINE value == IF c.name \in Model /\ x.vars["it"] # <<>> THEN x.vars["it"] ELSE <<1>>
           Done(y) == [ctx |-> y, sig |-> "none"]
<1>1. value \in Values /\ <<>> \in Values
    BY DEF Contexts, Variables, Values
<1>2. MayBecome(x, Logged(x, c, s)) /\ Logged(x, c, s) \in Contexts
    BY LoggedMay DEF MayBecome
<1>3. ASSUME NEW w \in Values PROVE MayBecome(x, SetVar(Logged(x, c, s), c.to, w))
    BY <1>2, <1>3, SetVarMay, MayGoOn
<1>4. ASSUME NEW code \in Codes
      PROVE  MayBecome(x, Erred(x, code, s)) /\ MayBecome(x, Logged(Erred(x, code, s), c, s))
    <2>1. /\ MayBecome(x, Erred(x, code, s)) /\ Erred(x, code, s) \in Contexts
          /\ Erred(x, code, s).log = x.log
        BY ErredMay DEF MayBecome
    <2>2. ~CheckRules(Erred(x, code, s), c)
        BY <2>1 DEF CheckRules
    <2> QED BY <2>1, <2>2, LoggedMay, MayGoOn
<1>5. MayBecome(x, Logged(SetVar(x, c.to, value), c, s))
    <2>1. /\ MayBecome(x, SetVar(x, c.to, value)) /\ SetVar(x, c.to, value) \in Contexts
          /\ SetVar(x, c.to, value).log = x.log
        BY <1>1, SetVarMay DEF MayBecome
    <2>2. ~CheckRules(SetVar(x, c.to, value), c)
        BY <2>1 DEF CheckRules
    <2> QED BY <2>1, <2>2, LoggedMay, MayGoOn
<1>6. MayBecome(x, [SetVar(Logged(x, c, s), c.to, <<>>) EXCEPT !.locked = TRUE])
    <2> DEFINE y == SetVar(Logged(x, c, s), c.to, <<>>)
    <2>1. MayBecome(x, y) /\ y \in Contexts
        BY <1>1, <1>3 DEF MayBecome
    <2>2. MayBecome(y, [y EXCEPT !.locked = TRUE])
        BY <2>1 DEF MayBecome, Contexts, LogHolds
    <2> QED BY <2>1, <2>2, MayGoOn
<1>7. MayBecome(x, x)
    BY MayStay
<1>8. /\ MayBecome(x, Logged(Erred(x, "MODEL_CALL_FAILED", s), c, s))
      /\ MayBecome(x, Erred(x, "DIALOG_TIMEOUT", s))
      /\ MayBecome(x, Erred(x, "SETTLEMENT_UNACCOUNTED", s))
    BY <1>4 DEF Codes
<1>9. MayBecome(x, SetVar(Logged(x, c, s), c.to, value))
    BY <1>1, <1>3
<1>10. r \in {Done(SetVar(Logged(x, c, s), c.to, value)),
            Done(Logged(Erred(x, "MODEL_CALL_FAILED", s), c, s)),
            [ctx |-> x, sig |-> "pause"],
            Done(Erred(x, "DIALOG_TIMEOUT", s)),
            Done(Erred(x, "SETTLEMENT_UNACCOUNTED", s)),
            Done(Logged(SetVar(x, c.to, value), c, s)),
            Done([SetVar(Logged(x, c, s), c.to, <<>>) EXCEPT !.locked = TRUE])}
    BY DEF Dispatched
<1> HIDE DEF value
<1>11. /\ r.ctx \in {SetVar(Logged(x, c, s), c.to, value),
                     Logged(Erred(x, "MODEL_CALL_FAILED", s), c, s), x,
                     Erred(x, "DIALOG_TIMEOUT", s), Erred(x, "SETTLEMENT_UNACCOUNTED", s),
                     Logged(SetVar(x, c.to, value), c, s),
                     [SetVar(Logged(x, c, s), c.to, <<>>) EXCEPT !.locked = TRUE]}
       /\ r.sig \in {"none", "pause"}
    BY <1>10
<1> QED BY <1>5, <1>6, <1>7, <1>8, <1>9, <1>11

\* The rules, the policy and the command.
LEMMA ExecutedMay ==
    ASSUME NEW x \in Contexts, NEW c, c.name \in STRING, NEW s \in Nat,
           NEW r \in Executed(x, c, s)
    PROVE  MayBecome(x, r.ctx) /\ r.sig \in {"none", "pause", "break"}
<1>0. /\ MayBecome(x, Erred(x, "RULE_VIOLATION", s))
      /\ MayBecome(x, Erred(x, "POLICY_DENIED", s))
    <2>1. "RULE_VIOLATION" \in Codes /\ "POLICY_DENIED" \in Codes
        BY DEF Codes
    <2> QED BY <2>1, ErredMay
<1>1. CASE CheckRules(x, c)
    <2>1. r = [ctx |-> Erred(x, "RULE_VIOLATION", s), sig |-> "break"]
        BY <1>1 DEF Executed
    <2> QED BY <1>0, <2>1
<1>2. CASE ~CheckRules(x, c) /\ r \in Dispatched(x, c, s)
    BY <1>2, DispatchedMay
<1>3. CASE ~CheckRules(x, c) /\ r = [ctx |-> Erred(x, "POLICY_DENIED", s), sig |-> "none"]
    BY <1>0, <1>3
<1> QED BY <1>1, <1>2, <1>3 DEF Executed

-----------------------------------------------------------------------------
(* The stack of open blocks.                                               *)

\* Going on inside a step, where an attempt at it has begun.
Going == IInv /\ phase = "step"

LEMMA MoreThanOne ==
    ASSUME NEW n \in Nat \ {0}
    PROVE  n # 1 <=> n > 1
  OBVIOUS

LEMMA StackFacts ==
    ASSUME Going
    PROVE  /\ pos \in Positions
           /\ Open(pos.frames)
           /\ Len(pos.frames) \in Nat \ {0}
           /\ DOMAIN pos.frames = 1 .. Len(pos.frames)
           /\ Top = pos.frames[Len(pos.frames)]
           /\ Top \in Frames
           /\ Top.at \in Nodes(wf) \cup {0}
           /\ Top.at # 0 => Len(pos.frames) > 1
           /\ Len(pos.frames) # 1 => pos.frames[1].last # 0
<1>1. /\ pos \in Positions /\ Open(pos.frames) /\ pos.frames \in Seq(Frames)
      /\ pos.frames # <<>>
    BY DEF Going, IInv, TypeOK, StepsStartClean, Open
<1>2. /\ Len(pos.frames) \in Nat \ {0} /\ DOMAIN pos.frames = 1 .. Len(pos.frames)
      /\ pos.frames[Len(pos.frames)] \in Frames
    BY <1>1
<1>3. Top = pos.frames[Len(pos.frames)]
    BY DEF Top, Last
<1>4. Len(pos.frames) # 1 => Len(pos.frames) > 1
    BY <1>2, MoreThanOne
<1> QED BY <1>1, <1>2, <1>3, <1>4 DEF Open

LEMMA NodeFacts ==
    ASSUME wf \in Workflows, NEW j \in Nodes(wf)
    PROVE  wf.node[j] \in Statement /\ j \in Nat \ {0}
BY WorkflowsAssumption DEF Nodes, WorkflowsAssumption

\* A frame is replaced by one of the same block.
LEMMA FrameChanged ==
    ASSUME NEW fs, Open(fs), NEW k \in DOMAIN fs, NEW f \in Frames, f.at = fs[k].at,
           k = 1 => f.last # 0, k # 1 => fs[1].last # 0
    PROVE  Open([fs EXCEPT ![k] = f]) /\ [fs EXCEPT ![k] = f][1].last # 0
<1> DEFINE gs == [fs EXCEPT ![k] = f]
<1>1. /\ fs \in Seq(Frames) /\ 1 \in DOMAIN fs
      /\ Len(fs) \in Nat /\ DOMAIN fs = 1 .. Len(fs)
    BY DEF Open
<1>2. gs \in Seq(Frames) /\ Len(gs) = Len(fs) /\ DOMAIN gs = DOMAIN fs
    BY <1>1
<1>3. \A i \in DOMAIN fs : gs[i] = IF i = k THEN f ELSE fs[i]
    BY <1>1
<1> HIDE DEF gs
<1>4. Open(gs) /\ gs[1].last # 0
    BY <1>1, <1>2, <1>3 DEF Open
<1> QED BY <1>4 DEF gs

\* The statement j of the innermost block is gone by.
LEMMA VisitedOpen ==
    ASSUME Going, NEW j \in Nodes(wf)
    PROVE  Open(Visited(j)) /\ Visited(j)[1].last # 0
<1> DEFINE n == Len(pos.frames)
           f == [pos.frames[n] EXCEPT !.last = j]
<1>1. j \in Nat \ {0}
    BY NodeFacts DEF Going, IInv, TypeOK
<1>2. f \in Frames /\ f.at = pos.frames[n].at /\ f.last = j
    BY <1>1, StackFacts DEF Frames
<1>3. Open(pos.frames) /\ n \in DOMAIN pos.frames /\ n \in Nat
    <2>1. n \in Nat \ {0} /\ DOMAIN pos.frames = 1 .. n
        BY StackFacts
    <2> QED BY <2>1, StackFacts
<1>5. n # 1 => pos.frames[1].last # 0
    BY StackFacts
<1>4. Visited(j) = [pos.frames EXCEPT ![n] = f]
    BY DEF Visited
<1> HIDE DEF f, n
<1> QED BY <1>1, <1>2, <1>3, <1>4, <1>5, FrameChanged

\* A block is opened on a stack that has gone by it.
LEMMA PushOpen ==
    ASSUME Going, NEW fs, Open(fs), fs[1].last # 0, NEW b \in Nodes(wf)
    PROVE  Open(Push(fs, Frame(b))) /\ Push(fs, Frame(b))[1].last # 0
<1>1. Frame(b) \in Frames /\ Frame(b).at = b
    BY NodeFacts DEF Frame, Frames, Values, Going, IInv, TypeOK, Contexts
<1> QED BY <1>1 DEF Push, Open

\* The innermost block is left.
LEMMA FrontOpen ==
    ASSUME Going, Top.at # 0
    PROVE  Open(Front(pos.frames)) /\ Front(pos.frames)[1].last # 0
<1>1. /\ Front(pos.frames) \in Seq(Frames)
      /\ Len(Front(pos.frames)) = Len(pos.frames) - 1
      /\ \A i \in 1 .. Len(pos.frames) - 1 : Front(pos.frames)[i] = pos.frames[i]
    BY StackFacts, SubSeqProperties DEF Front, Open
<1> QED BY <1>1, StackFacts DEF Open

\* The innermost block begins again.
LEMMA AgainOpen ==
    ASSUME Going, Top.at # 0
    PROVE  Open(Again) /\ Again[1].last # 0
<1> DEFINE n == Len(pos.frames)
           f == [pos.frames[n] EXCEPT !.last = 0, !.i = @ + 1]
<1>1. f \in Frames /\ f.at = pos.frames[n].at /\ Again = [pos.frames EXCEPT ![n] = f]
    BY StackFacts DEF Again, Frames
<1> QED BY <1>1, StackFacts DEF Open

\* The blocks inside a loop are left.
LEMMA AfterSkipOpen ==
    ASSUME Going, NEW k \in DOMAIN pos.frames, Innermost(k)
    PROVE  Open(AfterSkip(k)) /\ AfterSkip(k)[1].last # 0
<1> DEFINE fs == SubSeq(pos.frames, 1, k)
<1>1. k \in 2 .. Len(pos.frames)
    BY StackFacts DEF Innermost, Loops, Open
<1>2. /\ fs \in Seq(Frames) /\ Len(fs) = k
      /\ \A i \in 1 .. k : fs[i] = pos.frames[i]
    BY <1>1, StackFacts, SubSeqProperties DEF Open
<1>3. Open(fs) /\ fs[1].last # 0
    BY <1>1, <1>2, StackFacts DEF Open
<1>4. Len(wf.node) \in Nat
    BY WorkflowsAssumption DEF Going, IInv, TypeOK, WorkflowsAssumption
<1> HIDE DEF fs
<1>5. Open([fs EXCEPT ![k].last = Len(wf.node)]) /\ [fs EXCEPT ![k].last = Len(wf.node)][1].last # 0
    <2> DEFINE f == [fs[k] EXCEPT !.last = Len(wf.node)]
    <2>1. fs[k] \in Frames
        BY <1>1, <1>2
    <2>2. f \in Frames /\ f.at = fs[k].at
        BY <1>4, <2>1 DEF Frames
    <2>3. [fs EXCEPT ![k].last = Len(wf.node)] = [fs EXCEPT ![k] = f]
        OBVIOUS
    <2>4. k \in DOMAIN fs /\ k # 1
        BY <1>1, <1>2
    <2> QED BY <1>3, <2>2, <2>3, <2>4, FrameChanged
<1> QED BY <1>3, <1>5 DEF AfterSkip, fs

-----------------------------------------------------------------------------
(* What becomes of a run whose context has become x.                       *)

\* What a step of the executor keeps, apart from a restart.
Moved ==
    /\ MayBecome(ctx, ctx')
    /\ wf' = wf
    /\ phase' \in Phases /\ pos' \in Positions
    /\ ended' \in Flags \cup {"budget", "uncaught"}
    /\ StepsStartClean'

LEMMA GoOnMoves ==
    ASSUME Going, NEW x, MayBecome(ctx, x), NEW fs, Open(fs), fs[1].last # 0, GoOn(fs, x), wf' = wf
    PROVE  Moved
<1>1. pos' \in Positions /\ pos'.frames = fs /\ pos'.step = pos.step /\ pos'.before = pos.before
      /\ pos'.try = pos.try
    BY DEF GoOn, Going, IInv, TypeOK, Positions, Open
<1>2. Open(pos.frames)'
    BY <1>1 DEF Open, Nodes
<1>3. /\ phase = "step" /\ phase' = "step" /\ ended' = ended /\ ctx' = x
      /\ ended \in Flags \cup {"budget", "uncaught"}
      /\ pos.step \in 1 .. Len(wf.step) /\ pos.before = 0 /\ pos.try > 0
    BY DEF GoOn, Going, IInv, TypeOK, StepsStartClean
<1>4. StepsStartClean'
    BY <1>1, <1>2, <1>3 DEF StepsStartClean
<1> QED BY <1>1, <1>3, <1>4 DEF Moved, Phases

\* A step begins with no error on record, or there is none left to begin.
LEMMA StepsFromMoves ==
    ASSUME wf \in Workflows, pos \in Positions,
           NEW s \in Nat \ {0}, NEW x \in Contexts, x.errs = <<>>, StepsFrom(s, x), wf' = wf
    PROVE  /\ ctx' = x /\ phase' \in {"step", "final"} /\ pos' \in Positions
           /\ ended' \in {"none", "budget"} /\ StepsStartClean'
<1>0. Len(wf.step) \in Nat
    BY WorkflowsAssumption DEF WorkflowsAssumption
<1>1. CASE s <= Len(wf.step)
    <2> DEFINE f == [at |-> 0, last |-> 0, i |-> 1, errs |-> Len(x.errs), out |-> <<>>]
    <2>1. f \in Frames /\ Len(x.errs) = 0 /\ f.at = 0
        BY DEF Frames, Values
    <2>2. /\ ctx' = x /\ pos' = StartStep(s, x)
          /\ \/ phase' = "final" /\ ended' = "budget"
             \/ phase' = "step" /\ ended' = "none"
        BY <1>1 DEF StepsFrom, BeginStep
    <2>3. /\ pos'.step = s /\ pos'.try = 1 /\ pos'.before = 0 /\ pos'.frames = <<f>>
          /\ pos' \in Positions
        BY <2>1, <2>2 DEF StartStep, Positions
    <2> HIDE DEF f
    <2>4. Open(<<f>>)'
        BY <2>1 DEF Open
    <2> QED BY <1>0, <1>1, <2>2, <2>3, <2>4 DEF StepsStartClean
<1>2. CASE ~(s <= Len(wf.step))
    <2>1. <<>> \in Seq(Frames)
        OBVIOUS
    <2>2. /\ ctx' = x /\ pos' = [pos EXCEPT !.frames = <<>>]
          /\ phase' = "final" /\ ended' = "none"
        BY <1>2 DEF StepsFrom
    <2>3. pos' \in Positions
        BY <2>1, <2>2 DEF Positions
    <2> QED BY <2>2, <2>3 DEF StepsStartClean
<1> QED BY <1>1, <1>2

\* An error lets no later step begin.
LEMMA StepReturnsMoves ==
    ASSUME Going, NEW x, MayBecome(ctx, x),
           NEW comp, comp.name = "none" \/ comp \in Command, StepReturns(x, comp), wf' = wf
    PROVE  Moved
<1> DEFINE y == [x EXCEPT !.ledger = IF comp.name = "none" THEN @
                                      ELSE Append(@, [step |-> pos.step, comp |-> comp])]
<1>0. x \in Contexts /\ pos \in Positions /\ pos.before = 0 /\ Len(x.errs) \in Nat
    BY DEF MayBecome, Going, IInv, TypeOK, StepsStartClean, Contexts
<1>1. CASE Len(x.errs) > pos.before
    BY <1>0, <1>1 DEF StepReturns, Moved, Phases, StepsStartClean, Going, IInv, TypeOK
<1>2. CASE ~(Len(x.errs) > pos.before)
    <2>1. NextStep(y)
        BY <1>2 DEF StepReturns
    <2>2. y \in Contexts /\ y.errs = x.errs /\ y.vars = x.vars /\ y.locked = x.locked
          /\ y.log = x.log
        <3> DEFINE l == IF comp.name = "none" THEN x.ledger
                        ELSE Append(x.ledger, [step |-> pos.step, comp |-> comp])
        <3>1. x.ledger \in Seq(Effect) /\ pos.step \in Nat
            BY <1>0 DEF Contexts, Positions
        <3>2. l \in Seq(Effect)
            <4>1. CASE comp.name = "none"
                BY <3>1, <4>1
            <4>2. CASE comp \in Command /\ comp.name # "none"
                <5>1. [step |-> pos.step, comp |-> comp] \in Effect
                    BY <3>1, <4>2 DEF Effect
                <5> QED BY <3>1, <4>2, <5>1
            <4> QED BY <4>1, <4>2
        <3>3. y = [x EXCEPT !.ledger = l]
            OBVIOUS
        <3> HIDE DEF l, y
        <3> QED BY <1>0, <3>2, <3>3 DEF Contexts
    <2>3. MayBecome(ctx, y)
        BY <2>2 DEF MayBecome, LogHolds
    <2>4. y.errs = <<>>
        BY <1>0, <1>2, <2>2 DEF Contexts
    <2>5. pos.step + 1 \in Nat \ {0} /\ wf \in Workflows
        BY <1>0 DEF Positions, Going, IInv, TypeOK
    <2> HIDE DEF y
    <2>6. /\ ctx' = y /\ phase' \in {"step", "final"} /\ pos' \in Positions
          /\ ended' \in {"none", "budget"} /\ StepsStartClean'
        BY <1>0, <2>1, <2>2, <2>4, <2>5, StepsFromMoves DEF NextStep
    <2> QED BY <2>3, <2>6 DEF Moved, Phases, Flags
<1> QED BY <1>1, <1>2

\* A signal leaves blocks, the step or the steps.
LEMMA SignalledMoves ==
    ASSUME Going, NEW x, MayBecome(ctx, x), NEW sig \in Flags, Signalled(sig, x), wf' = wf
    PROVE  Moved
<1>1. CASE sig = "skip" /\ Loops({"for", "until"}) # {}
    <2>1. PICK k \in DOMAIN pos.frames : GoOn(AfterSkip(k), x) /\ Innermost(k)
        BY <1>1 DEF Signalled, GoOn
    <2> QED BY <2>1, AfterSkipOpen, GoOnMoves
<1>2. CASE sig = "skip" /\ Loops({"for", "until"}) = {}
    <2>1. StepReturns(x, None) /\ None.name = "none"
        BY <1>2 DEF Signalled, None
    <2> QED BY <2>1, StepReturnsMoves
<1>3. CASE sig # "skip"
    BY <1>3 DEF Signalled, Moved, Phases, StepsStartClean, Going, IInv, TypeOK
<1> QED BY <1>1, <1>2, <1>3

-----------------------------------------------------------------------------
(* The actions.                                                            *)

\* The statements of a step, each in the innermost block.
LEMMA StatementsMove ==
    ASSUME Going, RunCommand \/ EnterConditional \/ EnterBlock
    PROVE  Moved
<1> USE DEF Running
<1>0. ctx \in Contexts /\ MayBecome(ctx, ctx) /\ wf \in Workflows /\ pos.step \in Nat
    BY MayStay DEF Going, IInv, TypeOK, Positions
<1>1. ASSUME NEW j \in Nodes(wf), GoOn(Visited(j), ctx), wf' = wf PROVE Moved
    BY <1>0, <1>1, VisitedOpen, GoOnMoves
<1>2. ASSUME NEW j \in Nodes(wf), NEW b \in Nodes(wf), NEW x, MayBecome(ctx, x), wf' = wf,
             GoOn(Push(Visited(j), Frame(b)), x)
      PROVE  Moved
    <2>1. Open(Push(Visited(j), Frame(b))) /\ Push(Visited(j), Frame(b))[1].last # 0
        BY VisitedOpen, PushOpen
    <2> QED BY <1>2, <2>1, GoOnMoves
<1>3. CASE RunCommand
    <2>1. PICK j \in Nodes(wf) :
             \E a \in Nodes(wf) \cup {0} :
                IF a = 0 THEN GoOn(Visited(j), ctx)
                ELSE \E r \in Executed(ctx, wf.node[a], pos.step) :
                       IF r.sig = "none" THEN GoOn(Visited(j), r.ctx)
                       ELSE Signalled(r.sig, r.ctx)
        BY <1>3 DEF RunCommand, Kids
    <2>2. PICK a \in Nodes(wf) \cup {0} :
                IF a = 0 THEN GoOn(Visited(j), ctx)
                ELSE \E r \in Executed(ctx, wf.node[a], pos.step) :
                       IF r.sig = "none" THEN GoOn(Visited(j), r.ctx)
                       ELSE Signalled(r.sig, r.ctx)
        BY <2>1
    <2>3. CASE a = 0
        BY <1>1, <1>3, <2>2, <2>3 DEF RunCommand
    <2>4. CASE a # 0
        <3>1. PICK r \in Executed(ctx, wf.node[a], pos.step) :
                   IF r.sig = "none" THEN GoOn(Visited(j), r.ctx) ELSE Signalled(r.sig, r.ctx)
            BY <2>2, <2>4
        <3>2. wf.node[a].name \in STRING
            BY <1>0, <2>2, <2>4, NodeFacts DEF Statement
        <3>3. MayBecome(ctx, r.ctx) /\ r.sig \in {"none", "pause", "break"}
            BY <1>0, <3>2, ExecutedMay
        <3>4. CASE r.sig = "none"
            BY <1>3, <3>1, <3>3, <3>4, VisitedOpen, GoOnMoves DEF RunCommand
        <3>5. CASE r.sig # "none"
            BY <1>3, <3>1, <3>3, <3>5, SignalledMoves DEF RunCommand, Flags
        <3> QED BY <3>4, <3>5
    <2> QED BY <2>2, <2>3, <2>4
<1>4. CASE EnterConditional
    BY <1>0, <1>1, <1>2, <1>4 DEF EnterConditional, Branches
<1>5. CASE EnterBlock
    <2>1. MayBecome(ctx, SetVar(ctx, "it", <<1>>))
        <3>1. <<1>> \in Values
            BY OneValue
        <3> QED BY <1>0, <3>1, SetVarMay
    <2> QED BY <1>0, <1>1, <1>2, <1>5, <2>1 DEF EnterBlock
<1> QED BY <1>3, <1>4, <1>5

\* The ends of the blocks, of their turns and of their elements.
LEMMA BlocksMove ==
    ASSUME Going, LeaveConditional \/ NextElement \/ UntilTurns \/ Join
    PROVE  Moved
<1> USE DEF Running
<1>0. ctx \in Contexts /\ MayBecome(ctx, ctx) /\ wf \in Workflows /\ pos.step \in Nat
    BY MayStay DEF Going, IInv, TypeOK, Positions
<1>1. Top.at # 0 /\ Top.i \in Nat /\ wf' = wf
    BY StackFacts DEF Frames, LeaveConditional, NextElement, UntilTurns, Join
<1>2. ASSUME NEW x, MayBecome(ctx, x), GoOn(Front(pos.frames), x) PROVE Moved
    BY <1>1, <1>2, FrontOpen, GoOnMoves
<1>3. ASSUME NEW x, MayBecome(ctx, x), GoOn(Again, x) PROVE Moved
    BY <1>1, <1>3, AgainOpen, GoOnMoves
<1>4. CASE LeaveConditional
    <2>1. Node.flag \in Flags
        BY <1>0, <1>1, StackFacts, NodeFacts DEF Node, Statement
    <2> QED BY <1>0, <1>1, <1>2, <1>4, <2>1, SignalledMoves DEF LeaveConditional
<1>5. CASE NextElement
    <2>1. MayBecome(ctx, SetVar(ctx, "it", <<Top.i + 1>>))
        <3>1. <<Top.i + 1>> \in Values
            BY <1>1, OneValue
        <3> QED BY <1>0, <3>1, SetVarMay
    <2> QED BY <1>0, <1>2, <1>3, <1>5, <2>1 DEF NextElement
<1>6. CASE UntilTurns
    BY <1>0, <1>2, <1>3, <1>6 DEF UntilTurns
<1>7. CASE Join
    <2>1. MayBecome(ctx, SetVar(ctx, Node.to, <<1>>))
        <3>1. <<1>> \in Values
            BY OneValue
        <3> QED BY <1>0, <3>1, SetVarMay
    <2> QED BY <1>0, <1>2, <1>7, <2>1 DEF Join
<1> QED BY <1>4, <1>5, <1>6, <1>7

\* An element of a ~MAP, or the list they have made.
LEMMA MapMoves ==
    ASSUME Going, MapElement
    PROVE  Moved
<1>0. /\ ctx \in Contexts /\ wf \in Workflows /\ pos.step \in Nat
      /\ wf' = wf /\ Top.at # 0 /\ Top \in Frames
    BY StackFacts DEF Going, IInv, TypeOK, Positions, MapElement, Running
<1>1. Node \in Statement
    BY <1>0, StackFacts, NodeFacts DEF Node
<1>2. CASE Top.i <= Node.n
    <2> DEFINE x == SetVar(ctx, "it", <<Top.i>>)
               c == [name |-> Node.name, to |-> "elem"]
    <2>1. PICK r \in Executed(x, c, pos.step) :
              IF r.sig # "none" THEN Signalled(r.sig, r.ctx)
              ELSE GoOn([Again EXCEPT ![Len(pos.frames)].out =
                            @ \o (IF r.ctx.vars["elem"] = <<>> THEN <<0>> ELSE r.ctx.vars["elem"])],
                        r.ctx)
        BY <1>2 DEF MapElement
    <2>2. MayBecome(ctx, x) /\ x \in Contexts
        <3>1. <<Top.i>> \in Values
            BY <1>0, OneValue DEF Frames
        <3> QED BY <1>0, <3>1, SetVarMay DEF MayBecome
    <2>3. c.name \in STRING
        BY <1>1 DEF Statement
    <2> HIDE DEF x, c
    <2>4. MayBecome(x, r.ctx) /\ r.sig \in {"none", "pause", "break"}
        BY <1>0, <2>2, <2>3, ExecutedMay
    <2>5. MayBecome(ctx, r.ctx) /\ r.ctx \in Contexts
        BY <2>2, <2>4, MayGoOn DEF MayBecome
    <2>6. CASE r.sig # "none"
        BY <1>0, <2>1, <2>4, <2>5, <2>6, SignalledMoves DEF Flags
    <2>7. CASE r.sig = "none"
        <3> DEFINE n == Len(pos.frames)
                   v == Again[n].out \o (IF r.ctx.vars["elem"] = <<>> THEN <<0>> ELSE r.ctx.vars["elem"])
                   f == [Again[n] EXCEPT !.out = v]
        <3>1. /\ Open(Again) /\ Again[1].last # 0 /\ n \in DOMAIN Again /\ n # 1
              /\ Again[n] \in Frames
            <4>1. Open(Again) /\ Again[1].last # 0
                BY <1>0, AgainOpen
            <4>2. n # 1 /\ n \in DOMAIN Again
                <5>1. n \in Nat \ {0} /\ DOMAIN pos.frames = 1 .. n /\ n > 1
                    BY <1>0, StackFacts
                <5>2. DOMAIN Again = DOMAIN pos.frames
                    BY DEF Again
                <5> HIDE DEF n
                <5> QED BY <5>1, <5>2
            <4> QED BY <4>1, <4>2 DEF Open
        <3>2. r.ctx.vars["elem"] \in Values /\ <<0>> \in Values
            BY <2>5, OneValue DEF Contexts, Variables
        <3>3. v \in Values
            BY <3>1, <3>2 DEF Values, Frames
        <3>4. f \in Frames /\ f.at = Again[n].at
            <4> HIDE DEF v
            <4> QED BY <3>1, <3>3 DEF Frames
        <3>5. GoOn([Again EXCEPT ![n] = f], r.ctx)
            BY <2>1, <2>7
        <3> HIDE DEF f, n
        <3>6. Open([Again EXCEPT ![n] = f]) /\ [Again EXCEPT ![n] = f][1].last # 0
            BY <3>1, <3>4, FrameChanged
        <3> QED BY <1>0, <2>5, <3>5, <3>6, GoOnMoves
    <2> QED BY <2>6, <2>7
<1>3. CASE ~(Top.i <= Node.n)
    <2>1. GoOn(Front(pos.frames), SetVar(ctx, Node.to, Top.out))
        BY <1>3 DEF MapElement
    <2>2. MayBecome(ctx, SetVar(ctx, Node.to, Top.out))
        BY <1>0, SetVarMay DEF Frames
    <2> QED BY <1>0, <2>1, <2>2, FrontOpen, GoOnMoves
<1> QED BY <1>2, <1>3

\* An attempt at a step ends, and with it perhaps the step.
LEMMA StepEndsMoves ==
    ASSUME Going, StepEnds
    PROVE  Moved
<1>0. /\ ctx \in Contexts /\ wf \in Workflows /\ pos \in Positions /\ wf' = wf
      /\ pos.step \in 1 .. Len(wf.step) /\ pos.before = 0 /\ pos.try > 0
      /\ MayBecome(ctx, ctx)
    BY MayStay DEF Going, IInv, TypeOK, StepsStartClean, StepEnds, Running
<1>1. CASE StepReturns(Truncated(ctx, pos.before), wf.step[pos.step].comp)
    <2>1. wf.step[pos.step].comp \in Command
        <3>1. wf.step \in Seq(Declared)
            BY <1>0, WorkflowsAssumption DEF WorkflowsAssumption
        <3>2. wf.step[pos.step] \in Declared
            BY <1>0, <3>1
        <3> QED BY <3>2 DEF Declared
    <2>2. SubSeq(ctx.errs, 1, 0) \in Seq([code: Codes, step: Nat])
        <3>1. ctx.errs \in Seq([code: Codes, step: Nat])
            BY <1>0 DEF Contexts
        <3>2. \A i \in 1 .. 0 : ctx.errs[i] \in [code: Codes, step: Nat]
            OBVIOUS
        <3> QED BY <3>2, SubSeqProperties
    <2> DEFINE x == Truncated(ctx, 0)
    <2>3. /\ x \in Contexts /\ x.vars = ctx.vars /\ x.locked = ctx.locked
          /\ x.log = ctx.log
        BY <1>0, <2>2 DEF Truncated, Contexts
    <2>4. MayBecome(ctx, x)
        BY <2>3 DEF MayBecome, LogHolds
    <2>5. StepReturns(x, wf.step[pos.step].comp)
        BY <1>0, <1>1
    <2> HIDE DEF x
    <2> QED BY <1>0, <2>1, <2>4, <2>5, StepReturnsMoves
<1>2. CASE /\ pos' = [pos EXCEPT !.try = @ + 1, !.mark = Len(ctx.errs), !.frames = <<Frame(0)>>]
           /\ UNCHANGED <<phase, ctx, ended>>
    <2>1. Frame(0) \in Frames /\ Frame(0).at = 0 /\ Len(ctx.errs) \in Nat
        BY <1>0 DEF Frame, Frames, Values, Contexts
    <2>2. /\ pos' \in Positions /\ pos'.frames = <<Frame(0)>> /\ pos'.step = pos.step
          /\ pos'.before = 0 /\ pos'.try = pos.try + 1 /\ pos.try \in Nat
        <3> DEFINE fs == <<Frame(0)>>
                   e == Len(ctx.errs)
        <3>1. fs \in Seq(Frames)
            BY <2>1
        <3>2. pos' = [pos EXCEPT !.try = pos.try + 1, !.mark = e, !.frames = fs]
            BY <1>2
        <3>3. pos.try \in Nat /\ pos.try + 1 \in Nat /\ e \in Nat
            BY <1>0, <2>1 DEF Positions
        <3> HIDE DEF fs, e
        <3>4. /\ pos' \in Positions /\ pos'.frames = fs /\ pos'.step = pos.step
              /\ pos'.before = pos.before /\ pos'.try = pos.try + 1
            BY <1>0, <3>1, <3>2, <3>3 DEF Positions
        <3> QED BY <1>0, <3>3, <3>4 DEF fs
    <2>3. Open(pos.frames)'
        BY <2>1, <2>2 DEF Open
    <2>4. StepsStartClean'
        BY <1>0, <1>2, <2>2, <2>3 DEF StepsStartClean, Going
    <2> QED BY <1>0, <1>2, <2>2, <2>4 DEF Moved, Going, IInv, TypeOK
<1>3. CASE StepReturns(ctx, None)
    BY <1>0, <1>3, StepReturnsMoves DEF None
<1> QED BY <1>1, <1>2, <1>3 DEF StepEnds

\* What is done once the steps are over: the handler, the unwinding.
LEMMA AfterStepsMoves ==
    ASSUME IInv, HandleError \/ Unwind
    PROVE  Moved
<1>0. /\ ctx \in Contexts /\ wf \in Workflows /\ pos \in Positions
      /\ pos.step \in Nat /\ phase \in Phases /\ ended \in Flags \cup {"budget", "uncaught"}
    BY DEF IInv, TypeOK, Positions
<1>1. ASSUME MayBecome(ctx, ctx'), UNCHANGED <<wf, pos>>, phase' \in Phases \ {"gate", "step"},
             ended' \in {ended, "uncaught"}
      PROVE  Moved
    BY <1>0, <1>1 DEF Moved, StepsStartClean
<1>2. CASE HandleError
    <2>1. MayBecome(ctx, ctx')
        <3>1. CASE wf.handler.name # "none"
            <4>1. wf.handler.name \in STRING
                BY <1>0, WorkflowsAssumption DEF WorkflowsAssumption, Command
            <4> QED BY <1>0, <1>2, <3>1, <4>1, ExecutedMay DEF HandleError
        <3>2. CASE wf.handler.name = "none"
            <4>1. "UNHANDLED_ERROR" \in Codes
                BY DEF Codes
            <4> QED BY <1>0, <1>2, <3>2, <4>1, ErredMay DEF HandleError
        <3> QED BY <3>1, <3>2
    <2> QED BY <1>1, <1>2, <2>1 DEF HandleError, Phases
<1>3. CASE Unwind /\ ctx.ledger = <<>>
    BY <1>0, <1>1, <1>3, MayStay DEF Unwind, Phases
<1>4. CASE Unwind /\ ctx.ledger # <<>>
    <2> DEFINE l == ctx.ledger
               effect == l[Len(l)]
               x == [ctx EXCEPT !.ledger = RemoveAt(l, Len(l))]
    <2>1. l \in Seq(Effect) /\ l # <<>>
        BY <1>0, <1>4 DEF Contexts
    <2>2. effect \in Effect
        <3> HIDE DEF l
        <3> QED BY <2>1
    <2>3. RemoveAt(l, Len(l)) \in Seq(Effect)
        <3> DEFINE n == Len(l)
        <3>1. n \in Nat \ {0}
            BY <2>1
        <3> HIDE DEF n
        <3>2. /\ SubSeq(l, 1, n - 1) \in Seq(Effect)
              /\ SubSeq(l, n + 1, n) \in Seq(Effect)
            <4>1. n = Len(l)
                BY DEF n
            <4> HIDE DEF l
            <4>2. /\ \A i \in 1 .. n - 1 : l[i] \in Effect
                  /\ \A i \in n + 1 .. n : l[i] \in Effect
                BY <2>1, <3>1, <4>1
            <4> QED BY <3>1, <4>2, SubSeqProperties
        <3> QED BY <3>2 DEF RemoveAt, n
    <2>4. PICK r \in Executed(x, effect.comp, effect.step) :
             ctx' = IF Len(r.ctx.errs) # Len(ctx.errs)
                    THEN Erred(r.ctx, "COMPENSATION_FAILED", effect.step) ELSE r.ctx
        BY <1>4 DEF Unwind, Undo
    <2> HIDE DEF effect
    <2>5. /\ x \in Contexts /\ x.vars = ctx.vars /\ x.locked = ctx.locked
          /\ x.log = ctx.log
        BY <1>0, <2>3 DEF Contexts
    <2> HIDE DEF x, l
    <2>6. MayBecome(ctx, x)
        BY <2>5 DEF MayBecome, LogHolds
    <2>7. MayBecome(x, r.ctx)
        <3>1. effect.comp.name \in STRING /\ effect.step \in Nat
            BY <2>2 DEF Effect, Command
        <3> QED BY <2>4, <2>5, <3>1, ExecutedMay
    <2>8. MayBecome(r.ctx, ctx')
        <3>1. r.ctx \in Contexts /\ effect.step \in Nat /\ "COMPENSATION_FAILED" \in Codes
            BY <2>2, <2>7 DEF Effect, MayBecome, Codes
        <3>2. MayBecome(r.ctx, Erred(r.ctx, "COMPENSATION_FAILED", effect.step))
            BY <3>1, ErredMay
        <3> QED BY <2>4, <3>1, <3>2, MayStay
    <2>9. MayBecome(ctx, ctx')
        BY <2>6, <2>7, <2>8, MayGoOn
    <2> QED BY <1>0, <1>1, <1>4, <2>9 DEF Unwind, Phases
<1> QED BY <1>2, <1>3, <1>4

\* The gate and the end of a run.
LEMMA EndsMove ==
    ASSUME IInv, Gate \/ Finalise \/ Return \/ Over
    PROVE  Moved
<1>0. /\ ctx \in Contexts /\ wf \in Workflows /\ pos \in Positions /\ phase \in Phases
      /\ ended \in Flags \cup {"budget", "uncaught"} /\ MayBecome(ctx, ctx)
    BY MayStay DEF IInv, TypeOK
<1>1. CASE Gate
    <2>1. CASE phase' = "refused" /\ UNCHANGED <<wf, ctx, pos, ended>>
        BY <1>0, <2>1 DEF Moved, Phases, StepsStartClean
    <2>2. CASE StepsFrom(1, ctx) /\ wf' = wf /\ phase = "gate"
        <3>1. ctx.errs = <<>>
            BY <2>2 DEF IInv, StepsStartClean, Fresh
        <3>2. /\ ctx' = ctx /\ phase' \in {"step", "final"} /\ pos' \in Positions
              /\ ended' \in {"none", "budget"} /\ StepsStartClean'
            BY <1>0, <2>2, <3>1, StepsFromMoves
        <3> QED BY <1>0, <2>2, <3>2 DEF Moved, Phases, Flags
    <2> QED BY <1>1, <2>1, <2>2 DEF Gate
<1>2. CASE Finalise
    BY <1>0, <1>2 DEF Finalise, Moved, Phases, StepsStartClean
<1>3. CASE Return
    BY <1>0, <1>3 DEF Return, Moved, Phases, StepsStartClean
<1>4. CASE Over
    BY <1>0, <1>4 DEF Over, vars, Moved, Phases, StepsStartClean
<1> QED BY <1>1, <1>2, <1>3, <1>4

\* A restart forgets everything, and is the only step to do so.
LEMMA RestartBegins ==
    ASSUME IInv, Restart
    PROVE  /\ IInv'
           /\ attempt' = attempt + 1
<1>1. Fresh \in Contexts /\ Fresh.errs = <<>> /\ Fresh.log = <<>>
    BY DEF Fresh, Contexts, Values
<1>2. /\ wf \in Workflows /\ wf' = wf /\ pos \in Positions /\ StepsFrom(1, Fresh)
      /\ attempt \in Nat /\ attempt' = attempt + 1 /\ status' = "none"
    BY DEF IInv, TypeOK, Restart
<1>3. /\ ctx' = Fresh /\ phase' \in {"step", "final"} /\ pos' \in Positions
      /\ ended' \in {"none", "budget"} /\ StepsStartClean'
    BY <1>1, <1>2, StepsFromMoves
<1>4. TypeOK'
    BY <1>1, <1>2, <1>3 DEF TypeOK, Phases, Flags
<1>5. LogHolds(ctx)'
    BY <1>1, <1>3 DEF LogHolds
<1> QED BY <1>2, <1>3, <1>4, <1>5 DEF IInv

\* Every other step keeps the rules and the lock of $out.
LEMMA NextMoves ==
    ASSUME IInv, Next, ~Restart
    PROVE  Moved /\ attempt' = attempt /\ TypeOK'
<1>1. Moved
    BY StatementsMove, BlocksMove, MapMoves, StepEndsMoves, AfterStepsMoves, EndsMove
    DEF Next, Going, RunCommand, EnterConditional, EnterBlock, LeaveConditional, NextElement,
        UntilTurns, Join, MapElement, StepEnds, Running
<1>2. /\ attempt' = attempt
      /\ status' \in {"none", "Ok", "Partial", "Aborted", "Paused", "Failed"}
    BY DEF IInv, TypeOK, Next, Gate, RunCommand, EnterConditional, EnterBlock, LeaveConditional,
        NextElement, UntilTurns, Join, MapElement, StepEnds, Running, HandleError, Finalise,
        StatusOf, Unwind, Return, Over, vars
<1>3. wf \in Workflows /\ attempt \in Nat
    BY DEF IInv, TypeOK
<1> QED BY <1>1, <1>2, <1>3 DEF Moved, MayBecome, TypeOK

LEMMA NextIInv ==
    ASSUME IInv, [Next]_vars
    PROVE  IInv'
<1>1. CASE Restart
    BY <1>1, RestartBegins
<1>2. CASE Next /\ ~Restart
    <2>1. Moved /\ TypeOK'
        BY <1>2, NextMoves
    <2>2. LogHolds(ctx')
        BY <2>1 DEF Moved, MayBecome, IInv
    <2>3. LogHolds(ctx)'
        BY <2>1, <2>2 DEF Moved, LogHolds
    <2> QED BY <2>1, <2>3 DEF Moved, IInv
<1>3. CASE UNCHANGED vars
    BY <1>3 DEF vars, IInv, TypeOK, LogHolds, StepsStartClean, Open, Nodes
<1> QED BY <1>1, <1>2, <1>3

\* A run begins at the gate, with a fresh context.
LEMMA InitIInv == Init => IInv
<1> SUFFICES ASSUME Init PROVE IInv
    OBVIOUS
<1>1. Fresh \in Contexts /\ Fresh.log = <<>>
    BY DEF Fresh, Contexts, Values
<1>2. pos \in Positions
    BY DEF Init, Positions
<1>3. TypeOK
    BY <1>1, <1>2 DEF Init, TypeOK, Phases, Flags
<1>4. LogHolds(ctx) /\ StepsStartClean
    BY <1>1 DEF Init, LogHolds, StepsStartClean
<1> QED BY <1>3, <1>4 DEF IInv

-----------------------------------------------------------------------------
\* The executor's inductive invariant: whatever the workflow, its log is one the
\* rules allow, its stack is of open blocks of its own, and its steps start clean.
THEOREM ExecutorInvariant == Spec => []IInv
<1>1. IInv /\ [Next]_vars => IInv'
    BY NextIInv
<1> QED BY <1>1, InitIInv, PTL DEF Spec

\* Contexts, stacks and positions are well formed in every reachable state.
THEOREM ExecutorTypes == Spec => []TypeOK
<1>1. IInv => TypeOK
    BY DEF IInv
<1> QED BY <1>1, ExecutorInvariant, PTL

\* No workflow performs what its rules forbid, whoever issues the command: a
\* step, a ~MAP, the @err handler or a compensation; and no step begins with an
\* error on record.
THEOREM RunsKeepTheirRules == Spec => []RulesHold
<1>1. ASSUME IInv PROVE RulesHold
    <2>1. ASSUME phase = "step", pos.try = 1, Len(pos.frames) = 1, Top.last = 0
          PROVE  ctx.errs = <<>>
        <3>1. Top = pos.frames[1]
            BY <2>1 DEF Top, Last
        <3> QED BY <1>1, <2>1, <3>1 DEF IInv, StepsStartClean
    <2> QED BY <1>1, <2>1 DEF IInv, LogHolds, RulesHold
<1>2. IInv => RulesHold
    BY <1>1
<1> QED BY <1>2, ExecutorInvariant, PTL

\* Once LOG has run, nothing but a restart changes $out.
THEOREM LockHolds == Spec => LoggedOutIsFinal
<1>1. ASSUME IInv, [Next]_vars
      PROVE  [ctx.locked /\ attempt' = attempt => ctx'.vars["out"] = ctx.vars["out"]]_vars
    <2>1. CASE Restart
        <3>1. attempt' = attempt + 1 /\ attempt \in Nat
            BY <1>1, <2>1, RestartBegins DEF IInv, TypeOK
        <3> QED BY <3>1
    <2>2. CASE Next /\ ~Restart
        BY <1>1, <2>2, NextMoves DEF Moved, MayBecome
    <2>3. CASE UNCHANGED vars
        BY <2>3
    <2> QED BY <1>1, <2>1, <2>2, <2>3
<1>2. IInv /\ [Next]_vars =>
          [ctx.locked /\ attempt' = attempt => ctx'.vars["out"] = ctx.vars["out"]]_vars
    BY <1>1
<1> QED BY <1>2, ExecutorInvariant, PTL DEF Spec, LoggedOutIsFinal

-----------------------------------------------------------------------------
(* The loop runner.                                                         *)

\* Nothing is committed before an execution loop is done, and a turn is begun only below
\* the ceiling.
LoopIInv ==
    /\ iteration \in Nat /\ iteration <= MaxIterations
    /\ executing \in {"turn", "guard"} => iteration < MaxIterations
    /\ executing \in {"ceiling", "turn", "guard", "stopped"} => committed = {}
    /\ executing = "guard" => changes \subseteq Artifacts
    /\ Loop!CommitsAreDeclaredAndRecorded

\* No loop has run.
LEMMA LoopInit == Loop!Init => LoopIInv
BY PartsAssumption DEF Loop!Init, LoopIInv, Loop!LoopAssumption,
                       Loop!CommitsAreDeclaredAndRecorded

\* An attempt that is judged done is legal, and in the ledger before it is committed.
LEMMA LoopCommits ==
    ASSUME LoopIInv, Loop!JudgeDone
    PROVE  LoopIInv'
<1>1. /\ executing' = "done" /\ iteration' = iteration + 1 /\ committed' = changes
      /\ changes \subseteq Mutable
      /\ ledger' = ledger \cup Loop!Entry(iteration, changes, "applied")
  BY DEF Loop!JudgeDone, Loop!Illegal, Loop!Recorded
<1>2. iteration' \in Nat /\ iteration' - 1 = iteration /\ iteration' <= MaxIterations
  BY <1>1, PartsAssumption DEF LoopIInv, Loop!LoopAssumption, Loop!JudgeDone
<1>3. \A a \in committed' : [iteration |-> iteration' - 1, artifact |-> a,
    why |-> "applied"] \in ledger'
  BY <1>1, <1>2 DEF Loop!Entry
<1> QED
  BY <1>1, <1>2, <1>3 DEF LoopIInv, Loop!CommitsAreDeclaredAndRecorded

\* Every step of both loops keeps the invariant.
LEMMA LoopNext ==
    ASSUME LoopIInv, [Loop!Next]_loopVars
    PROVE  LoopIInv'
<1> USE PartsAssumption DEF Loop!LoopAssumption
<1> USE DEF LoopIInv, Loop!CommitsAreDeclaredAndRecorded
<1>1. CASE UNCHANGED loopVars
  BY <1>1 DEF loopVars
<1>2. CASE Loop!Ceiling
  BY <1>2 DEF Loop!Ceiling, Loop!CeilingStops
<1>3. CASE Loop!RunTurn
  BY <1>3 DEF Loop!RunTurn
<1>4. CASE Loop!Refuse
  BY <1>4 DEF Loop!Refuse, Loop!Refused
<1>5. CASE Loop!JudgeDone
  BY <1>5, LoopCommits
<1>6. CASE Loop!JudgeNot
  BY <1>6 DEF Loop!JudgeNot
<1>7. CASE Loop!StartGeneration
  BY <1>7 DEF Loop!StartGeneration, Loop!inner
<1>8. CASE Loop!StartTask
  BY <1>8 DEF Loop!StartTask, Loop!Fresh
<1>9. CASE Loop!EndTask
  BY <1>9 DEF Loop!EndTask
<1>10. CASE Loop!Improve
  BY <1>10 DEF Loop!Improve, Loop!inner
<1>11. CASE Loop!ScoreCandidate
  BY <1>11 DEF Loop!ScoreCandidate, Loop!inner
<1> QED
  BY <1>1, <1>2, <1>3, <1>4, <1>5, <1>6, <1>7, <1>8, <1>9, <1>10, <1>11 DEF Loop!Next

-----------------------------------------------------------------------------
(* The model router.                                                        *)

Breakers == [state : {"closed", "degraded", "open", "half-open"}, count : 0..Threshold]
Credentials == [key : Nat, count : Nat]

RouterIInv ==
    /\ circuit \in [Router!Providers -> Breakers]
    /\ failures \in [Router!Providers -> 0..Threshold]
    /\ call \in [Calls -> 0..N]
    /\ keys \in Seq(Credentials) /\ index \in Nat
    /\ Router!CircuitsFollowReports

\* A circuit that says what the reports say, for any count of failures.
Tells(breaker, n) ==
    /\ breaker.count = n
    /\ breaker.state \in {"open", "half-open"} <=> n = Threshold
    /\ breaker.state = "closed" <=> n = 0

\* A nonempty set of numbers has a least one.
LEMMA LeastOfMany ==
    ASSUME NEW Set \in SUBSET Nat, Set # {}
    PROVE  \E m \in Set : \A k \in Set : m <= k
<1>1. PICK m \in Set : \A k \in Set : ~(<<k, m>> \in OpToRel(<, Nat))
  BY NatLessThanWellFounded, WFMin
<1>2. \A k \in Set : ~(k < m)
  BY <1>1 DEF OpToRel
<1> QED
  BY <1>2

\* The first of some providers is one of them.
LEMMA FirstIsOne ==
    ASSUME NEW Set \in SUBSET Router!Providers, Set # {}
    PROVE  Router!First(Set) \in Set
<1>1. Set \in SUBSET Nat
  BY PartsAssumption DEF Router!RouterAssumption, Router!Providers
<1>2. \E p \in Set : \A q \in Set : p <= q
  BY <1>1, LeastOfMany
<1> QED
  BY <1>2 DEF Router!First

\* A new pool.
LEMMA RouterInit == Router!Init => RouterIInv
<1> SUFFICES ASSUME Router!Init PROVE RouterIInv
  OBVIOUS
<1>0. /\ N \in Nat /\ Threshold \in Nat \ {0} /\ NKeys \in Nat /\ EvictThreshold \in Nat \ {0}
  BY PartsAssumption DEF Router!RouterAssumption
<1>1. keys \in Seq(Credentials) /\ Len(keys) = NKeys /\ \A i \in 1..NKeys : keys[i].count = 0
  <2>1. keys = [i \in 1..NKeys |-> [key |-> i, count |-> 0]]
    BY DEF Router!Init
  <2>2. \A i \in 1..NKeys : [key |-> i, count |-> 0] \in Credentials
    BY <1>0 DEF Credentials
  <2>3. keys \in [1..NKeys -> Credentials]
    BY <2>1, <2>2
  <2> QED
    BY <1>0, <2>1, <2>3
<1>2. circuit \in [Router!Providers -> Breakers]
  BY <1>0 DEF Router!Init, Router!Closed, Breakers
<1>3. \A p \in Router!Providers : circuit[p].count = 0 /\ circuit[p].state = "closed"
    /\ failures[p] = 0
  BY DEF Router!Init, Router!Closed
<1>4. failures \in [Router!Providers -> 0..Threshold] /\ call \in [Calls -> 0..N] /\ index = 0
  BY <1>0 DEF Router!Init
<1>5. DOMAIN keys = 1..NKeys /\ (keys # <<>> => index < Len(keys))
  BY <1>0, <1>1, <1>4, EmptySeq
<1>6. \A i \in DOMAIN keys : keys[i].count < EvictThreshold
  BY <1>0, <1>1, <1>5
<1> QED
  BY <1>0, <1>1, <1>2, <1>3, <1>4, <1>5, <1>6 DEF RouterIInv, Router!CircuitsFollowReports

\* route: circuits that are open may be tried, which is no report.
LEMMA Routed ==
    ASSUME RouterIInv, NEW c \in Calls, Router!Route(c)
    PROVE  RouterIInv'
<1>1. PICK sound \in SUBSET Router!Providers : Router!Explore(c, sound) \/ Router!Score(c, sound)
  BY DEF Router!Route
<1>2. UNCHANGED <<failures, keys, index>>
  BY DEF Router!Route, Router!keyVars
<1>3. N \in Nat /\ Threshold \in Nat /\ Router!Providers = 1..N
  BY PartsAssumption DEF Router!RouterAssumption, Router!Providers
<1>4. CASE Router!Explore(c, sound)
  <2>1. Router!Explored(sound) \in SUBSET Router!Providers /\ Router!Explored(sound) # {}
    BY <1>4 DEF Router!Explored, Router!Explore
  <2>2. Router!First(Router!Explored(sound)) \in Router!Providers
    BY <2>1, FirstIsOne
  <2>3. call' \in [Calls -> 0..N] /\ circuit' = circuit
    BY <1>3, <1>4, <2>2 DEF Router!Explore, Router!Decide, RouterIInv
  <2> QED
    BY <1>2, <2>3 DEF RouterIInv, Router!CircuitsFollowReports
<1>5. CASE Router!Score(c, sound)
  <2> DEFINE candidates == {p \in Router!Providers : ~Router!Resting(p)}
  <2>1. candidates # {} => Router!First(candidates) \in Router!Providers
    BY FirstIsOne
  <2>2. call' \in [Calls -> 0..N]
    <3>1. \/ call' = call
          \/ candidates # {} /\ call' = [call EXCEPT ![c] = Router!First(candidates)]
          \/ \E p \in candidates : call' = [call EXCEPT ![c] = p]
      BY <1>5 DEF Router!Score, Router!Decide
    <3>2. call' = call \/ \E p \in Router!Providers : call' = [call EXCEPT ![c] = p]
      BY <2>1, <3>1
    <3> QED
      BY <1>3, <3>2 DEF RouterIInv
  <2>3. circuit' = [p \in Router!Providers |-> Router!AfterIsOpen(p)]
    BY <1>5 DEF Router!Score
  <2>4. ASSUME NEW p \in Router!Providers
        PROVE  /\ circuit'[p] \in Breakers /\ circuit'[p].count = circuit[p].count
               /\ circuit'[p].state = circuit[p].state
                    \/ (circuit[p].state = "open" /\ circuit'[p].state = "half-open")
    <3>1. circuit[p] \in Breakers /\ circuit'[p] = Router!AfterIsOpen(p)
      BY <2>3 DEF RouterIInv
    <3> QED
      BY <3>1 DEF Router!AfterIsOpen, Breakers
  <2>5. circuit' \in [Router!Providers -> Breakers]
    BY <2>3, <2>4
  <2> QED
    BY <1>2, <2>2, <2>4, <2>5 DEF RouterIInv, Router!CircuitsFollowReports
<1> QED
  BY <1>1, <1>4, <1>5

\* record_success and record_failure: whichever call reports, and whatever its circuit is.
LEMMA Reported ==
    ASSUME RouterIInv, NEW c \in Calls, Router!RecordSuccess(c) \/ Router!RecordFailure(c)
    PROVE  RouterIInv'
<1>1. N \in Nat /\ Threshold \in Nat \ {0} /\ Router!Providers = 1..N
  BY PartsAssumption DEF Router!RouterAssumption, Router!Providers
<1>2. PICK p \in Router!Providers : p = call[c]
  <2>1. call[c] \in 0..N /\ call[c] # 0
    BY DEF RouterIInv, Router!RecordSuccess, Router!RecordFailure
  <2> QED
    BY <1>1, <2>1
<1>3. /\ call' = [call EXCEPT ![c] = 0] /\ UNCHANGED <<keys, index>>
  BY DEF Router!RecordSuccess, Router!RecordFailure, Router!keyVars
<1>4. call' \in [Calls -> 0..N]
  BY <1>1, <1>3 DEF RouterIInv
<1>5. PICK breaker \in Breakers, n \in 0..Threshold :
          /\ circuit' = [circuit EXCEPT ![p] = breaker] /\ failures' = [failures EXCEPT ![p] = n]
          /\ Tells(breaker, n)
  <2>1. CASE Router!RecordSuccess(c)
    <3>1. Router!Closed \in Breakers /\ Tells(Router!Closed, 0) /\ 0 \in 0..Threshold
      BY <1>1 DEF Router!Closed, Breakers, Tells
    <3>2. /\ circuit' = [circuit EXCEPT ![p] = Router!Closed]
          /\ failures' = [failures EXCEPT ![p] = 0]
      BY <1>2, <2>1 DEF Router!RecordSuccess
    <3> QED
      BY <3>1, <3>2
  <2>2. CASE Router!RecordFailure(c)
    <3> DEFINE breaker == Router!Failed(circuit[p])
               n == Router!AtMost(failures[p] + 1, Threshold)
    <3>1. circuit[p] \in Breakers /\ failures[p] \in 0..Threshold /\ circuit[p].count = failures[p]
      BY DEF RouterIInv, Router!CircuitsFollowReports
    <3>2. n \in 0..Threshold /\ n # 0
      BY <1>1, <3>1 DEF Router!AtMost
    <3>3. breaker = [count |-> n, state |-> IF n >= Threshold THEN "open" ELSE "degraded"]
      BY <3>1 DEF Router!Failed
    <3>4. breaker \in Breakers /\ Tells(breaker, n)
      <4> HIDE DEF n
      <4>1. n >= Threshold <=> n = Threshold
        BY <1>1, <3>2
      <4> QED
        BY <3>2, <3>3, <4>1 DEF Breakers, Tells
    <3>5. /\ circuit' = [circuit EXCEPT ![p] = breaker]
          /\ failures' = [failures EXCEPT ![p] = n]
      BY <1>2, <2>2 DEF Router!RecordFailure, RouterIInv
    <3> HIDE DEF breaker, n
    <3> QED
      BY <3>2, <3>4, <3>5
  <2> QED
    BY <2>1, <2>2
<1>6. circuit' \in [Router!Providers -> Breakers]
    /\ failures' \in [Router!Providers -> 0..Threshold]
  BY <1>5 DEF RouterIInv
<1>7. ASSUME NEW q \in Router!Providers
      PROVE  Tells(circuit'[q], failures'[q])
  <2>1. Tells(circuit[q], failures[q])
    BY DEF RouterIInv, Router!CircuitsFollowReports, Tells
  <2> QED
    BY <1>5, <2>1 DEF RouterIInv
<1> QED
  BY <1>3, <1>4, <1>6, <1>7 DEF RouterIInv, Router!CircuitsFollowReports, Tells

\* A sequence without one of its places.
LEMMA Removed ==
    ASSUME NEW Set, NEW s \in Seq(Set), NEW i \in 1..Len(s)
    PROVE  /\ Router!RemoveAt(s, i) \in Seq(Set) /\ Len(Router!RemoveAt(s, i)) = Len(s) - 1
           /\ \A k \in 1..(Len(s) - 1) : k < i => Router!RemoveAt(s, i)[k] = s[k]
           /\ \A k \in 1..(Len(s) - 1) : k >= i => Router!RemoveAt(s, i)[k] = s[k + 1]
<1> DEFINE n == Len(s)
           a == SubSeq(s, 1, i - 1)
           b == SubSeq(s, i + 1, n)
           r == a \o b
<1>1. n \in Nat /\ i \in 1..n /\ Router!RemoveAt(s, i) = r
  BY DEF Router!RemoveAt
<1>2. \A k \in 1..n : s[k] \in Set
  OBVIOUS
<1>3. a \in Seq(Set) /\ Len(a) = i - 1 /\ \A k \in 1..(i - 1) : a[k] = s[k]
  <2>1. \A k \in 1..(i - 1) : s[k] \in Set /\ 1 + k - 1 = k
    BY <1>1, <1>2
  <2>2. 1 \in Int /\ i - 1 \in Int /\ (i - 1) - 1 + 1 = i - 1 /\ (1 <= i - 1 \/ i - 1 = 0)
    BY <1>1
  <2> QED
    BY <2>1, <2>2, SubSeqProperties
<1>4. b \in Seq(Set) /\ Len(b) = n - i /\ \A k \in 1..(n - i) : b[k] = s[i + k]
  <2>1. \A k \in (i + 1)..n : s[k] \in Set
    BY <1>1, <1>2
  <2>2. /\ i + 1 \in Int /\ n \in Int /\ n - (i + 1) + 1 = n - i /\ (i + 1 <= n \/ n - i = 0)
        /\ \A k \in 1..(n - i) : (i + 1) + k - 1 = i + k
    BY <1>1
  <2> HIDE DEF n
  <2> QED
    BY <2>1, <2>2, SubSeqProperties
<1> HIDE DEF n, a, b
<1>5. /\ r \in Seq(Set) /\ Len(r) = n - 1
      /\ \A k \in 1..(n - 1) : r[k] = IF k <= i - 1 THEN a[k] ELSE b[k - (i - 1)]
  <2>1. Len(a) + Len(b) = n - 1
    BY <1>1, <1>3, <1>4
  <2>2. /\ r \in Seq(Set) /\ Len(r) = Len(a) + Len(b)
        /\ \A k \in 1..(Len(a) + Len(b)) : r[k] = IF k <= Len(a) THEN a[k] ELSE b[k - Len(a)]
    <3>1. a \in Seq(Set) /\ b \in Seq(Set)
      BY <1>3, <1>4
    <3> QED
      BY <3>1, ConcatProperties
  <2> HIDE DEF r
  <2> QED
    BY <1>3, <2>1, <2>2
<1> HIDE DEF r
<1>6. ASSUME NEW k \in 1..(n - 1)
      PROVE  (k < i => r[k] = s[k]) /\ (k >= i => r[k] = s[k + 1])
  <2>1. CASE k < i
    <3>1. k <= i - 1 /\ k \in 1..(i - 1)
      BY <1>1, <2>1
    <3> QED
      BY <1>1, <1>3, <1>5, <2>1, <3>1
  <2>2. CASE k >= i
    <3>1. ~(k <= i - 1) /\ k - (i - 1) \in 1..(n - i) /\ i + (k - (i - 1)) = k + 1 /\ ~(k < i)
      BY <1>1, <2>2
    <3> QED
      BY <1>4, <1>5, <3>1
  <2> QED
    BY <1>1, <2>1, <2>2
<1> QED
  BY <1>1, <1>5, <1>6 DEF n

\* rotate, and record_failure with the eviction it may bring.
LEMMA CredentialsFollow ==
    ASSUME RouterIInv, Router!Rotate \/ Router!KeyFails
    PROVE  RouterIInv'
<1>0. EvictThreshold \in Nat \ {0} /\ keys \in Seq(Credentials) /\ index \in Nat
    /\ Len(keys) \in Nat
  BY PartsAssumption DEF Router!RouterAssumption, RouterIInv
<1>1. UNCHANGED <<circuit, call, failures>>
  BY DEF Router!Rotate, Router!KeyFails, Router!poolVars
<1>2. ASSUME NEW m \in Nat \ {0} PROVE \A x \in Nat : x % m \in Nat /\ x % m < m
  OBVIOUS
<1>3. /\ keys' \in Seq(Credentials) /\ index' \in Nat /\ (keys' # <<>> => index' < Len(keys'))
      /\ \A i \in DOMAIN keys' : keys'[i].count < EvictThreshold
  <2>1. CASE Router!Rotate
    <3>1. keys' = keys /\ index' = (index + 1) % Len(keys) /\ Len(keys) \in Nat \ {0}
      BY <1>0, <2>1, EmptySeq DEF Router!Rotate
    <3>2. index' \in Nat /\ index' < Len(keys)
      BY <1>0, <1>2, <3>1
    <3> QED
      BY <1>0, <3>1, <3>2 DEF RouterIInv, Router!CircuitsFollowReports
  <2>2. CASE Router!KeyFails
    <3> DEFINE at == index + 1
               counted == [keys EXCEPT ![at].count = keys[at].count + 1]
               left == IF counted[at].count >= EvictThreshold
                       THEN Router!RemoveAt(counted, at) ELSE counted
    <3>1. /\ index < Len(keys) /\ keys' = left
          /\ index' = IF Len(left) < Len(keys) THEN Router!IndexAfter(left) ELSE index
      BY <1>0, <2>2 DEF Router!KeyFails
    <3>2. at \in 1..Len(keys) /\ keys[at] \in Credentials
      BY <1>0, <3>1
    <3>3. /\ counted \in Seq(Credentials) /\ Len(counted) = Len(keys)
          /\ counted[at].count = keys[at].count + 1
          /\ \A i \in 1..Len(keys) : i # at => counted[i] = keys[i]
      <4>1. [keys[at] EXCEPT !.count = keys[at].count + 1] \in Credentials
        BY <3>2 DEF Credentials
      <4>2. counted = [keys EXCEPT ![at] = [keys[at] EXCEPT !.count = keys[at].count + 1]]
        BY <1>0, <3>2
      <4>3. [keys[at] EXCEPT !.count = keys[at].count + 1].count = keys[at].count + 1
        BY <3>2 DEF Credentials
      <4> HIDE DEF at, counted
      <4> QED
        BY <1>0, <3>2, <4>1, <4>2, <4>3
    <3>4. \A i \in 1..Len(keys) : keys[i].count < EvictThreshold
      BY <1>0 DEF RouterIInv, Router!CircuitsFollowReports
    <3>5. counted[at].count \in Nat
      BY <3>2, <3>3 DEF Credentials
    <3>6. CASE counted[at].count >= EvictThreshold
      <4> HIDE DEF at, counted
      <4>1. PICK n \in Nat : n = Len(keys)
        BY <1>0
      <4>2. at \in 1..Len(counted) /\ Len(counted) = n
        BY <3>2, <3>3, <4>1
      <4>3. left = Router!RemoveAt(counted, at)
        BY <3>6
      <4> HIDE DEF left
      <4>4. /\ left \in Seq(Credentials) /\ Len(left) = n - 1
            /\ \A k \in 1..(n - 1) : k < at => left[k] = counted[k]
            /\ \A k \in 1..(n - 1) : k >= at => left[k] = counted[k + 1]
        BY <3>3, <4>2, <4>3, Removed
      <4>5. ASSUME NEW k \in 1..(n - 1) PROVE left[k].count < EvictThreshold
        <5>1. at \in 1..n
          BY <3>2, <4>1
        <5>2. /\ k \in 1..n /\ k + 1 \in 1..n /\ (k < at => k # at) /\ (k >= at => k + 1 # at)
              /\ k < at \/ k >= at
          BY <4>1, <5>1
        <5> QED
          BY <3>3, <3>4, <4>1, <4>4, <5>2
      <4>6. index' = Router!IndexAfter(left)
        BY <3>1, <4>1, <4>4
      <4>7. left # <<>> => Len(left) \in Nat \ {0}
        BY <4>4, EmptySeq
      <4>8. index' \in Nat /\ (left # <<>> => index' < Len(left))
        <5>1. CASE left = <<>>
          BY <1>0, <4>6, <5>1 DEF Router!IndexAfter
        <5>2. CASE left # <<>>
          BY <1>0, <1>2, <4>6, <4>7, <5>2 DEF Router!IndexAfter
        <5> QED
          BY <5>1, <5>2
      <4>9. DOMAIN left = 1..(n - 1)
        BY <4>4
      <4> QED
        BY <3>1, <4>4, <4>5, <4>8, <4>9
    <3>7. CASE ~(counted[at].count >= EvictThreshold)
      <4>1. left = counted /\ counted[at].count < EvictThreshold
        BY <1>0, <3>5, <3>7
      <4> HIDE DEF at, counted, left
      <4>2. \A i \in 1..Len(keys) : counted[i].count < EvictThreshold
        BY <3>3, <3>4, <4>1
      <4>3. index' = index /\ DOMAIN counted = 1..Len(keys)
        BY <1>0, <3>1, <3>3, <4>1
      <4> QED
        BY <1>0, <3>1, <3>3, <4>1, <4>2, <4>3
    <3> QED
      BY <3>6, <3>7
  <2> QED
    BY <2>1, <2>2
<1> QED
  BY <1>1, <1>3 DEF RouterIInv, Router!CircuitsFollowReports

\* Every step of the pool keeps the invariant.
LEMMA RouterNext ==
    ASSUME RouterIInv, [Router!Next]_routerVars
    PROVE  RouterIInv'
<1>1. CASE UNCHANGED routerVars
  BY <1>1 DEF routerVars, RouterIInv, Router!CircuitsFollowReports
<1>2. CASE Router!Tick \/ \E m \in {"offline", "other"} : Router!SetMode(m)
  BY <1>2 DEF Router!Tick, Router!SetMode, Router!keyVars, RouterIInv, Router!CircuitsFollowReports
<1>3. ASSUME NEW c \in Calls, Router!Route(c) \/ Router!RecordSuccess(c) \/ Router!RecordFailure(c)
      PROVE  RouterIInv'
  BY <1>3, Routed, Reported
<1>4. CASE Router!Rotate \/ Router!KeyFails
  BY <1>4, CredentialsFollow
<1> QED
  BY <1>1, <1>2, <1>3, <1>4 DEF Router!Next

\* Who is picked is not resting.
LEMMA PickedAreAwake ==
    ASSUME RouterIInv, NEW c \in Calls, Router!Route(c), NEW d \in Calls,
        NEW p \in Router!Providers,
           call[d] = 0, call'[d] = p
    PROVE  ~(circuit[p].state = "open" /\ age[p] < Cooldown)
<1>0. p # 0 /\ Router!Providers \subseteq Nat
  BY PartsAssumption DEF Router!RouterAssumption, Router!Providers
<1>1. ASSUME NEW q, Router!Decide(c, q) PROVE q = p
  BY <1>0, <1>1 DEF Router!Decide, RouterIInv
<1>2. ASSUME NEW Set \in SUBSET Router!Providers, Set # {} PROVE Router!First(Set) \in Set
  <2>1. \E m \in Set : \A k \in Set : m <= k
    BY <1>0, <1>2, LeastOfMany
  <2> QED
    BY <2>1 DEF Router!First
<1>3. PICK sound \in SUBSET Router!Providers :
          Router!Explore(c, sound) \/ Router!Score(c, sound)
  BY DEF Router!Route
<1>4. CASE Router!Explore(c, sound)
  <2>1. Router!Explored(sound) \in SUBSET Router!Providers /\ Router!Explored(sound) # {}
    BY <1>4 DEF Router!Explored, Router!Explore
  <2>2. p \in Router!Explored(sound)
    BY <1>1, <1>2, <1>4, <2>1 DEF Router!Explore
  <2> QED
    BY <2>2 DEF Router!Explored
<1>5. CASE Router!Score(c, sound)
  <2>1. PICK candidates \in SUBSET Router!Providers :
            candidates = {q \in Router!Providers : ~Router!Resting(q)}
    OBVIOUS
  <2>2. CASE UNCHANGED call
    BY <1>0, <2>2
  <2>3. CASE candidates # {} /\ Router!Decide(c, Router!First(candidates))
    BY <1>1, <1>2, <2>1, <2>3 DEF Router!Resting
  <2>4. CASE \E q \in candidates : Router!Decide(c, q)
    BY <1>1, <2>1, <2>4 DEF Router!Resting
  <2> QED
    BY <1>5, <2>1, <2>2, <2>3, <2>4 DEF Router!Score
<1> QED
  BY <1>3, <1>4, <1>5

\* A caller that was free gets a provider by being routed, and in no other step.
LEMMA RestingAreLeft ==
    ASSUME RouterIInv, [Router!Next]_routerVars, NEW d \in Calls, NEW p \in Router!Providers,
           call[d] = 0, call'[d] = p
    PROVE  ~(circuit[p].state = "open" /\ age[p] < Cooldown)
<1>0. p # 0
  BY DEF Router!Providers
<1>1. CASE \E c \in Calls : Router!Route(c)
  BY <1>1, PickedAreAwake
<1>2. CASE \E c \in Calls : Router!RecordSuccess(c) \/ Router!RecordFailure(c)
  BY <1>0, <1>2 DEF Router!RecordSuccess, Router!RecordFailure, RouterIInv
<1>3. CASE UNCHANGED call
  BY <1>0, <1>3
<1> QED
  BY <1>1, <1>2, <1>3 DEF Router!Next, routerVars, Router!SetMode, Router!Tick, Router!Rotate,
                          Router!KeyFails, Router!poolVars

-----------------------------------------------------------------------------
(* The diagnostic log.                                                      *)

LogRecords == [queue : Seq(Int), dropped : Int, reported : Int, told : Int, cut : Int]

Upto(s, n) == \A k \in 1..Len(s) : s[k] <= n

\* The files f are in order, with what they have before the lines q and none beyond n.
FilesFit(f, q, n) ==
    /\ f \in [Log!Slots -> Seq(Int)]
    /\ \A i \in Log!Slots : Log!Ordered(f[i]) /\ Log!Before(f[i], q) /\ Upto(f[i], n)
    /\ \A older, newer \in Log!Slots : newer < older => Log!Before(f[older], f[newer])

\* What the writing side has at hand, none of it beyond n.
LogFits(l, n) ==
    /\ l \in LogRecords
    /\ Log!Ordered(l.queue) /\ Upto(l.queue, n)
    /\ l.told + (l.dropped - l.reported) = l.cut
    /\ FilesFit(slot, l.queue, n)

\* Everything up to the run that is held, or to the last event.
Written == IF held = Log!NoRun THEN seen ELSE held.first - 1

LogIInv ==
    /\ seen \in Nat
    /\ \/ held = Log!NoRun
       \/ held \in [first : Nat \ {0}, text : Log!Texts] /\ held.first <= seen
    /\ LogFits(Log!Log, Written)

\* Places in a sequence.
LEMMA Domains ==
    ASSUME NEW s \in Seq(Int)
    PROVE  DOMAIN s = 1..Len(s) /\ Len(s) \in Nat /\ \A k \in 1..Len(s) : s[k] \in Int
OBVIOUS

\* A line that is no event, or an event of its own, behind others.
LEMMA OneMore ==
    ASSUME NEW s \in Seq(Int), NEW n \in Nat, NEW m \in Nat, n <= m, NEW x \in Int,
           x <= 0 \/ (n < x /\ x <= m), Upto(s, n), Log!Ordered(s)
    PROVE  /\ Append(s, x) \in Seq(Int) /\ Log!Ordered(Append(s, x)) /\ Upto(Append(s, x), m)
           /\ \A t \in Seq(Int) : Log!Before(t, s) /\ Upto(t, n) => Log!Before(t, Append(s, x))
<1> DEFINE g == Append(s, x)
           k == Len(s)
<1>1. /\ g \in Seq(Int) /\ Len(g) = k + 1 /\ g[k + 1] = x /\ k \in Nat
      /\ \A i \in 1..k : g[i] = s[i] /\ s[i] \in Int /\ s[i] <= n
  BY AppendProperties, Domains DEF Upto
<1>2. DOMAIN g = 1..(k + 1) /\ DOMAIN s = 1..k
  BY <1>1, Domains
<1> HIDE DEF g, k
<1>3. \A i \in 1..(k + 1) : i \in 1..k \/ i = k + 1
  BY <1>1
<1>4. Upto(g, m)
  <2>1. \A i \in 1..k : g[i] <= m
    BY <1>1
  <2>2. g[k + 1] <= m
    BY <1>1
  <2> QED
    BY <1>1, <1>3, <2>1, <2>2 DEF Upto
<1>5. Log!Ordered(g)
  <2> SUFFICES ASSUME NEW i \in 1..(k + 1), NEW j \in 1..(k + 1), i < j, g[i] > 0, g[j] > 0
               PROVE  g[i] < g[j]
    BY <1>2 DEF Log!Ordered
  <2>1. i \in 1..k
    BY <1>1
  <2>2. CASE j \in 1..k
    BY <1>1, <1>2, <2>1, <2>2 DEF Log!Ordered
  <2>3. CASE j = k + 1
    BY <1>1, <2>1, <2>3
  <2> QED
    BY <1>3, <2>2, <2>3
<1>6. ASSUME NEW t \in Seq(Int), Log!Before(t, s), Upto(t, n)
      PROVE  Log!Before(t, g)
  <2> SUFFICES ASSUME NEW i \in DOMAIN t, NEW j \in 1..(k + 1), t[i] > 0, g[j] > 0
               PROVE  t[i] < g[j]
    BY <1>2 DEF Log!Before
  <2>1. t[i] \in Int /\ t[i] <= n
    BY <1>6, Domains DEF Upto
  <2>2. CASE j \in 1..k
    BY <1>1, <1>2, <1>6, <2>2 DEF Log!Before
  <2>3. CASE j = k + 1
    BY <1>1, <2>1, <2>3
  <2> QED
    BY <1>3, <2>2, <2>3
<1> QED
  BY <1>1, <1>4, <1>5, <1>6 DEF g

\* The queue and the counters with one more line, or without it.
LEMMA LineQueued ==
    ASSUME NEW l, NEW n \in Nat, NEW m \in Nat, n <= m, LogFits(l, n), NEW x \in Int,
           x <= 0 \/ (n < x /\ x <= m), NEW r \in LogRecords,
           r.queue = l.queue \/ r.queue = Append(l.queue, x),
           r.told + (r.dropped - r.reported) = r.cut
    PROVE  LogFits(r, m)
<1>1. l \in LogRecords /\ l.queue \in Seq(Int)
  BY DEF LogFits, LogRecords
<1>2. \A s : s \in Seq(Int) /\ Upto(s, n) => Upto(s, m)
  BY Domains DEF Upto
<1>3. FilesFit(slot, r.queue, m) /\ Upto(r.queue, m) /\ Log!Ordered(r.queue)
  <2>1. CASE r.queue = l.queue
    BY <1>1, <1>2, <2>1 DEF LogFits, FilesFit
  <2>2. CASE r.queue = Append(l.queue, x)
    <3>1. /\ Log!Ordered(r.queue) /\ Upto(r.queue, m)
          /\ \A t \in Seq(Int) : Log!Before(t, l.queue) /\ Upto(t, n) => Log!Before(t, r.queue)
      BY <1>1, <2>2, OneMore DEF LogFits
    <3> QED
      BY <1>1, <1>2, <3>1 DEF LogFits, FilesFit
  <2> QED
    BY <2>1, <2>2
<1> QED
  BY <1>3 DEF LogFits

\* A line is dropped from the front of the queue.
LEMMA OneLess ==
    ASSUME NEW s \in Seq(Int), s # <<>>, Log!Ordered(s)
    PROVE  /\ Tail(s) \in Seq(Int) /\ Log!Ordered(Tail(s)) /\ Head(s) \in Int
           /\ \A n \in Nat : Upto(s, n) => Upto(Tail(s), n) /\ Head(s) <= n
           /\ \A t : Log!Before(t, s) => Log!Before(t, Tail(s))
           /\ \A t \in Seq(Int) : Log!Before(t, s) /\ Head(s) > 0 =>
                 \A k \in DOMAIN t : t[k] > 0 => t[k] < Head(s)
           /\ Head(s) > 0 => \A k \in DOMAIN Tail(s) : Tail(s)[k] > 0 => Head(s) < Tail(s)[k]
<1> DEFINE g == Tail(s)
           k == Len(s)
<1>1. /\ g \in Seq(Int) /\ Len(g) = k - 1 /\ Head(s) = s[1] /\ k \in Nat /\ k >= 1
      /\ \A i \in 1..(k - 1) : g[i] = s[i + 1]
  BY HeadTailProperties, EmptySeq, Domains
<1>2. DOMAIN g = 1..(k - 1) /\ DOMAIN s = 1..k /\ \A i \in 1..k : s[i] \in Int
  BY <1>1, Domains
<1> HIDE DEF g, k
<1>3. /\ 1 \in 1..k /\ \A i \in 1..(k - 1) : i + 1 \in 1..k /\ 1 < i + 1
      /\ \A i, j \in 1..(k - 1) : i < j => i + 1 < j + 1
  BY <1>1
<1>4. Log!Ordered(g)
  BY <1>1, <1>2, <1>3 DEF Log!Ordered
<1>5. ASSUME NEW n \in Nat, Upto(s, n) PROVE Upto(g, n) /\ Head(s) <= n
  <2>1. \A i \in 1..k : s[i] <= n
    BY <1>5 DEF Upto, k
  <2> QED
    BY <1>1, <1>3, <2>1 DEF Upto
<1>6. \A t : Log!Before(t, s) => Log!Before(t, g)
  BY <1>1, <1>2, <1>3 DEF Log!Before
<1>7. \A t \in Seq(Int) : Log!Before(t, s) /\ Head(s) > 0 =>
          \A i \in DOMAIN t : t[i] > 0 => t[i] < Head(s)
  BY <1>1, <1>2, <1>3 DEF Log!Before
<1>8. Head(s) > 0 => \A i \in DOMAIN g : g[i] > 0 => Head(s) < g[i]
  BY <1>1, <1>2, <1>3 DEF Log!Ordered
<1>9. Head(s) \in Int
  BY <1>1, <1>2, <1>3
<1> QED
  BY <1>1, <1>4, <1>5, <1>6, <1>7, <1>8, <1>9 DEF g

\* No event is in a file that is not there, or in an empty one.
LEMMA NothingThere ==
    ASSUME NEW s, s = Log!NoFile \/ s = <<>>
    PROVE  /\ s \in Seq(Int) /\ Log!Ordered(s) /\ \A n \in Nat : Upto(s, n)
           /\ \A t : Log!Before(s, t) /\ Log!Before(t, s)
<1>1. s \in Seq(Int) /\ \A k \in DOMAIN s : s[k] = -1
  <2>1. CASE s = <<>>
    BY <2>1
  <2>2. CASE s = Log!NoFile
    <3>1. s \in Seq(Int) /\ Len(s) = 1 /\ s[1] = -1
      BY <2>2 DEF Log!NoFile
    <3> QED
      BY <3>1
  <2> QED
    BY <2>1, <2>2
<1>2. \A k \in DOMAIN s : ~(s[k] > 0) /\ \A n \in Nat : s[k] <= n
  BY <1>1
<1>3. DOMAIN s = 1..Len(s)
  BY <1>1
<1> QED
  BY <1>1, <1>2, <1>3 DEF Log!Ordered, Log!Before, Upto

\* The active file takes the line at the front, or a part of one.
LEMMA FilesTake ==
    ASSUME NEW f, NEW q \in Seq(Int), q # <<>>, NEW n \in Nat, FilesFit(f, q, n), Upto(q, n),
           Log!Ordered(q), NEW base, base = f[0] \/ base = <<>>,
           NEW x \in Int, x = Head(q) \/ x <= 0,
           NEW g, g = [f EXCEPT ![0] = Append(base, x)]
    PROVE  FilesFit(g, Tail(q), n)
<1>0. MaxFiles \in Nat /\ 0 \in Log!Slots /\ \A i \in Log!Slots : i \in Nat /\ ~(i < 0)
  BY PartsAssumption DEF Log!LogAssumption, Log!Slots
<1>1. f \in [Log!Slots -> Seq(Int)] /\ f[0] \in Seq(Int)
  BY <1>0 DEF FilesFit
<1>2. /\ base \in Seq(Int) /\ Log!Ordered(base) /\ Log!Before(base, q) /\ Upto(base, n)
      /\ \A i \in Log!Slots : 0 < i => Log!Before(f[i], base)
  <2>1. CASE base = f[0]
    BY <1>0, <1>1, <2>1 DEF FilesFit
  <2>2. CASE base = <<>>
    BY <2>2, NothingThere
  <2> QED
    BY <2>1, <2>2
<1>3. /\ Tail(q) \in Seq(Int) /\ Head(q) \in Int /\ Head(q) <= n
      /\ \A t : Log!Before(t, q) => Log!Before(t, Tail(q))
      /\ \A t \in Seq(Int) : Log!Before(t, q) /\ Head(q) > 0 =>
            \A k \in DOMAIN t : t[k] > 0 => t[k] < Head(q)
      /\ Head(q) > 0 => \A k \in DOMAIN Tail(q) : Tail(q)[k] > 0 => Head(q) < Tail(q)[k]
  BY OneLess
<1> DEFINE a == Append(base, x)
           k == Len(base)
<1>4. /\ a \in Seq(Int) /\ Len(a) = k + 1 /\ a[k + 1] = x /\ k \in Nat
      /\ \A i \in 1..k : a[i] = base[i]
  BY <1>2, AppendProperties, Domains
<1>5. DOMAIN a = 1..(k + 1) /\ DOMAIN base = 1..k /\ \A i \in 1..k : base[i] \in Int /\ base[i] <= n
  BY <1>2, <1>4, Domains DEF Upto
<1>6. \A t \in Seq(Int) : Log!Before(t, q) /\ x > 0 => \A i \in DOMAIN t : t[i] > 0 => t[i] < x
  BY <1>3
<1>7. x <= n
  BY <1>3
<1> HIDE DEF a, k
<1>8. \A i \in 1..(k + 1) : i \in 1..k \/ i = k + 1
  BY <1>4
<1>9. Upto(a, n)
  BY <1>4, <1>5, <1>7, <1>8 DEF Upto
<1>10. Log!Ordered(a)
  <2> SUFFICES ASSUME NEW i \in 1..(k + 1), NEW j \in 1..(k + 1), i < j, a[i] > 0, a[j] > 0
               PROVE  a[i] < a[j]
    BY <1>5 DEF Log!Ordered
  <2>1. i \in 1..k
    BY <1>4
  <2>2. CASE j \in 1..k
    BY <1>2, <1>4, <1>5, <2>1, <2>2 DEF Log!Ordered
  <2>3. CASE j = k + 1
    BY <1>2, <1>4, <1>5, <1>6, <2>1, <2>3
  <2> QED
    BY <1>8, <2>2, <2>3
<1>11. Log!Before(a, Tail(q))
  <2> SUFFICES ASSUME NEW i \in 1..(k + 1), NEW j \in DOMAIN Tail(q), a[i] > 0, Tail(q)[j] > 0
               PROVE  a[i] < Tail(q)[j]
    BY <1>5 DEF Log!Before
  <2>1. CASE i \in 1..k
    BY <1>2, <1>3, <1>4, <1>5, <2>1 DEF Log!Before
  <2>2. CASE i = k + 1
    BY <1>3, <1>4, <2>2, SMTT(30)
  <2> QED
    BY <1>8, <2>1, <2>2
<1>12. ASSUME NEW o \in Log!Slots, 0 < o PROVE Log!Before(f[o], a)
  <2> SUFFICES ASSUME NEW i \in DOMAIN f[o], NEW j \in 1..(k + 1), f[o][i] > 0, a[j] > 0
               PROVE  f[o][i] < a[j]
    BY <1>5 DEF Log!Before
  <2>1. CASE j \in 1..k
    BY <1>2, <1>4, <1>5, <1>12, <2>1 DEF Log!Before
  <2>2. CASE j = k + 1
    BY <1>1, <1>4, <1>6, <2>2 DEF FilesFit
  <2> QED
    BY <1>8, <2>1, <2>2
<1>13. g \in [Log!Slots -> Seq(Int)] /\ g[0] = a /\ \A i \in Log!Slots : i # 0 => g[i] = f[i]
  BY <1>0, <1>1, <1>4 DEF a
<1>14. ASSUME NEW i \in Log!Slots
       PROVE  Log!Ordered(g[i]) /\ Log!Before(g[i], Tail(q)) /\ Upto(g[i], n)
  <2>1. CASE i = 0
    BY <1>9, <1>10, <1>11, <1>13, <2>1
  <2>2. CASE i # 0
    BY <1>3, <1>13, <2>2 DEF FilesFit
  <2> QED
    BY <2>1, <2>2
<1>15. ASSUME NEW older \in Log!Slots, NEW newer \in Log!Slots, newer < older
       PROVE  Log!Before(g[older], g[newer])
  <2>1. older # 0 /\ 0 < older
    BY <1>0, <1>15
  <2>2. CASE newer = 0
    BY <1>12, <1>13, <2>1, <2>2
  <2>3. CASE newer # 0
    BY <1>13, <1>15, <2>1, <2>3 DEF FilesFit
  <2> QED
    BY <2>2, <2>3
<1> QED
  BY <1>13, <1>14, <1>15 DEF FilesFit

\* A line is taken off the queue, and the files stay.
LEMMA FilesStay ==
    ASSUME NEW f, NEW q \in Seq(Int), q # <<>>, NEW n, FilesFit(f, q, n), Log!Ordered(q)
    PROVE  FilesFit(f, Tail(q), n)
BY OneLess DEF FilesFit

\* Some renames of a rotation: the files that are there keep their order.
LEMMA FilesShift ==
    ASSUME NEW q, NEW n \in Nat, FilesFit(slot, q, n), NEW free \in Log!Slots,
           NEW done \in 0..free
    PROVE  FilesFit(Log!Shifted(free, done), q, n)
<1>0. MaxFiles \in Nat /\ Log!Slots = 0..MaxFiles
  BY PartsAssumption DEF Log!LogAssumption, Log!Slots
<1> DEFINE g == Log!Shifted(free, done)
           Shifts(i) == i \in (free - done + 1)..free
<1>1. ASSUME NEW i \in Log!Slots
      PROVE  g[i] = IF Shifts(i) THEN slot[i - 1]
                    ELSE IF i = free - done THEN Log!NoFile ELSE slot[i]
  BY DEF Log!Shifted
<1>2. PICK Old : Old = [i \in Log!Slots |-> IF Shifts(i) THEN i - 1 ELSE i]
  OBVIOUS
<1>3. ASSUME NEW i \in Log!Slots
      PROVE  /\ Old[i] \in Log!Slots
             /\ i # free - done => g[i] = slot[Old[i]]
             /\ i = free - done => g[i] = Log!NoFile
  <2>1. CASE Shifts(i)
    <3>1. i - 1 \in Log!Slots /\ i # free - done
      BY <1>0, <2>1
    <3> QED
      BY <1>1, <1>2, <2>1, <3>1
  <2>2. CASE ~Shifts(i)
    BY <1>1, <1>2, <2>2
  <2> QED
    BY <2>1, <2>2
<1>4. ASSUME NEW i \in Log!Slots, NEW j \in Log!Slots, j < i, i # free - done, j # free - done
      PROVE  Old[j] < Old[i]
  <2>1. i \in Nat /\ j \in Nat /\ free \in Nat /\ done \in Nat
    BY <1>0
  <2>2. CASE Shifts(i)
    <3>1. CASE Shifts(j)
      BY <1>2, <1>4, <2>1, <2>2, <3>1
    <3>2. CASE ~Shifts(j)
      <4>1. j < i - 1
        BY <1>4, <2>1, <2>2, <3>2
      <4> QED
        BY <1>2, <2>2, <3>2, <4>1
    <3> QED
      BY <3>1, <3>2
  <2>3. CASE ~Shifts(i)
    <3>1. Old[i] = i
      BY <1>2, <2>3
    <3>2. Old[j] = j \/ Old[j] = j - 1
      BY <1>2
    <3> QED
      BY <1>4, <2>1, <3>1, <3>2
  <2> QED
    BY <2>2, <2>3
<1>5. Log!NoFile \in Seq(Int) /\ Log!Ordered(Log!NoFile) /\ Upto(Log!NoFile, n)
      /\ \A t : Log!Before(Log!NoFile, t) /\ Log!Before(t, Log!NoFile)
  BY NothingThere
<1>6. DOMAIN g = Log!Slots /\ g = [i \in Log!Slots |-> g[i]]
  BY DEF Log!Shifted
<1> HIDE DEF g, Shifts
<1>7. ASSUME NEW i \in Log!Slots
      PROVE  g[i] \in Seq(Int) /\ Log!Ordered(g[i]) /\ Log!Before(g[i], q) /\ Upto(g[i], n)
  BY <1>3, <1>5 DEF FilesFit
<1>8. g \in [Log!Slots -> Seq(Int)]
  BY <1>6, <1>7
<1>9. ASSUME NEW older \in Log!Slots, NEW newer \in Log!Slots, newer < older
      PROVE  Log!Before(g[older], g[newer])
  <2>1. CASE older = free - done
    BY <1>3, <1>5, <2>1
  <2>2. CASE newer = free - done
    BY <1>3, <1>5, <2>2
  <2>3. CASE older # free - done /\ newer # free - done
    <3>1. g[older] = slot[Old[older]] /\ g[newer] = slot[Old[newer]]
      BY <1>3, <2>3
    <3>2. Old[older] \in Log!Slots /\ Old[newer] \in Log!Slots /\ Old[newer] < Old[older]
      BY <1>3, <1>4, <1>9, <2>3
    <3> QED
      BY <3>1, <3>2 DEF FilesFit
  <2> QED
    BY <2>1, <2>2, <2>3
<1>10. FilesFit(g, q, n)
  BY <1>7, <1>8, <1>9 DEF FilesFit
<1> QED
  BY <1>10 DEF g

\* The line an action writes, or the notice before it, behind what is there.
LEMMA ToldFits ==
    ASSUME NEW l, NEW n \in Nat, LogFits(l, n)
    PROVE  LogFits(Log!Told(l), n)
<1>1. /\ l \in LogRecords /\ l.queue \in Seq(Int) /\ l.told \in Int /\ l.dropped \in Int
      /\ l.reported \in Int /\ l.cut \in Int /\ l.told + (l.dropped - l.reported) = l.cut
  BY DEF LogFits, LogRecords
<1>2. Log!Notice \in Int /\ Log!Notice <= 0
  BY DEF Log!Notice
<1> DEFINE a == [l EXCEPT !.queue = Append(@, Log!Notice), !.reported = l.dropped,
                          !.told = @ + (l.dropped - l.reported)]
           b == [l EXCEPT !.dropped = @ + 1, !.reported = @ + 1]
<1>3. LogFits(a, n)
  <2>1. Append(l.queue, Log!Notice) \in Seq(Int)
    BY <1>1, <1>2
  <2>2. a \in LogRecords /\ a.queue = Append(l.queue, Log!Notice)
    BY <1>1, <2>1 DEF LogRecords
  <2>3. a.told + (a.dropped - a.reported) = a.cut
    BY <1>1 DEF LogRecords
  <2> HIDE DEF a
  <2> QED
    BY <1>2, <2>2, <2>3, LineQueued
<1>4. LogFits(b, n)
  <2>0. l.dropped + 1 \in Int /\ l.reported + 1 \in Int
    BY <1>1
  <2>1. b \in LogRecords /\ b.queue = l.queue
    BY <1>1, <2>0 DEF LogRecords
  <2>2. b.told + (b.dropped - b.reported) = b.cut
    BY <1>1 DEF LogRecords
  <2> HIDE DEF b
  <2> QED
    BY <1>2, <2>1, <2>2, LineQueued
<1>5. Log!Told(l) = l \/ Log!Told(l) = a \/ Log!Told(l) = b
  BY DEF Log!Told
<1> HIDE DEF a, b
<1> QED
  BY <1>3, <1>4, <1>5

LEMMA WriteFits ==
    ASSUME NEW l, NEW n \in Nat, NEW m \in Nat, NEW x \in Nat, n < x, x <= m, LogFits(l, n)
    PROVE  LogFits(Log!Write(l, x), m)
<1> DEFINE t == Log!Told(l)
           a == [t EXCEPT !.queue = Append(@, x)]
           b == [t EXCEPT !.dropped = @ + 1, !.cut = @ + 1]
<1>0. LogFits(t, n)
  BY ToldFits
<1>5. Log!Write(l, x) = a \/ Log!Write(l, x) = b
  BY DEF Log!Write
<1> HIDE DEF t
<1>1. /\ t \in LogRecords /\ t.queue \in Seq(Int) /\ t.told \in Int /\ t.dropped \in Int
      /\ t.reported \in Int /\ t.cut \in Int /\ t.told + (t.dropped - t.reported) = t.cut
  BY <1>0 DEF LogFits, LogRecords
<1>2. x \in Int /\ n <= m
  OBVIOUS
<1>3. LogFits(a, m)
  <2>1. Append(t.queue, x) \in Seq(Int)
    BY <1>1, <1>2
  <2>2. a \in LogRecords /\ a.queue = Append(t.queue, x)
    BY <1>1, <2>1 DEF LogRecords
  <2>3. a.told + (a.dropped - a.reported) = a.cut
    BY <1>1 DEF LogRecords
  <2> HIDE DEF a
  <2> QED
    BY <1>0, <1>2, <2>2, <2>3, LineQueued
<1>4. LogFits(b, m)
  <2>0. t.dropped + 1 \in Int /\ t.cut + 1 \in Int
    BY <1>1
  <2>1. b \in LogRecords /\ b.queue = t.queue
    BY <1>1, <2>0 DEF LogRecords
  <2>2. b.told + (b.dropped - b.reported) = b.cut
    BY <1>1 DEF LogRecords
  <2> HIDE DEF b
  <2> QED
    BY <1>0, <1>2, <2>1, <2>2, LineQueued
<1> HIDE DEF a, b
<1> QED
  BY <1>3, <1>4, <1>5

\* More events: what fits still fits.
LEMMA LaterFits ==
    ASSUME NEW l, NEW n \in Nat, NEW m \in Nat, n <= m, LogFits(l, n)
    PROVE  LogFits(l, m)
<1>1. \A s : s \in Seq(Int) /\ Upto(s, n) => Upto(s, m)
  BY Domains DEF Upto
<1>2. l.queue \in Seq(Int)
  BY DEF LogFits, LogRecords
<1> QED
  BY <1>1, <1>2 DEF LogFits, FilesFit

\* The run that is held is written: everything up to the last event fits.
LEMMA WriteRunFits ==
    ASSUME LogIInv
    PROVE  LogFits(Log!WriteRun(Log!Log, held), seen)
<1>1. CASE held = Log!NoRun
  BY <1>1 DEF LogIInv, Written, Log!WriteRun
<1>2. CASE held # Log!NoRun
  <2>1. /\ held.first \in Nat /\ held.first >= 1 /\ held.first <= seen /\ seen \in Nat
        /\ LogFits(Log!Log, held.first - 1)
    BY <1>2 DEF LogIInv, Written
  <2>2. held.first - 1 \in Nat /\ held.first - 1 < held.first
    BY <2>1
  <2>3. LogFits(Log!Write(Log!Log, held.first), seen)
    BY <2>1, <2>2, WriteFits
  <2> QED
    BY <1>2, <2>3 DEF Log!WriteRun
<1> QED
  BY <1>1, <1>2

\* What the writing side leaves is what the next state has at hand.
LEMMA LogIsSet ==
    ASSUME NEW l, NEW n \in Nat, LogFits(l, n), Log!SetLog(l), slot' = slot
    PROVE  LogFits(Log!Log, n)'
<1>1. l = [queue |-> l.queue, dropped |-> l.dropped, reported |-> l.reported, told |-> l.told,
           cut |-> l.cut]
  BY DEF LogFits, LogRecords
<1>2. (Log!Log)' = l
  BY <1>1 DEF Log!SetLog, Log!Log
<1> QED
  BY <1>2 DEF LogFits, FilesFit

\* The slot a rotation empties is one of the family's.
LEMMA FreeIsASlot ==
    ASSUME MaxFiles # 0
    PROVE  Log!Free \in Log!Slots
<1>0. MaxFiles \in Nat
  BY PartsAssumption DEF Log!LogAssumption
<1>1. PICK empty : empty = {i \in 1..MaxFiles : slot[i] = Log!NoFile}
  OBVIOUS
<1>2. Log!Free = IF empty = {} THEN MaxFiles ELSE Log!Min(empty)
  BY <1>1 DEF Log!Free
<1>3. CASE empty = {}
  BY <1>0, <1>2, <1>3 DEF Log!Slots
<1>4. CASE empty # {}
  <2>1. empty \in SUBSET Nat /\ empty \subseteq 1..MaxFiles
    BY <1>0, <1>1
  <2>2. \E m \in empty : \A k \in empty : m <= k
    BY <1>4, <2>1, LeastOfMany
  <2>3. Log!Min(empty) \in empty
    BY <2>2 DEF Log!Min
  <2> QED
    BY <1>0, <1>2, <1>4, <2>1, <2>3 DEF Log!Slots
<1> QED
  BY <1>3, <1>4

\* The writing side takes a run, and nothing is held or another run begins.
LEMMA RunWritten ==
    ASSUME LogIInv, NEW l, LogFits(l, seen'), Log!SetLog(l), slot' = slot, seen' \in Nat,
           held' = Log!NoRun
    PROVE  LogIInv'
<1>1. PICK n \in Nat : n = seen'
  OBVIOUS
<1>2. LogFits(Log!Log, n)'
  BY <1>1, LogIsSet
<1> QED
  BY <1>1, <1>2 DEF LogIInv, Written

LEMMA ErrorKeepsOrder ==
    ASSUME LogIInv, Log!RecordError
    PROVE  LogIInv'
<1>1. seen \in Nat /\ seen' = seen + 1 /\ held' = Log!NoRun /\ slot' = slot
  BY DEF LogIInv, Log!RecordError
<1>2. PICK n \in Nat : n = seen + 1 /\ seen < n /\ n <= n
  BY <1>1
<1>3. PICK r : r = Log!WriteRun(Log!Log, held)
  OBVIOUS
<1>4. PICK l : l = Log!Write(r, n)
  OBVIOUS
<1>5. LogFits(r, seen)
  BY <1>3, WriteRunFits
<1>6. LogFits(l, n)
  BY <1>1, <1>2, <1>4, <1>5, WriteFits
<1>7. Log!SetLog(l)
  BY <1>2, <1>3, <1>4 DEF Log!RecordError
<1> QED
  BY <1>1, <1>2, <1>6, <1>7, RunWritten

\* Nothing of the writing side changes.
LEMMA LogUntouched ==
    ASSUME LogIInv, UNCHANGED <<queue, dropped, reported, told, cut, slot>>, NEW n \in Nat,
           LogFits(Log!Log, n)
    PROVE  LogFits(Log!Log, n)'
<1>1. (Log!Log)' = Log!Log
  BY DEF Log!Log
<1> QED
  BY <1>1 DEF LogFits, FilesFit

LEMMA EventKeepsOrder ==
    ASSUME LogIInv, NEW text \in Log!Texts, Log!RecordEvent(text)
    PROVE  LogIInv'
<1>1. seen \in Nat /\ seen' = seen + 1 /\ slot' = slot
  BY DEF LogIInv, Log!RecordEvent
<1>2. CASE held.text = text
  <2>1. UNCHANGED <<held, queue, dropped, reported, told, cut, slot>>
    BY <1>2 DEF Log!RecordEvent
  <2>2. held # Log!NoRun
    BY <1>2 DEF Log!NoRun, Log!Texts
  <2>3. /\ held \in [first : Nat \ {0}, text : Log!Texts] /\ held.first <= seen
        /\ LogFits(Log!Log, held.first - 1)
    BY <2>2 DEF LogIInv, Written
  <2>4. PICK n \in Nat : n = held.first - 1
    BY <2>3
  <2>5. LogFits(Log!Log, n)'
    BY <2>1, <2>3, <2>4, LogUntouched
  <2>6. Written' = n
    BY <2>1, <2>2, <2>4 DEF Written
  <2>7. held.first <= seen + 1
    BY <1>1, <2>3
  <2> QED
    BY <1>1, <2>1, <2>3, <2>5, <2>6, <2>7 DEF LogIInv
<1>3. CASE held.text # text
  <2>1. PICK l : l = Log!WriteRun(Log!Log, held)
    OBVIOUS
  <2>2. Log!SetLog(l) /\ held' = [first |-> seen + 1, text |-> text]
    BY <1>3, <2>1 DEF Log!RecordEvent
  <2>3. LogFits(l, seen)
    BY <2>1, WriteRunFits
  <2>4. PICK n \in Nat : n = seen
    BY <1>1
  <2>5. LogFits(Log!Log, n)'
    BY <1>1, <2>2, <2>3, <2>4, LogIsSet
  <2>6. held' # Log!NoRun /\ held'.first = seen + 1
    BY <2>2 DEF Log!NoRun, Log!Texts
  <2>7. Written' = n
    BY <1>1, <2>4, <2>6 DEF Written
  <2>8. held' \in [first : Nat \ {0}, text : Log!Texts] /\ held'.first <= seen' /\ seen' \in Nat
    BY <1>1, <2>2
  <2> QED
    BY <2>5, <2>7, <2>8 DEF LogIInv
<1> QED
  BY <1>2, <1>3

\* The release thread and the guard: the run that is held is written, or nothing moves.
LEMMA ReleaseKeepsOrder ==
    ASSUME LogIInv, UNCHANGED <<seen, slot>>,
           \/ Log!SetLog(Log!WriteRun(Log!Log, held)) /\ held' = Log!NoRun
           \/ UNCHANGED <<held, queue, dropped, reported, told, cut>>
    PROVE  LogIInv'
<1>1. seen \in Nat /\ seen' = seen /\ slot' = slot
  BY DEF LogIInv
<1>2. CASE Log!SetLog(Log!WriteRun(Log!Log, held)) /\ held' = Log!NoRun
  <2>1. PICK l : l = Log!WriteRun(Log!Log, held)
    OBVIOUS
  <2>2. LogFits(l, seen')
    BY <1>1, <2>1, WriteRunFits
  <2> QED
    BY <1>1, <1>2, <2>1, <2>2, RunWritten
<1>3. CASE UNCHANGED <<held, queue, dropped, reported, told, cut>>
  <2>1. Written \in Nat
    BY DEF LogIInv, Written
  <2>2. PICK n \in Nat : n = Written
    BY <2>1
  <2>3. LogFits(Log!Log, n)'
    BY <1>1, <1>3, <2>2, LogUntouched DEF LogIInv
  <2>4. Written' = n
    BY <1>1, <1>3, <2>2 DEF Written
  <2> QED
    BY <1>1, <1>3, <2>3, <2>4 DEF LogIInv
<1> QED
  BY <1>2, <1>3

\* The worker takes a line off the queue, and the files it leaves fit what is left.
LEMMA WorkerKeepsOrder ==
    ASSUME LogIInv, queue # <<>>, queue' = Tail(queue), FilesFit(slot', Tail(queue), Written),
           UNCHANGED <<seen, held, dropped, reported, told, cut>>
    PROVE  LogIInv'
<1>1. Written \in Nat /\ Written' = Written
  BY DEF LogIInv, Written
<1>2. PICK n \in Nat : n = Written /\ n = Written'
  BY <1>1
<1>3. /\ Log!Log \in LogRecords /\ Log!Log.queue = queue /\ queue \in Seq(Int)
      /\ Log!Ordered(queue) /\ Upto(queue, n) /\ told + (dropped - reported) = cut
      /\ dropped \in Int /\ reported \in Int /\ told \in Int /\ cut \in Int
  BY <1>2 DEF LogIInv, LogFits, LogRecords, Log!Log
<1>4. Tail(queue) \in Seq(Int) /\ Log!Ordered(Tail(queue)) /\ Upto(Tail(queue), n)
  BY <1>3, OneLess
<1>5. (Log!Log)' = [queue |-> Tail(queue), dropped |-> dropped, reported |-> reported,
                    told |-> told, cut |-> cut]
  BY DEF Log!Log
<1>6. /\ (Log!Log)' \in LogRecords /\ (Log!Log)'.queue = Tail(queue)
      /\ (Log!Log)'.told + ((Log!Log)'.dropped - (Log!Log)'.reported) = (Log!Log)'.cut
  BY <1>3, <1>4, <1>5 DEF LogRecords
<1>7. LogFits(Log!Log, n)'
  BY <1>2, <1>4, <1>6 DEF LogFits, FilesFit
<1> QED
  BY <1>2, <1>7 DEF LogIInv

LEMMA LineKeepsOrder ==
    ASSUME LogIInv, Log!WriteLine \/ Log!LoseLine
    PROVE  LogIInv'
<1>1. /\ queue # <<>> /\ queue' = Tail(queue)
      /\ UNCHANGED <<seen, held, dropped, reported, told, cut>>
  BY DEF Log!WriteLine, Log!LoseLine
<1>2. Written \in Nat
  BY DEF LogIInv, Written
<1>3. PICK n \in Nat : n = Written
  BY <1>2
<1>4. queue \in Seq(Int) /\ Log!Ordered(queue) /\ Upto(queue, n) /\ FilesFit(slot, queue, n)
  BY <1>3 DEF LogIInv, LogFits, LogRecords, Log!Log
<1>5. 0 \in Log!Slots /\ MaxFiles \in Nat
  BY PartsAssumption DEF Log!LogAssumption, Log!Slots
<1>6. PICK x \in Int : x = Head(queue)
  BY <1>1, <1>4, OneLess
<1>7. PICK o : o = Log!Opened /\ (o = slot[0] \/ o = <<>>)
  BY DEF Log!Opened
<1>8. PICK e : e = <<>>
  OBVIOUS
<1>9. Append(e, x) = <<x>>
  BY <1>8
<1>10. CASE slot' = slot
  BY <1>1, <1>3, <1>4, <1>10, FilesStay, WorkerKeepsOrder
<1>11. CASE slot' = [slot EXCEPT ![0] = <<Head(queue)>>]
  <2>1. slot' = [slot EXCEPT ![0] = Append(e, x)]
    BY <1>6, <1>9, <1>11
  <2>2. FilesFit(slot', Tail(queue), n)
    BY <1>1, <1>4, <1>6, <1>8, <2>1, FilesTake
  <2> QED
    BY <1>1, <1>3, <2>2, WorkerKeepsOrder
<1>12. CASE slot' = [slot EXCEPT ![0] = Append(Log!Opened, Head(queue))]
  <2>1. slot' = [slot EXCEPT ![0] = Append(o, x)]
    BY <1>6, <1>7, <1>12
  <2>2. FilesFit(slot', Tail(queue), n)
    BY <1>1, <1>4, <1>6, <1>7, <2>1, FilesTake
  <2> QED
    BY <1>1, <1>3, <2>2, WorkerKeepsOrder
<1>13. CASE slot' = [slot EXCEPT ![0] = Append(Log!Opened, Log!Torn)]
  <2>0. PICK z \in Int : z = Log!Torn /\ z <= 0
    BY DEF Log!Torn
  <2>1. slot' = [slot EXCEPT ![0] = Append(o, z)]
    BY <1>7, <1>13, <2>0
  <2>2. FilesFit(slot', Tail(queue), n)
    BY <1>1, <1>4, <1>7, <2>0, <2>1, FilesTake
  <2> QED
    BY <1>1, <1>3, <2>2, WorkerKeepsOrder
<1>14. CASE MaxFiles # 0 /\ slot' = [Log!Shifted(Log!Free, Log!Free) EXCEPT ![0] = <<Head(queue)>>]
  <2>1. PICK free \in Log!Slots : free = Log!Free /\ free \in 0..free
    BY <1>5, <1>14, FreeIsASlot DEF Log!Slots
  <2>2. PICK f : f = Log!Shifted(free, free)
    OBVIOUS
  <2>3. FilesFit(f, queue, n)
    BY <1>4, <2>1, <2>2, FilesShift
  <2>4. slot' = [f EXCEPT ![0] = Append(e, x)]
    BY <1>6, <1>9, <1>14, <2>1, <2>2
  <2>5. FilesFit(slot', Tail(queue), n)
    BY <1>1, <1>4, <1>6, <1>8, <2>3, <2>4, FilesTake
  <2> QED
    BY <1>1, <1>3, <2>5, WorkerKeepsOrder
<1>15. CASE MaxFiles # 0 /\ \E k \in 0..Log!Free : slot' = Log!Shifted(Log!Free, k)
  <2>1. PICK free \in Log!Slots : free = Log!Free
    BY <1>15, FreeIsASlot
  <2>2. PICK k \in 0..free : slot' = Log!Shifted(free, k)
    BY <1>15, <2>1
  <2>3. FilesFit(slot', queue, n)
    BY <1>4, <2>2, FilesShift
  <2>4. FilesFit(slot', Tail(queue), n)
    BY <1>1, <1>4, <2>3, FilesStay
  <2> QED
    BY <1>1, <1>3, <2>4, WorkerKeepsOrder
<1> QED
  BY <1>5, <1>10, <1>11, <1>12, <1>13, <1>14, <1>15 DEF Log!WriteLine, Log!LoseLine

\* At first there is nothing.
LEMMA LogInit == Log!Init => LogIInv
<1> SUFFICES ASSUME Log!Init PROVE LogIInv
  OBVIOUS
<1>1. /\ seen = 0 /\ held = Log!NoRun /\ slot = [i \in Log!Slots |-> Log!NoFile]
      /\ Log!Log = [queue |-> <<>>, dropped |-> 0, reported |-> 0, told |-> 0, cut |-> 0]
  BY DEF Log!Init, Log!Log
<1>2. Log!Log \in LogRecords /\ Log!Log.queue = <<>>
  BY <1>1 DEF LogRecords
<1>3. Log!Log.told + (Log!Log.dropped - Log!Log.reported) = Log!Log.cut
  BY <1>1
<1>4. /\ Log!NoFile \in Seq(Int) /\ Log!Ordered(Log!NoFile) /\ \A n \in Nat : Upto(Log!NoFile, n)
      /\ \A t : Log!Before(Log!NoFile, t)
  BY NothingThere
<1>5. Log!Ordered(<<>>) /\ Upto(<<>>, 0)
  BY NothingThere
<1>6. FilesFit(slot, <<>>, 0)
  BY <1>1, <1>4 DEF FilesFit
<1>7. LogFits(Log!Log, 0)
  BY <1>2, <1>3, <1>5, <1>6 DEF LogFits
<1> QED
  BY <1>1, <1>7 DEF LogIInv, Written

\* Every step of the log keeps the order and the count.
LEMMA LogNext ==
    ASSUME LogIInv, [Log!Next]_logVars
    PROVE  LogIInv'
<1>1. CASE Log!RecordError
  BY <1>1, ErrorKeepsOrder
<1>2. CASE \E t \in Log!Texts : Log!RecordEvent(t)
  BY <1>2, EventKeepsOrder
<1>3. CASE Log!Wake \/ Log!Stop
  BY <1>3, ReleaseKeepsOrder DEF Log!Wake, Log!Stop
<1>4. CASE \E due \in BOOLEAN : Log!FlushDue(due)
  <2>1. /\ UNCHANGED <<seen, slot>>
        /\ \/ Log!SetLog(Log!WriteRun(Log!Log, held)) /\ held' = Log!NoRun
           \/ UNCHANGED <<held, queue, dropped, reported, told, cut>>
    BY <1>4 DEF Log!FlushDue
  <2> QED
    BY <2>1, ReleaseKeepsOrder
<1>5. CASE Log!FlushAll
  BY <1>5, ReleaseKeepsOrder DEF Log!FlushAll
<1>6. CASE Log!WriteLine \/ Log!LoseLine
  BY <1>6, LineKeepsOrder
<1>7. CASE UNCHANGED logVars
  BY <1>7, ReleaseKeepsOrder DEF logVars
<1> QED
  BY <1>1, <1>2, <1>3, <1>4, <1>5, <1>6, <1>7 DEF Log!Next

\* What is kept is what the log promises.
LEMMA LogReadsTrue ==
    ASSUME LogIInv
    PROVE  Log!LogIsTrue
<1>1. Written \in Nat /\ LogFits(Log!Log, Written) /\ Log!Log.queue = queue
  BY DEF LogIInv, Written, Log!Log
<1>2. /\ queue \in Seq(Int) /\ Log!Ordered(queue) /\ Upto(queue, Written)
      /\ FilesFit(slot, queue, Written)
  BY <1>1 DEF LogFits, LogRecords
<1>3. told + (dropped - reported) = cut
  BY <1>1 DEF LogFits, Log!Log
<1>4. ASSUME NEW s \in Seq(Int), Upto(s, Written)
      PROVE  Log!Before(s, Log!HeldLine)
  <2>1. CASE held = Log!NoRun
    BY <2>1 DEF Log!Before, Log!HeldLine
  <2>2. CASE held # Log!NoRun
    <3>1. Log!HeldLine = <<held.first>> /\ Written = held.first - 1 /\ held.first \in Nat
      BY <2>2 DEF Log!HeldLine, Written, LogIInv
    <3>2. \A k \in DOMAIN s : s[k] \in Int /\ s[k] < held.first
      BY <1>4, <3>1, Domains DEF Upto
    <3>3. \A k \in DOMAIN Log!HeldLine : Log!HeldLine[k] = held.first
      BY <3>1
    <3> QED
      BY <3>2, <3>3 DEF Log!Before
  <2> QED
    BY <2>1, <2>2
<1> QED
  BY <1>2, <1>3, <1>4 DEF Log!LogIsTrue, FilesFit

\* A file begins with what it had before a line was added.
LEMMA BeginsWith ==
    ASSUME NEW s \in Seq(Int), NEW x \in Int
    PROVE  Log!IsPrefix(s, s) /\ Log!IsPrefix(s, Append(s, x))
<1>1. Log!IsPrefix(s, s)
  BY DEF Log!IsPrefix
<1> DEFINE a == Append(s, x)
           k == Len(s)
<1>2. a \in Seq(Int) /\ Len(a) = k + 1 /\ k \in Nat /\ \A i \in 1..k : a[i] = s[i] /\ s[i] \in Int
  BY AppendProperties, Domains
<1> HIDE DEF a
<1>3. /\ SubSeq(s, 1, k) \in Seq(Int) /\ SubSeq(a, 1, k) \in Seq(Int)
      /\ Len(SubSeq(s, 1, k)) = k /\ Len(SubSeq(a, 1, k)) = k
      /\ \A i \in 1..k : SubSeq(s, 1, k)[i] = s[i] /\ SubSeq(a, 1, k)[i] = a[i]
  <2>1. 1 \in Int /\ k \in Int /\ \A i \in 1..k : s[i] \in Int /\ a[i] \in Int
    BY <1>2
  <2>2. /\ SubSeq(s, 1, k) \in Seq(Int)
        /\ Len(SubSeq(s, 1, k)) = IF 1 <= k THEN k - 1 + 1 ELSE 0
        /\ \A i \in 1..(k - 1 + 1) : SubSeq(s, 1, k)[i] = s[1 + i - 1]
    BY <2>1, SubSeqProperties
  <2>3. /\ SubSeq(a, 1, k) \in Seq(Int)
        /\ Len(SubSeq(a, 1, k)) = IF 1 <= k THEN k - 1 + 1 ELSE 0
        /\ \A i \in 1..(k - 1 + 1) : SubSeq(a, 1, k)[i] = a[1 + i - 1]
    BY <2>1, SubSeqProperties
  <2>4. k - 1 + 1 = k /\ (~(1 <= k) => k = 0) /\ \A i \in 1..k : 1 + i - 1 = i
    BY <1>2
  <2> HIDE DEF k
  <2> QED
    BY <2>2, <2>3, <2>4
<1>4. SubSeq(s, 1, k) = SubSeq(a, 1, k)
  <2> HIDE DEF k
  <2> QED
    BY <1>2, <1>3, SeqEqual
<1>5. Log!IsPrefix(s, a)
  BY <1>2, <1>4 DEF Log!IsPrefix
<1> QED
  BY <1>1, <1>5 DEF a

\* A rotation empties a slot that has a file only when no slot is empty.
LEMMA FreeIsEmptyOrLast ==
    ASSUME MaxFiles # 0, Log!IsFull, slot[Log!Free] # Log!NoFile
    PROVE  Log!Free = MaxFiles /\ \A k \in Log!Slots : slot[k] # Log!NoFile
<1>0. MaxFiles \in Nat
  BY PartsAssumption DEF Log!LogAssumption
<1>1. PICK empty : empty = {i \in 1..MaxFiles : slot[i] = Log!NoFile}
  OBVIOUS
<1>2. Log!Free = IF empty = {} THEN MaxFiles ELSE Log!Min(empty)
  BY <1>1 DEF Log!Free
<1>3. empty = {}
  <2> SUFFICES ASSUME empty # {} PROVE FALSE
    OBVIOUS
  <2>1. empty \in SUBSET Nat
    BY <1>0, <1>1
  <2>2. \E m \in empty : \A k \in empty : m <= k
    BY <2>1, LeastOfMany
  <2>3. Log!Min(empty) \in empty
    BY <2>2 DEF Log!Min
  <2> QED
    BY <1>1, <1>2, <2>3
<1>4. slot[0] # Log!NoFile
  BY DEF Log!IsFull, Log!Opened
<1>5. \A k \in Log!Slots : k = 0 \/ k \in 1..MaxFiles
  BY <1>0 DEF Log!Slots
<1> QED
  BY <1>1, <1>2, <1>3, <1>4, <1>5

\* After some renames of a rotation every file is where it was or one further, but for the
\* one in the slot the rotation fills.
LEMMA FilesMoveOn ==
    ASSUME NEW free \in Log!Slots, NEW done \in 0..free, NEW i \in Log!Slots, i # free
    PROVE  \E k \in Log!Slots : /\ Log!Shifted(free, done)[k] = slot[i]
                                /\ done = free => k # 0
<1>0. MaxFiles \in Nat /\ Log!Slots = 0..MaxFiles
  BY PartsAssumption DEF Log!LogAssumption, Log!Slots
<1>1. i \in Nat /\ free \in Nat /\ done \in Nat /\ done <= free
  BY <1>0
<1>2. CASE i < free - done \/ free < i
  <2>1. ~(i \in (free - done + 1)..free) /\ i # free - done /\ (done = free => i # 0)
    BY <1>1, <1>2
  <2> QED
    BY <2>1 DEF Log!Shifted
<1>3. CASE ~(i < free - done \/ free < i)
  <2>1. PICK k \in Log!Slots : k = i + 1
    BY <1>0, <1>1, <1>3
  <2>2. k \in (free - done + 1)..free /\ k - 1 = i /\ k # 0
    BY <1>1, <1>3, <2>1
  <2>3. Log!Shifted(free, done)[k] = slot[i]
    BY <2>2 DEF Log!Shifted
  <2> QED
    BY <2>2, <2>3
<1> QED
  BY <1>2, <1>3

\* A file that is in no slot any more was the last of a full family.
LEMMA OldestGoes ==
    ASSUME LogIInv, [Log!Next]_logVars, NEW i \in Log!Slots, slot[i] # Log!NoFile, MaxFiles > 0,
           ~\E k \in Log!Slots : Log!IsPrefix(slot[i], slot'[k])
    PROVE  i = MaxFiles /\ \A k \in Log!Slots : slot[k] # Log!NoFile
<1>0. MaxFiles \in Nat /\ 0 \in Log!Slots /\ MaxFiles # 0
  BY PartsAssumption DEF Log!LogAssumption, Log!Slots
<1>1. /\ slot \in [Log!Slots -> Seq(Int)] /\ slot[i] \in Seq(Int) /\ slot[0] \in Seq(Int)
      /\ queue \in Seq(Int) /\ Log!Ordered(queue)
  BY <1>0 DEF LogIInv, LogFits, FilesFit, LogRecords, Log!Log
<1>2. \A k \in Log!Slots : slot'[k] # slot[i]
  BY <1>1, BeginsWith
<1>3. ASSUME NEW x \in Int PROVE slot' # [slot EXCEPT ![0] = Append(Log!Opened, x)]
  <2> SUFFICES ASSUME slot' = [slot EXCEPT ![0] = Append(Log!Opened, x)] PROVE FALSE
    OBVIOUS
  <2>1. CASE i = 0
    <3>1. Log!Opened = slot[i]
      BY <2>1 DEF Log!Opened
    <3>2. slot'[0] = Append(slot[i], x)
      BY <1>0, <1>1, <3>1
    <3> QED
      BY <1>0, <1>1, <3>2, BeginsWith
  <2>2. CASE i # 0
    BY <1>1, <1>2, <2>2
  <2> QED
    BY <2>1, <2>2
<1>4. CASE UNCHANGED slot
  BY <1>2, <1>4
<1>5. CASE Log!IsFull /\ \E n \in 0..Log!Free :
               \/ slot' = Log!Shifted(Log!Free, n)
               \/ n = Log!Free /\ slot' = [Log!Shifted(Log!Free, n) EXCEPT ![0] = <<Head(queue)>>]
  <2>1. PICK free \in Log!Slots : free = Log!Free
    BY <1>0, FreeIsASlot
  <2>2. PICK n \in 0..free : \/ slot' = Log!Shifted(free, n)
                             \/ n = free /\ slot' = [Log!Shifted(free,
                                n) EXCEPT ![0] = <<Head(queue)>>]
    BY <1>5, <2>1
  <2>3. \A k \in Log!Slots : k # 0 => slot'[k] = Log!Shifted(free, n)[k]
    BY <2>2 DEF Log!Shifted
  <2>4. i = free
    <3> SUFFICES ASSUME i # free PROVE FALSE
      OBVIOUS
    <3>1. PICK k \in Log!Slots : Log!Shifted(free, n)[k] = slot[i] /\ (n = free => k # 0)
      BY FilesMoveOn
    <3> QED
      BY <1>2, <2>2, <2>3, <3>1
  <2> QED
    BY <1>0, <1>5, <2>1, <2>4, FreeIsEmptyOrLast
<1>6. CASE Log!WriteLine
  <2>1. Head(queue) \in Int
    BY <1>1, <1>6, OneLess DEF Log!WriteLine
  <2>2. CASE Log!IsFull
    <3>1. slot' = [Log!Shifted(Log!Free, Log!Free) EXCEPT ![0] = <<Head(queue)>>]
      BY <1>0, <1>6, <2>2 DEF Log!WriteLine
    <3>2. Log!Free \in 0..Log!Free
      BY <1>0, FreeIsASlot DEF Log!Slots
    <3> QED
      BY <1>5, <2>2, <3>1, <3>2
  <2>3. CASE ~Log!IsFull
    BY <1>3, <1>6, <2>1, <2>3 DEF Log!WriteLine
  <2> QED
    BY <2>2, <2>3
<1>7. CASE Log!LoseLine
  <2>1. Log!Torn \in Int
    BY DEF Log!Torn
  <2> QED
    BY <1>3, <1>4, <1>5, <1>7, <2>1 DEF Log!LoseLine
<1> QED
  BY <1>4, <1>6, <1>7 DEF Log!Next, logVars, Log!RecordError, Log!RecordEvent, Log!Wake,
                          Log!FlushDue, Log!FlushAll, Log!Stop

-----------------------------------------------------------------------------
(* The parts together.                                                      *)

\* A step is a step of one part, and of no other.
LEMMA PartsStep ==
    ASSUME [MCNext]_<<part, vars, loopVars, routerVars, logVars>>
    PROVE  /\ [Next]_vars /\ [Loop!Next]_loopVars /\ [Router!Next]_routerVars
           /\ [Log!Next]_logVars
BY DEF MCNext, OfWorkflow, OfLoop, OfRouter, OfLog

\* What an execution loop writes back was declared mutable, and its ledger has it as applied.
THEOREM LoopsCommitOnlyWhatTheyMay == MCSpec => []CommitsAreDeclaredAndRecorded
<1>1. MCInit => LoopIInv
  BY LoopInit DEF MCInit
<1>2. LoopIInv /\ [MCNext]_<<part, vars, loopVars, routerVars, logVars>> => LoopIInv'
  BY PartsStep, LoopNext
<1>3. LoopIInv => CommitsAreDeclaredAndRecorded
  BY DEF LoopIInv, CommitsAreDeclaredAndRecorded
<1> QED
  BY <1>1, <1>2, <1>3, PTL DEF MCSpec

\* A circuit is open when and only when the reports on its provider say so, whatever the
\* calls under way; and the current credential is one that is left.
THEOREM CircuitsAreTrue == MCSpec => []CircuitsFollowReports
<1>1. MCInit => RouterIInv
  BY RouterInit DEF MCInit
<1>2. RouterIInv /\ [MCNext]_<<part, vars, loopVars, routerVars, logVars>> => RouterIInv'
  BY PartsStep, RouterNext
<1>3. RouterIInv => CircuitsFollowReports
  BY DEF RouterIInv, CircuitsFollowReports
<1> QED
  BY <1>1, <1>2, <1>3, PTL DEF MCSpec

\* The log reads in the order of the events and says nothing twice, whatever is dropped and
\* wherever a rotation stops; and its notices count the events lost, and no notice.
THEOREM LogReadsInOrder == MCSpec => []LogIsTrue
<1>1. MCInit => LogIInv
  BY LogInit DEF MCInit
<1>2. LogIInv /\ [MCNext]_<<part, vars, loopVars, routerVars, logVars>> => LogIInv'
  BY PartsStep, LogNext
<1>3. LogIInv => LogIsTrue
  BY LogReadsTrue DEF LogIsTrue
<1> QED
  BY <1>1, <1>2, <1>3, PTL DEF MCSpec

\* No execution loop makes more turns than its ceiling has.
THEOREM LoopsStayBelowTheirCeiling == MCSpec => [](iteration <= MaxIterations)
<1>1. MCInit => LoopIInv
  BY LoopInit DEF MCInit
<1>2. LoopIInv /\ [MCNext]_<<part, vars, loopVars, routerVars, logVars>> => LoopIInv'
  BY PartsStep, LoopNext
<1>3. LoopIInv => iteration <= MaxIterations
  BY DEF LoopIInv
<1> QED
  BY <1>1, <1>2, <1>3, PTL DEF MCSpec

\* No request goes to a provider that its circuit breaker keeps out, by score or by
\* exploration, whatever was reported since.
THEOREM RestingProvidersAreLeft == MCSpec => Router!RestingIsNotAsked
<1> DEFINE Left == \A c \in Calls, p \in Router!Providers :
                       call[c] = 0 /\ call'[c] = p
                           => ~(circuit[p].state = "open" /\ age[p] < Cooldown)
<1>1. MCInit => RouterIInv
  BY RouterInit DEF MCInit
<1>2. RouterIInv /\ [MCNext]_<<part, vars, loopVars, routerVars, logVars>> => RouterIInv'
  BY PartsStep, RouterNext
<1>3. RouterIInv /\ [MCNext]_<<part, vars, loopVars, routerVars, logVars>> => [Left]_(Router!vars)
  BY PartsStep, RestingAreLeft
<1> QED
  BY <1>1, <1>2, <1>3, PTL DEF MCSpec, Router!RestingIsNotAsked

\* A file of the log disappears only off the end of a full family, wherever the rotations
\* before stopped.
THEOREM OnlyTheOldestFileGoes == MCSpec => Log!OnlyTheOldestIsDiscarded
<1> DEFINE Kept == \A i \in Log!Slots :
                       (slot[i] # Log!NoFile /\ MaxFiles > 0
                           /\ ~\E k \in Log!Slots : Log!IsPrefix(slot[i], slot'[k]))
                       => i = MaxFiles /\ \A k \in Log!Slots : slot[k] # Log!NoFile
<1>1. MCInit => LogIInv
  BY LogInit DEF MCInit
<1>2. LogIInv /\ [MCNext]_<<part, vars, loopVars, routerVars, logVars>> => LogIInv'
  BY PartsStep, LogNext
<1>3. ASSUME LogIInv, [MCNext]_<<part, vars, loopVars, routerVars, logVars>>
      PROVE  [Kept]_(Log!vars)
  <2>1. [Log!Next]_logVars
    BY <1>3, PartsStep
  <2> SUFFICES ASSUME NEW i \in Log!Slots, slot[i] # Log!NoFile, MaxFiles > 0,
                      ~\E k \in Log!Slots : Log!IsPrefix(slot[i], slot'[k])
               PROVE  i = MaxFiles /\ \A k \in Log!Slots : slot[k] # Log!NoFile
    OBVIOUS
  <2> QED
    BY <1>3, <2>1, OldestGoes
<1> QED
  BY <1>1, <1>2, <1>3, PTL DEF MCSpec, Log!OnlyTheOldestIsDiscarded
=============================================================================
