---------------------------- MODULE ModelRouter ----------------------------
(***************************************************************************)
(* The model router: domain/src/router.                                    *)
(*                                                                         *)
(* RouterPool picks a provider for each request.  Its callers then call    *)
(* the provider and report how that went; many calls are under way at once *)
(* and their reports come in any order.  A circuit breaker for each        *)
(* provider counts the failures, keeps the provider out for a cool-down    *)
(* and lets it back in on trial.  A pool of credentials, of which one is   *)
(* current, drops those that fail too often.                               *)
(***************************************************************************)
EXTENDS Naturals, Sequences, SequencesExt

CONSTANTS
    N,              \* providers, in the order they were registered
    Local,          \* those that run on this machine
    Calls,          \* callers of the pool
    Threshold,      \* failures that open a circuit
    Cooldown,       \* ticks an open circuit keeps its provider out
    Interval,       \* BANDIT_INTERVAL: every so many requests explore
    NKeys,          \* credentials the pool starts with
    EvictThreshold  \* failures that evict a credential

Providers == 1..N

RouterAssumption ==
    /\ N \in Nat \ {0} /\ Local \subseteq Providers
    /\ Threshold \in Nat \ {0} /\ Cooldown \in Nat /\ Interval \in Nat \ {0}
    /\ NKeys \in Nat /\ EvictThreshold \in Nat \ {0}

VARIABLES
    circuit,        \* each provider's CircuitBreaker
    age,            \* ticks since it opened, as far as the cool-down goes
    mode,           \* offline, or any other ModePack
    turn,           \* bandit_counter, modulo Interval
    call,           \* the provider each caller is calling, 0 for none
    failures,       \* failures of each provider since its last success, up to Threshold
    keys,           \* credentials left, each with its failures
    index           \* of the current one, from 0

vars == <<circuit, age, mode, turn, call, failures, keys, index>>
poolVars == <<circuit, age, mode, turn, call, failures>>
keyVars == <<keys, index>>

Closed == [state |-> "closed", count |-> 0]
AtMost(n, bound) == IF n > bound THEN bound ELSE n

Init ==
    /\ circuit = [p \in Providers |-> Closed]
    /\ age = [p \in Providers |-> 0]
    /\ mode \in {"offline", "other"}
    /\ turn = 0
    /\ call = [c \in Calls |-> 0]
    /\ failures = [p \in Providers |-> 0]
    /\ keys = [i \in 1..NKeys |-> [key |-> i, count |-> 0]]
    /\ index = 0

-----------------------------------------------------------------------------
\* CircuitBreaker::is_open answers true.
Resting(p) == circuit[p].state = "open" /\ age[p] < Cooldown

\* CircuitBreaker::is_open, and the trial it lets an open circuit have.
AfterIsOpen(p) ==
    IF circuit[p].state = "open" /\ ~Resting(p)
    THEN [circuit[p] EXCEPT !.state = "half-open"] ELSE circuit[p]

\* score is 0 for a provider that is not sound (healthy, and wide enough for the request)
\* or, offline, not local; for any other it is positive.
Usable(sound) == IF mode = "offline" THEN sound \intersect Local ELSE sound

First(set) == CHOOSE p \in set : \A q \in set : p <= q

Decide(c, p) == call' = [call EXCEPT ![c] = p]

\* Mutation of Explored: any circuit will do.
Explored_AnyCircuit(sound) == sound

\* Whom exploration may pick: no open circuit, sound, and never mind the mode.
Explored(sound) == {p \in sound : circuit[p].state # "open"}

\* route, exploring: the first that will do, and no circuit is asked.
Explore(c, sound) ==
    /\ (turn + 1) % Interval = 0
    /\ Explored(sound) # {}
    /\ Decide(c, First(Explored(sound)))
    /\ UNCHANGED circuit

\* route, scoring: a circuit that is open is passed over, the best of the others is taken,
\* and the first of them when all score 0.  With none left it is AllCircuitsBroken.
Score(c, sound) ==
    LET candidates == {p \in Providers : ~Resting(p)}
        best == candidates \intersect Usable(sound)
    IN  /\ (turn + 1) % Interval # 0 \/ Explored(sound) = {}
        /\ circuit' = [p \in Providers |-> AfterIsOpen(p)]
        /\ \/ /\ candidates = {}
              /\ UNCHANGED call
           \/ /\ candidates # {} /\ best = {}
              /\ Decide(c, First(candidates))
           \/ \E p \in best : Decide(c, p)

Route(c) ==
    /\ call[c] = 0
    /\ \E sound \in SUBSET Providers : Explore(c, sound) \/ Score(c, sound)
    /\ turn' = (turn + 1) % Interval
    /\ UNCHANGED <<age, mode, failures, keyVars>>

\* RouterPool::record_success
RecordSuccess(c) ==
    /\ call[c] # 0
    /\ circuit' = [circuit EXCEPT ![call[c]] = Closed]
    /\ failures' = [failures EXCEPT ![call[c]] = 0]
    /\ call' = [call EXCEPT ![c] = 0]
    /\ UNCHANGED <<age, mode, turn, keyVars>>

\* Mutation of Failed: a trial that fails counts as any failure does.
Failed_AfreshOnTrial(breaker) ==
    LET count == IF breaker.state = "half-open" THEN 1 ELSE AtMost(breaker.count + 1, Threshold)
    IN  [count |-> count, state |-> IF count >= Threshold THEN "open" ELSE "degraded"]

\* CircuitBreaker::record_failure; the count is only ever compared with the threshold.
Failed(breaker) ==
    LET count == AtMost(breaker.count + 1, Threshold)
    IN  [count |-> count, state |-> IF count >= Threshold THEN "open" ELSE "degraded"]

\* RouterPool::record_failure
RecordFailure(c) ==
    LET p == call[c]
    IN  /\ p # 0
        /\ circuit' = [circuit EXCEPT ![p] = Failed(circuit[p])]
        /\ age' = IF circuit'[p].state = "open" THEN [age EXCEPT ![p] = 0] ELSE age
        /\ failures' = [failures EXCEPT ![p] = AtMost(@ + 1, Threshold)]
        /\ call' = [call EXCEPT ![c] = 0]
        /\ UNCHANGED <<mode, turn, keyVars>>

SetMode(m) ==
    /\ mode # m
    /\ mode' = m
    /\ UNCHANGED <<circuit, age, turn, call, failures, keyVars>>

\* The clock behind Instant::elapsed.
Tick ==
    /\ \E p \in Providers : Resting(p)
    /\ age' = [p \in Providers |-> AtMost(age[p] + 1, Cooldown)]
    /\ UNCHANGED <<circuit, mode, turn, call, failures, keyVars>>

-----------------------------------------------------------------------------
\* CredentialPool::rotate
Rotate ==
    /\ keys # <<>>
    /\ index' = (index + 1) % Len(keys)
    /\ UNCHANGED <<keys, poolVars>>

IndexAfter(left) == IF left = <<>> THEN index ELSE index % Len(left)

\* CredentialPool::record_failure
KeyFails ==
    /\ index < Len(keys)
    /\ LET at == index + 1
           counted == [keys EXCEPT ![at].count = @ + 1]
           left == IF counted[at].count >= EvictThreshold THEN RemoveAt(counted, at) ELSE counted
       IN  /\ keys' = left
           /\ index' = IF Len(left) < Len(keys) THEN IndexAfter(left) ELSE index
    /\ UNCHANGED poolVars

Next ==
    \/ \E c \in Calls : Route(c) \/ RecordSuccess(c) \/ RecordFailure(c)
    \/ \E m \in {"offline", "other"} : SetMode(m)
    \/ Tick
    \/ Rotate
    \/ KeyFails

\* Time passes, requests keep coming, and whoever calls a provider reports.
Fairness ==
    /\ WF_vars(Tick)
    /\ \A c \in Calls : WF_vars(Route(c)) /\ WF_vars(RecordSuccess(c) \/ RecordFailure(c))

FairSpec == Init /\ [][Next]_vars /\ Fairness

-----------------------------------------------------------------------------
(***************************************************************************)
(* What the pool remembers is true.  Whichever calls were under way when a *)
(* circuit opened and whenever they report, it says what the reports say:  *)
(* open or on trial exactly when the threshold was reached since the last  *)
(* success, so that one failure on trial opens it again.  And the current  *)
(* credential is always one that is left, whatever rotations, failures and *)
(* evictions came in between.                                              *)
(***************************************************************************)
CircuitsFollowReports ==
    /\ \A p \in Providers :
          /\ circuit[p].count = failures[p]
          /\ circuit[p].state \in {"open", "half-open"} <=> failures[p] = Threshold
          /\ circuit[p].state = "closed" <=> failures[p] = 0
    /\ keys # <<>> => index < Len(keys)
    /\ \A i \in DOMAIN keys : keys[i].count < EvictThreshold

\* No request goes to a provider that the breaker keeps out, be it by its
\* score or by exploration.
RestingIsNotAsked ==
    [][\A c \in Calls, p \in Providers :
         call[c] = 0 /\ call'[c] = p
             => ~(circuit[p].state = "open" /\ age[p] < Cooldown)]_vars

(***************************************************************************)
(* A provider that rests is not asked; and an open circuit does not stay   *)
(* open for ever: late failures put the trial off, and exploration passes  *)
(* it over, but it comes.                                                  *)
(***************************************************************************)
ProvidersRestAndAreTried ==
    /\ RestingIsNotAsked
    /\ \A p \in Providers : circuit[p].state = "open" ~> circuit[p].state # "open"

(***************************************************************************)
(* "Offline mode excludes non-local providers entirely" (scoring.rs), and  *)
(* "must route to local provider only" (tests/model_router.rs).            *)
(***************************************************************************)
OfflineStaysLocal ==
    [][\A c \in Calls : mode = "offline" /\ call[c] = 0 /\ call'[c] # 0 => call'[c] \in Local]_vars
=============================================================================
