------------------------- MODULE InvocableDispatch -------------------------
(***************************************************************************)
(* Dispatcher::dispatch, called by many threads at once:                   *)
(* domain/src/invocable/dispatch.rs.                                       *)
(*                                                                         *)
(* A resolved call is entered in the dispatch journal, bound, run and      *)
(* settled in the journal; a dispatcher that was given none, as those the  *)
(* program builds are, does the same and records nothing.  A core handler  *)
(* runs on the caller's thread, for as long as it likes and with its       *)
(* panics; a contribution's runs on a thread of its own, and after a time  *)
(* bound the caller goes on without it.                                    *)
(***************************************************************************)
EXTENDS Naturals, Sequences, FiniteSets

CONSTANTS
    Calls,
    MaxThreads      \* threads the system grants to contributions' handlers

DispatchAssumption == MaxThreads \in Nat

VARIABLES
    place,          \* where each call is
    call,           \* what it calls, and whether its arguments bind
    seq,            \* dispatch_seq
    ticket,         \* each call's dispatch id
    journaled,      \* whether a journal was set
    journal,        \* records written
    handler,        \* what has become of each call's handler
    answer          \* what the caller is told

vars == <<place, call, seq, ticket, journaled, journal, handler, answer>>

Kinds == [kind: {"unknown", "core", "contribution"}, binds: BOOLEAN, attached: BOOLEAN]
Places == {"resolving", "entering", "binding", "running", "waiting", "settling", "done",
           "panicked"}
Answers == {"none", "unknown", "unrecorded", "rejected", "unattached", "value", "failed",
            "overran"}
Record(kind, id) == [kind |-> kind, id |-> id]

Init ==
    /\ place = [c \in Calls |-> "resolving"]
    /\ call \in [Calls -> Kinds]
    /\ seq = 0
    /\ ticket = [c \in Calls |-> 0]
    /\ journaled \in BOOLEAN
    /\ journal = <<>>
    /\ handler = [c \in Calls |-> "none"]
    /\ answer = [c \in Calls |-> "none"]

Step(c, from, to) ==
    /\ place[c] = from
    /\ place' = [place EXCEPT ![c] = to]
Answered(c, what) == answer' = [answer EXCEPT ![c] = what]
\* Threads of contributions, orphans included.
Threads == {c \in Calls : call[c].kind = "contribution" /\ handler[c] = "running"}

-----------------------------------------------------------------------------
\* registry.resolve: nothing is recorded of what is not known.
ResolveUnknown(c) ==
    /\ call[c].kind = "unknown"
    /\ Step(c, "resolving", "done")
    /\ Answered(c, "unknown")
    /\ UNCHANGED <<call, journaled, seq, ticket, journal, handler>>

\* next_dispatch_id
NextDispatchId(c) ==
    /\ ticket' = [ticket EXCEPT ![c] = seq]
    /\ seq' = seq + 1

Resolve(c) ==
    /\ call[c].kind # "unknown"
    /\ Step(c, "resolving", "entering")
    /\ NextDispatchId(c)
    /\ UNCHANGED <<call, journaled, journal, handler, answer>>

\* Mutation of EnterFails: the call goes on unrecorded.
EnterFails_GoesOn(c) ==
    /\ Step(c, "entering", "binding")
    /\ UNCHANGED <<call, journaled, seq, ticket, journal, handler, answer>>

\* write_journal: without a journal there is nothing to write.
Write(r) == journal' = IF journaled THEN Append(journal, r) ELSE journal

\* The journal refuses the entry, and with it the call.
EnterFails(c) ==
    /\ journaled
    /\ Step(c, "entering", "done")
    /\ Answered(c, "unrecorded")
    /\ UNCHANGED <<call, journaled, seq, ticket, journal, handler>>

Enter(c) ==
    /\ Step(c, "entering", "binding")
    /\ Write(Record("Enter", ticket[c]))
    /\ UNCHANGED <<call, journaled, seq, ticket, handler, answer>>

\* bind, and the handler looked up: what does not bind or has none is settled
\* without a run.
Bind(c) ==
    /\ ~(call[c].binds /\ call[c].attached)
    /\ Step(c, "binding", "settling")
    /\ Answered(c, IF call[c].binds THEN "unattached" ELSE "rejected")
    /\ UNCHANGED <<call, journaled, seq, ticket, journal, handler>>

\* Its handler is to run.
Runs(c, kind) ==
    /\ call[c].binds /\ call[c].attached
    /\ call[c].kind = kind

RunCore(c) ==
    /\ Runs(c, "core")
    /\ Step(c, "binding", "running")
    /\ handler' = [handler EXCEPT ![c] = "running"]
    /\ UNCHANGED <<call, journaled, seq, ticket, journal, answer>>

\* run_contribution: a thread for the handler.
RunContribution(c) ==
    /\ Runs(c, "contribution")
    /\ Cardinality(Threads) < MaxThreads
    /\ Step(c, "binding", "waiting")
    /\ handler' = [handler EXCEPT ![c] = "running"]
    /\ UNCHANGED <<call, journaled, seq, ticket, journal, answer>>

\* No thread is to be had: std::thread::spawn panics, on the caller's thread.
SpawnPanics(c) ==
    /\ Runs(c, "contribution")
    /\ Cardinality(Threads) >= MaxThreads
    /\ Step(c, "binding", "panicked")
    /\ UNCHANGED <<call, journaled, seq, ticket, journal, handler, answer>>

\* The handler comes to its end, or panics; nothing says it ever does.
HandlerEnds(c) ==
    /\ handler[c] = "running"
    /\ \E how \in {"returned", "panicked"} :
          /\ handler' = [handler EXCEPT ![c] = how]
          /\ IF call[c].kind = "core"
             THEN IF how = "returned" THEN Step(c, "running", "settling") /\ Answered(c, "value")
                  ELSE Step(c, "running", "panicked") /\ UNCHANGED answer
             ELSE UNCHANGED <<place, answer>>
    /\ UNCHANGED <<call, journaled, seq, ticket, journal>>

\* rx.recv_timeout: the result was sent in time,
Receive(c) ==
    /\ handler[c] \in {"returned", "panicked"}
    /\ Step(c, "waiting", "settling")
    /\ Answered(c, IF handler[c] = "returned" THEN "value" ELSE "failed")
    /\ UNCHANGED <<call, journaled, seq, ticket, journal, handler>>

\* Mutation of TimeOut: the caller waits for the handler (recv).
TimeOut_Never(c) ==
    /\ FALSE
    /\ UNCHANGED vars

\* ... or the bound is over and nothing was.
TimeOut(c) ==
    /\ handler[c] = "running"
    /\ Step(c, "waiting", "settling")
    /\ Answered(c, "overran")
    /\ UNCHANGED <<call, journaled, seq, ticket, journal, handler>>

\* The settlement; its failure is contained.
Settle(c) ==
    /\ Step(c, "settling", "done")
    /\ Write(Record("Settle", ticket[c])) \/ UNCHANGED journal
    /\ UNCHANGED <<call, journaled, seq, ticket, handler, answer>>

CallStep(c) ==
    \/ ResolveUnknown(c) \/ Resolve(c) \/ Enter(c) \/ EnterFails(c) \/ Bind(c) \/ RunCore(c)
    \/ RunContribution(c) \/ SpawnPanics(c) \/ Receive(c) \/ TimeOut(c) \/ Settle(c)

Next == \E c \in Calls : CallStep(c) \/ HandlerEnds(c)

Spec == Init /\ [][Next]_vars

\* Callers run, and the clock with them; handlers may never end.
FairSpec == Spec /\ \A c \in Calls : WF_vars(CallStep(c))

-----------------------------------------------------------------------------
(* Properties.                                                             *)

\* A journal tells of every run.  Entries and settlements pair: no record is
\* written twice, and a settlement follows the entry with its dispatch id,
\* however the calls interleave.  Where there is one, no handler has run without
\* an entry; and whoever is told that nothing ran can rely on it.  A handler that is still
\* running when its call is over belongs to a caller who was told that it
\* overran, though the journal's settlement does not tell the two apart.
RunsAreRecorded ==
    /\ \A i \in DOMAIN journal :
          /\ \A j \in DOMAIN journal : journal[i] = journal[j] => i = j
          /\ journal[i].kind = "Settle" =>
                \E j \in 1 .. i - 1 : journal[j] = Record("Enter", journal[i].id)
    /\ \A c \in Calls :
          /\ handler[c] # "none" =>
                /\ journaled =>
                      \E i \in DOMAIN journal : journal[i] = Record("Enter", ticket[c])
                /\ answer[c] \notin {"unknown", "unrecorded", "rejected", "unattached"}
          /\ place[c] = "done" /\ handler[c] = "running" => answer[c] = "overran"

\* "The caller is never held past the bound": a call of a contribution comes
\* to its end though the handler need not.
ContributionsAreAnswered ==
    \A c \in Calls : call[c].kind = "contribution" ~> place[c] \in {"done", "panicked"}
=============================================================================
