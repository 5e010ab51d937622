--------------------------- MODULE EngineElection ---------------------------
(***************************************************************************)
(* What crates/core/src/endpoint promises its callers, without locks,      *)
(* files or sockets: one process at a time serves a state root, each term  *)
(* of service is new, and a process attaches only to the process that is   *)
(* serving, if it is of the same release.                                  *)
(***************************************************************************)
EXTENDS Naturals

CONSTANTS Procs, NoProc, Release

VARIABLES
    serving,    \* the process that serves the root
    term,       \* how many terms of service there have been
    attached    \* the term each process is attached to, 0 if to none

evars == <<serving, term, attached>>

Init ==
    /\ serving = NoProc
    /\ term = 0
    /\ attached = [p \in Procs |-> 0]

\* A process begins to serve a root nobody serves.
Open(p) ==
    /\ serving = NoProc
    /\ serving' = p
    /\ term' = term + 1
    /\ UNCHANGED attached

\* The serving process stops, or dies.
Close ==
    /\ serving # NoProc
    /\ serving' = NoProc
    /\ UNCHANGED <<term, attached>>

\* A process attaches to the serving one.
Attach(p) ==
    /\ serving # NoProc
    /\ Release[serving] = Release[p]
    /\ attached[p] = 0
    /\ attached' = [attached EXCEPT ![p] = term]
    /\ UNCHANGED <<serving, term>>

\* An attached process ends.
Detach(p) ==
    /\ attached[p] # 0
    /\ attached' = [attached EXCEPT ![p] = 0]
    /\ UNCHANGED <<serving, term>>

Next ==
    \/ Close
    \/ \E p \in Procs : Open(p) \/ Attach(p) \/ Detach(p)

Spec == Init /\ [][Next]_evars
=============================================================================
