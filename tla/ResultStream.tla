---------------------------- MODULE ResultStream ----------------------------
(***************************************************************************)
(* What a streamed invocation promises the surface that reads it: pieces   *)
(* in the order they were written, none left out, then one settled outcome *)
(* - the work's own result, only after every piece, or the news that there *)
(* will be none.  (crates/domain/src/invocable/stream.rs, its module doc.)  *)
(***************************************************************************)
EXTENDS Naturals

VARIABLES
    written,    \* pieces the work has written
    settled,    \* the work has its result
    shown,      \* pieces the surface has been given
    outcome     \* "none", "result" or "unavailable": what ended it

rvars == <<written, settled, shown, outcome>>

Init ==
    /\ written = 0
    /\ settled = FALSE
    /\ shown = 0
    /\ outcome = "none"

Write ==
    /\ ~settled
    /\ written' = written + 1
    /\ UNCHANGED <<settled, shown, outcome>>

Settle ==
    /\ settled' = TRUE
    /\ UNCHANGED <<written, shown, outcome>>

Show ==
    /\ outcome = "none"
    /\ shown < written
    /\ shown' = shown + 1
    /\ UNCHANGED <<written, settled, outcome>>

EndWithResult ==
    /\ outcome = "none"
    /\ settled
    /\ shown = written
    /\ outcome' = "result"
    /\ UNCHANGED <<written, settled, shown>>

EndUnavailable ==
    /\ outcome = "none"
    /\ outcome' = "unavailable"
    /\ UNCHANGED <<written, settled, shown>>

Next == Write \/ Settle \/ Show \/ EndWithResult \/ EndUnavailable

Spec == Init /\ [][Next]_rvars
=============================================================================
