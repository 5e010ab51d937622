---------------------------- MODULE MCEngineSeat ----------------------------
(* EngineSeat on three processes, two of one release and one of another.   *)
EXTENDS EngineSeat, TLC

CONSTANTS p1, p2, p3

MCRelease == (p1 :> "r1") @@ (p2 :> "r2") @@ (p3 :> "r2")
=============================================================================
