---------------------------- MODULE MCWorkGate ----------------------------
(* WorkGate on two processes: the machine root and one workspace.           *)
EXTENDS WorkGate, TLC

CONSTANTS machine, ws, p1, p2, w1, w2, c1, c2

MCProcOf == (w1 :> p1) @@ (w2 :> p2) @@ (c1 :> p1) @@ (c2 :> p2)
===========================================================================
