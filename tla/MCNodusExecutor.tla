-------------------------- MODULE MCNodusExecutor --------------------------
(***************************************************************************)
(* Small workflows that between them hold every kind of statement, every   *)
(* control flag, handlers, compensations, retries, restarts and rules.     *)
(***************************************************************************)
EXTENDS NodusExecutor

Stmt(step, up, op, name, to, n, flag, alt) ==
    [step |-> step, up |-> up, op |-> op, name |-> name, to |-> to,
     n |-> n, flag |-> flag, alt |-> alt]
Cmd(step, up, name, to) == Stmt(step, up, "cmd", name, to, 0, "none", 0)
Block(step, up, op, n, to) == Stmt(step, up, op, "none", to, n, "none", 0)
If(step, up, flag, alt) == Stmt(step, up, "if", "none", "none", 0, flag, alt)
Else(step, flag) == Stmt(step, -1, "else", "none", "none", 0, flag, 0)
C(name) == [name |-> name, to |-> "none"]
S(retry, comp) == [retry |-> retry, comp |-> comp]

Wf(steps, nodes) ==
    [step |-> steps, node |-> nodes, never |-> {}, publishNeedsValidate |-> FALSE,
     handler |-> None, restartMax |-> 0, maxSteps |-> 0,
     clocked |-> FALSE]

\* Three effects to undo, one of them by a gated command; a dialog among them.
Effects ==
    [Wf(<<S(1, C("FORGET")), S(2, C("ANALYZE")), S(1, C("NOTIFY")), S(1, None)>>,
        <<Cmd(1, 0, "STORE", "none"), Cmd(2, 0, "GEN", "out"), Cmd(3, 0, "SETTLE", "none"),
          Cmd(3, 0, "ASK", "x"), Cmd(4, 0, "STORE", "none"), If(4, 0, "halt", 0),
          Cmd(4, 6, "ESCALATE", "none")>>)
     EXCEPT !.handler = C("ESCALATE")]

\* Loops, branches and signals inside one another.
Control ==
    Wf(<<S(1, C("FORGET")), S(1, C("NOTIFY"))>>,
       <<Block(1, 0, "for", 2, "none"), If(1, 1, "skip", 3), Stmt(1, -1, "if", "none", "none", 0, "break", 4),
         Else(1, "none"), Cmd(1, 4, "GEN", "x"), Cmd(1, 1, "STORE", "none"),
         Block(2, 0, "until", 2, "none"), Block(2, 7, "par", 0, "x"), Cmd(2, 8, "GEN", "x"),
         If(2, 8, "skip", 0), Cmd(2, 10, "STORE", "none"), Cmd(2, 7, "STORE", "none")>>)

\* A ~MAP whose list is used later, under a retry.
Mapping ==
    [Wf(<<S(2, None), S(1, None)>>,
        <<Stmt(1, 0, "map", "GEN", "list", 2, "none", 0),
          Block(2, 0, "switch", 0, "none"), Cmd(2, 2, "LOG", "none"), Cmd(2, 2, "STORE", "none")>>)
     EXCEPT !.handler = C("NOTIFY")]

\* $out, unset so far, is written after LOG by a join, by a command in a branch that
\* pauses and by the handler.
Locking ==
    [Wf(<<S(1, C("FORGET")), S(1, None), S(2, None)>>,
        <<Cmd(1, 0, "STORE", "x"), Cmd(2, 0, "LOG", "none"), Block(3, 0, "par", 0, "out"),
          Cmd(3, 3, "STORE", "none"), If(3, 0, "pause", 0), Cmd(3, 5, "GEN", "out")>>)
     EXCEPT !.handler = [name |-> "NOTIFY", to |-> "out"]]

\* Rules that a step, a handler and a compensation may breach.
Ruled ==
    [Wf(<<S(1, C("DELETE")), S(1, C("FORGET")), S(1, C("NOTIFY"))>>,
        <<Cmd(1, 0, "STORE", "none"), If(2, 0, "none", 0), Cmd(2, 2, "VALIDATE", "none"),
          Cmd(3, 0, "GEN", "out"), If(3, 0, "none", 0), Cmd(3, 5, "PUBLISH", "none")>>)
     EXCEPT !.never = {"DELETE"}, !.publishNeedsValidate = TRUE, !.handler = C("PUBLISH"),
                !.clocked = TRUE]

\* A run that asks to be run again, with a budget of steps.
Restarting ==
    [Wf(<<S(1, C("FORGET")), S(1, None), S(1, None)>>,
        <<Cmd(1, 0, "STORE", "none"), If(2, 0, "none", 0), Cmd(2, 2, "ASSIGN", "restart"),
          Cmd(3, 0, "GEN", "out")>>)
     EXCEPT !.restartMax = 2, !.maxSteps = 2]

Stepless == [Wf(<<>>, <<>>) EXCEPT !.handler = C("NOTIFY")]
Unvalidated == Wf(<<S(1, None)>>, <<Cmd(1, 0, "PUBLISH", "none")>>)
Unescalated == Wf(<<S(1, None)>>, <<If(1, 0, "halt", 0), Cmd(1, 1, "LOG", "none")>>)
RestartInLoop ==
    Wf(<<S(1, None)>>, <<Block(1, 0, "for", 2, "none"), Cmd(1, 1, "GEN", "restart")>>)

MCWorkflows == {Effects, Control, Mapping, Locking, Ruled, Restarting, Stepless,
                Unvalidated, Unescalated, RestartInLoop}
=============================================================================
