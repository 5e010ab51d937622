SPECIFICATION Spec
CONSTANTS
    machine = machine
    ws = ws
    p1 = p1
    p2 = p2
    w1 = w1
    w2 = w2
    c1 = c1
    c2 = c2
    Shipped = Shipped
    Roots = {machine, ws}
    Machine = machine
    Procs = {p1, p2}
    Workers = {w1, w2}
    Changers = {c1, c2}
    ProcOf <- MCProcOf
INVARIANT
    NoWorkUnderAnyChange
