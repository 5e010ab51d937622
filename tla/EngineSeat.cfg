SPECIFICATION FairSpec
CONSTANTS
    p1 = p1
    p2 = p2
    p3 = p3
    NoProc = NoProc
    Procs = {p1, p2, p3}
    Release <- MCRelease
    Patience = 2
    MaxServes = 2
INVARIANTS
    OneEngineAndFindable
    SpokesMatchTheirEngine
PROPERTIES
    ImplementsElection
    JoinSettles
