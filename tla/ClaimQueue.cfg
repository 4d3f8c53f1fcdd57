SPECIFICATION MCFairSpec
CONSTANTS
    d1 = d1
    d2 = d2
    d3 = d3
    r1 = r1
    r2 = r2
    o1 = o1
    None = None
    Daemons = {d1, d2, d3}
    Procs = {d1, d2, d3, r1, r2}
    Orders = {o1}
    MaxCrashes = 2
    MaxDefers = 1
    MaxPasses = 1
INVARIANT UnfinishedHasFile
PROPERTY EveryOrderFinishesAlone
