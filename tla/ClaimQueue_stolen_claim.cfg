SPECIFICATION MCSpec
CONSTANTS
    d1 = d1
    d2 = d2
    d3 = d3
    r1 = r1
    r2 = r2
    o1 = o1
    None = None
    Daemons = {d1, d2}
    Procs = {d1, d2}
    Orders = {o1}
    MaxCrashes = 0
    MaxDefers = 1
    MaxPasses = 2
INVARIANT ExclusiveClaim
