CONSTANTS
    Keys = {k1}
    Requests = {r1, r2}
    Cost = 2
    Rate = 3
    Burst = 4
    Ttl = 6
    MaxLag = 2
    Horizon = 7
    None = None
SPECIFICATION Spec
SYMMETRY GoroutineSymmetry
INVARIANTS
    TypeOK
    WindowBound
PROPERTIES
    RestedKeyIsServed
