CONSTANTS
    Users = {ann, bob}
    Requests = {r1, r2}
    None = None
SPECIFICATION Spec
SYMMETRY RequestSymmetry
INVARIANTS
    FollowerCountExact
CHECK_DEADLOCK FALSE
