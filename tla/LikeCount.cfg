CONSTANTS
    ann = ann
    bob = bob
    Users = {ann, bob}
    Posts = {p1}
    Author <- MCAuthor
    Requests = {r1, r2}
    None = None
SPECIFICATION Spec
SYMMETRY RequestSymmetry
INVARIANTS
    LikeCountExact
CHECK_DEADLOCK FALSE
