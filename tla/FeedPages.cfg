CONSTANTS
    ann = ann
    bob = bob
    p1 = p1
    p2 = p2
    p3 = p3
    p4 = p4
    Users = {ann, bob}
    Posts = {p1, p2, p3, p4}
    Author <- MCAuthor
    DefaultLimit = 1
    MaxLimit = 2
    Asked <- MCAsked
    MaxTime = 2
    None = None
SPECIFICATION Spec
SYMMETRY PostSymmetry
INVARIANTS
    TypeOK
    PagesAreExact
CHECK_DEADLOCK FALSE
