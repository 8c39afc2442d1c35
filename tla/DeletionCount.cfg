CONSTANTS
    ann = ann
    bob = bob
    Users = {ann, bob}
    Posts = {p1}
    Author <- MCAuthor
    Places = {cafe, grill}
    Requests = {r1, r2, r3}
    Early = {r1}
    None = None
SPECIFICATION Spec
PROPERTIES
    DeletionIsUncounted
CHECK_DEADLOCK FALSE
