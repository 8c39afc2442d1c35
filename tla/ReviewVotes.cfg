CONSTANTS
    ann = ann
    bob = bob
    eve = eve
    Users = {ann, bob, eve}
    Admins = {eve}
    Posts = {p1}
    Author <- MCAuthor
    Ages <- MCAges
    Requests = {r1, r2, r3}
    HideAtVotes = 2
    NoBallot = NoBallot
    None = None
SPECIFICATION FairSpec
INVARIANTS
    TypeOK
    TransactionsAreCurrent
    TallyMatchesBallots
    AuditExplainsStatus
PROPERTIES
    CommunityHidesByRule
    ImplementsVoteBoard
    EveryRequestAnswered
CHECK_DEADLOCK FALSE
