CONSTANTS
    ann = ann
    bob = bob
    Users = {ann, bob}
    Posts = {p1}
    Author <- MCAuthor
    Places = {cafe, grill}
    Requests = {r1, r2, r3, r4}
    Early = {r1, r2}
    None = None
SPECIFICATION FairSpec
INVARIANTS
    TypeOK
    PostCountNeverTooLow
    OneNoticePerAcceptance
PROPERTIES
    LifeOfSuggestion
    EverySuggestionAnswered
CHECK_DEADLOCK FALSE
