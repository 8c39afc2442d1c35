CONSTANTS
    ann = ann
    bob = bob
    Users = {ann, bob}
    Posts = {p1}
    Author <- MCAuthor
    Requests = {r1, r2, r3}
    None = None
SPECIFICATION FairSpec
INVARIANTS
    TypeOK
    CommentCountExact
    AuthorIsNotified
PROPERTIES
    NoticeOnlyForNewLike
    SerialTogglesStayExact
    EveryInteractionAnswered
CHECK_DEADLOCK FALSE
