CONSTANTS
    Users = {ann, bob}
    Requests = {r1, r2, r3}
    None = None
SPECIFICATION FairSpec
INVARIANTS
    TypeOK
    OnlyBlocksBreakCounters
PROPERTIES
    NoticeOnlyForNewFollow
    EveryFollowAnswered
CHECK_DEADLOCK FALSE
