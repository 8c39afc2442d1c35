CONSTANTS
    Names = {ann}
    Requests = {e1, e2, r1, r2, r3}
    Early = {e1, e2}
    None = None
SPECIFICATION FairSpec
INVARIANTS
    TypeOK
    TokenSpentOnce
    NoOldSessionSurvives
    NameIsUnique
PROPERTIES
    EveryAuthRequestAnswered
CHECK_DEADLOCK FALSE
