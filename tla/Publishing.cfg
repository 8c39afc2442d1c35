CONSTANTS
    ann = ann
    bob = bob
    i1 = i1
    i2 = i2
    t1 = t1
    t2 = t2
    Users = {ann, bob}
    Requests = {r1, r2, r3}
    Early = {r1}
    Assets = {i1, i2}
    Tags = {t1, t2}
    Drafts <- MCDrafts
    GoogleIds = {g1}
    None = None
SPECIFICATION MCSpec
INVARIANTS
    PublishingTypeOK
    TagCountsExact
    EditsAreSerial
    ReadersSeeWholePosts
    ConfirmationHolds
    PlaceAnswersAgree
PROPERTIES
    ImplementsCatalogue
    EveryPublishingRequestAnswered
CHECK_DEADLOCK FALSE
