\* One tab with two requests under way, one opportunity and one credential type.
SPECIFICATION FairSpec
CONSTANTS
    r1 = r1
    r2 = r2
    o1 = o1
    Requests <- TwoRequests
    Opps <- OneOpp
    Types = {"TRAINING"}
    Roles = {"VOLUNTEER", "EVENT_MANAGER"}
    AppVerdicts = {"APPROVED"}
    CredVerdicts = {"REJECTED"}
    MaxPosts = 3
INVARIANTS
    TypeOK
    ApplicationsBounded
    SubmissionsBounded
    NoFalseSuccess
    ChecklistHonest
    SpinnersAwaitAnswers
PROPERTIES
    SpinnersStop
