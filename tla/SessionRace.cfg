\* Two handlers on one account, with every operation and crashes.
SPECIFICATION FairSpec
CONSTANTS
    h1 = h1
    h2 = h2
    k1 = k1
    k2 = k2
    Requests <- TwoHandlers
    Tokens = {1, 2, 3, 4}
    Secrets <- TwoSecrets
    MaxFailures = 2
    MfaRole = TRUE
INVARIANTS
    TypeOK
    RotationBounded
    ClaimsHold
PROPERTIES
    SessionsDrain
    UnprovedDrain
    SecretSettles
    LockoutWorks
