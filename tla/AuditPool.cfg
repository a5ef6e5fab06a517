SPECIFICATION FairSpec
CONSTANTS
    Requests = {r1, r2, r3}
    Pool = 2
    Rows = {1, 2}
INVARIANTS AuditTrail HoldersGoOn
PROPERTIES PoolRecovers RequestsAnswered
