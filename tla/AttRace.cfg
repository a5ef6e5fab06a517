SPECIFICATION AttSpec
CONSTANTS
    s1 = s1
    s2 = s2
    Volunteers = {v1, v2, v3}
    Shifts = {s1}
    Requests = {r1, r2}
    CapacityMax <- OneSeat
    StartsAt <- Starts
    EndsAt <- Ends
    CredentialShifts = {}
    ExclusionConstraint = TRUE
    StatusUpdates = {"PUBLISHED"}
    Events = {"register", "cancel", "crash"}
    OtherReq <- Arrivals
    Tokens = {t1}
    Methods = {"QR", "MANUAL", "OFFLINE_QUEUED", "WALK_IN_MANUAL"}
SYMMETRY AttSymmetry
INVARIANTS AttTypeOK TablesAgree TokenSingleUse SeatsBounded
PROPERTY AttendanceMovesOn
\* Once everybody has cancelled or gone home there may be nothing left to do.
CHECK_DEADLOCK FALSE
