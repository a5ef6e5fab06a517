SPECIFICATION AttSpec
CONSTANTS
    s1 = s1
    s2 = s2
    Volunteers = {v1}
    Shifts = {s1}
    Requests = {r1}
    CapacityMax <- OneSeat
    StartsAt <- Starts
    EndsAt <- Ends
    CredentialShifts = {}
    ExclusionConstraint = TRUE
    StatusUpdates = {"PUBLISHED"}
    Events = {"register", "cancel"}
    OtherReq <- Arrivals
    Tokens = {}
    Methods = {"MANUAL"}
INVARIANT OnlyConfirmed
\* Once everybody has cancelled or gone home there may be nothing left to do.
CHECK_DEADLOCK FALSE
