SPECIFICATION Spec
CONSTANTS
    s1 = s1
    s2 = s2
    Volunteers = {v1, v2, v3}
    Shifts = {s1}
    Requests = {r1, r2}
    CapacityMax <- OneSeat
    StartsAt <- Starts
    EndsAt <- Ends
    CredentialShifts = {}
    ExclusionConstraint = TRUE
    StatusUpdates = {"PUBLISHED"}
    Events = {"register", "cancel"}
    OtherReq = {}
SYMMETRY Symmetry
INVARIANT CapacityRespected
