SPECIFICATION Spec
CONSTANTS
    s1 = s1
    s2 = s2
    Volunteers = {v1, v2}
    Shifts = {s1}
    Requests = {r1}
    CapacityMax <- OneSeat
    StartsAt <- Starts
    EndsAt <- Ends
    CredentialShifts = {}
    ExclusionConstraint = TRUE
    StatusUpdates = {"PUBLISHED"}
    Events = {"register", "cancel"}
    OtherReq = {}
INVARIANT FreedSeatOffered
