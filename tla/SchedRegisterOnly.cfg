SPECIFICATION Spec
CONSTANTS
    s1 = s1
    s2 = s2
    Volunteers = {v1, v2, v3}
    Shifts = {s1, s2}
    Requests = {r1, r2, r3}
    CapacityMax <- OneSeat
    StartsAt <- Starts
    EndsAt <- Ends
    CredentialShifts = {s1}
    ExclusionConstraint = FALSE
    StatusUpdates = {"PUBLISHED", "CANCELLED"}
    Events = {"register", "review"}
    OtherReq = {}
SYMMETRY Symmetry
INVARIANTS CapacityRespected NoDoubleBooking WaitlistNumbered
PROPERTY JoinsAreAtomic
