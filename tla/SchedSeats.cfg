SPECIFICATION Spec
CONSTANTS
    s1 = s1
    s2 = s2
    Volunteers = {v1, v2, v3, v4}
    Shifts = {s1}
    Requests = {r1, r2, r3}
    CapacityMax <- OneSeat
    StartsAt <- Starts
    EndsAt <- Ends
    CredentialShifts = {}
    ExclusionConstraint = TRUE
    StatusUpdates = {"PUBLISHED", "CANCELLED"}
    Events = {"register", "cancel", "crash"}
    OtherReq = {}
SYMMETRY Symmetry
INVARIANTS TypeOK SeatBacked OverbookingBounded
PROPERTY InsertsWhilePublished
