SPECIFICATION FairSpec
CONSTANTS
    Requests = {r1, r2}
    Scheduled <- TwoHours
    GrossChoices = {6, 7}
    CreditChoices = {8}
    BreakChoices = {9}
    DeltaChoices <- Minus
    MaxAdjustments = 1
    Events = {"submit", "adjust", "crash"}
INVARIANTS TypeOK OneRecord DraftMatchesAttendance FinalizedByCoordinator
PROPERTIES FinalForGood LockedHoursEntered HandlersFinish
\* A locked record is left alone.
CHECK_DEADLOCK FALSE
