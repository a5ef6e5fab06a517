SPECIFICATION Spec
CONSTANTS
    Requests = {r1, r2}
    Scheduled <- TwoHours
    GrossChoices = {7}
    CreditChoices = {}
    BreakChoices = {}
    DeltaChoices <- Minus
    MaxAdjustments = 0
    Events = {"submit"}
PROPERTY FinalNeverReopened
\* A locked record with all its adjustments made (or a draft nobody can submit) is left alone.
CHECK_DEADLOCK FALSE
