SPECIFICATION Spec
CONSTANTS
    Requests = {r1}
    Scheduled <- TwoHours
    GrossChoices = {7}
    CreditChoices = {6}
    BreakChoices = {}
    DeltaChoices <- Minus
    MaxAdjustments = 1
    Events = {"submit", "adjust"}
PROPERTY CorrectionsRecorded
\* A locked record with all its adjustments made (or a draft nobody can submit) is left alone.
CHECK_DEADLOCK FALSE
