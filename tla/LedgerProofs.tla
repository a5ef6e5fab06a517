---------------------------- MODULE LedgerProofs ----------------------------
(***************************************************************************)
(* Theorems about Ledger, for every number of handlers and every choice of *)
(* hours.                                                                  *)
(***************************************************************************)
EXTENDS Ledger, FiniteSetTheorems, TLAPS

\* What a handler's op says about its record.
LEMMA LedgerReqShape ==
    ASSUME NEW t \in ReqState
    PROVE  /\ t.op \in {"checkout", "find"} => t \in CheckOutReq
           /\ t.op = "save" => t \in SaveReq
           /\ t.op = "approve" => t \in ApproveReq
           /\ t.op = "adjust" => t \in AdjustReq
           /\ t.op = "idle" => t = Idle
  <1>1. CASE t = Idle
    BY <1>1 DEF Idle
  <1>2. CASE t \in CheckOutReq
    BY <1>2 DEF CheckOutReq
  <1>3. CASE t \in SaveReq
    BY <1>3 DEF SaveReq
  <1>4. CASE t \in ApproveReq
    BY <1>4 DEF ApproveReq
  <1>5. CASE t \in AdjustReq
    BY <1>5 DEF AdjustReq
  <1> QED
    BY <1>1, <1>2, <1>3, <1>4, <1>5 DEF ReqState

LEMMA HoursStayNat ==
    ASSUME NEW n \in Int
    PROVE  NotNegative(n) \in Nat
  BY DEF NotNegative

\* The steps of a handler and what each of them may be given.
LEMMA LedgerTypeStep == TypeOK /\ [Next]_vars => TypeOK'
  <1> SUFFICES ASSUME TypeOK, [Next]_vars PROVE TypeOK'
    OBVIOUS
  <1> USE DEF TypeOK, Become
  <1>1. ASSUME NEW r \in Requests, NEW hours \in GrossChoices, CheckOutRead(r, hours)
        PROVE  TypeOK'
    <2>1. [op |-> "checkout", hours |-> hours] \in ReqState
      BY HoursAreNat DEF ReqState, CheckOutReq
    <2> QED
      BY <1>1, <2>1 DEF CheckOutRead
  <1>2. ASSUME NEW r \in Requests, NEW role \in Roles, NEW action \in Actions,
               NEW credited \in CreditChoices \cup {Absent},
               NEW break \in BreakChoices \cup {Absent},
               ApproveRead(r, role, action, credited, break)
        PROVE  TypeOK'
    <2> DEFINE hours == IF break # Absent THEN NotNegative(part.gross - break)
                        ELSE credited
               t == [op |-> "approve", role |-> role, status |-> Target(action),
                     credited |-> hours, flagFrom |-> credited]
    <2>1. part.gross - break \in Int
      BY ChoicesAreHours DEF Participation, Absent
    <2>2. hours \in Nat \cup {Absent} /\ credited \in Nat \cup {Absent}
      BY <2>1, HoursStayNat, ChoicesAreHours
    <2>3. Target(action) \in Targets
      BY DEF Target, Targets, Actions
    <2>4. t \in ReqState
      BY <2>2, <2>3 DEF ReqState, ApproveReq
    <2>5. req' = [req EXCEPT ![r] = t]
      BY <1>2 DEF ApproveRead
    <2> QED
      BY <1>2, <2>4, <2>5 DEF ApproveRead
  <1>3. ASSUME NEW r \in Requests, NEW delta \in DeltaChoices, AdjustRead(r, delta)
        PROVE  TypeOK'
    <2> DEFINE e == [status |-> part.status, delta |-> delta,
                     previous |-> part.credited, new |-> Adjusted(part.credited, delta)]
    <2>1. Adjusted(part.credited, delta) \in Nat
      <3>1. part.credited + delta \in Int
        BY ChoicesAreHours DEF Participation
      <3> QED
        BY <3>1, HoursStayNat DEF Adjusted
    <2>2. e \in Adjustment
      BY <1>3, <2>1, ChoicesAreHours DEF AdjustRead, Adjustment, Participation, Final, Status
    <2>3. [op |-> "adjust", entry |-> e] \in ReqState
      BY <2>2 DEF ReqState, AdjustReq
    <2> QED
      BY <1>3, <2>3 DEF AdjustRead
  <1>4. ASSUME NEW r \in Requests, CheckOutLock(r)
        PROVE  TypeOK'
    <2>1. req[r] \in CheckOutReq
      BY <1>4, LedgerReqShape DEF CheckOutLock
    <2>2. [req[r] EXCEPT !.op = "find"] \in ReqState
      BY <2>1 DEF CheckOutReq, ReqState
    <2> QED
      BY <1>4, <2>2 DEF CheckOutLock
  <1>5. ASSUME NEW r \in Requests, CheckOutFind(r)
        PROVE  TypeOK'
    <2>1. req[r] \in CheckOutReq
      BY <1>5, LedgerReqShape DEF CheckOutFind
    <2>2. [op |-> "save", hours |-> req[r].hours, found |-> part.status] \in ReqState
      BY <2>1 DEF CheckOutReq, ReqState, SaveReq, Participation
    <2> QED
      BY <1>5, <2>2 DEF CheckOutFind
  <1>6. ASSUME NEW r \in Requests, CheckOutSave(r)
        PROVE  TypeOK'
    <2>1. req[r] \in SaveReq
      BY <1>6, LedgerReqShape DEF CheckOutSave
    <2>2. checkedOut' \in Nat /\ rows' \in Nat
      BY <1>6, <2>1 DEF CheckOutSave, SaveReq
    <2>3. Deviates(req[r].hours) \in BOOLEAN
      BY DEF Deviates
    <2>4. NoRow \in Participation
      BY DEF NoRow, Participation
    <2>5. part' \in Participation
      BY <1>6, <2>1, <2>3, <2>4 DEF CheckOutSave, SaveReq, Participation, Status
    <2> QED
      BY <1>6, <2>2, <2>5 DEF CheckOutSave, ReqState
  <1>7. ASSUME NEW r \in Requests, ApproveWrite(r)
        PROVE  TypeOK'
    <2>1. req[r] \in ApproveReq
      BY <1>7, LedgerReqShape DEF ApproveWrite
    <2>2. Deviates(req[r].flagFrom) \in BOOLEAN
      BY DEF Deviates
    <2>3. part' \in Participation
      BY <1>7, <2>1, <2>2 DEF ApproveWrite, ApproveReq, Participation, Status, Targets
    <2> QED
      BY <1>7, <2>3 DEF ApproveWrite, ReqState
  <1>8. ASSUME NEW r \in Requests, AdjustWrite(r)
        PROVE  TypeOK'
    <2>1. req[r] \in AdjustReq /\ req[r].entry \in Adjustment
      BY <1>8, LedgerReqShape DEF AdjustWrite, AdjustReq
    <2>2. part' \in Participation
      BY <1>8, <2>1 DEF AdjustWrite, Participation, Adjustment
    <2> QED
      BY <1>8, <2>1, <2>2 DEF AdjustWrite, ReqState
  <1>9. ASSUME NEW r \in Requests, Lost(r)
        PROVE  TypeOK'
    BY <1>9 DEF Lost, ReqState
  <1>10. CASE Submit
    BY <1>10 DEF Submit, Participation, Status
  <1>11. CASE UNCHANGED vars
    BY <1>11 DEF vars
  <1> QED
    BY <1>1, <1>2, <1>3, <1>4, <1>5, <1>6, <1>7, <1>8, <1>9, <1>10, <1>11
       DEF Next, Continue, Approve

\* Every variable keeps its type; in particular no adjustment makes the
\* credited hours negative, however small it is.
THEOREM LedgerTypeCorrect == Spec => []TypeOK
  <1>1. Init => TypeOK
    BY DEF Init, TypeOK, NoRow, Participation, Adjustment, ReqState
  <1> QED
    BY <1>1, LedgerTypeStep, PTL DEF Spec

-----------------------------------------------------------------------------
\* The handler that has updated the attendance and not yet committed.
Holding(r) == req[r].op \in {"find", "save"}

OneAtATime == \A r, o \in Requests : Holding(r) /\ Holding(o) => r = o
\* What the holder found is still so, as far as its own writes go.
FoundHolds ==
    \A r \in Requests : req[r].op = "save" =>
        /\ req[r].found = "NONE" <=> rows = 0
        /\ req[r].found \notin {"NONE", "DRAFT"} => part.status \notin {"NONE", "DRAFT"}
\* Only an existing record is approved or adjusted.
LateOnRecord == \A r \in Requests : req[r].op \in {"approve", "adjust"} => rows # 0
RowIsPart == rows = 0 <=> part.status = "NONE"
CheckOutInv ==
    TypeOK /\ OneAtATime /\ FoundHolds /\ LateOnRecord /\ RowIsPart
           /\ OneRecord /\ DraftMatchesAttendance

\* A step that leaves the tables alone, and lets nobody get hold of the
\* attendance or start to save, preserves the invariant.
LEMMA QuietStep ==
    ASSUME CheckOutInv, TypeOK', NEW r \in Requests,
           UNCHANGED <<checkedOut, rows, part, adjustments>>,
           \A o \in Requests \ {r} : req'[o] = req[o],
           req'[r].op \notin {"find", "save"},
           req'[r].op \in {"approve", "adjust"} => rows # 0
    PROVE  CheckOutInv'
  BY DEF CheckOutInv, OneAtATime, FoundHolds, LateOnRecord, RowIsPart,
         OneRecord, DraftMatchesAttendance, Holding

LEMMA CheckOutStep == CheckOutInv /\ [Next]_vars => CheckOutInv'
  <1> SUFFICES ASSUME CheckOutInv, [Next]_vars PROVE CheckOutInv'
    OBVIOUS
  <1>0. TypeOK /\ TypeOK'
    BY LedgerTypeStep DEF CheckOutInv
  <1>1. ASSUME NEW r \in Requests, NEW hours \in GrossChoices, CheckOutRead(r, hours)
        PROVE  CheckOutInv'
    BY <1>0, <1>1, QuietStep DEF CheckOutRead, Become, TypeOK
  <1>2. ASSUME NEW r \in Requests, NEW role \in Roles, NEW action \in Actions,
               NEW credited, NEW break, ApproveRead(r, role, action, credited, break)
        PROVE  CheckOutInv'
    <2>1. rows # 0
      BY <1>2 DEF ApproveRead, CheckOutInv, RowIsPart
    <2>2. req'[r].op = "approve" /\ \A o \in Requests \ {r} : req'[o] = req[o]
      BY <1>0, <1>2 DEF ApproveRead, Become, TypeOK
    <2> QED
      BY <1>0, <1>2, <2>1, <2>2, QuietStep DEF ApproveRead
  <1>3. ASSUME NEW r \in Requests, NEW delta \in DeltaChoices, AdjustRead(r, delta)
        PROVE  CheckOutInv'
    <2>1. rows # 0
      BY <1>3 DEF AdjustRead, CheckOutInv, RowIsPart, Final
    <2>2. req'[r].op = "adjust" /\ \A o \in Requests \ {r} : req'[o] = req[o]
      BY <1>0, <1>3 DEF AdjustRead, Become, TypeOK
    <2> QED
      BY <1>0, <1>3, <2>1, <2>2, QuietStep DEF AdjustRead
  <1>4. ASSUME NEW r \in Requests, CheckOutLock(r)
        PROVE  CheckOutInv'
    <2>1. req[r] \in CheckOutReq
      BY <1>0, <1>4, LedgerReqShape DEF CheckOutLock, TypeOK
    <2>2. req'[r].op = "find" /\ \A o \in Requests \ {r} : req'[o] = req[o]
      BY <1>0, <1>4, <2>1 DEF CheckOutLock, Become, TypeOK, CheckOutReq
    <2> QED
      BY <1>0, <1>4, <2>2 DEF CheckOutLock, CheckOutInv, OneAtATime, FoundHolds,
            LateOnRecord, RowIsPart, OneRecord, DraftMatchesAttendance, Holding
  <1>5. ASSUME NEW r \in Requests, CheckOutFind(r)
        PROVE  CheckOutInv'
    <2>1. /\ req'[r].op = "save" /\ req'[r].found = part.status
          /\ \A o \in Requests \ {r} : req'[o] = req[o]
      BY <1>0, <1>5 DEF CheckOutFind, Become, TypeOK
    <2> QED
      BY <1>0, <1>5, <2>1 DEF CheckOutFind, CheckOutInv, OneAtATime, FoundHolds,
            LateOnRecord, RowIsPart, OneRecord, DraftMatchesAttendance, Holding
  <1>6. ASSUME NEW r \in Requests, CheckOutSave(r)
        PROVE  CheckOutInv'
    <2>1. \A o \in Requests \ {r} : req'[o] = req[o] /\ req[o].op \notin {"find", "save"}
      BY <1>0, <1>6 DEF CheckOutSave, Become, TypeOK, CheckOutInv, OneAtATime, Holding
    <2>2. req'[r] = Idle
      BY <1>0, <1>6 DEF CheckOutSave, Become, TypeOK
    <2>3. rows' # 0 /\ rows' <= 1 /\ part'.status # "NONE"
          /\ (part'.status = "DRAFT" => part'.gross = checkedOut')
      <3>1. CASE req[r].found = "NONE"
        <4>1. rows = 0 /\ rows' = 1
          BY <1>6, <3>1 DEF CheckOutSave, CheckOutInv, FoundHolds
        <4>2. part'.status = "DRAFT" /\ part'.gross = checkedOut'
          BY <1>6, <3>1 DEF CheckOutSave, NoRow
        <4> QED
          BY <4>1, <4>2
      <3>2. CASE req[r].found = "DRAFT"
        <4>1. rows # 0 /\ rows' = rows
          BY <1>6, <3>2 DEF CheckOutSave, CheckOutInv, FoundHolds
        <4>2. part'.status = "DRAFT" /\ part'.gross = checkedOut'
          BY <1>0, <1>6, <3>2 DEF CheckOutSave, TypeOK, Participation
        <4> QED
          BY <4>1, <4>2 DEF CheckOutInv, OneRecord
      <3>3. CASE req[r].found \notin {"NONE", "DRAFT"}
        BY <1>6, <3>3 DEF CheckOutSave, CheckOutInv, FoundHolds, OneRecord, RowIsPart
      <3> QED
        BY <3>1, <3>2, <3>3
    <2> QED
      BY <1>0, <2>1, <2>2, <2>3 DEF CheckOutInv, OneAtATime, FoundHolds, LateOnRecord,
            RowIsPart, OneRecord, DraftMatchesAttendance, Holding, Idle
  <1>7. ASSUME NEW r \in Requests, ApproveWrite(r)
        PROVE  CheckOutInv'
    <2>1. req[r] \in ApproveReq
      BY <1>0, <1>7, LedgerReqShape DEF ApproveWrite, TypeOK
    <2>2. req'[r] = Idle /\ \A o \in Requests \ {r} : req'[o] = req[o]
      BY <1>0, <1>7 DEF ApproveWrite, Become, TypeOK
    <2>3. rows # 0 /\ rows' = rows
      BY <1>7 DEF ApproveWrite, CheckOutInv, LateOnRecord
    <2>4. part'.status \notin {"NONE", "DRAFT"}
      BY <1>0, <1>7, <2>1 DEF ApproveWrite, TypeOK, Participation, ApproveReq, Targets
    <2> QED
      BY <1>0, <2>2, <2>3, <2>4 DEF CheckOutInv, OneAtATime, FoundHolds, LateOnRecord,
            RowIsPart, OneRecord, DraftMatchesAttendance, Holding, Idle
  <1>8. ASSUME NEW r \in Requests, AdjustWrite(r)
        PROVE  CheckOutInv'
    <2>1. req'[r] = Idle /\ \A o \in Requests \ {r} : req'[o] = req[o]
      BY <1>0, <1>8 DEF AdjustWrite, Become, TypeOK
    <2>2. /\ part'.status = part.status /\ part'.gross = part.gross
          /\ UNCHANGED <<rows, checkedOut>>
      BY <1>0, <1>8 DEF AdjustWrite, TypeOK, Participation
    <2> QED
      BY <1>0, <2>1, <2>2 DEF CheckOutInv, OneAtATime, FoundHolds, LateOnRecord,
            RowIsPart, OneRecord, DraftMatchesAttendance, Holding, Idle
  <1>9. ASSUME NEW r \in Requests, Lost(r)
        PROVE  CheckOutInv'
    BY <1>0, <1>9, QuietStep DEF Lost, Become, TypeOK, Idle
  <1>10. CASE Submit
    <2>1. part'.status = "SUBMITTED" /\ UNCHANGED <<rows, req, checkedOut>>
      BY <1>0, <1>10 DEF Submit, TypeOK, Participation
    <2> QED
      BY <1>0, <1>10, <2>1 DEF Submit, CheckOutInv, OneAtATime, FoundHolds, LateOnRecord,
            RowIsPart, OneRecord, DraftMatchesAttendance, Holding
  <1>11. CASE UNCHANGED vars
    BY <1>0, <1>11 DEF vars, CheckOutInv, OneAtATime, FoundHolds, LateOnRecord,
          RowIsPart, OneRecord, DraftMatchesAttendance, Holding
  <1> QED
    BY <1>1, <1>2, <1>3, <1>4, <1>5, <1>6, <1>7, <1>8, <1>9, <1>10, <1>11
       DEF Next, Continue, Approve

LEMMA CheckOutInvHolds == Spec => []CheckOutInv
  <1>1. Init => CheckOutInv
    <2> SUFFICES ASSUME Init PROVE CheckOutInv
      OBVIOUS
    <2>1. TypeOK
      BY DEF Init, TypeOK, NoRow, Participation, Adjustment, ReqState
    <2> QED
      BY <2>1 DEF Init, CheckOutInv, OneAtATime, FoundHolds, LateOnRecord, RowIsPart,
            OneRecord, DraftMatchesAttendance, Holding, Idle, NoRow
  <1> QED
    BY <1>1, CheckOutStep, PTL DEF Spec

\* However many check-outs of one assignment run at the same time, there is
\* one record, although its table has no unique index on the assignment.
THEOREM OneRecordPerAssignment == Spec => []OneRecord
  <1>1. CheckOutInv => OneRecord
    BY DEF CheckOutInv
  <1> QED
    BY <1>1, CheckOutInvHolds, PTL

\* A draft has the hours of the check-out that was committed last.
THEOREM DraftIsCurrent == Spec => []DraftMatchesAttendance
  <1>1. CheckOutInv => DraftMatchesAttendance
    BY DEF CheckOutInv
  <1> QED
    BY <1>1, CheckOutInvHolds, PTL

-----------------------------------------------------------------------------
RoleInv ==
    /\ TypeOK
    /\ \A r \in Requests : req[r].op = "approve" /\ req[r].status \in Final
            => req[r].role = "COORDINATOR"
    /\ FinalizedByCoordinator

LEMMA RoleStep == RoleInv /\ [Next]_vars => RoleInv'
  <1> SUFFICES ASSUME RoleInv, [Next]_vars PROVE RoleInv'
    OBVIOUS
  <1>0. TypeOK /\ TypeOK'
    BY LedgerTypeStep DEF RoleInv
  <1>1. ASSUME NEW r \in Requests, UNCHANGED part, req'[r].op # "approve",
               \A o \in Requests \ {r} : req'[o] = req[o]
        PROVE  RoleInv'
    BY <1>0, <1>1 DEF RoleInv, FinalizedByCoordinator
  <1>2. ASSUME NEW r \in Requests, NEW role \in Roles, NEW action \in Actions,
               NEW credited, NEW break, ApproveRead(r, role, action, credited, break)
        PROVE  RoleInv'
    <2>1. /\ req'[r].op = "approve" /\ req'[r].role = role
          /\ req'[r].status = Target(action)
          /\ \A o \in Requests \ {r} : req'[o] = req[o]
      BY <1>0, <1>2 DEF ApproveRead, Become, TypeOK
    <2>2. Target(action) \in Final => role = "COORDINATOR"
      BY <1>2 DEF ApproveRead, May, Target, Final, Actions
    <2> QED
      BY <1>0, <1>2, <2>1, <2>2 DEF ApproveRead, RoleInv, FinalizedByCoordinator
  <1>3. ASSUME NEW r \in Requests, ApproveWrite(r)
        PROVE  RoleInv'
    <2>1. /\ part'.status = req[r].status /\ part'.approvedBy = req[r].role
          /\ req'[r] = Idle /\ \A o \in Requests \ {r} : req'[o] = req[o]
      BY <1>0, <1>3 DEF ApproveWrite, Become, TypeOK, Participation
    <2> QED
      BY <1>0, <1>3, <2>1 DEF ApproveWrite, RoleInv, FinalizedByCoordinator, Idle
  <1>4. ASSUME NEW r \in Requests, CheckOutSave(r)
        PROVE  RoleInv'
    <2>1. req'[r] = Idle /\ \A o \in Requests \ {r} : req'[o] = req[o]
      BY <1>0, <1>4 DEF CheckOutSave, Become, TypeOK
    <2>2. part'.status = "DRAFT" \/ part' = part
      BY <1>0, <1>4 DEF CheckOutSave, TypeOK, Participation, NoRow
    <2> QED
      BY <1>0, <2>1, <2>2 DEF RoleInv, FinalizedByCoordinator, Final, Idle
  <1>5. ASSUME NEW r \in Requests, AdjustWrite(r)
        PROVE  RoleInv'
    <2>1. req'[r] = Idle /\ \A o \in Requests \ {r} : req'[o] = req[o]
      BY <1>0, <1>5 DEF AdjustWrite, Become, TypeOK
    <2>2. part'.status = part.status /\ part'.approvedBy = part.approvedBy
      BY <1>0, <1>5 DEF AdjustWrite, TypeOK, Participation
    <2> QED
      BY <1>0, <2>1, <2>2 DEF RoleInv, FinalizedByCoordinator, Idle
  <1>6. ASSUME NEW r \in Requests, NEW hours \in GrossChoices, CheckOutRead(r, hours)
        PROVE  RoleInv'
    BY <1>0, <1>1, <1>6 DEF CheckOutRead, Become, TypeOK
  <1>7. ASSUME NEW r \in Requests, NEW delta \in DeltaChoices, AdjustRead(r, delta)
        PROVE  RoleInv'
    BY <1>0, <1>1, <1>7 DEF AdjustRead, Become, TypeOK
  <1>8. ASSUME NEW r \in Requests, CheckOutLock(r)
        PROVE  RoleInv'
    <2>1. req[r] \in CheckOutReq
      BY <1>0, <1>8, LedgerReqShape DEF CheckOutLock, TypeOK
    <2>2. req'[r].op = "find" /\ \A o \in Requests \ {r} : req'[o] = req[o]
      BY <1>0, <1>8, <2>1 DEF CheckOutLock, Become, TypeOK, CheckOutReq
    <2> QED
      BY <1>1, <1>8, <2>2 DEF CheckOutLock
  <1>9. ASSUME NEW r \in Requests, CheckOutFind(r)
        PROVE  RoleInv'
    BY <1>0, <1>1, <1>9 DEF CheckOutFind, Become, TypeOK
  <1>10. ASSUME NEW r \in Requests, Lost(r)
         PROVE  RoleInv'
    BY <1>0, <1>1, <1>10 DEF Lost, Become, TypeOK, Idle
  <1>11. CASE Submit
    <2>1. part'.status = "SUBMITTED" /\ UNCHANGED req
      BY <1>0, <1>11 DEF Submit, TypeOK, Participation
    <2> QED
      BY <1>0, <2>1 DEF RoleInv, FinalizedByCoordinator, Final
  <1>12. CASE UNCHANGED vars
    BY <1>0, <1>12 DEF vars, RoleInv, FinalizedByCoordinator
  <1> QED
    BY <1>2, <1>3, <1>4, <1>5, <1>6, <1>7, <1>8, <1>9, <1>10, <1>11, <1>12
       DEF Next, Continue, Approve

\* Nobody but a coordinator makes a record FINALIZED or LOCKED, however late
\* the decisions of others are written.
THEOREM OnlyCoordinatorsFinalize == Spec => []FinalizedByCoordinator
  <1>1. Init => RoleInv
    <2> SUFFICES ASSUME Init PROVE RoleInv
      OBVIOUS
    <2>1. TypeOK
      BY DEF Init, TypeOK, NoRow, Participation, Adjustment, ReqState
    <2> QED
      BY <2>1 DEF Init, RoleInv, FinalizedByCoordinator, NoRow, Final, Idle
  <1>2. RoleInv => FinalizedByCoordinator
    BY DEF RoleInv
  <1> QED
    BY <1>1, <1>2, RoleStep, PTL DEF Spec

-----------------------------------------------------------------------------
LEMMA FinalTransitions ==
    /\ STATE_TRANSITIONS["FINALIZED"] = {"LOCKED"}
    /\ STATE_TRANSITIONS["LOCKED"] = {}
  BY DEF STATE_TRANSITIONS, Status

\* What a step does to a record in one of the kept states, or in both, while
\* nothing under way takes it out of them.
Stays(kept) == part'.status \in kept /\ Settled(kept)'

\* A step that leaves the record alone and starts nothing that could take it out.
LEMMA KeptQuietly ==
    ASSUME NEW kept, part.status \in kept, Settled(kept), UNCHANGED part,
           NEW r \in Requests, \A o \in Requests \ {r} : req'[o] = req[o],
           req'[r].op = "approve" => req'[r].status \in kept,
           req'[r].op = "save" => req'[r].found \notin {"NONE", "DRAFT"}
    PROVE  Stays(kept)
  BY DEF Stays, Settled

LEMMA KeptStep ==
    ASSUME TypeOK, [Next]_vars, NEW kept \in {Final, {"LOCKED"}},
           part.status \in kept, Settled(kept)
    PROVE  Stays(kept)
  <1>0. part.status \in Final
    BY DEF Final
  <1>1. ASSUME NEW r \in Requests, NEW hours \in GrossChoices, CheckOutRead(r, hours)
        PROVE  Stays(kept)
    BY <1>1, KeptQuietly DEF CheckOutRead, Become, TypeOK
  <1>2. ASSUME NEW r \in Requests, NEW role \in Roles, NEW action \in Actions,
               NEW credited, NEW break, ApproveRead(r, role, action, credited, break)
        PROVE  Stays(kept)
    <2>1. /\ req'[r].op = "approve" /\ req'[r].status = Target(action)
          /\ \A o \in Requests \ {r} : req'[o] = req[o]
      BY <1>2 DEF ApproveRead, Become, TypeOK
    \* A locked record accepts no decision, a finalized one LOCK.
    <2>2. part.status = "FINALIZED" /\ Target(action) = "LOCKED"
      BY <1>0, <1>2, FinalTransitions DEF ApproveRead, Final
    <2>3. Target(action) \in kept
      BY <2>2 DEF Final
    <2> QED
      BY <1>2, <2>1, <2>3, KeptQuietly DEF ApproveRead
  <1>3. ASSUME NEW r \in Requests, NEW delta \in DeltaChoices, AdjustRead(r, delta)
        PROVE  Stays(kept)
    BY <1>3, KeptQuietly DEF AdjustRead, Become, TypeOK
  <1>4. ASSUME NEW r \in Requests, CheckOutLock(r)
        PROVE  Stays(kept)
    <2>1. req[r] \in CheckOutReq
      BY <1>4, LedgerReqShape DEF CheckOutLock, TypeOK
    <2>2. req'[r].op = "find" /\ \A o \in Requests \ {r} : req'[o] = req[o]
      BY <1>4, <2>1 DEF CheckOutLock, Become, TypeOK, CheckOutReq
    <2> QED
      BY <1>4, <2>2, KeptQuietly DEF CheckOutLock
  <1>5. ASSUME NEW r \in Requests, CheckOutFind(r)
        PROVE  Stays(kept)
    <2>1. /\ req'[r].op = "save" /\ req'[r].found = part.status
          /\ \A o \in Requests \ {r} : req'[o] = req[o]
      BY <1>5 DEF CheckOutFind, Become, TypeOK
    <2>2. part.status \notin {"NONE", "DRAFT"}
      BY <1>0 DEF Final
    <2> QED
      BY <1>5, <2>1, <2>2, KeptQuietly DEF CheckOutFind
  <1>6. ASSUME NEW r \in Requests, CheckOutSave(r)
        PROVE  Stays(kept)
    <2>1. req[r].found \notin {"NONE", "DRAFT"}
      BY <1>6 DEF CheckOutSave, Settled
    <2>2. UNCHANGED part
      BY <1>6, <2>1 DEF CheckOutSave
    <2> QED
      BY <1>6, <2>2, KeptQuietly DEF CheckOutSave, Become, TypeOK, Idle
  <1>7. ASSUME NEW r \in Requests, ApproveWrite(r)
        PROVE  Stays(kept)
    <2>1. /\ part'.status = req[r].status /\ req'[r] = Idle
          /\ \A o \in Requests \ {r} : req'[o] = req[o]
      BY <1>7 DEF ApproveWrite, Become, TypeOK, Participation
    <2>2. part'.status \in kept
      BY <1>7, <2>1 DEF ApproveWrite, Settled
    <2> QED
      BY <2>1, <2>2 DEF Stays, Settled, Idle
  <1>8. ASSUME NEW r \in Requests, AdjustWrite(r)
        PROVE  Stays(kept)
    <2>1. /\ part'.status = part.status /\ req'[r] = Idle
          /\ \A o \in Requests \ {r} : req'[o] = req[o]
      BY <1>8 DEF AdjustWrite, Become, TypeOK, Participation
    <2> QED
      BY <2>1 DEF Stays, Settled, Idle
  <1>9. ASSUME NEW r \in Requests, Lost(r)
        PROVE  Stays(kept)
    BY <1>9, KeptQuietly DEF Lost, Become, TypeOK, Idle
  <1>10. CASE Submit
    BY <1>0, <1>10 DEF Submit, Final
  <1>11. CASE UNCHANGED vars
    BY <1>11 DEF vars, Stays, Settled
  <1> QED
    BY <1>1, <1>2, <1>3, <1>4, <1>5, <1>6, <1>7, <1>8, <1>9, <1>10, <1>11
       DEF Next, Continue, Approve

\* However many handlers there are, no decision begun on a final record takes
\* it back, and no check-out begun then touches it: once those that were
\* begun before have ended, a final record stays final, a locked one locked.
THEOREM FinalIsKept == Spec => FinalForGood
  <1>1. TypeOK /\ [Next]_vars =>
            [\A kept \in {Final, {"LOCKED"}} :
                part.status \in kept /\ Settled(kept) =>
                    part'.status \in kept /\ Settled(kept)']_vars
    BY KeptStep DEF Stays
  <1> QED
    BY <1>1, LedgerTypeCorrect, PTL DEF Spec, FinalForGood

\* The hours of a locked record, of which no older decision is under way, are
\* written by adjustments only, and each of them leaves its entry.
LEMMA LockedHoursStep ==
    ASSUME TypeOK, [Next]_vars, part.status = "LOCKED", Settled({}),
           part'.credited # part.credited
    PROVE  \E entry \in NewEntries : Entered(entry)
  <1>1. ASSUME NEW r \in Requests, CheckOutSave(r)
        PROVE  FALSE
    <2>1. req[r].found \notin {"NONE", "DRAFT"}
      BY <1>1 DEF CheckOutSave, Settled
    <2> QED
      BY <1>1, <2>1 DEF CheckOutSave
  <1>2. ASSUME NEW r \in Requests, ApproveWrite(r)
        PROVE  FALSE
    BY <1>2 DEF ApproveWrite, Settled
  <1>3. CASE Submit
    BY <1>3 DEF Submit
  <1>4. ASSUME NEW r \in Requests, AdjustWrite(r)
        PROVE  \E entry \in NewEntries : Entered(entry)
    <2> DEFINE e == req[r].entry
    <2>1. e \in Adjustment
      BY <1>4, LedgerReqShape DEF AdjustWrite, AdjustReq, TypeOK
    <2>2. adjustments' = Append(adjustments, e) /\ part'.credited = e.new
      BY <1>4 DEF AdjustWrite, TypeOK, Participation
    <2>3. e \in NewEntries
      <3> HIDE DEF e
      <3>1. /\ Len(adjustments) + 1 \in DOMAIN adjustments'
            /\ adjustments'[Len(adjustments) + 1] = e
        BY <2>1, <2>2 DEF TypeOK
      <3> QED
        BY <3>1 DEF NewEntries
    <2> QED
      BY <2>2, <2>3 DEF Entered
  <1> QED
    BY <1>1, <1>2, <1>3, <1>4
       DEF Next, Continue, Approve, vars, CheckOutRead, CheckOutLock, CheckOutFind,
           ApproveRead, AdjustRead, Lost

\* Once a record is locked and what was begun before has ended, no change of
\* its hours goes unentered, however many adjustments overlap and whatever is
\* asked for meanwhile.
THEOREM LockedHoursAreEntered == Spec => LockedHoursEntered
  <1>1. TypeOK /\ [Next]_vars =>
            [/\ part.status = "LOCKED" /\ Settled({})
             /\ part'.credited # part.credited
             => \E entry \in NewEntries : Entered(entry)]_vars
    BY LockedHoursStep
  <1> QED
    BY <1>1, LedgerTypeCorrect, PTL DEF Spec, LockedHoursEntered

-----------------------------------------------------------------------------
\* With one handler at a time, what it has read still holds when it writes.
ReadHolds ==
    \A r \in Requests :
        /\ req[r].op = "approve" =>
            /\ part.status \in Status \ {"DRAFT"}
            /\ req[r].status \in STATE_TRANSITIONS[part.status]
        /\ req[r].op = "adjust" =>
            /\ part.status \in Final
            /\ req[r].entry.status = part.status
            /\ req[r].entry.previous = part.credited
        /\ req[r].op = "save" /\ part.status \in Final =>
            req[r].found \notin {"NONE", "DRAFT"}
SerialInv == TypeOK /\ ReadHolds

\* What the steps of a handler do to a final record, given the invariant.
SerialSafe ==
    /\ part.status \in Final => part'.status \in Final
    /\ part.status = "LOCKED" => part'.status = "LOCKED"

LEMMA SerialStep ==
    ASSUME Cardinality(Requests) = 1, SerialInv, [Next]_vars
    PROVE  SerialInv' /\ SerialSafe
  <1>0. TypeOK /\ TypeOK'
    BY LedgerTypeStep DEF SerialInv
  <1>one. ASSUME NEW r \in Requests, NEW o \in Requests
          PROVE  r = o
    BY FiniteRequests, FS_Singleton
  <1>1. ASSUME NEW r \in Requests, UNCHANGED <<part, adjustments>>,
               req'[r].op \notin {"approve", "adjust", "save"}
        PROVE  SerialInv' /\ SerialSafe
    <2>1. ReadHolds'
      BY <1>1, <1>one DEF ReadHolds
    <2> QED
      BY <1>0, <1>1, <2>1 DEF SerialInv, SerialSafe
  <1>2. ASSUME NEW r \in Requests, NEW role \in Roles, NEW action \in Actions,
               NEW credited, NEW break, ApproveRead(r, role, action, credited, break)
        PROVE  SerialInv' /\ SerialSafe
    <2>1. /\ req'[r].op = "approve" /\ req'[r].status = Target(action)
          /\ UNCHANGED <<part, adjustments>>
      BY <1>0, <1>2 DEF ApproveRead, Become, TypeOK
    <2>2. /\ part.status \in Status \ {"DRAFT"}
          /\ Target(action) \in STATE_TRANSITIONS[part.status]
      <3>1. part.status \in Status /\ Target(action) \in STATE_TRANSITIONS[part.status]
        BY <1>0, <1>2 DEF ApproveRead, TypeOK, Participation
      <3>2. Target(action) # "SUBMITTED"
        BY DEF Target
      <3>3. STATE_TRANSITIONS["DRAFT"] = {"SUBMITTED"}
        BY DEF STATE_TRANSITIONS, Status
      <3> QED
        BY <3>1, <3>2, <3>3
    <2>3. ReadHolds'
      BY <1>one, <2>1, <2>2 DEF ReadHolds
    <2> QED
      BY <1>0, <2>1, <2>3 DEF SerialInv, SerialSafe
  <1>3. ASSUME NEW r \in Requests, NEW delta \in DeltaChoices, AdjustRead(r, delta)
        PROVE  SerialInv' /\ SerialSafe
    <2>1. /\ req'[r].op = "adjust" /\ UNCHANGED <<part, adjustments>>
          /\ req'[r].entry.status = part.status
          /\ req'[r].entry.previous = part.credited
      BY <1>0, <1>3 DEF AdjustRead, Become, TypeOK
    <2>2. ReadHolds'
      BY <1>3, <1>one, <2>1 DEF AdjustRead, ReadHolds
    <2> QED
      BY <1>0, <2>1, <2>2 DEF SerialInv, SerialSafe
  <1>4. ASSUME NEW r \in Requests, CheckOutFind(r)
        PROVE  SerialInv' /\ SerialSafe
    <2>1. /\ req'[r].op = "save" /\ req'[r].found = part.status
          /\ UNCHANGED <<part, adjustments>>
      BY <1>0, <1>4 DEF CheckOutFind, Become, TypeOK
    <2>2. ReadHolds'
      BY <1>one, <2>1 DEF ReadHolds, Final
    <2> QED
      BY <1>0, <2>1, <2>2 DEF SerialInv, SerialSafe
  <1>5. ASSUME NEW r \in Requests, CheckOutSave(r)
        PROVE  SerialInv' /\ SerialSafe
    <2>1. req'[r] = Idle /\ UNCHANGED adjustments
      BY <1>0, <1>5 DEF CheckOutSave, Become, TypeOK
    <2>2. ReadHolds'
      BY <1>one, <2>1 DEF ReadHolds, Idle
    <2>3. part.status \in Final => part' = part
      BY <1>5 DEF CheckOutSave, SerialInv, ReadHolds
    <2> QED
      BY <1>0, <2>2, <2>3 DEF SerialInv, SerialSafe, Final
  <1>6. ASSUME NEW r \in Requests, ApproveWrite(r)
        PROVE  SerialInv' /\ SerialSafe
    <2>1. /\ req'[r] = Idle /\ UNCHANGED adjustments
          /\ part'.status = req[r].status
      BY <1>0, <1>6 DEF ApproveWrite, Become, TypeOK, Participation
    <2>2. part'.status \in STATE_TRANSITIONS[part.status]
      BY <1>6, <2>1 DEF ApproveWrite, SerialInv, ReadHolds
    <2>3. part.status \in Final => part.status = "FINALIZED" /\ part'.status = "LOCKED"
      BY <2>2, FinalTransitions DEF Final
    <2>4. ReadHolds'
      BY <1>one, <2>1 DEF ReadHolds, Idle
    <2> QED
      BY <1>0, <2>3, <2>4 DEF SerialInv, SerialSafe, Final
  <1>7. ASSUME NEW r \in Requests, AdjustWrite(r)
        PROVE  SerialInv' /\ SerialSafe
    <2>1. req'[r] = Idle /\ part'.status = part.status
      BY <1>0, <1>7 DEF AdjustWrite, Become, TypeOK, Participation
    <2>2. ReadHolds'
      BY <1>one, <2>1 DEF ReadHolds, Idle
    <2> QED
      BY <1>0, <2>1, <2>2 DEF SerialInv, SerialSafe
  <1>8. ASSUME NEW r \in Requests, NEW hours \in GrossChoices, CheckOutRead(r, hours)
        PROVE  SerialInv' /\ SerialSafe
    BY <1>0, <1>1, <1>8 DEF CheckOutRead, Become, TypeOK
  <1>9. ASSUME NEW r \in Requests, CheckOutLock(r)
        PROVE  SerialInv' /\ SerialSafe
    <2>1. req[r] \in CheckOutReq
      BY <1>0, <1>9, LedgerReqShape DEF CheckOutLock, TypeOK
    <2>2. req'[r].op = "find"
      BY <1>0, <1>9, <2>1 DEF CheckOutLock, Become, TypeOK, CheckOutReq
    <2> QED
      BY <1>1, <1>9, <2>2 DEF CheckOutLock
  <1>10. ASSUME NEW r \in Requests, Lost(r)
         PROVE  SerialInv' /\ SerialSafe
    BY <1>0, <1>1, <1>10 DEF Lost, Become, TypeOK, Idle
  <1>11. CASE Submit
    <2>1. part.status = "DRAFT" /\ part'.status = "SUBMITTED"
          /\ UNCHANGED <<req, adjustments>>
      BY <1>0, <1>11 DEF Submit, TypeOK, Participation
    <2>2. ReadHolds'
      BY <2>1 DEF SerialInv, ReadHolds, Final
    <2> QED
      BY <1>0, <2>1, <2>2 DEF SerialInv, SerialSafe, Final
  <1>12. CASE UNCHANGED vars
    BY <1>0, <1>12 DEF vars, SerialInv, ReadHolds, SerialSafe
  <1> QED
    BY <1>2, <1>3, <1>4, <1>5, <1>6, <1>7, <1>8, <1>9, <1>10, <1>11, <1>12
       DEF Next, Continue, Approve

LEMMA SerialInvHolds == Cardinality(Requests) = 1 => (Spec => []SerialInv)
  <1> SUFFICES ASSUME Cardinality(Requests) = 1 PROVE Spec => []SerialInv
    OBVIOUS
  <1>1. Init => SerialInv
    <2> SUFFICES ASSUME Init PROVE SerialInv
      OBVIOUS
    <2>1. TypeOK
      BY DEF Init, TypeOK, NoRow, Participation, Adjustment, ReqState
    <2> QED
      BY <2>1 DEF Init, SerialInv, ReadHolds, Idle
  <1>2. SerialInv /\ [Next]_vars => SerialInv'
    BY SerialStep
  <1> QED
    BY <1>1, <1>2, PTL DEF Spec

\* With one request at a time a final record is never reopened.
THEOREM SerialFinality ==
    Cardinality(Requests) = 1 => (Spec => FinalNeverReopened)
  <1> SUFFICES ASSUME Cardinality(Requests) = 1 PROVE Spec => FinalNeverReopened
    OBVIOUS
  <1>1. SerialInv /\ [Next]_vars =>
            [/\ part.status \in Final => part'.status \in Final
             /\ part.status = "LOCKED" => part'.status = "LOCKED"]_vars
    BY SerialStep DEF SerialSafe
  <1> QED
    BY <1>1, SerialInvHolds, PTL DEF Spec, FinalNeverReopened

-----------------------------------------------------------------------------
\* There is a record exactly when the attendance is checked out; a check-out
\* under way comes before both, and a correction adds what was asked for.
PageInv ==
    /\ checkedOut = Absent <=> part.status = "NONE"
    /\ part.status = "NONE" => part.approvedBy = "NONE"
    /\ \A r \in Requests :
        /\ req[r].op \in {"checkout", "find", "save"} =>
            checkedOut = Absent /\ req[r].hours \in GrossChoices
        /\ req[r].op = "save" => req[r].found = "NONE"
        /\ req[r].op = "adjust" =>
            /\ req[r].entry.delta \in DeltaChoices
            /\ req[r].entry.new = Adjusted(req[r].entry.previous, req[r].entry.delta)
AtomicInv == SerialInv /\ RoleInv /\ PageInv

\* A step that leaves the record alone does not turn the page.
LEMMA PageUnturned ==
    ASSUME UNCHANGED <<part, adjustments>>
    PROVE  UNCHANGED Book!pageVars
  BY DEF Book!pageVars

\* Every step turns the page as HoursBook allows, or not at all.
LEMMA PageStep ==
    ASSUME Cardinality(Requests) = 1, AtomicInv, [Next]_vars
    PROVE  PageInv' /\ [Book!Next]_(Book!pageVars)
  <1>0. TypeOK /\ TypeOK'
    BY LedgerTypeStep DEF AtomicInv, SerialInv
  <1>one. ASSUME NEW r \in Requests, NEW o \in Requests
          PROVE  r = o
    BY FiniteRequests, FS_Singleton
  <1>1. ASSUME NEW r \in Requests, req'[r] = Idle, UNCHANGED <<checkedOut, part>>
        PROVE  PageInv'
    BY <1>1, <1>one DEF AtomicInv, PageInv, Idle
  <1>2. ASSUME NEW r \in Requests, NEW hours \in GrossChoices, CheckOutRead(r, hours)
        PROVE  PageInv' /\ [Book!Next]_(Book!pageVars)
    <2>1. req'[r] = [op |-> "checkout", hours |-> hours]
      BY <1>0, <1>2 DEF CheckOutRead, Become, TypeOK
    <2>2. PageInv'
      BY <1>2, <1>one, <2>1 DEF CheckOutRead, AtomicInv, PageInv
    <2> QED
      BY <1>2, <2>2, PageUnturned DEF CheckOutRead
  <1>3. ASSUME NEW r \in Requests, CheckOutLock(r)
        PROVE  PageInv' /\ [Book!Next]_(Book!pageVars)
    <2>1. req[r] \in CheckOutReq
      BY <1>0, <1>3, LedgerReqShape DEF CheckOutLock, TypeOK
    <2>2. req'[r].op = "find" /\ req'[r].hours = req[r].hours
      BY <1>0, <1>3, <2>1 DEF CheckOutLock, Become, TypeOK, CheckOutReq
    <2>3. PageInv'
      BY <1>3, <1>one, <2>2 DEF CheckOutLock, AtomicInv, PageInv
    <2> QED
      BY <1>3, <2>3, PageUnturned DEF CheckOutLock
  <1>4. ASSUME NEW r \in Requests, CheckOutFind(r)
        PROVE  PageInv' /\ [Book!Next]_(Book!pageVars)
    <2>1. req'[r] = [op |-> "save", hours |-> req[r].hours, found |-> part.status]
      BY <1>0, <1>4 DEF CheckOutFind, Become, TypeOK
    <2>2. PageInv'
      BY <1>4, <1>one, <2>1 DEF CheckOutFind, AtomicInv, PageInv
    <2> QED
      BY <1>4, <2>2, PageUnturned DEF CheckOutFind
  <1>5. ASSUME NEW r \in Requests, CheckOutSave(r)
        PROVE  PageInv' /\ [Book!Next]_(Book!pageVars)
    <2>1. /\ part.status = "NONE" /\ req[r].found = "NONE"
          /\ req[r].hours \in GrossChoices
      BY <1>5 DEF CheckOutSave, AtomicInv, PageInv
    <2>2. /\ part'.status = "DRAFT" /\ part'.credited = req[r].hours
          /\ part'.approvedBy = "NONE" /\ UNCHANGED adjustments
          /\ checkedOut' = req[r].hours /\ req'[r] = Idle
      BY <1>0, <1>5, <2>1 DEF CheckOutSave, NoRow, Become, TypeOK
    <2>3. checkedOut' # Absent
      BY <2>1, <2>2, HoursAreNat DEF Absent
    <2>4. PageInv'
      BY <1>one, <2>2, <2>3 DEF PageInv, Idle
    <2>5. part.approvedBy = "NONE"
      BY <2>1 DEF AtomicInv, PageInv
    <2>6. Book!Draft
      BY <2>1, <2>2, <2>5 DEF Book!Draft
    <2> QED
      BY <2>4, <2>6 DEF Book!Next
  <1>6. CASE Submit
    <2>1. /\ part.status = "DRAFT" /\ part'.status = "SUBMITTED"
          /\ part'.credited = part.credited /\ part'.approvedBy = part.approvedBy
          /\ UNCHANGED <<checkedOut, adjustments, req>>
      BY <1>0, <1>6 DEF Submit, TypeOK, Participation
    <2>2. PageInv'
      BY <2>1 DEF AtomicInv, PageInv
    <2>3. Book!HandIn
      BY <2>1 DEF Book!HandIn
    <2> QED
      BY <2>2, <2>3 DEF Book!Next
  <1>7. ASSUME NEW r \in Requests, NEW role \in Roles, NEW action \in Actions,
               NEW credited, NEW break, ApproveRead(r, role, action, credited, break)
        PROVE  PageInv' /\ [Book!Next]_(Book!pageVars)
    <2>1. req'[r].op = "approve"
      BY <1>0, <1>7 DEF ApproveRead, Become, TypeOK
    <2>2. PageInv'
      BY <1>7, <1>one, <2>1 DEF ApproveRead, AtomicInv, PageInv
    <2> QED
      BY <1>7, <2>2, PageUnturned DEF ApproveRead
  <1>8. ASSUME NEW r \in Requests, ApproveWrite(r)
        PROVE  PageInv' /\ [Book!Next]_(Book!pageVars)
    <2>1. req[r] \in ApproveReq
      BY <1>0, <1>8, LedgerReqShape DEF ApproveWrite, TypeOK
    <2>2. /\ part'.status = req[r].status /\ part'.approvedBy = req[r].role
          /\ part'.credited \in Nat
          /\ req'[r] = Idle /\ UNCHANGED <<checkedOut, adjustments>>
      BY <1>0, <1>8 DEF ApproveWrite, Become, TypeOK, Participation
    <2>3. /\ part.status \in Status \ {"DRAFT"}
          /\ req[r].status \in STATE_TRANSITIONS[part.status] \cap Targets
      BY <1>8, <2>1 DEF ApproveWrite, AtomicInv, SerialInv, ReadHolds, ApproveReq
    <2>4. PageInv'
      BY <1>one, <2>1, <2>2, <2>3 DEF AtomicInv, PageInv, Idle, Status, Targets
    <2>5. req[r].role \in Book!Staff
      BY <2>1 DEF ApproveReq, Roles, Book!Staff
    <2>6. req[r].status \in Final => req[r].role = "COORDINATOR"
      BY <1>8 DEF ApproveWrite, AtomicInv, RoleInv
    <2>7. CASE req[r].status = "SUPERVISOR_APPROVED"
      <3>1. part.status \in {"SUBMITTED", "DISPUTED"}
        BY <2>3, <2>7 DEF STATE_TRANSITIONS, Status
      <3>2. Book!Approve
        BY <2>2, <2>5, <2>7, <3>1 DEF Book!Approve, Book!Decide
      <3> QED
        BY <2>4, <3>2 DEF Book!Next
    <2>8. CASE req[r].status = "DISPUTED"
      <3>1. part.status \in {"SUBMITTED", "SUPERVISOR_APPROVED"}
        BY <2>3, <2>8 DEF STATE_TRANSITIONS, Status
      <3>2. Book!Dispute
        BY <2>2, <2>5, <2>8, <3>1 DEF Book!Dispute, Book!Decide
      <3> QED
        BY <2>4, <3>2 DEF Book!Next
    <2>9. CASE req[r].status = "FINALIZED"
      <3>1. part.status = "SUPERVISOR_APPROVED"
        BY <2>3, <2>9 DEF STATE_TRANSITIONS, Status
      <3>2. Book!Finalize
        BY <2>2, <2>6, <2>9, <3>1 DEF Final, Book!Finalize, Book!Decide
      <3> QED
        BY <2>4, <3>2 DEF Book!Next
    <2>10. CASE req[r].status = "LOCKED"
      <3>1. part.status = "FINALIZED"
        BY <2>3, <2>10 DEF STATE_TRANSITIONS, Status
      <3>2. Book!Lock
        BY <2>2, <2>6, <2>10, <3>1 DEF Final, Book!Lock, Book!Decide
      <3> QED
        BY <2>4, <3>2 DEF Book!Next
    <2> QED
      BY <2>3, <2>7, <2>8, <2>9, <2>10 DEF Targets
  <1>9. ASSUME NEW r \in Requests, NEW delta \in DeltaChoices, AdjustRead(r, delta)
        PROVE  PageInv' /\ [Book!Next]_(Book!pageVars)
    <2>1. /\ req'[r].op = "adjust" /\ req'[r].entry.delta = delta
          /\ req'[r].entry.previous = part.credited
          /\ req'[r].entry.new = Adjusted(part.credited, delta)
      BY <1>0, <1>9 DEF AdjustRead, Become, TypeOK
    <2>2. PageInv'
      BY <1>9, <1>one, <2>1 DEF AdjustRead, AtomicInv, PageInv
    <2> QED
      BY <1>9, <2>2, PageUnturned DEF AdjustRead
  <1>10. ASSUME NEW r \in Requests, AdjustWrite(r)
         PROVE  PageInv' /\ [Book!Next]_(Book!pageVars)
    <2> DEFINE e == req[r].entry
    <2>1. e \in Adjustment
      BY <1>0, <1>10, LedgerReqShape DEF AdjustWrite, AdjustReq, TypeOK
    <2>2. /\ req'[r] = Idle /\ adjustments' = Append(adjustments, e)
          /\ UNCHANGED checkedOut
          /\ part'.status = part.status /\ part'.approvedBy = part.approvedBy
          /\ part'.credited = e.new
      BY <1>0, <1>10 DEF AdjustWrite, Become, TypeOK, Participation
    <2>3. part.status \in Final /\ e.status = part.status /\ e.previous = part.credited
      BY <1>10 DEF AdjustWrite, AtomicInv, SerialInv, ReadHolds
    <2>4. e.delta \in DeltaChoices /\ e.new = Adjusted(part.credited, e.delta)
      BY <1>10, <2>3 DEF AdjustWrite, AtomicInv, PageInv
    <2>5. PageInv'
      BY <1>one, <2>2 DEF AtomicInv, PageInv, Idle
    <2>6. e = [status |-> part.status, delta |-> e.delta,
               previous |-> part.credited, new |-> part'.credited]
      BY <2>1, <2>2, <2>3 DEF Adjustment
    <2>7. Book!Correct(e.delta)
      <3>1. part'.credited = IF part.credited + e.delta < 0 THEN 0 ELSE part.credited + e.delta
        BY <2>2, <2>4 DEF Adjusted, NotNegative
      <3> HIDE DEF e
      <3> QED
        BY <2>2, <2>3, <2>6, <3>1 DEF Final, Book!Correct
    <2> QED
      BY <2>4, <2>5, <2>7 DEF Book!Next
  <1>11. ASSUME NEW r \in Requests, Lost(r)
         PROVE  PageInv' /\ [Book!Next]_(Book!pageVars)
    BY <1>0, <1>1, <1>11, PageUnturned DEF Lost, Become, TypeOK
  <1>12. CASE UNCHANGED vars
    BY <1>12, PageUnturned DEF vars, AtomicInv, PageInv
  <1> QED
    BY <1>2, <1>3, <1>4, <1>5, <1>6, <1>7, <1>8, <1>9, <1>10, <1>11, <1>12
       DEF Next, Continue, Approve

\* With one request at a time every check-out, decision and correction is one
\* indivisible step on the record as it is: Ledger implements HoursBook,
\* although no decision is a transaction and no read is locked.
THEOREM SerialDecisionsAreAtomic ==
    Cardinality(Requests) = 1 => (Spec => DecisionsAreAtomic)
  <1> SUFFICES ASSUME Cardinality(Requests) = 1 PROVE Spec => DecisionsAreAtomic
    OBVIOUS
  <1>1. Init => RoleInv /\ PageInv /\ Book!Init
    <2> SUFFICES ASSUME Init PROVE RoleInv /\ PageInv /\ Book!Init
      OBVIOUS
    <2>1. TypeOK
      BY DEF Init, TypeOK, NoRow, Participation, Adjustment, ReqState
    <2>2. RoleInv
      BY <2>1 DEF Init, RoleInv, FinalizedByCoordinator, NoRow, Final, Idle
    <2>3. PageInv
      BY DEF Init, PageInv, NoRow, Idle
    <2>4. Book!Init
      BY DEF Init, NoRow, Book!Init
    <2> QED
      BY <2>2, <2>3, <2>4
  <1>2. AtomicInv /\ [Next]_vars => RoleInv' /\ PageInv' /\ [Book!Next]_(Book!pageVars)
    BY PageStep, RoleStep DEF AtomicInv
  <1>3. SerialInv /\ RoleInv /\ PageInv => AtomicInv
    BY DEF AtomicInv
  <1> QED
    BY <1>1, <1>2, <1>3, SerialInvHolds, PTL DEF Spec, Book!Spec, DecisionsAreAtomic

=============================================================================
