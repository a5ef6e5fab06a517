--------------------------- MODULE AttendanceProofs ---------------------------
(***************************************************************************)
(* Theorems about Attendance, for every set of volunteers, shifts,         *)
(* handlers and tokens, every capacity, every timetable and whatever       *)
(* methods of checking in are in use.                                      *)
(***************************************************************************)
EXTENDS Attendance, SchedulingProofs

\* What a handler's op says about its record.
LEMMA ArrivalShape ==
    ASSUME NEW t \in ReqState
    PROVE  /\ t.op = "scanned" => t \in ScannedReq
           /\ t.op \in {"attend", "walkin", "checkout"} => t \in ArrivalReq
           /\ t.op = "checkin" => t \in CheckInReq
  BY ArrivalRequests DEF ReqState, IdleReq, Idle, RegisterReq, CancelReq, PromoteReq,
     PickedReq, ScannedReq, ArrivalReq, CheckInReq

\* The steps of AttNext one by one, for the lemmas that go through them.
LEMMA AttSteps ==
    ASSUME [AttNext]_allVars
    PROVE  \/ [Next]_vars /\ UNCHANGED attVars
           \/ \E r \in Requests, v \in Volunteers, s \in Shifts :
                 CheckInRead(r, v, s) \/ WalkInRead(r, v, s) \/ CheckOutRead(r, v, s)
           \/ \E r \in Requests : CheckInScanned(r)
           \/ \E r \in Requests : CheckInWrite(r) \/ WalkInAttend(r)
                                    \/ WalkInWrite(r) \/ CheckOutWrite(r)
           \/ \E r \in Requests, t \in Tokens : ConsumeQrToken(r, t)
           \/ \E t \in Tokens : \/ \E v \in Volunteers, s \in Shifts : IssueQrToken(t, v, s)
                                \/ ExpireToken(t)
  BY DEF AttNext, AttContinue, allVars

-----------------------------------------------------------------------------
\* What the writes do to a row, and that they touch no other.
LEMMA CheckInWriteRow ==
    ASSUME AttTypeOK, NEW r \in Requests, CheckInWrite(r),
           NEW v \in Volunteers, NEW s \in Shifts
    PROVE  /\ reg'[<<v, s>>] = reg[<<v, s>>]
           /\ \/ asg'[<<v, s>>] = asg[<<v, s>>] /\ att'[<<v, s>>] = att[<<v, s>>]
              \/ /\ v = req[r].v /\ s = req[r].s /\ att[<<v, s>>] = "NONE"
                 /\ \/ att'[<<v, s>>] = "OFFLINE_CONFLICT" /\ asg'[<<v, s>>] = asg[<<v, s>>]
                    \/ /\ att'[<<v, s>>] = "CHECKED_IN" /\ asg'[<<v, s>>] = "CHECKED_IN"
                       /\ CanBeActive(v, s)
           /\ \A w \in Shifts : <<v, w>> # <<req[r].v, req[r].s>> =>
                 asg'[<<v, w>>] = asg[<<v, w>>]
  <1>1. req[r] \in CheckInReq
    BY ArrivalShape DEF AttTypeOK, TypeOK, CheckInWrite
  <1> DEFINE row == <<req[r].v, req[r].s>>
             checked == att[row] = "NONE" /\ (req[r].conflict \/ CanBeActive(req[r].v, req[r].s))
  <1>2. row \in Rows /\ req[r].conflict \in BOOLEAN
    BY <1>1 DEF CheckInReq, Rows
  <1>3. CASE checked
    <2>1. /\ att' = [att EXCEPT ![row] = IF req[r].conflict THEN "OFFLINE_CONFLICT"
                                         ELSE "CHECKED_IN"]
          /\ asg' = [asg EXCEPT ![row] = IF req[r].conflict THEN @ ELSE "CHECKED_IN"]
          /\ reg' = reg
      BY <1>3 DEF CheckInWrite
    <2> QED
      BY <1>2, <1>3, <2>1 DEF AttTypeOK, TypeOK, Rows
  <1>4. CASE ~checked
    BY <1>4 DEF CheckInWrite
  <1> QED
    BY <1>3, <1>4

LEMMA WalkInAttendRow ==
    ASSUME AttTypeOK, NEW r \in Requests, WalkInAttend(r),
           NEW v \in Volunteers, NEW s \in Shifts
    PROVE  /\ UNCHANGED <<reg, asg>>
           /\ \/ att'[<<v, s>>] = att[<<v, s>>]
              \/ /\ v = req[r].v /\ s = req[r].s
                 /\ att[<<v, s>>] = "NONE" /\ att'[<<v, s>>] = "CHECKED_IN"
  <1>1. req[r] \in ArrivalReq
    BY ArrivalShape DEF AttTypeOK, TypeOK, WalkInAttend
  <1> QED
    BY <1>1 DEF WalkInAttend, AttTypeOK, TypeOK, Rows, ArrivalReq

LEMMA WalkInWriteRow ==
    ASSUME AttTypeOK, NEW r \in Requests, WalkInWrite(r),
           NEW v \in Volunteers, NEW s \in Shifts
    PROVE  IF /\ v = req[r].v /\ s = req[r].s
              /\ reg[<<v, s>>] = "NONE" /\ CanInsertAssignment(v, s)
           THEN /\ reg'[<<v, s>>] = "CHECKED_IN" /\ asg'[<<v, s>>] = "CHECKED_IN"
                /\ att'[<<v, s>>] = "CHECKED_IN"
           ELSE /\ reg'[<<v, s>>] = reg[<<v, s>>] /\ asg'[<<v, s>>] = asg[<<v, s>>]
                /\ att'[<<v, s>>] = att[<<v, s>>]
  <1>1. req[r] \in ArrivalReq
    BY ArrivalShape DEF AttTypeOK, TypeOK, WalkInWrite
  <1> DEFINE row == <<req[r].v, req[r].s>>
             free == reg[row] = "NONE" /\ CanInsertAssignment(req[r].v, req[r].s)
  <1>2. row \in Rows
    BY <1>1 DEF ArrivalReq, Rows
  <1>3. CASE free
    <2>1. /\ reg' = [reg EXCEPT ![row] = "CHECKED_IN"]
          /\ asg' = [asg EXCEPT ![row] = "CHECKED_IN"]
          /\ att' = [att EXCEPT ![row] = "CHECKED_IN"]
      BY <1>3 DEF WalkInWrite
    <2> QED
      BY <1>2, <1>3, <2>1 DEF AttTypeOK, TypeOK, Rows
  <1>4. CASE ~free
    BY <1>4 DEF WalkInWrite
  <1> QED
    BY <1>3, <1>4

LEMMA CheckOutWriteRow ==
    ASSUME AttTypeOK, NEW r \in Requests, CheckOutWrite(r),
           NEW v \in Volunteers, NEW s \in Shifts
    PROVE  /\ reg'[<<v, s>>] = reg[<<v, s>>]
           /\ IF v = req[r].v /\ s = req[r].s /\ CanBeActive(v, s)
              THEN asg'[<<v, s>>] = "COMPLETED" /\ att'[<<v, s>>] = "CHECKED_OUT"
              ELSE asg'[<<v, s>>] = asg[<<v, s>>] /\ att'[<<v, s>>] = att[<<v, s>>]
  <1>1. req[r] \in ArrivalReq
    BY ArrivalShape DEF AttTypeOK, TypeOK, CheckOutWrite
  <1> DEFINE row == <<req[r].v, req[r].s>>
  <1>2. row \in Rows
    BY <1>1 DEF ArrivalReq, Rows
  <1>3. CASE CanBeActive(req[r].v, req[r].s)
    <2>1. /\ att' = [att EXCEPT ![row] = "CHECKED_OUT"]
          /\ asg' = [asg EXCEPT ![row] = "COMPLETED"]
          /\ reg' = reg
      BY <1>3 DEF CheckOutWrite
    <2> QED
      BY <1>2, <1>3, <2>1 DEF AttTypeOK, TypeOK, Rows
  <1>4. CASE ~CanBeActive(req[r].v, req[r].s)
    BY <1>4 DEF CheckOutWrite
  <1> QED
    BY <1>3, <1>4

-----------------------------------------------------------------------------
LEMMA AttTypeStep == AttTypeOK /\ [AttNext]_allVars => AttTypeOK'
  <1> SUFFICES ASSUME AttTypeOK, [AttNext]_allVars PROVE AttTypeOK'
    OBVIOUS
  <1> USE DEF AttTypeOK
  <1>1. CASE [Next]_vars /\ UNCHANGED attVars
    BY <1>1, TypeStep DEF attVars
  <1> DEFINE SameTables == UNCHANGED <<shiftStatus, reg, pos, asg, qualified, att, tokens>>
             Moved == \E r \in Requests, x \in ReqState : req' = [req EXCEPT ![r] = x]
  <1>2. SameTables /\ Moved => AttTypeOK'
    BY DEF TypeOK
  <1>3. ASSUME NEW r \in Requests, NEW v \in Volunteers, NEW s \in Shifts,
               CheckInRead(r, v, s) \/ WalkInRead(r, v, s) \/ CheckOutRead(r, v, s)
        PROVE  SameTables /\ Moved
    <2>1. ASSUME NEW c \in BOOLEAN
          PROVE  [op |-> "checkin", v |-> v, s |-> s, conflict |-> c] \in ReqState
      BY ArrivalRequests DEF ReqState, CheckInReq
    <2>2. ASSUME NEW p \in {"attend", "walkin", "checkout"}
          PROVE  [op |-> p, v |-> v, s |-> s] \in ReqState
      BY ArrivalRequests DEF ReqState, ArrivalReq
    <2> QED
      BY <1>3, <2>1, <2>2 DEF CheckInRead, WalkInRead, CheckOutRead, Goes, attVars
  <1>4. ASSUME NEW r \in Requests, CheckInScanned(r)
        PROVE  SameTables /\ Moved
    <2>1. req[r] \in ScannedReq
      BY <1>4, ArrivalShape DEF TypeOK, CheckInScanned
    <2>2. [op |-> "checkin", v |-> req[r].v, s |-> req[r].s, conflict |-> FALSE] \in ReqState
      BY <2>1, ArrivalRequests DEF ReqState, CheckInReq, ScannedReq
    <2> QED
      BY <1>4, <2>2 DEF CheckInScanned, Goes, attVars, ReqState, IdleReq
  <1>5. ASSUME NEW r \in Requests,
               CheckInWrite(r) \/ WalkInAttend(r) \/ WalkInWrite(r) \/ CheckOutWrite(r)
        PROVE  AttTypeOK'
    <2>1. /\ UNCHANGED <<shiftStatus, pos, qualified, tokens>>
          /\ req' = [req EXCEPT ![r] = Idle]
      BY <1>5 DEF CheckInWrite, WalkInAttend, WalkInWrite, CheckOutWrite, Goes
    <2>2. Idle \in ReqState
      BY DEF ReqState, IdleReq
    <2>3. /\ reg' \in [Rows -> RegStatus] /\ asg' \in [Rows -> AsgStatus]
          /\ att' \in [Rows -> AttStatus]
      BY <1>5 DEF CheckInWrite, WalkInAttend, WalkInWrite, CheckOutWrite, TypeOK,
                  RegStatus, AsgStatus, AttStatus
    <2> QED
      BY <2>1, <2>2, <2>3 DEF TypeOK
  <1>6. ASSUME NEW r \in Requests, NEW t \in Tokens, ConsumeQrToken(r, t)
        PROVE  AttTypeOK'
    <2>1. tokens[t] \in Issued
      BY <1>6 DEF ConsumeQrToken, Unissued
    <2>2. tokens' \in [Tokens -> {Unissued} \cup Issued]
      BY <1>6, <2>1 DEF ConsumeQrToken, Issued
    <2>3. [op |-> "scanned", v |-> tokens[t].v, s |-> tokens[t].s, token |-> t] \in ReqState
      BY <2>1, ArrivalRequests DEF ReqState, ScannedReq, Issued
    <2> QED
      BY <1>6, <2>2, <2>3 DEF ConsumeQrToken, Goes, TypeOK
  <1>7. ASSUME NEW t \in Tokens, NEW v \in Volunteers, NEW s \in Shifts,
               IssueQrToken(t, v, s)
        PROVE  AttTypeOK'
    BY <1>7 DEF IssueQrToken, vars, TypeOK, Issued
  <1>8. ASSUME NEW t \in Tokens, ExpireToken(t)
        PROVE  AttTypeOK'
    <2>1. tokens[t] \in Issued
      BY <1>8 DEF ExpireToken, Unissued
    <2> QED
      BY <1>8, <2>1 DEF ExpireToken, vars, TypeOK, Issued
  <1> HIDE DEF SameTables, Moved
  <1> QED
    BY <1>1, <1>2, <1>3, <1>4, <1>5, <1>6, <1>7, <1>8, AttSteps

\* Every variable keeps its type, those of Scheduling too.
THEOREM AttTypeCorrect == AttSpec => []AttTypeOK
  <1>1. AttInit => AttTypeOK
    BY DEF AttInit, Init, AttTypeOK, TypeOK, Rows, RegStatus, AsgStatus, AttStatus,
           ShiftStatus, ReqState, IdleReq
  <1> QED
    BY <1>1, AttTypeStep, PTL DEF AttSpec

-----------------------------------------------------------------------------
\* A handler that is at a token, a check-in, a walk-in or a check-out has been
\* at it before, or has just read what the step says it must read.
LEMMA ArrivalHandlers ==
    ASSUME AttTypeOK, [AttNext]_allVars, NEW o \in Requests, req'[o] # req[o]
    PROVE  /\ req'[o].op = "scanned" =>
                \E t \in Tokens : ConsumeQrToken(o, t)
           /\ req'[o].op \in {"checkin", "attend", "checkout"} =>
                LET row == <<req'[o].v, req'[o].s>>
                IN  /\ asg[row] # "NONE" \/ att[row] # "NONE"
                    /\ UNCHANGED <<reg, asg, att>>
           /\ req'[o].op = "walkin" =>
                \E v \in Volunteers, s \in Shifts : WalkInRead(o, v, s)
  <1> USE DEF AttTypeOK
  <1> DEFINE arrivals == {"scanned", "checkin", "attend", "walkin", "checkout"}
  <1>1. CASE [Next]_vars /\ UNCHANGED attVars
    <2>1. req'[o].op \in {"idle", "register", "cancel", "count", "pick", "overlap", "write"}
      <3>1. ASSUME req[o].op = "register" PROVE Doomed(req[o]).op = "register"
        BY <3>1, ReqShape DEF TypeOK, Doomed, RegisterReq
      <3>2. ASSUME NEW r \in Requests, PromoteOverlap(r), o = r
            PROVE  req'[o].op \in {"idle", "write"}
        <4>1. req[r] \in PickedReq
          BY <3>2, ReqShape DEF PromoteOverlap, TypeOK
        <4> QED
          BY <3>2, <4>1 DEF PromoteOverlap, PickedReq, TypeOK, Idle
      <3>3. ASSUME NEW r \in Requests, RegisterCommit(r)
            PROVE  req'[o].op \in {"idle", "register"}
        BY <3>1, <3>3 DEF RegisterCommit, Conflicts, Idle
      <3>4. ASSUME NEW s \in Shifts, NEW status \in StatusUpdates, SetShiftStatus(s, status)
            PROVE  req'[o].op = "register"
        BY <3>1, <3>4 DEF SetShiftStatus
      <3>5. ASSUME NEW r \in Requests, NEW v \in Volunteers, NEW s \in Shifts,
                   RegisterBegin(r, v, s) \/ CancelRead(r, v, s)
            PROVE  req'[o].op \in {"register", "cancel"}
        BY <3>5 DEF RegisterBegin, CancelRead, TypeOK
      <3>6. ASSUME NEW r \in Requests, RegisterAbort(r) \/ CancelWrite(r)
                      \/ PromoteCount(r) \/ PromoteWrite(r) \/ Lost(r)
            PROVE  req'[o].op \in {"idle", "count", "pick"}
        BY <3>6 DEF RegisterAbort, CancelWrite, PromoteCount, PromoteWrite, Lost, TypeOK, Idle
      <3>7. ASSUME NEW r \in Requests, PromotePick(r)
            PROVE  req'[o].op \in {"idle", "overlap"}
        BY <3>7 DEF PromotePick, TypeOK, Idle
      <3>8. ASSUME NEW r \in Requests, PromoteOverlap(r)
            PROVE  o = r
        BY <3>8 DEF PromoteOverlap, TypeOK
      <3>9. ~((\E v \in Volunteers : ReviewCredential(v)) \/ UNCHANGED vars)
        BY DEF ReviewCredential, vars
      <3> QED
        BY <1>1, <3>2, <3>3, <3>4, <3>5, <3>6, <3>7, <3>8, <3>9 DEF Next, Continue
    <2> QED
      BY <2>1
  <1>2. ASSUME NEW r \in Requests, NEW v \in Volunteers, NEW s \in Shifts,
               CheckInRead(r, v, s) \/ CheckOutRead(r, v, s)
        PROVE  /\ req'[o].op \in {"checkin", "checkout"}
               /\ UNCHANGED <<reg, asg, att>>
               /\ \/ asg[<<req'[o].v, req'[o].s>>] # "NONE"
                  \/ att[<<req'[o].v, req'[o].s>>] # "NONE"
    BY <1>2 DEF CheckInRead, CheckOutRead, MayCheckIn, Active, Goes, TypeOK, attVars
  <1>3. ASSUME NEW r \in Requests, NEW v \in Volunteers, NEW s \in Shifts,
               WalkInRead(r, v, s)
        PROVE  \/ /\ req'[o].op = "attend" /\ UNCHANGED <<reg, asg, att>>
                  /\ asg[<<req'[o].v, req'[o].s>>] # "NONE"
               \/ req'[o].op = "walkin" /\ WalkInRead(o, v, s)
    BY <1>3 DEF WalkInRead, Active, Goes, TypeOK, attVars
  <1>4. ASSUME NEW r \in Requests, CheckInScanned(r)
        PROVE  \/ req'[o].op = "idle"
               \/ /\ req'[o].op = "checkin" /\ UNCHANGED <<reg, asg, att>>
                  /\ asg[<<req'[o].v, req'[o].s>>] # "NONE"
    BY <1>4 DEF CheckInScanned, MayCheckIn, Active, Goes, TypeOK, attVars, Idle
  <1>5. ASSUME NEW r \in Requests,
               CheckInWrite(r) \/ WalkInAttend(r) \/ WalkInWrite(r) \/ CheckOutWrite(r)
        PROVE  req'[o].op = "idle"
    BY <1>5 DEF CheckInWrite, WalkInAttend, WalkInWrite, CheckOutWrite, Goes, TypeOK, Idle
  <1>6. ASSUME NEW r \in Requests, NEW t \in Tokens, ConsumeQrToken(r, t)
        PROVE  req'[o].op = "scanned" /\ ConsumeQrToken(o, t)
    BY <1>6 DEF ConsumeQrToken, Goes, TypeOK
  <1>7. ASSUME NEW t \in Tokens,
               \/ \E v \in Volunteers, s \in Shifts : IssueQrToken(t, v, s)
               \/ ExpireToken(t)
        PROVE  FALSE
    BY <1>7 DEF IssueQrToken, ExpireToken, vars
  <1> QED
    BY <1>1, <1>2, <1>3, <1>4, <1>5, <1>6, <1>7, AttSteps

\* Whatever is going to write attendance and assignment by id found a row.
KnownArrivals ==
    \A r \in Requests : req[r].op \in {"checkin", "attend", "checkout"} =>
        asg[<<req[r].v, req[r].s>>] # "NONE"

\* Only seven steps touch the rows of the three tables.
LEMMA AttRowSteps ==
    ASSUME [AttNext]_allVars
    PROVE  \/ [Next]_vars /\ UNCHANGED attVars
           \/ UNCHANGED <<reg, asg, att>>
           \/ \E r \in Requests : \/ CheckInWrite(r) \/ WalkInAttend(r)
                                  \/ WalkInWrite(r) \/ CheckOutWrite(r)
  BY AttSteps DEF CheckInRead, WalkInRead, CheckOutRead, CheckInScanned, ConsumeQrToken,
     IssueQrToken, ExpireToken, vars, attVars

LEMMA TablesAgreeStep ==
    ASSUME AttTypeOK, TablesAgree, KnownArrivals, [AttNext]_allVars
    PROVE  TablesAgree'
  <1> DEFINE Agree(g, a, t) ==
        /\ g \in {"NONE", "WAITLISTED"} => a = "NONE"
        /\ a = "NONE" => t = "NONE"
        /\ g \in {"REGISTERED", "CHECKED_IN"} => Active(a)
        /\ a = "ASSIGNED" => g = "REGISTERED" /\ t # "CHECKED_OUT"
        /\ a = "CHECKED_IN" => t = "CHECKED_IN"
        /\ a = "COMPLETED" => t = "CHECKED_OUT"
  <1> SUFFICES ASSUME NEW v \in Volunteers, NEW s \in Shifts
               PROVE  Agree(reg'[<<v, s>>], asg'[<<v, s>>], att'[<<v, s>>])
    BY DEF TablesAgree, Rows
  <1>1. Agree(reg[<<v, s>>], asg[<<v, s>>], att[<<v, s>>])
    BY DEF TablesAgree, Rows
  <1>2. /\ reg[<<v, s>>] \in RegStatus /\ asg[<<v, s>>] \in AsgStatus
        /\ att[<<v, s>>] \in AttStatus
    BY DEF AttTypeOK, TypeOK, Rows
  <1> USE DEF Active
  <1>3. CASE UNCHANGED <<reg, asg, att>>
    BY <1>1, <1>3
  <1>4. CASE [Next]_vars /\ UNCHANGED attVars
    <2>1. UNCHANGED att /\ TypeOK /\ [Next]_vars
      BY <1>4 DEF attVars, AttTypeOK
    <2>2. ASSUME NEW r \in Requests, RegisterCommit(r)
          PROVE  Agree(reg'[<<v, s>>], asg'[<<v, s>>], att'[<<v, s>>])
      BY <1>1, <2>1, <2>2, RegisterCommitRow DEF CanInsertAssignment
    <2>3. ASSUME NEW r \in Requests, CancelWrite(r)
          PROVE  Agree(reg'[<<v, s>>], asg'[<<v, s>>], att'[<<v, s>>])
      BY <1>1, <1>2, <2>1, <2>3, CancelWriteRow DEF AsgStatus
    <2>4. ASSUME NEW r \in Requests, PromoteWrite(r)
          PROVE  Agree(reg'[<<v, s>>], asg'[<<v, s>>], att'[<<v, s>>])
      BY <1>1, <2>1, <2>4, PromoteWriteRow DEF CanInsertAssignment
    <2> QED
      BY <1>3, <2>1, <2>2, <2>3, <2>4, RowSteps
  <1>5. ASSUME NEW r \in Requests, CheckInWrite(r)
        PROVE  Agree(reg'[<<v, s>>], asg'[<<v, s>>], att'[<<v, s>>])
    <2>1. asg[<<req[r].v, req[r].s>>] # "NONE"
      BY <1>5 DEF KnownArrivals, CheckInWrite
    <2> QED
      BY <1>1, <1>2, <1>5, <2>1, CheckInWriteRow
  <1>6. ASSUME NEW r \in Requests, WalkInAttend(r)
        PROVE  Agree(reg'[<<v, s>>], asg'[<<v, s>>], att'[<<v, s>>])
    <2>1. asg[<<req[r].v, req[r].s>>] # "NONE"
      BY <1>6 DEF KnownArrivals, WalkInAttend
    <2> QED
      BY <1>1, <1>6, <2>1, WalkInAttendRow
  <1>7. ASSUME NEW r \in Requests, WalkInWrite(r)
        PROVE  Agree(reg'[<<v, s>>], asg'[<<v, s>>], att'[<<v, s>>])
    BY <1>1, <1>7, WalkInWriteRow
  <1>8. ASSUME NEW r \in Requests, CheckOutWrite(r)
        PROVE  Agree(reg'[<<v, s>>], asg'[<<v, s>>], att'[<<v, s>>])
    <2>1. asg[<<req[r].v, req[r].s>>] # "NONE"
      BY <1>8 DEF KnownArrivals, CheckOutWrite
    <2> QED
      BY <1>1, <1>2, <1>8, <2>1, CheckOutWriteRow
  <1> HIDE DEF Agree
  <1> QED
    BY <1>3, <1>4, <1>5, <1>6, <1>7, <1>8, AttRowSteps

LEMMA KnownArrivalsStep ==
    ASSUME AttTypeOK, TablesAgree, KnownArrivals, [AttNext]_allVars
    PROVE  KnownArrivals'
  <1> SUFFICES ASSUME NEW o \in Requests, req'[o].op \in {"checkin", "attend", "checkout"}
               PROVE  asg'[<<req'[o].v, req'[o].s>>] # "NONE"
    BY DEF KnownArrivals
  <1> DEFINE v == req'[o].v
             s == req'[o].s
  <1>1. v \in Volunteers /\ s \in Shifts
    <2>1. req'[o] \in ReqState
      BY AttTypeStep DEF AttTypeOK, TypeOK
    <2> QED
      BY <2>1, ArrivalShape DEF ArrivalReq, CheckInReq
  <1>2. /\ asg[<<v, s>>] # "NONE"
        /\ req'[o] # req[o] => UNCHANGED asg
    <2>1. CASE req'[o] = req[o]
      BY <2>1 DEF KnownArrivals
    <2>2. CASE req'[o] # req[o]
      BY <1>1, <2>2, ArrivalHandlers DEF TablesAgree, Rows
    <2> QED
      BY <2>1, <2>2
  <1> HIDE DEF v, s
  <1>3. asg[<<v, s>>] # "NONE" => asg'[<<v, s>>] # "NONE"
    <2>1. CASE UNCHANGED <<reg, asg>>
      BY <2>1
    <2>2. CASE [Next]_vars /\ UNCHANGED attVars
      <3>1. TypeOK
        BY DEF AttTypeOK
      <3> QED
        BY <1>1, <2>1, <2>2, <3>1, RowSteps, RegisterCommitRow, CancelWriteRow,
           PromoteWriteRow
    <2>3. ASSUME NEW r \in Requests,
                 CheckInWrite(r) \/ WalkInAttend(r) \/ WalkInWrite(r) \/ CheckOutWrite(r)
          PROVE  asg[<<v, s>>] # "NONE" => asg'[<<v, s>>] # "NONE"
      BY <1>1, <2>3, CheckInWriteRow, WalkInAttendRow, WalkInWriteRow, CheckOutWriteRow
    <2> QED
      BY <2>1, <2>2, <2>3, AttRowSteps
  <1> QED
    BY <1>2, <1>3 DEF v, s

\* Registration, assignment and attendance of a row agree in every reachable
\* state, whatever cancels, promotes, checks in and checks out at the same time.
THEOREM TablesAlwaysAgree == AttSpec => []TablesAgree
  <1>1. AttInit => TablesAgree /\ KnownArrivals
    BY DEF AttInit, Init, TablesAgree, KnownArrivals, Rows, Active, Idle
  <1>2. AttTypeOK /\ TablesAgree /\ KnownArrivals /\ [AttNext]_allVars =>
           TablesAgree' /\ KnownArrivals'
    BY TablesAgreeStep, KnownArrivalsStep
  <1> QED
    BY <1>1, <1>2, AttTypeCorrect, PTL DEF AttSpec

-----------------------------------------------------------------------------
\* An attendance is made once and afterwards only checked out.
THEOREM AttendancesMoveOn == AttSpec => AttendanceMovesOn
  <1>1. ASSUME AttTypeOK, TablesAgree, [AttNext]_allVars,
               NEW v \in Volunteers, NEW s \in Shifts,
               att'[<<v, s>>] # att[<<v, s>>]
        PROVE  att[<<v, s>>] = "NONE" \/ att'[<<v, s>>] = "CHECKED_OUT"
    <2>1. ASSUME NEW r \in Requests, CheckInWrite(r) \/ WalkInAttend(r)
          PROVE  att[<<v, s>>] = "NONE"
      BY <1>1, <2>1, CheckInWriteRow, WalkInAttendRow
    <2>2. ASSUME NEW r \in Requests, WalkInWrite(r)
          PROVE  att[<<v, s>>] = "NONE"
      BY <1>1, <2>2, WalkInWriteRow DEF CanInsertAssignment, TablesAgree, Rows
    <2>3. ASSUME NEW r \in Requests, CheckOutWrite(r)
          PROVE  att'[<<v, s>>] = "CHECKED_OUT"
      BY <1>1, <2>3, CheckOutWriteRow
    <2> QED
      BY <1>1, <2>1, <2>2, <2>3, AttRowSteps DEF attVars
  <1>2. AttTypeOK /\ TablesAgree /\ [AttNext]_allVars =>
          [\A row \in Rows :
              att'[row] # att[row] => att[row] = "NONE" \/ att'[row] = "CHECKED_OUT"]_allVars
    BY <1>1 DEF Rows
  <1> QED
    BY <1>2, AttTypeCorrect, TablesAlwaysAgree, PTL DEF AttSpec, AttendanceMovesOn

\* A token lets in one request, although two may be in the middle of using it.
THEOREM TokensUsedOnce == AttSpec => []TokenSingleUse
  <1>1. AttInit => TokenSingleUse
    BY DEF AttInit, Init, TokenSingleUse, Idle
  <1>2. AttTypeOK /\ TokenSingleUse /\ [AttNext]_allVars => TokenSingleUse'
    <2> SUFFICES ASSUME AttTypeOK, TokenSingleUse, [AttNext]_allVars,
                        NEW r \in Requests, req'[r].op = "scanned"
                 PROVE  /\ tokens'[req'[r].token].state = "used"
                        /\ \A o \in Requests \ {r} :
                              req'[o].op = "scanned" => req'[o].token # req'[r].token
      BY DEF TokenSingleUse
    \* A used token stays used.
    <2>1. ASSUME NEW t \in Tokens, tokens[t].state = "used"
          PROVE  tokens'[t].state = "used" /\ \A o \in Requests : ~ConsumeQrToken(o, t)
      <3>1. ASSUME NEW o \in Requests, NEW u \in Tokens, ConsumeQrToken(o, u)
            PROVE  u # t /\ tokens'[t] = tokens[t]
        BY <2>1, <3>1 DEF ConsumeQrToken, AttTypeOK
      <3>2. ASSUME NEW u \in Tokens,
                   \/ \E v \in Volunteers, s \in Shifts : IssueQrToken(u, v, s)
                   \/ ExpireToken(u)
            PROVE  tokens'[t] = tokens[t]
        <4>1. tokens[u] = Unissued \/ tokens[u].state = "live"
          BY <3>2 DEF IssueQrToken, ExpireToken
        <4>2. Unissued.state = "unissued"
          BY DEF Unissued
        <4>3. u # t
          BY <2>1, <4>1, <4>2
        <4> QED
          BY <3>2, <4>3 DEF IssueQrToken, ExpireToken, AttTypeOK
      <3>3. tokens'[t] = tokens[t]
        BY <3>1, <3>2, AttSteps DEF CheckInRead, WalkInRead, CheckOutRead, CheckInScanned,
           CheckInWrite, WalkInAttend, WalkInWrite, CheckOutWrite, attVars
      <3> QED
        BY <2>1, <3>1, <3>3
    \* After the step a scanned token is one that was scanned, or live, before.
    <2>2. ASSUME NEW o \in Requests, req'[o].op = "scanned"
          PROVE  IF req'[o] = req[o]
                 THEN req[o].token \in Tokens /\ tokens[req[o].token].state = "used"
                 ELSE req'[o].token \in Tokens /\ ConsumeQrToken(o, req'[o].token)
      <3>1. CASE req'[o] = req[o]
        <4>1. req[o] \in ScannedReq
          BY <2>2, <3>1, ArrivalShape DEF AttTypeOK, TypeOK
        <4> QED
          BY <2>2, <3>1, <4>1 DEF TokenSingleUse, ScannedReq
      <3>2. CASE req'[o] # req[o]
        <4>1. PICK t \in Tokens : ConsumeQrToken(o, t)
          BY <2>2, <3>2, ArrivalHandlers
        <4>2. req'[o].token = t
          BY <4>1 DEF ConsumeQrToken, Goes, AttTypeOK, TypeOK
        <4> QED
          BY <3>2, <4>1, <4>2
      <3> QED
        BY <3>1, <3>2
    <2>3. CASE req'[r] = req[r]
      BY <2>1, <2>2, <2>3 DEF TokenSingleUse
    <2>4. CASE req'[r].token \in Tokens /\ ConsumeQrToken(r, req'[r].token)
      <3>1. tokens'[req'[r].token].state = "used"
        BY <2>4 DEF ConsumeQrToken, AttTypeOK, Unissued, Issued
      <3>2. ASSUME NEW o \in Requests \ {r}, req'[o].op = "scanned"
            PROVE  req'[o] = req[o]
        BY <2>4, <3>2 DEF ConsumeQrToken, Goes, AttTypeOK, TypeOK
      <3> QED
        BY <2>1, <2>2, <2>4, <3>1, <3>2
    <2> QED
      BY <2>2, <2>3, <2>4
  <1> QED
    BY <1>1, <1>2, AttTypeCorrect, PTL DEF AttSpec

-----------------------------------------------------------------------------
\* With the exclusion constraint deployed arrivals double-book nobody either,
\* also when they make a cancelled assignment active again.
THEOREM ArrivalsNeverDoubleBook == ExclusionConstraint => (AttSpec => []NoDoubleBooking)
  <1> SUFFICES ASSUME ExclusionConstraint PROVE AttSpec => []NoDoubleBooking
    OBVIOUS
  <1>1. AttInit => NoDoubleBooking
    BY DEF AttInit, Init, NoDoubleBooking, Rows, Active
  <1>2. AttTypeOK /\ NoDoubleBooking /\ [AttNext]_allVars => NoDoubleBooking'
    <2> SUFFICES ASSUME AttTypeOK, NoDoubleBooking, [AttNext]_allVars,
                        NEW v \in Volunteers, NEW s \in Shifts, NEW t \in Shifts,
                        Active(asg'[<<v, s>>]), Active(asg'[<<v, t>>]), Overlaps(s, t),
                        s # t
                 PROVE  FALSE
      BY DEF NoDoubleBooking
    <2> DEFINE Kept(u) ==
          \/ Active(asg[<<v, u>>])
          \/ /\ ~Clash(v, u)
             /\ \A w \in Shifts : w # u => asg'[<<v, w>>] = asg[<<v, w>>]
    <2>1. ASSUME NEW u \in Shifts, Active(asg'[<<v, u>>]) PROVE Kept(u)
      <3>1. CASE UNCHANGED <<reg, asg>>
        BY <2>1, <3>1
      <3>2. CASE [Next]_vars /\ UNCHANGED attVars
        <4>1. TypeOK
          BY DEF AttTypeOK
        <4>2. ASSUME NEW r \in Requests, RegisterCommit(r) PROVE Kept(u)
          BY <2>1, <4>1, <4>2, RegisterCommitRow DEF CanInsertAssignment, Active
        <4>3. ASSUME NEW r \in Requests, CancelWrite(r) PROVE Kept(u)
          BY <2>1, <4>1, <4>3, CancelWriteRow DEF Active
        <4>4. ASSUME NEW r \in Requests, PromoteWrite(r) PROVE Kept(u)
          BY <2>1, <4>1, <4>4, PromoteWriteRow DEF CanInsertAssignment, Active
        <4> QED
          BY <3>1, <3>2, <4>2, <4>3, <4>4, RowSteps
      <3>3. ASSUME NEW r \in Requests, CheckInWrite(r) PROVE Kept(u)
        BY <2>1, <3>3, CheckInWriteRow DEF CanBeActive
      <3>4. ASSUME NEW r \in Requests, WalkInAttend(r) PROVE Kept(u)
        BY <2>1, <3>4, WalkInAttendRow
      <3>5. ASSUME NEW r \in Requests, WalkInWrite(r) PROVE Kept(u)
        BY <2>1, <3>5, WalkInWriteRow DEF CanInsertAssignment
      <3>6. ASSUME NEW r \in Requests, CheckOutWrite(r) PROVE Kept(u)
        BY <2>1, <3>6, CheckOutWriteRow DEF CanBeActive
      <3> QED
        BY <3>1, <3>2, <3>3, <3>4, <3>5, <3>6, AttRowSteps
    <2>2. Overlaps(t, s)
      BY ShiftTimes DEF Overlaps
    <2> QED
      BY <2>1, <2>2 DEF NoDoubleBooking, Clash
  <1> QED
    BY <1>1, <1>2, AttTypeCorrect, PTL DEF AttSpec

-----------------------------------------------------------------------------
\* A walk-in only starts when the assignments, and so the seats, leave room.
LEMMA WalkInHasRoom ==
    ASSUME TablesAgree, NEW s \in Shifts, WalkInFits(s)
    PROVE  Cardinality(Seated(s)) <= CapacityMax[s] - 1
  <1>1. Seated(s) \subseteq ActiveAsgs(s) /\ ActiveAsgs(s) \subseteq Volunteers
    BY DEF Seated, ActiveAsgs, TablesAgree, Rows
  <1>2. IsFiniteSet(ActiveAsgs(s))
    BY <1>1, FiniteIds, FS_Subset
  <1>3. Cardinality(Seated(s)) <= Cardinality(ActiveAsgs(s))
          /\ Cardinality(ActiveAsgs(s)) \in Nat
    BY <1>1, <1>2, FS_Subset, FS_CardinalityType
  <1> HIDE DEF Seated, ActiveAsgs
  <1> QED
    BY <1>3, SizesAreNat DEF WalkInFits

\* The seat bound of SchedulingProofs counts a walk-in that has read like a
\* promotion that has counted, so it also holds beside arrivals.
LEMMA ArrivalsKeepBound ==
    ASSUME AttTypeOK, TablesAgree, [AttNext]_allVars, NEW s \in Shifts, SeatBound(s)
    PROVE  SeatBound(s)'
  <1>1. CASE [Next]_vars /\ UNCHANGED attVars
    BY <1>1, SeatBoundStep DEF AttTypeOK
  <1> DEFINE Fewer == /\ Seated(s)' \subseteq Seated(s)
                      /\ Takers(s)' \subseteq Takers(s)
                      /\ Booking(s)' \subseteq Booking(s)
  <1>2. ASSUME NEW r \in Requests, NEW v \in Volunteers, NEW t \in Shifts,
               WalkInRead(r, v, t), WalkInFits(t),
               req' = [req EXCEPT ![r] = [op |-> "walkin", v |-> v, s |-> t]]
        PROVE  SeatBound(s)'
    <2>1. Seated(s)' = Seated(s)
      BY <1>2 DEF WalkInRead, Seated
    <2>2. Booking(s)' = Booking(s) /\ r \notin Booking(s)
      BY <1>2 DEF WalkInRead, Booking, AttTypeOK, TypeOK, Idle
    <2>3. CASE t = s
      <3>1. Cardinality(Seated(s)) <= CapacityMax[s] - 1
        BY <1>2, <2>3, WalkInHasRoom
      <3>2. Takers(s)' \subseteq Requests
        BY DEF Takers
      <3>3. Cardinality(Takers(s)') <= Cardinality(Requests)
              /\ Cardinality(Takers(s)') \in Nat
        BY <3>2, FiniteIds, FS_Subset, FS_CardinalityType
      <3>4. ASSUME NEW b \in Booking(s)
            PROVE  Cardinality(Takers(s)') <= Cardinality(Requests) - 1
        <4>1. Takers(s)' \subseteq Requests \ {b}
          BY <2>2 DEF Takers, Booking
        <4> QED
          BY <4>1, FiniteIds, OneLess DEF Booking
      <3> HIDE DEF Seated, Takers, Booking
      <3> QED
        BY <2>1, <2>2, <3>1, <3>3, <3>4, SizesAreNat DEF SeatBound
    <2>4. CASE t # s
      <3>1. Takers(s)' \subseteq Takers(s)
        BY <1>2, <2>4 DEF Takers, AttTypeOK, TypeOK
      <3> QED
        BY <2>1, <2>2, <3>1, FewerKeepBound
    <2> QED
      BY <2>3, <2>4
  <1>3. ASSUME NEW r \in Requests, WalkInWrite(r)
        PROVE  SeatBound(s)'
    <2>1. Booking(s)' \subseteq Booking(s)
      BY <1>3 DEF WalkInWrite, Goes, Booking, AttTypeOK, TypeOK, Idle
    <2>2. Takers(s)' \subseteq Takers(s) \ {r}
      BY <1>3 DEF WalkInWrite, Goes, Takers, AttTypeOK, TypeOK, Idle
    <2>3. CASE req[r].s = s
      <3>1. Seated(s)' \subseteq Seated(s) \cup {req[r].v}
        BY <1>3, WalkInWriteRow DEF Seated
      <3>2. Cardinality(Seated(s)') <= Cardinality(Seated(s)) + 1
              /\ Cardinality(Seated(s)') \in Nat
        BY <3>1, SizesAreNat, OneMore
      <3>3. r \in Takers(s)
        BY <1>3, <2>3 DEF WalkInWrite, Takers
      <3>4. Cardinality(Takers(s)') <= Cardinality(Takers(s)) - 1
              /\ Cardinality(Takers(s)') \in Nat
        BY <2>2, <3>3, SizesAreNat, OneLess
      <3>5. Booking(s) = {} => Booking(s)' = {}
        BY <2>1
      <3>6. (IF Booking(s)' = {} THEN 0 ELSE 1) <= (IF Booking(s) = {} THEN 0 ELSE 1)
        BY <3>5
      <3> HIDE DEF Seated, Takers, Booking
      <3> QED
        BY <3>2, <3>4, <3>6, SizesAreNat DEF SeatBound
    <2>4. CASE req[r].s # s
      <3>1. Seated(s)' \subseteq Seated(s)
        BY <1>3, <2>4, WalkInWriteRow DEF Seated
      <3> QED
        BY <2>1, <2>2, <3>1, FewerKeepBound
    <2> QED
      BY <2>3, <2>4
  \* The other steps give no seat and make no handler a taker or a booker.
  <1>4. ASSUME Seated(s)' = Seated(s),
               \A o \in Requests :
                  req'[o] = req[o]
                  \/ req'[o].op \in {"idle", "scanned", "checkin", "attend", "checkout"}
        PROVE  SeatBound(s)'
    <2>1. Takers(s)' \subseteq Takers(s) /\ Booking(s)' \subseteq Booking(s)
      BY <1>4 DEF Takers, Booking
    <2> QED
      BY <1>4, <2>1, FewerKeepBound
  <1> DEFINE Quiet == \A o \in Requests :
                        req'[o] = req[o]
                        \/ req'[o].op \in {"idle", "scanned", "checkin", "attend", "checkout"}
  <1>5. ASSUME NEW r \in Requests, NEW v \in Volunteers, NEW t \in Shifts,
               \/ CheckInRead(r, v, t) \/ CheckOutRead(r, v, t)
               \/ /\ WalkInRead(r, v, t)
                  /\ req' = [req EXCEPT ![r] = [op |-> "attend", v |-> v, s |-> t]]
        PROVE  Seated(s)' = Seated(s) /\ Quiet
    BY <1>5 DEF CheckInRead, CheckOutRead, WalkInRead, Goes, Seated, AttTypeOK, TypeOK
  <1>6. ASSUME NEW r \in Requests, CheckInScanned(r)
        PROVE  Seated(s)' = Seated(s) /\ Quiet
    BY <1>6 DEF CheckInScanned, Goes, Seated, AttTypeOK, TypeOK, Idle
  <1>7. ASSUME NEW r \in Requests, CheckInWrite(r) \/ WalkInAttend(r) \/ CheckOutWrite(r)
        PROVE  Seated(s)' = Seated(s) /\ Quiet
    BY <1>7 DEF CheckInWrite, WalkInAttend, CheckOutWrite, Goes, Seated, AttTypeOK,
                TypeOK, Idle
  <1>8. ASSUME NEW r \in Requests, NEW t \in Tokens, ConsumeQrToken(r, t)
        PROVE  Seated(s)' = Seated(s) /\ Quiet
    BY <1>8 DEF ConsumeQrToken, Goes, Seated, AttTypeOK, TypeOK
  <1>9. ASSUME NEW t \in Tokens,
               \/ \E v \in Volunteers, u \in Shifts : IssueQrToken(t, v, u)
               \/ ExpireToken(t)
        PROVE  Seated(s)' = Seated(s) /\ Quiet
    BY <1>9 DEF IssueQrToken, ExpireToken, vars, Seated
  <1>10. ASSUME NEW r \in Requests, NEW v \in Volunteers, NEW t \in Shifts,
                WalkInRead(r, v, t)
         PROVE  \/ req' = [req EXCEPT ![r] = [op |-> "attend", v |-> v, s |-> t]]
                \/ /\ WalkInFits(t)
                   /\ req' = [req EXCEPT ![r] = [op |-> "walkin", v |-> v, s |-> t]]
    BY <1>10 DEF WalkInRead, Goes
  <1> HIDE DEF Quiet
  <1>11. Seated(s)' = Seated(s) /\ Quiet => SeatBound(s)'
    BY <1>4 DEF Quiet
  <1> QED
    BY <1>1, <1>2, <1>3, <1>5, <1>6, <1>7, <1>8, <1>9, <1>10, <1>11, AttSteps

\* Walk-ins, promotions and registrations together overbook a shift by at most
\* the number of handlers minus one.
THEOREM SeatsAreBounded == AttSpec => []SeatsBounded
  <1>1. AttInit => \A s \in Shifts : SeatBound(s)
    <2> SUFFICES ASSUME AttInit, NEW s \in Shifts PROVE SeatBound(s)
      OBVIOUS
    <2>1. Seated(s) = {} /\ Takers(s) = {} /\ Booking(s) = {}
      BY DEF AttInit, Init, Seated, Takers, Booking, Rows, Idle
    <2> QED
      BY <2>1, SizesAreNat, FS_EmptySet DEF SeatBound
  <1>2. AttTypeOK /\ TablesAgree /\ (\A s \in Shifts : SeatBound(s)) /\ [AttNext]_allVars =>
           (\A s \in Shifts : SeatBound(s))'
    BY ArrivalsKeepBound
  <1>3. (\A s \in Shifts : SeatBound(s)) => SeatsBounded
    <2> SUFFICES ASSUME NEW s \in Shifts, SeatBound(s)
                 PROVE  Cardinality(Seated(s)) <= CapacityMax[s] + Cardinality(Requests) - 1
      BY DEF SeatsBounded
    <2> QED
      BY SizesAreNat DEF SeatBound
  <1> QED
    BY <1>1, <1>2, <1>3, AttTypeCorrect, TablesAlwaysAgree, PTL DEF AttSpec
\* With one handler, walk-ins among its requests, capacity holds.
THEOREM SerialArrivalsRespectCapacity ==
    Cardinality(Requests) = 1 => (AttSpec => []CapacityRespected)
  <1> SUFFICES ASSUME Cardinality(Requests) = 1 PROVE AttSpec => []CapacityRespected
    OBVIOUS
  <1>1. SeatsBounded => CapacityRespected
    BY SizesAreNat DEF SeatsBounded, CapacityRespected
  <1> QED
    BY <1>1, SeatsAreBounded, PTL

-----------------------------------------------------------------------------
\* No registration has been cancelled, and none is about to be.
NobodyCancels ==
    /\ \A r \in Requests : req[r].op # "cancel"
    /\ \A v \in Volunteers, s \in Shifts : reg[<<v, s>>] # "CANCELLED"

LEMMA CancelStarts ==
    ASSUME AttTypeOK, [AttNext]_allVars, NEW o \in Requests, req'[o].op = "cancel"
    PROVE  req[o].op = "cancel" \/ "cancel" \in Events
  <1> USE DEF AttTypeOK
  <1>1. CASE [Next]_vars /\ UNCHANGED attVars
    <2>1. ASSUME req[o].op = "register" PROVE Doomed(req[o]).op = "register"
      BY <2>1, ReqShape DEF TypeOK, Doomed, RegisterReq
    <2>2. ASSUME NEW r \in Requests, NEW v \in Volunteers, NEW s \in Shifts,
                 RegisterBegin(r, v, s)
          PROVE  req[o].op = "cancel"
      BY <2>2 DEF RegisterBegin, TypeOK
    <2>3. ASSUME NEW r \in Requests, NEW v \in Volunteers, NEW s \in Shifts,
                 CancelRead(r, v, s)
          PROVE  "cancel" \in Events
      BY <2>3 DEF CancelRead
    <2>4. ASSUME NEW r \in Requests, RegisterCommit(r) PROVE req[o].op = "cancel"
      BY <2>1, <2>4 DEF RegisterCommit, Conflicts, Idle
    <2>5. ASSUME NEW r \in Requests,
                 RegisterAbort(r) \/ CancelWrite(r) \/ PromoteCount(r) \/ PromoteWrite(r)
                 \/ Lost(r)
          PROVE  req[o].op = "cancel"
      BY <2>5 DEF RegisterAbort, CancelWrite, PromoteCount, PromoteWrite, Lost, TypeOK, Idle
    <2>6. ASSUME NEW r \in Requests, PromotePick(r) PROVE req[o].op = "cancel"
      BY <2>6 DEF PromotePick, TypeOK, Idle
    <2>7. ASSUME NEW r \in Requests, PromoteOverlap(r) PROVE req[o].op = "cancel"
      <3>1. req[r] \in PickedReq
        BY <2>7, ReqShape DEF PromoteOverlap, TypeOK
      <3> QED
        BY <2>7, <3>1 DEF PromoteOverlap, PickedReq, TypeOK, Idle
    <2>8. ASSUME NEW s \in Shifts, NEW status \in StatusUpdates, SetShiftStatus(s, status)
          PROVE  req[o].op = "cancel"
      BY <2>1, <2>8 DEF SetShiftStatus
    <2>9. CASE (\E v \in Volunteers : ReviewCredential(v)) \/ UNCHANGED vars
      BY <2>9 DEF ReviewCredential, vars
    <2> QED
      BY <1>1, <2>2, <2>3, <2>4, <2>5, <2>6, <2>7, <2>8, <2>9 DEF Next, Continue
  <1>2. ASSUME NEW r \in Requests, NEW v \in Volunteers, NEW s \in Shifts,
               CheckInRead(r, v, s) \/ WalkInRead(r, v, s) \/ CheckOutRead(r, v, s)
        PROVE  req[o].op = "cancel"
    BY <1>2 DEF CheckInRead, WalkInRead, CheckOutRead, Goes, TypeOK
  <1>3. ASSUME NEW r \in Requests, CheckInScanned(r) PROVE req[o].op = "cancel"
    BY <1>3 DEF CheckInScanned, Goes, TypeOK, Idle
  <1>4. ASSUME NEW r \in Requests,
               CheckInWrite(r) \/ WalkInAttend(r) \/ WalkInWrite(r) \/ CheckOutWrite(r)
        PROVE  req[o].op = "cancel"
    BY <1>4 DEF CheckInWrite, WalkInAttend, WalkInWrite, CheckOutWrite, Goes, TypeOK, Idle
  <1>5. ASSUME NEW r \in Requests, NEW t \in Tokens, ConsumeQrToken(r, t)
        PROVE  req[o].op = "cancel"
    BY <1>5 DEF ConsumeQrToken, Goes, TypeOK
  <1>6. ASSUME NEW t \in Tokens,
               (\E v \in Volunteers, s \in Shifts : IssueQrToken(t, v, s)) \/ ExpireToken(t)
        PROVE  req[o].op = "cancel"
    BY <1>6 DEF IssueQrToken, ExpireToken, vars
  <1> QED
    BY <1>1, <1>2, <1>3, <1>4, <1>5, <1>6, AttSteps

\* An arrival never undoes a registration.
LEMMA RegKept ==
    ASSUME AttTypeOK, [AttNext]_allVars, NobodyCancels, NEW v \in Volunteers, NEW s \in Shifts
    PROVE  reg'[<<v, s>>] # "CANCELLED"
  <1>1. reg[<<v, s>>] # "CANCELLED" /\ \A r \in Requests : ~CancelWrite(r)
    BY DEF NobodyCancels, CancelWrite
  <1>2. CASE UNCHANGED reg
    BY <1>1, <1>2
  <1>3. CASE [Next]_vars /\ UNCHANGED attVars
    <2>1. ASSUME NEW r \in Requests, RegisterCommit(r) PROVE reg'[<<v, s>>] # "CANCELLED"
      BY <1>1, <2>1, RegisterCommitRow DEF AttTypeOK
    <2>2. ASSUME NEW r \in Requests, PromoteWrite(r) PROVE reg'[<<v, s>>] # "CANCELLED"
      BY <1>1, <2>2, PromoteWriteRow DEF AttTypeOK
    <2> QED
      BY <1>1, <1>2, <1>3, <2>1, <2>2, RowSteps
  <1>4. ASSUME NEW r \in Requests, WalkInWrite(r) PROVE reg'[<<v, s>>] # "CANCELLED"
    BY <1>1, <1>4, WalkInWriteRow
  <1>5. ASSUME NEW r \in Requests, CheckInWrite(r) \/ WalkInAttend(r) \/ CheckOutWrite(r)
        PROVE  UNCHANGED reg
    BY <1>5 DEF CheckInWrite, WalkInAttend, CheckOutWrite
  <1> QED
    BY <1>2, <1>3, <1>4, <1>5, AttRowSteps

\* Cancellations are all that stands between an active assignment and the
\* confirmed registration the schema promises: while nobody cancels, no mix of
\* registrations, scans, walk-ins and check-outs leaves one without the other.
THEOREM AssignmentsAreConfirmed == "cancel" \notin Events => (AttSpec => []OnlyConfirmed)
  <1> SUFFICES ASSUME "cancel" \notin Events PROVE AttSpec => []OnlyConfirmed
    OBVIOUS
  <1>1. AttInit => NobodyCancels
    BY DEF AttInit, Init, NobodyCancels, Idle, Rows
  <1>2. AttTypeOK /\ NobodyCancels /\ [AttNext]_allVars => NobodyCancels'
    BY CancelStarts, RegKept DEF NobodyCancels
  <1>3. AttTypeOK /\ TablesAgree /\ NobodyCancels => OnlyConfirmed
    BY DEF AttTypeOK, TypeOK, RegStatus, TablesAgree, NobodyCancels, OnlyConfirmed, Active, Rows
  <1> QED
    BY <1>1, <1>2, <1>3, AttTypeCorrect, TablesAlwaysAgree, PTL DEF AttSpec
=============================================================================
