-------------------------- MODULE SchedulingProofs --------------------------
(***************************************************************************)
(* Theorems about Scheduling, for every set of volunteers, shifts and      *)
(* handlers, every capacity and every timetable.                           *)
(***************************************************************************)
EXTENDS Scheduling, FiniteSetTheorems, TLAPS

\* What a handler's op says about its record.
LEMMA ReqShape ==
    ASSUME NEW t \in ReqState
    PROVE  /\ t.op = "register" => t \in RegisterReq /\ Doomed(t) \in RegisterReq
           /\ t.op = "cancel" => t \in CancelReq
           /\ t.op \in {"count", "pick"} => t \in PromoteReq
           /\ t.op \in {"overlap", "write"} => t \in PickedReq
           /\ t.op = "idle" => t = Idle
  <1>1. CASE t \in IdleReq
    BY <1>1 DEF IdleReq, Idle
  <1>2. CASE t \in RegisterReq
    <2>1. t.op = "register"
      BY <1>2 DEF RegisterReq
    <2>2. Doomed(t) \in RegisterReq
      BY <1>2 DEF RegisterReq, Doomed
    <2> QED
      BY <1>2, <2>1, <2>2
  <1>3. CASE t \in CancelReq
    BY <1>3 DEF CancelReq
  <1>4. CASE t \in PromoteReq
    BY <1>4 DEF PromoteReq
  <1>5. CASE t \in PickedReq
    BY <1>5 DEF PickedReq
  <1>6. CASE t \in OtherReq
    BY <1>6, OtherRequests
  <1> QED
    BY <1>1, <1>2, <1>3, <1>4, <1>5, <1>6 DEF ReqState

\* The number of active registrations of a shift is a natural number that is
\* at least the number of seats taken.
LEMMA SeatedAreActive ==
    ASSUME NEW s \in Shifts
    PROVE  /\ IsFiniteSet(Seated(s)) /\ IsFiniteSet(ActiveRegs(s))
           /\ Cardinality(Seated(s)) \in Nat /\ ActiveCount(s) \in Nat
           /\ Cardinality(Seated(s)) <= ActiveCount(s)
  <1>1. Seated(s) \subseteq ActiveRegs(s) /\ ActiveRegs(s) \subseteq Volunteers
    BY DEF Seated, ActiveRegs, Active
  <1>2. IsFiniteSet(ActiveRegs(s))
    BY <1>1, FiniteIds, FS_Subset
  <1>3. QED
    BY <1>1, <1>2, FS_Subset, FS_CardinalityType DEF ActiveCount

LEMMA TypeStep == TypeOK /\ [Next]_vars => TypeOK'
  <1> SUFFICES ASSUME TypeOK, [Next]_vars PROVE TypeOK'
    OBVIOUS
  <1> USE DEF TypeOK, Rows
  <1>1. ASSUME NEW r \in Requests, NEW v \in Volunteers, NEW s \in Shifts,
               RegisterBegin(r, v, s)
        PROVE  TypeOK'
    <2> DEFINE isFull == ActiveCount(s) >= CapacityMax[s]
               plan == [op |-> "register", v |-> v, s |-> s, doomed |-> FALSE,
                        status |-> IF isFull THEN "WAITLISTED" ELSE "REGISTERED",
                        pos |-> IF isFull THEN NextPosition(s) ELSE 0]
    <2>1. (IF isFull THEN NextPosition(s) ELSE 0) \in Nat
      BY SeatedAreActive, CapacityIsNat DEF NextPosition
    <2>2. plan \in ReqState
      BY <2>1 DEF ReqState, RegisterReq
    <2>3. req' = [req EXCEPT ![r] = plan]
      BY <1>1 DEF RegisterBegin
    <2> QED
      BY <1>1, <2>2, <2>3 DEF RegisterBegin
  <1>2. ASSUME NEW r \in Requests, NEW v \in Volunteers, NEW s \in Shifts,
               CancelRead(r, v, s)
        PROVE  TypeOK'
    BY <1>2 DEF CancelRead, ReqState, CancelReq
  <1>3. ASSUME NEW r \in Requests, RegisterCommit(r)
        PROVE  TypeOK'
    <2>1. req[r] \in RegisterReq
      BY <1>3, ReqShape DEF RegisterCommit
    <2>2. reg' \in [Rows -> RegStatus] /\ pos' \in [Rows -> Nat]
            /\ asg' \in [Rows -> AsgStatus]
      BY <1>3, <2>1 DEF RegisterCommit, RegisterReq, RegStatus, AsgStatus
    <2>3. ASSUME NEW o \in Requests, Conflicts(req[o], req[r])
          PROVE  Doomed(req[o]) \in ReqState
      BY <2>3, ReqShape DEF Conflicts, ReqState
    <2>4. req' \in [Requests -> ReqState]
      BY <1>3, <2>3 DEF RegisterCommit, ReqState, IdleReq
    <2> QED
      BY <1>3, <2>2, <2>4 DEF RegisterCommit
  <1>4. ASSUME NEW r \in Requests, RegisterAbort(r)
        PROVE  TypeOK'
    BY <1>4 DEF RegisterAbort, ReqState, IdleReq
  <1>5. ASSUME NEW r \in Requests, CancelWrite(r)
        PROVE  TypeOK'
    <2>1. req[r] \in CancelReq
      BY <1>5, ReqShape DEF CancelWrite
    <2> QED
      BY <1>5, <2>1 DEF CancelWrite, CancelReq, RegStatus, AsgStatus,
                        ReqState, PromoteReq
  <1>6. ASSUME NEW r \in Requests, PromoteCount(r)
        PROVE  TypeOK'
    <2>1. req[r] \in PromoteReq
      BY <1>6, ReqShape DEF PromoteCount
    <2> QED
      BY <1>6, <2>1 DEF PromoteCount, ReqState, IdleReq, PromoteReq
  <1>7. ASSUME NEW r \in Requests, PromotePick(r)
        PROVE  TypeOK'
    <2>1. req[r].s \in Shifts
      BY <1>7, ReqShape DEF PromotePick, PromoteReq
    <2>2. ASSUME NEW v \in FirstInLine(req[r].s)
          PROVE  [op |-> "overlap", v |-> v, s |-> req[r].s] \in ReqState
      BY <2>1 DEF ReqState, PickedReq, FirstInLine, Waiting
    <2>3. req' \in [Requests -> ReqState]
      BY <1>7, <2>2 DEF PromotePick, ReqState, IdleReq
    <2> QED
      BY <1>7, <2>3 DEF PromotePick
  <1>8. ASSUME NEW r \in Requests, PromoteOverlap(r)
        PROVE  TypeOK'
    <2>1. req[r] \in PickedReq
      BY <1>8, ReqShape DEF PromoteOverlap
    <2>2. [req[r] EXCEPT !.op = "write"] \in ReqState
      BY <2>1 DEF PickedReq, ReqState
    <2> QED
      BY <1>8, <2>2 DEF PromoteOverlap, ReqState, IdleReq
  <1>9. ASSUME NEW r \in Requests, PromoteWrite(r)
        PROVE  TypeOK'
    <2>1. req[r] \in PickedReq
      BY <1>9, ReqShape DEF PromoteWrite
    <2>2. reg' \in [Rows -> RegStatus] /\ pos' \in [Rows -> Nat]
            /\ asg' \in [Rows -> AsgStatus]
      <3>1. <<req[r].v, req[r].s>> \in Rows
        BY <2>1 DEF PickedReq
      <3>2. CASE CanInsertAssignment(req[r].v, req[r].s)
        <4> DEFINE row == <<req[r].v, req[r].s>>
        <4>1. /\ reg' = [reg EXCEPT ![row] = "REGISTERED"]
              /\ pos' = [pos EXCEPT ![row] = 0]
              /\ asg' = [asg EXCEPT ![row] = "ASSIGNED"]
          BY <1>9, <3>2 DEF PromoteWrite
        <4>2. row \in Rows
          BY <3>1
        <4> HIDE DEF row, Rows
        <4> QED
          BY <4>1, <4>2 DEF RegStatus, AsgStatus
      <3>3. CASE ~CanInsertAssignment(req[r].v, req[r].s)
        BY <1>9, <3>3 DEF PromoteWrite
      <3> QED
        BY <3>2, <3>3
    <2> QED
      BY <1>9, <2>2 DEF PromoteWrite, ReqState, IdleReq
  <1>10. ASSUME NEW r \in Requests, Lost(r)
         PROVE  TypeOK'
    BY <1>10 DEF Lost, ReqState, IdleReq
  <1>11. ASSUME NEW s \in Shifts, NEW status \in StatusUpdates, SetShiftStatus(s, status)
         PROVE  TypeOK'
    <2>1. shiftStatus' \in [Shifts -> ShiftStatus]
      BY <1>11, Switches DEF SetShiftStatus
    <2>2. req' \in [Requests -> ReqState]
      BY <1>11, ReqShape DEF SetShiftStatus, ReqState
    <2> QED
      BY <1>11, <2>1, <2>2 DEF SetShiftStatus
  <1>12. ASSUME NEW v \in Volunteers, ReviewCredential(v)
         PROVE  TypeOK'
    BY <1>12 DEF ReviewCredential
  <1>13. CASE UNCHANGED vars
    BY <1>13 DEF vars
  <1> QED
    BY <1>1, <1>2, <1>3, <1>4, <1>5, <1>6, <1>7, <1>8, <1>9, <1>10, <1>11,
       <1>12, <1>13 DEF Next, Continue

\* Every variable keeps its type.
THEOREM TypeCorrect == Spec => []TypeOK
  <1>1. Init => TypeOK
    BY DEF Init, TypeOK, Rows, RegStatus, AsgStatus, ShiftStatus, ReqState, IdleReq
  <1> QED
    BY <1>1, TypeStep, PTL DEF Spec

-----------------------------------------------------------------------------
\* Only three steps touch the rows of registration and assignment.
LEMMA RowSteps ==
    ASSUME [Next]_vars
    PROVE  \/ UNCHANGED <<reg, asg>>
           \/ \E r \in Requests : RegisterCommit(r) \/ CancelWrite(r) \/ PromoteWrite(r)
  BY DEF Next, Continue, vars, RegisterBegin, RegisterAbort, CancelRead, PromoteCount,
         PromotePick, PromoteOverlap, Lost, SetShiftStatus, ReviewCredential

\* What those steps do to a row, and that they touch no other.
LEMMA RegisterCommitRow ==
    ASSUME TypeOK, NEW r \in Requests, RegisterCommit(r),
           NEW v \in Volunteers, NEW s \in Shifts
    PROVE  IF v = req[r].v /\ s = req[r].s
           THEN /\ reg[<<v, s>>] = "NONE" /\ reg'[<<v, s>>] = req[r].status
                /\ req[r].status = "REGISTERED" =>
                     CanInsertAssignment(v, s) /\ asg'[<<v, s>>] = "ASSIGNED"
                /\ req[r].status = "WAITLISTED" => asg'[<<v, s>>] = asg[<<v, s>>]
                /\ req[r].status \in {"REGISTERED", "WAITLISTED"}
           ELSE reg'[<<v, s>>] = reg[<<v, s>>] /\ asg'[<<v, s>>] = asg[<<v, s>>]
  <1>1. req[r] \in RegisterReq
    BY ReqShape DEF TypeOK, RegisterCommit
  <1>2. req[r].v \in Volunteers /\ req[r].s \in Shifts
          /\ req[r].status \in {"REGISTERED", "WAITLISTED"}
    BY <1>1 DEF RegisterReq
  <1> DEFINE t == req[r]
  <1>3. /\ InsertAllowed(t)
        /\ reg' = [reg EXCEPT ![<<t.v, t.s>>] = t.status]
        /\ asg' = [asg EXCEPT ![<<t.v, t.s>>] =
                     IF t.status = "REGISTERED" THEN "ASSIGNED" ELSE @]
    BY DEF RegisterCommit
  <1> HIDE DEF t
  <1> QED
    BY <1>2, <1>3 DEF TypeOK, Rows, InsertAllowed, t

LEMMA CancelWriteRow ==
    ASSUME TypeOK, NEW r \in Requests, CancelWrite(r),
           NEW v \in Volunteers, NEW s \in Shifts
    PROVE  IF v = req[r].v /\ s = req[r].s
           THEN /\ reg'[<<v, s>>] = "CANCELLED"
                /\ asg'[<<v, s>>] = IF Active(asg[<<v, s>>]) THEN "CANCELLED" ELSE asg[<<v, s>>]
           ELSE reg'[<<v, s>>] = reg[<<v, s>>] /\ asg'[<<v, s>>] = asg[<<v, s>>]
  <1>1. req[r] \in CancelReq
    BY ReqShape DEF TypeOK, CancelWrite
  <1> QED
    BY <1>1 DEF CancelWrite, TypeOK, Rows, CancelReq

LEMMA PromoteWriteRow ==
    ASSUME TypeOK, NEW r \in Requests, PromoteWrite(r),
           NEW v \in Volunteers, NEW s \in Shifts
    PROVE  IF v = req[r].v /\ s = req[r].s /\ CanInsertAssignment(v, s)
           THEN reg'[<<v, s>>] = "REGISTERED" /\ asg'[<<v, s>>] = "ASSIGNED"
           ELSE reg'[<<v, s>>] = reg[<<v, s>>] /\ asg'[<<v, s>>] = asg[<<v, s>>]
  <1>1. req[r] \in PickedReq
    BY ReqShape DEF TypeOK, PromoteWrite
  <1>2. <<req[r].v, req[r].s>> \in Rows
    BY <1>1 DEF PickedReq, Rows
  <1>3. CASE CanInsertAssignment(req[r].v, req[r].s)
    <2>1. /\ reg' = [reg EXCEPT ![<<req[r].v, req[r].s>>] = "REGISTERED"]
          /\ asg' = [asg EXCEPT ![<<req[r].v, req[r].s>>] = "ASSIGNED"]
      BY <1>3 DEF PromoteWrite
    <2> QED
      BY <1>2, <1>3, <2>1 DEF TypeOK, Rows
  <1>4. CASE ~CanInsertAssignment(req[r].v, req[r].s)
    BY <1>4 DEF PromoteWrite
  <1> QED
    BY <1>3, <1>4

\* Registration and assignment of a row agree in every reachable state.
THEOREM SeatsAreBacked == Spec => []SeatBacked
  <1>1. Init => SeatBacked
    BY DEF Init, SeatBacked, Rows
  <1>2. TypeOK /\ SeatBacked /\ [Next]_vars => SeatBacked'
    <2> SUFFICES ASSUME TypeOK, SeatBacked, [Next]_vars,
                        NEW v \in Volunteers, NEW s \in Shifts
                 PROVE  /\ reg'[<<v, s>>] = "REGISTERED" <=> asg'[<<v, s>>] = "ASSIGNED"
                        /\ reg'[<<v, s>>] \in {"NONE", "WAITLISTED"} => asg'[<<v, s>>] = "NONE"
      BY DEF SeatBacked
    <2>1. /\ reg[<<v, s>>] = "REGISTERED" <=> asg[<<v, s>>] = "ASSIGNED"
          /\ reg[<<v, s>>] \in {"NONE", "WAITLISTED"} => asg[<<v, s>>] = "NONE"
      BY DEF SeatBacked
    <2>2. asg[<<v, s>>] \in AsgStatus
      BY DEF TypeOK, Rows
    <2>3. CASE UNCHANGED <<reg, asg>>
      BY <2>1, <2>3
    <2>4. ASSUME NEW r \in Requests, RegisterCommit(r)
          PROVE  /\ reg'[<<v, s>>] = "REGISTERED" <=> asg'[<<v, s>>] = "ASSIGNED"
                 /\ reg'[<<v, s>>] \in {"NONE", "WAITLISTED"} => asg'[<<v, s>>] = "NONE"
      BY <2>1, <2>4, RegisterCommitRow
    <2>5. ASSUME NEW r \in Requests, CancelWrite(r)
          PROVE  /\ reg'[<<v, s>>] = "REGISTERED" <=> asg'[<<v, s>>] = "ASSIGNED"
                 /\ reg'[<<v, s>>] \in {"NONE", "WAITLISTED"} => asg'[<<v, s>>] = "NONE"
      BY <2>1, <2>2, <2>5, CancelWriteRow DEF Active, AsgStatus
    <2>6. ASSUME NEW r \in Requests, PromoteWrite(r)
          PROVE  /\ reg'[<<v, s>>] = "REGISTERED" <=> asg'[<<v, s>>] = "ASSIGNED"
                 /\ reg'[<<v, s>>] \in {"NONE", "WAITLISTED"} => asg'[<<v, s>>] = "NONE"
      BY <2>1, <2>6, PromoteWriteRow
    <2> QED
      BY <2>3, <2>4, <2>5, <2>6, RowSteps
  <1> QED
    BY <1>1, <1>2, TypeCorrect, PTL DEF Spec

-----------------------------------------------------------------------------
\* With the exclusion constraint deployed nobody is ever double-booked, also
\* when a promotion's overlap check is stale by the time it writes.
THEOREM NobodyDoubleBooked == ExclusionConstraint => (Spec => []NoDoubleBooking)
  <1> SUFFICES ASSUME ExclusionConstraint PROVE Spec => []NoDoubleBooking
    OBVIOUS
  <1>1. Init => NoDoubleBooking
    BY DEF Init, NoDoubleBooking, Rows, Active
  <1>2. TypeOK /\ NoDoubleBooking /\ [Next]_vars => NoDoubleBooking'
    <2> SUFFICES ASSUME TypeOK, NoDoubleBooking, [Next]_vars,
                        NEW v \in Volunteers, NEW s \in Shifts, NEW t \in Shifts,
                        Active(asg'[<<v, s>>]), Active(asg'[<<v, t>>]), Overlaps(s, t),
                        s # t
                 PROVE  FALSE
      BY DEF NoDoubleBooking
    <2> DEFINE Kept(u) ==
          \/ Active(asg[<<v, u>>])
          \/ /\ ~Clash(v, u)
             /\ \A w \in Shifts : w # u => asg'[<<v, w>>] = asg[<<v, w>>]
    \* A row that becomes active clashes with nothing; the others were active.
    <2>1. ASSUME NEW u \in Shifts, Active(asg'[<<v, u>>]) PROVE Kept(u)
      <3>1. CASE UNCHANGED <<reg, asg>>
        BY <2>1, <3>1
      <3>2. ASSUME NEW r \in Requests, RegisterCommit(r) PROVE Kept(u)
        BY <2>1, <3>2, RegisterCommitRow DEF CanInsertAssignment, Active
      <3>3. ASSUME NEW r \in Requests, CancelWrite(r) PROVE Kept(u)
        BY <2>1, <3>3, CancelWriteRow DEF Active
      <3>4. ASSUME NEW r \in Requests, PromoteWrite(r) PROVE Kept(u)
        BY <2>1, <3>4, PromoteWriteRow DEF CanInsertAssignment, Active
      <3> QED
        BY <3>1, <3>2, <3>3, <3>4, RowSteps
    <2>2. Overlaps(t, s)
      BY ShiftTimes DEF Overlaps
    <2> QED
      BY <2>1, <2>2 DEF NoDoubleBooking, Clash
  <1> QED
    BY <1>1, <1>2, TypeCorrect, PTL DEF Spec

-----------------------------------------------------------------------------
\* What a handler can be doing after a step: it was at it already, or it has
\* just got there.  (An undoomed transaction, and a request that names a row.)
LEMMA HandlerSteps ==
    ASSUME TypeOK, [Next]_vars, NEW o \in Requests
    PROVE  /\ req'[o].op = "register" /\ ~req'[o].doomed =>
                \/ req'[o] = req[o]
                \/ \E v \in Volunteers, s \in Shifts : RegisterBegin(o, v, s)
           /\ req'[o].op \in {"cancel", "overlap", "write"} =>
                \/ /\ req[o].op \in {"cancel", "overlap", "write"}
                   /\ req'[o].v = req[o].v /\ req'[o].s = req[o].s
                \/ Active(reg[<<req'[o].v, req'[o].s>>])
  <1> DEFINE Kept ==
        /\ req'[o].op = "register" /\ ~req'[o].doomed => req'[o] = req[o]
        /\ req'[o].op \in {"cancel", "overlap", "write"} => req'[o] = req[o]
  <1>1. ASSUME req[o].op = "register"
        PROVE  Doomed(req[o]).doomed /\ Doomed(req[o]).op = "register"
    BY <1>1, ReqShape DEF TypeOK, Doomed, RegisterReq
  <1>2. ASSUME NEW r \in Requests, RegisterCommit(r) PROVE Kept
    <2>1. req'[o] = IF o = r THEN Idle
                    ELSE IF Conflicts(req[o], req[r]) THEN Doomed(req[o])
                    ELSE req[o]
      BY <1>2 DEF RegisterCommit
    <2> QED
      BY <2>1, <1>1 DEF Idle, Conflicts
  <1>3. ASSUME NEW s \in Shifts, NEW status \in StatusUpdates, SetShiftStatus(s, status)
        PROVE  Kept
    <2>1. req'[o] = IF req[o].op = "register" /\ req[o].s = s
                    THEN Doomed(req[o]) ELSE req[o]
      BY <1>3 DEF SetShiftStatus
    <2> QED
      BY <2>1, <1>1
  <1>4. ASSUME NEW r \in Requests, NEW v \in Volunteers, NEW s \in Shifts,
               RegisterBegin(r, v, s)
        PROVE  /\ req'[o].op = "register" =>
                    req'[o] = req[o] \/ RegisterBegin(o, v, s)
               /\ req'[o].op # "register" => req'[o] = req[o]
    BY <1>4 DEF RegisterBegin, TypeOK
  <1>5. ASSUME NEW r \in Requests, NEW v \in Volunteers, NEW s \in Shifts,
               CancelRead(r, v, s)
        PROVE  req'[o] = req[o] \/ (/\ req'[o].op = "cancel"
                                    /\ Active(reg[<<req'[o].v, req'[o].s>>]))
    BY <1>5 DEF CancelRead, TypeOK
  <1>6. ASSUME NEW r \in Requests,
               RegisterAbort(r) \/ CancelWrite(r) \/ PromoteCount(r) \/ PromoteWrite(r)
               \/ Lost(r)
        PROVE  Kept
    BY <1>6 DEF RegisterAbort, CancelWrite, PromoteCount, PromoteWrite, Lost, TypeOK, Idle
  <1>7. ASSUME NEW r \in Requests, PromotePick(r)
        PROVE  req'[o] = req[o] \/ req'[o].op = "idle"
                 \/ (/\ req'[o].op = "overlap"
                     /\ Active(reg[<<req'[o].v, req'[o].s>>]))
    <2> DEFINE line == req[r].s
    <2>1. CASE req' = [req EXCEPT ![r] = Idle]
      BY <2>1 DEF TypeOK, Idle
    <2>2. ASSUME NEW v \in FirstInLine(line),
                 req' = [req EXCEPT ![r] = [op |-> "overlap", v |-> v, s |-> line]]
          PROVE  req'[o] = req[o] \/ (/\ req'[o].op = "overlap"
                                      /\ Active(reg[<<req'[o].v, req'[o].s>>]))
      <3>1. Active(reg[<<v, line>>])
        BY DEF FirstInLine, Waiting, Active
      <3> HIDE DEF line
      <3> QED
        BY <2>2, <3>1 DEF TypeOK
    <2> QED
      BY <1>7, <2>1, <2>2 DEF PromotePick
  <1>8. ASSUME NEW r \in Requests, PromoteOverlap(r)
        PROVE  req'[o] = req[o] \/ req'[o].op = "idle"
                 \/ (/\ req[o].op = "overlap" /\ req'[o].op = "write"
                     /\ req'[o].v = req[o].v /\ req'[o].s = req[o].s)
    <2>1. req[r] \in PickedReq
      BY <1>8, ReqShape DEF PromoteOverlap, TypeOK
    <2> DEFINE w == [req[r] EXCEPT !.op = "write"]
    <2>2. w.op = "write" /\ w.v = req[r].v /\ w.s = req[r].s
      BY <2>1 DEF PickedReq
    <2> QED
      BY <1>8, <2>2 DEF PromoteOverlap, TypeOK, Idle
  <1>9. CASE (\E v \in Volunteers : ReviewCredential(v)) \/ UNCHANGED vars
    BY <1>9 DEF ReviewCredential, vars
  <1> QED
    BY <1>2, <1>3, <1>4, <1>5, <1>6, <1>7, <1>8, <1>9 DEF Next, Continue

\* A transaction the database would commit has locked a shift that is still
\* PUBLISHED: any update of the row since the snapshot has doomed it.
UndoomedIsOpen ==
    \A r \in Requests : req[r].op = "register" /\ ~req[r].doomed =>
        shiftStatus[req[r].s] = "PUBLISHED"

\* A cancellation or promotion names a row that exists.
KnownRows ==
    \A r \in Requests : req[r].op \in {"cancel", "overlap", "write"} =>
        reg[<<req[r].v, req[r].s>>] # "NONE"

LEMMA UndoomedIsOpenStep == TypeOK /\ UndoomedIsOpen /\ [Next]_vars => UndoomedIsOpen'
  <1> SUFFICES ASSUME TypeOK, UndoomedIsOpen, [Next]_vars, NEW o \in Requests,
                      req'[o].op = "register", ~req'[o].doomed
               PROVE  shiftStatus'[req'[o].s] = "PUBLISHED"
    BY DEF UndoomedIsOpen
  <1>1. CASE \E v \in Volunteers, s \in Shifts : RegisterBegin(o, v, s)
    BY <1>1 DEF RegisterBegin, TypeOK
  <1>2. CASE req'[o] = req[o]
    <2>1. shiftStatus[req[o].s] = "PUBLISHED"
      BY <1>2 DEF UndoomedIsOpen
    <2>2. ASSUME NEW s \in Shifts, NEW status \in StatusUpdates, SetShiftStatus(s, status)
          PROVE  shiftStatus'[req[o].s] = shiftStatus[req[o].s]
      <3>1. req[o].s # s
        BY <2>2, <1>2, ReqShape DEF SetShiftStatus, TypeOK, Doomed, RegisterReq
      <3> QED
        BY <2>2, <3>1 DEF SetShiftStatus, TypeOK
    <2>3. \/ UNCHANGED shiftStatus
          \/ \E s \in Shifts, status \in StatusUpdates : SetShiftStatus(s, status)
      BY DEF Next, Continue, vars, RegisterBegin, RegisterCommit, RegisterAbort,
             CancelRead, CancelWrite, PromoteCount, PromotePick, PromoteOverlap,
             PromoteWrite, Lost, ReviewCredential
    <2> QED
      BY <1>2, <2>1, <2>2, <2>3
  <1> QED
    BY <1>1, <1>2, HandlerSteps

LEMMA KnownRowsStep == TypeOK /\ KnownRows /\ [Next]_vars => KnownRows'
  <1> SUFFICES ASSUME TypeOK, KnownRows, [Next]_vars, NEW o \in Requests,
                      req'[o].op \in {"cancel", "overlap", "write"}
               PROVE  reg'[<<req'[o].v, req'[o].s>>] # "NONE"
    BY DEF KnownRows
  <1>1. reg[<<req'[o].v, req'[o].s>>] # "NONE"
    BY HandlerSteps DEF KnownRows, Active
  <1>2. req'[o].v \in Volunteers /\ req'[o].s \in Shifts
    <2>1. TypeOK'
      BY TypeStep
    <2>2. req'[o] \in ReqState
      BY <2>1 DEF TypeOK
    <2> QED
      BY <2>2, ReqShape DEF CancelReq, PickedReq
  <1>3. CASE UNCHANGED <<reg, asg>>
    BY <1>1, <1>3
  <1>4. ASSUME NEW r \in Requests, RegisterCommit(r) \/ CancelWrite(r) \/ PromoteWrite(r)
        PROVE  reg'[<<req'[o].v, req'[o].s>>] # "NONE"
    BY <1>1, <1>2, <1>4, RegisterCommitRow, CancelWriteRow, PromoteWriteRow
  <1> QED
    BY <1>3, <1>4, RowSteps

\* Registrations are only ever inserted while their shift is PUBLISHED.
THEOREM InsertedWhilePublished == Spec => InsertsWhilePublished
  <1>1. Init => UndoomedIsOpen /\ KnownRows
    BY DEF Init, UndoomedIsOpen, KnownRows, Idle
  <1>2. ASSUME TypeOK, UndoomedIsOpen, KnownRows, [Next]_vars,
               NEW v \in Volunteers, NEW s \in Shifts,
               reg[<<v, s>>] = "NONE", reg'[<<v, s>>] # "NONE"
        PROVE  shiftStatus[s] = "PUBLISHED"
    <2>1. ASSUME NEW r \in Requests, RegisterCommit(r)
          PROVE  shiftStatus[s] = "PUBLISHED"
      <3>1. s = req[r].s
        BY <1>2, <2>1, RegisterCommitRow
      <3> QED
        BY <1>2, <2>1, <3>1 DEF RegisterCommit, UndoomedIsOpen
    <2>2. ASSUME NEW r \in Requests, CancelWrite(r) PROVE FALSE
      <3>1. v = req[r].v /\ s = req[r].s
        BY <1>2, <2>2, CancelWriteRow
      <3> QED
        BY <1>2, <2>2, <3>1 DEF CancelWrite, KnownRows
    <2>3. ASSUME NEW r \in Requests, PromoteWrite(r) PROVE FALSE
      <3>1. v = req[r].v /\ s = req[r].s
        BY <1>2, <2>3, PromoteWriteRow
      <3> QED
        BY <1>2, <2>3, <3>1 DEF PromoteWrite, KnownRows
    <2> QED
      BY <1>2, <2>1, <2>2, <2>3, RowSteps
  <1>3. TypeOK /\ UndoomedIsOpen /\ KnownRows /\ [Next]_vars =>
          [\A v \in Volunteers, s \in Shifts :
              reg[<<v, s>>] = "NONE" /\ reg'[<<v, s>>] # "NONE" =>
                 shiftStatus[s] = "PUBLISHED"]_vars
    BY <1>2
  <1> QED
    BY <1>1, <1>3, UndoomedIsOpenStep, KnownRowsStep, TypeCorrect, PTL
       DEF Spec, InsertsWhilePublished

-----------------------------------------------------------------------------
LEMMA OneMore ==
    ASSUME NEW A, IsFiniteSet(A), NEW x, NEW B, B \subseteq A \cup {x}
    PROVE  IsFiniteSet(B) /\ Cardinality(B) \in Nat /\ Cardinality(A) \in Nat
             /\ Cardinality(B) <= Cardinality(A) + 1
  <1>1. IsFiniteSet(A \cup {x}) /\ Cardinality(A \cup {x}) <= Cardinality(A) + 1
    <2>1. Cardinality(A) \in Nat
      BY FS_CardinalityType
    <2>2. /\ IsFiniteSet(A \cup {x})
          /\ \/ Cardinality(A \cup {x}) = Cardinality(A)
             \/ Cardinality(A \cup {x}) = Cardinality(A) + 1
      BY FS_AddElement
    <2> QED
      BY <2>1, <2>2
  <1> QED
    BY <1>1, FS_Subset, FS_CardinalityType

LEMMA OneLess ==
    ASSUME NEW A, IsFiniteSet(A), NEW x \in A, NEW B, B \subseteq A \ {x}
    PROVE  IsFiniteSet(B) /\ Cardinality(B) \in Nat /\ Cardinality(A) \in Nat
             /\ Cardinality(B) <= Cardinality(A) - 1
  <1>1. IsFiniteSet(A \ {x}) /\ Cardinality(A \ {x}) = Cardinality(A) - 1
    BY FS_RemoveElement
  <1> QED
    BY <1>1, FS_Subset, FS_CardinalityType

\* Promotions that have passed the count of shift s (and walk-ins, which are
\* among OtherReq), and registrations that may still take a seat on it.
Takers(s) ==
    {r \in Requests : req[r].op \in {"pick", "overlap", "write", "walkin"} /\ req[r].s = s}
Booking(s) ==
    {r \in Requests : /\ req[r].op = "register" /\ ~req[r].doomed
                      /\ req[r].status = "REGISTERED" /\ req[r].s = s}

\* Each of the takers may still take a seat, and so may one of the
\* registrations: the first to commit dooms the others.
SeatBound(s) ==
    Cardinality(Seated(s)) + Cardinality(Takers(s))
        + (IF Booking(s) = {} THEN 0 ELSE 1)
      <= CapacityMax[s] + Cardinality(Requests) - 1

LEMMA SizesAreNat ==
    ASSUME NEW s \in Shifts
    PROVE  /\ IsFiniteSet(Seated(s)) /\ Cardinality(Seated(s)) \in Nat
           /\ IsFiniteSet(Takers(s)) /\ Cardinality(Takers(s)) \in Nat
           /\ IsFiniteSet(Requests) /\ Cardinality(Requests) \in Nat \ {0}
           /\ CapacityMax[s] \in Nat
  <1>1. Takers(s) \subseteq Requests
    BY DEF Takers
  <1>2. Cardinality(Requests) # 0
    BY FiniteIds, FS_EmptySet
  <1> QED
    BY <1>1, <1>2, FiniteIds, CapacityIsNat, SeatedAreActive, FS_Subset,
       FS_CardinalityType

\* Steps that add no seat, no promotion and no booking keep the bound.
LEMMA FewerKeepBound ==
    ASSUME NEW s \in Shifts, SeatBound(s), Seated(s)' \subseteq Seated(s),
           Takers(s)' \subseteq Takers(s), Booking(s)' \subseteq Booking(s)
    PROVE  SeatBound(s)'
  <1>1. Cardinality(Seated(s)') <= Cardinality(Seated(s))
          /\ Cardinality(Seated(s)') \in Nat
    BY SizesAreNat, FS_Subset, FS_CardinalityType
  <1>2. Cardinality(Takers(s)') <= Cardinality(Takers(s))
          /\ Cardinality(Takers(s)') \in Nat
    BY SizesAreNat, FS_Subset, FS_CardinalityType
  <1>3. Booking(s) = {} => Booking(s)' = {}
    OBVIOUS
  <1>4. (IF Booking(s)' = {} THEN 0 ELSE 1) <= (IF Booking(s) = {} THEN 0 ELSE 1)
    BY <1>3
  <1> HIDE DEF Seated, Takers, Booking
  <1> QED
    BY <1>1, <1>2, <1>4, SizesAreNat DEF SeatBound

LEMMA SeatBoundStep ==
    ASSUME TypeOK, [Next]_vars, NEW s \in Shifts, SeatBound(s)
    PROVE  SeatBound(s)'
  <1> DEFINE Fewer == /\ Seated(s)' \subseteq Seated(s)
                      /\ Takers(s)' \subseteq Takers(s)
                      /\ Booking(s)' \subseteq Booking(s)
  <1>1. ASSUME NEW r \in Requests, NEW v \in Volunteers, NEW t \in Shifts,
               RegisterBegin(r, v, t)
        PROVE  SeatBound(s)'
    <2>1. Seated(s)' = Seated(s)
      BY <1>1 DEF RegisterBegin, Seated
    <2>2. Takers(s)' = Takers(s) /\ r \notin Takers(s)'
      BY <1>1 DEF RegisterBegin, Takers, TypeOK, Idle
    <2>3. CASE s = t /\ ~(ActiveCount(s) >= CapacityMax[s])
      <3>1. Cardinality(Seated(s)) <= CapacityMax[s] - 1
        BY <2>3, SeatedAreActive, SizesAreNat
      <3>2. Takers(s) \subseteq Requests \ {r}
        BY <2>2 DEF Takers
      <3>3. Cardinality(Takers(s)) <= Cardinality(Requests) - 1
        BY <3>2, FiniteIds, OneLess
      <3> QED
        BY <2>1, <2>2, <3>1, <3>3, SizesAreNat DEF SeatBound
    <2>4. CASE s # t \/ ActiveCount(s) >= CapacityMax[s]
      <3>1. Booking(s)' \subseteq Booking(s)
        BY <1>1, <2>4 DEF RegisterBegin, Booking, TypeOK
      <3> QED
        BY <2>1, <2>2, <3>1, FewerKeepBound
    <2> QED
      BY <2>3, <2>4
  <1>2. ASSUME NEW r \in Requests, RegisterCommit(r)
        PROVE  SeatBound(s)'
    <2>1. req[r] \in RegisterReq
      BY <1>2, ReqShape DEF RegisterCommit, TypeOK
    <2>2. ASSUME NEW o \in Requests
          PROVE  /\ req'[o] = req[o] \/ req'[o].op = "idle"
                      \/ (req'[o].op = "register" /\ req'[o].doomed)
                 /\ req[r].s = s => ~(/\ req'[o].op = "register" /\ ~req'[o].doomed
                                      /\ req'[o].s = s)
      <3>1. req'[o] = IF o = r THEN Idle
                      ELSE IF Conflicts(req[o], req[r]) THEN Doomed(req[o])
                      ELSE req[o]
        BY <1>2 DEF RegisterCommit
      <3>2. Conflicts(req[o], req[r]) =>
              Doomed(req[o]).op = "register" /\ Doomed(req[o]).doomed
        BY ReqShape DEF Conflicts, TypeOK, Doomed, RegisterReq
      <3>3. req[o].op = "register" /\ req[o].s = req[r].s => Conflicts(req[o], req[r])
        BY DEF Conflicts
      <3> QED
        BY <3>1, <3>2, <3>3 DEF Idle
    <2>3. Takers(s)' \subseteq Takers(s) /\ Booking(s)' \subseteq Booking(s)
      BY <2>2 DEF Takers, Booking
    <2>4. CASE req[r].s = s /\ req[r].status = "REGISTERED"
      <3>1. Seated(s)' \subseteq Seated(s) \cup {req[r].v}
        BY <1>2, RegisterCommitRow DEF Seated
      <3>2. Cardinality(Seated(s)') <= Cardinality(Seated(s)) + 1
              /\ Cardinality(Seated(s)') \in Nat
        BY <3>1, SizesAreNat, OneMore
      <3>3. r \in Booking(s)
        BY <1>2, <2>4 DEF RegisterCommit, Booking
      <3>4. Booking(s)' = {}
        BY <2>2, <2>4 DEF Booking
      <3>5. Cardinality(Takers(s)') <= Cardinality(Takers(s))
              /\ Cardinality(Takers(s)') \in Nat
        BY <2>3, SizesAreNat, FS_Subset, FS_CardinalityType
      <3> HIDE DEF Seated, Takers, Booking
      <3> QED
        BY <3>2, <3>3, <3>4, <3>5, SizesAreNat DEF SeatBound
    <2>5. CASE req[r].s # s \/ req[r].status = "WAITLISTED"
      <3>1. Seated(s)' \subseteq Seated(s)
        BY <1>2, <2>5, RegisterCommitRow DEF Seated
      <3> QED
        BY <2>3, <3>1, FewerKeepBound
    <2> QED
      BY <2>1, <2>4, <2>5 DEF RegisterReq
  <1>3. ASSUME NEW r \in Requests, PromoteCount(r)
        PROVE  SeatBound(s)'
    <2>1. Seated(s)' = Seated(s)
      BY <1>3 DEF PromoteCount, Seated
    <2>2. Booking(s)' = Booking(s) /\ r \notin Booking(s)
      BY <1>3 DEF PromoteCount, Booking, TypeOK, Idle
    <2>3. CASE req[r].s = s /\ ~(ActiveCount(s) >= CapacityMax[s])
      <3>1. Cardinality(Seated(s)) <= CapacityMax[s] - 1
        BY <2>3, SeatedAreActive, SizesAreNat
      <3>2. Takers(s)' \subseteq Requests
        BY DEF Takers
      <3>3. Cardinality(Takers(s)') <= Cardinality(Requests)
              /\ Cardinality(Takers(s)') \in Nat
        BY <3>2, FiniteIds, FS_Subset, FS_CardinalityType
      <3>4. ASSUME NEW b \in Booking(s)
            PROVE  Cardinality(Takers(s)') <= Cardinality(Requests) - 1
        <4>1. Takers(s)' \subseteq Requests \ {b}
          BY <2>2 DEF Takers, Booking
        <4> QED
          BY <4>1, FiniteIds, OneLess DEF Booking
      <3> HIDE DEF Seated, Takers, Booking
      <3> QED
        BY <2>1, <2>2, <3>1, <3>3, <3>4, SizesAreNat DEF SeatBound
    <2>4. CASE req[r].s # s \/ ActiveCount(s) >= CapacityMax[s]
      <3>1. Takers(s)' \subseteq Takers(s)
        BY <1>3, <2>4 DEF PromoteCount, Takers, TypeOK, Idle
      <3> QED
        BY <2>1, <2>2, <3>1, FewerKeepBound
    <2> QED
      BY <2>3, <2>4
  <1>4. ASSUME NEW r \in Requests, PromoteWrite(r)
        PROVE  SeatBound(s)'
    <2>1. Booking(s)' \subseteq Booking(s)
      BY <1>4 DEF PromoteWrite, Booking, TypeOK, Idle
    <2>2. Takers(s)' \subseteq Takers(s) \ {r}
      BY <1>4 DEF PromoteWrite, Takers, TypeOK, Idle
    <2>3. CASE req[r].s = s
      <3>1. Seated(s)' \subseteq Seated(s) \cup {req[r].v}
        BY <1>4, PromoteWriteRow DEF Seated
      <3>2. Cardinality(Seated(s)') <= Cardinality(Seated(s)) + 1
              /\ Cardinality(Seated(s)') \in Nat
        BY <3>1, SizesAreNat, OneMore
      <3>3. r \in Takers(s)
        BY <1>4, <2>3 DEF PromoteWrite, Takers
      <3>4. Cardinality(Takers(s)') <= Cardinality(Takers(s)) - 1
              /\ Cardinality(Takers(s)') \in Nat
        BY <2>2, <3>3, SizesAreNat, OneLess
      <3>5. Booking(s) = {} => Booking(s)' = {}
        BY <2>1
      <3>6. (IF Booking(s)' = {} THEN 0 ELSE 1) <= (IF Booking(s) = {} THEN 0 ELSE 1)
        BY <3>5
      <3> HIDE DEF Seated, Takers, Booking
      <3> QED
        BY <3>2, <3>4, <3>6, SizesAreNat DEF SeatBound
    <2>4. CASE req[r].s # s
      <3>1. Seated(s)' \subseteq Seated(s)
        BY <1>4, <2>4, PromoteWriteRow DEF Seated
      <3> QED
        BY <2>1, <2>2, <3>1, FewerKeepBound
    <2> QED
      BY <2>3, <2>4
  <1>5. ASSUME NEW r \in Requests, CancelWrite(r) PROVE Fewer
    <2>1. Seated(s)' \subseteq Seated(s)
      BY <1>5, CancelWriteRow DEF Seated
    <2> QED
      BY <1>5, <2>1 DEF CancelWrite, Takers, Booking, TypeOK
  <1>6. ASSUME NEW r \in Requests, PromotePick(r) PROVE Fewer
    <2>1. req'[r].op = "idle" \/ (req'[r].op = "overlap" /\ req'[r].s = req[r].s)
      BY <1>6 DEF PromotePick, TypeOK, Idle
    <2>2. \A o \in Requests : o # r => req'[o] = req[o]
      BY <1>6 DEF PromotePick, TypeOK
    <2>3. req[r].op = "pick" /\ UNCHANGED reg
      BY <1>6 DEF PromotePick
    <2> QED
      BY <2>1, <2>2, <2>3 DEF Takers, Booking, Seated
  <1>7. ASSUME NEW r \in Requests, PromoteOverlap(r) PROVE Fewer
    <2>1. req[r] \in PickedReq
      BY <1>7, ReqShape DEF PromoteOverlap, TypeOK
    <2> DEFINE w == [req[r] EXCEPT !.op = "write"]
    <2>2. w.op = "write" /\ w.s = req[r].s
      BY <2>1 DEF PickedReq
    <2>3. req'[r] = Idle \/ req'[r] = w
      BY <1>7 DEF PromoteOverlap, TypeOK
    <2>4. \A o \in Requests : o # r => req'[o] = req[o]
      BY <1>7 DEF PromoteOverlap, TypeOK
    <2>5. req[r].op = "overlap" /\ UNCHANGED reg
      BY <1>7 DEF PromoteOverlap
    <2> HIDE DEF w
    <2> QED
      BY <2>2, <2>3, <2>4, <2>5 DEF Takers, Booking, Seated, Idle
  <1>8. ASSUME NEW r \in Requests, RegisterAbort(r) \/ Lost(r) PROVE Fewer
    BY <1>8 DEF RegisterAbort, Lost, Takers, Booking, Seated, TypeOK, Idle
  <1>9. ASSUME NEW r \in Requests, NEW v \in Volunteers, NEW t \in Shifts,
               CancelRead(r, v, t)
        PROVE  Fewer
    BY <1>9 DEF CancelRead, Takers, Booking, Seated, TypeOK
  <1>10. ASSUME NEW t \in Shifts, NEW status \in StatusUpdates, SetShiftStatus(t, status)
         PROVE  Fewer
    <2>1. ASSUME NEW o \in Requests
          PROVE  req'[o] = req[o] \/ (req'[o].op = "register" /\ req'[o].doomed)
      BY <1>10, ReqShape DEF SetShiftStatus, TypeOK, Doomed, RegisterReq
    <2>2. UNCHANGED reg
      BY <1>10 DEF SetShiftStatus
    <2> QED
      BY <2>1, <2>2 DEF Takers, Booking, Seated
  <1>11. CASE (\E v \in Volunteers : ReviewCredential(v)) \/ UNCHANGED vars
    <2>1. Fewer
      BY <1>11 DEF ReviewCredential, vars, Takers, Booking, Seated
    <2> QED
      BY <2>1, FewerKeepBound
  <1>12. Fewer => SeatBound(s)'
    BY FewerKeepBound
  <1> HIDE DEF Fewer
  <1> QED
    BY <1>1, <1>2, <1>3, <1>4, <1>5, <1>6, <1>7, <1>8, <1>9, <1>10, <1>11, <1>12
       DEF Next, Continue

\* A shift is overbooked by at most the number of handlers minus one.
THEOREM OverbookingIsBounded == Spec => []OverbookingBounded
  <1>1. Init => \A s \in Shifts : SeatBound(s)
    <2> SUFFICES ASSUME Init, NEW s \in Shifts PROVE SeatBound(s)
      OBVIOUS
    <2>1. Seated(s) = {} /\ Takers(s) = {} /\ Booking(s) = {}
      BY DEF Init, Seated, Takers, Booking, Rows, Idle
    <2> QED
      BY <2>1, SizesAreNat, FS_EmptySet DEF SeatBound
  <1>2. TypeOK /\ (\A s \in Shifts : SeatBound(s)) /\ [Next]_vars =>
           (\A s \in Shifts : SeatBound(s))'
    BY SeatBoundStep
  <1>3. (\A s \in Shifts : SeatBound(s)) => OverbookingBounded
    <2> SUFFICES ASSUME NEW s \in Shifts, SeatBound(s)
                 PROVE  Cardinality(Seated(s)) <= CapacityMax[s] + Cardinality(Requests) - 1
      BY DEF OverbookingBounded
    <2> QED
      BY SizesAreNat DEF SeatBound
  <1> QED
    BY <1>1, <1>2, <1>3, TypeCorrect, PTL DEF Spec

\* With one request at a time, in whatever order, capacity is never exceeded.
THEOREM SerialCapacity ==
    Cardinality(Requests) = 1 => (Spec => []CapacityRespected)
  <1> SUFFICES ASSUME Cardinality(Requests) = 1 PROVE Spec => []CapacityRespected
    OBVIOUS
  <1>1. OverbookingBounded => CapacityRespected
    BY SizesAreNat DEF OverbookingBounded, CapacityRespected
  <1> QED
    BY <1>1, OverbookingIsBounded, PTL

-----------------------------------------------------------------------------
\* Registrations alone: no handler is ever at a cancellation or promotion, and
\* while one of them may still take a seat there is a seat left.
RegistersOnly == \A r \in Requests : req[r].op \in {"idle", "register"}
SeatLeft ==
    \A s \in Shifts :
        /\ Cardinality(Seated(s)) <= CapacityMax[s]
        /\ Booking(s) # {} => Cardinality(Seated(s)) < CapacityMax[s]

LEMMA RegistersOnlyStep ==
    ASSUME "cancel" \notin Events, TypeOK, RegistersOnly, [Next]_vars
    PROVE  RegistersOnly'
  <1> SUFFICES ASSUME NEW o \in Requests PROVE req'[o].op \in {"idle", "register"}
    BY DEF RegistersOnly
  <1> USE DEF RegistersOnly, TypeOK
  <1>1. ASSUME NEW r \in Requests, NEW v \in Volunteers, NEW s \in Shifts,
               RegisterBegin(r, v, s)
        PROVE  req'[o].op \in {"idle", "register"}
    BY <1>1 DEF RegisterBegin
  <1>2. ASSUME req[o].op = "register" PROVE Doomed(req[o]).op = "register"
    BY <1>2, ReqShape DEF RegisterReq
  <1>3. ASSUME NEW r \in Requests, RegisterCommit(r) \/ RegisterAbort(r)
        PROVE  req'[o].op \in {"idle", "register"}
    BY <1>2, <1>3 DEF RegisterCommit, RegisterAbort, Conflicts, Idle
  <1>4. ASSUME NEW s \in Shifts, NEW status \in StatusUpdates, SetShiftStatus(s, status)
        PROVE  req'[o].op \in {"idle", "register"}
    BY <1>2, <1>4 DEF SetShiftStatus
  <1>5. CASE (\E v \in Volunteers : ReviewCredential(v)) \/ UNCHANGED vars
    BY <1>5 DEF ReviewCredential, vars
  <1>6. ASSUME NEW r \in Requests
        PROVE  ~(\/ CancelWrite(r) \/ PromoteCount(r) \/ PromotePick(r)
                 \/ PromoteOverlap(r) \/ PromoteWrite(r) \/ Lost(r)
                 \/ \E v \in Volunteers, s \in Shifts : CancelRead(r, v, s))
    BY DEF CancelRead, CancelWrite, PromoteCount, PromotePick, PromoteOverlap,
           PromoteWrite, Lost
  <1> QED
    BY <1>1, <1>3, <1>4, <1>5, <1>6 DEF Next, Continue

LEMMA SeatLeftStep ==
    ASSUME "cancel" \notin Events, TypeOK, RegistersOnly, SeatLeft, [Next]_vars
    PROVE  SeatLeft'
  <1> SUFFICES ASSUME NEW s \in Shifts
               PROVE  /\ Cardinality(Seated(s)') <= CapacityMax[s]
                      /\ Booking(s)' # {} => Cardinality(Seated(s)') < CapacityMax[s]
    BY DEF SeatLeft
  <1>1. ASSUME NEW r \in Requests, RegisterCommit(r), req[r].s = s,
               req[r].status = "REGISTERED"
        PROVE  Cardinality(Seated(s)') <= CapacityMax[s] /\ Booking(s)' = {}
    <2>1. Seated(s)' \subseteq Seated(s) \cup {req[r].v}
      BY <1>1, RegisterCommitRow DEF Seated
    <2>2. Cardinality(Seated(s)') <= Cardinality(Seated(s)) + 1
            /\ Cardinality(Seated(s)') \in Nat
      BY <2>1, SizesAreNat, OneMore
    <2>3. r \in Booking(s)
      BY <1>1 DEF RegisterCommit, Booking
    <2>4. Cardinality(Seated(s)) < CapacityMax[s]
      BY <2>3 DEF SeatLeft
    <2>5. ASSUME NEW o \in Booking(s)' PROVE FALSE
      <3>1. o \in Requests /\ req'[o].op = "register" /\ ~req'[o].doomed /\ req'[o].s = s
        BY <2>5 DEF Booking
      <3>2. req'[o] = IF o = r THEN Idle
                      ELSE IF Conflicts(req[o], req[r]) THEN Doomed(req[o])
                      ELSE req[o]
        BY <1>1, <3>1 DEF RegisterCommit
      <3>3. Conflicts(req[o], req[r]) => Doomed(req[o]).doomed
        BY <3>1, ReqShape DEF Conflicts, TypeOK, Doomed, RegisterReq
      <3> QED
        BY <1>1, <3>1, <3>2, <3>3 DEF Conflicts, Idle
    <2> QED
      BY <2>2, <2>4, <2>5, SizesAreNat
  <1>2. ASSUME Seated(s)' \subseteq Seated(s), Booking(s)' \subseteq Booking(s)
        PROVE  /\ Cardinality(Seated(s)') <= CapacityMax[s]
               /\ Booking(s)' # {} => Cardinality(Seated(s)') < CapacityMax[s]
    <2>1. Cardinality(Seated(s)') <= Cardinality(Seated(s))
            /\ Cardinality(Seated(s)') \in Nat
      BY <1>2, SizesAreNat, FS_Subset, FS_CardinalityType
    <2>2. /\ Cardinality(Seated(s)) <= CapacityMax[s]
          /\ Booking(s) # {} => Cardinality(Seated(s)) < CapacityMax[s]
      BY DEF SeatLeft
    <2> HIDE DEF Seated, Booking
    <2> QED
      BY <1>2, <2>1, <2>2, SizesAreNat
  <1>3. Seated(s)' \subseteq Seated(s)
          \/ \E r \in Requests : /\ RegisterCommit(r) /\ req[r].s = s
                                 /\ req[r].status = "REGISTERED"
    <2>1. CASE UNCHANGED <<reg, asg>>
      BY <2>1 DEF Seated
    <2>2. ASSUME NEW r \in Requests, RegisterCommit(r) PROVE <1>3
      BY <2>2, RegisterCommitRow DEF Seated
    <2>3. \A r \in Requests : ~CancelWrite(r) /\ ~PromoteWrite(r)
      BY DEF RegistersOnly, CancelWrite, PromoteWrite
    <2> QED
      BY <2>1, <2>2, <2>3, RowSteps
  <1>4. Booking(s)' \subseteq Booking(s)
          \/ (Seated(s)' = Seated(s) /\ Cardinality(Seated(s)) < CapacityMax[s])
    <2> SUFFICES ASSUME NEW o \in Booking(s)', o \notin Booking(s)
                 PROVE  Seated(s)' = Seated(s) /\ Cardinality(Seated(s)) < CapacityMax[s]
      OBVIOUS
    <2>1. /\ o \in Requests /\ req'[o].op = "register" /\ ~req'[o].doomed
          /\ req'[o].status = "REGISTERED" /\ req'[o].s = s
      BY DEF Booking
    <2>2. PICK v \in Volunteers, t \in Shifts : RegisterBegin(o, v, t)
      BY <2>1, HandlerSteps DEF Booking
    <2>3. t = s /\ ~(ActiveCount(s) >= CapacityMax[s]) /\ UNCHANGED reg
      BY <2>1, <2>2 DEF RegisterBegin, TypeOK
    <2> QED
      BY <2>3, SeatedAreActive, SizesAreNat DEF Seated
  <1>5. CASE Seated(s)' = Seated(s) /\ Cardinality(Seated(s)) < CapacityMax[s]
    BY <1>5, SizesAreNat
  <1>6. CASE \E r \in Requests : /\ RegisterCommit(r) /\ req[r].s = s
                                 /\ req[r].status = "REGISTERED"
    BY <1>1, <1>6
  <1> QED
    BY <1>2, <1>3, <1>4, <1>5, <1>6

\* Acceptance case 2: any number of registrations at the same time never
\* exceed the capacity of a shift.
THEOREM RegistrationsRespectCapacity ==
    "cancel" \notin Events => (Spec => []CapacityRespected)
  <1> SUFFICES ASSUME "cancel" \notin Events PROVE Spec => []CapacityRespected
    OBVIOUS
  <1>1. Init => RegistersOnly /\ SeatLeft
    <2>1. Init => RegistersOnly
      BY DEF Init, RegistersOnly, Idle
    <2>2. ASSUME Init, NEW s \in Shifts PROVE Seated(s) = {} /\ Booking(s) = {}
      BY <2>2 DEF Init, Seated, Booking, Rows, Idle
    <2> QED
      BY <2>1, <2>2, SizesAreNat, FS_EmptySet DEF SeatLeft
  <1>2. SeatLeft => CapacityRespected
    BY DEF SeatLeft, CapacityRespected
  <1>3. TypeOK /\ RegistersOnly /\ SeatLeft /\ [Next]_vars =>
           RegistersOnly' /\ SeatLeft'
    BY RegistersOnlyStep, SeatLeftStep
  <1> QED
    BY <1>1, <1>2, <1>3, TypeCorrect, PTL DEF Spec

-----------------------------------------------------------------------------
\* A cancelled assignment belongs to a cancelled registration.
GivenUp == \A v \in Volunteers, s \in Shifts :
    asg[<<v, s>>] = "CANCELLED" => reg[<<v, s>>] = "CANCELLED"

\* Such a row is never written again, except to cancel it once more.
LEMMA GivenUpStep ==
    ASSUME TypeOK, SeatBacked, GivenUp, [Next]_vars,
           NEW v \in Volunteers, NEW s \in Shifts
    PROVE  /\ asg'[<<v, s>>] = "CANCELLED" => reg'[<<v, s>>] = "CANCELLED"
           /\ asg[<<v, s>>] = "CANCELLED" => asg'[<<v, s>>] = "CANCELLED"
  <1> DEFINE Goal == /\ asg'[<<v, s>>] = "CANCELLED" => reg'[<<v, s>>] = "CANCELLED"
                     /\ asg[<<v, s>>] = "CANCELLED" => asg'[<<v, s>>] = "CANCELLED"
  <1>1. /\ asg[<<v, s>>] = "CANCELLED" => reg[<<v, s>>] = "CANCELLED"
        /\ reg[<<v, s>>] = "NONE" => asg[<<v, s>>] = "NONE"
    BY DEF GivenUp, SeatBacked
  <1>2. CASE UNCHANGED <<reg, asg>>
    BY <1>1, <1>2
  <1>3. ASSUME NEW r \in Requests, RegisterCommit(r) PROVE Goal
    BY <1>1, <1>3, RegisterCommitRow DEF CanInsertAssignment
  <1>4. ASSUME NEW r \in Requests, CancelWrite(r) PROVE Goal
    BY <1>1, <1>4, CancelWriteRow DEF Active
  <1>5. ASSUME NEW r \in Requests, PromoteWrite(r) PROVE Goal
    BY <1>1, <1>5, PromoteWriteRow DEF CanInsertAssignment
  <1> QED
    BY <1>2, <1>3, <1>4, <1>5, RowSteps

\* Whoever gives up a seat never gets it back, whatever promotions and other
\* cancellations are under way: the unique registration_id of assignment keeps
\* a late promotion from writing over the row.
THEOREM SeatsGivenUpForGood ==
    ASSUME NEW v \in Volunteers, NEW s \in Shifts
    PROVE  Spec => [](asg[<<v, s>>] = "CANCELLED" =>
                        [](asg[<<v, s>>] = "CANCELLED" /\ reg[<<v, s>>] = "CANCELLED"))
  <1> DEFINE Left == asg[<<v, s>>] = "CANCELLED"
             Off == reg[<<v, s>>] = "CANCELLED"
  <1>1. Init => GivenUp
    BY DEF Init, GivenUp, Rows
  <1>2. TypeOK /\ SeatBacked /\ GivenUp /\ [Next]_vars => GivenUp'
    BY GivenUpStep DEF GivenUp
  <1>3. TypeOK /\ SeatBacked /\ GivenUp /\ [Next]_vars /\ Left => Left'
    BY GivenUpStep
  <1>4. GivenUp /\ Left => Off
    BY DEF GivenUp
  <1> HIDE DEF Left, Off
  <1>5. Spec => [](Left => [](Left /\ Off))
    BY <1>1, <1>2, <1>3, <1>4, TypeCorrect, SeatsAreBacked, PTL DEF Spec
  <1> QED
    BY <1>5 DEF Left, Off

-----------------------------------------------------------------------------
\* With one handler, all that a cancellation or a promotion has read of the
\* rows is still so when it writes.
StillSo ==
    \A r \in Requests :
        /\ req[r].op = "cancel" => Active(reg[<<req[r].v, req[r].s>>])
        /\ req[r].op \in {"pick", "overlap", "write"} =>
            ActiveCount(req[r].s) < CapacityMax[req[r].s]
        /\ req[r].op \in {"overlap", "write"} => req[r].v \in FirstInLine(req[r].s)
        /\ req[r].op = "write" => ~Clash(req[r].v, req[r].s)

\* What may become of a registration: an active one is cancelled, and the
\* first in line gets a seat that is free and that it can take.
RowsMoveOn ==
    [][\A v \in Volunteers, s \in Shifts :
        reg[<<v, s>>] # "NONE" /\ reg'[<<v, s>>] # reg[<<v, s>>] =>
            \/ Active(reg[<<v, s>>]) /\ reg'[<<v, s>>] = "CANCELLED"
            \/ /\ v \in FirstInLine(s) /\ reg'[<<v, s>>] = "REGISTERED"
               /\ ActiveCount(s) < CapacityMax[s] /\ ~Clash(v, s)]_vars

LEMMA StillSoStep ==
    ASSUME Cardinality(Requests) = 1, TypeOK, StillSo, [Next]_vars
    PROVE  StillSo'
  <1>one. ASSUME NEW r \in Requests, NEW o \in Requests
          PROVE  r = o
    BY FiniteIds, FS_Singleton
  <1> DEFINE Reads(t) ==
        /\ t.op = "cancel" => Active(reg[<<t.v, t.s>>])
        /\ t.op \in {"pick", "overlap", "write"} => ActiveCount(t.s) < CapacityMax[t.s]
        /\ t.op \in {"overlap", "write"} => t.v \in FirstInLine(t.s)
        /\ t.op = "write" => ~Clash(t.v, t.s)
  <1>1. ASSUME NEW r \in Requests, Reads(req'[r]), UNCHANGED <<reg, pos, asg>>
        PROVE  StillSo'
    BY <1>1, <1>one DEF StillSo, ActiveCount, ActiveRegs, FirstInLine, Waiting, Clash
  <1>2. ASSUME NEW r \in Requests, req'[r].op \in {"idle", "register", "count"}
        PROVE  StillSo'
    BY <1>2, <1>one DEF StillSo
  <1>3. ASSUME NEW r \in Requests, NEW v \in Volunteers, NEW s \in Shifts,
               RegisterBegin(r, v, s)
        PROVE  StillSo'
    BY <1>2, <1>3 DEF RegisterBegin, TypeOK
  <1>4. ASSUME NEW r \in Requests, NEW v \in Volunteers, NEW s \in Shifts,
               CancelRead(r, v, s)
        PROVE  StillSo'
    <2>1. req'[r] = [op |-> "cancel", v |-> v, s |-> s]
      BY <1>4 DEF CancelRead, TypeOK
    <2> QED
      BY <1>1, <1>4, <2>1 DEF CancelRead
  <1>5. ASSUME NEW r \in Requests, RegisterCommit(r) PROVE StillSo'
    BY <1>2, <1>5 DEF RegisterCommit, Idle
  <1>6. ASSUME NEW r \in Requests, RegisterAbort(r) PROVE StillSo'
    BY <1>2, <1>6 DEF RegisterAbort, Idle, TypeOK
  <1>7. ASSUME NEW r \in Requests, CancelWrite(r) PROVE StillSo'
    BY <1>2, <1>7 DEF CancelWrite, TypeOK
  <1>8. ASSUME NEW r \in Requests, PromoteCount(r) PROVE StillSo'
    <2>1. CASE ActiveCount(req[r].s) >= CapacityMax[req[r].s]
      BY <1>2, <1>8, <2>1 DEF PromoteCount, Idle, TypeOK
    <2>2. CASE ~(ActiveCount(req[r].s) >= CapacityMax[req[r].s])
      <3>1. req'[r] = [op |-> "pick", s |-> req[r].s]
        BY <1>8, <2>2 DEF PromoteCount, TypeOK
      <3>2. req[r].s \in Shifts
        BY <1>8, ReqShape DEF PromoteCount, PromoteReq, TypeOK
      <3>3. ActiveCount(req[r].s) < CapacityMax[req[r].s]
        BY <2>2, <3>2, SizesAreNat, SeatedAreActive
      <3>4. Reads(req'[r])
        BY <3>1, <3>3
      <3> HIDE DEF Reads
      <3> QED
        BY <1>1, <1>8, <3>4 DEF PromoteCount
    <2> QED
      BY <2>1, <2>2
  <1>9. ASSUME NEW r \in Requests, PromotePick(r) PROVE StillSo'
    <2>1. CASE req' = [req EXCEPT ![r] = Idle]
      BY <1>2, <2>1 DEF Idle, TypeOK
    <2>2. ASSUME NEW v \in FirstInLine(req[r].s),
                 req' = [req EXCEPT ![r] = [op |-> "overlap", v |-> v, s |-> req[r].s]]
          PROVE  StillSo'
      <3>1. req'[r] = [op |-> "overlap", v |-> v, s |-> req[r].s]
        BY <2>2 DEF TypeOK
      <3>2. ActiveCount(req[r].s) < CapacityMax[req[r].s]
        BY <1>9 DEF PromotePick, StillSo
      <3>3. Reads(req'[r])
        BY <2>2, <3>1, <3>2
      <3> HIDE DEF Reads
      <3> QED
        BY <1>1, <1>9, <3>3 DEF PromotePick
    <2> QED
      BY <1>9, <2>1, <2>2 DEF PromotePick
  <1>10. ASSUME NEW r \in Requests, PromoteOverlap(r) PROVE StillSo'
    <2>1. CASE Clash(req[r].v, req[r].s)
      BY <1>2, <1>10, <2>1 DEF PromoteOverlap, Idle, TypeOK
    <2>2. CASE ~Clash(req[r].v, req[r].s)
      <3>1. req[r] \in PickedReq
        BY <1>10, ReqShape DEF PromoteOverlap, TypeOK
      <3>2. /\ req'[r].op = "write"
            /\ req'[r].v = req[r].v /\ req'[r].s = req[r].s
        BY <1>10, <2>2, <3>1 DEF PromoteOverlap, PickedReq, TypeOK
      <3> QED
        BY <1>1, <1>10, <2>2, <3>2 DEF PromoteOverlap, StillSo
    <2> QED
      BY <2>1, <2>2
  <1>11. ASSUME NEW r \in Requests, PromoteWrite(r) PROVE StillSo'
    BY <1>2, <1>11 DEF PromoteWrite, Idle, TypeOK
  <1>12. ASSUME NEW r \in Requests, Lost(r) PROVE StillSo'
    BY <1>2, <1>12 DEF Lost, Idle, TypeOK
  <1>13. ASSUME NEW s \in Shifts, NEW status \in StatusUpdates, SetShiftStatus(s, status)
         PROVE  StillSo'
    <2> PICK r \in Requests : TRUE
      BY FiniteIds, FS_EmptySet
    <2>1. CASE req[r].op = "register" /\ req[r].s = s
      <3>1. Doomed(req[r]).op = "register"
        BY <2>1, ReqShape DEF RegisterReq, TypeOK
      <3> QED
        BY <1>2, <1>13, <2>1, <3>1 DEF SetShiftStatus
    <2>2. CASE ~(req[r].op = "register" /\ req[r].s = s)
      BY <1>1, <1>13, <2>2 DEF SetShiftStatus, StillSo
    <2> QED
      BY <2>1, <2>2
  <1>14. CASE UNCHANGED <<reg, pos, asg, req>>
    BY <1>14 DEF StillSo, ActiveCount, ActiveRegs, FirstInLine, Waiting, Clash
  <1> QED
    BY <1>3, <1>4, <1>5, <1>6, <1>7, <1>8, <1>9, <1>10, <1>11, <1>12, <1>13, <1>14
       DEF Next, Continue, ReviewCredential, vars

\* With one request at a time a cancellation is final, and promotion is in
\* turn: nobody overtakes, nobody gets a seat that is not free or that overlaps.
\* With two handlers it is neither: a promotion may write over a cancellation.
THEOREM SerialTurns == Cardinality(Requests) = 1 => (Spec => RowsMoveOn)
  <1> SUFFICES ASSUME Cardinality(Requests) = 1 PROVE Spec => RowsMoveOn
    OBVIOUS
  <1>1. Init => StillSo
    BY DEF Init, StillSo, Idle
  <1>2. TypeOK /\ StillSo /\ [Next]_vars => StillSo'
    BY StillSoStep
  <1>3. TypeOK /\ StillSo /\ [Next]_vars =>
            [\A v \in Volunteers, s \in Shifts :
                reg[<<v, s>>] # "NONE" /\ reg'[<<v, s>>] # reg[<<v, s>>] =>
                    \/ Active(reg[<<v, s>>]) /\ reg'[<<v, s>>] = "CANCELLED"
                    \/ /\ v \in FirstInLine(s) /\ reg'[<<v, s>>] = "REGISTERED"
                       /\ ActiveCount(s) < CapacityMax[s] /\ ~Clash(v, s)]_vars
    <2> SUFFICES ASSUME TypeOK, StillSo, [Next]_vars,
                        NEW v \in Volunteers, NEW s \in Shifts,
                        reg[<<v, s>>] # "NONE", reg'[<<v, s>>] # reg[<<v, s>>]
                 PROVE  \/ Active(reg[<<v, s>>]) /\ reg'[<<v, s>>] = "CANCELLED"
                        \/ /\ v \in FirstInLine(s) /\ reg'[<<v, s>>] = "REGISTERED"
                           /\ ActiveCount(s) < CapacityMax[s] /\ ~Clash(v, s)
      OBVIOUS
    <2>1. ASSUME NEW r \in Requests, RegisterCommit(r) PROVE FALSE
      BY <2>1, RegisterCommitRow
    <2>2. ASSUME NEW r \in Requests, CancelWrite(r)
          PROVE  Active(reg[<<v, s>>]) /\ reg'[<<v, s>>] = "CANCELLED"
      <3>1. v = req[r].v /\ s = req[r].s /\ reg'[<<v, s>>] = "CANCELLED"
        BY <2>2, CancelWriteRow
      <3> QED
        BY <2>2, <3>1 DEF CancelWrite, StillSo
    <2>3. ASSUME NEW r \in Requests, PromoteWrite(r)
          PROVE  /\ v \in FirstInLine(s) /\ reg'[<<v, s>>] = "REGISTERED"
                 /\ ActiveCount(s) < CapacityMax[s] /\ ~Clash(v, s)
      <3>1. v = req[r].v /\ s = req[r].s /\ reg'[<<v, s>>] = "REGISTERED"
        BY <2>3, PromoteWriteRow
      <3> QED
        BY <2>3, <3>1 DEF PromoteWrite, StillSo
    <2> QED
      BY <2>1, <2>2, <2>3, RowSteps
  <1> QED
    BY <1>1, <1>2, <1>3, TypeCorrect, PTL DEF Spec, RowsMoveOn
=============================================================================
