------------------------------ MODULE Attendance ------------------------------
(***************************************************************************)
(* Arrivals at shifts: QR tokens, check-in, walk-in and check-out          *)
(* (attendance.service.ts), beside the registrations, cancellations and    *)
(* promotions of Scheduling, with which they share the tables registration *)
(* and assignment.                                                         *)
(*                                                                         *)
(* Check-in, walk-in and check-out are READ COMMITTED transactions that    *)
(* first read and then write by id.  All writes of one of them are seen    *)
(* by others at its commit, and a transaction that needs a row or a unique *)
(* key another one holds waits for its end; so the writes are one step     *)
(* (...Write), which looks at the tables as they are then.  Between the    *)
(* reads and that step anything may happen.  Several reads of one request  *)
(* are one step where what lies between them changes no outcome.           *)
(*                                                                         *)
(* A request that is refused writes nothing and is no step, except after a *)
(* token was consumed or a decision taken: then its handler ends.          *)
(***************************************************************************)
EXTENDS Scheduling

CONSTANTS
    Tokens,      \* QR tokens that can be issued (bound)
    Methods      \* the values of dto.method in use

AllMethods == {"QR", "MANUAL", "OFFLINE_QUEUED", "WALK_IN_MANUAL"}
ASSUME KnownMethods == Methods \subseteq AllMethods

VARIABLES
    att,         \* attendance.status by assignment, "NONE" where there is no row
    tokens       \* qr_token rows

attVars == <<att, tokens>>
allVars == <<vars, attVars>>

AttStatus == {"NONE", "CHECKED_IN", "CHECKED_OUT", "OFFLINE_CONFLICT"}
Unissued == [state |-> "unissued"]
\* "live": used_at is NULL and expires_at has not passed.
Issued == [state : {"live", "used", "expired"}, v : Volunteers, s : Shifts]

ScannedReq == [op : {"scanned"}, v : Volunteers, s : Shifts, token : Tokens]
ArrivalReq == [op : {"attend", "walkin", "checkout"}, v : Volunteers, s : Shifts]
CheckInReq == [op : {"checkin"}, v : Volunteers, s : Shifts, conflict : BOOLEAN]
ASSUME ArrivalRequests == OtherReq = ScannedReq \cup ArrivalReq \cup CheckInReq

ActiveAsgs(s) == {v \in Volunteers : Active(asg[<<v, s>>])}
\* The exclusion constraint, when the status of an existing assignment is
\* overwritten by an active one.
CanBeActive(v, s) ==
    ExclusionConstraint => Active(asg[<<v, s>>]) \/ ~Clash(v, s)

-----------------------------------------------------------------------------
AttInit ==
    /\ Init
    /\ att = [row \in Rows |-> "NONE"]
    /\ tokens = [t \in Tokens |-> Unissued]

Goes(r, state) == req' = [req EXCEPT ![r] = state]

\* issueQrToken.
IssueQrToken(t, v, s) ==
    /\ "QR" \in Methods
    /\ tokens[t] = Unissued
    /\ Active(asg[<<v, s>>])
    /\ tokens' = [tokens EXCEPT ![t] = [state |-> "live", v |-> v, s |-> s]]
    /\ UNCHANGED <<vars, att>>

ExpireToken(t) ==
    /\ tokens[t].state = "live"
    /\ tokens' = [tokens EXCEPT ![t].state = "expired"]
    /\ UNCHANGED <<vars, att>>

\* variant: a token that was found unused earlier is marked used
ConsumeFoundToken(r, t) ==
    /\ req[r] = Idle
    /\ tokens[t].state \in {"live", "used"}
    /\ tokens' = [tokens EXCEPT ![t].state = "used"]
    /\ Goes(r, [op |-> "scanned", v |-> tokens[t].v, s |-> tokens[t].s, token |-> t])
    /\ UNCHANGED <<shiftStatus, reg, pos, asg, qualified, att>>
\* validateAndConsumeQrToken: one conditional update, committed by itself.
ConsumeQrToken(r, t) ==
    /\ req[r] = Idle
    /\ tokens[t].state = "live"
    /\ tokens' = [tokens EXCEPT ![t].state = "used"]
    /\ Goes(r, [op |-> "scanned", v |-> tokens[t].v, s |-> tokens[t].s, token |-> t])
    /\ UNCHANGED <<shiftStatus, reg, pos, asg, qualified, att>>

\* checkIn: the request in hand is for v and s, and its transaction reads.
MayCheckIn(v, s) ==
    /\ Active(asg[<<v, s>>])
    /\ att[<<v, s>>] = "NONE"

\* Of the QR path: cancelled, already checked in, or on.
CheckInScanned(r) ==
    /\ req[r].op = "scanned"
    /\ LET v == req[r].v
           s == req[r].s
       IN  Goes(r, IF MayCheckIn(v, s)
                   THEN [op |-> "checkin", v |-> v, s |-> s, conflict |-> FALSE]
                   ELSE Idle)
    /\ UNCHANGED <<shiftStatus, reg, pos, asg, qualified, attVars>>

\* Of the other two: a record queued offline after the shift had ended is a
\* conflict, left for review.
CheckInRead(r, v, s) ==
    /\ req[r] = Idle
    /\ MayCheckIn(v, s)
    /\ \E conflict \in BOOLEAN :
        /\ conflict => "OFFLINE_QUEUED" \in Methods
        /\ ~conflict => Methods \cap {"MANUAL", "OFFLINE_QUEUED"} # {}
        /\ Goes(r, [op |-> "checkin", v |-> v, s |-> s, conflict |-> conflict])
    /\ UNCHANGED <<shiftStatus, reg, pos, asg, qualified, attVars>>

\* variant: an upsert of the attendance
CheckInUpsert(r) ==
    /\ req[r].op = "checkin"
    /\ LET row == <<req[r].v, req[r].s>>
       IN  IF CanBeActive(req[r].v, req[r].s)
           THEN /\ att' = [att EXCEPT ![row] = IF req[r].conflict THEN "OFFLINE_CONFLICT"
                                               ELSE "CHECKED_IN"]
                /\ asg' = [asg EXCEPT ![row] = IF req[r].conflict THEN @ ELSE "CHECKED_IN"]
           ELSE UNCHANGED <<att, asg>>
    /\ Goes(r, Idle)
    /\ UNCHANGED <<shiftStatus, reg, pos, qualified, tokens>>
\* The writes.  The unique assignment_id of attendance, or the exclusion
\* constraint, may refuse them: the request ends in an error.  The
\* assignment, unless there is a conflict, is updated by id, whatever it has
\* become.
CheckInWrite(r) ==
    /\ req[r].op = "checkin"
    /\ LET row == <<req[r].v, req[r].s>>
           conflict == req[r].conflict
       IN  IF att[row] = "NONE" /\ (conflict \/ CanBeActive(req[r].v, req[r].s))
           THEN /\ att' = [att EXCEPT ![row] = IF conflict THEN "OFFLINE_CONFLICT"
                                               ELSE "CHECKED_IN"]
                /\ asg' = [asg EXCEPT ![row] = IF conflict THEN @ ELSE "CHECKED_IN"]
           ELSE UNCHANGED <<att, asg>>
    /\ Goes(r, Idle)
    /\ UNCHANGED <<shiftStatus, reg, pos, qualified, tokens>>

\* variant: the capacity check of a walk-in, dropped
WalkInUncounted(s) == TRUE
\* "non-locking, best-effort": assignments, where registration counts
\* registrations.
WalkInFits(s) == Cardinality(ActiveAsgs(s)) < CapacityMax[s]

\* handleWalkIn up to its first write: v is on the roster and gets an
\* attendance, or there is room and v gets everything.
WalkInRead(r, v, s) ==
    /\ "WALK_IN_MANUAL" \in Methods
    /\ req[r] = Idle
    /\ shiftStatus[s] # "CANCELLED"
    /\ \/ /\ Active(asg[<<v, s>>]) /\ att[<<v, s>>] = "NONE"
          /\ Goes(r, [op |-> "attend", v |-> v, s |-> s])
       \/ /\ ~Active(asg[<<v, s>>]) /\ WalkInFits(s)
          /\ Goes(r, [op |-> "walkin", v |-> v, s |-> s])
    /\ UNCHANGED <<shiftStatus, reg, pos, asg, qualified, attVars>>

\* The attendance alone: the assignment stays as it is.
WalkInAttend(r) ==
    /\ req[r].op = "attend"
    /\ att' = [att EXCEPT ![<<req[r].v, req[r].s>>] = IF @ = "NONE" THEN "CHECKED_IN" ELSE @]
    /\ Goes(r, Idle)
    /\ UNCHANGED <<shiftStatus, reg, pos, asg, qualified, tokens>>

\* variant: writes the registration of a walk-in although there is one
WalkInUpsert(r) ==
    /\ req[r].op = "walkin"
    /\ LET row == <<req[r].v, req[r].s>>
       IN  /\ reg' = [reg EXCEPT ![row] = "CHECKED_IN"]
           /\ IF CanInsertAssignment(req[r].v, req[r].s)
              THEN /\ asg' = [asg EXCEPT ![row] = "CHECKED_IN"]
                   /\ att' = [att EXCEPT ![row] = "CHECKED_IN"]
              ELSE UNCHANGED <<asg, att>>
    /\ Goes(r, Idle)
    /\ UNCHANGED <<shiftStatus, pos, qualified, tokens>>
\* Registration, assignment and attendance, all or (if v has a registration,
\* be it CANCELLED, or an overlapping assignment) none.
WalkInWrite(r) ==
    /\ req[r].op = "walkin"
    /\ LET v == req[r].v
           s == req[r].s
       IN  IF reg[<<v, s>>] = "NONE" /\ CanInsertAssignment(v, s)
           THEN /\ reg' = [reg EXCEPT ![<<v, s>>] = "CHECKED_IN"]
                /\ asg' = [asg EXCEPT ![<<v, s>>] = "CHECKED_IN"]
                /\ att' = [att EXCEPT ![<<v, s>>] = "CHECKED_IN"]
           ELSE UNCHANGED <<reg, asg, att>>
    /\ Goes(r, Idle)
    /\ UNCHANGED <<shiftStatus, pos, qualified, tokens>>

\* checkOut: an attendance not yet checked out.
CheckOutRead(r, v, s) ==
    /\ req[r] = Idle
    /\ att[<<v, s>>] \in {"CHECKED_IN", "OFFLINE_CONFLICT"}
    /\ Goes(r, [op |-> "checkout", v |-> v, s |-> s])
    /\ UNCHANGED <<shiftStatus, reg, pos, asg, qualified, attVars>>

\* variant: one status for both rows
CheckOutOneStatus(r) ==
    /\ req[r].op = "checkout"
    /\ LET row == <<req[r].v, req[r].s>>
       IN  IF CanBeActive(req[r].v, req[r].s)
           THEN /\ att' = [att EXCEPT ![row] = "CHECKED_OUT"]
                /\ asg' = [asg EXCEPT ![row] = "CHECKED_OUT"]
           ELSE UNCHANGED <<att, asg>>
    /\ Goes(r, Idle)
    /\ UNCHANGED <<shiftStatus, reg, pos, qualified, tokens>>
\* Attendance and assignment, by id; the draft participation is in Ledger.
CheckOutWrite(r) ==
    /\ req[r].op = "checkout"
    /\ LET row == <<req[r].v, req[r].s>>
       IN  IF CanBeActive(req[r].v, req[r].s)
           THEN /\ att' = [att EXCEPT ![row] = "CHECKED_OUT"]
                /\ asg' = [asg EXCEPT ![row] = "COMPLETED"]
           ELSE UNCHANGED <<att, asg>>
    /\ Goes(r, Idle)
    /\ UNCHANGED <<shiftStatus, reg, pos, qualified, tokens>>

AttContinue(r) ==
    \/ CheckInScanned(r) \/ CheckInWrite(r)
    \/ WalkInAttend(r) \/ WalkInWrite(r)
    \/ CheckOutWrite(r)

AttNext ==
    \/ Next /\ UNCHANGED attVars
    \/ \E r \in Requests, v \in Volunteers, s \in Shifts :
          CheckInRead(r, v, s) \/ WalkInRead(r, v, s) \/ CheckOutRead(r, v, s)
    \/ \E r \in Requests : AttContinue(r)
    \/ \E r \in Requests, t \in Tokens : ConsumeQrToken(r, t)
    \/ \E t \in Tokens, v \in Volunteers, s \in Shifts : IssueQrToken(t, v, s)
    \/ \E t \in Tokens : ExpireToken(t)

AttSpec == AttInit /\ [][AttNext]_allVars

-----------------------------------------------------------------------------
AttTypeOK ==
    /\ TypeOK
    /\ att \in [Rows -> AttStatus]
    /\ tokens \in [Tokens -> {Unissued} \cup Issued]

\* The three tables tell one story, although check-in, walk-in, check-out,
\* cancellation and promotion write them by id after reading something else:
\* nobody attends or is assigned without having been given a seat, who has a
\* seat has an active assignment, and the assignment says what became of the
\* attendance (a cancellation may have erased it).
TablesAgree ==
    \A row \in Rows :
        /\ reg[row] \in {"NONE", "WAITLISTED"} => asg[row] = "NONE"
        /\ asg[row] = "NONE" => att[row] = "NONE"
        /\ reg[row] \in {"REGISTERED", "CHECKED_IN"} => Active(asg[row])
        /\ asg[row] = "ASSIGNED" => reg[row] = "REGISTERED" /\ att[row] # "CHECKED_OUT"
        /\ asg[row] = "CHECKED_IN" => att[row] = "CHECKED_IN"
        /\ asg[row] = "COMPLETED" => att[row] = "CHECKED_OUT"

\* Acceptance case 4, "simultaneous scan requests cannot both succeed": no
\* two requests get past the same token, and a token let in is used up.
TokenSingleUse ==
    \A r \in Requests : req[r].op = "scanned" =>
        /\ tokens[req[r].token].state = "used"
        /\ \A o \in Requests \ {r} :
              req[o].op = "scanned" => req[o].token # req[r].token

\* Walk-ins count the assignments of a shift without a lock, registrations
\* count its registrations, promotions act on an old count: together they
\* still give away at most one seat too many for each handler but one.
SeatsBounded ==
    \A s \in Shifts :
        Cardinality(Seated(s)) <= CapacityMax[s] + Cardinality(Requests) - 1

\* "Duplicate check-out: idempotent", "returns existing record rather than
\* creating a duplicate": an attendance, once made, only moves on to
\* CHECKED_OUT and stays there, whatever late check-ins still want to write.
AttendanceMovesOn ==
    [][\A row \in Rows :
        att'[row] # att[row] => att[row] = "NONE" \/ att'[row] = "CHECKED_OUT"]_allVars

\* schema.prisma calls an assignment a "confirmed registration": who has
\* cancelled has no active assignment, and takes no seat from the next.
OnlyConfirmed == \A row \in Rows : Active(asg[row]) => Active(reg[row])
=============================================================================
