----------------------------- MODULE Scheduling -----------------------------
(***************************************************************************)
(* Shift registration, cancellation and waitlist promotion                 *)
(* (backend/src/modules/event-scheduling/scheduling.service.ts) over the   *)
(* tables shift, registration, assignment and credential.                  *)
(*                                                                         *)
(* An HTTP request is handled by one of Requests; a handler is cut at      *)
(* every await between which another handler can be seen:                  *)
(*                                                                         *)
(*  - registerForShift runs in ONE serializable transaction.  All it reads *)
(*    comes from the snapshot its first statement takes, so its decision   *)
(*    is fixed by RegisterBegin; RegisterCommit or RegisterAbort follows.  *)
(*    PostgreSQL aborts a transaction whose reads conflict with those of a *)
(*    serializable transaction that committed meanwhile, and one whose     *)
(*    locked shift row was updated meanwhile: such a request is "doomed".  *)
(*  - cancelRegistration reads, writes in a batch transaction, then calls  *)
(*    promoteWaitlist: three separate reads and a batch, each of them its  *)
(*    own READ COMMITTED statement.                                        *)
(*                                                                         *)
(* A pair <<v, s>> names a registration row and its assignment row: both   *)
(* UNIQUE(volunteer_id, shift_id) and the unique registration_id allow at  *)
(* most one of each, and no code deletes either.                           *)
(*                                                                         *)
(* A definition marked "variant" is not part of the specification: it is   *)
(* the definition below it with a plausible mistake, and shows that the    *)
(* properties can fail.                                                    *)
(***************************************************************************)
EXTENDS Integers, FiniteSets

CONSTANTS
    Volunteers,             \* volunteer ids
    Shifts,                 \* shift ids
    Requests,               \* request handlers that can run at the same time
    CapacityMax,            \* shift.capacity_max
    StartsAt, EndsAt,       \* shift.starts_at, shift.ends_at
    CredentialShifts,       \* shifts whose rules demand an APPROVED credential
    ExclusionConstraint,    \* whether custom-constraints.sql has been run
    StatusUpdates,          \* values an operator may write to shift.status
    Events,                 \* which kinds of events happen, see EventKinds
    OtherReq                \* what handlers of other modules can be doing

EventKinds == {"register", "cancel", "review", "crash"}
ShiftStatus == {"DRAFT", "PUBLISHED", "FULL", "CANCELLED", "COMPLETED"}

ASSUME FiniteIds ==
    IsFiniteSet(Volunteers) /\ IsFiniteSet(Requests) /\ Requests # {}
\* The DTO demands capacityMax >= 1; the proofs need no more than this.
ASSUME CapacityIsNat == CapacityMax \in [Shifts -> Nat]
\* createShift refuses endsAt <= startsAt.
ASSUME ShiftTimes ==
    /\ StartsAt \in [Shifts -> Nat] /\ EndsAt \in [Shifts -> Nat]
    /\ \A s \in Shifts : StartsAt[s] < EndsAt[s]
ASSUME Switches ==
    /\ ExclusionConstraint \in BOOLEAN
    /\ Events \subseteq EventKinds
    /\ StatusUpdates \subseteq ShiftStatus
    /\ CredentialShifts \subseteq Shifts
ASSUME OtherRequests ==
    \A t \in OtherReq :
        t.op \notin {"idle", "register", "cancel", "count", "pick", "overlap", "write"}

VARIABLES
    shiftStatus,   \* [Shifts -> ShiftStatus]
    reg,           \* registration.status, "NONE" where there is no row
    pos,           \* registration.waitlist_position, 0 for NULL
    asg,           \* assignment.status, "NONE" where there is no row
    qualified,     \* volunteers whose required credential is APPROVED
    req            \* what each handler is doing

vars == <<shiftStatus, reg, pos, asg, qualified, req>>

Rows == Volunteers \X Shifts
\* The values some code writes; those of arrival are written by Attendance.
RegStatus == {"NONE", "REGISTERED", "WAITLISTED", "CANCELLED", "CHECKED_IN"}
AsgStatus == {"NONE", "ASSIGNED", "CANCELLED", "CHECKED_IN", "COMPLETED"}

Idle == [op |-> "idle"]
IdleReq == {Idle}
\* A registration transaction between its snapshot and its commit: the row
\* it is going to insert, and whether the database will refuse to commit it.
RegisterReq == [op : {"register"}, v : Volunteers, s : Shifts,
                status : {"REGISTERED", "WAITLISTED"}, pos : Nat,
                doomed : BOOLEAN]
CancelReq == [op : {"cancel"}, v : Volunteers, s : Shifts]
PromoteReq == [op : {"count", "pick"}, s : Shifts]
PickedReq == [op : {"overlap", "write"}, v : Volunteers, s : Shifts]
ReqState == IdleReq \cup RegisterReq \cup CancelReq \cup PromoteReq \cup PickedReq
              \cup OtherReq

-----------------------------------------------------------------------------
\* status: { notIn: ['CANCELLED'] } of an existing row
Active(status) == status \notin {"NONE", "CANCELLED"}

\* variant: counts the wrong rows
WaitingOnly(s) == {v \in Volunteers : reg[<<v, s>>] = "WAITLISTED"}
ActiveRegs(s) == {v \in Volunteers : Active(reg[<<v, s>>])}
ActiveCount(s) == Cardinality(ActiveRegs(s))
Seated(s) == {v \in Volunteers : reg[<<v, s>>] \in {"REGISTERED", "CHECKED_IN"}}
Waiting(s) == {v \in Volunteers : reg[<<v, s>>] = "WAITLISTED"}

\* variants: swapped, and off by one
PositionSwapped(s) == CapacityMax[s] - ActiveCount(s)
PositionFromZero(s) == ActiveCount(s) - CapacityMax[s]
NextPosition(s) == ActiveCount(s) - CapacityMax[s] + 1

\* Half-open intervals, as in the exclusion constraint.
Overlaps(s, t) == StartsAt[s] < EndsAt[t] /\ EndsAt[s] > StartsAt[t]

\* An active assignment of v that overlaps shift s, s itself included.
Clash(v, s) == \E t \in Shifts : Active(asg[<<v, t>>]) /\ Overlaps(s, t)

Eligible(v, s) == s \in CredentialShifts => v \in qualified

\* What the database checks when an assignment of v to s is inserted:
\* the unique registration_id and, if deployed, the exclusion constraint.
CanInsertAssignment(v, s) ==
    /\ asg[<<v, s>>] = "NONE"
    /\ ExclusionConstraint => ~Clash(v, s)

\* What it checks when a registration transaction inserts its rows.
InsertAllowed(t) ==
    /\ reg[<<t.v, t.s>>] = "NONE"
    /\ t.status = "REGISTERED" => CanInsertAssignment(t.v, t.s)

\* variants: each leaves one kind of conflict undetected
ConflictsSameVolunteer(a, b) ==
    a.op = "register" /\ a.v = b.v /\ a.status = "REGISTERED" /\ b.status = "REGISTERED"
ConflictsSameShift(a, b) == a.op = "register" /\ a.s = b.s
\* Each of two overlapping registration transactions reads what the other
\* one writes: the registrations of one shift, or (if neither was full) the
\* assignments of one volunteer in overlapping shifts.
Conflicts(a, b) ==
    /\ a.op = "register"
    /\ \/ a.s = b.s
       \/ /\ a.v = b.v /\ Overlaps(a.s, b.s)
          /\ a.status = "REGISTERED" /\ b.status = "REGISTERED"

Doomed(t) == [t EXCEPT !.doomed = TRUE]

-----------------------------------------------------------------------------
Init ==
    /\ shiftStatus = [s \in Shifts |-> "DRAFT"]
    /\ reg = [row \in Rows |-> "NONE"]
    /\ pos = [row \in Rows |-> 0]
    /\ asg = [row \in Rows |-> "NONE"]
    /\ qualified = {}
    /\ req = [r \in Requests |-> Idle]

\* registerForShift up to the insert.  A refused request (403, 404, 409, 422)
\* leaves nothing behind, so only accepted ones are steps; v may always
\* register itself, so the permission check never stops a step.
RegisterBegin(r, v, s) ==
    /\ "register" \in Events
    /\ req[r] = Idle
    /\ shiftStatus[s] = "PUBLISHED"
    /\ Eligible(v, s)
    /\ ~Active(reg[<<v, s>>])
    /\ LET isFull == ActiveCount(s) >= CapacityMax[s]
       IN  /\ ~isFull => ~Clash(v, s)
           /\ req' = [req EXCEPT ![r] =
                [op |-> "register", v |-> v, s |-> s, doomed |-> FALSE,
                 status |-> IF isFull THEN "WAITLISTED" ELSE "REGISTERED",
                 pos |-> IF isFull THEN NextPosition(s) ELSE 0]]
    /\ UNCHANGED <<shiftStatus, reg, pos, asg, qualified>>

RegisterCommit(r) ==
    /\ req[r].op = "register"
    /\ ~req[r].doomed
    /\ InsertAllowed(req[r])
    /\ LET t == req[r]
       IN  /\ reg' = [reg EXCEPT ![<<t.v, t.s>>] = t.status]
           /\ pos' = [pos EXCEPT ![<<t.v, t.s>>] = t.pos]
           /\ asg' = [asg EXCEPT ![<<t.v, t.s>>] =
                        IF t.status = "REGISTERED" THEN "ASSIGNED" ELSE @]
           /\ req' = [o \in Requests |->
                        IF o = r THEN Idle
                        ELSE IF Conflicts(req[o], t) THEN Doomed(req[o])
                        ELSE req[o]]
    /\ UNCHANGED <<shiftStatus, qualified>>

\* Serialization failure, constraint violation or transaction timeout: the
\* client gets an error, there is no retry.  The database may also abort a
\* transaction that is not doomed.
RegisterAbort(r) ==
    /\ req[r].op = "register"
    /\ req' = [req EXCEPT ![r] = Idle]
    /\ UNCHANGED <<shiftStatus, reg, pos, asg, qualified>>

\* cancelRegistration: the read and its checks.
CancelRead(r, v, s) ==
    /\ "cancel" \in Events
    /\ req[r] = Idle
    /\ Active(reg[<<v, s>>])
    /\ req' = [req EXCEPT ![r] = [op |-> "cancel", v |-> v, s |-> s]]
    /\ UNCHANGED <<shiftStatus, reg, pos, asg, qualified>>

\* variant: the registration alone
CancelRegistrationOnly(r) ==
    /\ req[r].op = "cancel"
    /\ reg' = [reg EXCEPT ![<<req[r].v, req[r].s>>] = "CANCELLED"]
    /\ req' = [req EXCEPT ![r] = [op |-> "count", s |-> req[r].s]]
    /\ UNCHANGED <<shiftStatus, pos, asg, qualified>>

\* Its batch: the registration by id, whatever it has become, and the
\* assignment if there is one.
CancelWrite(r) ==
    /\ req[r].op = "cancel"
    /\ LET v == req[r].v
           s == req[r].s
       IN  /\ reg' = [reg EXCEPT ![<<v, s>>] = "CANCELLED"]
           /\ asg' = [asg EXCEPT ![<<v, s>>] = IF Active(@) THEN "CANCELLED" ELSE @]
           /\ req' = [req EXCEPT ![r] = [op |-> "count", s |-> s]]
    /\ UNCHANGED <<shiftStatus, pos, qualified>>

\* promoteWaitlist: the count ...
PromoteCount(r) ==
    /\ req[r].op = "count"
    /\ LET s == req[r].s
       IN  req' = [req EXCEPT ![r] =
                IF ActiveCount(s) >= CapacityMax[s] THEN Idle
                ELSE [op |-> "pick", s |-> s]]
    /\ UNCHANGED <<shiftStatus, reg, pos, asg, qualified>>

FirstInLine(s) ==
    {v \in Waiting(s) : \A w \in Waiting(s) : pos[<<v, s>>] <= pos[<<w, s>>]}

\* ... the first waitlisted registration (any of those with equal positions) ...
PromotePick(r) ==
    /\ req[r].op = "pick"
    /\ LET s == req[r].s
       IN  \/ /\ Waiting(s) = {}
              /\ req' = [req EXCEPT ![r] = Idle]
           \/ \E v \in FirstInLine(s) :
                req' = [req EXCEPT ![r] = [op |-> "overlap", v |-> v, s |-> s]]
    /\ UNCHANGED <<shiftStatus, reg, pos, asg, qualified>>

\* ... the overlap check, which gives up rather than try the next one ...
PromoteOverlap(r) ==
    /\ req[r].op = "overlap"
    /\ req' = [req EXCEPT ![r] =
            IF Clash(req[r].v, req[r].s) THEN Idle ELSE [@ EXCEPT !.op = "write"]]
    /\ UNCHANGED <<shiftStatus, reg, pos, asg, qualified>>

\* ... and the batch.  If the assignment cannot be inserted all of it is
\* rolled back and the cancel request, already carried out, ends in an error.
PromoteWrite(r) ==
    /\ req[r].op = "write"
    /\ LET v == req[r].v
           s == req[r].s
       IN  \/ /\ CanInsertAssignment(v, s)
              /\ reg' = [reg EXCEPT ![<<v, s>>] = "REGISTERED"]
              /\ pos' = [pos EXCEPT ![<<v, s>>] = 0]
              /\ asg' = [asg EXCEPT ![<<v, s>>] = "ASSIGNED"]
           \/ /\ ~CanInsertAssignment(v, s)
              /\ UNCHANGED <<reg, pos, asg>>
    /\ req' = [req EXCEPT ![r] = Idle]
    /\ UNCHANGED <<shiftStatus, qualified>>

\* The process stops, or its connection fails, between two statements of a
\* cancellation or a promotion: what is committed stays, the rest never runs.
Lost(r) ==
    /\ "crash" \in Events
    /\ req[r].op \notin {"idle", "register"}
    /\ req' = [req EXCEPT ![r] = Idle]
    /\ UNCHANGED <<shiftStatus, reg, pos, asg, qualified>>

\* variant: registerForShift reads the shift without FOR UPDATE
SetStatusUnlocked(s, status) ==
    /\ shiftStatus[s] # status
    /\ shiftStatus' = [shiftStatus EXCEPT ![s] = status]
    /\ UNCHANGED <<reg, pos, asg, qualified, req>>
\* The shift row is updated in the database: no endpoint publishes or
\* cancels a shift.  A transaction that locks a row updated since its
\* snapshot fails.
SetShiftStatus(s, status) ==
    /\ shiftStatus[s] # status
    /\ shiftStatus' = [shiftStatus EXCEPT ![s] = status]
    /\ req' = [r \in Requests |->
                IF req[r].op = "register" /\ req[r].s = s
                THEN Doomed(req[r]) ELSE req[r]]
    /\ UNCHANGED <<reg, pos, asg, qualified>>

\* OnboardingService.reviewCredential: APPROVED, or anything else.
ReviewCredential(v) ==
    /\ "review" \in Events
    /\ \/ qualified' = qualified \cup {v}
       \/ qualified' = qualified \ {v}
    /\ UNCHANGED <<shiftStatus, reg, pos, asg, req>>

Continue(r) ==
    \/ RegisterCommit(r) \/ RegisterAbort(r)
    \/ CancelWrite(r)
    \/ PromoteCount(r) \/ PromotePick(r) \/ PromoteOverlap(r) \/ PromoteWrite(r)

Next ==
    \/ \E r \in Requests, v \in Volunteers, s \in Shifts :
          RegisterBegin(r, v, s) \/ CancelRead(r, v, s)
    \/ \E r \in Requests : Continue(r) \/ Lost(r)
    \/ \E s \in Shifts, status \in StatusUpdates : SetShiftStatus(s, status)
    \/ \E v \in Volunteers : ReviewCredential(v)

Spec == Init /\ [][Next]_vars

-----------------------------------------------------------------------------
TypeOK ==
    /\ shiftStatus \in [Shifts -> ShiftStatus]
    /\ reg \in [Rows -> RegStatus]
    /\ pos \in [Rows -> Nat]
    /\ asg \in [Rows -> AsgStatus]
    /\ qualified \subseteq Volunteers
    /\ req \in [Requests -> ReqState]

\* A seat is held exactly by who has an active assignment for it: whatever
\* the order in which registrations, cancellations and promotions of one
\* row interleave or fail half-way, registration and assignment agree.
SeatBacked ==
    \A v \in Volunteers, s \in Shifts :
        /\ reg[<<v, s>>] = "REGISTERED" <=> asg[<<v, s>>] = "ASSIGNED"
        /\ reg[<<v, s>>] \in {"NONE", "WAITLISTED"} => asg[<<v, s>>] = "NONE"

\* BR-11, acceptance case 3: nobody is assigned to overlapping shifts.
NoDoubleBooking ==
    \A v \in Volunteers : \A s, t \in Shifts :
        Active(asg[<<v, s>>]) /\ Active(asg[<<v, t>>]) /\ Overlaps(s, t) => s = t

\* BR-11, acceptance case 2: a shift has no more seats taken than it has.
CapacityRespected == \A s \in Shifts : Cardinality(Seated(s)) <= CapacityMax[s]

\* What remains of it when promotions race with registrations: every handler
\* but one can be a promotion acting on a count that is no longer true.
OverbookingBounded ==
    \A s \in Shifts :
        Cardinality(Seated(s)) <= CapacityMax[s] + Cardinality(Requests) - 1

\* While nobody cancels, the waiting list of a shift is numbered 1, 2, 3, ...
\* without gaps or repetitions, although the number each transaction uses
\* comes from a count on its snapshot.
WaitlistNumbered ==
    \A s \in Shifts :
        {pos[<<v, s>>] : v \in Waiting(s)} = 1 .. Cardinality(Waiting(s))

\* Nobody waits for a shift that has a free seat this volunteer could take,
\* once every handler is done (comment "Promote first waitlisted volunteer").
FreedSeatOffered ==
    (\A r \in Requests : req[r] = Idle) =>
        \A s \in Shifts, v \in Volunteers :
            reg[<<v, s>>] = "WAITLISTED" /\ ~Clash(v, s) =>
                Cardinality(Seated(s)) >= CapacityMax[s]

\* No row is inserted for a shift that is not PUBLISHED at that moment.
InsertsWhilePublished ==
    [][\A v \in Volunteers, s \in Shifts :
        reg[<<v, s>>] = "NONE" /\ reg'[<<v, s>>] # "NONE" => shiftStatus[s] = "PUBLISHED"]_vars

\* The line of shift s, by the positions in the table.
Line(s) ==
    [i \in 1 .. Cardinality(Waiting(s)) |-> CHOOSE v \in Waiting(s) : pos[<<v, s>>] = i]
Book == INSTANCE SeatBook WITH
    Capacity <- CapacityMax,
    Overlapping <- {p \in Shifts \X Shifts : Overlaps(p[1], p[2])},
    holders <- [s \in Shifts |-> Seated(s)],
    queue <- [s \in Shifts |-> Line(s)]
\* While nobody cancels, registering is one indivisible step of the book: any
\* number of snapshot transactions, aborted or committed in any order, do what
\* some sequence of joins would do (acceptance cases 2 and 3).
JoinsAreAtomic == Book!Spec

=============================================================================
