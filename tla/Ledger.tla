------------------------------- MODULE Ledger -------------------------------
(***************************************************************************)
(* The participation record of one assignment, from the check-out that     *)
(* drafts it to the adjustments of a locked record                         *)
(* (participation-ledger.service.ts and AttendanceService.checkOut).       *)
(* Records of different assignments never meet in one transaction, so one  *)
(* of them is modelled, with every handler that works on it:               *)
(*                                                                         *)
(*  - checkOut is one READ COMMITTED transaction that first updates, and   *)
(*    so locks, the attendance row, and only then looks for a record.      *)
(*  - approveParticipation reads the record, decides, and updates it by    *)
(*    id, whatever it has become: there is no transaction.                 *)
(*  - adjustParticipation reads and writes in one READ COMMITTED           *)
(*    transaction, which locks nothing between its read and its update.    *)
(*                                                                         *)
(* Hours are counted in quarter hours, which two decimals write exactly.   *)
(*                                                                         *)
(* A definition marked "variant" is not part of the specification: it is   *)
(* the definition below it with a plausible mistake, and shows that the    *)
(* properties can fail.                                                    *)
(***************************************************************************)
EXTENDS Integers, FiniteSets, Sequences

CONSTANTS
    Requests,         \* request handlers that can run at the same time
    Scheduled,        \* scheduled hours of the assignment
    GrossChoices,     \* hours between check-in and check-out
    CreditChoices,    \* dto.creditedHours of an approval
    BreakChoices,     \* dto.breakMinutes of an approval, in quarter hours
    DeltaChoices,     \* dto.deltaHours of an adjustment
    MaxAdjustments,   \* bound: no adjustment is asked for beyond this number
    Events            \* which kinds of events happen, see EventKinds

EventKinds == {"submit", "adjust", "crash"}

\* Nothing else is asked of the number of handlers.
ASSUME FiniteRequests == IsFiniteSet(Requests) /\ Requests # {}
\* createShift refuses endsAt <= startsAt, checkOut a time not after check-in.
ASSUME HoursAreNat ==
    /\ Scheduled \in Nat \ {0}
    /\ GrossChoices \subseteq Nat \ {0}
\* The DTOs demand 0 <= creditedHours and 0 <= breakMinutes.
ASSUME ChoicesAreHours ==
    /\ CreditChoices \subseteq Nat /\ BreakChoices \subseteq Nat
    /\ DeltaChoices \subseteq Int
ASSUME Bounds == MaxAdjustments \in Nat /\ Events \subseteq EventKinds

VARIABLES
    checkedOut,    \* hours until attendance.checked_out_at, Absent for NULL
    rows,          \* number of participation rows of the assignment
    part,          \* the newest of them
    adjustments,   \* its participation_adjustment rows, in order of creation
    req            \* what each handler is doing

vars == <<checkedOut, rows, part, adjustments, req>>

Absent == -1    \* undefined in a DTO, NULL in a row

Status == {"DRAFT", "SUBMITTED", "SUPERVISOR_APPROVED", "FINALIZED",
           "LOCKED", "DISPUTED"}
Final == {"FINALIZED", "LOCKED"}
Roles == {"SITE_SUPERVISOR", "COORDINATOR"}   \* SYSTEM_ADMIN: as COORDINATOR
Targets == {"SUPERVISOR_APPROVED", "FINALIZED", "LOCKED", "DISPUTED"}
Actions == {"SUPERVISOR_APPROVE", "FINALIZE", "LOCK", "DISPUTE"}

\* participation: gross stands for checkin_time and checkout_time
Participation == [status : Status \cup {"NONE"}, gross : Nat, credited : Nat,
                  flagged : BOOLEAN, approvedBy : Roles \cup {"NONE"}]
NoRow == [status |-> "NONE", gross |-> 0, credited |-> 0,
          flagged |-> FALSE, approvedBy |-> "NONE"]
Adjustment == [status : Status, delta : Int, previous : Nat, new : Nat]

Idle == [op |-> "idle"]
CheckOutReq == [op : {"checkout", "find"}, hours : Nat]
SaveReq == [op : {"save"}, hours : Nat, found : Status \cup {"NONE"}]
\* The update payload: credited and flagFrom are Absent where not updated.
ApproveReq == [op : {"approve"}, role : Roles, status : Targets,
               credited : Nat \cup {Absent}, flagFrom : Nat \cup {Absent}]
AdjustReq == [op : {"adjust"}, entry : Adjustment]
ReqState == {Idle} \cup CheckOutReq \cup SaveReq \cup ApproveReq \cup AdjustReq

-----------------------------------------------------------------------------
\* variant: a finalized record can still be disputed
DisputedAnyTime ==
    [from \in Status |->
        CASE from = "DRAFT" -> {"SUBMITTED"}
          [] from = "SUBMITTED" -> {"SUPERVISOR_APPROVED", "DISPUTED"}
          [] from = "SUPERVISOR_APPROVED" -> {"FINALIZED", "DISPUTED"}
          [] from = "DISPUTED" -> {"SUBMITTED", "SUPERVISOR_APPROVED"}
          [] from = "FINALIZED" -> {"LOCKED", "DISPUTED"}
          [] OTHER -> {}]
STATE_TRANSITIONS ==
    [from \in Status |->
        CASE from = "DRAFT" -> {"SUBMITTED"}
          [] from = "SUBMITTED" -> {"SUPERVISOR_APPROVED", "DISPUTED"}
          [] from = "SUPERVISOR_APPROVED" -> {"FINALIZED", "DISPUTED"}
          [] from = "DISPUTED" -> {"SUBMITTED", "SUPERVISOR_APPROVED"}
          [] from = "FINALIZED" -> {"LOCKED"}
          [] OTHER -> {}]

Target(action) ==
    CASE action = "SUPERVISOR_APPROVE" -> "SUPERVISOR_APPROVED"
      [] action = "FINALIZE" -> "FINALIZED"
      [] action = "LOCK" -> "LOCKED"
      [] OTHER -> "DISPUTED"

\* variant: forgets the rule for FINALIZE
MayUnlessLock(role, action) == action = "LOCK" => role = "COORDINATOR"
\* Both roles may approve and dispute.
May(role, action) == action \in {"FINALIZE", "LOCK"} => role = "COORDINATOR"

Abs(n) == IF n < 0 THEN -n ELSE n
\* Math.max(0, n)
NotNegative(n) == IF n < 0 THEN 0 ELSE n
\* More than 15% away from what was scheduled.
Deviates(hours) == 100 * Abs(hours - Scheduled) > 15 * Scheduled

\* The hours a handler read and those it is about to store.
\* variant: without Math.max(0, ...)
AdjustedUnchecked(hours, delta) == hours + delta
Adjusted(hours, delta) == NotNegative(hours + delta)

-----------------------------------------------------------------------------
Init ==
    /\ checkedOut = Absent
    /\ rows = 0
    /\ part = NoRow
    /\ adjustments = <<>>
    /\ req = [r \in Requests |-> Idle]

Become(r, state) == req' = [req EXCEPT ![r] = state]

\* checkOut: the read of the attendance and its checks.  A request that finds
\* it checked out returns it as it is.
CheckOutRead(r, hours) ==
    /\ req[r] = Idle
    /\ checkedOut = Absent
    /\ Become(r, [op |-> "checkout", hours |-> hours])
    /\ UNCHANGED <<checkedOut, rows, part, adjustments>>

\* variant: the transaction does not wait for the row
CheckOutNoWait(r) ==
    /\ req[r].op = "checkout"
    /\ Become(r, [req[r] EXCEPT !.op = "find"])
    /\ UNCHANGED <<checkedOut, rows, part, adjustments>>
\* The update of the attendance waits for any other transaction that has
\* updated it; nobody else sees it before the commit.
CheckOutLock(r) ==
    /\ req[r].op = "checkout"
    /\ \A o \in Requests : req[o].op \notin {"find", "save"}
    /\ Become(r, [req[r] EXCEPT !.op = "find"])
    /\ UNCHANGED <<checkedOut, rows, part, adjustments>>

\* participation.findFirst ...
CheckOutFind(r) ==
    /\ req[r].op = "find"
    /\ Become(r, [op |-> "save", hours |-> req[r].hours, found |-> part.status])
    /\ UNCHANGED <<checkedOut, rows, part, adjustments>>

\* variants: no branch for an existing draft, none for a record past DRAFT
CheckOutSaveNew(r) ==
    /\ req[r].op = "save"
    /\ IF req[r].found = "NONE"
       THEN /\ rows' = rows + 1
            /\ part' = [NoRow EXCEPT !.status = "DRAFT", !.gross = req[r].hours]
       ELSE UNCHANGED <<rows, part>>
    /\ checkedOut' = req[r].hours
    /\ Become(r, Idle)
    /\ UNCHANGED adjustments
CheckOutSaveDraft(r) ==
    /\ req[r].op = "save"
    /\ req[r].found \in {"NONE", "DRAFT"}
    /\ rows' = IF req[r].found = "NONE" THEN rows + 1 ELSE rows
    /\ part' = [part EXCEPT !.status = "DRAFT", !.gross = req[r].hours,
                            !.credited = req[r].hours,
                            !.flagged = Deviates(req[r].hours)]
    /\ checkedOut' = req[r].hours
    /\ Become(r, Idle)
    /\ UNCHANGED adjustments
\* ... and, by what it found, a new record, an update of the draft by id, or
\* neither; then the commit.  (assignment.status becomes COMPLETED.)
CheckOutSave(r) ==
    /\ req[r].op = "save"
    /\ LET hours == req[r].hours
           draft(p) == [p EXCEPT !.status = "DRAFT", !.gross = hours,
                            !.credited = hours, !.flagged = Deviates(hours)]
       IN  /\ \/ /\ req[r].found = "NONE"
                 /\ rows' = rows + 1
                 /\ part' = draft(NoRow)
              \/ /\ req[r].found = "DRAFT"
                 /\ part' = draft(part)
                 /\ UNCHANGED rows
              \/ /\ req[r].found \notin {"NONE", "DRAFT"}
                 /\ UNCHANGED <<rows, part>>
           /\ checkedOut' = hours
    /\ Become(r, Idle)
    /\ UNCHANGED adjustments

\* No code in the repository submits a draft: it is done in the database.
Submit ==
    /\ "submit" \in Events
    /\ part.status = "DRAFT"
    /\ part' = [part EXCEPT !.status = "SUBMITTED"]
    /\ UNCHANGED <<checkedOut, rows, adjustments, req>>

\* approveParticipation up to the update.  breakMinutes, where given, wins
\* over creditedHours; the flag follows creditedHours only.
ApproveRead(r, role, action, credited, break) ==
    /\ req[r] = Idle
    /\ part.status \notin {"NONE", "LOCKED"}
    /\ May(role, action)
    /\ Target(action) \in STATE_TRANSITIONS[part.status]
    /\ Become(r, [op |-> "approve", role |-> role, status |-> Target(action),
                  credited |-> IF break # Absent
                               THEN NotNegative(part.gross - break) ELSE credited,
                  flagFrom |-> credited])
    /\ UNCHANGED <<checkedOut, rows, part, adjustments>>

\* Its update, by id.
ApproveWrite(r) ==
    /\ req[r].op = "approve"
    /\ LET t == req[r]
       IN  part' = [part EXCEPT
                !.status = t.status,
                !.approvedBy = t.role,
                !.credited = IF t.credited # Absent THEN t.credited ELSE @,
                !.flagged = IF t.flagFrom # Absent THEN Deviates(t.flagFrom) ELSE @]
    /\ Become(r, Idle)
    /\ UNCHANGED <<checkedOut, rows, adjustments>>

\* adjustParticipation, by a coordinator: the read and the check ...
AdjustRead(r, delta) ==
    /\ "adjust" \in Events
    /\ Len(adjustments) < MaxAdjustments
    /\ req[r] = Idle
    /\ part.status \in Final
    /\ Become(r, [op |-> "adjust", entry |->
            [status |-> part.status, delta |-> delta, previous |-> part.credited,
             new |-> Adjusted(part.credited, delta)]])
    /\ UNCHANGED <<checkedOut, rows, part, adjustments>>

\* variant: without the entry
AdjustSilently(r) ==
    /\ req[r].op = "adjust"
    /\ part' = [part EXCEPT !.credited = req[r].entry.new]
    /\ Become(r, Idle)
    /\ UNCHANGED <<checkedOut, rows, adjustments>>
\* ... and the update and the entry, seen by others at the commit.
AdjustWrite(r) ==
    /\ req[r].op = "adjust"
    /\ part' = [part EXCEPT !.credited = req[r].entry.new]
    /\ adjustments' = Append(adjustments, req[r].entry)
    /\ Become(r, Idle)
    /\ UNCHANGED <<checkedOut, rows>>

\* The process stops, a connection fails or a transaction times out before
\* the last statement of a handler: all of it is rolled back.
Lost(r) ==
    /\ "crash" \in Events
    /\ req[r] # Idle
    /\ Become(r, Idle)
    /\ UNCHANGED <<checkedOut, rows, part, adjustments>>

Continue(r) ==
    \/ CheckOutLock(r) \/ CheckOutFind(r) \/ CheckOutSave(r)
    \/ ApproveWrite(r) \/ AdjustWrite(r)

Approve(r) ==
    \E role \in Roles, action \in Actions, credited \in CreditChoices \cup {Absent},
       break \in BreakChoices \cup {Absent} :
        ApproveRead(r, role, action, credited, break)

Next ==
    \/ \E r \in Requests :
        \/ \E hours \in GrossChoices : CheckOutRead(r, hours)
        \/ Approve(r)
        \/ \E delta \in DeltaChoices : AdjustRead(r, delta)
        \/ Continue(r)
        \/ Lost(r)
    \/ Submit

Spec == Init /\ [][Next]_vars

\* A handler that has started goes on, and the database serves those that
\* wait for a row in turn.
FairSpec == Spec /\ \A r \in Requests : WF_vars(Continue(r)) /\ SF_vars(CheckOutLock(r))

-----------------------------------------------------------------------------
TypeOK ==
    /\ checkedOut \in Nat \cup {Absent}
    /\ rows \in Nat
    /\ part \in Participation
    /\ adjustments \in Seq(Adjustment)
    /\ req \in [Requests -> ReqState]

\* Check-outs that run at the same time leave one record of the assignment,
\* although no unique index forbids two (checkOut: "Upsert participation").
OneRecord == rows <= 1

\* A draft has the hours of the attendance it was made from, whichever of
\* several check-outs came last.
DraftMatchesAttendance == part.status = "DRAFT" => part.gross = checkedOut

\* A record gets FINALIZED or LOCKED by a coordinator only, also when a
\* supervisor's decision on an older state of it is written late.
FinalizedByCoordinator == part.status \in Final => part.approvedBy = "COORDINATOR"

\* "LOCKED records cannot be changed" and DISPUTED is "pre-FINALIZED": a
\* final record stays final, a locked one locked.
FinalNeverReopened ==
    [][/\ part.status \in Final => part'.status \in Final
       /\ part.status = "LOCKED" => part'.status = "LOCKED"]_vars

\* No decision and no check-out under way, made on an older state of the
\* record, will take its status out of the kept ones.
Settled(kept) ==
    \A r \in Requests :
        /\ req[r].op = "approve" => req[r].status \in kept
        /\ req[r].op = "save" => req[r].found \notin {"NONE", "DRAFT"}

\* What is left of that with several handlers: nothing begun once a record is
\* final (or locked) reopens it, so when those that were begun before have
\* ended it is final (or locked) for good.
FinalForGood ==
    [][\A kept \in {Final, {"LOCKED"}} :
        part.status \in kept /\ Settled(kept) =>
            part'.status \in kept /\ Settled(kept)']_vars

\* The step appends the adjustment that brought the hours the record has now.
Entered(entry) ==
    /\ adjustments' = Append(adjustments, entry)
    /\ entry.new = part'.credited
NewEntries == {adjustments'[i] : i \in DOMAIN adjustments'}

\* From then on the hours of a locked record change by entered adjustments
\* only, however many run at the same time.
LockedHoursEntered ==
    [][/\ part.status = "LOCKED" /\ Settled({})
       /\ part'.credited # part.credited
       => \E entry \in NewEntries : Entered(entry)]_vars

\* BR-05, "Corrections to finalized participation records must create
\* adjustment entries": hours of a final record change by an entry only, which
\* tells the hours before and after.
CorrectionsRecorded ==
    [][part.status \in Final /\ part'.credited # part.credited =>
        \E entry \in NewEntries : Entered(entry) /\ entry.previous = part.credited]_vars

\* Check-outs, decisions and corrections take effect as if each were one step
\* that sees the record as it is: this module implements HoursBook.  Nothing
\* but one request at a time promises it, since no decision is a transaction.
Book == INSTANCE HoursBook WITH
            Worked <- GrossChoices, Deltas <- DeltaChoices,
            status <- part.status, hours <- part.credited,
            signedBy <- part.approvedBy, corrections <- adjustments
DecisionsAreAtomic == Book!Spec

\* Whatever waits for whom, every handler ends.
HandlersFinish == \A r \in Requests : req[r] # Idle ~> req[r] = Idle
=============================================================================
