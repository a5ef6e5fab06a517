------------------------------ MODULE HoursBook ------------------------------
(***************************************************************************)
(* The life cycle of one record, as the head of                            *)
(* participation-ledger.service.ts tells it: a page that every request     *)
(* turns in one indivisible step, decided on what the page says at that    *)
(* moment.  It is written without handlers, rows or late writes; Ledger    *)
(* with one request at a time implements it.  Any decision may bring hours *)
(* of its own, LOCK included, as the code has it and BR-05 has not (see    *)
(* CorrectionsRecorded of Ledger).                                         *)
(***************************************************************************)
EXTENDS Integers, Sequences

CONSTANTS
    Worked,          \* hours somebody can have been present
    Deltas           \* what a correction can add

VARIABLES
    status,          \* of the record, "NONE" before there is one
    hours,           \* credited
    signedBy,        \* role of whoever decided last, "NONE" if nobody has
    corrections      \* the adjustments, the newest last

pageVars == <<status, hours, signedBy, corrections>>

Staff == {"SITE_SUPERVISOR", "COORDINATOR"}

Init ==
    /\ status = "NONE" /\ hours = 0
    /\ signedBy = "NONE" /\ corrections = <<>>

\* The check-out, once: it credits the hours of presence.
Draft ==
    /\ status = "NONE" /\ status' = "DRAFT"
    /\ hours' \in Worked
    /\ UNCHANGED <<signedBy, corrections>>

HandIn ==
    /\ status = "DRAFT" /\ status' = "SUBMITTED"
    /\ UNCHANGED <<hours, signedBy, corrections>>

\* A decision by one of those who may make it, with hours of its own or not.
Decide(from, to, deciders) ==
    /\ status \in from /\ status' = to
    /\ signedBy' \in deciders
    /\ hours' \in Nat
    /\ UNCHANGED corrections

Approve == Decide({"SUBMITTED", "DISPUTED"}, "SUPERVISOR_APPROVED", Staff)
Dispute == Decide({"SUBMITTED", "SUPERVISOR_APPROVED"}, "DISPUTED", Staff)
Finalize == Decide({"SUPERVISOR_APPROVED"}, "FINALIZED", {"COORDINATOR"})
Lock == Decide({"FINALIZED"}, "LOCKED", {"COORDINATOR"})

\* A correction of a final record, entered with the hours before and after.
Correct(delta) ==
    /\ status \in {"FINALIZED", "LOCKED"}
    /\ hours' = IF hours + delta < 0 THEN 0 ELSE hours + delta
    /\ corrections' = Append(corrections,
            [status |-> status, delta |-> delta, previous |-> hours, new |-> hours'])
    /\ UNCHANGED <<status, signedBy>>

Next ==
    \/ Draft \/ HandIn \/ Approve \/ Dispute \/ Finalize \/ Lock
    \/ \E delta \in Deltas : Correct(delta)

Spec == Init /\ [][Next]_pageVars
=============================================================================
