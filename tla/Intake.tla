------------------------------- MODULE Intake -------------------------------
(***************************************************************************)
(* The requests the web client can make of the server: applications and    *)
(* credentials of one volunteer, new events, and two queries               *)
(* (recruitment.service.ts, onboarding.service.ts, createEvent and the     *)
(* controllers and guards in front of them).                               *)
(*                                                                         *)
(* Rows of different volunteers never meet in these services.  None of     *)
(* them opens a transaction and no unique index covers their tables: each  *)
(* looks for a row and, one await later, inserts its own.                  *)
(*                                                                         *)
(* Definitions marked "variant" are plausible mistakes and are used by no  *)
(* specification.                                                          *)
(***************************************************************************)
EXTENDS Naturals, Sequences, FiniteSets

CONSTANTS
    Requests,       \* request handlers that can run at the same time
    Opps,           \* opportunities
    Types,          \* types of credentials
    Roles,          \* roles a token can carry
    AppVerdicts,    \* what reviewApplication may set, see the DTO
    CredVerdicts    \* what reviewCredential may set

ASSUME FiniteHandlers == IsFiniteSet(Requests) /\ Requests # {}
ASSUME AppVerdictsListed ==
    AppVerdicts \subseteq {"APPROVED", "REJECTED", "WAITLISTED", "REQUEST_INFO"}
ASSUME CredVerdictsListed == CredVerdicts \subseteq {"APPROVED", "REJECTED", "WAIVED"}

None == "none"
ASSUME NoneIsNoRole == None \notin Roles

VARIABLES
    apps,           \* the volunteer's application rows: their statuses
    submitted,      \* how many SUBMITTED credential rows there are of a type
    reviewed,       \* the statuses of the other rows of that type
    created,        \* whether an event was created
    job             \* what each handler is doing

intakeVars == <<apps, submitted, reviewed, created, job>>
credentials == <<submitted, reviewed>>

AppStatus == AppVerdicts \cup {"PENDING"}

Call(kind, subject) == [kind |-> kind, subject |-> subject]
Calls ==
    {Call("apply", o) : o \in Opps} \cup {Call("submit", t) : t \in Types}
        \cup {Call("event", None), Call("browse", None), Call("list", None)}

\* Credential rows as a client sees them: type and status.
Rows == Types \X (CredVerdicts \cup {"SUBMITTED"})

Stages == {"idle", "sent", "insert", "done", "failed"}

\* rows: the body of the answer.
JobState == [call : Calls, at : Stages, rows : SUBSET Rows]
Idle == [call |-> Call("list", None), at |-> "idle", rows |-> {}]

\* @Public() on the opportunity queries, @Roles() on POST /events; the other
\* routes want an authenticated user.
Allowed(call, role) ==
    CASE call.kind = "browse" -> TRUE
      [] call.kind = "event" -> role \in {"EVENT_MANAGER", "SYSTEM_ADMIN"}
      [] OTHER -> role # None

\* The guards decide by the request alone: the answer to one that is not
\* allowed is settled when it is sent.
Sent(call, role) ==
    [Idle EXCEPT !.call = call, !.at = IF Allowed(call, role) THEN "sent" ELSE "failed"]

At(r, kind, stage) == job[r].call.kind = kind /\ job[r].at = stage
Subject(r) == job[r].call.subject

\* The answer is there, or on its way.
Ended(r) == job[r].at \in {"done", "failed"}

MoveTo(r, stage) == job' = [job EXCEPT ![r].at = stage]

OnRecord(t) == submitted[t] > 0 \/ reviewed[t] # {}

-----------------------------------------------------------------------------
IntakeInit ==
    /\ apps = [o \in Opps |-> <<>>]
    /\ submitted = [t \in Types |-> 0]
    /\ reviewed = [t \in Types |-> {}]
    /\ created = FALSE
    /\ job = [r \in Requests |-> Idle]

\* A client sends a request with the token it has; the handler is free, or its
\* last answer is what made the client send this one.
Request(r, call, role) ==
    /\ job[r].at = "idle" \/ Ended(r)
    /\ job' = [job EXCEPT ![r] = Sent(call, role)]
    /\ UNCHANGED <<apps, credentials, created>>

\* The answer has reached the client, or nobody waits for it any more.
Close(r) ==
    /\ Ended(r)
    /\ job' = [job EXCEPT ![r] = Idle]
    /\ UNCHANGED <<apps, credentials, created>>

\* The token has expired, the body is not valid, the opportunity is not OPEN
\* (no endpoint ever opens or closes one: whether it is, is an input), or the
\* handler fails at an await, for want of a database.
Refuse(r) ==
    /\ job[r].at \in {"sent", "insert"}
    /\ MoveTo(r, "failed")
    /\ UNCHANGED <<apps, credentials, created>>

\* variant: only an application that is still pending counts
ApplyCheckPending(r) ==
    /\ At(r, "apply", "sent")
    /\ IF \A i \in 1 .. Len(apps[Subject(r)]) : apps[Subject(r)][i] # "PENDING"
       THEN MoveTo(r, "insert") ELSE MoveTo(r, "failed")
    /\ UNCHANGED <<apps, credentials, created>>
\* apply: the volunteer must not have applied, whatever became of it ...
ApplyCheck(r) ==
    /\ At(r, "apply", "sent")
    /\ IF apps[Subject(r)] = <<>> THEN MoveTo(r, "insert") ELSE MoveTo(r, "failed")
    /\ UNCHANGED <<apps, credentials, created>>
\* ... and the row is inserted.
ApplyInsert(r) ==
    /\ At(r, "apply", "insert")
    /\ apps' = [apps EXCEPT ![Subject(r)] = Append(@, "PENDING")]
    /\ MoveTo(r, "done")
    /\ UNCHANGED <<credentials, created>>

\* variant: what waits for its review is not looked at
SubmitCheckApproved(r) ==
    /\ At(r, "submit", "sent")
    /\ IF "APPROVED" \notin reviewed[Subject(r)] THEN MoveTo(r, "insert") ELSE MoveTo(r, "failed")
    /\ UNCHANGED <<apps, credentials, created>>

\* submitCredential: no row of this type that is SUBMITTED or APPROVED, ...
SubmitCheck(r) ==
    /\ At(r, "submit", "sent")
    /\ IF submitted[Subject(r)] = 0 /\ "APPROVED" \notin reviewed[Subject(r)]
       THEN MoveTo(r, "insert") ELSE MoveTo(r, "failed")
    /\ UNCHANGED <<apps, credentials, created>>
\* ... then the insert.
SubmitInsert(r) ==
    /\ At(r, "submit", "insert")
    /\ submitted' = [submitted EXCEPT ![Subject(r)] = @ + 1]
    /\ MoveTo(r, "done")
    /\ UNCHANGED <<apps, reviewed, created>>

\* createEvent: dates that are out of order and an unknown program are errors,
\* see Refuse; the row is a DRAFT.
CreateEvent(r) ==
    /\ At(r, "event", "sent")
    /\ created' = TRUE
    /\ MoveTo(r, "done")
    /\ UNCHANGED <<apps, credentials>>

\* getOpportunity and listOpportunities; the client keeps nothing of them
\* that it acts on.
Browse(r) ==
    /\ At(r, "browse", "sent")
    /\ MoveTo(r, "done")
    /\ UNCHANGED <<apps, credentials, created>>

\* getCredentials: every row of the volunteer.
Recorded ==
    {row \in Rows : \/ row[2] \in reviewed[row[1]]
                    \/ row[2] = "SUBMITTED" /\ submitted[row[1]] > 0}
ListCredentials(r) ==
    /\ At(r, "list", "sent")
    /\ job' = [job EXCEPT ![r].at = "done", ![r].rows = Recorded]
    /\ UNCHANGED <<apps, credentials, created>>

Serve(r) ==
    \/ Refuse(r)
    \/ ApplyCheck(r) \/ ApplyInsert(r)
    \/ SubmitCheck(r) \/ SubmitInsert(r)
    \/ CreateEvent(r) \/ Browse(r) \/ ListCredentials(r)

\* reviewApplication: by id, whatever the status was.
ReviewApplication(o, i, status) ==
    /\ i \in 1 .. Len(apps[o])
    /\ apps' = [apps EXCEPT ![o][i] = status]
    /\ UNCHANGED <<credentials, created, job>>

\* reviewCredential of a row that is SUBMITTED ...
ReviewSubmitted(t, status) ==
    /\ submitted[t] > 0
    /\ submitted' = [submitted EXCEPT ![t] = @ - 1]
    /\ reviewed' = [reviewed EXCEPT ![t] = @ \cup {status}]
    /\ UNCHANGED <<apps, created, job>>
\* ... or has been reviewed before: it need not be the only one of its status.
ReviewAgain(t, old, status) ==
    /\ old \in reviewed[t]
    /\ \E others \in {reviewed[t], reviewed[t] \ {old}} :
        reviewed' = [reviewed EXCEPT ![t] = others \cup {status}]
    /\ UNCHANGED <<apps, submitted, created, job>>

Staff ==
    \/ \E o \in Opps, status \in AppVerdicts : \E i \in 1 .. Len(apps[o]) :
        ReviewApplication(o, i, status)
    \/ \E t \in Types, status \in CredVerdicts :
        \/ ReviewSubmitted(t, status)
        \/ \E old \in reviewed[t] : ReviewAgain(t, old, status)

IntakeNext ==
    \/ \E r \in Requests, call \in Calls, role \in Roles \cup {None} : Request(r, call, role)
    \/ \E r \in Requests : Serve(r) \/ Close(r)
    \/ Staff

IntakeSpec == IntakeInit /\ [][IntakeNext]_intakeVars

-----------------------------------------------------------------------------
IntakeTypeOK ==
    /\ apps \in [Opps -> Seq(AppStatus)]
    /\ submitted \in [Types -> Nat]
    /\ reviewed \in [Types -> SUBSET CredVerdicts]
    /\ created \in BOOLEAN
    /\ job \in [Requests -> JobState]

\* Handlers that have found no row and are about to insert one.
Inserting(kind, subject) ==
    {r \in Requests : At(r, kind, "insert") /\ Subject(r) = subject}

\* However often the form is sent, and whatever reviewers do in between, a
\* volunteer has at most as many applications for an opportunity as requests
\* were past the check of apply at one moment: one, if they do not overlap.
ApplicationsBounded ==
    \A o \in Opps : Len(apps[o]) + Cardinality(Inserting("apply", o)) <= Cardinality(Requests)

\* The same for credentials of a type that wait for their review: the check
\* of submitCredential lets in as many as are past it together.
SubmissionsBounded ==
    \A t \in Types : submitted[t] + Cardinality(Inserting("submit", t)) <= Cardinality(Requests)
=============================================================================
