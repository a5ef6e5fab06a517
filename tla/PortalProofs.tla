---------------------------- MODULE PortalProofs ----------------------------
(***************************************************************************)
(* Theorems about Portal: it implements Intake, so the bounds proved there *)
(* hold for what a browser can do, and it does not tell the user of rows   *)
(* that are not there.                                                     *)
(***************************************************************************)
EXTENDS Portal, IntakeProofs

\* Who is signed in, and where.
Place == user \in Users /\ page \in Addresses

LEMMA PlaceCalls ==
    ASSUME Place
    PROVE  /\ page.opp \in Opps \cup {None}
           /\ page.at = "apply" => Call("apply", page.opp) \in Calls
           /\ Call("submit", "TRAINING") \in Calls /\ Call("event", None) \in Calls
           /\ \A p : Query(p) \in Calls
           /\ Onboarding \in Addresses
  BY ClientTypes DEF Place, Addresses, Calls, Query, Onboarding

\* What each step of the tab does to the address, the user and the server.
LEMMA TabStep ==
    ASSUME Place, NEW r \in Requests, Tab(r)
    PROVE  /\ Place'
           /\ UNCHANGED intakeVars \/ \E call \in Calls, role \in Users : Request(r, call, role)
  <1>1. ASSUME NEW p \in Addresses, NEW u \in Users, Open(p, u, r)
        PROVE  Place' /\ (UNCHANGED intakeVars
                          \/ \E call \in Calls, role \in Users : Request(r, call, role))
    BY <1>1, PlaceCalls DEF Open, Show, Place
  <1>2. ASSUME NEW call \in Calls, Post(r, call)
        PROVE  Place' /\ \E c \in Calls, role \in Users : Request(r, c, role)
    BY <1>2 DEF Post, Place
  <1>3. ASSUME NEW p \in Addresses, Reload(p, r)
        PROVE  Place' /\ (UNCHANGED intakeVars
                          \/ \E call \in Calls, role \in Users : Request(r, call, role))
    BY <1>3, PlaceCalls DEF Reload, Place
  <1>4. ASSUME NEW p \in Addresses, Navigate(p, r) PROVE \E u \in Users : Open(p, u, r)
    BY <1>4 DEF Navigate, Place
  <1>5. ASSUME NEW role \in Roles, SwitchRole(role, r) \/ Logout(r)
        PROVE  \E u \in Users : Open(page, u, r)
    BY <1>5 DEF SwitchRole, Logout, Users
  <1>6. ASSUME Logout(r) PROVE \E u \in Users : Open(page, u, r)
    BY <1>6 DEF Logout, Users
  <1>7. ASSUME Apply(r) \/ Upload(r) \/ Save(r) PROVE \E call \in Calls : Post(r, call)
    BY <1>7, PlaceCalls DEF Apply, Upload, Save
  <1>8. ASSUME NetFail(r) PROVE Place' /\ UNCHANGED intakeVars
    BY <1>8 DEF NetFail, Received, Place
  <1> QED
    BY <1>1, <1>2, <1>3, <1>4, <1>5, <1>6, <1>7, <1>8 DEF Tab, Place

LEMMA AnsweredStep ==
    ASSUME Place, NEW r \in Requests, Answered(r)
    PROVE  /\ Place'
           /\ Close(r) \/ \E call \in Calls, role \in Users : Request(r, call, role)
  <1>1. CASE Deliver(r)
    BY <1>1 DEF Deliver, Received, Place
  <1>2. CASE DeliverApplied(r)
    BY <1>2, PlaceCalls DEF DeliverApplied, Show, Place
  <1>3. CASE Forget(r)
    BY <1>3 DEF Forget, portalVars, Place
  <1> QED
    BY <1>1, <1>2, <1>3 DEF Answered

LEMMA PortalStep ==
    ASSUME Place, [Next]_vars
    PROVE  Place' /\ [IntakeNext]_intakeVars
  <1>1. ASSUME NEW r \in Requests, Tab(r) PROVE Place' /\ [IntakeNext]_intakeVars
    BY <1>1, TabStep DEF IntakeNext, Users
  <1>2. ASSUME NEW r \in Requests, Answered(r) PROVE Place' /\ [IntakeNext]_intakeVars
    BY <1>2, AnsweredStep DEF IntakeNext, Users
  <1>3. ASSUME NEW r \in Requests, Work(r) PROVE Place' /\ [IntakeNext]_intakeVars
    BY <1>3 DEF Work, IntakeNext, portalVars, Place
  <1>4. ASSUME Staff, UNCHANGED portalVars PROVE Place' /\ [IntakeNext]_intakeVars
    BY <1>4 DEF IntakeNext, portalVars, Place
  <1>5. ASSUME Dismiss \/ UNCHANGED vars PROVE Place' /\ [IntakeNext]_intakeVars
    BY <1>5 DEF Dismiss, vars, portalVars, Place
  <1> QED
    BY <1>1, <1>2, <1>3, <1>4, <1>5 DEF Next

LEMMA PlaceInit == Init => Place /\ IntakeInit
  BY DEF Init, Place, Addresses

\* The tab uses the server as any client may: Portal implements Intake.
THEOREM PortalImplementsIntake == Spec => IntakeSpec
  <1>1. Spec => []Place
    BY PlaceInit, PortalStep, PTL DEF Spec
  <1> QED
    BY <1>1, PlaceInit, PortalStep, PTL DEF Spec, IntakeSpec

\* Clicking twice, coming back to a form and sending it again, retrying after
\* an error: no more applications than requests at one time.
THEOREM PortalApplicationsBounded == Spec => []ApplicationsBounded
  BY PortalImplementsIntake, ApplicationsAreBounded, PTL

\* The same for credentials that wait for their review.
THEOREM PortalSubmissionsBounded == Spec => []SubmissionsBounded
  BY PortalImplementsIntake, SubmissionsAreBounded, PTL

-----------------------------------------------------------------------------
\* Rows stay, whatever reviewers make of them.
LEMMA OnRecordStays ==
    ASSUME IntakeTypeOK, [IntakeNext]_intakeVars, NEW t \in Types, OnRecord(t)
    PROVE  OnRecord(t)'
  <1> USE DEF OnRecord, IntakeTypeOK
  <1>1. CASE UNCHANGED credentials
    BY <1>1 DEF credentials
  <1>2. ASSUME NEW r \in Requests, SubmitInsert(r) PROVE OnRecord(t)'
    <2>1. submitted' = [submitted EXCEPT ![Subject(r)] = @ + 1] /\ UNCHANGED reviewed
      BY <1>2 DEF SubmitInsert
    <2>2. submitted[t] > 0 => submitted'[t] > 0
      BY <2>1
    <2> QED
      BY <2>1, <2>2
  <1>3. ASSUME NEW u \in Types, NEW status \in CredVerdicts, ReviewSubmitted(u, status)
        PROVE  OnRecord(t)'
    <2>1. CASE u = t
      BY <1>3, <2>1 DEF ReviewSubmitted
    <2>2. CASE u # t
      BY <1>3, <2>2 DEF ReviewSubmitted
    <2> QED
      BY <2>1, <2>2
  <1>4. ASSUME NEW u \in Types, NEW status \in CredVerdicts, NEW old \in reviewed[u],
               ReviewAgain(u, old, status)
        PROVE  OnRecord(t)'
    <2>1. CASE u = t
      <3>1. PICK others \in {reviewed[u], reviewed[u] \ {old}} :
                reviewed' = [reviewed EXCEPT ![u] = others \cup {status}]
        BY <1>4 DEF ReviewAgain
      <3>2. reviewed'[t] = others \cup {status}
        BY <2>1, <3>1, Zenon
      <3> QED
        BY <3>2
    <2>2. CASE u # t
      BY <1>4, <2>2 DEF ReviewAgain
    <2> QED
      BY <2>1, <2>2
  <1>5. CASE IntakeNext
    BY <1>1, <1>2, <1>3, <1>4, <1>5
       DEF IntakeNext, Request, Close, Serve, Refuse, ApplyCheck, ApplyInsert, SubmitCheck,
           CreateEvent, Browse, ListCredentials, Staff, ReviewApplication
  <1>6. CASE UNCHANGED intakeVars
    BY <1>1, <1>6 DEF intakeVars, credentials
  <1> QED
    BY <1>5, <1>6

LEMMA AppliedStays ==
    ASSUME IntakeTypeOK, [IntakeNext]_intakeVars, NEW o \in Opps, apps[o] # <<>>
    PROVE  apps'[o] # <<>>
  <1> USE DEF IntakeTypeOK
  <1>1. CASE UNCHANGED apps
    BY <1>1
  <1>2. ASSUME NEW r \in Requests, ApplyInsert(r) PROVE apps'[o] # <<>>
    <2>1. \A s \in Seq(AppStatus) : Append(s, "PENDING") # <<>>
      <3>1. "PENDING" \in AppStatus
        BY DEF AppStatus
      <3> QED
        BY <3>1, AppendProperties
    <2> QED
      BY <1>2, <2>1 DEF ApplyInsert
  <1>3. ASSUME NEW p \in Opps, NEW status \in AppVerdicts, NEW i \in 1 .. Len(apps[p]),
               ReviewApplication(p, i, status)
        PROVE  apps'[o] # <<>>
    <2>1. Len([apps[p] EXCEPT ![i] = status]) = Len(apps[p])
      BY StatusReplaced DEF AppStatus
    <2> QED
      BY <1>3, <2>1 DEF ReviewApplication
  <1>4. CASE IntakeNext
    BY <1>1, <1>2, <1>3, <1>4
       DEF IntakeNext, Request, Close, Serve, Refuse, ApplyCheck, SubmitCheck, SubmitInsert,
           CreateEvent, Browse, ListCredentials, Staff, ReviewSubmitted, ReviewAgain
  <1>5. CASE UNCHANGED intakeVars
    BY <1>1, <1>5 DEF intakeVars
  <1> QED
    BY <1>4, <1>5

LEMMA CreatedStays ==
    ASSUME [IntakeNext]_intakeVars, created
    PROVE  created'
  BY DEF IntakeNext, intakeVars, Request, Close, Serve, Refuse, ApplyCheck, ApplyInsert,
         SubmitCheck, SubmitInsert, CreateEvent, Browse, ListCredentials, Staff,
         ReviewApplication, ReviewSubmitted, ReviewAgain

LEMMA HappenedStays ==
    ASSUME IntakeTypeOK, [IntakeNext]_intakeVars, NEW call \in Calls, Happened(call)
    PROVE  Happened(call)'
  <1>1. CASE call.kind = "apply"
    <2>1. call.subject \in Opps
      BY <1>1 DEF Calls, Call
    <2> QED
      BY <1>1, <2>1, AppliedStays DEF Happened
  <1>2. CASE call.kind = "submit"
    <2>1. call.subject \in Types
      BY <1>2 DEF Calls, Call
    <2> QED
      BY <1>2, <2>1, OnRecordStays DEF Happened
  <1>3. CASE call.kind = "event"
    BY <1>3, CreatedStays DEF Happened
  <1>4. CASE call.kind \notin {"apply", "submit", "event"}
    BY <1>4 DEF Happened
  <1> QED
    BY <1>1, <1>2, <1>3, <1>4

\* A job that has not changed, and one that says nothing.
LEMMA AnswerStays ==
    ASSUME IntakeTypeOK, AnswersTrue, [IntakeNext]_intakeVars, NEW q \in Requests,
           job'[q].call = job[q].call, job'[q].rows = job[q].rows,
           job'[q].at = "done" => job[q].at = "done" \/ Happened(job[q].call)'
    PROVE  (/\ job[q].at = "done" => Happened(job[q].call)
            /\ \A row \in job[q].rows : OnRecord(row[1]))'
  <1>1. job[q] \in JobState
    BY DEF IntakeTypeOK
  <1>2. job[q].call \in Calls /\ job[q].rows \in SUBSET Rows
    BY <1>1 DEF JobState
  <1>3. ASSUME job'[q].at = "done" PROVE Happened(job[q].call)'
    <2>1. PICK call \in Calls : call = job[q].call
      BY <1>2
    <2>2. CASE job[q].at = "done"
      <3>1. Happened(call)
        BY <2>1, <2>2 DEF AnswersTrue
      <3>2. Happened(call)'
        BY <3>1, HappenedStays
      <3> QED
        BY <2>1, <3>2 DEF Happened, OnRecord
    <2> QED
      BY <1>3, <2>2
  <1>4. ASSUME NEW row \in job[q].rows PROVE OnRecord(row[1])'
    <2>1. row[1] \in Types /\ OnRecord(row[1])
      BY <1>2, <1>4 DEF AnswersTrue, Rows
    <2> QED
      BY <2>1, OnRecordStays
  <1> QED
    BY <1>3, <1>4

LEMMA AnswersStep ==
    ASSUME IntakeTypeOK, AnswersTrue, [IntakeNext]_intakeVars
    PROVE  AnswersTrue'
  <1> DEFINE True(q) == /\ job[q].at = "done" => Happened(job[q].call)
                        /\ \A row \in job[q].rows : OnRecord(row[1])
  <1> SUFFICES ASSUME NEW q \in Requests PROVE True(q)'
    BY DEF AnswersTrue
  <1>0. job \in [Requests -> JobState]
    BY DEF IntakeTypeOK
  <1>1. ASSUME job'[q] = job[q] PROVE True(q)'
    BY <1>1, AnswerStays
  <1>2. ASSUME job'[q].at # "done", job'[q].rows = {} PROVE True(q)'
    BY <1>2
  <1>3. ASSUME NEW r \in Requests, MoveTo(r, "insert") \/ MoveTo(r, "failed") PROVE True(q)'
    <2>1. CASE q = r
      <3>1. /\ job'[q].call = job[q].call /\ job'[q].rows = job[q].rows
            /\ job'[q].at # "done"
        BY <1>0, <1>3, <2>1 DEF MoveTo, JobState
      <3> QED
        BY <3>1, AnswerStays
    <2>2. CASE q # r
      BY <1>0, <1>1, <1>3, <2>2 DEF MoveTo
    <2> QED
      BY <2>1, <2>2
  <1>4. ASSUME NEW r \in Requests, MoveTo(r, "done"), Happened(job[r].call)' PROVE True(q)'
    <2>1. CASE q = r
      <3>1. job'[q].call = job[q].call /\ job'[q].rows = job[q].rows
        BY <1>0, <1>4, <2>1 DEF MoveTo, JobState
      <3> QED
        BY <1>4, <2>1, <3>1, AnswerStays
    <2>2. CASE q # r
      BY <1>0, <1>1, <1>4, <2>2 DEF MoveTo
    <2> QED
      BY <2>1, <2>2
  <1>5. ASSUME NEW r \in Requests, NEW j, j.at # "done", j.rows = {},
               job' = [job EXCEPT ![r] = j]
        PROVE  True(q)'
    <2>1. CASE q = r
      BY <1>0, <1>2, <1>5, <2>1
    <2>2. CASE q # r
      BY <1>0, <1>1, <1>5, <2>2
    <2> QED
      BY <2>1, <2>2
  <1>6. ASSUME NEW r \in Requests, NEW call \in Calls, NEW role, Request(r, call, role)
        PROVE  True(q)'
    <2>1. Sent(call, role).at # "done" /\ Sent(call, role).rows = {}
      BY DEF Sent, Idle
    <2> QED
      BY <1>5, <1>6, <2>1 DEF Request
  <1>7. ASSUME NEW r \in Requests, Close(r) PROVE True(q)'
    <2>1. Idle.at # "done" /\ Idle.rows = {}
      BY DEF Idle
    <2> QED
      BY <1>5, <1>7, <2>1 DEF Close
  <1>8. ASSUME NEW r \in Requests, Serve(r) PROVE True(q)'
    <2>0. job[r] \in JobState
      BY <1>0
    <2>1. CASE Refuse(r)
      BY <1>3, <2>1 DEF Refuse
    <2>2. CASE ApplyCheck(r)
      BY <1>3, <2>2 DEF ApplyCheck
    <2>3. CASE SubmitCheck(r)
      BY <1>3, <2>3 DEF SubmitCheck
    <2>4. CASE ApplyInsert(r)
      <3>1. job[r].call.kind = "apply" /\ job[r].call \in Calls
        BY <2>0, <2>4 DEF ApplyInsert, At, JobState
      <3>2. Subject(r) \in Opps
        BY <3>1 DEF Subject, Calls, Call
      <3>3. apps' = [apps EXCEPT ![Subject(r)] = Append(@, "PENDING")]
        BY <2>4 DEF ApplyInsert
      <3>4. apps[Subject(r)] \in Seq(AppStatus)
        BY <3>2 DEF IntakeTypeOK
      <3>5. Append(apps[Subject(r)], "PENDING") # <<>>
        BY <3>4, AppendProperties DEF AppStatus
      <3>6. job'[r].call = job[r].call
        BY <1>0, <2>4 DEF ApplyInsert, MoveTo, JobState
      <3>7. apps'[job'[r].call.subject] # <<>>
        BY <3>2, <3>3, <3>5, <3>6 DEF Subject, IntakeTypeOK
      <3>8. Happened(job[r].call)'
        BY <3>1, <3>6, <3>7 DEF Happened
      <3> QED
        BY <1>4, <2>4, <3>8 DEF ApplyInsert
    <2>5. CASE SubmitInsert(r)
      <3>1. job[r].call.kind = "submit" /\ job[r].call \in Calls
        BY <2>0, <2>5 DEF SubmitInsert, At, JobState
      <3>2. Subject(r) \in Types
        BY <3>1 DEF Subject, Calls, Call
      <3>3. submitted'[Subject(r)] > 0
        BY <2>5, <3>2 DEF SubmitInsert, IntakeTypeOK
      <3>4. job'[r].call = job[r].call
        BY <1>0, <2>5 DEF SubmitInsert, MoveTo, JobState
      <3>5. Happened(job[r].call)'
        BY <3>1, <3>3, <3>4 DEF Happened, OnRecord, Subject
      <3> QED
        BY <1>4, <2>5, <3>5 DEF SubmitInsert
    <2>6. CASE CreateEvent(r)
      <3>1. job[r].call.kind = "event"
        BY <2>6 DEF CreateEvent, At
      <3>2. job'[r].call = job[r].call
        BY <1>0, <2>6 DEF CreateEvent, MoveTo, JobState
      <3>3. created'
        BY <2>6 DEF CreateEvent
      <3>4. Happened(job[r].call)'
        BY <3>1, <3>2, <3>3 DEF Happened
      <3> QED
        BY <1>4, <2>6, <3>4 DEF CreateEvent
    <2>7. CASE Browse(r)
      <3>1. job[r].call.kind = "browse"
        BY <2>7 DEF Browse, At
      <3>2. job'[r].call = job[r].call
        BY <1>0, <2>7 DEF Browse, MoveTo, JobState
      <3>3. Happened(job[r].call)'
        BY <3>1, <3>2 DEF Happened
      <3> QED
        BY <1>4, <2>7, <3>3 DEF Browse
    <2>8. CASE ListCredentials(r)
      <3>1. job' = [job EXCEPT ![r] = [job[r] EXCEPT !.at = "done", !.rows = Recorded]]
        BY <1>0, <2>8 DEF ListCredentials
      <3>2. CASE q = r
        <4>1. job'[q].call.kind = "list" /\ job'[q].rows = Recorded
          BY <1>0, <2>0, <2>8, <3>1, <3>2 DEF ListCredentials, At, JobState
        <4>2. Happened(job[q].call)'
          BY <4>1 DEF Happened
        <4>3. ASSUME NEW row \in Recorded PROVE OnRecord(row[1])'
          BY <2>8, <4>3 DEF Recorded, OnRecord, ListCredentials, credentials
        <4> QED
          BY <4>1, <4>2, <4>3
      <3>3. CASE q # r
        BY <1>0, <1>1, <3>1, <3>3
      <3> QED
        BY <3>2, <3>3
    <2> QED
      BY <1>8, <2>1, <2>2, <2>3, <2>4, <2>5, <2>6, <2>7, <2>8 DEF Serve
  <1>9. CASE IntakeNext
    BY <1>1, <1>6, <1>7, <1>8, <1>9
       DEF IntakeNext, Staff, ReviewApplication, ReviewSubmitted, ReviewAgain
  <1>10. CASE UNCHANGED intakeVars
    BY <1>1, <1>10 DEF intakeVars
  <1> QED
    BY <1>9, <1>10

LEMMA AnswersInit == IntakeInit => AnswersTrue
  BY DEF IntakeInit, AnswersTrue, Idle

-----------------------------------------------------------------------------
\* The part of TypeOK that is the tab's.
TabTypeOK ==
    /\ view \in View
    /\ toast \in Calls \cup {NoToast}
    /\ from \in [Requests -> {"page", "gone", "nobody"}]
    /\ posts \in Nat

LEMMA TypeParts == TypeOK <=> IntakeTypeOK /\ Place /\ TabTypeOK
  BY DEF TypeOK, Place, TabTypeOK

LEMMA HandledIsView ==
    ASSUME NEW r \in Requests, NEW ok \in BOOLEAN, NEW rows \in SUBSET Items, view \in View
    PROVE  Handled(r, ok, rows) \in View
  <1>1. DEMO_DATA \in SUBSET Items /\ Uploaded(view.items) \in SUBSET Items
    BY ClientTypes DEF Items, Uploaded, View, Rows
  <1>2. Listed(ok, rows) \in View
    BY <1>1 DEF Listed, View
  <1>3. Settled(ok, Uploaded(view.items)) \in View /\ Settled(ok, view.items) \in View
    BY <1>1 DEF Settled, View
  <1>4. [view EXCEPT !.loading = FALSE] \in View
    BY DEF View
  <1> QED
    BY <1>2, <1>3, <1>4 DEF Handled

LEMMA FreshIsView == ASSUME NEW p, NEW u PROVE Fresh(p, u) \in View /\ Fresh(p, u).items = {}
  <1>1. Queries(p, u) \in BOOLEAN
    BY DEF Queries
  <1> QED
    BY <1>1 DEF Fresh, View

LEMMA ReceivedType ==
    ASSUME IntakeTypeOK, TabTypeOK, NEW r \in Requests, NEW ok \in BOOLEAN,
           NEW rows \in SUBSET Items, Received(r, ok, rows)
    PROVE  TabTypeOK'
  <1>1. job[r].call \in Calls
    BY DEF IntakeTypeOK, JobState
  <1>2. view' \in View
    BY HandledIsView DEF Received, TabTypeOK
  <1>3. toast' \in Calls \cup {NoToast}
    BY <1>1 DEF Received, TabTypeOK
  <1> QED
    BY <1>2, <1>3 DEF Received, TabTypeOK

LEMMA OpenType ==
    ASSUME TabTypeOK, NEW p, NEW u
    PROVE  /\ Show(p, u) => view' \in View /\ posts' \in Nat
           /\ Waiting(p, u) \in [Requests -> {"page", "gone", "nobody"}]
  BY FreshIsView DEF Show, TabTypeOK, Waiting

LEMMA TabTypeStep ==
    ASSUME TypeOK, [Next]_vars
    PROVE  TabTypeOK'
  <1>0. IntakeTypeOK /\ Place /\ TabTypeOK
    BY TypeParts
  <1>1. ASSUME NEW r \in Requests, NEW p, NEW u, Open(p, u, r), UNCHANGED toast PROVE TabTypeOK'
    <2>1. view' \in View /\ posts' \in Nat
      BY <1>0, <1>1, OpenType DEF Open
    <2>2. from' \in [Requests -> {"page", "gone", "nobody"}]
      BY <1>0, <1>1, OpenType DEF Open
    <2> QED
      BY <1>0, <1>1, <2>1, <2>2 DEF TabTypeOK
  <1>2. ASSUME NEW r \in Requests, NEW p, Reload(p, r) PROVE TabTypeOK'
    BY <1>0, <1>2, FreshIsView DEF Reload, TabTypeOK
  <1>3. ASSUME NEW r \in Requests, NEW call, Post(r, call) PROVE TabTypeOK'
    <2>1. view' \in View
      BY <1>0, <1>3 DEF Post, TabTypeOK, View
    <2> QED
      BY <1>0, <1>3, <2>1 DEF Post, TabTypeOK
  <1>4. ASSUME NEW r \in Requests, NetFail(r) PROVE TabTypeOK'
    <2>1. {} \in SUBSET Items
      OBVIOUS
    <2> QED
      BY <1>0, <1>4, <2>1, ReceivedType DEF NetFail
  <1>5. ASSUME NEW r \in Requests, Deliver(r) PROVE TabTypeOK'
    <2>1. job[r].rows \in SUBSET Items /\ (job[r].at = "done") \in BOOLEAN
      BY <1>0 DEF IntakeTypeOK, JobState, Items
    <2> QED
      BY <1>0, <1>5, <2>1, ReceivedType DEF Deliver
  <1>6. ASSUME NEW r \in Requests, DeliverApplied(r) PROVE TabTypeOK'
    <2>1. job[r].call \in Calls
      BY <1>0 DEF IntakeTypeOK, JobState
    <2>2. view' \in View /\ posts' \in Nat
      BY <1>0, <1>6, OpenType DEF DeliverApplied
    <2>3. from' \in [Requests -> {"page", "gone", "nobody"}]
      BY <1>0, <1>6, OpenType DEF DeliverApplied
    <2> QED
      BY <1>6, <2>1, <2>2, <2>3 DEF DeliverApplied, TabTypeOK
  <1>7. ASSUME UNCHANGED portalVars \/ Dismiss PROVE TabTypeOK'
    BY <1>0, <1>7 DEF portalVars, Dismiss, TabTypeOK
  <1>8. ASSUME NEW r \in Requests, Tab(r) PROVE TabTypeOK'
    BY <1>1, <1>2, <1>3, <1>4, <1>8
       DEF Tab, Navigate, SwitchRole, Logout, Apply, Upload, Save
  <1>9. CASE Next
    BY <1>5, <1>6, <1>7, <1>8, <1>9 DEF Next, Answered, Forget, Work
  <1>10. CASE UNCHANGED vars
    BY <1>7, <1>10 DEF vars
  <1> QED
    BY <1>9, <1>10

\* Every variable of server and tab keeps to its type.
THEOREM PortalTypeCorrect == Spec => []TypeOK
  <1>1. Init => TypeOK
    <2>1. Init => TabTypeOK
      BY FreshIsView DEF Init, TabTypeOK
    <2> QED
      BY <2>1, PlaceInit, IntakeTypeInit, TypeParts
  <1>2. TypeOK /\ [Next]_vars => TypeOK'
    <2> SUFFICES ASSUME TypeOK, [Next]_vars PROVE TypeOK'
      OBVIOUS
    <2>1. Place' /\ [IntakeNext]_intakeVars
      BY TypeParts, PortalStep
    <2>2. IntakeTypeOK'
      BY <2>1, TypeParts, IntakeTypeStep
    <2> QED
      BY <2>1, <2>2, TabTypeStep, TypeParts DEF TypeOK, Place, TabTypeOK
  <1> QED
    BY <1>1, <1>2, PTL DEF Spec

-----------------------------------------------------------------------------
LEMMA AnswersAreTrue == Spec => []AnswersTrue
  <1>1. IntakeSpec => []AnswersTrue
    BY AnswersInit, AnswersStep, IntakeTypeCorrect, PTL DEF IntakeSpec
  <1> QED
    BY <1>1, PortalImplementsIntake, PTL

\* The only new successes on screen are those of answers.
LEMMA ToastStep ==
    ASSUME [Next]_vars
    PROVE  \/ toast' \in {toast, NoToast}
           \/ \E r \in Requests : job[r].at = "done" /\ toast' = job[r].call
  <1>1. ASSUME NEW r \in Requests, Tab(r) PROVE toast' \in {toast, NoToast}
    BY <1>1 DEF Tab, Navigate, Reload, SwitchRole, Logout, Apply, Upload, Save, Post,
                NetFail, Received
  <1>2. ASSUME NEW r \in Requests, Answered(r)
        PROVE  toast' = toast \/ (job[r].at = "done" /\ toast' = job[r].call)
    BY <1>2 DEF Answered, Deliver, DeliverApplied, Forget, Received, portalVars, At
  <1> QED
    BY <1>1, <1>2 DEF Next, Work, Dismiss, vars, portalVars

LEMMA NoFalseSuccessStep ==
    ASSUME TypeOK, AnswersTrue, NoFalseSuccess, [Next]_vars
    PROVE  NoFalseSuccess'
  <1>1. IntakeTypeOK /\ [IntakeNext]_intakeVars
    BY TypeParts, PortalStep
  <1> SUFFICES ASSUME toast' # NoToast PROVE Happened(toast)'
    BY DEF NoFalseSuccess, NoToast
  <1>2. PICK call \in Calls : call = toast' /\ Happened(call)
    <2>1. CASE toast' = toast
      BY <2>1 DEF TypeOK, NoFalseSuccess
    <2>2. ASSUME NEW r \in Requests, job[r].at = "done", toast' = job[r].call
          PROVE  toast' \in Calls /\ Happened(job[r].call)
      BY <1>1, <2>2 DEF AnswersTrue, IntakeTypeOK, JobState
    <2> QED
      BY <2>1, <2>2, ToastStep
  <1>3. Happened(call)'
    BY <1>1, <1>2, HappenedStays
  <1> QED
    BY <1>2, <1>3 DEF Happened, OnRecord

\* A success on screen is a row in the database, in every order of answers,
\* lost connections, clicks and navigation.
THEOREM SuccessIsTrue == Spec => []NoFalseSuccess
  <1>1. Init => NoFalseSuccess
    BY DEF Init, NoFalseSuccess
  <1>2. TypeOK /\ AnswersTrue /\ NoFalseSuccess /\ [Next]_vars => NoFalseSuccess'
    BY NoFalseSuccessStep
  <1> QED
    BY <1>1, <1>2, PortalTypeCorrect, AnswersAreTrue, PTL DEF Spec

-----------------------------------------------------------------------------
\* What a view may show.
Honest(v) == \A item \in v.items : v.demo \/ (item[1] \in Types /\ OnRecord(item[1]))

LEMMA HandledHonest ==
    ASSUME TypeOK, AnswersTrue, Honest(view), NEW r \in Requests, NEW ok \in BOOLEAN,
           NEW rows, rows \in {{}, job[r].rows}
    PROVE  Honest(Handled(r, ok, rows))
  <1>1. \A row \in rows : row[1] \in Types /\ OnRecord(row[1])
    BY DEF AnswersTrue, TypeOK, IntakeTypeOK, JobState, Rows
  <1>2. view \in View
    BY DEF TypeOK
  <1>3. Honest(Listed(ok, rows))
    BY <1>1, <1>2 DEF Listed, Honest, View
  <1>4. Honest(Settled(ok, Uploaded(view.items))) /\ Honest(Settled(ok, view.items))
    <2>1. ASSUME NEW item \in Uploaded(view.items)
          PROVE  view.demo \/ (item[1] \in Types /\ OnRecord(item[1]))
      <3>1. CASE item \in view.items
        BY <3>1 DEF Honest
      <3>2. CASE item \notin view.items
        <4>1. <<"TRAINING", "NOT_STARTED">> \in view.items /\ item = <<"TRAINING", "SUBMITTED">>
          BY <2>1, <3>2 DEF Uploaded
        <4>2. item[1] = "TRAINING" /\ <<"TRAINING", "NOT_STARTED">>[1] = "TRAINING"
          BY <4>1
        <4>3. view.demo \/ OnRecord("TRAINING")
          BY <4>1, <4>2 DEF Honest
        <4> QED
          BY <4>2, <4>3, ClientTypes
      <3> QED
        BY <3>1, <3>2
    <2>2. \A items : /\ Settled(ok, items).demo = view.demo
                     /\ Settled(ok, items).items = IF ok THEN items ELSE view.items
      BY <1>2 DEF Settled, View
    <2> QED
      BY <2>1, <2>2 DEF Honest
  <1>5. Honest([view EXCEPT !.loading = FALSE])
    BY <1>2 DEF Honest, View
  <1>6. Handled(r, ok, rows) \in {[view EXCEPT !.loading = FALSE], Listed(ok, rows),
                                  Settled(ok, Uploaded(view.items)), Settled(ok, view.items)}
    BY DEF Handled
  <1> QED
    BY <1>3, <1>4, <1>5, <1>6

\* The view after a step: one that is honest by what is on record before it.
LEMMA ViewStep ==
    ASSUME TypeOK, AnswersTrue, Honest(view), [Next]_vars
    PROVE  Honest(view')
  <1>1. view \in View
    BY DEF TypeOK
  <1>2. \A p, u : Honest(Fresh(p, u))
    BY FreshIsView DEF Honest
  <1>3. ASSUME NEW p, NEW u, Show(p, u) PROVE Honest(view')
    BY <1>2, <1>3 DEF Show
  <1>4. ASSUME NEW r \in Requests, NEW call, Post(r, call) PROVE Honest(view')
    BY <1>1, <1>4 DEF Post, Honest, View
  <1>5. ASSUME NEW r \in Requests, NEW ok \in BOOLEAN, NEW rows, rows \in {{}, job[r].rows},
               Received(r, ok, rows)
        PROVE  Honest(view')
    BY <1>5, HandledHonest DEF Received
  <1>6. ASSUME NEW r \in Requests, Tab(r) PROVE Honest(view')
    <2>1. ASSUME NEW p, NEW u, Open(p, u, r) PROVE Honest(view')
      BY <1>3, <2>1 DEF Open
    <2>2. ASSUME NEW p, Reload(p, r) PROVE Honest(view')
      BY <1>2, <2>2 DEF Reload
    <2>3. CASE NetFail(r)
      BY <1>5, <2>3 DEF NetFail
    <2>4. CASE Apply(r) \/ Upload(r) \/ Save(r)
      BY <1>4, <2>4 DEF Apply, Upload, Save
    <2> QED
      BY <1>6, <2>1, <2>2, <2>3, <2>4 DEF Tab, Navigate, SwitchRole, Logout
  <1>7. ASSUME NEW r \in Requests, Answered(r) PROVE Honest(view')
    BY <1>3, <1>5, <1>7 DEF Answered, Deliver, DeliverApplied, Forget, portalVars
  <1> QED
    BY <1>6, <1>7 DEF Next, Work, Dismiss, vars, portalVars

LEMMA ChecklistStep ==
    ASSUME TypeOK, AnswersTrue, ChecklistHonest, [Next]_vars
    PROVE  ChecklistHonest'
  <1>1. IntakeTypeOK /\ [IntakeNext]_intakeVars
    BY TypeParts, PortalStep
  <1>2. Honest(view')
    BY ViewStep DEF ChecklistHonest, Honest
  <1>3. \A t \in Types : OnRecord(t) => OnRecord(t)'
    BY <1>1, OnRecordStays
  <1> SUFFICES ASSUME NEW item \in view'.items, ~view'.demo
               PROVE  item[1] \in Types /\ OnRecord(item[1])'
    BY DEF ChecklistHonest
  <1>4. item[1] \in Types /\ OnRecord(item[1])
    BY <1>2 DEF Honest
  <1> QED
    BY <1>3, <1>4

\* The checklist never passes demo data for the volunteer's own.
THEOREM ChecklistIsHonest == Spec => []ChecklistHonest
  <1>1. Init => ChecklistHonest
    BY FreshIsView DEF Init, ChecklistHonest
  <1>2. TypeOK /\ AnswersTrue /\ ChecklistHonest /\ [Next]_vars => ChecklistHonest'
    BY ChecklistStep
  <1> QED
    BY <1>1, <1>2, PortalTypeCorrect, AnswersAreTrue, PTL DEF Spec
-----------------------------------------------------------------------------
\* Strengthening of SpinnersAwaitAnswers: who is waited for is at work or has
\* answered, and the form of an application is left with its page.
AwaitInv ==
    /\ SpinnersAwaitAnswers
    /\ \A r \in Requests : from[r] # "nobody" => job[r].at # "idle"
    /\ \A r \in Requests : r \in Pending({"apply"}) => page.at = "apply"

\* Nothing of what the page waits for changes.
LEMMA NothingAwaited ==
    ASSUME AwaitInv, UNCHANGED <<page, view, from>>,
           \A q \in Requests : from[q] # "nobody" =>
              job'[q].call = job[q].call /\ (job'[q].at = "idle" => job[q].at = "idle")
    PROVE  AwaitInv'
  <1>1. \A kinds : Pending(kinds)' = Pending(kinds)
    BY DEF Pending
  <1> QED
    BY <1>1 DEF AwaitInv, SpinnersAwaitAnswers

LEMMA RequestSent ==
    ASSUME IntakeTypeOK, NEW r \in Requests, NEW call, NEW role, Request(r, call, role)
    PROVE  /\ job'[r].call = call /\ job'[r].at # "idle"
           /\ \A q \in Requests : q # r => job'[q] = job[q]
  <1>1. Sent(call, role).call = call /\ Sent(call, role).at \in {"sent", "failed"}
    BY DEF Sent, Idle
  <1> QED
    BY <1>1 DEF Request, IntakeTypeOK

LEMMA CloseOne ==
    ASSUME IntakeTypeOK, NEW r \in Requests, Close(r)
    PROVE  \A q \in Requests : q # r => job'[q] = job[q]
  BY DEF Close, IntakeTypeOK

\* A component that has just been mounted waits for its query alone.
LEMMA FreshAwaits ==
    ASSUME NEW r \in Requests, NEW p, NEW u, view' = Fresh(p, u),
           \A q \in Requests : from'[q] = "page" => q = r /\ Queries(p, u),
           Queries(p, u) => from'[r] = "page" /\ job'[r].call = Query(p)
    PROVE  SpinnersAwaitAnswers' /\ Pending({"apply"})' = {}
  <1>1. Query(p).kind \in {"browse", "list"}
    BY DEF Query, Call
  <1>2. view'.loading = Queries(p, u) /\ view'.sending = FALSE
    BY DEF Fresh
  <1>3. Pending({"apply", "submit", "event"})' = {} /\ Pending({"apply"})' = {}
    BY <1>1 DEF Pending
  <1>4. Queries(p, u) => r \in Pending({"browse", "list"})'
    BY <1>1 DEF Pending
  <1> QED
    BY <1>2, <1>3, <1>4 DEF SpinnersAwaitAnswers

LEMMA OpenAwaits ==
    ASSUME TypeOK, AwaitInv, NEW r \in Requests, NEW p, NEW u, Open(p, u, r)
    PROVE  AwaitInv'
  <1>0. IntakeTypeOK /\ from \in [Requests -> {"page", "gone", "nobody"}] /\ page' = p
    BY DEF TypeOK, Open, Show
  <1>1. /\ Fetches(p, u) =>
              /\ job[r].at = "idle" /\ from[r] = "nobody"
              /\ job'[r].call = Query(p) /\ job'[r].at # "idle" /\ from'[r] = "page"
              /\ \A q \in Requests :
                    q # r => job'[q] = job[q] /\ from'[q] = Waiting(p, u)[q]
        /\ ~Fetches(p, u) => job' = job /\ from' = Waiting(p, u)
    BY <1>0, RequestSent DEF Open, AwaitInv, Waiting, intakeVars
  <1>2. Waiting(p, u) = [q \in Requests |-> IF from[q] = "page" /\ ~Kept(p, u)
                                            THEN "gone" ELSE from[q]]
    BY DEF Waiting
  <1>3. \A q \in Requests : from'[q] # "nobody" => job'[q].at # "idle"
    BY <1>1, <1>2 DEF AwaitInv
  <1>4. CASE ~Kept(p, u)
    <2>1. view' = Fresh(p, u) /\ (Fetches(p, u) <=> Queries(p, u))
      BY <1>4 DEF Open, Show, Fetches
    <2>2. \A q \in Requests : from'[q] = "page" => q = r /\ Queries(p, u)
      BY <1>1, <1>2, <1>4, <2>1
    <2>3. SpinnersAwaitAnswers' /\ Pending({"apply"})' = {}
      BY <1>1, <2>1, <2>2, FreshAwaits
    <2> QED
      BY <1>3, <2>3 DEF AwaitInv
  <1>5. CASE Kept(p, u)
    <2>1. view' = view /\ page'.at = page.at
      BY <1>0, <1>5 DEF Open, Show, Kept
    <2>2. Query(p).kind \in {"browse", "list"}
      BY DEF Query, Call
    <2>3. /\ Pending({"apply", "submit", "event"})' = Pending({"apply", "submit", "event"})
          /\ Pending({"apply"})' = Pending({"apply"})
          /\ Pending({"browse", "list"}) \subseteq Pending({"browse", "list"})'
      BY <1>0, <1>1, <1>2, <1>5, <2>2 DEF Pending
    <2> QED
      BY <1>3, <2>1, <2>3 DEF AwaitInv, SpinnersAwaitAnswers
  <1> QED
    BY <1>4, <1>5

LEMMA ReloadAwaits ==
    ASSUME TypeOK, AwaitInv, NEW r \in Requests, NEW p, Reload(p, r)
    PROVE  AwaitInv'
  <1>1. /\ Queries(p, user) => /\ job'[r].call = Query(p) /\ job'[r].at # "idle"
                               /\ from'[r] = "page"
        /\ \A q \in Requests : q # r \/ ~Queries(p, user) => from'[q] = "nobody"
    BY RequestSent DEF Reload, TypeOK
  <1>2. view' = Fresh(p, user)
    BY DEF Reload
  <1>3. SpinnersAwaitAnswers' /\ Pending({"apply"})' = {}
    BY <1>1, <1>2, FreshAwaits
  <1> QED
    BY <1>1, <1>3 DEF AwaitInv

LEMMA PostAwaits ==
    ASSUME TypeOK, AwaitInv, NEW r \in Requests, NEW call, Post(r, call),
           call.kind \in {"apply", "submit", "event"}, call.kind = "apply" => page.at = "apply"
    PROVE  AwaitInv'
  <1>1. /\ from[r] = "nobody" /\ from' = [from EXCEPT ![r] = "page"] /\ page' = page
        /\ ~view.sending /\ view'.sending = TRUE /\ view'.loading = view.loading
    BY DEF Post, AwaitInv, TypeOK, View
  <1>2. /\ job'[r].call = call /\ job'[r].at # "idle"
        /\ \A q \in Requests : q # r => job'[q] = job[q]
    BY RequestSent DEF Post, TypeOK
  <1>3. from'[r] = "page" /\ \A q \in Requests : q # r => from'[q] = from[q]
    BY <1>1 DEF TypeOK
  <1>4. /\ Pending({"apply", "submit", "event"}) = {}
        /\ Pending({"apply", "submit", "event"})' = {r}
    BY <1>1, <1>2, <1>3 DEF Pending, AwaitInv, SpinnersAwaitAnswers
  <1>5. /\ Pending({"browse", "list"}) \subseteq Pending({"browse", "list"})'
        /\ Pending({"apply"})' \subseteq Pending({"apply"}) \cup {r}
        /\ r \in Pending({"apply"})' => page.at = "apply"
    BY <1>1, <1>2, <1>3 DEF Pending
  <1>6. \A q \in Requests : from'[q] # "nobody" => job'[q].at # "idle"
    BY <1>2, <1>3 DEF AwaitInv
  <1> QED
    BY <1>1, <1>4, <1>5, <1>6 DEF AwaitInv, SpinnersAwaitAnswers

\* An answer stops the spinner of its own kind; one for a page that has gone
\* stops none.
LEMMA ReceivedAwaits ==
    ASSUME TypeOK, AwaitInv, NEW r \in Requests, NEW ok, NEW rows, Received(r, ok, rows),
           \A q \in Requests : q # r => job'[q] = job[q]
    PROVE  AwaitInv'
  <1>1. from'[r] = "nobody" /\ page' = page /\ \A q \in Requests : q # r => from'[q] = from[q]
    BY DEF Received, TypeOK
  <1>2. \A kinds : Pending(kinds)' = Pending(kinds) \ {r}
    BY <1>1 DEF Pending
  <1>3. \A q \in Requests : from'[q] # "nobody" => job'[q].at # "idle"
    BY <1>1 DEF AwaitInv
  <1>4. CASE from[r] # "page"
    <2>1. view' = view
      BY <1>4 DEF Received
    <2>2. \A kinds : r \notin Pending(kinds)
      BY <1>4 DEF Pending
    <2> QED
      BY <1>1, <1>2, <1>3, <2>1, <2>2 DEF AwaitInv, SpinnersAwaitAnswers
  <1>5. CASE from[r] = "page"
    <2>1. view' = Handled(r, ok, rows) /\ view \in View
      BY <1>5 DEF Received, TypeOK
    <2>2. job[r].call.kind \in {"browse", "list", "apply", "submit", "event"}
      BY DEF TypeOK, IntakeTypeOK, JobState, Calls, Call
    <2>3. CASE job[r].call.kind \in {"browse", "list"}
      <3>1. view'.loading = FALSE /\ view'.sending = view.sending
        BY <2>1, <2>3 DEF Handled, Listed, View
      <3>2. r \notin Pending({"apply", "submit", "event"})
        BY <2>3 DEF Pending
      <3> QED
        BY <1>1, <1>2, <1>3, <3>1, <3>2 DEF AwaitInv, SpinnersAwaitAnswers
    <2>4. CASE job[r].call.kind \in {"apply", "submit", "event"}
      <3>1. view'.sending = FALSE /\ view'.loading = view.loading
        BY <2>1, <2>4 DEF Handled, Settled, View
      <3>2. r \in Pending({"apply", "submit", "event"}) /\ r \notin Pending({"browse", "list"})
        BY <1>5, <2>4 DEF Pending
      <3>3. Pending({"apply", "submit", "event"})' = {}
        BY <1>2, <3>2 DEF AwaitInv, SpinnersAwaitAnswers
      <3> QED
        BY <1>1, <1>2, <1>3, <3>1, <3>2, <3>3 DEF AwaitInv, SpinnersAwaitAnswers
    <2> QED
      BY <2>2, <2>3, <2>4
  <1> QED
    BY <1>4, <1>5

LEMMA DeliverAppliedAwaits ==
    ASSUME TypeOK, AwaitInv, NEW r \in Requests, DeliverApplied(r)
    PROVE  AwaitInv'
  <1>0. /\ IntakeTypeOK /\ from \in [Requests -> {"page", "gone", "nobody"}]
        /\ from[r] # "nobody" /\ job[r].call.kind = "apply" /\ page' = Onboarding
        /\ Onboarding.at = "onboarding"
    BY DEF TypeOK, DeliverApplied, At, Show, Onboarding
  <1>1. /\ \A q \in Requests : q # r => job'[q] = job[q]
        /\ Fetches(Onboarding, user) =>
              job'[r].call = Query(Onboarding) /\ job'[r].at # "idle"
    BY <1>0, RequestSent, CloseOne DEF DeliverApplied
  <1>2. /\ from'[r] = IF Fetches(Onboarding, user) THEN "page" ELSE "nobody"
        /\ \A q \in Requests :
              q # r => from'[q] = IF from[q] = "page" /\ ~Kept(Onboarding, user)
                                  THEN "gone" ELSE from[q]
    BY <1>0 DEF DeliverApplied, Waiting
  <1>3. \A q \in Requests : from'[q] # "nobody" => job'[q].at # "idle"
    BY <1>1, <1>2 DEF AwaitInv
  <1>4. CASE ~Kept(Onboarding, user)
    <2>1. /\ view' = Fresh(Onboarding, user)
          /\ Fetches(Onboarding, user) <=> Queries(Onboarding, user)
      BY <1>4 DEF DeliverApplied, Show, Fetches
    <2>2. \A q \in Requests : from'[q] = "page" => q = r /\ Queries(Onboarding, user)
      BY <1>2, <1>4, <2>1
    <2>3. SpinnersAwaitAnswers' /\ Pending({"apply"})' = {}
      BY <1>1, <1>2, <2>1, <2>2, FreshAwaits
    <2> QED
      BY <1>3, <2>3 DEF AwaitInv
  \* The form was sent by a page that has gone: the checklist is on screen.
  <1>5. CASE Kept(Onboarding, user)
    <2>1. view' = view /\ page.at = "onboarding" /\ ~Fetches(Onboarding, user)
      BY <1>0, <1>5 DEF DeliverApplied, Show, Fetches, Kept
    <2>2. from[r] # "page" /\ from'[r] = "nobody"
      BY <1>0, <1>2, <2>1 DEF AwaitInv, Pending
    <2>3. \A kinds : Pending(kinds)' = Pending(kinds)
      BY <1>1, <1>2, <1>5, <2>2 DEF Pending
    <2> QED
      BY <1>0, <1>3, <2>1, <2>3 DEF AwaitInv, SpinnersAwaitAnswers
  <1> QED
    BY <1>4, <1>5

\* The server changes no call, and gives up no handler by itself.
LEMMA ServedCalls ==
    ASSUME IntakeTypeOK, (\E r \in Requests : Serve(r)) \/ Staff, NEW q \in Requests
    PROVE  job'[q].call = job[q].call /\ (job'[q].at = "idle" => job[q].at = "idle")
  <1> USE DEF IntakeTypeOK, JobState
  <1>1. ASSUME NEW r \in Requests, NEW stage \in Stages \ {"idle"}, MoveTo(r, stage)
        PROVE  job'[q].call = job[q].call /\ (job'[q].at = "idle" => job[q].at = "idle")
    BY <1>1 DEF MoveTo
  <1>2. CASE \E r \in Requests : Serve(r)
    <2>1. PICK r \in Requests : Serve(r)
      BY <1>2
    <2>2. CASE ListCredentials(r)
      BY <2>2 DEF ListCredentials
    <2>3. CASE Refuse(r) \/ ApplyCheck(r) \/ ApplyInsert(r) \/ SubmitCheck(r)
               \/ SubmitInsert(r) \/ CreateEvent(r) \/ Browse(r)
      <3>1. \E stage \in Stages \ {"idle"} : MoveTo(r, stage)
        BY <2>3 DEF Refuse, ApplyCheck, ApplyInsert, SubmitCheck, SubmitInsert,
                    CreateEvent, Browse, Stages
      <3> QED
        BY <1>1, <3>1
    <2> QED
      BY <2>1, <2>2, <2>3 DEF Serve
  <1>3. CASE Staff
    BY <1>3 DEF Staff, ReviewApplication, ReviewSubmitted, ReviewAgain
  <1> QED
    BY <1>2, <1>3

LEMMA AwaitStep ==
    ASSUME TypeOK, AwaitInv, [Next]_vars
    PROVE  AwaitInv'
  <1>0. IntakeTypeOK
    BY DEF TypeOK
  <1>1. ASSUME NEW r \in Requests, Tab(r) PROVE AwaitInv'
    <2>1. CASE Apply(r) \/ Upload(r) \/ Save(r)
      <3>1. PICK call : /\ Post(r, call) /\ call.kind \in {"apply", "submit", "event"}
                        /\ call.kind = "apply" => page.at = "apply"
        BY <2>1 DEF Apply, Upload, Save, Call
      <3> QED
        BY <3>1, PostAwaits
    <2>2. CASE NetFail(r)
      <3>1. Received(r, FALSE, {}) /\ \A q \in Requests : q # r => job'[q] = job[q]
        BY <2>2 DEF NetFail, intakeVars
      <3> QED
        BY <3>1, ReceivedAwaits
    <2> QED
      BY <1>1, <2>1, <2>2, OpenAwaits, ReloadAwaits
         DEF Tab, Navigate, SwitchRole, Logout
  <1>2. ASSUME NEW r \in Requests, Answered(r) PROVE AwaitInv'
    <2>1. CASE Deliver(r)
      BY <1>0, <2>1, CloseOne, ReceivedAwaits DEF Deliver
    <2>2. CASE Forget(r)
      BY <1>0, <2>2, CloseOne, NothingAwaited DEF Forget, portalVars
    <2> QED
      BY <1>2, <2>1, <2>2, DeliverAppliedAwaits DEF Answered
  <1>3. CASE (\E r \in Requests : Work(r)) \/ (Staff /\ UNCHANGED portalVars)
    <2>1. ((\E r \in Requests : Serve(r)) \/ Staff) /\ UNCHANGED <<page, view, from>>
      BY <1>3 DEF Work, portalVars
    <2>2. \A q \in Requests :
            job'[q].call = job[q].call /\ (job'[q].at = "idle" => job[q].at = "idle")
      BY <1>0, <2>1, ServedCalls
    <2> QED
      BY <2>1, <2>2, NothingAwaited
  <1>4. CASE Dismiss \/ UNCHANGED vars
    BY <1>4, NothingAwaited DEF Dismiss, vars, intakeVars, portalVars
  <1> QED
    BY <1>1, <1>2, <1>3, <1>4 DEF Next

\* No spinner turns without a request that will stop it, and no page sends a
\* second form before the first is answered, with any number of requests under
\* way and in every order of clicks, answers and lost connections.
THEOREM SpinnersHaveRequests == Spec => []SpinnersAwaitAnswers
  <1>1. Init => AwaitInv
    <2> SUFFICES ASSUME Init PROVE AwaitInv
      OBVIOUS
    <2>1. \A kinds : Pending(kinds) = {}
      BY DEF Init, Pending
    <2>2. view.loading = FALSE /\ view.sending = FALSE
      BY DEF Init, Fresh, Queries
    <2> QED
      BY <2>1, <2>2 DEF Init, AwaitInv, SpinnersAwaitAnswers
  <1>2. AwaitInv => SpinnersAwaitAnswers
    BY DEF AwaitInv
  <1> QED
    BY <1>1, <1>2, AwaitStep, PortalTypeCorrect, PTL DEF Spec
=============================================================================
