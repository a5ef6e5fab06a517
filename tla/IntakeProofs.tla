---------------------------- MODULE IntakeProofs ----------------------------
(***************************************************************************)
(* Theorems about Intake, for any number of handlers, opportunities and    *)
(* credential types.                                                       *)
(***************************************************************************)
EXTENDS Intake, FiniteSetTheorems, SequenceTheorems, TLAPS

\* Counting handlers.
LEMMA HandlerCount ==
    ASSUME NEW S \in SUBSET Requests
    PROVE  /\ Cardinality(S) \in Nat /\ Cardinality(Requests) \in Nat
           /\ Cardinality(S) <= Cardinality(Requests)
           /\ \A T \in SUBSET S : Cardinality(T) \in Nat /\ Cardinality(T) <= Cardinality(S)
           /\ \A r \in S : Cardinality(S \ {r}) = Cardinality(S) - 1
  <1>1. IsFiniteSet(S) /\ Cardinality(S) <= Cardinality(Requests)
    BY FiniteHandlers, FS_Subset
  <1>2. Cardinality(S) \in Nat /\ Cardinality(Requests) \in Nat
    BY <1>1, FiniteHandlers, FS_CardinalityType
  <1>3. \A T \in SUBSET S : Cardinality(T) \in Nat /\ Cardinality(T) <= Cardinality(S)
    BY <1>1, FS_Subset, FS_CardinalityType
  <1>4. \A r \in S : Cardinality(S \ {r}) = Cardinality(S) - 1
    BY <1>1, FS_RemoveElement
  <1> QED
    BY <1>1, <1>2, <1>3, <1>4

\* A sequence of statuses in which one is replaced.
LEMMA StatusReplaced ==
    ASSUME NEW s \in Seq(AppStatus), NEW i \in 1 .. Len(s), NEW status \in AppStatus
    PROVE  [s EXCEPT ![i] = status] \in Seq(AppStatus) /\ Len([s EXCEPT ![i] = status]) = Len(s)
  BY ExceptSeq

LEMMA SentIsJob ==
    ASSUME NEW call \in Calls, NEW role
    PROVE  Sent(call, role) \in JobState /\ Sent(call, role).at \in {"sent", "failed"}
  BY DEF Sent, Idle, JobState, Stages

LEMMA IdleIsJob == Idle \in JobState
  BY DEF Idle, JobState, Stages, Calls, Call

LEMMA IntakeTypeStep == IntakeTypeOK /\ [IntakeNext]_intakeVars => IntakeTypeOK'
  <1> SUFFICES ASSUME IntakeTypeOK, [IntakeNext]_intakeVars PROVE IntakeTypeOK'
    OBVIOUS
  <1> USE DEF IntakeTypeOK
  <1>1. ASSUME NEW r \in Requests, NEW call \in Calls, NEW role, Request(r, call, role)
        PROVE  IntakeTypeOK'
    BY <1>1, SentIsJob DEF Request, credentials
  <1>2. ASSUME NEW r \in Requests, Close(r) PROVE IntakeTypeOK'
    BY <1>2, IdleIsJob DEF Close, credentials
  <1>3. ASSUME NEW r \in Requests, Serve(r) PROVE IntakeTypeOK'
    <2>1. \A stage \in Stages : MoveTo(r, stage) => job' \in [Requests -> JobState]
      BY DEF MoveTo, JobState
    <2>2. {"insert", "done", "failed"} \subseteq Stages
      BY DEF Stages
    <2>3. CASE Refuse(r)
      <3>1. job' \in [Requests -> JobState]
        BY <2>1, <2>2, <2>3 DEF Refuse
      <3> QED
        BY <2>3, <3>1 DEF Refuse, credentials
    <2>4. CASE ApplyCheck(r)
      <3>1. job' \in [Requests -> JobState]
        BY <2>1, <2>2, <2>4 DEF ApplyCheck
      <3> QED
        BY <2>4, <3>1 DEF ApplyCheck, credentials
    <2>5. CASE ApplyInsert(r)
      <3>1. job' \in [Requests -> JobState]
        BY <2>1, <2>2, <2>5 DEF ApplyInsert
      <3>2. \A s \in Seq(AppStatus) : Append(s, "PENDING") \in Seq(AppStatus)
        BY DEF AppStatus
      <3>3. apps' \in [Opps -> Seq(AppStatus)]
        BY <2>5, <3>2 DEF ApplyInsert
      <3> QED
        BY <2>5, <3>1, <3>3 DEF ApplyInsert, credentials
    <2>6. CASE SubmitCheck(r)
      <3>1. job' \in [Requests -> JobState]
        BY <2>1, <2>2, <2>6 DEF SubmitCheck
      <3> QED
        BY <2>6, <3>1 DEF SubmitCheck, credentials
    <2>7. CASE SubmitInsert(r)
      <3>1. job' \in [Requests -> JobState]
        BY <2>1, <2>2, <2>7 DEF SubmitInsert
      <3>2. submitted' \in [Types -> Nat]
        <4>1. submitted' = [submitted EXCEPT ![Subject(r)] = @ + 1]
          BY <2>7 DEF SubmitInsert
        <4>2. \A t \in Types : submitted[t] + 1 \in Nat
          OBVIOUS
        <4> QED
          BY <4>1, <4>2
      <3> QED
        BY <2>7, <3>1, <3>2 DEF SubmitInsert
    <2>8. CASE CreateEvent(r)
      <3>1. job' \in [Requests -> JobState]
        BY <2>1, <2>2, <2>8 DEF CreateEvent
      <3>2. created' \in BOOLEAN
        BY <2>8 DEF CreateEvent
      <3> QED
        BY <2>8, <3>1, <3>2 DEF CreateEvent, credentials
    <2>9. CASE Browse(r)
      BY <2>1, <2>2, <2>9 DEF Browse, credentials
    <2>10. CASE ListCredentials(r)
      <3>1. Recorded \in SUBSET Rows
        BY DEF Recorded
      <3> QED
        BY <2>10, <3>1 DEF ListCredentials, credentials, JobState, Stages
    <2> QED
      BY <1>3, <2>3, <2>4, <2>5, <2>6, <2>7, <2>8, <2>9, <2>10 DEF Serve
  <1>4. ASSUME NEW o \in Opps, NEW status \in AppVerdicts, NEW i \in 1 .. Len(apps[o]),
               ReviewApplication(o, i, status)
        PROVE  IntakeTypeOK'
    BY <1>4, StatusReplaced DEF ReviewApplication, credentials, AppStatus
  <1>5. ASSUME NEW t \in Types, NEW status \in CredVerdicts, ReviewSubmitted(t, status)
        PROVE  IntakeTypeOK'
    BY <1>5 DEF ReviewSubmitted
  <1>6. ASSUME NEW t \in Types, NEW status \in CredVerdicts, NEW old \in reviewed[t],
               ReviewAgain(t, old, status)
        PROVE  IntakeTypeOK'
    BY <1>6 DEF ReviewAgain
  <1>7. CASE UNCHANGED intakeVars
    BY <1>7 DEF intakeVars
  <1> QED
    BY <1>1, <1>2, <1>3, <1>4, <1>5, <1>6, <1>7 DEF IntakeNext, Staff

LEMMA IntakeTypeInit == IntakeInit => IntakeTypeOK
  <1>1. <<>> \in Seq(AppStatus)
    OBVIOUS
  <1>2. IntakeInit => created \in BOOLEAN
    BY DEF IntakeInit
  <1>3. IntakeInit => apps \in [Opps -> Seq(AppStatus)]
    BY <1>1 DEF IntakeInit
  <1>4. IntakeInit => submitted \in [Types -> Nat] /\ reviewed \in [Types -> SUBSET CredVerdicts]
    BY DEF IntakeInit
  <1>5. IntakeInit => job \in [Requests -> JobState]
    BY IdleIsJob DEF IntakeInit
  <1> QED
    BY <1>2, <1>3, <1>4, <1>5 DEF IntakeTypeOK

\* Every variable of the server keeps to its type.
THEOREM IntakeTypeCorrect == IntakeSpec => []IntakeTypeOK
  BY IntakeTypeInit, IntakeTypeStep, PTL DEF IntakeSpec

\* A step on a job that leaves handlers where they are with their inserts, or
\* takes one away, or adds one.
LEMMA InsertingBounds ==
    ASSUME NEW kind, NEW subject
    PROVE  /\ Cardinality(Inserting(kind, subject)) \in Nat
           /\ Cardinality(Inserting(kind, subject))' \in Nat
           /\ Cardinality(Requests) \in Nat
           /\ Cardinality(Inserting(kind, subject))' <= Cardinality(Requests)
           /\ Inserting(kind, subject)' \subseteq Inserting(kind, subject) =>
                Cardinality(Inserting(kind, subject))' <= Cardinality(Inserting(kind, subject))
           /\ \A r \in Inserting(kind, subject) :
                Inserting(kind, subject)' \subseteq Inserting(kind, subject) \ {r} =>
                    Cardinality(Inserting(kind, subject))' + 1
                        <= Cardinality(Inserting(kind, subject))
  <1> DEFINE before == Inserting(kind, subject)
             after == Inserting(kind, subject)'
  <1>1. before \in SUBSET Requests /\ after \in SUBSET Requests
    BY DEF Inserting
  <1> HIDE DEF before, after
  <1>2. /\ Cardinality(before) \in Nat /\ Cardinality(after) \in Nat
        /\ Cardinality(Requests) \in Nat /\ Cardinality(after) <= Cardinality(Requests)
        /\ after \subseteq before => Cardinality(after) <= Cardinality(before)
    BY <1>1, HandlerCount
  <1>3. ASSUME NEW r \in before, after \subseteq before \ {r}
        PROVE  Cardinality(after) + 1 <= Cardinality(before)
    <2>1. before \ {r} \in SUBSET Requests
      BY <1>1
    <2>2. Cardinality(after) <= Cardinality(before \ {r})
      BY <1>3, <2>1, HandlerCount
    <2>3. Cardinality(before \ {r}) = Cardinality(before) - 1
      BY <1>1, <1>3, HandlerCount
    <2> QED
      BY <1>2, <2>2, <2>3
  <1> QED
    BY <1>2, <1>3 DEF before, after

\* How a step of a handler on its job changes who is about to insert: it stops
\* being one, or goes where it was not.
LEMMA InsertingMoved ==
    ASSUME NEW r \in Requests, NEW kind, NEW subject, job \in [Requests -> JobState],
           NEW j, job' = [job EXCEPT ![r] = j], j.at # "insert"
    PROVE  Inserting(kind, subject)' \subseteq Inserting(kind, subject) \ {r}
  BY DEF Inserting, At, Subject

LEMMA MovedJob ==
    ASSUME NEW r \in Requests, NEW stage, job \in [Requests -> JobState], MoveTo(r, stage)
    PROVE  job' = [job EXCEPT ![r] = [job[r] EXCEPT !.at = stage]]
           /\ [job[r] EXCEPT !.at = stage].at = stage
  BY DEF MoveTo, JobState

LEMMA InsertingEnded ==
    ASSUME NEW r \in Requests, NEW kind, NEW subject, job \in [Requests -> JobState],
           MoveTo(r, "done") \/ MoveTo(r, "failed")
    PROVE  Inserting(kind, subject)' \subseteq Inserting(kind, subject) \ {r}
  <1>1. ASSUME NEW stage \in {"done", "failed"}, MoveTo(r, stage)
        PROVE  Inserting(kind, subject)' \subseteq Inserting(kind, subject) \ {r}
    <2> DEFINE j == [job[r] EXCEPT !.at = stage]
    <2>1. job' = [job EXCEPT ![r] = j] /\ j.at # "insert"
      BY <1>1, MovedJob
    <2> HIDE DEF j
    <2> QED
      BY <2>1, InsertingMoved
  <1> QED
    BY <1>1

LEMMA ApplicationsStep ==
    IntakeTypeOK /\ ApplicationsBounded /\ [IntakeNext]_intakeVars => ApplicationsBounded'
  <1> SUFFICES ASSUME IntakeTypeOK, ApplicationsBounded, [IntakeNext]_intakeVars, NEW o \in Opps
               PROVE  Len(apps'[o]) + Cardinality(Inserting("apply", o))'
                        <= Cardinality(Requests)
    BY DEF ApplicationsBounded
  <1> DEFINE In == Inserting("apply", o)
  <1>0. /\ Len(apps[o]) \in Nat /\ Cardinality(In) \in Nat /\ Cardinality(In)' \in Nat
        /\ Cardinality(Requests) \in Nat
        /\ Len(apps[o]) + Cardinality(In) <= Cardinality(Requests)
        /\ Cardinality(In)' <= Cardinality(Requests)
        /\ In' \subseteq In => Cardinality(In)' <= Cardinality(In)
        /\ job \in [Requests -> JobState]
    BY InsertingBounds DEF IntakeTypeOK, ApplicationsBounded
  \* Steps that insert nothing and bring nobody to an insert.
  <1>1. ASSUME Len(apps'[o]) = Len(apps[o]), In' \subseteq In
        PROVE  Len(apps'[o]) + Cardinality(In)' <= Cardinality(Requests)
    BY <1>0, <1>1
  <1>2. ASSUME NEW r \in Requests, MoveTo(r, "done") \/ MoveTo(r, "failed")
        PROVE  In' \subseteq In \ {r}
    BY <1>0, <1>2, InsertingEnded
  <1>3. ASSUME NEW r \in Requests, NEW call \in Calls, NEW role, Request(r, call, role)
        PROVE  In' \subseteq In /\ apps' = apps
    BY <1>0, <1>3, SentIsJob, InsertingMoved DEF Request
  <1>4. ASSUME NEW r \in Requests, Close(r) PROVE In' \subseteq In /\ apps' = apps
    <2>1. Idle.at # "insert"
      BY DEF Idle
    <2> QED
      BY <1>0, <1>4, <2>1, InsertingMoved DEF Close
  <1>5. ASSUME NEW r \in Requests, Serve(r)
        PROVE  Len(apps'[o]) + Cardinality(In)' <= Cardinality(Requests)
    <2>1. CASE Refuse(r)
      BY <1>1, <1>2, <2>1 DEF Refuse
    <2>2. CASE ApplyCheck(r)
      <3>1. CASE Subject(r) = o /\ apps[o] = <<>>
        BY <1>0, <2>2, <3>1 DEF ApplyCheck
      <3>2. CASE ~(Subject(r) = o /\ apps[o] = <<>>)
        <4>1. In' \subseteq In
          <5>1. CASE MoveTo(r, "failed")
            BY <1>2, <5>1
          <5>2. CASE MoveTo(r, "insert")
            <6>1. Subject(r) # o \/ apps[Subject(r)] # <<>>
              BY <3>2
            <6>2. CASE Subject(r) # o
              BY <1>0, <5>2, <6>2 DEF MoveTo, JobState, Inserting, At, Subject
            <6>3. CASE Subject(r) = o
              BY <1>0, <1>2, <2>2, <3>2, <6>3 DEF ApplyCheck
            <6> QED
              BY <6>2, <6>3
          <5> QED
            BY <2>2, <5>1, <5>2 DEF ApplyCheck
        <4> QED
          BY <1>1, <2>2, <4>1 DEF ApplyCheck
      <3> QED
        BY <3>1, <3>2
    <2>3. CASE ApplyInsert(r)
      <3>1. In' \subseteq In \ {r}
        BY <1>2, <2>3 DEF ApplyInsert
      <3>2. CASE Subject(r) = o
        <4>1. r \in In
          BY <2>3, <3>2 DEF ApplyInsert, Inserting
        <4>2. Cardinality(In)' + 1 <= Cardinality(In)
          BY <3>1, <4>1, InsertingBounds
        <4>3. Len(apps'[o]) = Len(apps[o]) + 1
          BY <2>3, <3>2 DEF ApplyInsert, IntakeTypeOK
        <4> QED
          BY <1>0, <4>2, <4>3
      <3>3. CASE Subject(r) # o
        BY <1>1, <2>3, <3>1, <3>3 DEF ApplyInsert, IntakeTypeOK
      <3> QED
        BY <3>2, <3>3
    <2>4. CASE SubmitCheck(r)
      <3>1. In' \subseteq In
        <4>1. CASE MoveTo(r, "failed")
          BY <1>2, <4>1
        <4>2. CASE MoveTo(r, "insert")
          BY <1>0, <2>4, <4>2 DEF SubmitCheck, MoveTo, JobState, Inserting, At, Subject
        <4> QED
          BY <2>4, <4>1, <4>2 DEF SubmitCheck
      <3> QED
        BY <1>1, <2>4, <3>1 DEF SubmitCheck
    <2>5. CASE SubmitInsert(r)
      BY <1>1, <1>2, <2>5 DEF SubmitInsert
    <2>6. CASE CreateEvent(r)
      BY <1>1, <1>2, <2>6 DEF CreateEvent
    <2>7. CASE Browse(r)
      BY <1>1, <1>2, <2>7 DEF Browse
    <2>8. CASE ListCredentials(r)
      <3>1. In' \subseteq In
        BY <1>0, <2>8 DEF ListCredentials, JobState, Inserting, At, Subject
      <3> QED
        BY <1>1, <2>8, <3>1 DEF ListCredentials
    <2> QED
      BY <1>5, <2>1, <2>2, <2>3, <2>4, <2>5, <2>6, <2>7, <2>8 DEF Serve
  <1>6. ASSUME NEW p \in Opps, NEW status \in AppVerdicts, NEW i \in 1 .. Len(apps[p]),
               ReviewApplication(p, i, status)
        PROVE  Len(apps'[o]) = Len(apps[o]) /\ In' \subseteq In
    <2>1. Len([apps[p] EXCEPT ![i] = status]) = Len(apps[p])
      BY StatusReplaced DEF IntakeTypeOK, AppStatus
    <2>2. Len(apps'[o]) = Len(apps[o])
      BY <1>6, <2>1 DEF ReviewApplication, IntakeTypeOK
    <2> QED
      BY <1>6, <2>2 DEF ReviewApplication, Inserting, At, Subject
  <1>7. ASSUME UNCHANGED <<apps, job>> PROVE Len(apps'[o]) = Len(apps[o]) /\ In' \subseteq In
    BY <1>7 DEF Inserting, At, Subject
  <1>8. CASE IntakeNext
    BY <1>1, <1>3, <1>4, <1>5, <1>6, <1>7, <1>8
       DEF IntakeNext, Staff, ReviewSubmitted, ReviewAgain
  <1>9. CASE UNCHANGED intakeVars
    BY <1>1, <1>7, <1>9 DEF intakeVars
  <1> QED
    BY <1>8, <1>9

LEMMA ApplicationsInit == IntakeInit => ApplicationsBounded
  <1> SUFFICES ASSUME IntakeInit, NEW o \in Opps
               PROVE  Len(apps[o]) + Cardinality(Inserting("apply", o)) <= Cardinality(Requests)
    BY DEF ApplicationsBounded
  <1>1. Len(apps[o]) = 0
    BY DEF IntakeInit
  <1> QED
    BY <1>1, InsertingBounds, HandlerCount DEF Inserting

\* A volunteer has at most as many applications for an opportunity as requests
\* can run at the same time: one when they do not overlap.
THEOREM ApplicationsAreBounded == IntakeSpec => []ApplicationsBounded
  BY ApplicationsInit, ApplicationsStep, IntakeTypeCorrect, PTL DEF IntakeSpec

LEMMA SubmissionsStep ==
    IntakeTypeOK /\ SubmissionsBounded /\ [IntakeNext]_intakeVars => SubmissionsBounded'
  <1> SUFFICES ASSUME IntakeTypeOK, SubmissionsBounded, [IntakeNext]_intakeVars, NEW t \in Types
               PROVE  submitted'[t] + Cardinality(Inserting("submit", t))'
                        <= Cardinality(Requests)
    BY DEF SubmissionsBounded
  <1> DEFINE In == Inserting("submit", t)
  <1>0. /\ submitted[t] \in Nat /\ Cardinality(In) \in Nat /\ Cardinality(In)' \in Nat
        /\ Cardinality(Requests) \in Nat
        /\ submitted[t] + Cardinality(In) <= Cardinality(Requests)
        /\ Cardinality(In)' <= Cardinality(Requests)
        /\ In' \subseteq In => Cardinality(In)' <= Cardinality(In)
        /\ job \in [Requests -> JobState] /\ submitted \in [Types -> Nat]
    BY InsertingBounds DEF IntakeTypeOK, SubmissionsBounded
  \* Steps that insert nothing and bring nobody to an insert.
  <1>1. ASSUME submitted'[t] \in Nat, submitted'[t] <= submitted[t], In' \subseteq In
        PROVE  submitted'[t] + Cardinality(In)' <= Cardinality(Requests)
    BY <1>0, <1>1
  <1>2. ASSUME NEW r \in Requests, MoveTo(r, "done") \/ MoveTo(r, "failed")
        PROVE  In' \subseteq In \ {r}
    BY <1>0, <1>2, InsertingEnded
  <1>3. ASSUME submitted' = submitted, In' \subseteq In
        PROVE  submitted'[t] + Cardinality(In)' <= Cardinality(Requests)
    BY <1>0, <1>1, <1>3
  <1>4. ASSUME NEW r \in Requests, NEW call \in Calls, NEW role, Request(r, call, role)
        PROVE  In' \subseteq In /\ submitted' = submitted
    BY <1>0, <1>4, SentIsJob, InsertingMoved DEF Request, credentials
  <1>5. ASSUME NEW r \in Requests, Close(r) PROVE In' \subseteq In /\ submitted' = submitted
    <2>1. Idle.at # "insert"
      BY DEF Idle
    <2> QED
      BY <1>0, <1>5, <2>1, InsertingMoved DEF Close, credentials
  <1>6. ASSUME NEW r \in Requests, Serve(r)
        PROVE  submitted'[t] + Cardinality(In)' <= Cardinality(Requests)
    <2>1. CASE Refuse(r)
      BY <1>2, <1>3, <2>1 DEF Refuse, credentials
    <2>2. CASE ApplyCheck(r)
      <3>1. In' \subseteq In
        <4>1. CASE MoveTo(r, "failed")
          BY <1>2, <4>1
        <4>2. CASE MoveTo(r, "insert")
          BY <1>0, <2>2, <4>2 DEF ApplyCheck, MoveTo, JobState, Inserting, At, Subject
        <4> QED
          BY <2>2, <4>1, <4>2 DEF ApplyCheck
      <3> QED
        BY <1>3, <2>2, <3>1 DEF ApplyCheck, credentials
    <2>3. CASE ApplyInsert(r)
      BY <1>2, <1>3, <2>3 DEF ApplyInsert, credentials
    <2>4. CASE SubmitCheck(r)
      <3>1. CASE submitted[t] = 0
        BY <1>0, <2>4, <3>1 DEF SubmitCheck, credentials
      <3>2. CASE submitted[t] # 0
        <4>1. In' \subseteq In
          <5>1. CASE MoveTo(r, "failed")
            BY <1>2, <5>1
          <5>2. CASE MoveTo(r, "insert") /\ Subject(r) # t
            BY <1>0, <5>2 DEF MoveTo, JobState, Inserting, At, Subject
          <5> QED
            BY <2>4, <3>2, <5>1, <5>2 DEF SubmitCheck
        <4> QED
          BY <1>3, <2>4, <4>1 DEF SubmitCheck, credentials
      <3> QED
        BY <3>1, <3>2
    <2>5. CASE SubmitInsert(r)
      <3>1. In' \subseteq In \ {r}
        BY <1>2, <2>5 DEF SubmitInsert
      <3>2. submitted' = [submitted EXCEPT ![Subject(r)] = @ + 1]
        BY <2>5 DEF SubmitInsert
      <3>3. CASE Subject(r) = t
        <4>1. r \in In
          BY <2>5, <3>3 DEF SubmitInsert, Inserting
        <4>2. Cardinality(In)' + 1 <= Cardinality(In)
          BY <3>1, <4>1, InsertingBounds
        <4>3. submitted'[t] = submitted[t] + 1
          BY <1>0, <3>2, <3>3
        <4> QED
          BY <1>0, <4>2, <4>3
      <3>4. CASE Subject(r) # t
        BY <1>0, <1>1, <3>1, <3>2, <3>4
      <3> QED
        BY <3>3, <3>4
    <2>6. CASE CreateEvent(r)
      BY <1>2, <1>3, <2>6 DEF CreateEvent, credentials
    <2>7. CASE Browse(r)
      BY <1>2, <1>3, <2>7 DEF Browse, credentials
    <2>8. CASE ListCredentials(r)
      <3>1. In' \subseteq In
        BY <1>0, <2>8 DEF ListCredentials, JobState, Inserting, At, Subject
      <3> QED
        BY <1>3, <2>8, <3>1 DEF ListCredentials, credentials
    <2> QED
      BY <1>6, <2>1, <2>2, <2>3, <2>4, <2>5, <2>6, <2>7, <2>8 DEF Serve
  <1>7. ASSUME UNCHANGED job PROVE In' \subseteq In
    BY <1>7 DEF Inserting, At, Subject
  <1>8. ASSUME NEW u \in Types, NEW status \in CredVerdicts, ReviewSubmitted(u, status)
        PROVE  submitted'[t] + Cardinality(In)' <= Cardinality(Requests)
    <2>1. submitted[u] > 0 /\ submitted' = [submitted EXCEPT ![u] = @ - 1] /\ UNCHANGED job
      BY <1>8 DEF ReviewSubmitted
    <2>2. submitted'[t] \in Nat /\ submitted'[t] <= submitted[t]
      BY <1>0, <2>1
    <2> QED
      BY <1>1, <1>7, <2>1, <2>2
  <1>9. CASE IntakeNext
    BY <1>3, <1>4, <1>5, <1>6, <1>7, <1>8, <1>9
       DEF IntakeNext, Staff, ReviewApplication, ReviewAgain, credentials
  <1>10. CASE UNCHANGED intakeVars
    BY <1>3, <1>7, <1>10 DEF intakeVars
  <1> QED
    BY <1>9, <1>10

LEMMA SubmissionsInit == IntakeInit => SubmissionsBounded
  <1> SUFFICES ASSUME IntakeInit, NEW t \in Types
               PROVE  submitted[t] + Cardinality(Inserting("submit", t)) <= Cardinality(Requests)
    BY DEF SubmissionsBounded
  <1>1. submitted[t] = 0
    BY DEF IntakeInit
  <1> QED
    BY <1>1, InsertingBounds, HandlerCount DEF Inserting

\* At most as many credentials of a type wait for their review as requests can
\* run at the same time.
THEOREM SubmissionsAreBounded == IntakeSpec => []SubmissionsBounded
  BY SubmissionsInit, SubmissionsStep, IntakeTypeCorrect, PTL DEF IntakeSpec
=============================================================================
