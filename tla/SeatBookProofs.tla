--------------------------- MODULE SeatBookProofs ---------------------------
(***************************************************************************)
(* While nobody cancels, Scheduling implements SeatBook and numbers its    *)
(* waiting lists 1, 2, 3, ..., for any number of concurrent registrations. *)
(***************************************************************************)
EXTENDS SchedulingProofs, SequenceTheorems

\* Rows are only ever made.
OnlyJoined ==
    \A v \in Volunteers, s \in Shifts : reg[<<v, s>>] \in {"NONE", "REGISTERED", "WAITLISTED"}

\* Every number of the line of s belongs to one volunteer.
Numbered(s) ==
    /\ \A u, w \in Waiting(s) : pos[<<u, s>>] = pos[<<w, s>>] => u = w
    /\ \A u \in Waiting(s) : pos[<<u, s>>] \in 1 .. Cardinality(Waiting(s))
    /\ \A i \in 1 .. Cardinality(Waiting(s)) : \E u \in Waiting(s) : pos[<<u, s>>] = i

FullWhenWaiting(s) == Waiting(s) # {} => Cardinality(Seated(s)) >= CapacityMax[s]

\* What an undoomed transaction has decided on its snapshot is still right.
Current(r) ==
    \A v \in Volunteers, s \in Shifts :
        req[r].op = "register" /\ ~req[r].doomed /\ req[r].v = v /\ req[r].s = s =>
            /\ req[r].status = "REGISTERED" => ~Clash(v, s)
            /\ req[r].status = "WAITLISTED" =>
                  /\ Cardinality(Seated(s)) >= CapacityMax[s]
                  /\ req[r].pos = Cardinality(Waiting(s)) + 1

BookInv ==
    /\ RegistersOnly
    /\ SeatLeft
    /\ OnlyJoined
    /\ \A s \in Shifts : Numbered(s) /\ FullWhenWaiting(s)
    /\ \A r \in Requests : Current(r)

-----------------------------------------------------------------------------
LEMMA WaitingFinite ==
    ASSUME NEW s \in Shifts
    PROVE  IsFiniteSet(Waiting(s)) /\ Cardinality(Waiting(s)) \in Nat
  <1>1. Waiting(s) \subseteq Volunteers
    BY DEF Waiting
  <1> QED
    BY <1>1, FiniteIds, FS_Subset, FS_CardinalityType

\* Who has an active registration has a seat or waits.
LEMMA ActiveSplit ==
    ASSUME OnlyJoined, NEW s \in Shifts
    PROVE  ActiveCount(s) = Cardinality(Seated(s)) + Cardinality(Waiting(s))
  <1>1. ActiveRegs(s) = Seated(s) \cup Waiting(s) /\ Seated(s) \cap Waiting(s) = {}
    BY DEF OnlyJoined, ActiveRegs, Active, Seated, Waiting
  <1>2. Cardinality(Seated(s) \cup Waiting(s)) =
            Cardinality(Seated(s)) + Cardinality(Waiting(s)) - Cardinality(Seated(s) \cap Waiting(s))
    BY SeatedAreActive, WaitingFinite, FS_Union
  <1>3. Cardinality(Seated(s) \cap Waiting(s)) = 0
    BY <1>1, FS_EmptySet
  <1>4. ActiveCount(s) = Cardinality(Seated(s) \cup Waiting(s))
    BY <1>1 DEF ActiveCount
  <1>5. Cardinality(Seated(s)) \in Nat /\ Cardinality(Waiting(s)) \in Nat
    BY SeatedAreActive, WaitingFinite
  <1> QED
    BY <1>2, <1>3, <1>4, <1>5

\* Registrations alone change the tables by their commits only.
LEMMA JoinSteps ==
    ASSUME RegistersOnly, [Next]_vars
    PROVE  UNCHANGED <<reg, pos, asg>> \/ \E r \in Requests : RegisterCommit(r)
  BY DEF RegistersOnly, Next, Continue, vars, RegisterBegin, RegisterAbort, CancelRead,
         CancelWrite, PromoteCount, PromotePick, PromoteOverlap, PromoteWrite, Lost,
         SetShiftStatus, ReviewCredential

\* What a commit does to the page of a shift.
LEMMA CommitPage ==
    ASSUME TypeOK, NEW r \in Requests, RegisterCommit(r), NEW s \in Shifts
    PROVE  /\ req[r] \in RegisterReq /\ req[r].v \in Volunteers /\ req[r].s \in Shifts
           /\ req[r].v \notin Seated(req[r].s) \cup Waiting(req[r].s)
           /\ s = req[r].s /\ req[r].status = "REGISTERED" =>
                 Seated(s)' = Seated(s) \cup {req[r].v} /\ Waiting(s)' = Waiting(s)
           /\ s = req[r].s /\ req[r].status = "WAITLISTED" =>
                 /\ Seated(s)' = Seated(s) /\ Waiting(s)' = Waiting(s) \cup {req[r].v}
                 /\ pos'[<<req[r].v, s>>] = req[r].pos
           /\ s # req[r].s => Seated(s)' = Seated(s) /\ Waiting(s)' = Waiting(s)
           /\ \A u \in Waiting(s) : pos'[<<u, s>>] = pos[<<u, s>>]
  <1>1. req[r] \in RegisterReq
    BY ReqShape DEF TypeOK, RegisterCommit
  <1>2. req[r].v \in Volunteers /\ req[r].s \in Shifts /\ req[r].pos \in Nat
          /\ req[r].status \in {"REGISTERED", "WAITLISTED"}
    BY <1>1 DEF RegisterReq
  <1>3. reg[<<req[r].v, req[r].s>>] = "NONE"
    BY DEF RegisterCommit, InsertAllowed
  <1>4. pos' = [pos EXCEPT ![<<req[r].v, req[r].s>>] = req[r].pos]
    BY DEF RegisterCommit
  <1>5. ASSUME NEW v \in Volunteers
        PROVE  reg'[<<v, s>>] = IF v = req[r].v /\ s = req[r].s
                                THEN req[r].status ELSE reg[<<v, s>>]
    BY RegisterCommitRow
  <1>6. \A u \in Waiting(s) : pos'[<<u, s>>] = pos[<<u, s>>]
    BY <1>2, <1>3, <1>4 DEF Waiting, TypeOK, Rows
  <1>7. pos'[<<req[r].v, req[r].s>>] = req[r].pos
    BY <1>2, <1>4 DEF TypeOK, Rows
  <1>8. s = req[r].s /\ req[r].status = "REGISTERED" =>
           Seated(s)' = Seated(s) \cup {req[r].v} /\ Waiting(s)' = Waiting(s)
    BY <1>2, <1>3, <1>5 DEF Seated, Waiting
  <1>9. s = req[r].s /\ req[r].status = "WAITLISTED" =>
           Seated(s)' = Seated(s) /\ Waiting(s)' = Waiting(s) \cup {req[r].v}
    BY <1>2, <1>3, <1>5 DEF Seated, Waiting
  <1>10. s # req[r].s => Seated(s)' = Seated(s) /\ Waiting(s)' = Waiting(s)
    BY <1>5 DEF Seated, Waiting
  <1>11. req[r].v \notin Seated(req[r].s) \cup Waiting(req[r].s)
    BY <1>3 DEF Seated, Waiting
  <1> QED
    BY <1>1, <1>2, <1>6, <1>7, <1>8, <1>9, <1>10, <1>11

-----------------------------------------------------------------------------
LEMMA OnlyJoinedStep ==
    ASSUME TypeOK, BookInv, [Next]_vars
    PROVE  OnlyJoined'
  <1>1. CASE UNCHANGED <<reg, pos, asg>>
    BY <1>1 DEF BookInv, OnlyJoined
  <1>2. ASSUME NEW r \in Requests, RegisterCommit(r) PROVE OnlyJoined'
    BY <1>2, RegisterCommitRow DEF BookInv, OnlyJoined
  <1> QED
    BY <1>1, <1>2, JoinSteps DEF BookInv

LEMMA PageStep ==
    ASSUME TypeOK, BookInv, [Next]_vars, NEW s \in Shifts
    PROVE  Numbered(s)' /\ FullWhenWaiting(s)'
  <1>1. Numbered(s) /\ FullWhenWaiting(s)
    BY DEF BookInv
  <1>2. CASE UNCHANGED <<reg, pos, asg>>
    <2>1. Waiting(s)' = Waiting(s) /\ Seated(s)' = Seated(s)
      BY <1>2 DEF Waiting, Seated
    <2> QED
      BY <1>1, <1>2, <2>1 DEF Numbered, FullWhenWaiting
  <1>3. ASSUME NEW r \in Requests, RegisterCommit(r)
        PROVE  Numbered(s)' /\ FullWhenWaiting(s)'
    <2>1. req[r].status \in {"REGISTERED", "WAITLISTED"} /\ Current(r)
            /\ req[r].op = "register" /\ ~req[r].doomed
      BY <1>3, CommitPage DEF RegisterReq, BookInv, RegisterCommit
    <2>2. CASE s # req[r].s
      <3>1. Waiting(s)' = Waiting(s) /\ Seated(s)' = Seated(s)
              /\ \A u \in Waiting(s) : pos'[<<u, s>>] = pos[<<u, s>>]
        BY <1>3, <2>2, CommitPage
      <3> QED
        BY <1>1, <3>1 DEF Numbered, FullWhenWaiting
    <2>3. CASE s = req[r].s /\ req[r].status = "REGISTERED"
      <3>1. Waiting(s)' = Waiting(s)
              /\ \A u \in Waiting(s) : pos'[<<u, s>>] = pos[<<u, s>>]
        BY <1>3, <2>3, CommitPage
      <3>2. r \in Booking(s)
        BY <2>1, <2>3 DEF Booking
      <3>3. Cardinality(Seated(s)) < CapacityMax[s]
        BY <3>2 DEF BookInv, SeatLeft
      <3>4. Waiting(s) = {}
        BY <1>1, <3>3, SizesAreNat DEF FullWhenWaiting
      <3> QED
        BY <1>1, <3>1, <3>4 DEF Numbered, FullWhenWaiting
    <2>4. CASE s = req[r].s /\ req[r].status = "WAITLISTED"
      <3> DEFINE v == req[r].v
                 n == Cardinality(Waiting(s))
      <3>1. /\ Seated(s)' = Seated(s) /\ Waiting(s)' = Waiting(s) \cup {v}
            /\ v \notin Waiting(s)
            /\ \A u \in Waiting(s) : pos'[<<u, s>>] = pos[<<u, s>>]
            /\ pos'[<<v, s>>] = req[r].pos
        BY <1>3, <2>4, CommitPage
      <3>2. Cardinality(Seated(s)) >= CapacityMax[s] /\ req[r].pos = n + 1
        <4>1. v \in Volunteers
          BY <1>3, CommitPage
        <4> QED
          BY <2>1, <2>4, <4>1 DEF Current
      <3>3. n \in Nat /\ Cardinality(Waiting(s)') = n + 1
        BY <3>1, WaitingFinite, FS_AddElement
      <3>4. /\ \A u, w \in Waiting(s) : pos[<<u, s>>] = pos[<<w, s>>] => u = w
            /\ \A u \in Waiting(s) : pos[<<u, s>>] \in 1 .. n
            /\ \A i \in 1 .. n : \E u \in Waiting(s) : pos[<<u, s>>] = i
        BY <1>1 DEF Numbered
      <3> HIDE DEF v, n
      <3>5. \A u, w \in Waiting(s)' : pos'[<<u, s>>] = pos'[<<w, s>>] => u = w
        BY <3>1, <3>2, <3>3, <3>4
      <3>6. \A u \in Waiting(s)' : pos'[<<u, s>>] \in 1 .. n + 1
        BY <3>1, <3>2, <3>3, <3>4
      <3>7. ASSUME NEW i \in 1 .. n + 1 PROVE \E u \in Waiting(s)' : pos'[<<u, s>>] = i
        <4>1. CASE i = n + 1
          BY <3>1, <3>2, <4>1
        <4>2. CASE i \in 1 .. n
          BY <3>1, <3>4, <4>2
        <4>3. i = n + 1 \/ i \in 1 .. n
          BY <3>3
        <4> QED
          BY <4>1, <4>2, <4>3
      <3>8. Numbered(s)'
        BY <3>3, <3>5, <3>6, <3>7 DEF Numbered
      <3> QED
        BY <3>1, <3>2, <3>8 DEF FullWhenWaiting
    <2> QED
      BY <2>1, <2>2, <2>3, <2>4
  <1> QED
    BY <1>2, <1>3, JoinSteps DEF BookInv

\* A decision is made on the tables as they are, and a commit that would make
\* it wrong dooms its transaction.
LEMMA CurrentStep ==
    ASSUME TypeOK, BookInv, [Next]_vars, NEW o \in Requests
    PROVE  Current(o)'
  <1> SUFFICES ASSUME NEW v \in Volunteers, NEW s \in Shifts, req'[o].op = "register",
                      ~req'[o].doomed, req'[o].v = v, req'[o].s = s
               PROVE  /\ req'[o].status = "REGISTERED" => ~Clash(v, s)'
                      /\ req'[o].status = "WAITLISTED" =>
                            /\ Cardinality(Seated(s)') >= CapacityMax[s]
                            /\ req'[o].pos = Cardinality(Waiting(s)') + 1
    BY DEF Current
  <1>0. UNCHANGED <<reg, pos, asg>> =>
           /\ Waiting(s)' = Waiting(s) /\ Seated(s)' = Seated(s)
           /\ Clash(v, s)' = Clash(v, s)
    BY DEF Waiting, Seated, Clash
  <1>1. ASSUME NEW u \in Volunteers, NEW t \in Shifts, RegisterBegin(o, u, t)
        PROVE  /\ req'[o].status = "REGISTERED" => ~Clash(v, s)'
               /\ req'[o].status = "WAITLISTED" =>
                     /\ Cardinality(Seated(s)') >= CapacityMax[s]
                     /\ req'[o].pos = Cardinality(Waiting(s)') + 1
    <2> DEFINE isFull == ActiveCount(s) >= CapacityMax[s]
    <2>1. /\ u = v /\ t = s
          /\ req'[o].status = IF isFull THEN "WAITLISTED" ELSE "REGISTERED"
          /\ req'[o].pos = IF isFull THEN NextPosition(s) ELSE 0
          /\ ~isFull => ~Clash(v, s)
          /\ UNCHANGED <<reg, pos, asg>>
      BY <1>1 DEF RegisterBegin, TypeOK
    <2>2. ASSUME isFull
          PROVE  /\ Cardinality(Seated(s)) >= CapacityMax[s]
                 /\ NextPosition(s) = Cardinality(Waiting(s)) + 1
      <3>1. ActiveCount(s) = Cardinality(Seated(s)) + Cardinality(Waiting(s))
        BY ActiveSplit DEF BookInv
      <3>2. Cardinality(Seated(s)) \in Nat /\ Cardinality(Waiting(s)) \in Nat
              /\ CapacityMax[s] \in Nat
        BY SeatedAreActive, WaitingFinite, CapacityIsNat
      <3>3. Waiting(s) = {} => Cardinality(Waiting(s)) = 0
        BY FS_EmptySet
      <3>4. Cardinality(Seated(s)) <= CapacityMax[s]
        BY DEF BookInv, SeatLeft
      <3>5. Waiting(s) # {} => Cardinality(Seated(s)) >= CapacityMax[s]
        BY DEF BookInv, FullWhenWaiting
      <3> QED
        BY <2>2, <3>1, <3>2, <3>3, <3>4, <3>5 DEF NextPosition
    <2> QED
      BY <1>0, <2>1, <2>2
  <1>2. CASE req'[o] = req[o]
    <2>1. /\ req[o].status = "REGISTERED" => ~Clash(v, s)
          /\ req[o].status = "WAITLISTED" =>
                /\ Cardinality(Seated(s)) >= CapacityMax[s]
                /\ req[o].pos = Cardinality(Waiting(s)) + 1
      BY <1>2 DEF BookInv, Current
    <2>2. CASE UNCHANGED <<reg, pos, asg>>
      BY <1>0, <1>2, <2>1, <2>2
    <2>3. ASSUME NEW r \in Requests, RegisterCommit(r)
          PROVE  /\ Seated(s)' = Seated(s) /\ Waiting(s)' = Waiting(s)
                 /\ req[o].status = "REGISTERED" => ~Clash(v, s)'
      <3>1. req'[o] = IF o = r THEN Idle
                      ELSE IF Conflicts(req[o], req[r]) THEN Doomed(req[o]) ELSE req[o]
        BY <2>3 DEF RegisterCommit
      <3>2. Conflicts(req[o], req[r]) => Doomed(req[o]).doomed
        BY ReqShape DEF Conflicts, TypeOK, Doomed, RegisterReq
      <3>3. o # r /\ ~Conflicts(req[o], req[r])
        BY <1>2, <3>1, <3>2 DEF Idle
      <3>4. s # req[r].s
        BY <1>2, <3>3 DEF Conflicts
      <3>5. ASSUME req[o].status = "REGISTERED", NEW t \in Shifts,
                   Active(asg'[<<v, t>>]), Overlaps(s, t), ~Active(asg[<<v, t>>])
            PROVE  FALSE
        <4>1. v = req[r].v /\ t = req[r].s /\ req[r].status = "REGISTERED"
          BY <2>3, <3>5, RegisterCommitRow
        <4> QED
          BY <1>2, <3>3, <3>5, <4>1 DEF Conflicts
      <3>6. req[o].status = "REGISTERED" => ~Clash(v, s)'
        BY <2>1, <3>5 DEF Clash
      <3> QED
        BY <2>3, <3>4, <3>6, CommitPage
    <2> QED
      BY <1>2, <2>1, <2>2, <2>3, JoinSteps DEF BookInv
  <1> QED
    BY <1>1, <1>2, HandlerSteps

-----------------------------------------------------------------------------
LEMMA BookInvAlways == "cancel" \notin Events => (Spec => []BookInv)
  <1> SUFFICES ASSUME "cancel" \notin Events PROVE Spec => []BookInv
    OBVIOUS
  <1>1. Init => BookInv
    <2> SUFFICES ASSUME Init PROVE BookInv
      OBVIOUS
    <2>1. RegistersOnly /\ OnlyJoined /\ \A r \in Requests : Current(r)
      BY DEF Init, RegistersOnly, OnlyJoined, Current, Rows, Idle
    <2>2. ASSUME NEW s \in Shifts PROVE Seated(s) = {} /\ Booking(s) = {} /\ Waiting(s) = {}
      BY DEF Init, Seated, Booking, Waiting, Rows, Idle
    <2>3. SeatLeft
      BY <2>2, SizesAreNat, FS_EmptySet DEF SeatLeft
    <2>4. ASSUME NEW s \in Shifts PROVE Numbered(s) /\ FullWhenWaiting(s)
      BY <2>2, FS_EmptySet DEF Numbered, FullWhenWaiting
    <2> QED
      BY <2>1, <2>3, <2>4 DEF BookInv
  <1>2. TypeOK /\ BookInv /\ [Next]_vars => BookInv'
    <2> SUFFICES ASSUME TypeOK, BookInv, [Next]_vars PROVE BookInv'
      OBVIOUS
    <2>1. RegistersOnly' /\ SeatLeft'
      BY RegistersOnlyStep, SeatLeftStep DEF BookInv
    <2>2. OnlyJoined'
      BY OnlyJoinedStep
    <2>3. \A s \in Shifts : Numbered(s)' /\ FullWhenWaiting(s)'
      BY PageStep
    <2>4. \A r \in Requests : Current(r)'
      BY CurrentStep
    <2> QED
      BY <2>1, <2>2, <2>3, <2>4 DEF BookInv
  <1> QED
    BY <1>1, <1>2, TypeCorrect, PTL DEF Spec

\* While nobody cancels every waiting list is numbered 1, 2, 3, ... without
\* gaps or repetitions, however the registrations interleave.
THEOREM WaitlistsAreNumbered ==
    "cancel" \notin Events => (Spec => []WaitlistNumbered)
  <1> SUFFICES ASSUME "cancel" \notin Events PROVE Spec => []WaitlistNumbered
    OBVIOUS
  <1>1. BookInv => WaitlistNumbered
    <2> SUFFICES ASSUME BookInv, NEW s \in Shifts
                 PROVE  {pos[<<v, s>>] : v \in Waiting(s)} = 1 .. Cardinality(Waiting(s))
      BY DEF WaitlistNumbered
    <2>1. Numbered(s)
      BY DEF BookInv
    <2>2. /\ \A u \in Waiting(s) : pos[<<u, s>>] \in 1 .. Cardinality(Waiting(s))
          /\ \A i \in 1 .. Cardinality(Waiting(s)) : \E u \in Waiting(s) : pos[<<u, s>>] = i
      BY <2>1 DEF Numbered
    <2> QED
      BY <2>2
  <1> QED
    BY <1>1, BookInvAlways, PTL

-----------------------------------------------------------------------------
\* The line of s is the sequence of those who wait for s, in the order of
\* their numbers.
LineInOrder(s) ==
    /\ Line(s) \in Seq(Waiting(s)) /\ Len(Line(s)) = Cardinality(Waiting(s))
    /\ \A u \in Waiting(s) : Line(s)[pos[<<u, s>>]] = u

LEMMA LineShape ==
    ASSUME NEW s \in Shifts, Numbered(s)
    PROVE  LineInOrder(s)
  <1> DEFINE n == Cardinality(Waiting(s))
             L(i) == CHOOSE v \in Waiting(s) : pos[<<v, s>>] = i
  <1>1. n \in Nat
    BY WaitingFinite
  <1>2. ASSUME NEW i \in 1 .. n PROVE L(i) \in Waiting(s) /\ pos[<<L(i), s>>] = i
    <2>1. \E v \in Waiting(s) : pos[<<v, s>>] = i
      BY DEF Numbered
    <2> QED
      BY <2>1
  <1>3. Line(s) = [i \in 1 .. n |-> L(i)]
    BY DEF Line
  <1>4. ASSUME NEW u \in Waiting(s) PROVE pos[<<u, s>>] \in 1 .. n /\ L(pos[<<u, s>>]) = u
    <2>1. pos[<<u, s>>] \in 1 .. n
      BY DEF Numbered
    <2>2. L(pos[<<u, s>>]) \in Waiting(s) /\ pos[<<L(pos[<<u, s>>]), s>>] = pos[<<u, s>>]
      BY <1>2, <2>1
    <2> HIDE DEF L
    <2> QED
      BY <2>1, <2>2 DEF Numbered
  <1> HIDE DEF n, L
  <1>5. Line(s) \in Seq(Waiting(s)) /\ Len(Line(s)) = n
    <2>1. \A i \in 1 .. n : L(i) \in Waiting(s)
      BY <1>2
    <2> QED
      BY <1>1, <1>3, <2>1, IsASeq, LenProperties
  <1> QED
    BY <1>3, <1>4, <1>5 DEF n, LineInOrder

\* A commit leaves the line of s alone, or appends its volunteer to it.
LEMMA LineStep ==
    ASSUME TypeOK, BookInv, NEW r \in Requests, RegisterCommit(r), NEW s \in Shifts,
           LineInOrder(s), LineInOrder(s)'
    PROVE  Line(s)' = IF s = req[r].s /\ req[r].status = "WAITLISTED"
                      THEN Append(Line(s), req[r].v) ELSE Line(s)
  <1> DEFINE n == Cardinality(Waiting(s))
             v == req[r].v
  <1>1. n \in Nat
    BY WaitingFinite
  <1>2. Line(s) \in Seq(Waiting(s)) /\ Len(Line(s)) = n
    BY DEF LineInOrder
  <1>3. \A i \in 1 .. n : \E u \in Waiting(s) : pos[<<u, s>>] = i
    BY DEF BookInv, Numbered
  <1>4. \A u \in Waiting(s) : pos'[<<u, s>>] = pos[<<u, s>>]
    BY CommitPage
  <1>5. \A i \in 1 .. n : \E u \in Waiting(s) : pos'[<<u, s>>] = i /\ Line(s)[i] = u
    BY <1>3, <1>4 DEF LineInOrder
  <1>6. Line(s)' \in Seq(Waiting(s)') /\ Len(Line(s)') = Cardinality(Waiting(s)')
          /\ \A u \in Waiting(s)' : Line(s)'[pos'[<<u, s>>]] = u
    BY DEF LineInOrder
  <1>7. CASE s = req[r].s /\ req[r].status = "WAITLISTED"
    <2>1. Waiting(s)' = Waiting(s) \cup {v} /\ v \notin Waiting(s) /\ pos'[<<v, s>>] = req[r].pos
      BY <1>7, CommitPage
    <2>2. v \in Volunteers /\ Current(r) /\ req[r].op = "register" /\ ~req[r].doomed
      BY CommitPage DEF BookInv, RegisterCommit
    <2>3. req[r].pos = n + 1
      BY <1>7, <2>2 DEF Current
    <2>4. Cardinality(Waiting(s)') = n + 1
      BY <2>1, WaitingFinite, FS_AddElement
    <2> HIDE DEF n, v
    <2>5. Line(s)' \in Seq(Waiting(s)') /\ Len(Line(s)') = n + 1
      BY <1>6, <2>4
    <2>6. Line(s) \in Seq(Waiting(s)')
      BY <1>2, <2>1, SeqMonotonic
    <2>7. /\ Append(Line(s), v) \in Seq(Waiting(s)') /\ Len(Append(Line(s), v)) = n + 1
          /\ \A i \in 1 .. n : Append(Line(s), v)[i] = Line(s)[i]
          /\ Append(Line(s), v)[n + 1] = v
      BY <1>2, <2>1, <2>6, AppendProperties
    <2>8. ASSUME NEW i \in 1 .. n + 1 PROVE Line(s)'[i] = Append(Line(s), v)[i]
      <3>1. CASE i = n + 1
        BY <1>6, <2>1, <2>3, <2>7, <3>1
      <3>2. CASE i \in 1 .. n
        BY <1>5, <1>6, <2>1, <2>7, <3>2
      <3>3. i = n + 1 \/ i \in 1 .. n
        BY <1>1
      <3> QED
        BY <3>1, <3>2, <3>3
    <2>9. Line(s)' = Append(Line(s), v)
      BY <2>5, <2>7, <2>8, SeqEqual
    <2> QED
      BY <1>7, <2>9 DEF v
  <1>8. CASE ~(s = req[r].s /\ req[r].status = "WAITLISTED")
    <2>1. Waiting(s)' = Waiting(s)
      BY <1>8, CommitPage DEF RegisterReq
    <2>2. Line(s)' \in Seq(Waiting(s)) /\ Len(Line(s)') = n
      BY <1>6, <2>1
    <2>3. \A i \in 1 .. n : Line(s)'[i] = Line(s)[i]
      BY <1>5, <1>6, <2>1
    <2>4. Line(s)' = Line(s)
      BY <1>2, <2>2, <2>3, SeqEqual
    <2> QED
      BY <1>8, <2>4
  <1> QED
    BY <1>7, <1>8

\* The instance has a copy of the definition of cardinality.
LEMMA SameCardinality == \A S : Book!Cardinality(S) = Cardinality(S)
  BY DEF Cardinality, Book!Cardinality

\* Every commit is a step of the book: its volunteer takes a seat that is free,
\* or gets in line of a shift that is full.
LEMMA JoinIsAtomic ==
    ASSUME TypeOK, BookInv, SeatBacked, NEW r \in Requests, RegisterCommit(r),
           \A s \in Shifts : LineInOrder(s) /\ LineInOrder(s)'
    PROVE  Book!Next
  <1>0. PICK v \in Volunteers, s \in Shifts : v = req[r].v /\ s = req[r].s
    BY ReqShape DEF TypeOK, RegisterCommit, RegisterReq
  <1> DEFINE holders == [t \in Shifts |-> Seated(t)]
             queue == [t \in Shifts |-> Line(t)]
  <1>1. req[r].status \in {"REGISTERED", "WAITLISTED"} /\ v \notin Seated(s) \cup Waiting(s)
    BY <1>0, CommitPage DEF RegisterReq
  <1>2. v \notin Seated(s) \cup {Line(s)[i] : i \in 1 .. Len(Line(s))}
    <2>1. \A i \in 1 .. Len(Line(s)) : Line(s)[i] \in Waiting(s)
      BY <1>0, <1>1, ElementOfSeq DEF LineInOrder
    <2> QED
      BY <1>0, <1>1, <2>1
  <1>3. Current(r) /\ req[r].op = "register" /\ ~req[r].doomed
    BY DEF BookInv, RegisterCommit
  <1>4. \A t \in Shifts : Line(t)' = IF t = s /\ req[r].status = "WAITLISTED"
                                   THEN Append(Line(t), v) ELSE Line(t)
    BY <1>0, LineStep
  <1>5. \A t \in Shifts : Seated(t)' = IF t = s /\ req[r].status = "REGISTERED"
                                     THEN Seated(t) \cup {v} ELSE Seated(t)
    BY <1>0, <1>1, CommitPage
  <1>6. CASE req[r].status = "REGISTERED"
    <2>1. Cardinality(Seated(s)) < CapacityMax[s]
      <3>1. r \in Booking(s)
        BY <1>0, <1>3, <1>6 DEF Booking
      <3> QED
        BY <1>0, <1>1, <3>1 DEF BookInv, SeatLeft
    <2>2. ASSUME NEW t \in Shifts, Overlaps(s, t) PROVE v \notin Seated(t)
      <3>1. ~Active(asg[<<v, t>>])
        BY <1>0, <1>1, <1>3, <1>6, <2>2 DEF Current, Clash
      <3>2. reg[<<v, t>>] # "REGISTERED"
        BY <1>0, <1>1, <3>1 DEF SeatBacked, Active
      <3> QED
        BY <1>0, <1>1, <3>2 DEF BookInv, OnlyJoined, Seated
    <2>3. holders' = [holders EXCEPT ![s] = @ \cup {v}] /\ queue' = queue
      BY <1>0, <1>1, <1>4, <1>5, <1>6
    <2>4. Book!TakeSeat(v, s)
      BY <1>0, <1>1, <1>2, <2>1, <2>2, <2>3, SameCardinality DEF Book!TakeSeat, Book!InLine
    <2> QED
      BY <1>0, <1>1, <2>4 DEF Book!Next
  <1>7. CASE req[r].status = "WAITLISTED"
    <2>1. Cardinality(Seated(s)) >= CapacityMax[s]
      BY <1>0, <1>1, <1>3, <1>7 DEF Current
    <2>2. holders' = holders /\ queue' = [queue EXCEPT ![s] = Append(@, v)]
      BY <1>0, <1>1, <1>4, <1>5, <1>7
    <2>3. Book!GetInLine(v, s)
      BY <1>0, <1>1, <1>2, <2>1, <2>2, SameCardinality DEF Book!GetInLine, Book!InLine
    <2> QED
      BY <1>0, <1>1, <2>3 DEF Book!Next
  <1> QED
    BY <1>0, <1>1, <1>6, <1>7

\* Registrations alone implement the book: whatever their number, and however
\* their transactions interleave and fail, each of them joins in one step.
THEOREM RegistrationsAreAtomic == "cancel" \notin Events => (Spec => JoinsAreAtomic)
  <1> SUFFICES ASSUME "cancel" \notin Events PROVE Spec => JoinsAreAtomic
    OBVIOUS
  <1>1. Init => Book!Init
    <2> SUFFICES ASSUME Init, NEW s \in Shifts PROVE Seated(s) = {} /\ Line(s) = <<>>
      BY DEF Book!Init
    <2>1. Seated(s) = {} /\ Waiting(s) = {}
      BY DEF Init, Seated, Waiting, Rows
    <2>2. 1 .. Cardinality(Waiting(s)) = {}
      BY <2>1, FS_EmptySet
    <2> QED
      BY <2>1, <2>2 DEF Line
  <1>2. BookInv => \A s \in Shifts : LineInOrder(s)
    BY LineShape DEF BookInv
  <1>3. /\ TypeOK /\ BookInv /\ SeatBacked /\ [Next]_vars
        /\ (\A s \in Shifts : LineInOrder(s)) /\ (\A s \in Shifts : LineInOrder(s))'
        => [Book!Next]_(Book!bookVars)
    <2> SUFFICES ASSUME TypeOK, BookInv, SeatBacked, [Next]_vars,
                        \A s \in Shifts : LineInOrder(s) /\ LineInOrder(s)'
                 PROVE  Book!Next \/ UNCHANGED Book!bookVars
      OBVIOUS
    <2>1. CASE UNCHANGED <<reg, pos, asg>>
      <3>1. \A s \in Shifts : Seated(s)' = Seated(s) /\ Line(s)' = Line(s)
        BY <2>1 DEF Seated, Line, Waiting
      <3> QED
        BY <3>1 DEF Book!bookVars
    <2>2. CASE \E r \in Requests : RegisterCommit(r)
      BY <2>2, JoinIsAtomic
    <2> QED
      BY <2>1, <2>2, JoinSteps DEF BookInv
  <1> QED
    BY <1>1, <1>2, <1>3, BookInvAlways, TypeCorrect, SeatsAreBacked, PTL
       DEF Spec, JoinsAreAtomic, Book!Spec
-----------------------------------------------------------------------------
\* BR-11 does not need the exclusion constraint while nobody cancels: of two
\* overlapping registrations of one volunteer that are under way together, the
\* one that commits first dooms the other (the serializable transaction of
\* registerForShift).
THEOREM JoinsNeverDoubleBook == "cancel" \notin Events => (Spec => []NoDoubleBooking)
  <1> SUFFICES ASSUME "cancel" \notin Events PROVE Spec => []NoDoubleBooking
    OBVIOUS
  <1>1. Init => NoDoubleBooking
    BY DEF Init, NoDoubleBooking, Rows, Active
  <1>2. TypeOK /\ BookInv /\ NoDoubleBooking /\ [Next]_vars => NoDoubleBooking'
    <2> SUFFICES ASSUME TypeOK, BookInv, NoDoubleBooking, [Next]_vars
                 PROVE  NoDoubleBooking'
      OBVIOUS
    <2>1. CASE UNCHANGED <<reg, pos, asg>>
      BY <2>1 DEF NoDoubleBooking
    <2>2. ASSUME NEW r \in Requests, RegisterCommit(r) PROVE NoDoubleBooking'
      <3> SUFFICES ASSUME NEW v \in Volunteers, NEW s \in Shifts, NEW t \in Shifts,
                          Active(asg'[<<v, s>>]), Active(asg'[<<v, t>>]), Overlaps(s, t),
                          s # t
                   PROVE  FALSE
        BY DEF NoDoubleBooking
      <3>1. Overlaps(t, s)
        BY ShiftTimes DEF Overlaps
      \* The row just made clashes with no row there was.
      <3>2. ASSUME NEW u \in Shifts, Active(asg'[<<v, u>>])
            PROVE  Active(asg[<<v, u>>]) \/ (v = req[r].v /\ u = req[r].s /\ ~Clash(v, u))
        <4>1. Current(r) /\ req[r].op = "register" /\ ~req[r].doomed
          BY <2>2 DEF BookInv, RegisterCommit
        <4> QED
          BY <2>2, <3>2, <4>1, RegisterCommitRow DEF Current
      <3> QED
        BY <3>1, <3>2 DEF NoDoubleBooking, Clash
    <2> QED
      BY <2>1, <2>2, JoinSteps DEF BookInv
  <1> QED
    BY <1>1, <1>2, BookInvAlways, TypeCorrect, PTL DEF Spec

\* Only a cancellation can leave a seat free that somebody waits for: while
\* nobody cancels, whoever waits does so for a shift that is full, at every
\* moment and not only when all handlers are done.
THEOREM OnlyFullShiftsHaveALine == "cancel" \notin Events => (Spec => []FreedSeatOffered)
  <1> SUFFICES ASSUME "cancel" \notin Events PROVE Spec => []FreedSeatOffered
    OBVIOUS
  <1>1. BookInv => FreedSeatOffered
    BY DEF BookInv, FullWhenWaiting, FreedSeatOffered, Waiting
  <1> QED
    BY <1>1, BookInvAlways, PTL
=============================================================================
