--------------------------- MODULE AuditPoolProofs ---------------------------
(***************************************************************************)
(* What AuditPool guarantees for any number of handlers and connections.   *)
(***************************************************************************)
EXTENDS AuditPool, FiniteSetTheorems, WellFoundedInduction, TLAPS

\* Every variable of AuditPool keeps its type.
THEOREM PoolTypeCorrect == Spec => []TypeOK
  <1>1. Init => TypeOK
    BY DEF Init, TypeOK, Kinds, Stages, Changes
  <1>2. TypeOK /\ [Next]_vars => TypeOK'
    <2> SUFFICES ASSUME TypeOK, [Next]_vars PROVE TypeOK'
      OBVIOUS
    <2> USE DEF TypeOK, Kinds, Stages, Changes, Go, Becomes, Ends
    <2>1. ASSUME NEW r \in Requests, Start(r) PROVE TypeOK'
      BY <2>1 DEF Start
    <2>2. ASSUME NEW r \in Requests, Connect(r) \/ ConnectTimeout(r) PROVE TypeOK'
      BY <2>2 DEF Connect, ConnectTimeout
    <2>3. ASSUME NEW r \in Requests, Body(r) \/ BodyReturns(r) \/ BodyFails(r)
          PROVE  TypeOK'
      BY <2>3 DEF Body, BodyReturns, BodyFails
    <2>4. ASSUME NEW r \in Requests, TxTimeout(r) PROVE TypeOK'
      BY <2>4 DEF TxTimeout
    <2>5. ASSUME NEW r \in Requests, AuditConnect(r) \/ AuditWritten(r) \/ AuditFails(r)
          PROVE  TypeOK'
      BY <2>5 DEF AuditConnect, AuditWritten, AuditFails
    <2>6. ASSUME NEW r \in Requests, Return(r) PROVE TypeOK'
      BY <2>6 DEF Return
    <2>7. ASSUME NEW r \in Requests, Again(r) PROVE TypeOK'
      BY <2>7 DEF Again
    <2>8. ASSUME NEW r \in Requests, TakeRow(r) PROVE TypeOK'
      BY <2>8 DEF TakeRow
    <2>9. CASE UNCHANGED vars
      BY <2>9 DEF vars
    <2> QED
      BY <2>1, <2>2, <2>3, <2>4, <2>5, <2>6, <2>7, <2>8, <2>9 DEF Next, Continue
  <1> QED
    BY <1>1, <1>2, PTL DEF Spec

-----------------------------------------------------------------------------
\* PoolInv, of one handler.
PoolInvAt(r) ==
    /\ stage[r] = "ok" => change[r] = "committed"
    /\ logged[r] /\ kind[r] # "inside" => change[r] = "committed"
    /\ stage[r] = "ok" /\ kind[r] = "bare" => logged[r]
    /\ stage[r] \in {"audit", "row", "return"} /\ kind[r] # "inside" =>
           change[r] = "committed"
    /\ stage[r] = "return" /\ kind[r] = "bare" => logged[r]
    /\ stage[r] \in {"connect", "body", "audit", "row"} => ~logged[r]
IdleUnlogged == \A r \in Requests : stage[r] = "idle" => ~logged[r]

LEMMA PoolInvByHandler == PoolInv <=> \A r \in Requests : PoolInvAt(r)
  BY DEF PoolInv, PoolInvAt, AuditTrail

\* A step of one handler leaves the others as they are.
LEMMA OthersStay ==
    ASSUME TypeOK, NEW r \in Requests, NEW o \in Requests, o # r,
           Start(r) \/ Continue(r) \/ TxTimeout(r) \/ Again(r)
    PROVE  /\ kind'[o] = kind[o] /\ stage'[o] = stage[o]
           /\ change'[o] = change[o] /\ logged'[o] = logged[o]
           /\ todo'[o] = todo[o] /\ held'[o] = held[o]
  <1> USE DEF TypeOK, Go, Becomes, Ends
  <1>1. CASE Start(r) \/ Connect(r) \/ ConnectTimeout(r)
    BY <1>1 DEF Start, Connect, ConnectTimeout
  <1>2. CASE AuditConnect(r) \/ AuditWritten(r) \/ AuditFails(r)
    BY <1>2 DEF AuditConnect, AuditWritten, AuditFails
  <1>3. CASE Return(r) \/ TxTimeout(r) \/ Again(r)
    BY <1>3 DEF Return, TxTimeout, Again
  <1>4. CASE TakeRow(r) \/ Body(r) \/ BodyReturns(r) \/ BodyFails(r)
    BY <1>4 DEF TakeRow, Body, BodyReturns, BodyFails
  <1> QED
    BY <1>1, <1>2, <1>3, <1>4 DEF Continue

LEMMA PoolInvStep ==
    ASSUME TypeOK, PoolInv, IdleUnlogged, [Next]_vars
    PROVE  PoolInv' /\ IdleUnlogged'
  <1>1. SUFFICES ASSUME NEW o \in Requests
                 PROVE  PoolInvAt(o)' /\ (stage'[o] = "idle" => ~logged'[o])
    BY DEF PoolInv, PoolInvAt, IdleUnlogged, AuditTrail
  <1>2. PoolInvAt(o) /\ (stage[o] = "idle" => ~logged[o])
    BY PoolInvByHandler DEF IdleUnlogged
  <1>3. CASE UNCHANGED vars
    BY <1>2, <1>3 DEF vars, PoolInvAt
  <1>4. ASSUME NEW r \in Requests, r # o,
               Start(r) \/ Continue(r) \/ TxTimeout(r) \/ Again(r)
        PROVE  PoolInvAt(o)' /\ (stage'[o] = "idle" => ~logged'[o])
    BY <1>2, <1>4, OthersStay DEF PoolInvAt
  <1>5. CASE Start(o) \/ Continue(o) \/ TxTimeout(o) \/ Again(o)
    <2> USE <1>2 DEF TypeOK, Go, Becomes, Ends, PoolInvAt, Stages
    <2>1. CASE Start(o) \/ Connect(o) \/ ConnectTimeout(o)
      BY <2>1 DEF Start, Connect, ConnectTimeout
    <2>2. CASE TakeRow(o) \/ Body(o) \/ BodyReturns(o) \/ BodyFails(o)
      BY <2>2 DEF TakeRow, Body, BodyReturns, BodyFails, Working
    <2>3. CASE TxTimeout(o)
      BY <2>3 DEF TxTimeout
    <2>4. CASE AuditConnect(o) \/ AuditWritten(o)
      BY <2>4 DEF AuditConnect, AuditWritten
    <2>5. CASE AuditFails(o)
      BY <2>5 DEF AuditFails
    <2>6. CASE Return(o)
      BY <2>6 DEF Return
    <2>7. CASE Again(o)
      BY <2>7 DEF Again
    <2> QED
      BY <1>5, <2>1, <2>2, <2>3, <2>4, <2>5, <2>6, <2>7 DEF Continue
  <1> QED
    BY <1>3, <1>4, <1>5 DEF Next

LEMMA PoolInvAlways == Spec => []PoolInv
  <1>1. Init => PoolInv /\ IdleUnlogged
    BY DEF Init, PoolInv, IdleUnlogged, AuditTrail
  <1>2. TypeOK /\ PoolInv /\ IdleUnlogged /\ [Next]_vars => PoolInv' /\ IdleUnlogged'
    BY PoolInvStep
  <1> QED
    BY <1>1, <1>2, PoolTypeCorrect, PTL DEF Spec

\* Audit rows of changes outside transactions are true, and those of the
\* reviews complete.
THEOREM AuditTrailHolds == Spec => []AuditTrail
  BY PoolInvAlways, PTL DEF PoolInv
-----------------------------------------------------------------------------
\* A transaction is open from the moment it has its connection until the
\* handler returns.
OpenShape ==
    \A r \in Requests : change[r] = "open" => stage[r] \in {"body", "audit", "row", "return"}

LEMMA OpenShapeStep ==
    ASSUME TypeOK, PoolInv, OpenShape, [Next]_vars
    PROVE  OpenShape'
  <1> SUFFICES ASSUME NEW o \in Requests, change'[o] = "open"
               PROVE  stage'[o] \in {"body", "audit", "row", "return"}
    BY DEF OpenShape
  <1>1. change[o] = "open" => stage[o] \in {"body", "audit", "row", "return"}
    BY DEF OpenShape
  <1>2. CASE UNCHANGED vars
    BY <1>1, <1>2 DEF vars
  <1>3. ASSUME NEW r \in Requests, r # o,
               Start(r) \/ Continue(r) \/ TxTimeout(r) \/ Again(r)
        PROVE  stage'[o] \in {"body", "audit", "row", "return"}
    BY <1>1, <1>3, OthersStay
  <1>4. CASE Start(o) \/ Continue(o) \/ TxTimeout(o) \/ Again(o)
    <2> USE <1>1 DEF TypeOK, Go, Becomes, Ends
    <2>1. CASE Start(o) \/ Connect(o) \/ ConnectTimeout(o)
      BY <2>1 DEF Start, Connect, ConnectTimeout
    <2>2. CASE TakeRow(o) \/ Body(o) \/ BodyReturns(o) \/ BodyFails(o)
      BY <2>2 DEF TakeRow, Body, BodyReturns, BodyFails, Working
    <2>3. CASE AuditConnect(o) \/ AuditWritten(o)
      BY <2>3 DEF AuditConnect, AuditWritten
    \* Only a transaction is still open when its audit row fails, and it goes
    \* on to its return.
    <2>4. CASE AuditFails(o)
      BY <2>4 DEF AuditFails, PoolInv
    <2>5. CASE Return(o) \/ TxTimeout(o) \/ Again(o)
      BY <2>5 DEF Return, TxTimeout, Again
    <2> QED
      BY <1>4, <2>1, <2>2, <2>3, <2>4, <2>5 DEF Continue
  <1> QED
    BY <1>2, <1>3, <1>4 DEF Next

\* Rows are taken in ascending order, and given back when the change ends.
LEMMA InOrderStep ==
    ASSUME TypeOK, OpenShape, InOrder, [Next]_vars
    PROVE  InOrder'
  <1> SUFFICES ASSUME NEW o \in Requests
               PROVE  /\ held'[o] # {} => change'[o] = "open"
                      /\ \A row \in held'[o], later \in todo'[o] : row < later
    BY DEF InOrder
  <1>1. /\ held[o] # {} => change[o] = "open"
        /\ \A row \in held[o], later \in todo[o] : row < later
        /\ change[o] = "open" => stage[o] \in {"body", "audit", "row", "return"}
    BY DEF InOrder, OpenShape
  <1>2. CASE UNCHANGED vars
    BY <1>1, <1>2 DEF vars
  <1>3. ASSUME NEW r \in Requests, r # o,
               Start(r) \/ Continue(r) \/ TxTimeout(r) \/ Again(r)
        PROVE  /\ held'[o] # {} => change'[o] = "open"
               /\ \A row \in held'[o], later \in todo'[o] : row < later
    BY <1>1, <1>3, OthersStay
  <1>4. CASE Start(o) \/ Continue(o) \/ TxTimeout(o) \/ Again(o)
    <2> USE <1>1 DEF TypeOK, Go, Becomes, Ends
    \* Without an open change there are no rows to begin with.
    <2>1. CASE Start(o) \/ ConnectTimeout(o)
      BY <2>1 DEF Start, ConnectTimeout
    <2>2. CASE Connect(o)
      BY <2>2 DEF Connect
    <2>3. CASE TakeRow(o)
      <3>1. PICK row \in todo[o] :
                /\ IsNext(row, o)
                /\ todo' = [todo EXCEPT ![o] = @ \ {row}]
                /\ held' = [held EXCEPT ![o] = @ \cup {row}]
        BY <2>3 DEF TakeRow
      <3>2. \A later \in todo'[o] : row < later
        <4> SUFFICES ASSUME NEW later \in todo[o], later # row PROVE row < later
          BY <3>1
        <4> QED
          BY <3>1, RowNumbers DEF IsNext
      <3>3. \A old \in held[o], later \in todo'[o] : old < later
        BY <3>1
      <3>4. change'[o] = "open"
        BY <2>3 DEF TakeRow, Working
      <3>5. held'[o] = held[o] \cup {row}
        BY <3>1
      <3> QED
        BY <3>2, <3>3, <3>4, <3>5
    <2>4. CASE Body(o) \/ BodyReturns(o) \/ BodyFails(o)
      BY <2>4 DEF Body, BodyReturns, BodyFails, Working
    <2>5. CASE AuditConnect(o) \/ AuditWritten(o) \/ AuditFails(o)
      BY <2>5 DEF AuditConnect, AuditWritten, AuditFails
    <2>6. CASE Return(o) \/ TxTimeout(o)
      BY <2>6 DEF Return, TxTimeout
    <2>7. CASE Again(o)
      BY <2>7 DEF Again
    <2> QED
      BY <1>4, <2>1, <2>2, <2>3, <2>4, <2>5, <2>6, <2>7 DEF Continue
  <1> QED
    BY <1>2, <1>3, <1>4 DEF Next

LEMMA NoMoreThan ==
    ASSUME NEW S, NEW T, IsFiniteSet(S), T \subseteq S
    PROVE  Cardinality(T) \in Nat /\ Cardinality(T) <= Cardinality(S)
  BY FS_Subset, FS_CardinalityType

LEMMA GreatestElement ==
    ASSUME NEW S \in SUBSET Nat, IsFiniteSet(S), S # {}
    PROVE  \E top \in S : \A x \in S : x <= top
  <1> DEFINE Above(m) == {x \in S : m < x}
             T == {Above(m) : m \in S}
  <1>1. T \subseteq FiniteSubsetsOf(S)
    <2> SUFFICES ASSUME NEW m \in S PROVE Above(m) \in FiniteSubsetsOf(S)
      OBVIOUS
    <2>1. Above(m) \subseteq S
      OBVIOUS
    <2> QED
      BY <2>1, FS_Subset DEF FiniteSubsetsOf
  <1>2. \E a \in T : \A b \in T : ~ (<<b, a>> \in StrictSubsetOrdering(S))
    <2> HIDE DEF T
    <2>1. T # {}
      BY DEF T
    <2> QED
      BY <1>1, <2>1, FS_StrictSubsetOrderingWellFounded, WFMin
  <1>3. PICK m \in S : \A b \in T : ~ (<<b, Above(m)>> \in StrictSubsetOrdering(S))
    BY <1>2
  <1>4. ASSUME NEW x \in S, m < x PROVE FALSE
    <2>1. Above(x) \subseteq Above(m) /\ x \in Above(m) /\ x \notin Above(x)
      <3>1. m \in Nat /\ x \in Nat /\ ~(x < x)
        OBVIOUS
      <3>2. ASSUME NEW y \in S, x < y PROVE m < y
        <4>1. y \in Nat
          OBVIOUS
        <4> QED
          BY <1>4, <3>1, <3>2, <4>1
      <3> QED
        BY <1>4, <3>1, <3>2
    <2>2. <<Above(x), Above(m)>> \in StrictSubsetOrdering(S)
      BY <2>1 DEF StrictSubsetOrdering
    <2> QED
      BY <1>3, <2>2
  <1> QED
    BY <1>3, <1>4

\* Who waits for a row has it yet to lock, so another change has it locked.
LEMMA BlockedContend ==
    ASSUME TypeOK, InOrder, NEW r \in Requests, Blocked(r)
    PROVE  r \in Contending
  <1>1. PICK row \in todo[r], o \in Requests : row \in held[o]
    BY DEF Blocked, Locked
  <1>2. row \in Nat
    BY RowNumbers DEF TypeOK
  <1>3. o # r
    BY <1>1, <1>2 DEF InOrder
  <1>4. row \in Writes(r) \cap Writes(o)
    BY <1>1 DEF Writes
  <1> QED
    BY <1>3, <1>4 DEF Contending

\* Not every open change waits for a row: the one with the highest of all rows
\* that are locked would wait for a higher one.
LEMMA SomebodyUnblocked ==
    ASSUME TypeOK, InOrder, Open # {}
    PROVE  \E r \in Open : ~Blocked(r)
  <1> SUFFICES ASSUME \A r \in Open : Blocked(r) PROVE FALSE
    OBVIOUS
  <1> DEFINE AllLocked == {row \in Rows : Locked(row)}
  <1>1. \A r \in Open : \E row \in todo[r] : row \in AllLocked
    BY DEF Blocked, TypeOK, Open
  <1>2. AllLocked \in SUBSET Nat /\ AllLocked # {} /\ IsFiniteSet(AllLocked)
    BY <1>1, RowNumbers, FS_Subset
  <1>3. PICK top \in AllLocked : \A row \in AllLocked : row <= top
    <2> HIDE DEF AllLocked
    <2> QED
      BY <1>2, GreatestElement
  <1>4. PICK o \in Requests : top \in held[o]
    BY DEF Locked
  <1>5. o \in Open
    BY <1>4 DEF InOrder, Open
  <1>6. PICK row \in todo[o] : row \in AllLocked
    BY <1>1, <1>5
  <1>7. top < row /\ row <= top /\ top \in Nat /\ row \in Nat
    BY <1>2, <1>3, <1>4, <1>6 DEF InOrder
  <1> QED
    BY <1>7

\* An exhausted pool always has a holder that waits for nobody, provided that no
\* transaction audits from within, or that those that do and the requests that
\* write the same rows as another are fewer than the connections.
THEOREM RoomyPoolGoesOn == Spec => []HoldersGoOn
  <1>1. TypeOK /\ PoolInv /\ OpenShape /\ InOrder => HoldersGoOn
    <2> SUFFICES ASSUME TypeOK, PoolInv, OpenShape, InOrder, Taken = Pool,
                        \A r \in Open \cup Inserting :
                            stage[r] \in {"body", "row", "return"} => Blocked(r)
                 PROVE  /\ InTransaction # {}
                        /\ ~(Cardinality(InTransaction \cup Contending) < Pool)
      BY DEF HoldersGoOn
    <2>1. Inserting = {}
      BY DEF Inserting, Blocked, Working
    <2>2. \A r \in Open : Blocked(r) \/ r \in InTransaction
      <3> SUFFICES ASSUME NEW r \in Open, ~Blocked(r) PROVE r \in InTransaction
        OBVIOUS
      <3>1. stage[r] = "audit" /\ change[r] = "open" /\ r \in Requests
        BY DEF Open, OpenShape
      <3> QED
        BY <3>1 DEF PoolInv, InTransaction
    <2>3. Open \subseteq InTransaction \cup Contending
      BY <2>2, BlockedContend DEF Open
    <2>4. IsFiniteSet(InTransaction \cup Contending)
      <3>1. InTransaction \cup Contending \subseteq Requests
        BY DEF InTransaction, Contending
      <3> QED
        BY <3>1, FiniteHandlers, FS_Subset
    <2>5. Cardinality(Inserting) = 0
      BY <2>1, FS_EmptySet
    <2>6. /\ Cardinality(Open) \in Nat
          /\ Cardinality(Open) <= Cardinality(InTransaction \cup Contending)
          /\ Cardinality(InTransaction \cup Contending) \in Nat
      BY <2>3, <2>4, NoMoreThan, FS_CardinalityType
    <2>7. Cardinality(Open) = Pool
      BY <2>5, <2>6 DEF Taken
    <2>8. Open # {}
      BY <2>7, FS_EmptySet, SomeConnections
    <2>9. InTransaction # {}
      BY <2>2, <2>8, SomebodyUnblocked
    <2> QED
      BY <2>6, <2>7, <2>9, SomeConnections
  <1>2. Init => OpenShape /\ InOrder
    BY DEF Init, OpenShape, InOrder
  <1> QED
    BY <1>1, <1>2, OpenShapeStep, InOrderStep, PoolInvAlways, PoolTypeCorrect, PTL DEF Spec
=============================================================================
