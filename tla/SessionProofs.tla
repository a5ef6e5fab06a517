--------------------------- MODULE SessionProofs ---------------------------
(***************************************************************************)
(* Theorems about Session, for every number of handlers, tokens and        *)
(* secrets, every lockout threshold and both sorts of role.                *)
(***************************************************************************)
EXTENDS Session, FiniteSetTheorems, TLAPS

\* What a handler's op says about its record.
LEMMA SessionReqShape ==
    ASSUME NEW t \in ReqState
    PROVE  /\ t.op = "fail" => t \in FailReq
           /\ t.op = "reset" => t \in ResetReq
           /\ t.op = "issue" => t \in IssueReq
  BY DEF ReqState, Idle, PlainReq, FailReq, ResetReq, IssueReq

\* The handlers that hold a token are finitely many, and one that stops
\* holding it makes them one less.
LEMMA HoldersCount ==
    ASSUME NEW t \in Tokens
    PROVE  /\ IsFiniteSet(Holding(t)) /\ Cardinality(Holding(t)) \in Nat
           /\ Cardinality(Holding(t)) <= Cardinality(Requests)
           /\ Cardinality(Requests) \in Nat
           /\ \A r \in Holding(t) : Cardinality(Holding(t) \ {r}) = Cardinality(Holding(t)) - 1
  <1>1. Holding(t) \subseteq Requests
    BY DEF Holding
  <1>2. IsFiniteSet(Holding(t)) /\ Cardinality(Holding(t)) <= Cardinality(Requests)
    BY <1>1, FiniteHandlers, FS_Subset
  <1>3. Cardinality(Holding(t)) \in Nat /\ Cardinality(Requests) \in Nat
    BY <1>2, FiniteHandlers, FS_CardinalityType
  <1>4. \A r \in Holding(t) : Cardinality(Holding(t) \ {r}) = Cardinality(Holding(t)) - 1
    BY <1>2, FS_RemoveElement
  <1> QED
    BY <1>2, <1>3, <1>4

LEMMA SessionTypeStep == TypeOK /\ [Next]_vars => TypeOK'
  <1> SUFFICES ASSUME TypeOK, [Next]_vars PROVE TypeOK'
    OBVIOUS
  <1> USE DEF TypeOK
  <1>1. ASSUME NEW r \in Requests, RegisterRead(r) PROVE TypeOK'
    BY <1>1 DEF RegisterRead, Become, row, ReqState, PlainReq
  <1>2. ASSUME NEW r \in Requests, VerifyMfa(r) PROVE TypeOK'
    BY <1>2 DEF VerifyMfa, Become, row, ReqState, IssueReq, Kinds
  <1>3. ASSUME NEW r \in Requests, NEW right \in BOOLEAN, LoginRead(r, right)
        PROVE  TypeOK'
    BY <1>3 DEF LoginRead, Become, row, ReqState, ResetReq, FailReq
  <1>4. ASSUME NEW r \in Requests, Refresh(r) PROVE TypeOK'
    BY <1>4 DEF Refresh, Become, row, ReqState, IssueReq, Kinds, Unproved
  <1>5. ASSUME NEW r \in Requests, RefreshMismatch(r) PROVE TypeOK'
    BY <1>5 DEF RefreshMismatch, Become, row, ReqState, PlainReq
  <1>6. ASSUME NEW r \in Requests, SetupRead(r) PROVE TypeOK'
    BY <1>6 DEF SetupRead, Become, row, ReqState, PlainReq
  <1>7. ASSUME NEW r \in Requests, ConfirmRead(r) PROVE TypeOK'
    BY <1>7 DEF ConfirmRead, Become, row, ReqState, PlainReq
  <1>8. ASSUME NEW r \in Requests, RegisterInsert(r) PROVE TypeOK'
    BY <1>8 DEF RegisterInsert, Become, ReqState
  <1>9. ASSUME NEW r \in Requests, LoginFail(r) PROVE TypeOK'
    <2>1. req[r].attempts \in 0 .. MaxFailures
      BY <1>9, SessionReqShape DEF LoginFail, FailReq
    <2> QED
      BY <1>9, <2>1, Lockable DEF LoginFail, Become, ReqState
  <1>10. ASSUME NEW r \in Requests, LoginReset(r) PROVE TypeOK'
    <2>1. req[r].enabled \in BOOLEAN
      BY <1>10, SessionReqShape DEF LoginReset, ResetReq
    <2>2. [op |-> "issue", kind |-> "plain", token |-> NoToken] \in IssueReq
      BY DEF IssueReq, Kinds
    <2>3. req' \in [Requests -> ReqState] /\ access' \subseteq Kinds
      BY <1>10, <2>1, <2>2 DEF LoginReset, Become, ReqState, Kinds, Unproved
    <2>4. UNCHANGED <<account, enabled, secret, hash, uses>>
            /\ attempts' = 0 /\ locked' = FALSE
      BY <1>10, <2>1 DEF LoginReset, Become, Unproved
    <2>5. attempts' \in 0 .. MaxFailures
      BY <2>4, Lockable
    <2> QED
      BY <2>3, <2>4, <2>5
  <1>11. ASSUME NEW r \in Requests, IssuePair(r) PROVE TypeOK'
    <2>1. req[r].kind \in Kinds
      BY <1>11, SessionReqShape DEF IssuePair, IssueReq
    <2> QED
      BY <1>11, <2>1 DEF IssuePair, Become, ReqState, Unused
  <1>12. ASSUME NEW r \in Requests, EndSession(r) PROVE TypeOK'
    BY <1>12 DEF EndSession, Become, ReqState
  <1>13. ASSUME NEW r \in Requests, SetupWrite(r) PROVE TypeOK'
    BY <1>13 DEF SetupWrite, Become, ReqState
  <1>14. ASSUME NEW r \in Requests, ConfirmWrite(r) PROVE TypeOK'
    BY <1>14 DEF ConfirmWrite, Become, ReqState
  <1>15. ASSUME NEW r \in Requests, Lost(r) PROVE TypeOK'
    BY <1>15 DEF Lost, Become, row, ReqState
  <1>16. CASE Logout \/ Deactivate \/ Unlock
    BY <1>16 DEF Logout, Deactivate, Unlock
  <1>17. ASSUME NEW kind \in Kinds, Expire(kind) PROVE TypeOK'
    BY <1>17 DEF Expire, row
  <1>18. CASE UNCHANGED vars
    BY <1>18 DEF vars
  <1> QED
    BY <1>1, <1>2, <1>3, <1>4, <1>5, <1>6, <1>7, <1>8, <1>9, <1>10, <1>11,
       <1>12, <1>13, <1>14, <1>15, <1>16, <1>17, <1>18 DEF Next, Continue

\* The row, the tokens and what handlers carry keep their types: in
\* particular the lockout counter and the claims of a token.
THEOREM SessionTypeCorrect == Spec => []TypeOK
  <1>1. Init => TypeOK
    <2> SUFFICES ASSUME Init PROVE TypeOK
      OBVIOUS
    <2>1. attempts \in 0 .. MaxFailures
      BY Lockable DEF Init
    <2>2. req \in [Requests -> ReqState] /\ uses \in [Tokens -> Nat]
      BY DEF Init, ReqState
    <2> QED
      BY <2>1, <2>2 DEF Init, TypeOK
  <1> QED
    BY <1>1, SessionTypeStep, PTL DEF Spec

-----------------------------------------------------------------------------
\* A step that gives no handler a token and replaces the current one by none,
\* if at all, cannot break the bound.
LEMMA NoNewHolder ==
    ASSUME TypeOK, RotationInv, NEW r \in Requests,
           \A o \in Requests \ {r} : req'[o] = req[o], req'[r].op # "issue",
           hash' \in {hash, NoToken}, UNCHANGED uses
    PROVE  RotationInv'
  <1>1. ASSUME NEW t \in Tokens
        PROVE  uses'[t] + Cardinality(Holding(t)') <= Cardinality(Requests)
    <2>1. Holding(t)' = Holding(t) \ {r}
      BY DEF TypeOK, Holding
    <2>2. CASE r \in Holding(t)
      BY <2>1, <2>2, HoldersCount DEF RotationInv, RotationBounded, TypeOK
    <2>3. CASE r \notin Holding(t)
      <3>1. Holding(t)' = Holding(t)
        BY <2>1, <2>3
      <3> QED
        BY <3>1 DEF RotationInv, RotationBounded
    <2> QED
      BY <2>2, <2>3
  <1>2. ASSUME NEW t \in Tokens, t = hash' PROVE uses'[t] = 0
    BY <1>2, TokensAreNumbers DEF RotationInv
  <1> QED
    BY <1>1, <1>2 DEF RotationInv, RotationBounded

\* As before, when no handler moves.
LEMMA NobodyMoves ==
    ASSUME TypeOK, RotationInv, hash' \in {hash, NoToken}, UNCHANGED <<uses, req>>
    PROVE  RotationInv'
  <1>1. ASSUME NEW t \in Tokens PROVE Holding(t)' = Holding(t)
    BY DEF Holding
  <1>2. ASSUME NEW t \in Tokens, t = hash' PROVE uses'[t] = 0
    BY <1>2, TokensAreNumbers DEF RotationInv
  <1> QED
    BY <1>1, <1>2 DEF RotationInv, RotationBounded

\* A handler that was idle starts to issue a pair, with the current token or
\* with none.
LEMMA NewHolder ==
    ASSUME TypeOK, RotationInv, NEW r \in Requests, req[r].op # "issue",
           \A o \in Requests \ {r} : req'[o] = req[o],
           req'[r].token \in {hash, NoToken},
           UNCHANGED <<hash, uses>>
    PROVE  RotationInv'
  <1>1. ASSUME NEW t \in Tokens
        PROVE  uses[t] + Cardinality(Holding(t)') <= Cardinality(Requests)
    <2>1. CASE t = hash
      <3>1. Holding(t)' \subseteq Requests
        BY DEF Holding
      <3>2. IsFiniteSet(Holding(t)') /\ Cardinality(Holding(t)') <= Cardinality(Requests)
        BY <3>1, FiniteHandlers, FS_Subset
      <3>3. Cardinality(Holding(t)') \in Nat
        BY <3>2, FS_CardinalityType
      <3> QED
        BY <2>1, <3>2, <3>3 DEF RotationInv
    <2>2. CASE t # hash
      <3>1. Holding(t)' = Holding(t)
        BY <2>2, TokensAreNumbers DEF TypeOK, Holding
      <3> QED
        BY <3>1 DEF RotationInv, RotationBounded
    <2> QED
      BY <2>1, <2>2
  <1> QED
    BY <1>1 DEF RotationInv, RotationBounded

LEMMA RotationIssue ==
    ASSUME TypeOK, RotationInv, NEW r \in Requests, IssuePair(r)
    PROVE  RotationInv'
  <1>1. PICK new \in Unused :
            /\ hash' = new
            /\ uses' = [t \in Tokens |->
                    IF Holding(t) \ {r} = {} THEN 0
                    ELSE IF t = req[r].token THEN uses[t] + 1 ELSE uses[t]]
    BY DEF IssuePair
  <1>2. ASSUME NEW t \in Tokens PROVE Holding(t)' = Holding(t) \ {r}
    BY DEF IssuePair, Become, TypeOK, Holding, Idle
  <1>3. ASSUME NEW t \in Tokens
        PROVE  uses'[t] + Cardinality(Holding(t)') <= Cardinality(Requests)
    <2>1. CASE Holding(t) \ {r} = {}
      <3>1. uses'[t] = 0 /\ Cardinality(Holding(t)') = 0
        BY <1>1, <1>2, <2>1, FS_EmptySet
      <3> QED
        BY <3>1, HoldersCount
    <2>2. CASE Holding(t) \ {r} # {} /\ t = req[r].token
      <3>1. r \in Holding(t)
        BY <2>2 DEF IssuePair, Holding
      <3>2. uses'[t] = uses[t] + 1 /\ Cardinality(Holding(t)') = Cardinality(Holding(t)) - 1
        BY <1>1, <1>2, <2>2, <3>1, HoldersCount
      <3> QED
        BY <3>2, HoldersCount DEF RotationInv, RotationBounded, TypeOK
    <2>3. CASE Holding(t) \ {r} # {} /\ t # req[r].token
      <3>1. Holding(t)' = Holding(t)
        BY <1>2, <2>3 DEF Holding
      <3> QED
        BY <1>1, <2>3, <3>1 DEF RotationInv, RotationBounded
    <2> QED
      BY <2>1, <2>2, <2>3
  <1>4. uses'[new] = 0
    BY <1>1 DEF Unused
  <1> QED
    BY <1>1, <1>3, <1>4 DEF RotationInv, RotationBounded

LEMMA RotationStep == TypeOK /\ RotationInv /\ [Next]_vars => RotationInv'
  <1> SUFFICES ASSUME TypeOK, RotationInv, [Next]_vars PROVE RotationInv'
    OBVIOUS
  <1>1. ASSUME NEW r \in Requests, VerifyMfa(r) \/ Refresh(r) PROVE RotationInv'
    <2>1. /\ req[r].op # "issue" /\ req'[r].token \in {hash, NoToken}
          /\ \A o \in Requests \ {r} : req'[o] = req[o]
          /\ UNCHANGED <<hash, uses>>
      BY <1>1 DEF VerifyMfa, Refresh, Become, row, Idle, TypeOK
    <2> QED
      BY <2>1, NewHolder
  <1>2. ASSUME NEW r \in Requests, LoginReset(r) PROVE RotationInv'
    <2>1. req[r].enabled \in BOOLEAN
      BY <1>2, SessionReqShape DEF LoginReset, ResetReq, TypeOK
    <2>2. /\ req[r].op = "reset" /\ UNCHANGED <<hash, uses>>
          /\ \A o \in Requests \ {r} : req'[o] = req[o]
      BY <1>2, <2>1 DEF LoginReset, Become, Unproved, TypeOK
    <2>3. req'[r].op # "issue" \/ req'[r].token = NoToken
      BY <1>2, <2>1 DEF LoginReset, Become, Idle, Unproved, TypeOK
    <2> QED
      BY <2>2, <2>3, NewHolder, NoNewHolder
  <1>3. ASSUME NEW r \in Requests,
               \/ \E right \in BOOLEAN : LoginRead(r, right)
               \/ RegisterRead(r) \/ RefreshMismatch(r)
               \/ SetupRead(r) \/ ConfirmRead(r)
        PROVE  RotationInv'
    <2>1. /\ req'[r].op # "issue" /\ UNCHANGED <<hash, uses>>
          /\ \A o \in Requests \ {r} : req'[o] = req[o]
      BY <1>3 DEF LoginRead, RegisterRead, RefreshMismatch, SetupRead,
                  ConfirmRead, Become, row, TypeOK
    <2> QED
      BY <2>1, NoNewHolder
  <1>4. ASSUME NEW r \in Requests,
               \/ RegisterInsert(r) \/ LoginFail(r) \/ EndSession(r)
               \/ SetupWrite(r) \/ ConfirmWrite(r) \/ Lost(r)
        PROVE  RotationInv'
    <2>1. /\ req'[r].op # "issue" /\ hash' \in {hash, NoToken} /\ UNCHANGED uses
          /\ \A o \in Requests \ {r} : req'[o] = req[o]
      BY <1>4 DEF RegisterInsert, LoginFail, EndSession, SetupWrite, ConfirmWrite,
                  Lost, Become, row, TypeOK, Idle
    <2> QED
      BY <2>1, NoNewHolder
  <1>5. CASE \/ Logout \/ Deactivate \/ Unlock \/ UNCHANGED vars
             \/ \E kind \in Kinds : Expire(kind)
    BY <1>5, NobodyMoves DEF Logout, Deactivate, Unlock, Expire, row, vars
  <1> QED
    BY <1>1, <1>2, <1>3, <1>4, <1>5, RotationIssue DEF Next, Continue

\* A refresh token buys at most as many pairs as there are handlers to hold
\* it at one moment, for any number of them; one when requests do not overlap.
THEOREM RotationIsBounded == Spec => []RotationBounded
  <1>1. Init => RotationInv
    <2> SUFFICES ASSUME Init PROVE RotationInv
      OBVIOUS
    <2>1. ASSUME NEW t \in Tokens PROVE Holding(t) = {}
      BY DEF Init, Holding, Idle
    <2> QED
      BY <2>1, FiniteHandlers, FS_EmptySet, FS_CardinalityType
         DEF Init, RotationInv, RotationBounded
  <1>2. RotationInv => RotationBounded
    BY DEF RotationInv
  <1> QED
    BY <1>1, <1>2, RotationStep, SessionTypeCorrect, PTL DEF Spec

-----------------------------------------------------------------------------
LEMMA ClaimsStep == TypeOK /\ ClaimsInv /\ [Next]_vars => ClaimsInv'
  <1> SUFFICES ASSUME TypeOK, ClaimsInv, [Next]_vars PROVE ClaimsInv'
    OBVIOUS
  <1> USE DEF ClaimsInv, ClaimsHold, TypeOK
  <1>1. ASSUME NEW r \in Requests,
               \/ RegisterRead(r) \/ VerifyMfa(r) \/ Refresh(r)
               \/ RefreshMismatch(r) \/ SetupRead(r) \/ ConfirmRead(r)
        PROVE  ClaimsInv'
    BY <1>1 DEF RegisterRead, VerifyMfa, Refresh, RefreshMismatch, SetupRead,
                ConfirmRead, Unproved, Become, row
  <1>2. ASSUME NEW r \in Requests, NEW right \in BOOLEAN, LoginRead(r, right)
        PROVE  ClaimsInv'
    BY <1>2 DEF LoginRead, Become, row
  <1>3. ASSUME NEW r \in Requests,
               \/ RegisterInsert(r) \/ LoginFail(r) \/ EndSession(r) \/ Lost(r)
        PROVE  ClaimsInv'
    BY <1>3 DEF RegisterInsert, LoginFail, EndSession, Lost, Become, row, Idle
  <1>4. ASSUME NEW r \in Requests, LoginReset(r) PROVE ClaimsInv'
    BY <1>4 DEF LoginReset, Unproved, Become, Idle
  <1>5. ASSUME NEW r \in Requests, IssuePair(r) PROVE ClaimsInv'
    BY <1>5 DEF IssuePair, Become, Idle
  <1>6. ASSUME NEW r \in Requests, SetupWrite(r) PROVE ClaimsInv'
    BY <1>6, NoneIsNoSecret DEF SetupWrite, Become, Idle
  <1>7. ASSUME NEW r \in Requests, ConfirmWrite(r) PROVE ClaimsInv'
    BY <1>7 DEF ConfirmWrite, Become, Idle
  <1>8. CASE Logout \/ Deactivate \/ Unlock \/ UNCHANGED vars
    BY <1>8 DEF Logout, Deactivate, Unlock, vars
  <1>9. ASSUME NEW kind \in Kinds, Expire(kind) PROVE ClaimsInv'
    BY <1>9 DEF Expire, row
  <1> QED
    BY <1>1, <1>2, <1>3, <1>4, <1>5, <1>6, <1>7, <1>8, <1>9 DEF Next, Continue

\* What tokens say of MFA is true of the row, and MFA that is on has a secret,
\* however set-ups, confirmations, logins and refreshes overlap.
THEOREM ClaimsAlwaysHold == Spec => []ClaimsHold
  <1>1. Init => ClaimsInv
    BY DEF Init, ClaimsInv, ClaimsHold, Idle
  <1>2. ClaimsInv => ClaimsHold
    BY DEF ClaimsInv
  <1> QED
    BY <1>1, <1>2, ClaimsStep, SessionTypeCorrect, PTL DEF Spec
-----------------------------------------------------------------------------
(***************************************************************************)
(* What the three liveness properties say is for good: the states they     *)
(* lead to are never left.  That those states are reached depends on       *)
(* fairness and is checked by TLC only.                                    *)
(***************************************************************************)

\* A deactivated account without tokens, and no handler about to issue one.
Drained ==
    /\ account = "INACTIVE" /\ access = {}
    /\ \A r \in Requests : req[r].op \notin {"reset", "issue"}

\* MFA is on, and whoever is let in has proved it.
Proved ==
    /\ enabled /\ "plain" \notin access
    /\ \A r \in Requests :
        /\ req[r].op = "issue" => req[r].kind # "plain"
        /\ req[r].op = "reset" => req[r].enabled

\* MFA is on, and no set-up is going on that was let in before.
Settled == enabled /\ \A r \in Requests : req[r].op # "setup"

LEMMA DrainedStep == TypeOK /\ Drained /\ [Next]_vars => Drained'
  <1> SUFFICES ASSUME TypeOK, Drained, [Next]_vars PROVE Drained'
    OBVIOUS
  <1> USE DEF Drained, TypeOK
  \* Every way in asks for an account that is ACTIVE, or for a token.
  <1>1. ASSUME NEW r \in Requests PROVE ~(\/ VerifyMfa(r) \/ Refresh(r) \/ RefreshMismatch(r)
                                         \/ SetupRead(r) \/ ConfirmRead(r)
                                         \/ \E right \in BOOLEAN : LoginRead(r, right)
                                         \/ LoginReset(r) \/ IssuePair(r))
    BY DEF VerifyMfa, Refresh, RefreshMismatch, SetupRead, ConfirmRead, Accepted, LoginRead,
           LoginReset, IssuePair
  <1>2. ASSUME NEW r \in Requests,
               \/ RegisterRead(r) \/ RegisterInsert(r) \/ LoginFail(r) \/ EndSession(r)
               \/ SetupWrite(r) \/ ConfirmWrite(r) \/ Lost(r)
        PROVE  Drained'
    BY <1>2 DEF RegisterRead, RegisterInsert, LoginFail, EndSession, SetupWrite,
                ConfirmWrite, Lost, Become, row, Idle, None
  <1>3. CASE Logout \/ Deactivate \/ Unlock \/ UNCHANGED vars
             \/ \E kind \in Kinds : Expire(kind)
    BY <1>3 DEF Logout, Deactivate, Unlock, Expire, row, vars
  <1> QED
    BY <1>1, <1>2, <1>3 DEF Next, Continue

LEMMA ProvedStep == TypeOK /\ Proved /\ [Next]_vars => Proved'
  <1> SUFFICES ASSUME TypeOK, Proved, [Next]_vars PROVE Proved'
    OBVIOUS
  <1> USE DEF Proved, TypeOK
  <1>1. ASSUME NEW r \in Requests, RegisterRead(r) PROVE Proved'
    BY <1>1 DEF RegisterRead, Become, row
  <1>2. ASSUME NEW r \in Requests, VerifyMfa(r) PROVE Proved'
    BY <1>2 DEF VerifyMfa, Become, row
  <1>3. ASSUME NEW r \in Requests, Refresh(r) PROVE Proved'
    BY <1>3 DEF Refresh, Unproved, Become, row
  <1>4. ASSUME NEW r \in Requests, RefreshMismatch(r) PROVE Proved'
    BY <1>4 DEF RefreshMismatch, Become, row
  <1>5. ASSUME NEW r \in Requests, SetupRead(r) PROVE Proved'
    BY <1>5 DEF SetupRead, Become, row
  <1>6. ASSUME NEW r \in Requests, ConfirmRead(r) PROVE Proved'
    BY <1>6 DEF ConfirmRead, Become, row
  <1>7. ASSUME NEW r \in Requests, RegisterInsert(r) PROVE Proved'
    BY <1>7 DEF RegisterInsert, Become, Idle
  <1>8. ASSUME NEW r \in Requests, LoginFail(r) PROVE Proved'
    BY <1>8 DEF LoginFail, Become, Idle
  <1>9. ASSUME NEW r \in Requests, EndSession(r) PROVE Proved'
    BY <1>9 DEF EndSession, Become, Idle
  <1>10. ASSUME NEW r \in Requests, SetupWrite(r) PROVE Proved'
    BY <1>10 DEF SetupWrite, Become, Idle
  <1>11. ASSUME NEW r \in Requests, ConfirmWrite(r) PROVE Proved'
    BY <1>11 DEF ConfirmWrite, Become, Idle
  <1>12. ASSUME NEW r \in Requests, Lost(r) PROVE Proved'
    BY <1>12 DEF Lost, Become, row, Idle
  <1>13. ASSUME NEW r \in Requests, IssuePair(r) PROVE Proved'
    BY <1>13 DEF IssuePair, Become, Idle
  <1>14. ASSUME NEW r \in Requests, NEW right \in BOOLEAN, LoginRead(r, right)
        PROVE  Proved'
    BY <1>14 DEF LoginRead, Become, row
  <1>15. ASSUME NEW r \in Requests, LoginReset(r) PROVE Proved'
    <2>1. req[r].enabled
      BY <1>15 DEF LoginReset
    <2>2. /\ req' = [req EXCEPT ![r] = Idle] /\ access' = access \cup {"pending"}
          /\ enabled' = enabled
      BY <1>15, <2>1 DEF LoginReset, Become
    <2> QED
      BY <2>2 DEF Idle
  <1>16. CASE Logout \/ Deactivate \/ Unlock \/ UNCHANGED vars
    BY <1>16 DEF Logout, Deactivate, Unlock, vars
  <1>17. ASSUME NEW kind \in Kinds, Expire(kind) PROVE Proved'
    BY <1>17 DEF Expire, row
  <1> QED
    BY <1>1, <1>2, <1>3, <1>4, <1>5, <1>6, <1>7, <1>8, <1>9, <1>10,
       <1>11, <1>12, <1>13, <1>14, <1>15, <1>16, <1>17
       DEF Next, Continue

LEMMA SettledStep == TypeOK /\ Settled /\ [Next]_vars => (Settled' /\ secret' = secret)
  <1> SUFFICES ASSUME TypeOK, Settled, [Next]_vars PROVE (Settled' /\ secret' = secret)
    OBVIOUS
  <1> USE DEF Settled, TypeOK
  <1>1. ASSUME NEW r \in Requests PROVE ~(SetupRead(r) \/ SetupWrite(r))
    BY DEF SetupRead, SetupWrite
  <1>2. ASSUME NEW r \in Requests, RegisterRead(r) PROVE (Settled' /\ secret' = secret)
    BY <1>2 DEF RegisterRead, Become, row
  <1>3. ASSUME NEW r \in Requests, VerifyMfa(r) PROVE (Settled' /\ secret' = secret)
    BY <1>3 DEF VerifyMfa, Become, row
  <1>4. ASSUME NEW r \in Requests, Refresh(r) PROVE (Settled' /\ secret' = secret)
    BY <1>4 DEF Refresh, Become, row
  <1>5. ASSUME NEW r \in Requests, RefreshMismatch(r) PROVE (Settled' /\ secret' = secret)
    BY <1>5 DEF RefreshMismatch, Become, row
  <1>6. ASSUME NEW r \in Requests, ConfirmRead(r) PROVE (Settled' /\ secret' = secret)
    BY <1>6 DEF ConfirmRead, Become, row
  <1>7. ASSUME NEW r \in Requests, RegisterInsert(r) PROVE (Settled' /\ secret' = secret)
    BY <1>7 DEF RegisterInsert, Become, Idle
  <1>8. ASSUME NEW r \in Requests, LoginFail(r) PROVE (Settled' /\ secret' = secret)
    BY <1>8 DEF LoginFail, Become, Idle
  <1>9. ASSUME NEW r \in Requests, EndSession(r) PROVE (Settled' /\ secret' = secret)
    BY <1>9 DEF EndSession, Become, Idle
  <1>10. ASSUME NEW r \in Requests, ConfirmWrite(r) PROVE (Settled' /\ secret' = secret)
    BY <1>10 DEF ConfirmWrite, Become, Idle
  <1>11. ASSUME NEW r \in Requests, Lost(r) PROVE (Settled' /\ secret' = secret)
    BY <1>11 DEF Lost, Become, row, Idle
  <1>12. ASSUME NEW r \in Requests, IssuePair(r) PROVE (Settled' /\ secret' = secret)
    BY <1>12 DEF IssuePair, Become, Idle
  <1>13. ASSUME NEW r \in Requests, NEW right \in BOOLEAN, LoginRead(r, right)
        PROVE  (Settled' /\ secret' = secret)
    BY <1>13 DEF LoginRead, Become, row
  <1>14. ASSUME NEW r \in Requests, LoginReset(r) PROVE (Settled' /\ secret' = secret)
    <2>1. PICK state : req' = [req EXCEPT ![r] = state] /\ state.op # "setup"
      BY <1>14 DEF LoginReset, Become, Idle
    <2> QED
      BY <1>14, <2>1 DEF LoginReset
  <1>15. CASE Logout \/ Deactivate \/ Unlock \/ UNCHANGED vars
    BY <1>15 DEF Logout, Deactivate, Unlock, vars
  <1>16. ASSUME NEW kind \in Kinds, Expire(kind) PROVE (Settled' /\ secret' = secret)
    BY <1>16 DEF Expire, row
  <1> QED
    BY <1>1, <1>2, <1>3, <1>4, <1>5, <1>6, <1>7, <1>8, <1>9, <1>10,
       <1>11, <1>12, <1>13, <1>14, <1>15, <1>16
       DEF Next, Continue

\* A deactivated account that has lost its last token while no handler is
\* about to sign one never gets another: softDelete ends no session, but login
\* and refresh look for accounts that are not deleted, and verifyMfa asks for a
\* pending token.
THEOREM DrainedForGood == Spec => [](Drained => [](access = {}))
  <1>1. Drained => access = {}
    BY DEF Drained
  <1> QED
    BY <1>1, DrainedStep, SessionTypeCorrect, PTL DEF Spec

\* Once MFA is on and the last token from before it has expired, nobody gets in
\* without a code, whichever logins and refreshes overlap.
THEOREM ProvedForGood == MfaRole => (Spec => [](Proved => [](Accepted \subseteq {"verified"})))
  <1> SUFFICES ASSUME MfaRole PROVE Spec => [](Proved => [](Accepted \subseteq {"verified"}))
    OBVIOUS
  <1>1. TypeOK /\ Proved => Accepted \subseteq {"verified"}
    BY DEF TypeOK, Proved, Accepted, Kinds
  <1> QED
    BY <1>1, ProvedStep, SessionTypeCorrect, PTL DEF Spec

\* Once MFA is on and the last set-up from before it has ended, the secret
\* never changes: the authenticator that works then goes on working.
THEOREM SecretFixedForGood ==
    ASSUME NEW s \in Secrets
    PROVE  Spec => [](Settled /\ secret = s => [](secret = s))
  <1>1. TypeOK /\ (Settled /\ secret = s) /\ [Next]_vars => (Settled /\ secret = s)'
    BY SettledStep
  <1> QED
    BY <1>1, SessionTypeCorrect, PTL DEF Spec
=============================================================================
