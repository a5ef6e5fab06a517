------------------------------- MODULE Session -------------------------------
(***************************************************************************)
(* One account and its sessions: registration, login with lockout, MFA,    *)
(* rotation of the refresh token, logout and deactivation                  *)
(* (auth.service.ts, jwt-auth.guard.ts and VolunteerRepository.softDelete). *)
(*                                                                         *)
(* No handler here uses a transaction: each reads the volunteer row, waits *)
(* for argon2 or the database, and updates the row by id with what it      *)
(* decided from what it had read.  A client may hold every token that was  *)
(* ever issued and know every password, right or wrong.                    *)
(*                                                                         *)
(* Access tokens are told apart by their two claims only, so `access' is   *)
(* the set of the kinds of which an unexpired one exists.  Refresh tokens  *)
(* are told apart as long as they matter: one that is neither the current  *)
(* one nor held by a handler is as good as any other wrong one, and its    *)
(* name can be given to a new one.                                         *)
(*                                                                         *)
(* Definitions marked "variant" are plausible mistakes and are used by no  *)
(* specification.                                                          *)
(***************************************************************************)
EXTENDS Naturals, FiniteSets

CONSTANTS
    Requests,       \* request handlers that can run at the same time
    Tokens,         \* refresh tokens, numbered
    Secrets,        \* TOTP secrets
    MaxFailures,    \* failed logins that lock the account: 5 in the code
    MfaRole         \* whether the account's role is in MFA_REQUIRED_ROLES

ASSUME FiniteHandlers == IsFiniteSet(Requests) /\ Requests # {}
ASSUME Lockable == MaxFailures \in Nat \ {0} /\ MfaRole \in BOOLEAN

None == "none"
ASSUME NoneIsNoSecret == None \notin Secrets

\* hash when refresh_token_hash is NULL
NoToken == 0
ASSUME TokensAreNumbers == Tokens \subseteq Nat \ {NoToken}

VARIABLES
    account,     \* status; INACTIVE goes with deleted_at, see Deactivate
    attempts,    \* failed_login_attempts, cut at MaxFailures
    locked,      \* locked_until is in the future
    enabled,     \* mfa_enabled
    secret,      \* mfa_secret
    hash,        \* the token refresh_token_hash was made from
    access,      \* kinds of unexpired access tokens
    uses,        \* history: pairs a refresh token was exchanged for, counted
                 \* as long as it is current or held
    req          \* what each handler is doing

vars == <<account, attempts, locked, enabled, secret, hash, access, uses, req>>
row == <<account, attempts, locked, enabled, secret, hash>>

\* plain: mfaEnabled = FALSE, mfaVerified = TRUE; pending: TRUE, FALSE;
\* verified: TRUE, TRUE.  The fourth combination is never signed.
Kinds == {"plain", "pending", "verified"}

Idle == [op |-> "idle"]
\* Set-ups, confirmations and sessions to end carry nothing they have read.
PlainReq == [op : {"register", "setup", "confirm", "kill"}]
FailReq == [op : {"fail"}, attempts : 0 .. MaxFailures]
ResetReq == [op : {"reset"}, enabled : BOOLEAN]
\* token: the refresh token the pair is exchanged for, if any
IssueReq == [op : {"issue"}, kind : Kinds, token : Tokens \cup {NoToken}]
ReqState == {Idle} \cup PlainReq \cup FailReq \cup ResetReq \cup IssueReq

\* The handlers that have accepted refresh token t and not yet replaced it.
Holding(t) == {r \in Requests : req[r].op = "issue" /\ req[r].token = t}

\* Numbers free for a new token, of which the smallest is taken.
Unused == {t \in Tokens : t # hash /\ Holding(t) = {}}

-----------------------------------------------------------------------------
Init ==
    /\ account = None
    /\ attempts = 0
    /\ locked = FALSE
    /\ enabled = FALSE
    /\ secret = None
    /\ hash = NoToken
    /\ access = {}
    /\ uses = [t \in Tokens |-> 0]
    /\ req = [r \in Requests |-> Idle]

Become(r, state) == req' = [req EXCEPT ![r] = state]

\* JwtAuthGuard: one of these tokens lets a request in.
Accepted == IF MfaRole THEN access \ {"pending"} ELSE access

\* register: no account with this address that is not deleted ...
RegisterRead(r) ==
    /\ req[r] = Idle
    /\ account # "ACTIVE"
    /\ Become(r, [op |-> "register"])
    /\ UNCHANGED <<row, access, uses>>
\* ... and the insert, which the unique e-mail refuses if there is a row,
\* deleted or not.
RegisterInsert(r) ==
    /\ req[r].op = "register"
    /\ account' = IF account = None THEN "ACTIVE" ELSE account
    /\ Become(r, Idle)
    /\ UNCHANGED <<attempts, locked, enabled, secret, hash, access, uses>>

\* login: the row is read and the password verified against it.
LoginRead(r, right) ==
    /\ req[r] = Idle
    /\ account = "ACTIVE"
    /\ ~locked
    /\ Become(r, IF right THEN [op |-> "reset", enabled |-> enabled]
                          ELSE [op |-> "fail", attempts |-> attempts])
    /\ UNCHANGED <<row, access, uses>>

\* variant: the counter starts anew with every failure
LoginFailOnce(r) ==
    /\ req[r].op = "fail"
    /\ attempts' = 1
    /\ locked' = (locked \/ 1 >= MaxFailures)
    /\ Become(r, Idle)
    /\ UNCHANGED <<account, enabled, secret, hash, access, uses>>
\* The counter is written from what was read before the password was checked.
LoginFail(r) ==
    /\ req[r].op = "fail"
    /\ LET count == req[r].attempts + 1
       IN  /\ attempts' = IF count > MaxFailures THEN MaxFailures ELSE count
           /\ locked' = (locked \/ count >= MaxFailures)
    /\ Become(r, Idle)
    /\ UNCHANGED <<account, enabled, secret, hash, access, uses>>

\* What a pair says of MFA when no code was asked for: mfaVerified is
\* !mfaEnabled, of the row as it was read.
\* variants: mfaEnabled is not looked at; mfaVerified is true only after a code
UnprovedAlways(mfaEnabled) == "plain"
UnprovedNever(mfaEnabled) == IF mfaEnabled THEN "pending" ELSE "neither"
Unproved(mfaEnabled) == IF mfaEnabled THEN "pending" ELSE "plain"

\* Login goes on: the counters are reset, and the answer is a pending token
\* or, after one more write, a pair.
LoginReset(r) ==
    /\ req[r].op = "reset"
    /\ attempts' = 0
    /\ locked' = FALSE
    /\ IF req[r].enabled
       THEN Become(r, Idle) /\ access' = access \cup {"pending"}
       ELSE /\ Become(r, [op |-> "issue", kind |-> Unproved(FALSE), token |-> NoToken])
            /\ UNCHANGED access
    /\ UNCHANGED <<account, enabled, secret, hash, uses>>

\* variant: a refresh leaves the refresh token as it is
IssueUnrotated(r) ==
    /\ req[r].op = "issue"
    /\ \E new \in Unused :
        /\ \A t \in Unused : new <= t
        /\ hash' = IF req[r].token = NoToken THEN new ELSE hash
        /\ uses' = [t \in Tokens |->
                IF Holding(t) \ {r} = {} /\ t # hash THEN 0
                ELSE IF t = req[r].token THEN uses[t] + 1 ELSE uses[t]]
    /\ access' = access \cup {req[r].kind}
    /\ Become(r, Idle)
    /\ UNCHANGED <<account, attempts, locked, enabled, secret>>
\* issueTokenPair's write of the hash of a new token, after argon2 has
\* computed it.
IssuePair(r) ==
    /\ req[r].op = "issue"
    /\ \E new \in Unused :
        /\ \A t \in Unused : new <= t
        /\ hash' = new
        /\ uses' = [t \in Tokens |->
                IF Holding(t) \ {r} = {} THEN 0
                ELSE IF t = req[r].token THEN uses[t] + 1 ELSE uses[t]]
    /\ access' = access \cup {req[r].kind}
    /\ Become(r, Idle)
    /\ UNCHANGED <<account, attempts, locked, enabled, secret>>

\* verifyMfa: a token without proof, and a code for the secret in the row.
\* Neither status nor deleted_at is looked at.
VerifyMfa(r) ==
    /\ req[r] = Idle
    /\ "pending" \in access
    /\ enabled /\ secret # None
    /\ Become(r, [op |-> "issue", kind |-> "verified", token |-> NoToken])
    /\ UNCHANGED <<row, access, uses>>

\* variant: finds deleted accounts too
RefreshDeleted(r) ==
    /\ req[r] = Idle
    /\ account # None /\ hash # NoToken
    /\ Become(r, [op |-> "issue", kind |-> Unproved(enabled), token |-> hash])
    /\ UNCHANGED <<row, access, uses>>
\* refreshTokens with the token whose hash is read.
Refresh(r) ==
    /\ req[r] = Idle
    /\ account = "ACTIVE" /\ hash # NoToken
    /\ Become(r, [op |-> "issue", kind |-> Unproved(enabled), token |-> hash])
    /\ UNCHANGED <<row, access, uses>>

\* refreshTokens with any other token ...
RefreshMismatch(r) ==
    /\ req[r] = Idle
    /\ account = "ACTIVE" /\ hash # NoToken
    /\ Become(r, [op |-> "kill"])
    /\ UNCHANGED <<row, access, uses>>
\* ... which ends the session, whichever it is by now.
EndSession(r) ==
    /\ req[r].op = "kill"
    /\ hash' = NoToken
    /\ Become(r, Idle)
    /\ UNCHANGED <<account, attempts, locked, enabled, secret, access, uses>>

\* logout: one update.
Logout ==
    /\ Accepted # {}
    /\ hash' = NoToken
    /\ UNCHANGED <<account, attempts, locked, enabled, secret, access, uses, req>>

\* variant: no check that MFA is off
SetupAnyTime(r) ==
    /\ req[r] = Idle
    /\ Accepted # {}
    /\ Become(r, [op |-> "setup"])
    /\ UNCHANGED <<row, access, uses>>
\* setupMfa: MFA is off ...
SetupRead(r) ==
    /\ req[r] = Idle
    /\ Accepted # {}
    /\ ~enabled
    /\ Become(r, [op |-> "setup"])
    /\ UNCHANGED <<row, access, uses>>
\* ... and the row gets a new secret, whatever it has become.
SetupWrite(r) ==
    /\ req[r].op = "setup"
    /\ \E s \in Secrets : secret' = s
    /\ Become(r, Idle)
    /\ UNCHANGED <<account, attempts, locked, enabled, hash, access, uses>>

\* variant: no check that a secret was set up
ConfirmUnset(r) ==
    /\ req[r] = Idle
    /\ Accepted # {}
    /\ ~enabled
    /\ Become(r, [op |-> "confirm"])
    /\ UNCHANGED <<row, access, uses>>
\* confirmMfaSetup, with a code for the secret it reads ...
ConfirmRead(r) ==
    /\ req[r] = Idle
    /\ Accepted # {}
    /\ secret # None /\ ~enabled
    /\ Become(r, [op |-> "confirm"])
    /\ UNCHANGED <<row, access, uses>>
\* ... enables MFA with the secret the row has by now.
ConfirmWrite(r) ==
    /\ req[r].op = "confirm"
    /\ enabled' = TRUE
    /\ Become(r, Idle)
    /\ UNCHANGED <<account, attempts, locked, secret, hash, access, uses>>

\* softDelete, by the volunteer or an administrator: the hash stays.
Deactivate ==
    /\ account # None
    /\ account' = "INACTIVE"
    /\ UNCHANGED <<attempts, locked, enabled, secret, hash, access, uses, req>>

\* Fifteen minutes pass ...
Unlock ==
    /\ locked
    /\ locked' = FALSE
    /\ UNCHANGED <<account, attempts, enabled, secret, hash, access, uses, req>>
\* ... or the last token of a kind expires.
Expire(kind) ==
    /\ kind \in access
    /\ access' = access \ {kind}
    /\ UNCHANGED <<row, uses, req>>

\* The process stops between two statements of a handler.
Lost(r) ==
    /\ req[r] # Idle
    /\ Become(r, Idle)
    /\ UNCHANGED <<row, access, uses>>

Continue(r) ==
    \/ RegisterInsert(r) \/ LoginFail(r) \/ LoginReset(r) \/ IssuePair(r)
    \/ EndSession(r) \/ SetupWrite(r) \/ ConfirmWrite(r)

Next ==
    \/ \E r \in Requests :
        \/ RegisterRead(r) \/ VerifyMfa(r)
        \/ \E right \in BOOLEAN : LoginRead(r, right)
        \/ Refresh(r) \/ RefreshMismatch(r)
        \/ SetupRead(r) \/ ConfirmRead(r)
        \/ Continue(r) \/ Lost(r)
    \/ Logout \/ Deactivate \/ Unlock
    \/ \E kind \in Kinds : Expire(kind)

Spec == Init /\ [][Next]_vars

\* A handler that has started goes on, and access tokens expire.
FairSpec ==
    /\ Spec
    /\ \A r \in Requests : WF_vars(Continue(r))
    /\ \A kind \in Kinds : WF_vars(Expire(kind))

-----------------------------------------------------------------------------
TypeOK ==
    /\ account \in {None, "ACTIVE", "INACTIVE"}
    /\ attempts \in 0 .. MaxFailures
    /\ locked \in BOOLEAN /\ enabled \in BOOLEAN
    /\ secret \in Secrets \cup {None}
    /\ hash \in Tokens \cup {NoToken}
    /\ access \subseteq Kinds
    /\ uses \in [Tokens -> Nat]
    /\ req \in [Requests -> ReqState]

\* Rotation: counting those that are under way, a refresh token is exchanged
\* at most as often as there are handlers that can hold it at one moment, so
\* once when requests do not overlap (refreshTokens compares with the hash it
\* read, and replaces it after two hashes have been computed).
RotationBounded ==
    \A t \in Tokens : uses[t] + Cardinality(Holding(t)) <= Cardinality(Requests)

\* What the tokens and the row say of MFA agree: a token that says it is on
\* was signed for an account where it is, which has a secret to check with.
\* Five handlers write these columns, each by what it read.
ClaimsHold ==
    /\ access \cap {"pending", "verified"} # {} => enabled
    /\ enabled => secret # None

\* Strengthening of RotationBounded: the current token has not been exchanged.
RotationInv ==
    /\ RotationBounded
    /\ \A t \in Tokens : t = hash => uses[t] = 0

\* Strengthening of ClaimsHold by what handlers have read.
ClaimsInv ==
    /\ ClaimsHold
    /\ \A r \in Requests :
        /\ req[r].op = "confirm" => secret # None
        /\ req[r].op = "reset" /\ req[r].enabled => enabled
        /\ req[r].op = "issue" /\ req[r].kind # "plain" => enabled

\* A deactivated account is left without sessions for good, whatever was in
\* progress: softDelete ends none, and access tokens are not looked up.
SessionsDrain == account = "INACTIVE" ~> [](access = {})

\* Once MFA is enabled, tokens that let somebody in without a code come to an
\* end for good, whoever keeps refreshing a session from before.
UnprovedDrain == MfaRole /\ enabled ~> [](Accepted \subseteq {"verified"})

\* Once MFA is enabled its secret settles: whatever set-ups were in progress,
\* the authenticator that works then goes on working.
SecretSettles == <>enabled => \E s \in Secrets : <>[](secret = s)

\* Guessing on and on locks the account again and again, however the guesses
\* overlap and their counts get lost, unless the right password comes between.
LockoutWorks ==
    []<><<\E r \in Requests : LoginFail(r)>>_vars => []<>(locked \/ attempts = 0)
=============================================================================
