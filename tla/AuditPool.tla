------------------------------ MODULE AuditPool ------------------------------
(***************************************************************************)
(* The audit rows and the connections they take.  Every audit row is       *)
(* written through the service's own client, never through the transaction *)
(* of the change it tells of, so it is committed on its own and needs a    *)
(* connection of its own from the pool.  A handler is of one of three      *)
(* kinds:                                                                  *)
(*                                                                         *)
(*  - "inside": the row is written from within an interactive transaction, *)
(*    which keeps its connection meanwhile (registerForShift, checkIn,     *)
(*    handleWalkIn, checkOut, adjustParticipation);                        *)
(*  - "after": it is written after the change, errors logged and swallowed *)
(*    (cancelRegistration, promoteWaitlist, approveParticipation,          *)
(*    createEvent, updateEvent and everything in AuthService);             *)
(*  - "bare": it is written after the change and errors end the request    *)
(*    (both reviews, updateProfile, deactivate).                           *)
(*                                                                         *)
(* Prisma ends a transaction that is open for 5 s without the callback     *)
(* being told, a wait for a connection to begin one after 2 s and a wait   *)
(* for a connection for anything else after 10 s.  Time itself is left     *)
(* out: a limit may be reached whenever something is under way.            *)
(*                                                                         *)
(* An update, and SELECT ... FOR UPDATE, locks its row until the change    *)
(* ends and waits as long as another change has it locked, keeping its own *)
(* connection (an insert waits alike for an uncommitted row with its key). *)
(* There is no limit on that wait but the one on the transaction.  No      *)
(* handler takes rows of two tables in both orders: shift, registration    *)
(* and attendance come before assignment, assignment before participation. *)
(*                                                                         *)
(* A definition marked "variant" is not part of the specification: it is   *)
(* the definition below it with a plausible mistake.                       *)
(***************************************************************************)
EXTENDS Naturals, FiniteSets

CONSTANTS
    Requests,     \* request handlers that can run at the same time
    Pool,         \* connections of PrismaClient
    Rows          \* rows that are locked, numbered in the order of locking

ASSUME FiniteHandlers == IsFiniteSet(Requests)
ASSUME SomeConnections == Pool \in Nat \ {0}
ASSUME RowNumbers == Rows \subseteq Nat /\ IsFiniteSet(Rows)

VARIABLES
    kind,         \* what each handler is, see Kinds
    stage,        \* where it is, see Stages
    change,       \* what has become of its change, see Changes
    todo,         \* the rows its change has yet to lock
    held,         \* the rows it has locked
    logged        \* whether its audit row is in the table

vars == <<kind, stage, change, todo, held, logged>>

Kinds == {"inside", "after", "bare"}
\* "connect" and "audit" wait for a connection, "row" has one for the insert
\* of the audit row; "ok" and "error" are the answers.
Stages == {"idle", "connect", "body", "audit", "row", "return", "ok", "error"}
\* "open" holds a connection: a transaction, or the update that is one.
Changes == {"none", "open", "undone", "committed"}

Open == {r \in Requests : change[r] = "open"}
Inserting == {r \in Requests : stage[r] = "row"}
Taken == Cardinality(Open) + Cardinality(Inserting)

-----------------------------------------------------------------------------
Init ==
    /\ kind = [r \in Requests |-> "after"]
    /\ stage = [r \in Requests |-> "idle"]
    /\ change = [r \in Requests |-> "none"]
    /\ todo = [r \in Requests |-> {}]
    /\ held = [r \in Requests |-> {}]
    /\ logged = [r \in Requests |-> FALSE]

Go(r, to) == stage' = [stage EXCEPT ![r] = to]
Becomes(r, state) == change' = [change EXCEPT ![r] = state]
\* The end of a change gives back its rows along with its connection.
Ends(r, state) ==
    /\ Becomes(r, state)
    /\ held' = [held EXCEPT ![r] = {}]

Start(r) ==
    /\ stage[r] = "idle"
    /\ \E k \in Kinds : kind' = [kind EXCEPT ![r] = k]
    /\ Go(r, "connect")
    /\ UNCHANGED <<change, todo, held, logged>>

Connect(r) ==
    /\ stage[r] = "connect"
    /\ Taken < Pool
    /\ Go(r, "body")
    /\ Becomes(r, "open")
    /\ \E rows \in SUBSET Rows : todo' = [todo EXCEPT ![r] = rows]
    /\ UNCHANGED <<kind, held, logged>>
ConnectTimeout(r) ==
    /\ stage[r] = "connect"
    /\ Go(r, "error")
    /\ UNCHANGED <<kind, change, todo, held, logged>>

Working(r) == stage[r] = "body" /\ change[r] = "open"
Locked(row) == \E o \in Requests : row \in held[o]
IsNext(row, r) == row \in todo[r] /\ \A other \in todo[r] : row <= other
\* Its statement waits for a row another change has locked.
Blocked(r) == Working(r) /\ \E row \in todo[r] : IsNext(row, r) /\ Locked(row)

\* variant: every handler takes the rows in the order it likes
TakeAnyRow(r) ==
    /\ Working(r)
    /\ \E row \in todo[r] :
        /\ ~Locked(row)
        /\ todo' = [todo EXCEPT ![r] = @ \ {row}]
        /\ held' = [held EXCEPT ![r] = @ \cup {row}]
    /\ UNCHANGED <<kind, stage, change, logged>>
\* A statement that updates, or selects for update, a row nobody has locked.
TakeRow(r) ==
    /\ Working(r)
    /\ \E row \in todo[r] :
        /\ IsNext(row, r) /\ ~Locked(row)
        /\ todo' = [todo EXCEPT ![r] = @ \ {row}]
        /\ held' = [held EXCEPT ![r] = @ \cup {row}]
    /\ UNCHANGED <<kind, stage, change, logged>>

\* variant: every audit row is written when the callback is through
BodyEager(r) ==
    /\ Working(r)
    /\ todo[r] = {}
    /\ Go(r, "audit")
    /\ UNCHANGED <<kind, change, todo, held, logged>>
\* The statements of the change are through.  Inside, the audit row comes
\* before the commit; elsewhere the change is committed, its connection back
\* in the pool.  In a transaction that was ended meanwhile they fail.
Body(r) ==
    /\ Working(r)
    /\ todo[r] = {}
    /\ Go(r, "audit")
    /\ IF kind[r] = "inside" THEN UNCHANGED <<change, held>> ELSE Ends(r, "committed")
    /\ UNCHANGED <<kind, todo, logged>>

\* It needs no audit row: a second check-in or check-out, which locks nothing,
\* and a walk-in of somebody on the roster, which inserts their attendance.
BodyReturns(r) ==
    /\ Working(r)
    /\ kind[r] = "inside" /\ todo[r] = {}
    /\ Go(r, "return")
    /\ UNCHANGED <<kind, change, todo, held, logged>>

\* A check throws, a statement is refused, or the transaction is gone.
BodyFails(r) ==
    /\ stage[r] = "body"
    /\ Go(r, "error")
    /\ Ends(r, "undone")
    /\ todo' = [todo EXCEPT ![r] = {}]
    /\ UNCHANGED <<kind, logged>>

\* variant: the transaction is given up and its connection forgotten
TxTimeoutLeaks(r) ==
    /\ kind[r] = "inside"
    /\ change[r] = "open"
    /\ Go(r, "error")
    /\ UNCHANGED <<kind, change, todo, held, logged>>
\* The transaction has been open for too long.  It is rolled back, and the
\* callback goes on with whatever it is doing.
TxTimeout(r) ==
    /\ kind[r] = "inside"
    /\ change[r] = "open"
    /\ Ends(r, "undone")
    /\ UNCHANGED <<kind, stage, todo, logged>>

\* auditLog.create, on a connection of its own ...
AuditConnect(r) ==
    /\ stage[r] = "audit"
    /\ Taken < Pool
    /\ Go(r, "row")
    /\ UNCHANGED <<kind, change, todo, held, logged>>

AuditWritten(r) ==
    /\ stage[r] = "row"
    /\ logged' = [logged EXCEPT ![r] = TRUE]
    /\ Go(r, "return")
    /\ UNCHANGED <<kind, change, todo, held>>

\* ... which it may wait for in vain, or the insert is refused.
AuditFails(r) ==
    /\ stage[r] \in {"audit", "row"}
    /\ Go(r, IF kind[r] = "bare" THEN "error" ELSE "return")
    /\ UNCHANGED <<kind, change, todo, held, logged>>

\* The callback, or the handler, returns.  What is still open is committed,
\* which the database may refuse (see Conflicts in Scheduling); what was
\* ended meanwhile cannot be.
Return(r) ==
    /\ stage[r] = "return"
    /\ \/ /\ change[r] \in {"open", "committed"}
          /\ Go(r, "ok")
          /\ Ends(r, "committed")
       \/ /\ change[r] \in {"open", "undone"}
          /\ Go(r, "error")
          /\ Ends(r, "undone")
    /\ UNCHANGED <<kind, todo, logged>>

\* The next request.
Again(r) ==
    /\ stage[r] \in {"ok", "error"}
    /\ Go(r, "idle")
    /\ Becomes(r, "none")
    /\ kind' = [kind EXCEPT ![r] = "after"]
    /\ logged' = [logged EXCEPT ![r] = FALSE]
    /\ UNCHANGED <<todo, held>>

Continue(r) ==
    \/ Connect(r) \/ ConnectTimeout(r)
    \/ TakeRow(r) \/ Body(r) \/ BodyReturns(r) \/ BodyFails(r)
    \/ AuditConnect(r) \/ AuditWritten(r) \/ AuditFails(r)
    \/ Return(r)

Next == \E r \in Requests : Start(r) \/ Continue(r) \/ TxTimeout(r) \/ Again(r)

Spec == Init /\ [][Next]_vars

\* A handler goes on, since statements end and so does every wait for a
\* connection - but for a statement that waits for a row, which need not fail.
\* The database grants a row to those that wait for it in turn.
FairSpec ==
    /\ Spec
    /\ \A r \in Requests :
        /\ WF_vars(~Blocked(r) /\ Continue(r))
        /\ SF_vars(TakeRow(r))

-----------------------------------------------------------------------------
TypeOK ==
    /\ kind \in [Requests -> Kinds]
    /\ stage \in [Requests -> Stages]
    /\ change \in [Requests -> Changes]
    /\ todo \in [Requests -> SUBSET Rows]
    /\ held \in [Requests -> SUBSET Rows]
    /\ logged \in [Requests -> BOOLEAN]

\* An audit row of a change made outside a transaction tells of something that
\* has happened, whatever failed since; and where errors of the audit are not
\* swallowed, nothing is answered with success that has no row.
AuditTrail ==
    \A r \in Requests :
        /\ logged[r] /\ kind[r] # "inside" => change[r] = "committed"
        /\ stage[r] = "ok" /\ kind[r] = "bare" => logged[r]

\* Those that hold a connection while they wait for one more.
InTransaction == {r \in Requests : kind[r] = "inside"}

\* Those that write a row another request writes at the same time.
Writes(r) == todo[r] \cup held[r]
Contending == {r \in Requests : \E o \in Requests \ {r} : Writes(r) \cap Writes(o) # {}}

\* What size of the pool is safe.  A transaction that audits from within may
\* wait for a second connection, and so do those that wait for its rows, each
\* with a connection of its own.  With fewer of them than connections, and
\* always when no such transaction is there, some holder of a connection of an
\* exhausted pool waits for nobody.
HoldersGoOn ==
    /\ Taken = Pool
    /\ InTransaction = {} \/ Cardinality(InTransaction \cup Contending) < Pool
    => \E r \in Open \cup Inserting :
            stage[r] \in {"body", "row", "return"} /\ ~Blocked(r)

\* When all connections are taken (by transactions, say, each of which waits
\* for one more) one is free again in the end.
PoolRecovers == Taken = Pool ~> Taken < Pool

\* Whatever rows and connections it waits for, and whoever waits for it, every
\* request is answered.
RequestsAnswered ==
    \A r \in Requests : stage[r] = "connect" ~> stage[r] \in {"ok", "error"}

\* Strengthening of AuditTrail: from the end of the body of a change that is
\* its own transaction it is committed, and only what has an audit row returns
\* from a handler that does not swallow errors.
PoolInv ==
    /\ AuditTrail
    /\ \A r \in Requests :
        /\ stage[r] = "ok" => change[r] = "committed"
        /\ stage[r] \in {"audit", "row", "return"} /\ kind[r] # "inside" =>
               change[r] = "committed"
        /\ stage[r] = "return" /\ kind[r] = "bare" => logged[r]
        /\ stage[r] \in {"connect", "body", "audit", "row"} => ~logged[r]

\* Rows are locked by changes that are open, in ascending order.
InOrder ==
    \A r \in Requests :
        /\ held[r] # {} => change[r] = "open"
        /\ \A row \in held[r], later \in todo[r] : row < later
=============================================================================
