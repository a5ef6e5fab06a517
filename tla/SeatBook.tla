------------------------------ MODULE SeatBook ------------------------------
(***************************************************************************)
(* What registration promises (BR-11, acceptance cases 2 and 3): a book    *)
(* with a page per shift, in which joining is one indivisible step.  It is *)
(* written without transactions, snapshots or conflicts; Scheduling with   *)
(* registrations alone implements it.                                      *)
(***************************************************************************)
EXTENDS Integers, FiniteSets, Sequences

CONSTANTS
    Volunteers, Shifts,
    Capacity,        \* [Shifts -> Nat]
    Overlapping      \* pairs of shifts nobody may hold seats of both

VARIABLES
    holders,         \* [Shifts -> SUBSET Volunteers], those with a seat
    queue            \* [Shifts -> Seq(Volunteers)], those who wait, in order

bookVars == <<holders, queue>>

InLine(s) == {queue[s][i] : i \in 1 .. Len(queue[s])}

Init ==
    /\ holders = [s \in Shifts |-> {}]
    /\ queue = [s \in Shifts |-> <<>>]

\* A free seat, that v can take ...
TakeSeat(v, s) ==
    /\ v \notin holders[s] \cup InLine(s)
    /\ Cardinality(holders[s]) < Capacity[s]
    /\ \A t \in Shifts : <<s, t>> \in Overlapping => v \notin holders[t]
    /\ holders' = [holders EXCEPT ![s] = @ \cup {v}]
    /\ UNCHANGED queue

\* ... or the end of the line, when there is none.
GetInLine(v, s) ==
    /\ v \notin holders[s] \cup InLine(s)
    /\ Cardinality(holders[s]) >= Capacity[s]
    /\ queue' = [queue EXCEPT ![s] = Append(@, v)]
    /\ UNCHANGED holders

Next == \E v \in Volunteers, s \in Shifts : TakeSeat(v, s) \/ GetInLine(v, s)

Spec == Init /\ [][Next]_bookVars
=============================================================================
