---------------------------- MODULE MCScheduling ----------------------------
(***************************************************************************)
(* Small instances of Scheduling for TLC.                                  *)
(***************************************************************************)
EXTENDS Scheduling, TLC

CONSTANTS s1, s2

\* Volunteers and handlers are interchangeable.
Symmetry == Permutations(Volunteers) \cup Permutations(Requests)

OneSeat == [s \in Shifts |-> 1]
TwoSeats == [s \in Shifts |-> 2]

\* s1 and s2 overlap; were s2 an hour later they would be back to back.
Starts == [s \in Shifts |-> IF s = s1 THEN 0 ELSE 1]
Ends == [s \in Shifts |-> IF s = s1 THEN 2 ELSE 3]
=============================================================================
