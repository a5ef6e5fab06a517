---------------------------- MODULE MCAttendance ----------------------------
(***************************************************************************)
(* Small instances of Attendance for TLC.                                  *)
(***************************************************************************)
EXTENDS Attendance, TLC

CONSTANTS s1, s2

\* Volunteers, handlers and tokens are interchangeable.
AttSymmetry ==
    Permutations(Volunteers) \cup Permutations(Requests) \cup Permutations(Tokens)

OneSeat == [s \in Shifts |-> 1]

Arrivals == ScannedReq \cup ArrivalReq \cup CheckInReq

\* s1 and s2 overlap.
Starts == [s \in Shifts |-> IF s = s1 THEN 0 ELSE 1]
Ends == [s \in Shifts |-> IF s = s1 THEN 2 ELSE 3]
=============================================================================
