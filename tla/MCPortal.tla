------------------------------ MODULE MCPortal ------------------------------
(* Instances of Portal for TLC. *)
EXTENDS Portal

CONSTANTS r1, r2, o1

TwoRequests == {r1, r2}
OneOpp == {o1}
=============================================================================
