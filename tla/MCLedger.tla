------------------------------ MODULE MCLedger ------------------------------
(***************************************************************************)
(* Small instances of Ledger for TLC.                                      *)
(***************************************************************************)
EXTENDS Ledger

\* Of two scheduled hours (8 quarters), 7 quarters are within 15%, 6 are not.
TwoHours == 8
\* More than is there, so that Math.max(0, ...) matters.
Minus == {-9}
=============================================================================
