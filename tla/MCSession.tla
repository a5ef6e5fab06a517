----------------------------- MODULE MCSession -----------------------------
(* Instances of Session for TLC. *)
EXTENDS Session

CONSTANTS h1, h2, k1, k2

TwoHandlers == {h1, h2}
TwoSecrets == {k1, k2}
=============================================================================
