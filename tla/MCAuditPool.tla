---------------------------- MODULE MCAuditPool ----------------------------
(***************************************************************************)
(* A small instance of AuditPool for TLC.                                  *)
(***************************************************************************)
EXTENDS AuditPool
=============================================================================
