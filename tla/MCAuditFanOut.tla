--------------------------- MODULE MCAuditFanOut ---------------------------
(* A small instance of AuditFanOut for TLC: all three reviewers. *)
EXTENDS AuditFanOut, TLC
=============================================================================
