----------------------------- MODULE MCAuditLog -----------------------------
(***************************************************************************)
(* Small instances of AuditLog.                                            *)
(***************************************************************************)
EXTENDS AuditLog

WriterSymmetry == Permutations(Writer)
=============================================================================
