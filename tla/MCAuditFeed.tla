---------------------------- MODULE MCAuditFeed -----------------------------
(***************************************************************************)
(* Small instances of AuditFeed.                                           *)
(***************************************************************************)
EXTENDS AuditFeed, TLC

ClientSymmetry == Permutations(Client)

\* A line of one cell, and one longer than a read.
ShortAndOversized == {1, MaxRead + 1}
=============================================================================
