---------------------------- MODULE MCSpecEngine ----------------------------
(***************************************************************************)
(* Small instances of SpecEngine: one task, or two of which t2 depends on  *)
(* t1, and one requirement.                                                *)
(***************************************************************************)
EXTENDS SpecEngine, TLC

CONSTANTS c1, c2, t1, t2, r1

ChainDeps == (t1 :> {}) @@ (t2 :> {t1})

\* Both tasks answer to the one requirement.
SharedReqs == (t1 :> {r1}) @@ (t2 :> {r1})

OneReq == t1 :> {r1}
OneDep == t1 :> {}

ClientSymmetry == Permutations(Client)

Symmetry == ClientSymmetry \cup Permutations(Content)
=============================================================================
