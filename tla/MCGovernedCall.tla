-------------------------- MODULE MCGovernedCall ---------------------------
(* Small instances of GovernedCall. *)
EXTENDS GovernedCall, TLC

One(ts, e) == [match |-> ts, effect |-> e]

\* No rule, one that denies all, one for one command before one for all.
SmallRules ==
    {<<>>, <<One(Governed, "deny")>>,
     <<One({"mutation"}, "deny"), One(Governed, "allow")>>}

\* Everything configured under a policy, and little of it under none.
SmallConfigs ==
    {[configured |-> Governed, lintBlocks |-> FALSE, enforce |-> TRUE,
      requirePins |-> FALSE, default |-> "deny"],
     [configured |-> {"tests", "lint"}, lintBlocks |-> TRUE, enforce |-> FALSE,
      requirePins |-> TRUE, default |-> "allow"]}

HashSymmetry == Permutations(Hash)
=============================================================================
