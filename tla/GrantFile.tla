----------------------------- MODULE GrantFile ------------------------------
(***************************************************************************)
(* Just-in-time grants: core/policy/jit.py, the grants of all scopes in    *)
(* one file.  A grant is issued by the operator for a while and taken back *)
(* when it is used.                                                        *)
(***************************************************************************)
EXTENDS StateFile

CONSTANTS
    Scope,          \* what grants are for
    MaxGrants       \* bound: grants issued

VARIABLES
    issued,         \* history: grants issued, each with a number
    meant,          \* history: the grants if every call were one step
    expired,        \* grants whose time has passed
    used            \* history: grants taken back by a revoke that answered TRUE, one by one

grantvars == <<issued, meant, expired, used>>
vars == <<filevars, grantvars>>

\* For the proofs.
GrantAssumption == FileAssumption /\ MaxGrants \in Nat

NoGrant == 0

NoGrants == [s \in Scope |-> NoGrant]

Grants == Contents(NoGrants)

Init ==
    /\ FileInit
    /\ issued = 0 /\ expired = {}
    /\ used = <<>>
    /\ meant = NoGrants

GrantJitPermission(c, s) ==
    /\ issued < MaxGrants
    /\ BeginSave(c, [do |-> "grant", grant |-> issued + 1], [Grants EXCEPT ![s] = issued + 1])
    /\ issued' = issued + 1
    /\ meant' = [meant EXCEPT ![s] = issued + 1]
    /\ UNCHANGED <<expired, used>>

\* Mutant: the grant is looked up and stays.
RevokedNone(s) == Grants

\* The grants that are left when that of s is taken out.
Revoked(s) == [Grants EXCEPT ![s] = NoGrant]

\* A grant that has expired is taken out as well.
RevokeJitGrant(c, s) ==
    /\ Grants[s] # NoGrant
    /\ BeginSave(c, [do |-> "revoke", grant |-> Grants[s]], Revoked(s))
    /\ meant' = [meant EXCEPT ![s] = NoGrant]
    /\ UNCHANGED <<issued, expired, used>>

InTime(grant) == grant \notin expired

\* revoke_jit_grant answers whether the grant had not expired, once it is out.
ReturnGrant(c) ==
    /\ Return(c)
    /\ used' = IF op[c].call.do = "revoke" /\ InTime(op[c].call.grant)
               THEN Append(used, op[c].call.grant) ELSE used
    /\ UNCHANGED <<issued, meant, expired>>

Expire(g) ==
    /\ g \notin expired
    /\ expired' = expired \cup {g}
    /\ UNCHANGED <<filevars, issued, meant, used>>

Next ==
    \/ \E c \in Client :
        \/ \E s \in Scope : GrantJitPermission(c, s) \/ RevokeJitGrant(c, s)
        \/ ReturnGrant(c)
        \/ (SaveStep(c) \/ ReplaceFails(c) \/ Die(c)) /\ UNCHANGED grantvars
    \/ \E g \in 1..issued : Expire(g)

Spec == Init /\ [][Next]_vars

-----------------------------------------------------------------------------
(* Properties *)

TypeOK ==
    /\ FileTypeOK([Scope -> 0..MaxGrants])
    /\ issued \in 0..MaxGrants /\ expired \subseteq 1..issued
    /\ used \in Seq(1..issued) /\ meant \in [Scope -> 0..issued]

\* While calls neither overlap nor die, the file holds what it would if each call
\* were one step: no grant of one scope is lost or revived by a call about
\* another.  And wherever calls die, while they do not overlap, the file is whole
\* and a grant is used once at most and does not come back.
GrantsKept ==
    /\ AllIdle /\ mishap = {} => Grants = meant
    /\ WholeUnlessOverlap
    /\ "overlap" \in mishap \/
        /\ \A i, j \in DOMAIN used : used[i] = used[j] => i = j
        /\ AllIdle => \A s \in Scope : \A i \in DOMAIN used : Grants[s] # used[i]
=============================================================================
