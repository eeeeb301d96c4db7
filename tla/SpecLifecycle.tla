--------------------------- MODULE SpecLifecycle ----------------------------
(***************************************************************************)
(* What core/spec/engine.py promises of one specification: each verb is    *)
(* one step, made at the moment the engine commits it.  SpecEngine, where  *)
(* a verb is many steps among those of other callers, implements this      *)
(* (SpecEngine!LifecycleKept).                                             *)
(*                                                                         *)
(* The promise is as strong as the engine keeps it: a task is accepted     *)
(* behind tasks that were accepted before, some of which an amend may have *)
(* reopened since, and so is a specification verified.                     *)
(***************************************************************************)
EXTENDS FiniteSets

CONSTANTS
    Task, Req, None,
    TaskReqs,       \* Task -> the requirements it references
    TaskDeps        \* Task -> the tasks it depends on

VARIABLES
    stage,
    listed,         \* the tasks of the specification
    done,           \* those whose status is "done"
    accepted,       \* those that were ever accepted
    check           \* the frozen check of each requirement, or None

vars == <<stage, listed, done, accepted, check>>

Tasked == {"tasked", "implementing", "verified"}

\* A task list tasks_feature takes.
Listable(ts) ==
    /\ ts # {}
    /\ \A t \in ts : TaskReqs[t] # {} /\ TaskDeps[t] \subseteq ts

EveryCheck(checks) == \A r \in Req : checks[r] # None

Answering(r) == {t \in Task : r \in TaskReqs[t]}

-----------------------------------------------------------------------------
Init ==
    /\ done = {} /\ accepted = {}
    /\ \/ stage = "none" /\ listed = {} /\ check = [r \in Req |-> None]
       \/ stage = "tasked" /\ Listable(listed) /\ EveryCheck(check)

Specify ==
    /\ stage = "none"
    /\ stage' = "specified"
    /\ UNCHANGED <<listed, done, accepted, check>>

Plan ==
    /\ stage = "specified"
    /\ stage' = "planned"
    /\ UNCHANGED <<listed, done, accepted, check>>

\* The tasks are listed once, each requirement with its check.
Tasks ==
    /\ stage \in {"specified", "planned"}
    /\ stage' = "tasked"
    /\ Listable(listed')
    /\ EveryCheck(check')
    /\ UNCHANGED <<done, accepted>>

\* Automated tasks that failed, or were skipped behind one that did.
MarkErrors ==
    /\ stage \in Tasked
    /\ done' \subseteq done
    /\ UNCHANGED <<stage, listed, accepted, check>>

Complete(t) ==
    /\ stage \in Tasked
    /\ t \in listed
    /\ TaskDeps[t] \subseteq accepted
    /\ done' = done \cup {t}
    /\ accepted' = accepted \cup {t}
    /\ stage' = "implementing"
    /\ UNCHANGED <<listed, check>>

\* What relied on the replaced check is open again, a verified specification too.
Amend(r) ==
    /\ stage \in Tasked
    /\ \A q \in Req : q = r \/ check'[q] = check[q]
    /\ EveryCheck(check')
    /\ done' = done \ Answering(r)
    /\ stage' = IF stage = "verified" THEN "implementing" ELSE stage
    /\ UNCHANGED <<listed, accepted>>

Verify ==
    /\ stage \in Tasked
    /\ listed \subseteq accepted
    /\ \A r \in Req : Answering(r) \cap accepted # {}
    /\ stage' = "verified"
    /\ UNCHANGED <<listed, done, accepted, check>>

Next ==
    \/ Specify \/ Plan \/ Tasks \/ MarkErrors \/ Verify
    \/ \E t \in Task : Complete(t)
    \/ \E r \in Req : Amend(r)

Spec == Init /\ [][Next]_vars
=============================================================================
