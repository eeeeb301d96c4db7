------------------------- MODULE SpecEngine_proofs -------------------------
(***************************************************************************)
(* Proofs about SpecEngine, for any number of clients, tasks, requirements *)
(* and contents.  The inductive invariant is built in layers, each proved  *)
(* from the ones below it:                                                 *)
(*   TypeInv       types, what a call is about, who holds the write lock;  *)
(*   LifecycleInv  the stages and the tables, and what a call in flight    *)
(*                 still knows of them although it read them long ago;     *)
(*   AcceptInv     what the calls that complete tasks have seen and run;   *)
(*   LogInv        what the audit log holds before a commit;               *)
(*   VerifiedInv   what verify_feature has found before it writes;         *)
(*   GrantInv      which grants can still be used, and what each was used   *)
(*                 for.                                                    *)
(***************************************************************************)
EXTENDS SpecEngine, TLAPS

-----------------------------------------------------------------------------
(* What a step does to the local state of the calls. *)

\* The calls of the other clients are as they were.
Others(c) ==
    /\ call' \in [Client -> Call]
    /\ \A d \in Client : d # c => call'[d] = call[d]

\* A call that returns is idle, with nothing left of what it knew.
LEMMA Returned ==
    ASSUME call \in [Client -> Call], NEW c \in Client, Return(c)
    PROVE  Others(c) /\ call'[c] = Idle /\ call'[c].at = "idle"
<1>1. Idle \in Call /\ Idle.at = "idle"
  BY DEF Idle, Call, ControlPoint, NoChecks
<1> QED BY <1>1 DEF Return, Others

\* A call that goes on to its next point keeps all it knows.
LEMMA WentOn ==
    ASSUME call \in [Client -> Call], NEW c \in Client, NEW p \in ControlPoint, Go(c, p)
    PROVE  /\ Others(c)
           /\ call'[c].at = p
           /\ call'[c].task = call[c].task
           /\ call'[c].req = call[c].req
           /\ call'[c].list = call[c].list
           /\ call'[c].checks = call[c].checks
           /\ call'[c].ran = call[c].ran
           /\ call'[c].flag = call[c].flag
BY DEF Go, Call, Others

\* The call of tasks_feature starts with the list it was given and a check,
\* hashed but not run, for every requirement.
LEMMA TasksFeatureMoves ==
    ASSUME TypeOK, NEW c \in Client, NEW ts \in SUBSET Task, TasksFeature(c, ts)
    PROVE  /\ Others(c)
           /\ call'[c].at = "tasks_baseline"
           /\ call'[c].list = ts
           /\ call'[c].flag = (stage = "specified")
           /\ \A r \in Req : call'[c].checks[r] \in Check
<1>1. [r \in Req |-> [hash |-> file[r], observed |-> FALSE]] \in [Req -> Check]
  BY DEF TypeOK, Check
<1>2. (stage = "specified") \in BOOLEAN
  OBVIOUS
<1> DEFINE k == [Idle EXCEPT !.at = "tasks_baseline", !.list = ts,
                             !.flag = (stage = "specified"),
                             !.checks = [r \in Req |-> [hash |-> file[r],
                                                        observed |-> FALSE]]]
<1>3. /\ k \in Call
      /\ k.at = "tasks_baseline" /\ k.list = ts /\ k.flag = (stage = "specified")
      /\ k.checks = [r \in Req |-> [hash |-> file[r], observed |-> FALSE]]
  BY <1>1, <1>2 DEF Idle, Call, ControlPoint, NoChecks
<1>4. call' = [call EXCEPT ![c] = k]
  BY DEF TasksFeature
<1> HIDE DEF k
<1>5. Others(c) /\ call'[c] = k
  BY <1>3, <1>4 DEF TypeOK, Others
<1> QED BY <1>1, <1>3, <1>5

\* A baseline that was observed changes that one fact of each check.
LEMMA ObserveBaselineMoves ==
    ASSUME TypeOK, NEW c \in Client, ObserveBaseline(c)
    PROVE  /\ Others(c)
           /\ call'[c].at = IF call[c].at = "tasks_baseline" THEN "tasks_write"
                            ELSE "amend_write"
           /\ call'[c].task = call[c].task
           /\ call'[c].req = call[c].req
           /\ call'[c].list = call[c].list
           /\ call'[c].flag = call[c].flag
           /\ \A r \in Req : call'[c].checks[r] = None <=> call[c].checks[r] = None
<1> DEFINE ks == [r \in Req |-> IF call[c].checks[r] = None THEN None
                                ELSE [hash |-> call[c].checks[r].hash, observed |-> TRUE]]
           p == IF call[c].at = "tasks_baseline" THEN "tasks_write" ELSE "amend_write"
<1>1. call[c] \in Call /\ call[c].checks \in [Req -> Check \cup {None}]
  BY DEF TypeOK, Call
<1>2. \A r \in Req : call[c].checks[r] # None =>
          [hash |-> call[c].checks[r].hash, observed |-> TRUE] \in Check
  BY <1>1 DEF Check
<1>3. ks \in [Req -> Check \cup {None}]
  BY <1>2
<1>4. \A r \in Req : ks[r] = None <=> call[c].checks[r] = None
  BY <1>2, SpecAssumption
<1>5. p \in ControlPoint
  BY DEF ControlPoint
<1>6. call' = [call EXCEPT ![c].at = p, ![c].checks = ks]
  BY DEF ObserveBaseline, TypeOK, Call
<1> HIDE DEF ks, p
<1>7. /\ Others(c) /\ call'[c].at = p /\ call'[c].checks = ks
      /\ call'[c].task = call[c].task /\ call'[c].req = call[c].req
      /\ call'[c].list = call[c].list /\ call'[c].flag = call[c].flag
  BY <1>1, <1>3, <1>5, <1>6 DEF TypeOK, Call, Others
<1> QED BY <1>4, <1>7 DEF p

\* orchestrate_tasks either ends the call or leaves it the tasks that failed.
LEMMA TasksRunMoves ==
    ASSUME TypeOK, NEW c \in Client, TasksRun(c)
    PROVE  /\ Others(c)
           /\ \/ call'[c].at = "idle"
              \/ call'[c].at = "errors_write" /\ call'[c].list \subseteq call[c].list
<1>1. PICK bad \in SUBSET (call[c].list \cap Callable) :
         IF bad = {} THEN Return(c)
         ELSE call' = [call EXCEPT ![c].at = "errors_write", ![c].list = bad]
  BY DEF TasksRun
<1>2. CASE bad = {}
  BY <1>1, <1>2, Returned DEF TypeOK
<1>3. CASE bad # {}
  <2>1. call[c] \in Call /\ bad \in SUBSET Task /\ "errors_write" \in ControlPoint
    BY DEF TypeOK, Call, ControlPoint
  <2>2. call' = [call EXCEPT ![c].at = "errors_write", ![c].list = bad]
    BY <1>1, <1>3
  <2>3. Others(c) /\ call'[c].at = "errors_write" /\ call'[c].list = bad
    BY <2>1, <2>2 DEF TypeOK, Call, Others
  <2> QED BY <2>3
<1> QED BY <1>2, <1>3

\* A call of complete_task, amend_check or verify_feature starts knowing what
\* it was called with.
LEMMA CompleteTaskMoves ==
    ASSUME TypeOK, NEW c \in Client, NEW t \in Task, CompleteTask(c, t)
    PROVE  Others(c) /\ call'[c].at = "complete_tasks" /\ call'[c].task = t
<1> DEFINE k == [Idle EXCEPT !.at = "complete_tasks", !.task = t]
<1>1. k \in Call /\ k.at = "complete_tasks" /\ k.task = t
  BY DEF Idle, Call, ControlPoint, NoChecks
<1>2. call' = [call EXCEPT ![c] = k]
  BY DEF CompleteTask
<1> QED BY <1>1, <1>2 DEF TypeOK, Others

\* What amend_check keeps is the requirement, its new check and whether it
\* needs a grant.
LEMMA AmendCheckMoves ==
    ASSUME TypeOK, NEW c \in Client, NEW r \in Req, NEW direct \in BOOLEAN,
           AmendCheck(c, r, direct)
    PROVE  /\ Others(c)
           /\ call'[c].at = "amend_baseline"
           /\ call'[c].req = r
           /\ call'[c].flag = ~direct
           /\ call'[c].checks[r] \in Check
<1> DEFINE new == [hash |-> file[r], observed |-> FALSE]
           ks == [NoChecks EXCEPT ![r] = new]
<1>1. new \in Check
  BY DEF TypeOK, Check
<1>2. ks \in [Req -> Check \cup {None}] /\ ks[r] = new
  BY <1>1 DEF NoChecks
<1> HIDE DEF ks
<1> DEFINE k == [Idle EXCEPT !.at = "amend_baseline", !.req = r, !.flag = ~direct,
                             !.checks = ks]
<1>3. /\ k \in Call /\ k.at = "amend_baseline" /\ k.req = r /\ k.flag = ~direct
      /\ k.checks = ks
  BY <1>2 DEF Idle, Call, ControlPoint, NoChecks
<1>4. call' = [call EXCEPT ![c] = k]
  BY DEF AmendCheck, ks
<1> HIDE DEF k
<1>5. Others(c) /\ call'[c] = k
  BY <1>3, <1>4 DEF TypeOK, Others
<1> QED BY <1>1, <1>2, <1>3, <1>5

\* verify_feature keeps nothing.
LEMMA VerifyFeatureMoves ==
    ASSUME TypeOK, NEW c \in Client, VerifyFeature(c)
    PROVE  Others(c) /\ call'[c].at = "verify_read"
<1> DEFINE k == [Idle EXCEPT !.at = "verify_read"]
<1>1. k \in Call /\ k.at = "verify_read"
  BY DEF Idle, Call, ControlPoint, NoChecks
<1>2. call' = [call EXCEPT ![c] = k]
  BY DEF VerifyFeature
<1> QED BY <1>1, <1>2 DEF TypeOK, Others

\* complete_task's first query: the task must exist; the tasks that are done are
\* remembered.
LEMMA CompleteReadTasksMoves ==
    ASSUME TypeOK, NEW c \in Client, CompleteReadTasks(c)
    PROVE  /\ Others(c)
           /\ \/ call'[c].at = "idle"
              \/ /\ call'[c].at = "complete_checks"
                 /\ call[c].task \in Existing
                 /\ call'[c].task = call[c].task
                 /\ call'[c].list = Done
<1>1. CASE call[c].task \in Existing
  <2>1. /\ call[c] \in Call /\ Done \in SUBSET Task /\ "complete_checks" \in ControlPoint
        /\ (task[call[c].task] = "done") \in BOOLEAN
    BY DEF TypeOK, Done, ControlPoint
  <2>2. call' = [call EXCEPT ![c].at = "complete_checks", ![c].list = Done,
                             ![c].flag = (task[call[c].task] = "done")]
    BY <1>1 DEF CompleteReadTasks
  <2> QED BY <1>1, <2>1, <2>2 DEF TypeOK, Call, Others
<1>2. CASE call[c].task \notin Existing
  BY <1>2, Returned DEF CompleteReadTasks, TypeOK
<1> QED BY <1>1, <1>2

\* complete_task's second query: the checks of the task's requirements.
LEMMA CompleteReadChecksMoves ==
    ASSUME TypeOK, NEW c \in Client, CompleteReadChecks(c)
    PROVE  /\ Others(c)
           /\ call'[c].at = "complete_judge"
           /\ call'[c].task = call[c].task
           /\ call'[c].list = call[c].list
           /\ call'[c].checks = [r \in Req |-> IF r \in TaskReqs[call[c].task]
                                               THEN frozen[r] ELSE None]
<1> DEFINE ks == [r \in Req |-> IF r \in TaskReqs[call[c].task] THEN frozen[r] ELSE None]
<1>1. ks \in [Req -> Check \cup {None}]
  BY DEF TypeOK
<1>2. call' = [call EXCEPT ![c].at = "complete_judge", ![c].checks = ks]
  BY DEF CompleteReadChecks
<1>3. call[c] \in Call /\ "complete_judge" \in ControlPoint
  BY DEF TypeOK, ControlPoint
<1> HIDE DEF ks
<1>4. /\ Others(c) /\ call'[c].at = "complete_judge" /\ call'[c].checks = ks
      /\ call'[c].task = call[c].task /\ call'[c].list = call[c].list
  BY <1>1, <1>2, <1>3 DEF TypeOK, Call, Others
<1> QED BY <1>4 DEF ks

\* One more check has run; the last one lets the call go on.
LEMMA CompleteRunCheckMoves ==
    ASSUME TypeOK, NEW c \in Client, NEW r \in Req, CompleteRunCheck(c, r)
    PROVE  /\ Others(c)
           /\ call'[c].at \in {"complete_run", "complete_gate"}
           /\ call'[c].at = "complete_gate" =>
                 \A q \in TaskChecks(c) : call'[c].ran[q] # None
           /\ call'[c].task = call[c].task
           /\ call'[c].list = call[c].list
           /\ call'[c].checks = call[c].checks
<1> DEFINE ran == [call[c].ran EXCEPT ![r] = file[r]]
           p == IF \A q \in TaskChecks(c) : ran[q] # None
                THEN "complete_gate" ELSE "complete_run"
<1>1. call[c] \in Call /\ ran \in [Req -> Content \cup {None}] /\ p \in ControlPoint
  BY DEF TypeOK, Call, ControlPoint
<1>2. call' = [call EXCEPT ![c].ran = ran, ![c].at = p]
  BY DEF CompleteRunCheck
<1>3. p \in {"complete_run", "complete_gate"}
  OBVIOUS
<1>4. p = "complete_gate" => \A q \in TaskChecks(c) : ran[q] # None
  OBVIOUS
<1> HIDE DEF ran, p
<1>5. /\ Others(c) /\ call'[c].at = p /\ call'[c].ran = ran
      /\ call'[c].task = call[c].task /\ call'[c].list = call[c].list
      /\ call'[c].checks = call[c].checks
  BY <1>1, <1>2 DEF TypeOK, Call, Others
<1> QED BY <1>3, <1>4, <1>5

\* The two steps of an amend's revoke: it loads the grants, and it replaces their
\* file.
Revoking(c) == AmendRevoke(c) \/ AmendReplace(c)

\* The first one keeps the grant it has found, or the amend is over.
LEMMA AmendRevokeMoves ==
    ASSUME TypeOK, NEW c \in Client, AmendRevoke(c)
    PROVE  /\ Others(c)
           /\ \/ /\ grant # NoGrant /\ lock' = lock
                 /\ call'[c].at = "amend_replace" /\ call'[c].grant = grant
                 /\ call'[c].req = call[c].req /\ call'[c].checks = call[c].checks
              \/ lock' = None /\ call'[c].at = "idle"
<1>1. CASE grant # NoGrant
  <2>1. /\ call[c] \in Call /\ grant \in Grant \cup {NoGrant}
        /\ "amend_replace" \in ControlPoint
    BY DEF TypeOK, ControlPoint
  <2>2. call' = [call EXCEPT ![c].at = "amend_replace", ![c].grant = grant] /\ lock' = lock
    BY <1>1 DEF AmendRevoke
  <2>3. /\ Others(c) /\ call'[c].at = "amend_replace" /\ call'[c].grant = grant
        /\ call'[c].req = call[c].req /\ call'[c].checks = call[c].checks
    BY <2>1, <2>2 DEF TypeOK, Call, Others
  <2> QED BY <1>1, <2>2, <2>3
<1>2. CASE grant = NoGrant
  BY <1>2, Returned DEF AmendRevoke, TypeOK
<1> QED BY <1>1, <1>2

\* The second one uses that grant up, or the amend is over.
LEMMA AmendReplaceMoves ==
    ASSUME TypeOK, NEW c \in Client, AmendReplace(c)
    PROVE  /\ Others(c)
           /\ \/ /\ lock' = lock /\ spent' = [spent EXCEPT ![call[c].grant] = @ + 1]
                 /\ call'[c].at = "amend_commit" /\ call'[c].grant = call[c].grant
                 /\ call'[c].req = call[c].req /\ call'[c].checks = call[c].checks
              \/ lock' = None /\ spent' = spent /\ call'[c].at = "idle"
<1>1. CASE call[c].grant \notin expired
  <2>1. call[c] \in Call /\ "amend_commit" \in ControlPoint
    BY DEF TypeOK, ControlPoint
  <2>2. /\ call' = [call EXCEPT ![c].at = "amend_commit"] /\ lock' = lock
        /\ spent' = [spent EXCEPT ![call[c].grant] = @ + 1]
    BY <1>1 DEF AmendReplace, Go
  <2>3. /\ Others(c) /\ call'[c].at = "amend_commit" /\ call'[c].grant = call[c].grant
        /\ call'[c].req = call[c].req /\ call'[c].checks = call[c].checks
    BY <2>1, <2>2 DEF TypeOK, Call, Others
  <2> QED BY <2>2, <2>3
<1>2. CASE call[c].grant \in expired
  BY <1>2, Returned DEF AmendReplace, TypeOK
<1> QED BY <1>1, <1>2

\* Either way the rows and the records are as they were, and the call goes on
\* under its lock or is over.
LEMMA RevokingMoves ==
    ASSUME TypeOK, NEW c \in Client, Revoking(c)
    PROVE  /\ Others(c)
           /\ UNCHANGED <<dbvars, file, log, proof>>
           /\ call[c].at \in {"amend_revoke", "amend_replace"}
           /\ \/ /\ lock' = lock /\ call'[c].at \in {"amend_replace", "amend_commit"}
                 /\ call'[c].req = call[c].req /\ call'[c].checks = call[c].checks
              \/ lock' = None /\ call'[c].at = "idle"
<1>1. CASE AmendRevoke(c)
  <2>1. UNCHANGED <<dbvars, file, log, proof>> /\ call[c].at = "amend_revoke"
    BY <1>1 DEF AmendRevoke
  <2> QED BY <1>1, <2>1, AmendRevokeMoves
<1>2. CASE AmendReplace(c)
  <2>1. UNCHANGED <<dbvars, file, log, proof>> /\ call[c].at = "amend_replace"
    BY <1>2 DEF AmendReplace
  <2> QED BY <1>2, <2>1, AmendReplaceMoves
<1> QED BY <1>1, <1>2 DEF Revoking

\* The grants stay grants.
GrantTypes ==
    /\ grant \in Grant \cup {NoGrant}
    /\ expired \subseteq Grant /\ copies \subseteq Grant
    /\ issued \in 0..MaxGrants /\ saves \in 0..MaxSaves
    /\ spent \in [Grant -> Nat] /\ revived \in [Grant -> Nat] /\ amended \in [Grant -> Nat]

\* What the environment does to them, and an amend's revoke.
LEMMA GrantTypesStay ==
    ASSUME TypeOK,
           \/ AllowAmend \/ GrantExpires \/ OtherLoads \/ OtherSaves
           \/ \E c \in Client : Revoking(c)
    PROVE  GrantTypes'
<1> USE SpecAssumption DEF TypeOK
<1>1. CASE AllowAmend
  <2>1. issued + 1 \in Grant /\ issued + 1 \in 0..MaxGrants
    BY <1>1 DEF AllowAmend, Grant
  <2> QED BY <1>1, <2>1 DEF AllowAmend, GrantTypes
<1>2. CASE GrantExpires
  <2>1. 1..issued \subseteq Grant
    BY DEF Grant
  <2> QED BY <1>2, <2>1 DEF GrantExpires, GrantTypes
<1>3. CASE OtherLoads
  BY <1>3 DEF OtherLoads, GrantTypes
<1>4. CASE OtherSaves
  <2>1. PICK g \in (copies \cup {NoGrant}) \ {grant} :
           /\ grant' = g
           /\ revived' = IF g # NoGrant /\ spent[g] > 0
                         THEN [revived EXCEPT ![g] = @ + 1] ELSE revived
    BY <1>4 DEF OtherSaves
  <2>2. revived' \in [Grant -> Nat] /\ grant' \in Grant \cup {NoGrant}
    BY <2>1
  <2>3. saves' \in 0..MaxSaves
    BY <1>4 DEF OtherSaves
  <2> QED BY <1>4, <2>2, <2>3 DEF OtherSaves, GrantTypes
<1>5. ASSUME NEW c \in Client, AmendRevoke(c) PROVE GrantTypes'
  BY <1>5 DEF AmendRevoke, grantvars, GrantTypes
<1>6. ASSUME NEW c \in Client, AmendReplace(c) PROVE GrantTypes'
  <2>1. spent' \in [Grant -> Nat]
    BY <1>6, AmendReplaceMoves
  <2> QED BY <1>6, <2>1 DEF AmendReplace, GrantTypes
<1> QED BY <1>1, <1>2, <1>3, <1>4, <1>5, <1>6 DEF Revoking

-----------------------------------------------------------------------------
(* TypeInv *)

\* The points at which a call is about a task, or about a requirement.
CompletePoint == {"complete_tasks", "complete_checks", "complete_judge", "complete_run",
                  "complete_gate", "complete_write", "complete_commit"}
AmendPoint == {"amend_baseline", "amend_write", "amend_revoke", "amend_replace",
               "amend_commit"}

Targets ==
    \A c \in Client : /\ call[c].at \in CompletePoint => call[c].task \in Task
                      /\ call[c].at \in AmendPoint => call[c].req \in Req

\* The write lock is held by the one call that is between its first write and
\* its commit, and by nobody else.
LockHeld == \A c \in Client : lock = c <=> call[c].at \in Holding

TypeInv == TypeOK /\ Targets /\ LockHeld

\* The types hold at first, when every client is idle and nobody holds the lock.
LEMMA TypeInit == Init => TypeInv
<1> SUFFICES ASSUME Init PROVE TypeInv
  OBVIOUS
<1> USE SpecAssumption
<1>1. call \in [Client -> Call] /\ \A c \in Client : call[c] = Idle /\ call[c].at = "idle"
  BY DEF Init, Quiet, Idle, Call, ControlPoint, NoChecks
<1>2. /\ frozen \in [Req -> Check \cup {None}]
      /\ task \in [Task -> {"none", "pending", "done", "error"}]
  <2>1. CASE NoRows
    BY <2>1 DEF NoRows, NoChecks
  <2>2. CASE LegacyRows
    <3>1. file \in [Req -> Content]
      BY DEF Init, Quiet
    <3>2. frozen \in [Req -> Check]
      BY <2>2, <3>1 DEF LegacyRows, Check
    <3>3. task \in [Task -> {"none", "pending", "done", "error"}]
      BY <2>2 DEF LegacyRows
    <3> QED BY <3>2, <3>3
  <2> QED BY <2>1, <2>2 DEF Init
<1>3. stage \in {"none", "tasked"} /\ plan \in BOOLEAN
  BY DEF Init, NoRows, LegacyRows
<1>0. GrantTypes
  BY DEF GrantTypes, Init, Quiet
<1>4. TypeOK
  BY <1>0, <1>1, <1>2, <1>3 DEF TypeOK, GrantTypes, Init, Quiet, Tasked
<1>5. Targets /\ LockHeld
  BY <1>1 DEF Targets, LockHeld, CompletePoint, AmendPoint, Holding, Init, Quiet
<1> QED BY <1>4, <1>5 DEF TypeInv

\* Every step keeps them: a call takes the lock only when it is free, and gives
\* it up in the step that ends it.
LEMMA TypeStep ==
    ASSUME TypeInv, [Next]_vars
    PROVE  TypeInv'
<1>1. CASE UNCHANGED vars
  BY <1>1 DEF TypeInv, TypeOK, Targets, LockHeld, vars, dbvars, grantvars
<1>2. CASE Environment
  <2>1. CASE \E r \in Req : EditFile(r)
    BY <2>1 DEF TypeInv, TypeOK, Targets, LockHeld, EditFile, dbvars, grantvars
  <2>2. CASE AllowAmend \/ GrantExpires \/ OtherLoads \/ OtherSaves
    <3>1. UNCHANGED <<dbvars, lock, file, log, call, proof>>
      BY <2>2 DEF AllowAmend, GrantExpires, OtherLoads, OtherSaves
    <3>2. GrantTypes'
      BY <2>2, GrantTypesStay DEF TypeInv
    <3> QED BY <3>1, <3>2 DEF TypeInv, TypeOK, GrantTypes, Targets, LockHeld, dbvars
  <2> QED BY <1>2, <2>1, <2>2 DEF Environment
<1>3. ASSUME NEW c \in Client,
             AuditAfterCommit(c) \/ IntegrityError(c) \/ AmendRefused(c) \/ BusyTimeout(c)
      PROVE  TypeInv'
  <2>1. Others(c) /\ call'[c].at = "idle"
    BY <1>3, Returned DEF TypeInv, TypeOK, AuditAfterCommit, IntegrityError, AmendRefused,
      BusyTimeout
  <2>2. UNCHANGED <<dbvars, lock, file, log, proof, grantvars>>
    BY <1>3 DEF AuditAfterCommit, IntegrityError, AmendRefused, BusyTimeout, OnlyCall
  <2>3. call[c].at \notin Holding
    BY <1>3 DEF AuditAfterCommit, IntegrityError, AmendRefused, BusyTimeout,
      UniqueViolation, Waiting, Holding
  <2> QED BY <2>1, <2>2, <2>3, SpecAssumption
    DEF TypeInv, TypeOK, Targets, LockHeld, CompletePoint, AmendPoint, Holding, Others,
      dbvars, grantvars
<1>4. ASSUME NEW c \in Client, SpecifyFeature(c) PROVE TypeInv'
  <2>1. /\ Others(c)
        /\ call'[c].at = "audit"
        /\ call'[c].task = call[c].task /\ call'[c].req = call[c].req
    BY <1>4, WentOn DEF TypeInv, TypeOK, SpecifyFeature, ControlPoint
  <2> QED BY <1>4, <2>1, SpecAssumption
    DEF TypeInv, TypeOK, Targets, LockHeld, CompletePoint, AmendPoint, Holding, Others,
      SpecifyFeature, Tasked, grantvars
<1>5. ASSUME NEW c \in Client, PlanFeature(c) PROVE TypeInv'
  <2>1. /\ Others(c)
        /\ call'[c].at = "plan_write"
        /\ call'[c].task = call[c].task /\ call'[c].req = call[c].req
    BY <1>5, WentOn DEF TypeInv, TypeOK, PlanFeature, ControlPoint
  <2> QED BY <1>5, <2>1, SpecAssumption
    DEF TypeInv, TypeOK, Targets, LockHeld, CompletePoint, AmendPoint, Holding, Others,
      PlanFeature, OnlyCall, dbvars, grantvars
<1>6. ASSUME NEW c \in Client, PlanWrite(c) PROVE TypeInv'
  <2>1. /\ Others(c)
        /\ call'[c].at = "audit"
        /\ call'[c].task = call[c].task /\ call'[c].req = call[c].req
    BY <1>6, WentOn DEF TypeInv, TypeOK, PlanWrite, ControlPoint
  <2> QED BY <1>6, <2>1, SpecAssumption
    DEF TypeInv, TypeOK, Targets, LockHeld, CompletePoint, AmendPoint, Holding, Others,
      PlanWrite, grantvars
<1>7. ASSUME NEW c \in Client, NEW ts \in SUBSET Task, TasksFeature(c, ts) PROVE TypeInv'
  <2>1. /\ Others(c)
        /\ call'[c].at = "tasks_baseline"
    BY <1>7, TasksFeatureMoves DEF TypeInv
  <2> QED BY <1>7, <2>1, SpecAssumption
    DEF TypeInv, TypeOK, Targets, LockHeld, CompletePoint, AmendPoint, Holding, Others,
      TasksFeature, OnlyCall, dbvars, grantvars
<1>8. ASSUME NEW c \in Client, ObserveBaseline(c) PROVE TypeInv'
  <2>1. /\ Others(c)
        /\ call'[c].at = (IF call[c].at = "tasks_baseline" THEN "tasks_write"
                            ELSE "amend_write")
        /\ call'[c].task = call[c].task /\ call'[c].req = call[c].req
    BY <1>8, ObserveBaselineMoves DEF TypeInv
  <2> QED BY <1>8, <2>1, SpecAssumption
    DEF TypeInv, TypeOK, Targets, LockHeld, CompletePoint, AmendPoint, Holding, Others,
      ObserveBaseline, OnlyCall, dbvars, grantvars
<1>9. ASSUME NEW c \in Client, TasksWrite(c) PROVE TypeInv'
  <2>1. /\ Others(c)
        /\ call'[c].at = "tasks_commit"
        /\ call'[c].task = call[c].task /\ call'[c].req = call[c].req
    BY <1>9, WentOn DEF TypeInv, TypeOK, TasksWrite, ControlPoint
  <2>2. TypeOK'
    BY <1>9, <2>1 DEF TypeInv, TypeOK, Targets, CompletePoint, AmendPoint, Others,
      TasksWrite, dbvars, grantvars, Record
  <2>3. Targets'
    BY <1>9, <2>1 DEF TypeInv, Targets, CompletePoint, AmendPoint, Others, TasksWrite
  <2>4. LockHeld'
    BY <1>9, <2>1, SpecAssumption DEF TypeInv, LockHeld, Holding, Others, TasksWrite
  <2> QED BY <2>2, <2>3, <2>4 DEF TypeInv
<1>10. ASSUME NEW c \in Client, TasksCommit(c) PROVE TypeInv'
  <2>1. /\ Others(c)
        /\ call'[c].at \in {"idle", "tasks_run"}
        /\ call[c].checks \in [Req -> Check \cup {None}]
    BY <1>10, WentOn, Returned DEF TypeInv, TypeOK, TasksCommit, ControlPoint, Call
  <2>2. TypeOK'
    BY <1>10, <2>1 DEF TypeInv, TypeOK, Others, TasksCommit, Tasked, grantvars
  <2>3. Targets'
    BY <1>10, <2>1 DEF TypeInv, Targets, CompletePoint, AmendPoint, Others, TasksCommit
  <2>4. LockHeld'
    BY <1>10, <2>1, SpecAssumption DEF TypeInv, LockHeld, Holding, Others, TasksCommit
  <2> QED BY <2>2, <2>3, <2>4 DEF TypeInv
<1>11. ASSUME NEW c \in Client, TasksRun(c) PROVE TypeInv'
  <2>1. /\ Others(c)
        /\ call'[c].at \in {"idle", "errors_write"}
    BY <1>11, TasksRunMoves DEF TypeInv
  <2> QED BY <1>11, <2>1, SpecAssumption
    DEF TypeInv, TypeOK, Targets, LockHeld, CompletePoint, AmendPoint, Holding, Others,
      TasksRun, OnlyCall, dbvars, grantvars
<1>12. ASSUME NEW c \in Client, ErrorsWrite(c) PROVE TypeInv'
  <2>1. /\ Others(c)
        /\ call'[c] = Idle /\ call'[c].at = "idle"
    BY <1>12, Returned DEF TypeInv, TypeOK, ErrorsWrite
  <2> QED BY <1>12, <2>1, SpecAssumption
    DEF TypeInv, TypeOK, Targets, LockHeld, CompletePoint, AmendPoint, Holding, Others,
      ErrorsWrite, grantvars
<1>13. ASSUME NEW c \in Client, NEW t \in Task, CompleteTask(c, t) PROVE TypeInv'
  <2>1. /\ Others(c)
        /\ call'[c].at = "complete_tasks" /\ call'[c].task = t
    BY <1>13, CompleteTaskMoves DEF TypeInv
  <2> QED BY <1>13, <2>1, SpecAssumption
    DEF TypeInv, TypeOK, Targets, LockHeld, CompletePoint, AmendPoint, Holding, Others,
      CompleteTask, OnlyCall, dbvars, grantvars
<1>14. ASSUME NEW c \in Client, CompleteReadTasks(c) PROVE TypeInv'
  <2>1. /\ Others(c)
        /\ call'[c].at \in {"idle", "complete_checks"}
        /\ call'[c].at = "complete_checks" => call'[c].task = call[c].task
    BY <1>14, CompleteReadTasksMoves DEF TypeInv
  <2> QED BY <1>14, <2>1, SpecAssumption
    DEF TypeInv, TypeOK, Targets, LockHeld, CompletePoint, AmendPoint, Holding, Others,
      CompleteReadTasks, OnlyCall, dbvars, grantvars
<1>15. ASSUME NEW c \in Client, CompleteReadChecks(c) PROVE TypeInv'
  <2>1. /\ Others(c)
        /\ call'[c].at = "complete_judge" /\ call'[c].task = call[c].task
    BY <1>15, CompleteReadChecksMoves DEF TypeInv
  <2> QED BY <1>15, <2>1, SpecAssumption
    DEF TypeInv, TypeOK, Targets, LockHeld, CompletePoint, AmendPoint, Holding, Others,
      CompleteReadChecks, OnlyCall, dbvars, grantvars
<1>16. ASSUME NEW c \in Client, CompleteJudge(c) PROVE TypeInv'
  <2>1. /\ Others(c)
        /\ call'[c].at \in {"idle", "complete_run"}
        /\ call'[c].at = "complete_run" => call'[c].task = call[c].task
    BY <1>16, WentOn, Returned DEF TypeInv, TypeOK, CompleteJudge, ControlPoint
  <2> QED BY <1>16, <2>1, SpecAssumption
    DEF TypeInv, TypeOK, Targets, LockHeld, CompletePoint, AmendPoint, Holding, Others,
      CompleteJudge, OnlyCall, dbvars, grantvars
<1>17. ASSUME NEW c \in Client, NEW r \in Req, CompleteRunCheck(c, r) PROVE TypeInv'
  <2>1. /\ Others(c)
        /\ call'[c].at \in {"complete_run", "complete_gate"} /\ call'[c].task = call[c].task
    BY <1>17, CompleteRunCheckMoves DEF TypeInv
  <2> QED BY <1>17, <2>1, SpecAssumption
    DEF TypeInv, TypeOK, Targets, LockHeld, CompletePoint, AmendPoint, Holding, Others,
      CompleteRunCheck, OnlyCall, dbvars, grantvars
<1>18. ASSUME NEW c \in Client, CompleteGate(c) PROVE TypeInv'
  <2>1. /\ Others(c)
        /\ call'[c].at = "complete_write"
        /\ call'[c].task = call[c].task /\ call'[c].req = call[c].req
    BY <1>18, WentOn DEF TypeInv, TypeOK, CompleteGate, ControlPoint
  <2> QED BY <1>18, <2>1, SpecAssumption
    DEF TypeInv, TypeOK, Targets, LockHeld, CompletePoint, AmendPoint, Holding, Others,
      CompleteGate, OnlyCall, dbvars, grantvars
<1>19. ASSUME NEW c \in Client, CompleteWrite(c) PROVE TypeInv'
  <2>1. /\ Others(c)
        /\ call'[c].at = "complete_commit"
        /\ call'[c].task = call[c].task /\ call'[c].req = call[c].req
    BY <1>19, WentOn DEF TypeInv, TypeOK, CompleteWrite, ControlPoint
  <2>2. TypeOK'
    BY <1>19, <2>1 DEF TypeInv, TypeOK, Targets, CompletePoint, AmendPoint, Others,
      CompleteWrite, dbvars, grantvars, Record
  <2>3. Targets'
    BY <1>19, <2>1 DEF TypeInv, Targets, CompletePoint, AmendPoint, Others,
      CompleteWrite
  <2>4. LockHeld'
    BY <1>19, <2>1, SpecAssumption DEF TypeInv, LockHeld, Holding, Others, CompleteWrite
  <2> QED BY <2>2, <2>3, <2>4 DEF TypeInv
<1>20. ASSUME NEW c \in Client, CompleteCommit(c) PROVE TypeInv'
  <2>1. /\ Others(c)
        /\ call'[c] = Idle /\ call'[c].at = "idle"
    BY <1>20, Returned DEF TypeInv, TypeOK, CompleteCommit
  <2>2. TypeOK'
    BY <1>20, <2>1 DEF TypeInv, TypeOK, Others, CompleteCommit, grantvars, Acceptance,
      Tasked, Call
  <2>3. Targets'
    BY <1>20, <2>1 DEF TypeInv, Targets, CompletePoint, AmendPoint, Others,
      CompleteCommit
  <2>4. LockHeld'
    BY <1>20, <2>1, SpecAssumption DEF TypeInv, LockHeld, Holding, Others,
      CompleteCommit
  <2> QED BY <2>2, <2>3, <2>4 DEF TypeInv
<1>21. ASSUME NEW c \in Client, NEW r \in Req, NEW direct \in BOOLEAN, AmendCheck(c, r, direct)
      PROVE  TypeInv'
  <2>1. /\ Others(c)
        /\ call'[c].at = "amend_baseline" /\ call'[c].req = r
    BY <1>21, AmendCheckMoves DEF TypeInv
  <2> QED BY <1>21, <2>1, SpecAssumption
    DEF TypeInv, TypeOK, Targets, LockHeld, CompletePoint, AmendPoint, Holding, Others,
      AmendCheck, OnlyCall, dbvars, grantvars
<1>22. ASSUME NEW c \in Client, AmendWrite(c) PROVE TypeInv'
  <2>1. /\ Others(c)
        /\ call'[c].at \in {"amend_revoke", "amend_commit"}
        /\ call'[c].task = call[c].task /\ call'[c].req = call[c].req
    BY <1>22, WentOn DEF TypeInv, TypeOK, AmendWrite, ControlPoint
  <2>2. TypeOK'
    BY <1>22, <2>1 DEF TypeInv, TypeOK, Targets, CompletePoint, AmendPoint, Others,
      AmendWrite, dbvars, grantvars, Record
  <2>3. Targets'
    BY <1>22, <2>1 DEF TypeInv, Targets, CompletePoint, AmendPoint, Others, AmendWrite
  <2>4. LockHeld'
    BY <1>22, <2>1, SpecAssumption DEF TypeInv, LockHeld, Holding, Others, AmendWrite
  <2> QED BY <2>2, <2>3, <2>4 DEF TypeInv
<1>23. ASSUME NEW c \in Client, Revoking(c) PROVE TypeInv'
  <2>1. /\ Others(c) /\ UNCHANGED <<dbvars, file, log, proof>>
        /\ call[c].at \in {"amend_revoke", "amend_replace"}
        /\ \/ /\ lock' = lock /\ call'[c].at \in {"amend_replace", "amend_commit"}
              /\ call'[c].req = call[c].req
           \/ lock' = None /\ call'[c].at = "idle"
    BY <1>23, RevokingMoves DEF TypeInv
  <2>2. TypeOK'
    <3>1. GrantTypes'
      BY <1>23, GrantTypesStay DEF TypeInv
    <3> QED BY <2>1, <3>1 DEF TypeInv, TypeOK, GrantTypes, Others, dbvars
  <2>3. Targets'
    BY <2>1 DEF TypeInv, Targets, CompletePoint, AmendPoint, Others
  <2>4. LockHeld'
    BY <2>1, SpecAssumption DEF TypeInv, LockHeld, Holding, Others
  <2> QED BY <2>2, <2>3, <2>4 DEF TypeInv
<1>24. ASSUME NEW c \in Client, AmendCommit(c) PROVE TypeInv'
  <2>1. /\ Others(c)
        /\ call'[c] = Idle /\ call'[c].at = "idle"
    BY <1>24, Returned DEF TypeInv, TypeOK, AmendCommit
  <2>2. TypeOK'
    <3>1. call[c].req \in Req /\ call[c].checks[call[c].req] \in Check \cup {None}
      BY <1>24 DEF TypeInv, TypeOK, Targets, AmendPoint, AmendCommit, Call
    <3>2. /\ frozen' \in [Req -> Check \cup {None}]
          /\ stage' \in {"none", "specified", "planned"} \cup Tasked
          /\ task' \in [Task -> {"none", "pending", "done", "error"}]
          /\ amended' \in [Grant -> Nat]
      <4>1. amended \in [Grant -> Nat]
        BY DEF TypeInv, TypeOK
      <4>2. amended' = amended \/ amended' = [amended EXCEPT ![call[c].grant] = @ + 1]
        BY <1>24 DEF AmendCommit
      <4>3. amended' \in [Grant -> Nat]
        BY <4>1, <4>2
      <4> QED BY <1>24, <3>1, <4>3 DEF TypeInv, TypeOK, AmendCommit, Tasked
    <3> QED BY <1>24, <2>1, <3>2
      DEF TypeInv, TypeOK, AmendCommit, Others
  <2>3. Targets'
    BY <1>24, <2>1 DEF TypeInv, Targets, CompletePoint, AmendPoint, Others, AmendCommit
  <2>4. LockHeld'
    BY <1>24, <2>1, SpecAssumption DEF TypeInv, LockHeld, Holding, Others, AmendCommit
  <2> QED BY <2>2, <2>3, <2>4 DEF TypeInv
<1>25. ASSUME NEW c \in Client, VerifyFeature(c) PROVE TypeInv'
  <2>1. /\ Others(c)
        /\ call'[c].at = "verify_read"
    BY <1>25, VerifyFeatureMoves DEF TypeInv
  <2> QED BY <1>25, <2>1, SpecAssumption
    DEF TypeInv, TypeOK, Targets, LockHeld, CompletePoint, AmendPoint, Holding, Others,
      VerifyFeature, OnlyCall, dbvars, grantvars
<1>26. ASSUME NEW c \in Client, VerifyRead(c) PROVE TypeInv'
  <2>1. /\ Others(c)
        /\ call'[c].at \in {"idle", "verify_write"}
    BY <1>26, WentOn, Returned DEF TypeInv, TypeOK, VerifyRead, ControlPoint
  <2> QED BY <1>26, <2>1, SpecAssumption
    DEF TypeInv, TypeOK, Targets, LockHeld, CompletePoint, AmendPoint, Holding, Others,
      VerifyRead, OnlyCall, dbvars, grantvars
<1>27. ASSUME NEW c \in Client, VerifyWrite(c) PROVE TypeInv'
  <2>1. /\ Others(c)
        /\ call'[c].at = "verify_commit"
        /\ call'[c].task = call[c].task /\ call'[c].req = call[c].req
    BY <1>27, WentOn DEF TypeInv, TypeOK, VerifyWrite, ControlPoint
  <2>2. TypeOK'
    BY <1>27, <2>1 DEF TypeInv, TypeOK, Targets, CompletePoint, AmendPoint, Others,
      VerifyWrite, dbvars, grantvars, Record
  <2>3. Targets'
    BY <1>27, <2>1 DEF TypeInv, Targets, CompletePoint, AmendPoint, Others, VerifyWrite
  <2>4. LockHeld'
    BY <1>27, <2>1, SpecAssumption DEF TypeInv, LockHeld, Holding, Others, VerifyWrite
  <2> QED BY <2>2, <2>3, <2>4 DEF TypeInv
<1>28. ASSUME NEW c \in Client, VerifyCommit(c) PROVE TypeInv'
  <2>1. /\ Others(c)
        /\ call'[c] = Idle /\ call'[c].at = "idle"
    BY <1>28, Returned DEF TypeInv, TypeOK, VerifyCommit
  <2> QED BY <1>28, <2>1, SpecAssumption
    DEF TypeInv, TypeOK, Targets, LockHeld, CompletePoint, AmendPoint, Holding, Others,
      VerifyCommit, Tasked, grantvars
<1>29. ASSUME NEW c \in Client, Abort(c) PROVE TypeInv'
  <2>1. /\ Others(c)
        /\ call'[c] = Idle /\ call'[c].at = "idle"
    BY <1>29, Returned DEF TypeInv, TypeOK, Abort
  <2> QED BY <1>29, <2>1, SpecAssumption
    DEF TypeInv, TypeOK, Targets, LockHeld, CompletePoint, AmendPoint, Holding, Others,
      Abort, dbvars, grantvars
<1> QED
  BY <1>1, <1>2, <1>3, <1>4, <1>5, <1>6, <1>7, <1>8, <1>9, <1>10, <1>11, <1>12, <1>13,
    <1>14, <1>15, <1>16, <1>17, <1>18, <1>19, <1>20, <1>21, <1>22, <1>23, <1>24, <1>25,
    <1>26, <1>27, <1>28, <1>29 DEF Next, Start, Proceed, Revoking

\* Every reachable state is well typed, whatever the clients do at once, and
\* the write lock is held by exactly the call that is inside a transaction.
THEOREM TypeCorrect == Spec => [](TypeOK /\ Targets /\ LockHeld)
<1>1. TypeInv /\ [Next]_vars => TypeInv'
  BY TypeStep
<1> QED BY <1>1, TypeInit, PTL DEF Spec, TypeInv

-----------------------------------------------------------------------------
(* LifecycleInv *)

\* What a call in flight may still rely on although it read it long ago, and
\* nothing has been locked since: that what it was about exists, that a
\* tasked specification stays tasked, that the task list does not change.
\* Between TasksWrite and TasksCommit, inside the transaction, the unique keys
\* have shown that nothing was there.
StageKnown(c) ==
    /\ call[c].at = "plan_write" => stage # "none"
    /\ call[c].at \in {"tasks_baseline", "tasks_write", "tasks_commit"} =>
          /\ stage # "none"
          /\ call[c].list # {}
          /\ \A t \in call[c].list : TaskReqs[t] # {} /\ TaskDeps[t] \subseteq call[c].list
          /\ \A r \in Req : call[c].checks[r] # None
          /\ call[c].flag => trivial
          /\ ~call[c].flag => plan
    /\ call[c].at = "tasks_commit" => stage \notin Tasked /\ (call[c].flag => ~plan)
    /\ call[c].at \in CompletePoint \cup AmendPoint
                       \cup {"tasks_run", "errors_write",
                             "verify_read", "verify_write", "verify_commit"} =>
          stage \in Tasked
    /\ call[c].at \in {"tasks_run", "errors_write"} => call[c].list \subseteq Existing
    /\ call[c].at \in CompletePoint \ {"complete_tasks"} => call[c].task \in Existing
    /\ call[c].at \in AmendPoint => call[c].checks[call[c].req] # None
    /\ call[c].at \in {"verify_write", "verify_commit"} =>
          stage \in {"implementing", "verified"}

LifecycleInv == StageCoherent /\ \A c \in Client : StageKnown(c)

\* What no step takes back: TaskListFixed, and the plan and the complexity of a
\* specification that exists.
Forward ==
    /\ StageStep
    /\ stage \in Tasked => Existing' = Existing
    /\ plan => plan'
    /\ stage # "none" => trivial' = trivial

\* A step that leaves the rows as they are keeps the tables coherent.
LEMMA RowsUnchanged ==
    ASSUME StageCoherent, UNCHANGED dbvars
    PROVE  StageCoherent' /\ Forward
BY DEF StageCoherent, Forward, StageStep, dbvars, Existing, Done, Tasked

\* What a call knows outlives every step that only goes forward; what it knows
\* inside its transaction, every step that leaves the rows as they are.
LEMMA KnownStays ==
    ASSUME StageCoherent, Forward, NEW c \in Client, StageKnown(c), call'[c] = call[c],
           call[c].at = "tasks_commit" => UNCHANGED dbvars
    PROVE  StageKnown(c)'
<1>1. /\ stage # "none" => stage' # "none"
      /\ stage \in Tasked => stage' \in Tasked
      /\ stage \in {"implementing", "verified"} => stage' \in {"implementing", "verified"}
  BY DEF Forward, StageStep, Tasked
<1>2. stage \in Tasked => Existing' = Existing
  BY DEF Forward
<1>3. call[c].at \in {"tasks_run", "errors_write"} \cup CompletePoint => stage \in Tasked
  BY DEF StageKnown
<1>4. stage # "none" => trivial' = trivial
  BY DEF Forward
<1>5. plan => plan'
  BY DEF Forward
<1>6. /\ call'[c].at = "plan_write" => stage' # "none"
      /\ call'[c].at \in {"tasks_baseline", "tasks_write", "tasks_commit"} =>
            /\ stage' # "none"
            /\ call'[c].list # {}
            /\ \A t \in call'[c].list : TaskReqs[t] # {} /\ TaskDeps[t] \subseteq call'[c].list
            /\ \A r \in Req : call'[c].checks[r] # None
            /\ call'[c].flag => trivial'
            /\ ~call'[c].flag => plan'
  BY <1>1, <1>4, <1>5 DEF StageKnown
<1>7. /\ call'[c].at = "tasks_commit" => stage' \notin Tasked /\ (call'[c].flag => ~plan')
  BY DEF StageKnown, dbvars
<1>8. /\ call'[c].at \in CompletePoint \cup AmendPoint
                          \cup {"tasks_run", "errors_write",
                                "verify_read", "verify_write", "verify_commit"} =>
            stage' \in Tasked
      /\ call'[c].at \in AmendPoint => call'[c].checks[call'[c].req] # None
      /\ call'[c].at \in {"verify_write", "verify_commit"} =>
            stage' \in {"implementing", "verified"}
  BY <1>1 DEF StageKnown
<1>9. /\ call'[c].at \in {"tasks_run", "errors_write"} => call'[c].list \subseteq Existing'
      /\ call'[c].at \in CompletePoint \ {"complete_tasks"} => call'[c].task \in Existing'
  BY <1>2, <1>3 DEF StageKnown
<1> QED BY <1>6, <1>7, <1>8, <1>9 DEF StageKnown

\* So a call's step needs to be looked at for the tables and its own call only,
\* if it changes rows under the lock or when nobody holds it.
LEMMA OwnStep ==
    ASSUME TypeInv, LifecycleInv, NEW c \in Client, Others(c),
           StageCoherent', Forward, StageKnown(c)',
           lock \in {None, c} \/ UNCHANGED dbvars
    PROVE  LifecycleInv' /\ Forward
<1>1. ASSUME NEW d \in Client, d # c PROVE StageKnown(d)'
  <2>1. call[d].at = "tasks_commit" => lock = d
    BY DEF TypeInv, LockHeld, Holding
  <2>2. call[d].at = "tasks_commit" => UNCHANGED dbvars
    BY <1>1, <2>1, SpecAssumption
  <2>3. call'[d] = call[d]
    BY <1>1 DEF Others
  <2> QED BY <2>2, <2>3, KnownStays DEF LifecycleInv
<1> QED BY <1>1 DEF LifecycleInv

\* Before the first call: a specification that does not exist, or one tasked by
\* an older version.
LEMMA LifecycleInit == Init => LifecycleInv
<1> SUFFICES ASSUME Init PROVE LifecycleInv
  OBVIOUS
<1>1. \A c \in Client : call[c].at = "idle"
  BY DEF Init, Quiet, Idle
<1>2. \A c \in Client : StageKnown(c)
  BY <1>1 DEF StageKnown, CompletePoint, AmendPoint
<1>3. CASE NoRows
  BY <1>2, <1>3 DEF LifecycleInv, NoRows, StageCoherent, Existing, Done, Tasked, NoChecks
<1>4. CASE LegacyRows
  <2>1. \A r \in Req : frozen[r] # None
    <3>1. frozen \in [Req -> Check]
      BY <1>4 DEF LegacyRows, Check, Init, Quiet
    <3> QED BY <3>1, SpecAssumption
  <2>2. Existing # {} /\ Done = {}
    BY <1>4 DEF LegacyRows, ValidTasks, Existing, Done
  <2> QED BY <1>2, <1>4, <2>1, <2>2 DEF LifecycleInv, LegacyRows, StageCoherent, Tasked
<1> QED BY <1>2, <1>3, <1>4 DEF LifecycleInv, Init

\* A step keeps the tables coherent and goes only forward: every verb's guard was
\* true when it was read, and what it read cannot be taken back.
LEMMA LifecycleStep ==
    ASSUME TypeInv, LifecycleInv, [Next]_vars
    PROVE  LifecycleInv' /\ Forward
<1> USE DEF LifecycleInv
<1>1. CASE UNCHANGED <<dbvars, call>>
  <2>1. StageCoherent' /\ Forward
    BY <1>1, RowsUnchanged
  <2>2. ASSUME NEW c \in Client PROVE StageKnown(c)'
    BY <1>1, <2>1, KnownStays
  <2> QED BY <2>1, <2>2
<1>2. ASSUME NEW c \in Client,
             \/ AuditAfterCommit(c) \/ IntegrityError(c) \/ AmendRefused(c)
             \/ BusyTimeout(c) \/ Abort(c)
      PROVE  LifecycleInv' /\ Forward
  <2>1. Others(c) /\ call'[c].at = "idle"
    BY <1>2, Returned DEF TypeInv, TypeOK, AuditAfterCommit, IntegrityError, AmendRefused,
      BusyTimeout, Abort
  <2>2. UNCHANGED dbvars
    BY <1>2 DEF AuditAfterCommit, IntegrityError, AmendRefused, BusyTimeout, Abort, OnlyCall
  <2>3. StageKnown(c)'
    BY <2>1 DEF StageKnown, CompletePoint, AmendPoint
  <2> QED BY <2>1, <2>2, <2>3, RowsUnchanged, OwnStep
<1>3. ASSUME NEW c \in Client, SpecifyFeature(c) PROVE LifecycleInv' /\ Forward
  <2>1. Others(c) /\ call'[c].at = "audit"
    BY <1>3, WentOn DEF TypeInv, TypeOK, SpecifyFeature, ControlPoint
  <2>2. StageCoherent' /\ Forward
    BY <1>3 DEF SpecifyFeature, StageCoherent, Forward, StageStep, Existing, Done, Tasked
  <2>3. StageKnown(c)'
    BY <2>1 DEF StageKnown, CompletePoint, AmendPoint
  <2> QED BY <1>3, <2>1, <2>2, <2>3, OwnStep DEF SpecifyFeature
<1>4. ASSUME NEW c \in Client, PlanFeature(c) PROVE LifecycleInv' /\ Forward
  <2>1. /\ Others(c)
        /\ call'[c].at = "plan_write"
    BY <1>4, WentOn DEF TypeInv, TypeOK, PlanFeature, ControlPoint
  <2>2. UNCHANGED dbvars
    BY <1>4 DEF PlanFeature, OnlyCall
  <2>3. StageKnown(c)'
    BY <1>4, <2>1, <2>2, SpecAssumption DEF PlanFeature, StageKnown, CompletePoint,
      AmendPoint, dbvars
  <2> QED BY <2>1, <2>2, <2>3, RowsUnchanged, OwnStep
<1>5. ASSUME NEW c \in Client, PlanWrite(c) PROVE LifecycleInv' /\ Forward
  <2>1. Others(c) /\ call'[c].at = "audit"
    BY <1>5, WentOn DEF TypeInv, TypeOK, PlanWrite, ControlPoint
  <2>2. ~plan /\ stage # "none"
    BY <1>5 DEF PlanWrite, UniqueViolation, StageKnown
  <2>3. stage = "specified"
    BY <2>2 DEF TypeInv, TypeOK, StageCoherent
  <2>4. StageCoherent' /\ Forward
    BY <1>5, <2>3 DEF PlanWrite, StageCoherent, Forward, StageStep, Existing, Done, Tasked
  <2>5. StageKnown(c)'
    BY <2>1 DEF StageKnown, CompletePoint, AmendPoint
  <2> QED BY <1>5, <2>1, <2>4, <2>5, OwnStep DEF PlanWrite
<1>6. ASSUME NEW c \in Client, NEW ts \in SUBSET Task, TasksFeature(c, ts)
      PROVE  LifecycleInv' /\ Forward
  <2>1. /\ Others(c) /\ call'[c].at = "tasks_baseline" /\ call'[c].list = ts
        /\ call'[c].flag = (stage = "specified")
        /\ \A r \in Req : call'[c].checks[r] \in Check
    BY <1>6, TasksFeatureMoves DEF TypeInv
  <2>2. UNCHANGED dbvars
    BY <1>6 DEF TasksFeature, OnlyCall
  <2>3. \A r \in Req : call'[c].checks[r] # None
    BY <2>1, SpecAssumption
  <2>4. ts # {} /\ \A t \in ts : TaskReqs[t] # {} /\ TaskDeps[t] \subseteq ts
    BY <1>6 DEF TasksFeature, ValidTasks
  <2>5. /\ stage # "none"
        /\ stage = "specified" => trivial
        /\ stage # "specified" => plan
    BY <1>6 DEF TasksFeature, StageCoherent
  <2>6. StageKnown(c)'
    BY <2>1, <2>2, <2>3, <2>4, <2>5 DEF StageKnown, CompletePoint, AmendPoint, dbvars
  <2> QED BY <2>1, <2>2, <2>6, RowsUnchanged, OwnStep
<1>7. ASSUME NEW c \in Client, ObserveBaseline(c) PROVE LifecycleInv' /\ Forward
  <2>1. /\ Others(c)
        /\ call'[c].at = IF call[c].at = "tasks_baseline" THEN "tasks_write"
                         ELSE "amend_write"
        /\ call'[c].req = call[c].req /\ call'[c].list = call[c].list
        /\ call'[c].flag = call[c].flag
        /\ \A r \in Req : call'[c].checks[r] = None <=> call[c].checks[r] = None
    BY <1>7, ObserveBaselineMoves DEF TypeInv
  <2>2. UNCHANGED dbvars
    BY <1>7 DEF ObserveBaseline, OnlyCall
  <2>3. call[c].at = "amend_baseline" => call[c].req \in Req
    BY DEF TypeInv, Targets, AmendPoint
  <2>4. StageKnown(c)'
    <3>1. CASE call[c].at = "tasks_baseline"
      <4>1. \A r \in Req : call'[c].checks[r] # None
        BY <2>1, <3>1 DEF StageKnown
      <4> QED BY <2>1, <2>2, <3>1, <4>1 DEF StageKnown, CompletePoint, AmendPoint, dbvars
    <3>2. CASE call[c].at = "amend_baseline"
      <4>1. stage \in Tasked /\ call'[c].checks[call'[c].req] # None
        BY <2>1, <2>3, <3>2 DEF StageKnown, AmendPoint
      <4> QED BY <2>1, <2>2, <3>2, <4>1
        DEF StageKnown, CompletePoint, AmendPoint, dbvars, Tasked
    <3> QED BY <1>7, <3>1, <3>2 DEF ObserveBaseline
  <2> QED BY <2>1, <2>2, <2>4, RowsUnchanged, OwnStep
<1>8. ASSUME NEW c \in Client, TasksWrite(c) PROVE LifecycleInv' /\ Forward
  <2>1. /\ Others(c) /\ call'[c].at = "tasks_commit"
        /\ call'[c].list = call[c].list /\ call'[c].checks = call[c].checks
        /\ call'[c].flag = call[c].flag
    BY <1>8, WentOn DEF TypeInv, TypeOK, TasksWrite, ControlPoint
  <2>2. UNCHANGED dbvars
    BY <1>8 DEF TasksWrite
  <2>3. /\ call[c].list # {} /\ \A t \in call[c].list : TaskReqs[t] # {}
        /\ call[c].flag => ~plan
        /\ \A r \in Req : frozen[r] = None
    BY <1>8 DEF TasksWrite, UniqueViolation, StageKnown
  <2>4. stage \notin Tasked
    <3>1. call[c].list \subseteq Task
      BY DEF TypeInv, TypeOK, Call
    <3>2. PICK r \in Req : TRUE
      BY <2>3, <3>1, SpecAssumption
    <3> QED BY <2>3, <3>2 DEF StageCoherent
  <2>5. StageKnown(c)'
    BY <1>8, <2>1, <2>2, <2>3, <2>4
    DEF TasksWrite, StageKnown, CompletePoint, AmendPoint, dbvars, Tasked
  <2> QED BY <2>1, <2>2, <2>5, RowsUnchanged, OwnStep
<1>9. ASSUME NEW c \in Client, TasksCommit(c) PROVE LifecycleInv' /\ Forward
  <2>1. /\ Others(c) /\ call'[c].at \in {"idle", "tasks_run"}
        /\ call'[c].at = "tasks_run" => call'[c].list = call[c].list
    BY <1>9, WentOn, Returned DEF TypeInv, TypeOK, TasksCommit, ControlPoint
  <2>2. /\ stage \notin Tasked /\ stage # "none" /\ call[c].list # {}
        /\ \A r \in Req : call[c].checks[r] # None
        /\ call[c].flag => ~plan /\ trivial
        /\ ~call[c].flag => plan
    BY <1>9 DEF TasksCommit, StageKnown
  <2>3. call[c].list \subseteq Task /\ call[c].flag \in BOOLEAN
    BY DEF TypeInv, TypeOK, Call
  <2>4. \/ stage = "specified" /\ trivial /\ call[c].flag
        \/ stage = "planned" /\ plan
    BY <2>2, <2>3 DEF TypeInv, TypeOK, StageCoherent
  <2>5. plan' /\ stage' = "tasked" /\ trivial' = trivial
    BY <1>9, <2>2, <2>3 DEF TasksCommit
  <2>6. Existing' = call[c].list /\ Done' = {}
    <3>1. \A t \in Task : task[t] = "none"
      BY <2>2, <2>4 DEF StageCoherent, Existing
    <3> QED BY <1>9, <2>3, <3>1 DEF TasksCommit, Existing, Done
  <2>7. \A r \in Req : frozen'[r] # None
    BY <1>9, <2>2 DEF TasksCommit
  <2>8. StageCoherent'
    BY <2>2, <2>5, <2>6, <2>7 DEF StageCoherent, Tasked
  <2>9. Forward
    BY <2>2, <2>4, <2>5 DEF Forward, StageStep
  <2>10. StageKnown(c)'
    BY <2>1, <2>5, <2>6 DEF StageKnown, CompletePoint, AmendPoint, Tasked
  <2>11. lock = c
    BY <1>9 DEF TasksCommit, TypeInv, LockHeld, Holding
  <2> QED BY <2>1, <2>8, <2>9, <2>10, <2>11, OwnStep
<1>10. ASSUME NEW c \in Client, TasksRun(c) PROVE LifecycleInv' /\ Forward
  <2>1. /\ Others(c)
        /\ \/ call'[c].at = "idle"
           \/ call'[c].at = "errors_write" /\ call'[c].list \subseteq call[c].list
    BY <1>10, TasksRunMoves DEF TypeInv
  <2>2. UNCHANGED dbvars /\ Existing' = Existing
    BY <1>10 DEF TasksRun, OnlyCall, dbvars, Existing
  <2>3. StageKnown(c)'
    BY <1>10, <2>1, <2>2 DEF TasksRun, StageKnown, CompletePoint, AmendPoint, dbvars
  <2> QED BY <2>1, <2>2, <2>3, RowsUnchanged, OwnStep
<1>11. ASSUME NEW c \in Client, ErrorsWrite(c) PROVE LifecycleInv' /\ Forward
  <2>1. Others(c) /\ call'[c].at = "idle"
    BY <1>11, Returned DEF TypeInv, TypeOK, ErrorsWrite
  <2>2. call[c].list \subseteq Existing
    BY <1>11 DEF ErrorsWrite, StageKnown
  <2>3. Existing' = Existing /\ Done' \subseteq Done
    BY <1>11, <2>2 DEF ErrorsWrite, Existing, Done
  <2>4. UNCHANGED <<stage, trivial, plan, frozen>>
    BY <1>11 DEF ErrorsWrite
  <2>5. StageCoherent' /\ Forward
    BY <2>3, <2>4 DEF StageCoherent, Forward, StageStep, Tasked
  <2>6. StageKnown(c)'
    BY <2>1 DEF StageKnown, CompletePoint, AmendPoint
  <2> QED BY <1>11, <2>1, <2>5, <2>6, OwnStep DEF ErrorsWrite
<1>12. ASSUME NEW c \in Client, NEW t \in Task, CompleteTask(c, t)
      PROVE  LifecycleInv' /\ Forward
  <2>1. /\ Others(c)
        /\ call'[c].at = "complete_tasks"
    BY <1>12, CompleteTaskMoves DEF TypeInv
  <2>2. UNCHANGED dbvars
    BY <1>12 DEF CompleteTask, OnlyCall
  <2>3. StageKnown(c)'
    BY <1>12, <2>1, <2>2, SpecAssumption DEF CompleteTask, StageKnown, CompletePoint,
      AmendPoint, Tasked, dbvars
  <2> QED BY <2>1, <2>2, <2>3, RowsUnchanged, OwnStep
<1>13. ASSUME NEW c \in Client, CompleteReadTasks(c) PROVE LifecycleInv' /\ Forward
  <2>1. /\ Others(c)
        /\ \/ call'[c].at = "idle"
           \/ /\ call'[c].at = "complete_checks"
              /\ call[c].task \in Existing /\ call'[c].task = call[c].task
    BY <1>13, CompleteReadTasksMoves DEF TypeInv
  <2>2. UNCHANGED dbvars /\ Existing' = Existing
    BY <1>13 DEF CompleteReadTasks, OnlyCall, dbvars, Existing
  <2>3. StageKnown(c)'
    BY <1>13, <2>1, <2>2
    DEF CompleteReadTasks, StageKnown, CompletePoint, AmendPoint, dbvars
  <2> QED BY <2>1, <2>2, <2>3, RowsUnchanged, OwnStep
<1>14. ASSUME NEW c \in Client, CompleteReadChecks(c) PROVE LifecycleInv' /\ Forward
  <2>1. /\ Others(c) /\ call'[c].at \in {"complete_judge"}
        /\ call'[c].at # "idle" => call'[c].task = call[c].task
    BY <1>14, CompleteReadChecksMoves DEF TypeInv
  <2>2. UNCHANGED dbvars /\ Existing' = Existing
    BY <1>14 DEF CompleteReadChecks, OnlyCall, dbvars, Existing
  <2>3. StageKnown(c)'
    BY <1>14, <2>1, <2>2
    DEF CompleteReadChecks, StageKnown, CompletePoint, AmendPoint, dbvars
  <2> QED BY <2>1, <2>2, <2>3, RowsUnchanged, OwnStep
<1>15. ASSUME NEW c \in Client, CompleteJudge(c) PROVE LifecycleInv' /\ Forward
  <2>1. /\ Others(c) /\ call'[c].at \in {"idle", "complete_run"}
        /\ call'[c].at # "idle" => call'[c].task = call[c].task
    BY <1>15, WentOn, Returned DEF TypeInv, TypeOK, CompleteJudge, ControlPoint
  <2>2. UNCHANGED dbvars /\ Existing' = Existing
    BY <1>15 DEF CompleteJudge, OnlyCall, dbvars, Existing
  <2>3. StageKnown(c)'
    BY <1>15, <2>1, <2>2 DEF CompleteJudge, StageKnown, CompletePoint, AmendPoint, dbvars
  <2> QED BY <2>1, <2>2, <2>3, RowsUnchanged, OwnStep
<1>16. ASSUME NEW c \in Client, NEW r \in Req, CompleteRunCheck(c, r)
      PROVE  LifecycleInv' /\ Forward
  <2>1. /\ Others(c) /\ call'[c].at \in {"complete_run", "complete_gate"}
        /\ call'[c].at # "idle" => call'[c].task = call[c].task
    BY <1>16, CompleteRunCheckMoves DEF TypeInv
  <2>2. UNCHANGED dbvars /\ Existing' = Existing
    BY <1>16 DEF CompleteRunCheck, OnlyCall, dbvars, Existing
  <2>3. StageKnown(c)'
    BY <1>16, <2>1, <2>2 DEF CompleteRunCheck, StageKnown, CompletePoint, AmendPoint, dbvars
  <2> QED BY <2>1, <2>2, <2>3, RowsUnchanged, OwnStep
<1>17. ASSUME NEW c \in Client, CompleteGate(c) PROVE LifecycleInv' /\ Forward
  <2>1. /\ Others(c) /\ call'[c].at \in {"complete_write"}
        /\ call'[c].at # "idle" => call'[c].task = call[c].task
    BY <1>17, WentOn DEF TypeInv, TypeOK, CompleteGate, ControlPoint
  <2>2. UNCHANGED dbvars /\ Existing' = Existing
    BY <1>17 DEF CompleteGate, OnlyCall, dbvars, Existing
  <2>3. StageKnown(c)'
    BY <1>17, <2>1, <2>2 DEF CompleteGate, StageKnown, CompletePoint, AmendPoint, dbvars
  <2> QED BY <2>1, <2>2, <2>3, RowsUnchanged, OwnStep
<1>18. ASSUME NEW c \in Client, CompleteWrite(c) PROVE LifecycleInv' /\ Forward
  <2>1. /\ Others(c) /\ call'[c].at \in {"complete_commit"}
        /\ call'[c].at # "idle" => call'[c].task = call[c].task
    BY <1>18, WentOn DEF TypeInv, TypeOK, CompleteWrite, ControlPoint
  <2>2. UNCHANGED dbvars /\ Existing' = Existing
    BY <1>18 DEF CompleteWrite, dbvars, Existing
  <2>3. StageKnown(c)'
    BY <1>18, <2>1, <2>2 DEF CompleteWrite, StageKnown, CompletePoint, AmendPoint, dbvars
  <2> QED BY <2>1, <2>2, <2>3, RowsUnchanged, OwnStep
<1>19. ASSUME NEW c \in Client, CompleteCommit(c) PROVE LifecycleInv' /\ Forward
  <2>1. Others(c) /\ call'[c].at = "idle"
    BY <1>19, Returned DEF TypeInv, TypeOK, CompleteCommit
  <2>2. stage \in Tasked /\ call[c].task \in Existing
    BY <1>19 DEF CompleteCommit, StageKnown, CompletePoint, AmendPoint
  <2>3. Existing' = Existing
    BY <1>19, <2>2 DEF CompleteCommit, Existing, TypeInv, TypeOK
  <2>4. StageCoherent' /\ Forward
    BY <1>19, <2>2, <2>3 DEF CompleteCommit, StageCoherent, Forward, StageStep, Tasked
  <2>5. StageKnown(c)'
    BY <2>1 DEF StageKnown, CompletePoint, AmendPoint
  <2>6. lock = c
    BY <1>19 DEF CompleteCommit, TypeInv, LockHeld, Holding
  <2> QED BY <2>1, <2>4, <2>5, <2>6, OwnStep
<1>20. ASSUME NEW c \in Client, NEW r \in Req, NEW direct \in BOOLEAN, AmendCheck(c, r, direct)
      PROVE  LifecycleInv' /\ Forward
  <2>1. /\ Others(c) /\ call'[c].at = "amend_baseline" /\ call'[c].req = r
        /\ call'[c].checks[r] \in Check
    BY <1>20, AmendCheckMoves DEF TypeInv
  <2>2. UNCHANGED dbvars /\ stage \in Tasked
    BY <1>20 DEF AmendCheck, OnlyCall
  <2>3. StageKnown(c)'
    BY <2>1, <2>2, SpecAssumption DEF StageKnown, CompletePoint, AmendPoint, dbvars, Tasked
  <2> QED BY <2>1, <2>2, <2>3, RowsUnchanged, OwnStep
<1>21. ASSUME NEW c \in Client, AmendWrite(c) PROVE LifecycleInv' /\ Forward
  <2>1. /\ Others(c) /\ call'[c].at \in {"amend_revoke", "amend_commit"}
        /\ call'[c].at # "idle" => /\ call'[c].req = call[c].req
                                   /\ call'[c].checks = call[c].checks
    BY <1>21, WentOn DEF TypeInv, TypeOK, AmendWrite, ControlPoint
  <2>2. UNCHANGED dbvars
    BY <1>21 DEF AmendWrite
  <2>3. StageKnown(c)'
    BY <1>21, <2>1, <2>2 DEF AmendWrite, StageKnown, CompletePoint, AmendPoint, dbvars
  <2> QED BY <2>1, <2>2, <2>3, RowsUnchanged, OwnStep
<1>22. ASSUME NEW c \in Client, Revoking(c) PROVE LifecycleInv' /\ Forward
  <2>1. /\ Others(c) /\ call'[c].at \in {"idle", "amend_replace", "amend_commit"}
        /\ call'[c].at # "idle" => /\ call'[c].req = call[c].req
                                   /\ call'[c].checks = call[c].checks
        /\ call[c].at \in AmendPoint
        /\ UNCHANGED dbvars
    BY <1>22, RevokingMoves DEF TypeInv, AmendPoint
  <2>2. StageKnown(c)'
    BY <2>1 DEF StageKnown, CompletePoint, AmendPoint, dbvars
  <2> QED BY <2>1, <2>2, RowsUnchanged, OwnStep
<1>23. ASSUME NEW c \in Client, AmendCommit(c) PROVE LifecycleInv' /\ Forward
  <2>1. Others(c) /\ call'[c].at = "idle"
    BY <1>23, Returned DEF TypeInv, TypeOK, AmendCommit
  <2>2. stage \in Tasked /\ call[c].checks[call[c].req] # None
    BY <1>23 DEF AmendCommit, StageKnown, CompletePoint, AmendPoint
  <2>3. Existing' = Existing /\ Done' \subseteq Done /\ \A r \in Req : frozen'[r] # None
    BY <1>23, <2>2
    DEF AmendCommit, Reopened, Existing, Done, TypeInv, TypeOK, StageCoherent
  <2>4. StageCoherent' /\ Forward
    BY <1>23, <2>2, <2>3 DEF AmendCommit, StageCoherent, Forward, StageStep, Tasked
  <2>5. StageKnown(c)'
    BY <2>1 DEF StageKnown, CompletePoint, AmendPoint
  <2>6. lock = c
    BY <1>23 DEF AmendCommit, TypeInv, LockHeld, Holding
  <2> QED BY <2>1, <2>4, <2>5, <2>6, OwnStep
<1>24. ASSUME NEW c \in Client, VerifyFeature(c) PROVE LifecycleInv' /\ Forward
  <2>1. /\ Others(c)
        /\ call'[c].at = "verify_read"
    BY <1>24, VerifyFeatureMoves DEF TypeInv
  <2>2. UNCHANGED dbvars
    BY <1>24 DEF VerifyFeature, OnlyCall
  <2>3. StageKnown(c)'
    BY <1>24, <2>1, <2>2, SpecAssumption DEF VerifyFeature, StageKnown, CompletePoint,
      AmendPoint, Tasked, dbvars
  <2> QED BY <2>1, <2>2, <2>3, RowsUnchanged, OwnStep
<1>25. ASSUME NEW c \in Client, VerifyRead(c) PROVE LifecycleInv' /\ Forward
  <2>1. Others(c) /\ call'[c].at \in {"idle", "verify_write"}
    BY <1>25, WentOn, Returned DEF TypeInv, TypeOK, VerifyRead, ControlPoint
  <2>2. UNCHANGED dbvars
    BY <1>25 DEF VerifyRead, OnlyCall
  <2>3. stage \in Tasked
    BY <1>25 DEF VerifyRead, StageKnown
  <2>4. call'[c].at = "verify_write" => Complete
    BY <1>25, <2>1, Returned DEF VerifyRead, TypeInv, TypeOK
  <2>5. Complete => stage # "tasked"
    BY <2>3 DEF Complete, StageCoherent
  <2>6. StageKnown(c)'
    BY <2>1, <2>2, <2>3, <2>4, <2>5
    DEF StageKnown, CompletePoint, AmendPoint, dbvars, Tasked
  <2> QED BY <2>1, <2>2, <2>6, RowsUnchanged, OwnStep
<1>26. ASSUME NEW c \in Client, VerifyWrite(c) PROVE LifecycleInv' /\ Forward
  <2>1. /\ Others(c)
        /\ call'[c].at = "verify_commit"
    BY <1>26, WentOn DEF TypeInv, TypeOK, VerifyWrite, ControlPoint
  <2>2. UNCHANGED dbvars
    BY <1>26 DEF VerifyWrite
  <2>3. StageKnown(c)'
    BY <1>26, <2>1, <2>2, SpecAssumption DEF VerifyWrite, StageKnown, CompletePoint,
      AmendPoint, dbvars
  <2> QED BY <2>1, <2>2, <2>3, RowsUnchanged, OwnStep
<1>27. ASSUME NEW c \in Client, VerifyCommit(c) PROVE LifecycleInv' /\ Forward
  <2>1. Others(c) /\ call'[c].at = "idle"
    BY <1>27, Returned DEF TypeInv, TypeOK, VerifyCommit
  <2>2. stage \in {"implementing", "verified"}
    BY <1>27 DEF VerifyCommit, StageKnown, CompletePoint, AmendPoint
  <2>3. Existing' = Existing
    BY <1>27 DEF VerifyCommit, Existing
  <2>4. StageCoherent' /\ Forward
    BY <1>27, <2>2, <2>3 DEF VerifyCommit, StageCoherent, Forward, StageStep, Tasked, Done
  <2>5. StageKnown(c)'
    BY <2>1 DEF StageKnown, CompletePoint, AmendPoint
  <2>6. lock = c
    BY <1>27 DEF VerifyCommit, TypeInv, LockHeld, Holding
  <2> QED BY <2>1, <2>4, <2>5, <2>6, OwnStep
<1>28. CASE UNCHANGED vars \/ Environment
  <2>1. UNCHANGED <<dbvars, call>>
    BY <1>28 DEF vars, Environment, AllowAmend, GrantExpires, OtherLoads, OtherSaves,
      EditFile
  <2> QED BY <1>1, <2>1
<1> QED
  BY <1>2, <1>3, <1>4, <1>5, <1>6, <1>7, <1>8, <1>9, <1>10, <1>11, <1>12, <1>13, <1>14,
    <1>15, <1>16, <1>17, <1>18, <1>19, <1>20, <1>21, <1>22, <1>23, <1>24, <1>25, <1>26,
    <1>27, <1>28 DEF Next, Start, Proceed, Revoking

\* No interleaving leads to a stage the tables contradict: a plan, tasks or checks
\* before their verb, or a tasked specification without them.
THEOREM StagesCoherent == Spec => []StageCoherent
<1>1. TypeInv /\ LifecycleInv /\ [Next]_vars => TypeInv' /\ LifecycleInv'
  BY TypeStep, LifecycleStep
<1>2. Spec => [](TypeInv /\ LifecycleInv)
  BY <1>1, TypeInit, LifecycleInit, PTL DEF Spec
<1>3. LifecycleInv => StageCoherent
  BY DEF LifecycleInv
<1> QED BY <1>2, <1>3, PTL

\* The task list of a tasked specification never changes, and its stage goes
\* back only from "verified" to "implementing".
THEOREM ListFixed == Spec => TaskListFixed
<1>1. TypeInv /\ LifecycleInv /\ [Next]_vars => TypeInv' /\ LifecycleInv'
  BY TypeStep, LifecycleStep
<1>2. Spec => [](TypeInv /\ LifecycleInv)
  BY <1>1, TypeInit, LifecycleInit, PTL DEF Spec
<1>3. TypeInv /\ LifecycleInv /\ [Next]_vars =>
         [StageStep /\ (stage \in Tasked => Existing' = Existing)]_vars
  BY LifecycleStep DEF Forward
<1> QED BY <1>2, <1>3, PTL DEF Spec, TaskListFixed

-----------------------------------------------------------------------------
(* AcceptInv *)

\* The tasks some call has accepted, now done or reopened.
Accepted == {t \in Task : proof[t] # None}

\* What a call of complete_task has established: when it listed the tasks, those
\* done had been accepted; it has a check for each requirement of its task and
\* no other; before it ran the first, its dependencies were among the tasks
\* listed and every check had an observed baseline; before the gate all had run.
Judged(c) ==
    /\ call[c].at \in CompletePoint \ {"complete_tasks"} => call[c].list \subseteq Accepted
    /\ call[c].at \in CompletePoint \ {"complete_tasks", "complete_checks"} =>
          TaskChecks(c) = TaskReqs[call[c].task]
    /\ call[c].at \in {"complete_run", "complete_gate", "complete_write", "complete_commit"} =>
          /\ TaskDeps[call[c].task] \subseteq call[c].list
          /\ TaskChecks(c) # {}
          /\ \A r \in TaskChecks(c) : call[c].checks[r].observed
    /\ call[c].at \in {"complete_gate", "complete_write", "complete_commit"} =>
          \A r \in TaskChecks(c) : call[c].ran[r] # None

AcceptInv == DoneWasJudged /\ DepsAcceptedFirst /\ \A c \in Client : Judged(c)

\* What a call has established about accepted tasks stays so.
LEMMA JudgedStays ==
    ASSUME NEW c \in Client, Judged(c), call'[c] = call[c], Accepted \subseteq Accepted'
    PROVE  Judged(c)'
<1>1. TaskChecks(c)' = TaskChecks(c)
  BY DEF TaskChecks
<1> QED BY <1>1 DEF Judged

\* A step that accepts no task and marks none done has to be looked at for its
\* own call only.
LEMMA NoneAccepted ==
    ASSUME AcceptInv, NEW c \in Client, Others(c), proof' = proof, Done' \subseteq Done,
           Judged(c)'
    PROVE  AcceptInv'
<1>1. Accepted' = Accepted
  BY DEF Accepted
<1>2. ASSUME NEW d \in Client PROVE Judged(d)'
  BY <1>1, <1>2, JudgedStays DEF AcceptInv, Others
<1>3. DoneWasJudged' /\ DepsAcceptedFirst'
  BY DEF AcceptInv, DoneWasJudged, DepsAcceptedFirst
<1> QED BY <1>2, <1>3 DEF AcceptInv

\* Before the first call no task is done and none accepted.
LEMMA AcceptInit == Init => AcceptInv
<1> SUFFICES ASSUME Init PROVE AcceptInv
  OBVIOUS
<1>1. \A c \in Client : call[c].at = "idle"
  BY DEF Init, Quiet, Idle
<1>2. \A c \in Client : Judged(c)
  BY <1>1 DEF Judged, CompletePoint
<1>3. Done = {}
  BY DEF Init, NoRows, LegacyRows, Done
<1>4. \A t \in Task : proof[t] = None
  BY DEF Init, Quiet
<1> QED BY <1>2, <1>3, <1>4 DEF AcceptInv, DoneWasJudged, DepsAcceptedFirst

\* Only the commit of complete_task accepts a task, and by then the call has
\* established all that acceptance asks for.
LEMMA AcceptStep ==
    ASSUME TypeInv, LifecycleInv, AcceptInv, [Next]_vars
    PROVE  AcceptInv'
<1>1. CASE UNCHANGED <<task, proof, call>>
  BY <1>1, JudgedStays DEF AcceptInv, DoneWasJudged, DepsAcceptedFirst, Done, Accepted
<1>2. ASSUME NEW c \in Client,
             \/ AuditAfterCommit(c) \/ IntegrityError(c) \/ AmendRefused(c)
             \/ BusyTimeout(c) \/ Abort(c) \/ VerifyCommit(c)
      PROVE  AcceptInv'
  <2>1. Others(c) /\ call'[c].at = "idle"
    BY <1>2, Returned DEF TypeInv, TypeOK, AuditAfterCommit, IntegrityError, AmendRefused,
      BusyTimeout, Abort, VerifyCommit
  <2>2. proof' = proof /\ Done' \subseteq Done
    BY <1>2 DEF AuditAfterCommit, IntegrityError, AmendRefused, BusyTimeout, Abort,
      VerifyCommit, OnlyCall, dbvars, Done
  <2> QED BY <2>1, <2>2, NoneAccepted DEF Judged, CompletePoint
<1>3. ASSUME NEW c \in Client, SpecifyFeature(c) PROVE AcceptInv'
  <2>1. Others(c) /\ call'[c].at = "audit"
    BY <1>3, WentOn DEF TypeInv, TypeOK, SpecifyFeature, ControlPoint
  <2>2. proof' = proof /\ Done' \subseteq Done
    BY <1>3 DEF SpecifyFeature, Done
  <2> QED BY <2>1, <2>2, NoneAccepted DEF Judged, CompletePoint
<1>4. ASSUME NEW c \in Client, PlanFeature(c) PROVE AcceptInv'
  <2>1. Others(c) /\ call'[c].at = "plan_write"
    BY <1>4, WentOn DEF TypeInv, TypeOK, PlanFeature, ControlPoint
  <2>2. proof' = proof /\ Done' \subseteq Done
    BY <1>4 DEF PlanFeature, Done, OnlyCall, dbvars
  <2> QED BY <2>1, <2>2, NoneAccepted DEF Judged, CompletePoint
<1>5. ASSUME NEW c \in Client, PlanWrite(c) PROVE AcceptInv'
  <2>1. Others(c) /\ call'[c].at = "audit"
    BY <1>5, WentOn DEF TypeInv, TypeOK, PlanWrite, ControlPoint
  <2>2. proof' = proof /\ Done' \subseteq Done
    BY <1>5 DEF PlanWrite, Done
  <2> QED BY <2>1, <2>2, NoneAccepted DEF Judged, CompletePoint
<1>6. ASSUME NEW c \in Client, NEW ts \in SUBSET Task, TasksFeature(c, ts) PROVE AcceptInv'
  <2>1. Others(c) /\ call'[c].at = "tasks_baseline"
    BY <1>6, TasksFeatureMoves DEF TypeInv
  <2>2. proof' = proof /\ Done' \subseteq Done
    BY <1>6 DEF TasksFeature, Done, OnlyCall, dbvars
  <2> QED BY <2>1, <2>2, NoneAccepted DEF Judged, CompletePoint
<1>7. ASSUME NEW c \in Client, ObserveBaseline(c) PROVE AcceptInv'
  <2>1. Others(c) /\ call'[c].at \in {"tasks_write", "amend_write"}
    BY <1>7, ObserveBaselineMoves DEF TypeInv
  <2>2. proof' = proof /\ Done' \subseteq Done
    BY <1>7 DEF ObserveBaseline, Done, OnlyCall, dbvars
  <2> QED BY <2>1, <2>2, NoneAccepted DEF Judged, CompletePoint
<1>8. ASSUME NEW c \in Client, TasksWrite(c) PROVE AcceptInv'
  <2>1. Others(c) /\ call'[c].at = "tasks_commit"
    BY <1>8, WentOn DEF TypeInv, TypeOK, TasksWrite, ControlPoint
  <2>2. proof' = proof /\ Done' \subseteq Done
    BY <1>8 DEF TasksWrite, Done, dbvars
  <2> QED BY <2>1, <2>2, NoneAccepted DEF Judged, CompletePoint
<1>9. ASSUME NEW c \in Client, TasksCommit(c) PROVE AcceptInv'
  <2>1. Others(c) /\ call'[c].at \in {"idle", "tasks_run"}
    BY <1>9, WentOn, Returned DEF TypeInv, TypeOK, TasksCommit, ControlPoint
  <2>2. proof' = proof /\ Done' \subseteq Done
    BY <1>9 DEF TasksCommit, Done
  <2> QED BY <2>1, <2>2, NoneAccepted DEF Judged, CompletePoint
<1>10. ASSUME NEW c \in Client, TasksRun(c) PROVE AcceptInv'
  <2>1. Others(c) /\ call'[c].at \in {"idle", "errors_write"}
    BY <1>10, TasksRunMoves DEF TypeInv
  <2>2. proof' = proof /\ Done' \subseteq Done
    BY <1>10 DEF TasksRun, Done, OnlyCall, dbvars
  <2> QED BY <2>1, <2>2, NoneAccepted DEF Judged, CompletePoint
<1>11. ASSUME NEW c \in Client, ErrorsWrite(c) PROVE AcceptInv'
  <2>1. Others(c) /\ call'[c].at = "idle"
    BY <1>11, Returned DEF TypeInv, TypeOK, ErrorsWrite
  <2>2. proof' = proof /\ Done' \subseteq Done
    BY <1>11 DEF ErrorsWrite, Done
  <2> QED BY <2>1, <2>2, NoneAccepted DEF Judged, CompletePoint
<1>12. ASSUME NEW c \in Client, NEW t \in Task, CompleteTask(c, t) PROVE AcceptInv'
  <2>1. Others(c) /\ call'[c].at = "complete_tasks"
    BY <1>12, CompleteTaskMoves DEF TypeInv
  <2>2. proof' = proof /\ Done' \subseteq Done
    BY <1>12 DEF CompleteTask, OnlyCall, dbvars, Done
  <2> QED BY <2>1, <2>2, NoneAccepted DEF Judged, CompletePoint
<1>13. ASSUME NEW c \in Client, CompleteReadTasks(c) PROVE AcceptInv'
  <2>1. /\ Others(c)
        /\ \/ call'[c].at = "idle"
           \/ call'[c].at = "complete_checks" /\ call'[c].list = Done
    BY <1>13, CompleteReadTasksMoves DEF TypeInv
  <2>2. proof' = proof /\ Done' \subseteq Done
    BY <1>13 DEF CompleteReadTasks, OnlyCall, dbvars, Done
  <2>3. Done \subseteq Accepted'
    BY <2>2 DEF AcceptInv, DoneWasJudged, Accepted, Done
  <2>4. Judged(c)'
    BY <2>1, <2>3 DEF Judged, CompletePoint
  <2> QED BY <2>1, <2>2, <2>4, NoneAccepted
<1>14. ASSUME NEW c \in Client, CompleteReadChecks(c) PROVE AcceptInv'
  <2>1. /\ Others(c) /\ call'[c].at = "complete_judge"
        /\ call'[c].task = call[c].task /\ call'[c].list = call[c].list
        /\ call'[c].checks = [r \in Req |-> IF r \in TaskReqs[call[c].task]
                                             THEN frozen[r] ELSE None]
    BY <1>14, CompleteReadChecksMoves DEF TypeInv
  <2>2. proof' = proof /\ Done' \subseteq Done /\ Accepted' = Accepted
    BY <1>14 DEF CompleteReadChecks, OnlyCall, dbvars, Done, Accepted
  <2>3. call[c].list \subseteq Accepted
    BY <1>14 DEF CompleteReadChecks, AcceptInv, Judged, CompletePoint
  <2>4. TaskReqs[call[c].task] \subseteq Req
    BY <1>14, SpecAssumption DEF CompleteReadChecks, TypeInv, Targets, CompletePoint
  <2>5. \A r \in Req : frozen[r] # None
    BY <1>14 DEF CompleteReadChecks, LifecycleInv, StageKnown, StageCoherent, CompletePoint
  <2>6. TaskChecks(c)' = TaskReqs[call'[c].task]
    BY <2>1, <2>4, <2>5 DEF TaskChecks
  <2>7. Judged(c)'
    BY <2>1, <2>2, <2>3, <2>6 DEF Judged, CompletePoint
  <2> QED BY <2>1, <2>2, <2>7, NoneAccepted
<1>15. ASSUME NEW c \in Client, CompleteJudge(c) PROVE AcceptInv'
  <2>1. /\ Others(c) /\ call'[c].at \in {"idle", "complete_run"}
        /\ call'[c].at = "complete_run" =>
              /\ call'[c].task = call[c].task /\ call'[c].list = call[c].list
              /\ call'[c].checks = call[c].checks /\ MayRun(c)
    <3>1. CASE ~call[c].flag /\ MayRun(c)
      BY <1>15, <3>1, WentOn DEF TypeInv, TypeOK, CompleteJudge, ControlPoint
    <3>2. CASE ~(~call[c].flag /\ MayRun(c))
      BY <1>15, <3>2, Returned DEF TypeInv, TypeOK, CompleteJudge
    <3> QED BY <3>1, <3>2
  <2>2. proof' = proof /\ Done' \subseteq Done /\ Accepted' = Accepted
    BY <1>15 DEF CompleteJudge, OnlyCall, dbvars, Done, Accepted
  <2>3. call[c].list \subseteq Accepted /\ TaskChecks(c) = TaskReqs[call[c].task]
    BY <1>15 DEF CompleteJudge, AcceptInv, Judged, CompletePoint
  <2>4. call'[c].at = "complete_run" => TaskChecks(c)' = TaskChecks(c)
    BY <2>1 DEF TaskChecks
  <2>5. Judged(c)'
    BY <2>1, <2>2, <2>3, <2>4 DEF Judged, CompletePoint, MayRun
  <2> QED BY <2>1, <2>2, <2>5, NoneAccepted
<1>16. ASSUME NEW c \in Client, NEW r \in Req, CompleteRunCheck(c, r) PROVE AcceptInv'
  <2>1. /\ Others(c) /\ call'[c].at \in {"complete_run", "complete_gate"}
        /\ call'[c].at = "complete_gate" => \A q \in TaskChecks(c) : call'[c].ran[q] # None
        /\ call'[c].task = call[c].task /\ call'[c].list = call[c].list
        /\ call'[c].checks = call[c].checks
    BY <1>16, CompleteRunCheckMoves DEF TypeInv
  <2>2. proof' = proof /\ Done' \subseteq Done /\ Accepted' = Accepted
    BY <1>16 DEF CompleteRunCheck, OnlyCall, dbvars, Done, Accepted
  <2>3. TaskChecks(c)' = TaskChecks(c)
    BY <2>1 DEF TaskChecks
  <2>4. call[c].at = "complete_run" /\ Judged(c)
    BY <1>16 DEF CompleteRunCheck, AcceptInv
  <2>5. Judged(c)'
    BY <2>1, <2>2, <2>3, <2>4 DEF Judged, CompletePoint
  <2> QED BY <2>1, <2>2, <2>5, NoneAccepted
<1>17. ASSUME NEW c \in Client, CompleteGate(c) PROVE AcceptInv'
  <2>1. /\ Others(c) /\ call'[c].at = "complete_write"
        /\ call'[c].task = call[c].task /\ call'[c].list = call[c].list
        /\ call'[c].checks = call[c].checks /\ call'[c].ran = call[c].ran
    BY <1>17, WentOn DEF TypeInv, TypeOK, CompleteGate, ControlPoint
  <2>2. proof' = proof /\ Done' \subseteq Done /\ Accepted' = Accepted
    BY <1>17 DEF CompleteGate, OnlyCall, dbvars, Done, Accepted
  <2>3. TaskChecks(c)' = TaskChecks(c)
    BY <2>1 DEF TaskChecks
  <2>4. call[c].at = "complete_gate" /\ Judged(c)
    BY <1>17 DEF CompleteGate, AcceptInv
  <2>5. Judged(c)'
    BY <2>1, <2>2, <2>3, <2>4 DEF Judged, CompletePoint
  <2> QED BY <2>1, <2>2, <2>5, NoneAccepted
<1>18. ASSUME NEW c \in Client, CompleteWrite(c) PROVE AcceptInv'
  <2>1. /\ Others(c) /\ call'[c].at = "complete_commit"
        /\ call'[c].task = call[c].task /\ call'[c].list = call[c].list
        /\ call'[c].checks = call[c].checks /\ call'[c].ran = call[c].ran
    BY <1>18, WentOn DEF TypeInv, TypeOK, CompleteWrite, ControlPoint
  <2>2. proof' = proof /\ Done' \subseteq Done /\ Accepted' = Accepted
    BY <1>18 DEF CompleteWrite, dbvars, Done, Accepted
  <2>3. TaskChecks(c)' = TaskChecks(c)
    BY <2>1 DEF TaskChecks
  <2>4. call[c].at = "complete_write" /\ Judged(c)
    BY <1>18 DEF CompleteWrite, AcceptInv
  <2>5. Judged(c)'
    BY <2>1, <2>2, <2>3, <2>4 DEF Judged, CompletePoint
  <2> QED BY <2>1, <2>2, <2>5, NoneAccepted
<1>19. ASSUME NEW c \in Client, CompleteCommit(c) PROVE AcceptInv'
  <2> DEFINE t == call[c].task
             new == [seen |-> call[c].checks, ran |-> call[c].ran]
  <2>1. Others(c) /\ call'[c].at = "idle"
    BY <1>19, Returned DEF TypeInv, TypeOK, CompleteCommit
  <2>2. t \in Task /\ call[c] \in Call
    BY <1>19 DEF CompleteCommit, TypeInv, TypeOK, Targets, CompletePoint
  <2>3. new \in Acceptance /\ new # None
    BY <2>2, SpecAssumption DEF Call, Acceptance
  <2>4. proof' = [proof EXCEPT ![t] = new] /\ task' = [task EXCEPT ![t] = "done"]
    BY <1>19 DEF CompleteCommit
  <2>5. /\ call[c].list \subseteq Accepted
        /\ TaskChecks(c) = TaskReqs[t]
        /\ TaskDeps[t] \subseteq call[c].list
        /\ TaskChecks(c) # {}
        /\ \A r \in TaskChecks(c) : call[c].checks[r].observed
        /\ \A r \in TaskChecks(c) : call[c].ran[r] # None
    BY <1>19 DEF CompleteCommit, AcceptInv, Judged, CompletePoint
  <2> HIDE DEF t, new
  <2>6. /\ Accepted \subseteq Accepted'
        /\ proof'[t] = new /\ Done' = Done \cup {t}
        /\ \A s \in Task : s # t => proof'[s] = proof[s]
    BY <2>2, <2>3, <2>4 DEF TypeInv, TypeOK, Accepted, Done
  <2>7. ASSUME NEW d \in Client PROVE Judged(d)'
    <3>1. CASE d = c
      BY <2>1, <3>1 DEF Judged, CompletePoint
    <3>2. CASE d # c
      BY <2>1, <2>6, <3>2, JudgedStays DEF AcceptInv, Others
    <3> QED BY <3>1, <3>2
  <2>8. DoneWasJudged'
    <3>1. /\ TaskReqs[t] # {}
          /\ \A r \in TaskReqs[t] : /\ new.seen[r] # None
                                    /\ new.seen[r].observed
                                    /\ new.ran[r] # None
      BY <2>5 DEF new, TaskChecks
    <3> QED BY <2>3, <2>6, <3>1 DEF AcceptInv, DoneWasJudged, Done
  <2>9. DepsAcceptedFirst'
    <3>1. \A s \in TaskDeps[t] : s \in Accepted'
      BY <2>5, <2>6
    <3>2. ASSUME NEW s \in Task, s # t, proof'[s] # None, NEW u \in TaskDeps[s]
          PROVE  u \in Accepted'
      <4>1. u \in Task
        BY <3>2, SpecAssumption
      <4>2. u \in Accepted
        BY <2>6, <3>2, <4>1 DEF AcceptInv, DepsAcceptedFirst, Accepted
      <4> QED BY <2>6, <4>2
    <3> QED BY <3>1, <3>2 DEF DepsAcceptedFirst, Accepted
  <2> QED BY <2>7, <2>8, <2>9 DEF AcceptInv
<1>20. ASSUME NEW c \in Client, NEW r \in Req, NEW direct \in BOOLEAN, AmendCheck(c, r, direct)
      PROVE  AcceptInv'
  <2>1. Others(c) /\ call'[c].at = "amend_baseline"
    BY <1>20, AmendCheckMoves DEF TypeInv
  <2>2. proof' = proof /\ Done' \subseteq Done
    BY <1>20 DEF AmendCheck, Done, OnlyCall, dbvars
  <2> QED BY <2>1, <2>2, NoneAccepted DEF Judged, CompletePoint
<1>21. ASSUME NEW c \in Client, AmendWrite(c) PROVE AcceptInv'
  <2>1. Others(c) /\ call'[c].at \in {"amend_revoke", "amend_commit"}
    BY <1>21, WentOn DEF TypeInv, TypeOK, AmendWrite, ControlPoint
  <2>2. proof' = proof /\ Done' \subseteq Done
    BY <1>21 DEF AmendWrite, Done, dbvars
  <2> QED BY <2>1, <2>2, NoneAccepted DEF Judged, CompletePoint
<1>22. ASSUME NEW c \in Client, Revoking(c) PROVE AcceptInv'
  <2>1. Others(c) /\ call'[c].at \in {"idle", "amend_replace", "amend_commit"}
    BY <1>22, RevokingMoves DEF TypeInv
  <2>2. proof' = proof /\ Done' \subseteq Done
    BY <1>22, RevokingMoves DEF TypeInv, Done, dbvars
  <2> QED BY <2>1, <2>2, NoneAccepted DEF Judged, CompletePoint
<1>23. ASSUME NEW c \in Client, AmendCommit(c) PROVE AcceptInv'
  <2>1. Others(c) /\ call'[c].at = "idle"
    BY <1>23, Returned DEF TypeInv, TypeOK, AmendCommit
  <2>2. proof' = proof /\ Done' \subseteq Done
    BY <1>23 DEF AmendCommit, Done
  <2> QED BY <2>1, <2>2, NoneAccepted DEF Judged, CompletePoint
<1>24. ASSUME NEW c \in Client, VerifyFeature(c) PROVE AcceptInv'
  <2>1. Others(c) /\ call'[c].at = "verify_read"
    BY <1>24, VerifyFeatureMoves DEF TypeInv
  <2>2. proof' = proof /\ Done' \subseteq Done
    BY <1>24 DEF VerifyFeature, Done, OnlyCall, dbvars
  <2> QED BY <2>1, <2>2, NoneAccepted DEF Judged, CompletePoint
<1>25. ASSUME NEW c \in Client, VerifyRead(c) PROVE AcceptInv'
  <2>1. Others(c) /\ call'[c].at \in {"idle", "verify_write"}
    BY <1>25, WentOn, Returned DEF TypeInv, TypeOK, VerifyRead, ControlPoint
  <2>2. proof' = proof /\ Done' \subseteq Done
    BY <1>25 DEF VerifyRead, Done, OnlyCall, dbvars
  <2> QED BY <2>1, <2>2, NoneAccepted DEF Judged, CompletePoint
<1>26. ASSUME NEW c \in Client, VerifyWrite(c) PROVE AcceptInv'
  <2>1. Others(c) /\ call'[c].at = "verify_commit"
    BY <1>26, WentOn DEF TypeInv, TypeOK, VerifyWrite, ControlPoint
  <2>2. proof' = proof /\ Done' \subseteq Done
    BY <1>26 DEF VerifyWrite, Done, dbvars
  <2> QED BY <2>1, <2>2, NoneAccepted DEF Judged, CompletePoint
<1>27. CASE UNCHANGED vars \/ Environment
  <2>1. UNCHANGED <<task, proof, call>>
    BY <1>27 DEF vars, dbvars, Environment, AllowAmend, GrantExpires, OtherLoads, OtherSaves,
      EditFile
  <2> QED BY <1>1, <2>1
<1> QED
  BY <1>2, <1>3, <1>4, <1>5, <1>6, <1>7, <1>8, <1>9, <1>10, <1>11, <1>12, <1>13, <1>14,
    <1>15, <1>16, <1>17, <1>18, <1>19, <1>20, <1>21, <1>22, <1>23, <1>24, <1>25, <1>26,
    <1>27 DEF Next, Start, Proceed, Revoking

\* A done task was accepted by a call that saw a frozen check with an observed
\* baseline for each of its requirements and saw each run and pass, and every task
\* it depends on had been accepted before, however the calls interleave with
\* amends, automated tasks, crashes and edits.
THEOREM DoneMeansJudged == Spec => [](DoneWasJudged /\ DepsAcceptedFirst)
<1>1. TypeInv /\ LifecycleInv /\ AcceptInv /\ [Next]_vars =>
         TypeInv' /\ LifecycleInv' /\ AcceptInv'
  BY TypeStep, LifecycleStep, AcceptStep
<1>2. Spec => [](TypeInv /\ LifecycleInv /\ AcceptInv)
  BY <1>1, TypeInit, LifecycleInit, AcceptInit, PTL DEF Spec
<1>3. AcceptInv => DoneWasJudged /\ DepsAcceptedFirst
  BY DEF AcceptInv
<1> QED BY <1>2, <1>3, PTL

-----------------------------------------------------------------------------
(* Where a change of the rows, the log, the grants or a call can come from. *)

\* The points of a call that has found a specification complete, or that is
\* inside its transaction.
LatePoint == {"complete_commit", "amend_revoke", "amend_replace", "amend_commit",
              "verify_write", "verify_commit"}

\* Records and acceptances stay; a task becomes done, a check is replaced, the
\* stage becomes verified in one commit only; and a call gets to a late point by
\* the steps that lead there.
Origins ==
    /\ log \subseteq log'
    /\ Accepted \subseteq Accepted'
    /\ \A t \in Done' : t \in Done \/ \E c \in Client : CompleteCommit(c) /\ t = call[c].task
    /\ stage' = "verified" => stage = "verified" \/ \E c \in Client : VerifyCommit(c)
    /\ \A r \in Req : frozen[r] # None /\ frozen'[r] # frozen[r] =>
          \E c \in Client : AmendCommit(c) /\ r = call[c].req
    /\ \/ UNCHANGED grantvars
       \/ AllowAmend \/ GrantExpires \/ OtherLoads \/ OtherSaves
       \/ \E c \in Client : Revoking(c) \/ AmendCommit(c)
    /\ \A c \in Client : \/ call'[c] = call[c]
                         \/ call'[c].at \notin LatePoint
                         \/ CompleteWrite(c) \/ AmendWrite(c) \/ Revoking(c)
                         \/ VerifyRead(c) \/ VerifyWrite(c)

\* The steps that do none of it.
LEMMA PlainStep ==
    ASSUME NEW c \in Client, Others(c), call'[c].at \notin LatePoint,
           UNCHANGED <<frozen, log, proof, grantvars>>, Done' \subseteq Done,
           stage' = "verified" => stage = "verified"
    PROVE  Origins
<1>1. Accepted' = Accepted
  BY DEF Accepted
<1> QED BY <1>1 DEF Origins, Others

\* The steps of a call inside or into its late points that leave the rows alone.
LEMMA LateStep ==
    ASSUME NEW c \in Client, Others(c), UNCHANGED <<dbvars, proof>>, log \subseteq log',
           UNCHANGED grantvars \/ Revoking(c),
           \/ call'[c].at \notin LatePoint
           \/ CompleteWrite(c) \/ AmendWrite(c) \/ Revoking(c)
           \/ VerifyRead(c) \/ VerifyWrite(c)
    PROVE  Origins
<1>1. Accepted' = Accepted /\ Done' = Done /\ stage' = stage /\ frozen' = frozen
  BY DEF Accepted, Done, dbvars
<1> QED BY <1>1 DEF Origins, Others

\* Every step of the specification is one of those.
LEMMA StepOrigins ==
    ASSUME TypeInv, LifecycleInv, [Next]_vars
    PROVE  Origins
<1>1. CASE UNCHANGED vars \/ Environment
  <2>1. UNCHANGED <<dbvars, log, proof, call>>
    BY <1>1 DEF vars, Environment, AllowAmend, GrantExpires, OtherLoads, OtherSaves, EditFile
  <2>2. Accepted' = Accepted /\ Done' = Done /\ stage' = stage /\ frozen' = frozen
    BY <2>1 DEF Accepted, Done, dbvars
  <2>3. UNCHANGED grantvars \/ AllowAmend \/ GrantExpires \/ OtherLoads \/ OtherSaves
    BY <1>1 DEF vars, Environment, EditFile
  <2> QED BY <2>1, <2>2, <2>3 DEF Origins
<1>2. ASSUME NEW c \in Client,
             \/ AuditAfterCommit(c) \/ IntegrityError(c) \/ AmendRefused(c)
             \/ BusyTimeout(c) \/ Abort(c)
      PROVE  Origins
  <2>1. Others(c) /\ call'[c].at = "idle"
    BY <1>2, Returned DEF TypeInv, TypeOK, AuditAfterCommit, IntegrityError, AmendRefused,
      BusyTimeout, Abort
  <2>2. UNCHANGED <<dbvars, log, proof, grantvars>>
    BY <1>2 DEF AuditAfterCommit, IntegrityError, AmendRefused, BusyTimeout, Abort, OnlyCall
  <2> QED BY <2>1, <2>2, LateStep DEF LatePoint
<1>3. ASSUME NEW c \in Client, SpecifyFeature(c) PROVE Origins
  <2>1. Others(c) /\ call'[c].at = "audit"
    BY <1>3, WentOn DEF TypeInv, TypeOK, SpecifyFeature, ControlPoint
  <2>2. /\ UNCHANGED <<frozen, log, proof, grantvars>> /\ Done' \subseteq Done
        /\ stage' = "verified" => stage = "verified"
    BY <1>3 DEF SpecifyFeature, Done
  <2> QED BY <2>1, <2>2, PlainStep DEF LatePoint
<1>4. ASSUME NEW c \in Client, PlanFeature(c) PROVE Origins
  <2>1. Others(c) /\ call'[c].at = "plan_write"
    BY <1>4, WentOn DEF TypeInv, TypeOK, PlanFeature, ControlPoint
  <2>2. UNCHANGED <<dbvars, log, proof, grantvars>>
    BY <1>4 DEF PlanFeature, OnlyCall
  <2> QED BY <2>1, <2>2, LateStep DEF LatePoint
<1>5. ASSUME NEW c \in Client, PlanWrite(c) PROVE Origins
  <2>1. Others(c) /\ call'[c].at = "audit"
    BY <1>5, WentOn DEF TypeInv, TypeOK, PlanWrite, ControlPoint
  <2>2. /\ UNCHANGED <<frozen, log, proof, grantvars>> /\ Done' \subseteq Done
        /\ stage' = "verified" => stage = "verified"
    BY <1>5 DEF PlanWrite, Done
  <2> QED BY <2>1, <2>2, PlainStep DEF LatePoint
<1>6. ASSUME NEW c \in Client, NEW ts \in SUBSET Task, TasksFeature(c, ts) PROVE Origins
  <2>1. Others(c) /\ call'[c].at = "tasks_baseline"
    BY <1>6, TasksFeatureMoves DEF TypeInv
  <2>2. UNCHANGED <<dbvars, log, proof, grantvars>>
    BY <1>6 DEF TasksFeature, OnlyCall
  <2> QED BY <2>1, <2>2, LateStep DEF LatePoint
<1>7. ASSUME NEW c \in Client, ObserveBaseline(c) PROVE Origins
  <2>1. Others(c) /\ call'[c].at \in {"tasks_write", "amend_write"}
    BY <1>7, ObserveBaselineMoves DEF TypeInv
  <2>2. UNCHANGED <<dbvars, log, proof, grantvars>>
    BY <1>7 DEF ObserveBaseline, OnlyCall
  <2> QED BY <2>1, <2>2, LateStep DEF LatePoint
<1>8. ASSUME NEW c \in Client, TasksWrite(c) PROVE Origins
  <2>1. Others(c) /\ call'[c].at = "tasks_commit"
    BY <1>8, WentOn DEF TypeInv, TypeOK, TasksWrite, ControlPoint
  <2>2. UNCHANGED <<dbvars, proof, grantvars>> /\ log \subseteq log'
    BY <1>8 DEF TasksWrite
  <2> QED BY <1>8, <2>1, <2>2, LateStep DEF LatePoint
<1>9. ASSUME NEW c \in Client, TasksCommit(c) PROVE Origins
  <2>1. Others(c) /\ call'[c].at \in {"idle", "tasks_run"}
    BY <1>9, WentOn, Returned DEF TypeInv, TypeOK, TasksCommit, ControlPoint
  <2>2. \A r \in Req : frozen[r] = None
    BY <1>9
    DEF TasksCommit, LifecycleInv, StageKnown, StageCoherent, NoChecks, TypeInv, TypeOK
  <2>3. /\ UNCHANGED <<log, proof, grantvars>> /\ Done' \subseteq Done
        /\ stage' = "tasked"
    BY <1>9 DEF TasksCommit, Done
  <2>4. Accepted' = Accepted
    BY <2>3 DEF Accepted
  <2> QED BY <2>1, <2>2, <2>3, <2>4 DEF Origins, Others, LatePoint
<1>10. ASSUME NEW c \in Client, TasksRun(c) PROVE Origins
  <2>1. Others(c) /\ call'[c].at \in {"idle", "errors_write"}
    BY <1>10, TasksRunMoves DEF TypeInv
  <2>2. UNCHANGED <<dbvars, log, proof, grantvars>>
    BY <1>10 DEF TasksRun, OnlyCall
  <2> QED BY <2>1, <2>2, LateStep DEF LatePoint
<1>11. ASSUME NEW c \in Client, ErrorsWrite(c) PROVE Origins
  <2>1. Others(c) /\ call'[c].at = "idle"
    BY <1>11, Returned DEF TypeInv, TypeOK, ErrorsWrite
  <2>2. /\ UNCHANGED <<frozen, log, proof, grantvars>> /\ Done' \subseteq Done
        /\ stage' = "verified" => stage = "verified"
    BY <1>11 DEF ErrorsWrite, Done
  <2> QED BY <2>1, <2>2, PlainStep DEF LatePoint
<1>12. ASSUME NEW c \in Client, NEW t \in Task, CompleteTask(c, t) PROVE Origins
  <2>1. Others(c) /\ call'[c].at = "complete_tasks"
    BY <1>12, CompleteTaskMoves DEF TypeInv
  <2>2. UNCHANGED <<dbvars, log, proof, grantvars>>
    BY <1>12 DEF CompleteTask, OnlyCall
  <2> QED BY <2>1, <2>2, LateStep DEF LatePoint
<1>13. ASSUME NEW c \in Client, CompleteReadTasks(c) PROVE Origins
  <2>1. Others(c) /\ call'[c].at \in {"idle", "complete_checks"}
    BY <1>13, CompleteReadTasksMoves DEF TypeInv
  <2>2. UNCHANGED <<dbvars, log, proof, grantvars>>
    BY <1>13 DEF CompleteReadTasks, OnlyCall
  <2> QED BY <2>1, <2>2, LateStep DEF LatePoint
<1>14. ASSUME NEW c \in Client, CompleteReadChecks(c) PROVE Origins
  <2>1. Others(c) /\ call'[c].at = "complete_judge"
    BY <1>14, CompleteReadChecksMoves DEF TypeInv
  <2>2. UNCHANGED <<dbvars, log, proof, grantvars>>
    BY <1>14 DEF CompleteReadChecks, OnlyCall
  <2> QED BY <2>1, <2>2, LateStep DEF LatePoint
<1>15. ASSUME NEW c \in Client, CompleteJudge(c) PROVE Origins
  <2>1. Others(c) /\ call'[c].at \in {"idle", "complete_run"}
    BY <1>15, WentOn, Returned DEF TypeInv, TypeOK, CompleteJudge, ControlPoint
  <2>2. UNCHANGED <<dbvars, log, proof, grantvars>>
    BY <1>15 DEF CompleteJudge, OnlyCall
  <2> QED BY <2>1, <2>2, LateStep DEF LatePoint
<1>16. ASSUME NEW c \in Client, NEW r \in Req, CompleteRunCheck(c, r) PROVE Origins
  <2>1. Others(c) /\ call'[c].at \in {"complete_run", "complete_gate"}
    BY <1>16, CompleteRunCheckMoves DEF TypeInv
  <2>2. UNCHANGED <<dbvars, log, proof, grantvars>>
    BY <1>16 DEF CompleteRunCheck, OnlyCall
  <2> QED BY <2>1, <2>2, LateStep DEF LatePoint
<1>17. ASSUME NEW c \in Client, CompleteGate(c) PROVE Origins
  <2>1. Others(c) /\ call'[c].at = "complete_write"
    BY <1>17, WentOn DEF TypeInv, TypeOK, CompleteGate, ControlPoint
  <2>2. UNCHANGED <<dbvars, log, proof, grantvars>>
    BY <1>17 DEF CompleteGate, OnlyCall
  <2> QED BY <2>1, <2>2, LateStep DEF LatePoint
<1>18. ASSUME NEW c \in Client, CompleteWrite(c) PROVE Origins
  <2>1. Others(c)
    BY <1>18, WentOn DEF TypeInv, TypeOK, CompleteWrite, ControlPoint
  <2>2. UNCHANGED <<dbvars, proof, grantvars>> /\ log \subseteq log'
    BY <1>18 DEF CompleteWrite
  <2> QED BY <1>18, <2>1, <2>2, LateStep DEF LatePoint
<1>19. ASSUME NEW c \in Client, CompleteCommit(c) PROVE Origins
  <2>1. Others(c) /\ call'[c].at = "idle"
    BY <1>19, Returned DEF TypeInv, TypeOK, CompleteCommit
  <2>2. [seen |-> call[c].checks, ran |-> call[c].ran] # None
    <3>1. [seen |-> call[c].checks, ran |-> call[c].ran] \in Acceptance
      BY DEF TypeInv, TypeOK, Call, Acceptance
    <3> QED BY <3>1, SpecAssumption
  <2>3. Accepted \subseteq Accepted'
    BY <1>19, <2>2 DEF CompleteCommit, Accepted, TypeInv, TypeOK
  <2>4. \A t \in Done' : t \in Done \/ t = call[c].task
    BY <1>19 DEF CompleteCommit, Done, TypeInv, TypeOK
  <2>5. UNCHANGED <<frozen, log, grantvars>> /\ stage' = "implementing"
    BY <1>19 DEF CompleteCommit
  <2> QED BY <1>19, <2>1, <2>3, <2>4, <2>5 DEF Origins, Others, LatePoint
<1>20. ASSUME NEW c \in Client, NEW r \in Req, NEW direct \in BOOLEAN, AmendCheck(c, r, direct)
      PROVE  Origins
  <2>1. Others(c) /\ call'[c].at = "amend_baseline"
    BY <1>20, AmendCheckMoves DEF TypeInv
  <2>2. UNCHANGED <<dbvars, log, proof, grantvars>>
    BY <1>20 DEF AmendCheck, OnlyCall
  <2> QED BY <2>1, <2>2, LateStep DEF LatePoint
<1>21. ASSUME NEW c \in Client, AmendWrite(c) PROVE Origins
  <2>1. Others(c)
    BY <1>21, WentOn DEF TypeInv, TypeOK, AmendWrite, ControlPoint
  <2>2. UNCHANGED <<dbvars, proof, grantvars>> /\ log \subseteq log'
    BY <1>21 DEF AmendWrite
  <2> QED BY <1>21, <2>1, <2>2, LateStep DEF LatePoint
<1>22. ASSUME NEW c \in Client, Revoking(c) PROVE Origins
  <2>1. Others(c) /\ UNCHANGED <<dbvars, proof, log>>
    BY <1>22, RevokingMoves DEF TypeInv
  <2> QED BY <1>22, <2>1, LateStep
<1>23. ASSUME NEW c \in Client, AmendCommit(c) PROVE Origins
  <2>1. Others(c) /\ call'[c].at = "idle"
    BY <1>23, Returned DEF TypeInv, TypeOK, AmendCommit
  <2>2. \A r \in Req : frozen'[r] # frozen[r] => r = call[c].req
    BY <1>23 DEF AmendCommit, TypeInv, TypeOK
  <2>3. /\ UNCHANGED <<log, proof>> /\ Done' \subseteq Done
        /\ stage' = "verified" => stage = "verified"
    BY <1>23 DEF AmendCommit, Done
  <2>4. Accepted' = Accepted
    BY <2>3 DEF Accepted
  <2> QED BY <1>23, <2>1, <2>2, <2>3, <2>4 DEF Origins, Others, LatePoint
<1>24. ASSUME NEW c \in Client, VerifyFeature(c) PROVE Origins
  <2>1. Others(c) /\ call'[c].at = "verify_read"
    BY <1>24, VerifyFeatureMoves DEF TypeInv
  <2>2. UNCHANGED <<dbvars, log, proof, grantvars>>
    BY <1>24 DEF VerifyFeature, OnlyCall
  <2> QED BY <2>1, <2>2, LateStep DEF LatePoint
<1>25. ASSUME NEW c \in Client, VerifyRead(c) PROVE Origins
  <2>1. Others(c)
    BY <1>25, WentOn, Returned DEF TypeInv, TypeOK, VerifyRead, ControlPoint
  <2>2. UNCHANGED <<dbvars, log, proof, grantvars>>
    BY <1>25 DEF VerifyRead, OnlyCall
  <2> QED BY <1>25, <2>1, <2>2, LateStep
<1>26. ASSUME NEW c \in Client, VerifyWrite(c) PROVE Origins
  <2>1. Others(c)
    BY <1>26, WentOn DEF TypeInv, TypeOK, VerifyWrite, ControlPoint
  <2>2. UNCHANGED <<dbvars, proof, grantvars>> /\ log \subseteq log'
    BY <1>26 DEF VerifyWrite
  <2> QED BY <1>26, <2>1, <2>2, LateStep DEF LatePoint
<1>27. ASSUME NEW c \in Client, VerifyCommit(c) PROVE Origins
  <2>1. Others(c) /\ call'[c].at = "idle"
    BY <1>27, Returned DEF TypeInv, TypeOK, VerifyCommit
  <2>2. UNCHANGED <<frozen, log, proof, grantvars>> /\ Done' = Done
    BY <1>27 DEF VerifyCommit, Done
  <2>3. Accepted' = Accepted
    BY <2>2 DEF Accepted
  <2> QED BY <1>27, <2>1, <2>2, <2>3 DEF Origins, Others, LatePoint
<1> QED
  BY <1>1, <1>2, <1>3, <1>4, <1>5, <1>6, <1>7, <1>8, <1>9, <1>10, <1>11, <1>12, <1>13,
    <1>14, <1>15, <1>16, <1>17, <1>18, <1>19, <1>20, <1>21, <1>22, <1>23, <1>24, <1>25,
    <1>26, <1>27 DEF Next, Start, Proceed, Revoking

-----------------------------------------------------------------------------
(* LogInv, VerifiedInv, GrantInv *)

\* A call inside its transaction has written its record before its commit.
Logged(c) ==
    /\ call[c].at = "complete_commit" =>
          [verb |-> "complete_task", task |-> call[c].task] \in log
    /\ call[c].at \in {"amend_revoke", "amend_replace", "amend_commit"} =>
          [verb |-> "amend_check", req |-> call[c].req] \in log
    /\ call[c].at = "verify_commit" => [verb |-> "verify_feature"] \in log

LogInv == Accounted /\ \A c \in Client : Logged(c)

\* What verify_feature concludes from its reads: a task accepted for everything.
AllAccepted ==
    /\ Existing \subseteq Accepted
    /\ \A r \in Req : \E t \in Existing : r \in TaskReqs[t] /\ t \in Accepted

VerifiedInv ==
    /\ stage = "verified" => AllAccepted
    /\ \A c \in Client : call[c].at \in {"verify_write", "verify_commit"} => AllAccepted

\* A grant that an amend can still use: it is in the file, or the revoke that has
\* loaded it has not yet replaced the file.
Usable(g) ==
    \/ grant = g
    \/ \E c \in Client : call[c].at = "amend_replace" /\ call[c].grant = g

\* The amend that has used up g and has not committed yet.
Amending(c, g) == call[c].at = "amend_commit" /\ call[c].flag /\ call[c].grant = g

\* Every grant that is about was issued.
OnlyIssued ==
    /\ grant <= issued
    /\ \A g \in copies : g <= issued
    /\ \A c \in Client : call[c].at = "amend_replace" =>
          call[c].grant \in Grant /\ call[c].grant <= issued

\* A grant was used up once, and once more after each time that it was brought
\* back; while it can be used, the last of these uses has yet to come.
UsesOf(g) ==
    /\ spent[g] <= 1 + revived[g]
    /\ Usable(g) => spent[g] <= revived[g]
    /\ g > issued => spent[g] = 0
    /\ amended[g] <= spent[g]
    /\ \A c \in Client : Amending(c, g) => amended[g] + 1 <= spent[g]

GrantInv == OnlyIssued /\ \A g \in Grant : UsesOf(g)

FullInv == TypeInv /\ LifecycleInv /\ AcceptInv /\ LogInv /\ VerifiedInv /\ GrantInv

\* Before the first call nothing is done, verified, granted or amended.
LEMMA FullInit == Init => FullInv
<1> SUFFICES ASSUME Init PROVE FullInv
  OBVIOUS
<1>1. \A c \in Client : call[c].at = "idle"
  BY DEF Init, Quiet, Idle
<1>2. Done = {} /\ stage # "verified"
  BY DEF Init, NoRows, LegacyRows, Done
<1>3. LogInv /\ VerifiedInv
  BY <1>1, <1>2 DEF LogInv, Accounted, Logged, VerifiedInv
<1>4. GrantInv
  <2>1. /\ grant = 0 /\ issued = 0 /\ copies = {}
        /\ \A g \in Grant : g \in Nat /\ g > 0 /\ spent[g] = 0 /\ revived[g] = 0
                           /\ amended[g] = 0
    BY SpecAssumption DEF Init, Quiet, NoGrant, Grant
  <2> QED BY <1>1, <2>1 DEF GrantInv, OnlyIssued, UsesOf, Usable, Amending
<1> QED BY <1>3, <1>4, TypeInit, LifecycleInit, AcceptInit DEF FullInv

\* A record is never removed, and each commit finds the one its call has written.
LEMMA LogStep ==
    ASSUME TypeInv, LogInv, Origins
    PROVE  LogInv'
<1>1. ASSUME NEW c \in Client PROVE Logged(c)'
  <2>1. CASE call'[c] = call[c]
    BY <2>1 DEF LogInv, Logged, Origins
  <2>2. CASE call'[c].at \notin LatePoint
    BY <2>2 DEF Logged, LatePoint
  <2>3. CASE CompleteWrite(c)
    <3>1. call'[c].at = "complete_commit" /\ call'[c].task = call[c].task
      BY <2>3, WentOn DEF CompleteWrite, TypeInv, TypeOK, ControlPoint
    <3> QED BY <2>3, <3>1 DEF CompleteWrite, Logged
  <2>4. CASE AmendWrite(c)
    <3>1. call'[c].at \in {"amend_revoke", "amend_commit"} /\ call'[c].req = call[c].req
      BY <2>4, WentOn DEF AmendWrite, TypeInv, TypeOK, ControlPoint
    <3> QED BY <2>4, <3>1 DEF AmendWrite, Logged
  <2>5. CASE Revoking(c)
    <3>1. /\ log' = log /\ call[c].at \in {"amend_revoke", "amend_replace"}
          /\ \/ call'[c].at = "idle"
             \/ /\ call'[c].at \in {"amend_replace", "amend_commit"}
                /\ call'[c].req = call[c].req
      BY <2>5, RevokingMoves DEF TypeInv
    <3> QED BY <3>1 DEF LogInv, Logged
  <2>6. CASE VerifyRead(c)
    <3>1. call'[c].at \in {"idle", "verify_write"}
      BY <2>6, WentOn, Returned DEF VerifyRead, TypeInv, TypeOK, ControlPoint
    <3> QED BY <3>1 DEF Logged
  <2>7. CASE VerifyWrite(c)
    <3>1. call'[c].at = "verify_commit"
      BY <2>7, WentOn DEF VerifyWrite, TypeInv, TypeOK, ControlPoint
    <3> QED BY <2>7, <3>1 DEF VerifyWrite, Logged
  <2> QED BY <2>1, <2>2, <2>3, <2>4, <2>5, <2>6, <2>7 DEF Origins
<1>2. ASSUME NEW t \in Done' PROVE [verb |-> "complete_task", task |-> t] \in log'
  <2>1. CASE t \in Done
    BY <2>1 DEF LogInv, Accounted, Origins
  <2>2. ASSUME NEW c \in Client, CompleteCommit(c), t = call[c].task
        PROVE  [verb |-> "complete_task", task |-> t] \in log'
    BY <2>2 DEF CompleteCommit, LogInv, Logged
  <2> QED BY <1>2, <2>1, <2>2 DEF Origins
<1>3. stage' = "verified" => [verb |-> "verify_feature"] \in log'
  <2>1. CASE stage = "verified"
    BY <2>1 DEF LogInv, Accounted, Origins
  <2>2. ASSUME NEW c \in Client, VerifyCommit(c)
        PROVE  [verb |-> "verify_feature"] \in log'
    BY <2>2 DEF VerifyCommit, LogInv, Logged
  <2> QED BY <2>1, <2>2 DEF Origins
<1> QED BY <1>1, <1>2, <1>3 DEF LogInv, Accounted

\* What verify_feature has found accepted stays accepted, and the task list it
\* looked at stays the task list, until it writes and ever after.
LEMMA VerifiedStep ==
    ASSUME TypeInv, LifecycleInv, AcceptInv, VerifiedInv, Forward, Origins
    PROVE  VerifiedInv'
<1>1. AllAccepted /\ stage \in Tasked => AllAccepted'
  BY DEF AllAccepted, Origins, Forward
<1>2. ASSUME NEW c \in Client, call'[c].at \in {"verify_write", "verify_commit"}
      PROVE  AllAccepted'
  <2>1. CASE call'[c] = call[c]
    BY <1>1, <1>2, <2>1 DEF VerifiedInv, LifecycleInv, StageKnown
  <2>2. CASE CompleteWrite(c) \/ AmendWrite(c) \/ Revoking(c)
    <3>1. call'[c].at \in {"idle", "complete_commit", "amend_revoke", "amend_replace",
                           "amend_commit"}
      BY <2>2, WentOn, RevokingMoves
      DEF CompleteWrite, AmendWrite, TypeInv, TypeOK, ControlPoint
    <3> QED BY <1>2, <3>1
  <2>3. CASE VerifyRead(c)
    <3>1. Complete
      BY <1>2, <2>3, Returned DEF VerifyRead, TypeInv, TypeOK
    <3>2. Existing \subseteq Done /\ Done \subseteq Accepted /\ Done \subseteq Existing
      BY <3>1 DEF Complete, AcceptInv, DoneWasJudged, Accepted, Done, Existing
    <3>3. AllAccepted
      BY <3>1, <3>2 DEF Complete, AllAccepted
    <3> QED BY <1>1, <2>3, <3>3 DEF VerifyRead, LifecycleInv, StageKnown
  <2>4. CASE VerifyWrite(c)
    <3>1. call[c].at = "verify_write"
      BY <2>4 DEF VerifyWrite
    <3> QED BY <1>1, <3>1 DEF VerifiedInv, LifecycleInv, StageKnown
  <2> QED BY <1>2, <2>1, <2>2, <2>3, <2>4 DEF Origins, LatePoint
<1>3. stage' = "verified" => AllAccepted'
  <2>1. CASE stage = "verified"
    BY <1>1, <2>1 DEF VerifiedInv, Tasked
  <2>2. ASSUME NEW c \in Client, VerifyCommit(c) PROVE AllAccepted'
    <3>1. call[c].at = "verify_commit"
      BY <2>2 DEF VerifyCommit
    <3> QED BY <1>1, <3>1 DEF VerifiedInv, LifecycleInv, StageKnown
  <2> QED BY <2>1, <2>2 DEF Origins
<1> QED BY <1>2, <1>3 DEF VerifiedInv

\* A call that is at the second step of a revoke, or under a grant that it has used
\* up, was brought there by a step of the revoke.
LEMMA RevokeOnly ==
    ASSUME TypeInv, Origins, NEW c \in Client, ~Revoking(c)
    PROVE  /\ call'[c].at = "amend_replace" => call'[c] = call[c]
           /\ \A g \in Grant : Amending(c, g)' => Amending(c, g)
<1>1. CASE call'[c] = call[c]
  BY <1>1 DEF Amending
<1>2. CASE call'[c].at \notin LatePoint
  BY <1>2 DEF LatePoint, Amending
<1>3. CASE AmendWrite(c)
  BY <1>3, WentOn DEF AmendWrite, TypeInv, TypeOK, ControlPoint, Amending
<1>4. CASE CompleteWrite(c) \/ VerifyRead(c) \/ VerifyWrite(c)
  <2>1. call'[c].at \in {"idle", "complete_commit", "verify_write", "verify_commit"}
    BY <1>4, WentOn, Returned
    DEF CompleteWrite, VerifyRead, VerifyWrite, TypeInv, TypeOK, ControlPoint
  <2> QED BY <2>1 DEF Amending
<1> QED BY <1>1, <1>2, <1>3, <1>4 DEF Origins

\* A step of no revoke puts no grant into the hands of one, and brings no amend
\* nearer to its commit.
LEMMA NoRevoke ==
    ASSUME TypeInv, TypeInv', GrantInv, Origins, \A c \in Client : ~Revoking(c),
           issued <= issued'
    PROVE  /\ \A c \in Client : call'[c].at = "amend_replace" =>
                 call'[c].grant \in Grant /\ call'[c].grant <= issued'
           /\ \A g \in Grant : Usable(g)' => Usable(g) \/ grant' = g
           /\ \A c \in Client, g \in Grant : Amending(c, g)' => Amending(c, g)
<1>1. \A c \in Client : call'[c].at = "amend_replace" => call'[c] = call[c]
  BY RevokeOnly
<1>2. \A c \in Client, g \in Grant : Amending(c, g)' => Amending(c, g)
  BY RevokeOnly
<1>3. ASSUME NEW c \in Client, call'[c].at = "amend_replace"
      PROVE  call'[c].grant \in Grant /\ call'[c].grant <= issued'
  <2>1. call[c].at = "amend_replace" /\ call'[c].grant = call[c].grant
    BY <1>1, <1>3
  <2>2. call[c].grant \in Grant /\ call[c].grant <= issued
    BY <2>1 DEF GrantInv, OnlyIssued
  <2>3. call[c].grant \in Nat /\ issued \in Nat /\ issued' \in Nat
    BY <2>2 DEF Grant, TypeInv, TypeOK
  <2> QED BY <2>1, <2>2, <2>3
<1>4. ASSUME NEW g \in Grant, Usable(g)' PROVE Usable(g) \/ grant' = g
  BY <1>1, <1>4 DEF Usable
<1> QED BY <1>2, <1>3, <1>4

\* Numbers of grants are numbers, and none of them is NoGrant.
LEMMA GrantNumbers ==
    ASSUME TypeInv
    PROVE  /\ issued \in Nat /\ grant \in Nat
           /\ \A g \in Grant : /\ g \in Nat /\ g > 0 /\ g # NoGrant
                               /\ spent[g] \in Nat /\ revived[g] \in Nat /\ amended[g] \in Nat
           /\ \A g \in copies : g \in Grant
BY SpecAssumption DEF TypeInv, TypeOK, Grant, NoGrant

\* The operator issues a grant that nobody has used.
LEMMA AllowAmendGrants ==
    ASSUME TypeInv, TypeInv', GrantInv, Origins, \A c \in Client : ~Revoking(c), AllowAmend
    PROVE  GrantInv'
<1>1. /\ grant' = issued + 1 /\ issued' = issued + 1
      /\ UNCHANGED <<copies, spent, revived, amended>>
  BY DEF AllowAmend
<1>2. issued <= issued'
  BY <1>1, GrantNumbers
<1>3. OnlyIssued'
  BY <1>1, <1>2, NoRevoke, GrantNumbers DEF GrantInv, OnlyIssued
<1>4. ASSUME NEW g \in Grant PROVE UsesOf(g)'
  <2>1. Usable(g)' => Usable(g) \/ g = issued + 1
    BY <1>1, <1>2, NoRevoke
  <2>2. \A c \in Client : Amending(c, g)' => Amending(c, g)
    BY <1>2, NoRevoke
  <2>3. UsesOf(g)
    BY DEF GrantInv
  <2>4. g = issued + 1 => spent[g] = 0
    BY <2>3, GrantNumbers DEF UsesOf
  <2> QED BY <1>1, <2>1, <2>2, <2>3, <2>4, GrantNumbers DEF UsesOf
<1> QED BY <1>3, <1>4 DEF GrantInv

\* A save for another specification puts back a grant that it has loaded; if that
\* was used, it may be used once more.
LEMMA OtherSavesGrants ==
    ASSUME TypeInv, TypeInv', GrantInv, Origins, \A c \in Client : ~Revoking(c), OtherSaves
    PROVE  GrantInv'
<1>1. PICK h \in (copies \cup {NoGrant}) \ {grant} :
         /\ grant' = h
         /\ revived' = IF h # NoGrant /\ spent[h] > 0
                       THEN [revived EXCEPT ![h] = @ + 1] ELSE revived
  BY DEF OtherSaves
<1>2. UNCHANGED <<issued, copies, spent, amended>>
  BY DEF OtherSaves
<1>3. h \in Nat /\ h <= issued
  BY GrantNumbers DEF GrantInv, OnlyIssued, NoGrant
<1>4. OnlyIssued'
  BY <1>1, <1>2, <1>3, NoRevoke, GrantNumbers DEF GrantInv, OnlyIssued
<1>5. ASSUME NEW g \in Grant PROVE UsesOf(g)'
  <2>1. Usable(g)' => Usable(g) \/ g = h
    BY <1>1, <1>2, NoRevoke, GrantNumbers
  <2>2. \A c \in Client : Amending(c, g)' => Amending(c, g)
    BY <1>2, NoRevoke, GrantNumbers
  <2>3. UsesOf(g)
    BY DEF GrantInv
  <2>4. CASE g = h /\ spent[g] > 0
    <3>1. revived \in [Grant -> Nat]
      BY DEF TypeInv, TypeOK
    <3>2. revived'[g] = revived[g] + 1
      BY <1>1, <2>4, <3>1, GrantNumbers
    <3> QED BY <1>2, <2>2, <2>3, <2>4, <3>2, GrantNumbers DEF UsesOf
  <2>5. CASE ~(g = h /\ spent[g] > 0)
    <3>1. revived \in [Grant -> Nat]
      BY DEF TypeInv, TypeOK
    <3>2. revived'[g] = revived[g]
      BY <1>1, <2>5, <3>1, GrantNumbers
    <3>3. Usable(g)' => Usable(g) \/ spent[g] = 0
      BY <2>1, <2>5, GrantNumbers
    <3> QED BY <1>2, <2>2, <2>3, <3>2, <3>3, GrantNumbers DEF UsesOf
  <2> QED BY <2>4, <2>5
<1> QED BY <1>4, <1>5 DEF GrantInv

\* The first step of a revoke only keeps what it has found in the file.
LEMMA AmendRevokeGrants ==
    ASSUME TypeInv, TypeInv', GrantInv, NEW c \in Client, AmendRevoke(c)
    PROVE  GrantInv'
<1>1. Others(c) /\ UNCHANGED grantvars
  BY AmendRevokeMoves DEF TypeInv, AmendRevoke
<1>2. \/ call'[c].at = "amend_replace" /\ call'[c].grant = grant /\ grant # NoGrant
      \/ call'[c].at = "idle"
  BY AmendRevokeMoves DEF TypeInv
<1>3. grant \in Grant \cup {NoGrant} /\ grant <= issued
  BY DEF TypeInv, TypeOK, GrantInv, OnlyIssued
<1>4. OnlyIssued'
  BY <1>1, <1>2, <1>3 DEF GrantInv, OnlyIssued, grantvars, Others
<1>5. ASSUME NEW g \in Grant PROVE UsesOf(g)'
  <2>1. Usable(g)' => Usable(g)
    BY <1>1, <1>2 DEF Usable, grantvars, Others
  <2>2. \A d \in Client : Amending(d, g)' => Amending(d, g)
    BY <1>1, <1>2 DEF Amending, Others
  <2> QED BY <1>1, <2>1, <2>2 DEF GrantInv, UsesOf, grantvars
<1> QED BY <1>4, <1>5 DEF GrantInv

\* The second one leaves no grant in the file, and no other call is inside a
\* revoke or at its commit, for this one holds the write lock.
LEMMA AmendReplaceGrants ==
    ASSUME TypeInv, TypeInv', GrantInv, NEW c \in Client, AmendReplace(c)
    PROVE  GrantInv'
<1>1. Others(c) /\ call[c].at = "amend_replace" /\ grant' = NoGrant
  BY AmendReplaceMoves DEF TypeInv, AmendReplace
<1>2. UNCHANGED <<copies, issued, revived, amended>>
  BY DEF AmendReplace
<1>3. \/ /\ call'[c].at = "amend_commit" /\ call'[c].grant = call[c].grant
         /\ spent' = [spent EXCEPT ![call[c].grant] = @ + 1]
      \/ call'[c].at = "idle" /\ spent' = spent
  BY AmendReplaceMoves DEF TypeInv
<1>4. ASSUME NEW d \in Client
      PROVE  /\ call'[d].at # "amend_replace"
             /\ call'[d].at = "amend_commit" => d = c
  <2>1. d # c => call[d].at \notin Holding
    BY <1>1, SpecAssumption DEF TypeInv, LockHeld, Holding
  <2> QED BY <1>1, <1>3, <2>1 DEF Others, Holding
<1>5. call[c].grant \in Grant /\ call[c].grant <= issued
  BY <1>1 DEF GrantInv, OnlyIssued
<1>6. OnlyIssued'
  BY <1>1, <1>2, <1>4, GrantNumbers DEF GrantInv, OnlyIssued, NoGrant
<1>7. ASSUME NEW g \in Grant PROVE UsesOf(g)'
  <2>1. ~Usable(g)'
    BY <1>1, <1>4, GrantNumbers DEF Usable
  <2>2. UsesOf(g)
    BY DEF GrantInv
  <2>3. CASE g = call[c].grant /\ spent' = [spent EXCEPT ![call[c].grant] = @ + 1]
    <3>1. spent'[g] = spent[g] + 1
      BY <2>3 DEF TypeInv, TypeOK
    <3>2. spent[g] <= revived[g] /\ g <= issued
      BY <1>1, <1>5, <2>2, <2>3 DEF UsesOf, Usable
    <3> QED BY <1>2, <2>1, <2>2, <3>1, <3>2, GrantNumbers DEF UsesOf
  <2>4. CASE ~(g = call[c].grant /\ spent' = [spent EXCEPT ![call[c].grant] = @ + 1])
    <3>1. spent'[g] = spent[g]
      BY <1>3, <2>4 DEF TypeInv, TypeOK
    <3>2. \A d \in Client : ~Amending(d, g)'
      BY <1>3, <1>4, <2>4 DEF Amending
    <3> QED BY <1>2, <2>1, <2>2, <3>1, <3>2 DEF UsesOf
  <2> QED BY <2>3, <2>4
<1> QED BY <1>6, <1>7 DEF GrantInv

\* An amend commits under the grant that it has used up, and there is no other one
\* at its commit.
LEMMA AmendCommitGrants ==
    ASSUME TypeInv, TypeInv', GrantInv, Origins, \A c \in Client : ~Revoking(c),
           NEW c \in Client, AmendCommit(c)
    PROVE  GrantInv'
<1>1. /\ Others(c) /\ call'[c].at = "idle" /\ call[c].at = "amend_commit"
      /\ UNCHANGED <<grant, copies, issued, spent, revived>>
      /\ amended' = IF call[c].flag THEN [amended EXCEPT ![call[c].grant] = @ + 1]
                    ELSE amended
  BY Returned DEF AmendCommit, TypeInv, TypeOK
<1>2. issued <= issued'
  BY <1>1, GrantNumbers
<1>3. OnlyIssued'
  BY <1>1, <1>2, NoRevoke DEF GrantInv, OnlyIssued
<1>4. ASSUME NEW d \in Client PROVE call'[d].at # "amend_commit"
  <2>1. d # c => call[d].at \notin Holding
    BY <1>1, SpecAssumption DEF TypeInv, LockHeld, Holding
  <2> QED BY <1>1, <2>1 DEF Others, Holding
<1>5. ASSUME NEW g \in Grant PROVE UsesOf(g)'
  <2>1. Usable(g)' => Usable(g)
    BY <1>1, <1>2, NoRevoke DEF Usable
  <2>2. UsesOf(g)
    BY DEF GrantInv
  <2>3. amended'[g] <= spent[g]
    <3>1. amended \in [Grant -> Nat]
      BY DEF TypeInv, TypeOK
    <3>2. CASE Amending(c, g)
      <4>1. amended'[g] = amended[g] + 1
        BY <1>1, <3>1, <3>2 DEF Amending
      <4> QED BY <2>2, <3>2, <4>1 DEF UsesOf
    <3>3. CASE ~Amending(c, g)
      <4>1. amended'[g] = amended[g]
        BY <1>1, <3>1, <3>3 DEF Amending
      <4> QED BY <2>2, <4>1 DEF UsesOf
    <3> QED BY <3>2, <3>3
  <2> QED BY <1>1, <1>4, <2>1, <2>2, <2>3 DEF UsesOf, Amending
<1> QED BY <1>3, <1>5 DEF GrantInv

\* Nothing else is done with the grants: they expire, or are loaded.
LEMMA GrantStep ==
    ASSUME TypeInv, TypeInv', GrantInv, Origins
    PROVE  GrantInv'
<1>1. CASE \E c \in Client : Revoking(c)
  BY <1>1, AmendRevokeGrants, AmendReplaceGrants DEF Revoking
<1>2. ASSUME \A c \in Client : ~Revoking(c), UNCHANGED grantvars \/ GrantExpires \/ OtherLoads
      PROVE  GrantInv'
  <2>1. /\ UNCHANGED <<grant, issued, spent, revived, amended>>
        /\ copies' \subseteq copies \cup {grant}
    BY <1>2 DEF GrantExpires, OtherLoads, grantvars
  <2>2. issued <= issued'
    BY <2>1, GrantNumbers
  <2>3. OnlyIssued'
    BY <1>2, <2>1, <2>2, NoRevoke DEF GrantInv, OnlyIssued
  <2>4. ASSUME NEW g \in Grant PROVE UsesOf(g)'
    <3>1. Usable(g)' => Usable(g)
      BY <1>2, <2>1, <2>2, NoRevoke DEF Usable
    <3>2. \A c \in Client : Amending(c, g)' => Amending(c, g)
      BY <1>2, <2>2, NoRevoke
    <3> QED BY <2>1, <3>1, <3>2 DEF GrantInv, UsesOf
  <2> QED BY <2>3, <2>4 DEF GrantInv
<1> QED BY <1>1, <1>2, AllowAmendGrants, OtherSavesGrants, AmendCommitGrants DEF Origins

\* All layers together.
LEMMA FullStep ==
    ASSUME FullInv, [Next]_vars
    PROVE  FullInv' /\ Forward /\ Origins
<1>1. TypeInv' /\ LifecycleInv' /\ Forward /\ AcceptInv' /\ Origins
  BY TypeStep, LifecycleStep, AcceptStep, StepOrigins DEF FullInv
<1> QED BY <1>1, LogStep, VerifiedStep, GrantStep DEF FullInv

\* The inductive invariant.
LEMMA FullInvariant == Spec => []FullInv
<1>1. FullInv /\ [Next]_vars => FullInv'
  BY FullStep
<1> QED BY <1>1, FullInit, PTL DEF Spec

\* Whatever dies between two steps, no done task and no verified stage is
\* committed that the audit log does not hold.
THEOREM CommitsAccounted == Spec => []Accounted
<1>1. FullInv => Accounted
  BY DEF FullInv, LogInv
<1> QED BY <1>1, FullInvariant, PTL

\* Nor is an amend.
THEOREM AmendsAccounted == Spec => AmendAccounted
<1>1. FullInv /\ [Next]_vars =>
         [\A r \in Req : frozen[r] # None /\ frozen'[r] # frozen[r] =>
              [verb |-> "amend_check", req |-> r] \in log]_vars
  <2> SUFFICES ASSUME FullInv, [Next]_vars, NEW r \in Req,
                      frozen[r] # None, frozen'[r] # frozen[r]
               PROVE  [verb |-> "amend_check", req |-> r] \in log
    OBVIOUS
  <2>1. PICK c \in Client : AmendCommit(c) /\ r = call[c].req
    BY FullStep DEF Origins
  <2> QED BY <2>1 DEF AmendCommit, FullInv, LogInv, Logged
<1> QED BY <1>1, FullInvariant, PTL DEF Spec, AmendAccounted

\* The step that replaces a check leaves nothing done that relied on it, and the
\* specification not verified.
THEOREM ReplacedCheckReopens == Spec => AmendReopens
<1>1. FullInv /\ [Next]_vars =>
         [\A r \in Req : frozen[r] # None /\ frozen'[r] # frozen[r] =>
             /\ \A t \in Task : r \in TaskReqs[t] => task'[t] # "done"
             /\ stage' # "verified"]_vars
  <2> SUFFICES ASSUME FullInv, [Next]_vars, NEW r \in Req,
                      frozen[r] # None, frozen'[r] # frozen[r]
               PROVE  /\ \A t \in Task : r \in TaskReqs[t] => task'[t] # "done"
                      /\ stage' # "verified"
    OBVIOUS
  <2>1. PICK c \in Client : AmendCommit(c) /\ r = call[c].req
    BY FullStep DEF Origins
  <2> QED BY <2>1 DEF AmendCommit, Reopened, Done
<1> QED BY <1>1, FullInvariant, PTL DEF Spec, AmendReopens

\* A verified specification has had every task accepted, and a task accepted for
\* every requirement, however verify_feature's reads and write interleave with
\* amends, completions and automated tasks.
THEOREM VerifiedMeansAccepted == Spec => []VerifiedWasAccepted
<1>1. FullInv => VerifiedWasAccepted
  BY DEF FullInv, VerifiedInv, AllAccepted, Accepted, VerifiedWasAccepted
<1> QED BY <1>1, FullInvariant, PTL

\* An operator's grant allows one amend, and one more for each time that a save of
\* another specification's grant, loaded before it was used, has put it back:
\* whatever amends, expiry, the operator and such saves do at once.
THEOREM GrantsBoundAmends == Spec => []OneAmendPerGrant
<1>1. FullInv => OneAmendPerGrant
  <2> SUFFICES ASSUME FullInv, NEW g \in Grant PROVE amended[g] <= 1 + revived[g]
    BY DEF OneAmendPerGrant
  <2>1. amended[g] \in Nat /\ spent[g] \in Nat /\ revived[g] \in Nat
    BY DEF FullInv, TypeInv, TypeOK
  <2> QED BY <2>1 DEF FullInv, GrantInv, UsesOf
<1> QED BY <1>1, FullInvariant, PTL

-----------------------------------------------------------------------------
(* The engine implements SpecLifecycle: under the refinement mapping of        *)
(* SpecEngine!Lifecycle the commits are the lifecycle's verbs, and every other *)
(* step leaves its variables alone.                                            *)

\* The commits: what they change of the variables of the lifecycle.
Commit(c) ==
    \/ SpecifyFeature(c) \/ PlanWrite(c) \/ TasksCommit(c) \/ ErrorsWrite(c)
    \/ CompleteCommit(c) \/ AmendCommit(c) \/ VerifyCommit(c)

\* Every other step leaves the rows and the acceptances alone.
LEMMA NoCommitNoChange ==
    ASSUME [Next]_vars, \A c \in Client : ~Commit(c)
    PROVE  UNCHANGED <<dbvars, proof>>
<1>1. CASE UNCHANGED vars
  BY <1>1 DEF vars
<1>2. CASE Environment
  BY <1>2 DEF Environment, AllowAmend, GrantExpires, OtherLoads, OtherSaves, EditFile
<1>3. ASSUME NEW c \in Client, Start(c) PROVE UNCHANGED <<dbvars, proof>>
  <2>1. PlanFeature(c) \/ VerifyFeature(c) => OnlyCall
    BY DEF PlanFeature, VerifyFeature
  <2>2. \A ts \in SUBSET Task : TasksFeature(c, ts) => OnlyCall
    BY DEF TasksFeature
  <2>3. \A t \in Task : CompleteTask(c, t) => OnlyCall
    BY DEF CompleteTask
  <2>4. \A r \in Req, direct \in BOOLEAN : AmendCheck(c, r, direct) => OnlyCall
    BY DEF AmendCheck
  <2>5. OnlyCall
    BY <1>3, <2>1, <2>2, <2>3, <2>4 DEF Start, Commit
  <2> QED BY <2>5 DEF OnlyCall
<1>4. ASSUME NEW c \in Client, Proceed(c) PROVE UNCHANGED <<dbvars, proof>>
  <2>1. CASE AuditAfterCommit(c) \/ ObserveBaseline(c) \/ TasksRun(c) \/ IntegrityError(c)
             \/ CompleteReadTasks(c) \/ CompleteReadChecks(c) \/ CompleteJudge(c)
             \/ CompleteGate(c) \/ AmendRefused(c) \/ VerifyRead(c) \/ BusyTimeout(c)
    BY <2>1 DEF AuditAfterCommit, ObserveBaseline, TasksRun, IntegrityError,
      CompleteReadTasks, CompleteReadChecks, CompleteJudge, CompleteGate, AmendRefused,
      VerifyRead, BusyTimeout, OnlyCall
  <2>2. CASE \/ TasksWrite(c) \/ CompleteWrite(c) \/ AmendWrite(c) \/ AmendRevoke(c)
             \/ AmendReplace(c) \/ VerifyWrite(c)
    BY <2>2 DEF TasksWrite, CompleteWrite, AmendWrite, AmendRevoke, AmendReplace, VerifyWrite
  <2>3. CASE \E r \in Req : CompleteRunCheck(c, r)
    BY <2>3 DEF CompleteRunCheck, OnlyCall
  <2> QED BY <1>4, <2>1, <2>2, <2>3 DEF Proceed, Commit
<1>5. ASSUME NEW c \in Client, Abort(c) PROVE UNCHANGED <<dbvars, proof>>
  BY <1>5 DEF Abort
<1> QED BY <1>1, <1>2, <1>3, <1>4, <1>5 DEF Next

\* The states before the first call map to initial states of the lifecycle.
LEMMA LifecycleBegins == Init => Lifecycle!Init
<1> SUFFICES ASSUME Init PROVE Lifecycle!Init
  OBVIOUS
<1>1. Done = {} /\ Accepted = {}
  BY DEF Init, Quiet, NoRows, LegacyRows, Done, Accepted
<1>2. CASE NoRows
  <2>1. Existing = {}
    BY <1>2 DEF NoRows, Existing
  <2> QED BY <1>1, <1>2, <2>1 DEF Lifecycle!Init, NoRows, NoChecks, Accepted
<1>3. CASE LegacyRows
  <2>1. PICK ts \in SUBSET Task :
           ValidTasks(ts) /\ task = [t \in Task |-> IF t \in ts THEN "pending" ELSE "none"]
    BY <1>3 DEF LegacyRows
  <2>2. Existing = ts
    BY <2>1 DEF Existing
  <2>3. Lifecycle!Listable(Existing)
    BY <2>1, <2>2 DEF ValidTasks, Lifecycle!Listable
  <2>4. Lifecycle!EveryCheck(frozen)
    BY <1>3, LifecycleInit
    DEF LegacyRows, LifecycleInv, StageCoherent, Tasked, Lifecycle!EveryCheck
  <2> QED BY <1>1, <1>3, <2>3, <2>4 DEF Lifecycle!Init, LegacyRows, Accepted
<1> QED BY <1>2, <1>3 DEF Init

\* Every step maps to a verb of the lifecycle or to a stutter: what a call read
\* long before it commits still justifies the commit at that moment.
LEMMA LifecycleNext ==
    ASSUME FullInv, [Next]_vars
    PROVE  [Lifecycle!Next]_(Lifecycle!vars)
<1> USE DEF FullInv
<1>1. \A c \in Client : StageKnown(c) /\ Judged(c)
  BY DEF LifecycleInv, AcceptInv
<1>2. TypeOK /\ StageCoherent
  BY DEF TypeInv, LifecycleInv
<1>3. ASSUME NEW c \in Client, SpecifyFeature(c) \/ PlanWrite(c) PROVE Lifecycle!Next
  <2>1. UNCHANGED <<Existing, Done, frozen, Accepted>>
    BY <1>3 DEF SpecifyFeature, PlanWrite, Existing, Done, Accepted
  <2>2. CASE SpecifyFeature(c)
    BY <2>1, <2>2 DEF SpecifyFeature, Lifecycle!Next, Lifecycle!Specify, Accepted
  <2>3. CASE PlanWrite(c)
    <3>1. stage = "specified"
      BY <1>1, <1>2, <2>3 DEF PlanWrite, UniqueViolation, StageKnown, StageCoherent, TypeOK
    <3> QED BY <2>1, <2>3, <3>1 DEF PlanWrite, Lifecycle!Next, Lifecycle!Plan, Accepted
  <2> QED BY <1>3, <2>2, <2>3
<1>4. ASSUME NEW c \in Client, TasksCommit(c) PROVE Lifecycle!Tasks
  <2>1. /\ stage \in {"specified", "planned"} /\ Existing = {}
        /\ call[c].list \in SUBSET Task /\ call[c].list # {}
        /\ \A t \in call[c].list : TaskReqs[t] # {} /\ TaskDeps[t] \subseteq call[c].list
        /\ \A r \in Req : call[c].checks[r] # None
    BY <1>1, <1>2, <1>4 DEF TasksCommit, StageKnown, StageCoherent, TypeOK, Call
  <2>2. Existing' = call[c].list /\ Done' = Done /\ Accepted' = Accepted
    BY <1>4, <2>1 DEF TasksCommit, Existing, Done, Accepted
  <2>3. Lifecycle!Listable(Existing')
    BY <2>1, <2>2 DEF Lifecycle!Listable
  <2>4. Lifecycle!EveryCheck(frozen')
    BY <1>4, <2>1 DEF TasksCommit, Lifecycle!EveryCheck
  <2> QED BY <1>4, <2>1, <2>2, <2>3, <2>4 DEF TasksCommit, Lifecycle!Tasks, Accepted
<1>5. ASSUME NEW c \in Client, ErrorsWrite(c) PROVE Lifecycle!MarkErrors
  <2>1. stage \in Tasked /\ call[c].list \subseteq Existing
    BY <1>1, <1>5 DEF ErrorsWrite, StageKnown
  <2>2. Existing' = Existing /\ Done' \subseteq Done /\ Accepted' = Accepted
    BY <1>5, <2>1 DEF ErrorsWrite, Existing, Done, Accepted
  <2> QED BY <1>5, <2>1, <2>2
    DEF ErrorsWrite, Lifecycle!MarkErrors, Lifecycle!Tasked, Tasked, Accepted
<1>6. ASSUME NEW c \in Client, CompleteCommit(c) PROVE Lifecycle!Next
  <2> DEFINE a == [seen |-> call[c].checks, ran |-> call[c].ran]
  <2>0. PICK u \in Task : u = call[c].task
    BY <1>1, <1>6 DEF CompleteCommit, StageKnown, CompletePoint, Existing
  <2>1. u \in Existing /\ stage \in Tasked
    BY <1>1, <1>6, <2>0 DEF CompleteCommit, StageKnown, CompletePoint, Existing
  <2>2. TaskDeps[u] \subseteq Accepted
    BY <1>1, <1>6, <2>0 DEF CompleteCommit, Judged, CompletePoint
  <2>3. a \in Acceptance /\ a # None
    BY <1>2, SpecAssumption DEF TypeOK, Call, Acceptance
  <2>4. task' = [task EXCEPT ![u] = "done"] /\ proof' = [proof EXCEPT ![u] = a]
        /\ stage' = "implementing" /\ frozen' = frozen
    BY <1>6, <2>0 DEF CompleteCommit
  <2> HIDE DEF a
  <2>5. /\ Existing' = Existing /\ Done' = Done \cup {u}
    <3>1. \A t \in Task : task'[t] = IF t = u THEN "done" ELSE task[t]
      BY <1>2, <2>4 DEF TypeOK
    <3> QED BY <2>1, <3>1 DEF Existing, Done
  <2>6. Accepted' = Accepted \cup {u}
    BY <1>2, <2>1, <2>3, <2>4 DEF TypeOK, Accepted
  <2>7. Lifecycle!Complete(u)
    BY <2>1, <2>2, <2>4, <2>5, <2>6
    DEF Lifecycle!Complete, Lifecycle!Tasked, Tasked, Accepted
  <2> QED BY <2>7 DEF Lifecycle!Next
<1>7. ASSUME NEW c \in Client, AmendCommit(c) PROVE Lifecycle!Next
  <2>0. PICK r \in Req : r = call[c].req
    BY <1>7 DEF AmendCommit, AmendPoint, TypeInv, Targets
  <2>1. stage \in Tasked /\ call[c].checks[r] # None
    BY <1>1, <1>7, <2>0 DEF AmendCommit, StageKnown, AmendPoint
  <2>2. \A q \in Req : frozen[q] # None
    BY <1>2, <2>1 DEF StageCoherent
  <2>3. frozen' = [frozen EXCEPT ![r] = call[c].checks[r]]
    BY <1>7, <2>0 DEF AmendCommit
  <2>4. /\ task' = [t \in Task |-> IF t \in Reopened(r) THEN "pending" ELSE task[t]]
        /\ stage' = IF stage = "verified" THEN "implementing" ELSE stage
        /\ proof' = proof
    BY <1>7, <2>0 DEF AmendCommit
  <2>5. /\ \A q \in Req : q = r \/ frozen'[q] = frozen[q]
        /\ Lifecycle!EveryCheck(frozen')
    BY <1>2, <2>1, <2>2, <2>3 DEF TypeOK, Lifecycle!EveryCheck
  <2>6. /\ Done' = Done \ Lifecycle!Answering(r) /\ Existing' = Existing
        /\ Accepted' = Accepted
    BY <2>4 DEF Done, Existing, Accepted, Reopened, Lifecycle!Answering
  <2>7. Lifecycle!Amend(r)
    BY <2>1, <2>4, <2>5, <2>6 DEF Lifecycle!Amend, Lifecycle!Tasked, Tasked, Accepted
  <2> QED BY <2>7 DEF Lifecycle!Next
<1>8. ASSUME NEW c \in Client, VerifyCommit(c) PROVE Lifecycle!Verify
  <2>1. AllAccepted /\ stage \in Tasked
    BY <1>1, <1>8 DEF VerifyCommit, StageKnown, VerifiedInv
  <2>2. Existing' = Existing /\ Done' = Done /\ Accepted' = Accepted /\ frozen' = frozen
    BY <1>8 DEF VerifyCommit, Existing, Done, Accepted
  <2>3. /\ Existing \subseteq Accepted
        /\ \A r \in Req : Lifecycle!Answering(r) \cap Accepted # {}
    BY <2>1 DEF AllAccepted, Lifecycle!Answering, Existing
  <2> QED BY <1>8, <2>1, <2>2, <2>3
    DEF VerifyCommit, Lifecycle!Verify, Lifecycle!Tasked, Tasked, Accepted
<1>9. CASE \A c \in Client : ~Commit(c)
  <2>1. UNCHANGED <<stage, task, frozen, proof>>
    BY <1>9, NoCommitNoChange DEF dbvars
  <2> QED BY <2>1 DEF Lifecycle!vars, Existing, Done
<1> QED BY <1>3, <1>4, <1>5, <1>6, <1>7, <1>8, <1>9 DEF Commit, Lifecycle!Next

\* The engine implements the lifecycle it promises: what a verb commits is what
\* the verb, made in one step at that moment, may do, however the reads and writes
\* of its callers interleave, for any number of callers, tasks and requirements.
THEOREM LifecycleImplemented == Spec => LifecycleKept
<1>1. FullInv /\ [Next]_vars => [Lifecycle!Next]_(Lifecycle!vars)
  BY LifecycleNext
<1> QED BY <1>1, LifecycleBegins, FullInvariant, PTL DEF Spec, LifecycleKept, Lifecycle!Spec
=============================================================================
