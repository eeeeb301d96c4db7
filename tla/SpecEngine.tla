----------------------------- MODULE SpecEngine -----------------------------
(***************************************************************************)
(* The acceptance lifecycle of one specification: core/spec/engine.py over *)
(* core/spec/store.py and core/db/base.py.  The verbs (specify, plan,      *)
(* tasks, complete, amend, verify) are called by concurrent clients: the   *)
(* MCP servers of several agents, the command line, the Python API.  A     *)
(* verb is several steps, and other clients run between two of them:       *)
(*   - a SELECT reads the committed database and takes no lock;            *)
(*   - the first INSERT or UPDATE of a session takes SQLite's single write *)
(*     lock, kept until the session commits or rolls back;                 *)
(*   - the files of the checks, the grant file and the audit log are       *)
(*     outside the database and outside its transactions.                  *)
(* Rows of different specifications never meet, so one is enough.          *)
(***************************************************************************)
EXTENDS Naturals, FiniteSets

CONSTANTS
    Client,         \* concurrent callers of the verbs
    Task,           \* task ids a caller of tasks_feature may list
    Req,            \* requirement ids of the specification
    Content,        \* contents the files of a check may have
    None,           \* no lock holder, no row, nothing run yet
    TaskReqs,       \* Task -> the requirements it references
    TaskDeps,       \* Task -> the tasks it depends on
    Callable,       \* tasks with a run callable (orchestrated by tasks_feature)
    TrivialLimit,   \* spec.trivial_max_requirements
    MaxGrants,      \* bound: grants the operator issues
    MaxSaves        \* bound: saves of other specifications' grants that change this one's

\* A frozen check: the sha256 of its files, and whether a run before the work
\* was observed for it (baseline "failed", or "passed" for a regression guard)
\* or not (baseline "unverified").
Check == [hash: Content, observed: BOOLEAN]

\* What the call that completed a task had seen and run (history).
Acceptance == [seen: [Req -> Check \cup {None}], ran: [Req -> Content \cup {None}]]

ASSUME SpecAssumption ==
    /\ IsFiniteSet(Req)
    /\ TaskReqs \in [Task -> SUBSET Req]
    /\ TaskDeps \in [Task -> SUBSET Task]
    /\ Callable \subseteq Task
    /\ MaxGrants \in Nat /\ MaxSaves \in Nat
    /\ None \notin Client \cup Task \cup Req \cup Content
    /\ None \notin Check
    /\ None \notin Acceptance

VARIABLES
    stage,          \* the spec_stage row ("none": the specification does not exist)
    trivial,        \* the spec row's complexity is "trivial"
    plan,           \* the plan row exists
    task,           \* the task rows' status ("none": no such row)
    frozen,         \* the acceptance_check rows (None: no such row)
    lock,           \* the client whose transaction holds the write lock
    file,           \* what the files of each requirement's check hold now
    grant,          \* the amend grant of this specification in the grant file, by its
                    \* number (NoGrant: none)
    expired,        \* grants whose time has passed
    copies,         \* what saves of the grants of other specifications have loaded of
                    \* this one's: any number of them, so that a copy stays
    log,            \* audit log: the "allow" records written inside a transaction
    call,           \* what each client is doing
    proof,          \* history: what the call that completed a task had seen and run
    issued,         \* history: grants the operator issued
    saves,          \* history: saves of the others' that changed this one's
    spent,          \* history, of each grant: revokes that used it up
    revived,        \* ... saves of the others' that brought it back after that
    amended         \* ... amends under it that committed

dbvars == <<stage, trivial, plan, task, frozen>>
grantvars == <<grant, expired, copies, issued, saves, spent, revived, amended>>
vars == <<dbvars, lock, file, log, call, proof, grantvars>>

-----------------------------------------------------------------------------
Tasked == {"tasked", "implementing", "verified"}

NoChecks == [r \in Req |-> None]

NoGrant == 0
Grant == 1..MaxGrants

\* The local state of a call.  list and checks hold what the call listed or
\* read, ran the contents each check was run on; flag is one fact the call
\* keeps: tasks (the stage read was "specified"), complete (the task was
\* already done), amend (a grant is needed); grant is the one an amend uses up.
Idle == [at |-> "idle", task |-> None, req |-> None, list |-> {},
         checks |-> NoChecks, ran |-> NoChecks, flag |-> FALSE, grant |-> NoGrant]

ControlPoint ==
    {"idle", "audit", "plan_write",
     "tasks_baseline", "tasks_write", "tasks_commit", "tasks_run", "errors_write",
     "complete_tasks", "complete_checks", "complete_judge", "complete_run",
     "complete_gate", "complete_write", "complete_commit",
     "amend_baseline", "amend_write", "amend_revoke", "amend_replace", "amend_commit",
     "verify_read", "verify_write", "verify_commit"}

\* Where a call waits for the write lock, and where it holds it.
WaitingNoBusyTimeout == {}      \* mutant: no busy_timeout

Waiting == {"plan_write", "tasks_write", "errors_write", "complete_write",
            "amend_write", "verify_write"}
Holding == {"tasks_commit", "complete_commit", "amend_revoke", "amend_replace",
            "amend_commit", "verify_commit"}

Call == [at: ControlPoint, task: Task \cup {None}, req: Req \cup {None},
         list: SUBSET Task, checks: [Req -> Check \cup {None}],
         ran: [Req -> Content \cup {None}], flag: BOOLEAN,
         grant: Grant \cup {NoGrant}]

Record == [verb: {"tasks", "verify_feature"}]
          \cup [verb: {"complete_task"}, task: Task]
          \cup [verb: {"amend_check"}, req: Req]

Go(c, at) == call' = [call EXCEPT ![c].at = at]
Return(c) == call' = [call EXCEPT ![c] = Idle]

OnlyCall == UNCHANGED <<dbvars, lock, file, log, proof, grantvars>>

Existing == {t \in Task : task[t] # "none"}
Done == {t \in Task : task[t] = "done"}

-----------------------------------------------------------------------------
\* _validate_tasks: distinct known ids, each with a requirement, no callable
\* task behind an interactive one, no dangling dependency, no cycle.
ValidTasks(ts) ==
    /\ ts # {}
    /\ \A t \in ts : TaskReqs[t] # {} /\ TaskDeps[t] \subseteq ts
    /\ \A t \in ts \cap Callable : TaskDeps[t] \subseteq Callable
    /\ \A S \in SUBSET ts : S # {} => \E t \in S : TaskDeps[t] \cap S = {}

\* _unchanged: every file the check was frozen with still has its hash.
Unchanged(check, r) == file[r] = check.hash

\* A specification tasked before checks recorded a baseline (migration 0003
\* gives its rows "unverified").
LegacyRows ==
    /\ stage = "tasked"
    /\ plan = TRUE
    /\ \E ts \in SUBSET Task :
          /\ ValidTasks(ts)
          /\ task = [t \in Task |-> IF t \in ts THEN "pending" ELSE "none"]
    /\ frozen = [r \in Req |-> [hash |-> file[r], observed |-> FALSE]]

NoRows ==
    /\ stage = "none"
    /\ plan = FALSE
    /\ task = [t \in Task |-> "none"]
    /\ frozen = NoChecks

Quiet ==
    /\ file \in [Req -> Content]
    /\ trivial = FALSE
    /\ lock = None
    /\ grant = NoGrant /\ expired = {} /\ copies = {}
    /\ log = {}
    /\ call = [c \in Client |-> Idle]
    /\ proof = [t \in Task |-> None]
    /\ issued = 0 /\ saves = 0
    /\ spent = [g \in Grant |-> 0] /\ revived = spent /\ amended = spent

Init == Quiet /\ (NoRows \/ LegacyRows)

-----------------------------------------------------------------------------
(* specify_feature and plan_feature: audited after their commit, so a call  *)
(* that ends in between leaves its change without a record.                 *)

SpecifyFeature(c) ==
    /\ call[c].at = "idle"
    /\ stage = "none"
    /\ lock = None
    /\ trivial' \in BOOLEAN
    /\ trivial' => Cardinality(Req) <= TrivialLimit
    /\ stage' = "specified"
    /\ Go(c, "audit")
    /\ UNCHANGED <<plan, task, frozen, lock, file, log, proof, grantvars>>

\* The audit record of both: the call is over, the database as it was.
AuditAfterCommit(c) ==
    /\ call[c].at = "audit"
    /\ Return(c)
    /\ OnlyCall

\* Mutants: a plan, or tasks and checks, written over what is there already
\* (session.merge for session.add).
UniqueViolationNoPlanKey(c) ==
    /\ call[c].at = "tasks_write"
    /\ \/ call[c].flag /\ plan
       \/ call[c].list \cap Existing # {}
       \/ \E r \in Req : frozen[r] # None

UniqueViolationPlanKeyOnly(c) ==
    /\ plan
    /\ call[c].at = "plan_write" \/ (call[c].at = "tasks_write" /\ call[c].flag)

\* The keys the INSERTs of a call meet: plan(spec_id), task(spec_id, task_id)
\* and acceptance_check(spec_id, requirement_id).
UniqueViolation(c) ==
    CASE call[c].at = "plan_write"  -> plan
      [] call[c].at = "tasks_write" ->
            \/ call[c].flag /\ plan
            \/ call[c].list \cap Existing # {}
            \/ \E r \in Req : frozen[r] # None
      [] OTHER -> FALSE

PlanFeature(c) ==
    /\ call[c].at = "idle"
    /\ stage = "specified"
    /\ Go(c, "plan_write")
    /\ OnlyCall

PlanWrite(c) ==
    /\ call[c].at = "plan_write"
    /\ lock = None
    /\ ~UniqueViolation(c)
    /\ plan' = TRUE
    /\ stage' = "planned"
    /\ Go(c, "audit")
    /\ UNCHANGED <<trivial, task, frozen, lock, file, log, proof, grantvars>>

-----------------------------------------------------------------------------
(* tasks_feature: the list and the checks are validated, hashed and run     *)
(* once before the session's first INSERT; the records of the whole set are *)
(* then written together.                                                   *)

TasksFeature(c, ts) ==
    /\ call[c].at = "idle"
    /\ stage = "planned" \/ (stage = "specified" /\ trivial)
    /\ ValidTasks(ts)
    /\ call' = [call EXCEPT ![c] =
          [Idle EXCEPT !.at = "tasks_baseline", !.list = ts,
                       !.flag = (stage = "specified"),
                       !.checks = [r \in Req |-> [hash |-> file[r],
                                                  observed |-> FALSE]]]]
    /\ OnlyCall

\* _observe_baseline, for tasks_feature and amend_check: a check that runs
\* properly and fails (expect "fail") or passes (a regression guard) is frozen;
\* any other outcome ends the call (Abort).
ObserveBaseline(c) ==
    /\ call[c].at \in {"tasks_baseline", "amend_baseline"}
    /\ call' = [call EXCEPT
          ![c].at = IF @ = "tasks_baseline" THEN "tasks_write" ELSE "amend_write",
          ![c].checks = [r \in Req |-> IF @[r] = None THEN None
                                       ELSE [hash |-> @[r].hash, observed |-> TRUE]]]
    /\ OnlyCall

TasksWrite(c) ==
    /\ call[c].at = "tasks_write"
    /\ lock = None
    /\ ~UniqueViolation(c)
    /\ lock' = c
    /\ log' = log \cup {[verb |-> "tasks"]}
    /\ Go(c, "tasks_commit")
    /\ UNCHANGED <<dbvars, file, proof, grantvars>>

TasksCommit(c) ==
    /\ call[c].at = "tasks_commit"
    /\ plan' = (plan \/ call[c].flag)
    /\ task' = [t \in Task |-> IF t \in call[c].list THEN "pending" ELSE task[t]]
    /\ frozen' = call[c].checks
    /\ stage' = "tasked"
    /\ lock' = None
    /\ IF call[c].list \cap Callable = {} THEN Return(c) ELSE Go(c, "tasks_run")
    /\ UNCHANGED <<trivial, file, log, proof, grantvars>>

\* orchestrate_tasks over the callable tasks: a node fails, or is skipped
\* behind one that did.
TasksRun(c) ==
    /\ call[c].at = "tasks_run"
    /\ \E bad \in SUBSET (call[c].list \cap Callable) :
          /\ \A t \in call[c].list \cap Callable : TaskDeps[t] \cap bad # {} => t \in bad
          /\ IF bad = {}
             THEN Return(c)
             ELSE call' = [call EXCEPT ![c].at = "errors_write", ![c].list = bad]
    /\ OnlyCall

\* The second session marks them, whatever their status is by now.
ErrorsWrite(c) ==
    /\ call[c].at = "errors_write"
    /\ lock = None
    /\ task' = [t \in Task |-> IF t \in call[c].list THEN "error" ELSE task[t]]
    /\ Return(c)
    /\ UNCHANGED <<stage, trivial, plan, frozen, lock, file, log, proof, grantvars>>

\* IntegrityError: the session rolls back.
IntegrityError(c) ==
    /\ lock = None
    /\ UniqueViolation(c)
    /\ Return(c)
    /\ OnlyCall

-----------------------------------------------------------------------------
(* complete_task: reads in one session, judges outside any, and writes in a *)
(* second session that takes nothing of the first back into account.        *)

CompleteTask(c, t) ==
    /\ call[c].at = "idle"
    /\ stage \in {"tasked", "implementing"}
    /\ call' = [call EXCEPT ![c] = [Idle EXCEPT !.at = "complete_tasks", !.task = t]]
    /\ OnlyCall

CompleteReadTasks(c) ==
    /\ call[c].at = "complete_tasks"
    /\ IF call[c].task \in Existing
       THEN call' = [call EXCEPT ![c].at = "complete_checks", ![c].list = Done,
                                 ![c].flag = (task[call[c].task] = "done")]
       ELSE Return(c)
    /\ OnlyCall

CompleteReadChecks(c) ==
    /\ call[c].at = "complete_checks"
    /\ call' = [call EXCEPT ![c].at = "complete_judge",
                   ![c].checks = [r \in Req |-> IF r \in TaskReqs[call[c].task]
                                                THEN frozen[r] ELSE None]]
    /\ OnlyCall

\* task_checks: the checks found for the requirements of the task.
TaskChecks(c) == {r \in Req : call[c].checks[r] # None}

\* Mutant: a baseline that was never observed lets it run.
MayRunUnproven(c) ==
    /\ TaskDeps[call[c].task] \subseteq call[c].list
    /\ TaskChecks(c) # {}
    /\ \A r \in TaskChecks(c) : Unchanged(call[c].checks[r], r)

\* The early rejects: a dependency is not done, there is no check, a check's
\* file changed since it was frozen, a baseline was never observed.
MayRun(c) ==
    /\ TaskDeps[call[c].task] \subseteq call[c].list
    /\ TaskChecks(c) # {}
    /\ \A r \in TaskChecks(c) : /\ Unchanged(call[c].checks[r], r)
                               /\ call[c].checks[r].observed

\* A task already done is accepted or rejected without a change.
CompleteJudge(c) ==
    /\ call[c].at = "complete_judge"
    /\ IF ~call[c].flag /\ MayRun(c) THEN Go(c, "complete_run") ELSE Return(c)
    /\ OnlyCall

\* One check runs, on what its files hold now, and passes.  (A check that
\* fails, is denied by policy or does not run rejects the call: Abort.)
CompleteRunCheck(c, r) ==
    /\ call[c].at = "complete_run"
    /\ r \in TaskChecks(c)
    /\ call[c].ran[r] = None
    /\ LET ran == [call[c].ran EXCEPT ![r] = file[r]] IN
       call' = [call EXCEPT ![c].ran = ran,
                   ![c].at = IF \A q \in TaskChecks(c) : ran[q] # None
                             THEN "complete_gate" ELSE "complete_run"]
    /\ OnlyCall

\* verify_output passed and grounded, and the reviewer approves.
CompleteGate(c) ==
    /\ call[c].at = "complete_gate"
    /\ Go(c, "complete_write")
    /\ OnlyCall

\* Mutant: the record is left for after the commit.
CompleteWriteUnaudited(c) ==
    /\ call[c].at = "complete_write"
    /\ lock = None
    /\ lock' = c
    /\ Go(c, "complete_commit")
    /\ UNCHANGED <<dbvars, file, log, proof, grantvars>>

CompleteWrite(c) ==
    /\ call[c].at = "complete_write"
    /\ lock = None
    /\ lock' = c
    /\ log' = log \cup {[verb |-> "complete_task", task |-> call[c].task]}
    /\ Go(c, "complete_commit")
    /\ UNCHANGED <<dbvars, file, proof, grantvars>>

\* Mutant: the stage's name written into the task's row.
CompleteCommitWrongStatus(c) ==
    /\ call[c].at = "complete_commit"
    /\ task' = [task EXCEPT ![call[c].task] = "implementing"]
    /\ stage' = "implementing"
    /\ lock' = None
    /\ Return(c)
    /\ UNCHANGED <<trivial, plan, frozen, file, log, proof, grantvars>>

\* Mutant: a verified specification stays so.
CompleteCommitKeepsVerified(c) ==
    /\ call[c].at = "complete_commit"
    /\ task' = [task EXCEPT ![call[c].task] = "done"]
    /\ stage' = IF stage = "verified" THEN stage ELSE "implementing"
    /\ proof' = [proof EXCEPT ![call[c].task] = [seen |-> call[c].checks,
                                                 ran |-> call[c].ran]]
    /\ lock' = None
    /\ Return(c)
    /\ UNCHANGED <<trivial, plan, frozen, file, log, grantvars>>

CompleteCommit(c) ==
    /\ call[c].at = "complete_commit"
    /\ task' = [task EXCEPT ![call[c].task] = "done"]
    /\ stage' = "implementing"
    /\ proof' = [proof EXCEPT ![call[c].task] = [seen |-> call[c].checks,
                                                 ran |-> call[c].ran]]
    /\ lock' = None
    /\ Return(c)
    /\ UNCHANGED <<trivial, plan, frozen, file, log, grantvars>>

-----------------------------------------------------------------------------
(* amend_check: direct is the command line's `spec amend` (no grant). *)

\* check_jit_grant
Live == grant # NoGrant /\ grant \notin expired

AmendCheck(c, r, direct) ==
    /\ call[c].at = "idle"
    /\ direct \/ Live
    /\ stage \in Tasked
    /\ frozen[r] # None
    /\ call' = [call EXCEPT ![c] =
          [Idle EXCEPT !.at = "amend_baseline", !.req = r, !.flag = ~direct,
                       !.checks = [NoChecks EXCEPT ![r] =
                           [hash |-> file[r], observed |-> FALSE]]]]
    /\ OnlyCall

\* Mutant: the record is left for after the commit.
AmendWriteUnaudited(c) ==
    /\ call[c].at = "amend_write"
    /\ lock = None
    /\ stage \in Tasked
    /\ call[c].flag => Live
    /\ lock' = c
    /\ Go(c, IF call[c].flag THEN "amend_revoke" ELSE "amend_commit")
    /\ UNCHANGED <<dbvars, file, log, proof, grantvars>>

\* The UPDATE of the check takes the lock; the grant is looked at again and
\* the change is audited under it.
AmendWrite(c) ==
    /\ call[c].at = "amend_write"
    /\ lock = None
    /\ stage \in Tasked
    /\ call[c].flag => Live
    /\ lock' = c
    /\ log' = log \cup {[verb |-> "amend_check", req |-> call[c].req]}
    /\ Go(c, IF call[c].flag THEN "amend_revoke" ELSE "amend_commit")
    /\ UNCHANGED <<dbvars, file, proof, grantvars>>

\* revoke_jit_grant loads the grants of all specifications and takes this one's
\* out; without one the amend raises, and the session rolls back.
AmendRevoke(c) ==
    /\ call[c].at = "amend_revoke"
    /\ IF grant # NoGrant
       THEN /\ call' = [call EXCEPT ![c].at = "amend_replace", ![c].grant = grant]
            /\ UNCHANGED lock
       ELSE Return(c) /\ lock' = None
    /\ UNCHANGED <<dbvars, file, log, proof, grantvars>>

\* Mutant: the grant is looked up and stays.
AmendReplaceKeepsGrant(c) ==
    /\ call[c].at = "amend_replace"
    /\ call[c].grant \notin expired
    /\ Go(c, "amend_commit")
    /\ spent' = [spent EXCEPT ![call[c].grant] = @ + 1]
    /\ UNCHANGED <<dbvars, lock, file, log, proof, grant, expired, copies, issued, saves,
                   revived, amended>>

\* It replaces the file by what is left, and answers whether the grant it took
\* out had not expired; if it had, the amend raises.
AmendReplace(c) ==
    /\ call[c].at = "amend_replace"
    /\ grant' = NoGrant
    /\ IF call[c].grant \notin expired
       THEN /\ Go(c, "amend_commit")
            /\ spent' = [spent EXCEPT ![call[c].grant] = @ + 1]
            /\ UNCHANGED lock
       ELSE Return(c) /\ lock' = None /\ UNCHANGED spent
    /\ UNCHANGED <<dbvars, file, log, proof, expired, copies, issued, saves, revived, amended>>

\* The grant was used or expired while the baseline ran.
AmendRefused(c) ==
    /\ call[c].at = "amend_write"
    /\ lock = None
    /\ call[c].flag /\ ~Live
    /\ Return(c)
    /\ OnlyCall

\* Mutant: only tasks that answer to nothing else are reopened.
ReopenedSole(r) == {t \in Done : TaskReqs[t] = {r} /\ TaskDeps[t] = {}}

Reopened(r) == {t \in Done : r \in TaskReqs[t]}

AmendCommit(c) ==
    LET r == call[c].req IN
    /\ call[c].at = "amend_commit"
    /\ frozen' = [frozen EXCEPT ![r] = call[c].checks[r]]
    /\ task' = [t \in Task |-> IF t \in Reopened(r) THEN "pending" ELSE task[t]]
    /\ stage' = IF stage = "verified" THEN "implementing" ELSE stage
    /\ amended' = IF call[c].flag THEN [amended EXCEPT ![call[c].grant] = @ + 1] ELSE amended
    /\ lock' = None
    /\ Return(c)
    /\ UNCHANGED <<trivial, plan, file, log, proof, grant, expired, copies, issued, saves,
                   spent, revived>>

-----------------------------------------------------------------------------
(* verify_feature: the verdict is made of SELECTs; only then is the stage   *)
(* written.                                                                 *)

VerifyFeature(c) ==
    /\ call[c].at = "idle"
    /\ stage \in Tasked
    /\ call' = [call EXCEPT ![c] = [Idle EXCEPT !.at = "verify_read"]]
    /\ OnlyCall

\* Mutant: only tasks still pending are outstanding.
CompleteNotPending ==
    /\ \A t \in Existing : task[t] # "pending"
    /\ \A r \in Req : \E t \in Existing : r \in TaskReqs[t]

Complete ==
    /\ Existing \subseteq Done
    /\ \A r \in Req : \E t \in Done : r \in TaskReqs[t]

VerifyRead(c) ==
    /\ call[c].at = "verify_read"
    /\ IF Complete THEN Go(c, "verify_write") ELSE Return(c)
    /\ OnlyCall

VerifyWrite(c) ==
    /\ call[c].at = "verify_write"
    /\ lock = None
    /\ lock' = c
    /\ log' = log \cup {[verb |-> "verify_feature"]}
    /\ Go(c, "verify_commit")
    /\ UNCHANGED <<dbvars, file, proof, grantvars>>

VerifyCommit(c) ==
    /\ call[c].at = "verify_commit"
    /\ stage' = "verified"
    /\ lock' = None
    /\ Return(c)
    /\ UNCHANGED <<trivial, plan, task, frozen, file, log, proof, grantvars>>

-----------------------------------------------------------------------------
(* What ends a call early, and what happens around the calls. *)

\* A check or gate says no, a record cannot be written, a commit fails or the
\* process dies: nothing of an open transaction stays, what is outside the
\* database does.
Abort(c) ==
    /\ call[c].at # "idle"
    /\ lock' = IF lock = c THEN None ELSE lock
    /\ Return(c)
    /\ UNCHANGED <<dbvars, file, log, proof, grantvars>>

\* PRAGMA busy_timeout: a writer that waited 30 s gives up.
BusyTimeout(c) ==
    /\ call[c].at \in Waiting
    /\ lock # None
    /\ Return(c)
    /\ OnlyCall

\* `promptwise spec allow-amend`, the moment it replaces the grant file: whatever
\* it has loaded, it writes a new grant of this specification.
AllowAmend ==
    /\ issued < MaxGrants
    /\ stage # "none"
    /\ grant' = issued + 1
    /\ issued' = issued + 1
    /\ UNCHANGED <<dbvars, lock, file, log, call, proof, expired, copies, saves,
                   spent, revived, amended>>

GrantExpires ==
    /\ \E g \in 1..issued \ expired : expired' = expired \cup {g}
    /\ UNCHANGED <<dbvars, lock, file, log, call, proof, grant, copies, issued, saves,
                   spent, revived, amended>>

\* grant_jit_permission and revoke_jit_grant for another specification load the
\* same file, without a lock ...
OtherLoads ==
    /\ saves < MaxSaves
    /\ grant # NoGrant
    /\ copies' = copies \cup {grant}
    /\ UNCHANGED <<dbvars, lock, file, log, call, proof, grant, expired, issued, saves,
                   spent, revived, amended>>

\* ... and replace it later by what they have loaded: the grant of this one as it
\* was then, or none if there was none or they found the file half written (GrantFile).
OtherSaves ==
    /\ saves < MaxSaves
    /\ saves' = saves + 1
    /\ \E g \in (copies \cup {NoGrant}) \ {grant} :
          /\ grant' = g
          /\ revived' = IF g # NoGrant /\ spent[g] > 0
                        THEN [revived EXCEPT ![g] = @ + 1] ELSE revived
    /\ UNCHANGED <<dbvars, lock, file, log, call, proof, expired, copies, issued,
                   spent, amended>>

\* The agent works on the project, the files of the checks included.
EditFile(r) ==
    /\ \E x \in Content \ {file[r]} : file' = [file EXCEPT ![r] = x]
    /\ UNCHANGED <<dbvars, lock, log, call, proof, grantvars>>

Start(c) ==
    \/ SpecifyFeature(c)
    \/ PlanFeature(c)
    \/ \E ts \in SUBSET Task : TasksFeature(c, ts)
    \/ \E t \in Task : CompleteTask(c, t)
    \/ \E r \in Req, direct \in BOOLEAN : AmendCheck(c, r, direct)
    \/ VerifyFeature(c)

Proceed(c) ==
    \/ AuditAfterCommit(c) \/ PlanWrite(c)
    \/ ObserveBaseline(c) \/ TasksWrite(c) \/ TasksCommit(c) \/ TasksRun(c)
    \/ ErrorsWrite(c) \/ IntegrityError(c)
    \/ CompleteReadTasks(c) \/ CompleteReadChecks(c) \/ CompleteJudge(c)
    \/ \E r \in Req : CompleteRunCheck(c, r)
    \/ CompleteGate(c) \/ CompleteWrite(c) \/ CompleteCommit(c)
    \/ AmendWrite(c) \/ AmendRefused(c) \/ AmendRevoke(c)
    \/ AmendReplace(c) \/ AmendCommit(c)
    \/ VerifyRead(c) \/ VerifyWrite(c) \/ VerifyCommit(c)
    \/ BusyTimeout(c)

Environment ==
    \/ AllowAmend \/ GrantExpires \/ OtherLoads \/ OtherSaves
    \/ \E r \in Req : EditFile(r)

Next == Environment \/ \E c \in Client : Start(c) \/ Proceed(c) \/ Abort(c)

Spec == Init /\ [][Next]_vars

\* Without the rows of older versions.
FreshSpec == Quiet /\ NoRows /\ [][Next]_vars

\* Every step of a call is bounded: checks by spec.check_timeout_seconds, the
\* wait for the lock by busy_timeout; nothing makes a caller start or abort.
FairSpec == Spec /\ \A c \in Client : WF_vars(Proceed(c))

-----------------------------------------------------------------------------
(* Properties *)

TypeOK ==
    /\ stage \in {"none", "specified", "planned"} \cup Tasked
    /\ trivial \in BOOLEAN
    /\ plan \in BOOLEAN
    /\ task \in [Task -> {"none", "pending", "done", "error"}]
    /\ frozen \in [Req -> Check \cup {None}]
    /\ lock \in Client \cup {None}
    /\ file \in [Req -> Content]
    /\ grant \in Grant \cup {NoGrant}
    /\ expired \subseteq Grant /\ copies \subseteq Grant
    /\ log \subseteq Record
    /\ call \in [Client -> Call]
    /\ proof \in [Task -> Acceptance \cup {None}]
    /\ issued \in 0..MaxGrants /\ saves \in 0..MaxSaves
    /\ spent \in [Grant -> Nat] /\ revived \in [Grant -> Nat] /\ amended \in [Grant -> Nat]

\* What each stage says of the other tables: no plan, task or check before its
\* verb, and from "tasked" on a plan, at least one task and a check for every
\* requirement.  tasks_feature reads the stage minutes before it writes; that a
\* second call cannot slip in between rests on the unique keys alone.
StageCoherent ==
    /\ stage \in {"none", "specified"} => ~plan
    /\ stage \in {"none", "specified", "planned"} => Existing = {} /\ frozen = NoChecks
    /\ stage = "planned" => plan
    /\ stage \in Tasked => /\ plan
                           /\ Existing # {}
                           /\ \A r \in Req : frozen[r] # None
    /\ stage = "tasked" => Done = {}

\* Once a specification is tasked no call adds or removes a task, and the
\* stages move only forward, but for the way back an amend or a completion
\* takes from "verified" (tables.py's unique keys, set_stage's callers).
StageStep ==
    \/ stage' = stage
    \/ <<stage, stage'>> \in {<<"none", "specified">>, <<"specified", "planned">>,
                              <<"planned", "tasked">>, <<"tasked", "implementing">>,
                              <<"implementing", "verified">>,
                              <<"verified", "implementing">>}
    \/ trivial /\ stage = "specified" /\ stage' = "tasked"

TaskListFixed ==
    [][StageStep /\ (stage \in Tasked => Existing' = Existing)]_vars

\* A task is accepted only after every task it depends on was (complete_task's
\* "dependency_not_done"), although dependencies are read long before the write
\* and may be reopened meanwhile.
DepsAcceptedFirst ==
    \A t \in Task : proof[t] # None => \A d \in TaskDeps[t] : proof[d] # None

\* The goal of the engine: a done task was accepted by a call that saw a frozen
\* check for each of its requirements, none without an observed baseline, and
\* saw each of them run and pass.
DoneWasJudged ==
    \A t \in Done :
        /\ TaskReqs[t] # {}
        /\ proof[t] # None
        /\ \A r \in TaskReqs[t] : /\ proof[t].seen[r] # None
                                  /\ proof[t].seen[r].observed
                                  /\ proof[t].ran[r] # None

\* A verified specification has had every task accepted, and a task accepted
\* for every requirement, however verify_feature's reads and write interleave
\* with amends, completions and automated tasks.
VerifiedWasAccepted ==
    stage = "verified" =>
        /\ \A t \in Existing : proof[t] # None
        /\ \A r \in Req : \E t \in Existing : r \in TaskReqs[t] /\ proof[t] # None

\* The step that replaces a frozen check leaves no task of that requirement
\* done and the specification not verified (amend_check: "Work that relied on
\* the old check is no longer proven: reopen it").
AmendReopens ==
    [][\A r \in Req : frozen[r] # None /\ frozen'[r] # frozen[r] =>
          /\ \A t \in Task : r \in TaskReqs[t] => task'[t] # "done"
          /\ stage' # "verified"]_vars

\* No change of tasks, checks or the verified stage is committed that the audit
\* log does not hold, whatever dies between the two (tasks_feature,
\* complete_task, amend_check and verify_feature audit inside the transaction).
Accounted ==
    /\ \A t \in Done : [verb |-> "complete_task", task |-> t] \in log
    /\ stage = "verified" => [verb |-> "verify_feature"] \in log

AmendAccounted ==
    [][\A r \in Req : frozen[r] # None /\ frozen'[r] # frozen[r] =>
          [verb |-> "amend_check", req |-> r] \in log]_vars

\* An operator's grant allows one amend (jit.py:76, engine.py:522), with amends
\* racing each other, expiry, the operator and grants of other specifications,
\* and one more for each time that a save of another's, which had loaded the grant
\* before it was used, has put it back: nothing else brings a used grant back.
OneAmendPerGrant == \A g \in Grant : amended[g] <= 1 + revived[g]

\* The engine implements the lifecycle it promises (SpecLifecycle): what a verb
\* commits is what the verb, made in one step at that moment, may do, however the
\* reads and writes of its callers interleave.
Lifecycle == INSTANCE SpecLifecycle WITH
    listed <- Existing, done <- Done, check <- frozen,
    accepted <- {t \in Task : proof[t] # None}

LifecycleKept == Lifecycle!Spec

\* Every call that started comes back: nobody waits for the write lock for ever.
CallsReturn == \A c \in Client : call[c].at # "idle" ~> call[c].at = "idle"

-----------------------------------------------------------------------------
(* What the documents say and concurrent calls break. *)

\* docs/superpowers/plans/2026-10-16-spec-engine-v2.md:149: verified only if
\* every task is done.  verify_feature reads the tasks before it takes the lock.
VerifiedMeansDone == stage = "verified" => Existing \subseteq Done

\* engine.py:555: work that relied on a replaced check is reopened.  An amend
\* reopens what is done, not what a call in flight is about to mark done.
DoneReliesOnCurrentChecks ==
    \A t \in Done : \A r \in TaskReqs[t] : proof[t].seen[r] = frozen[r]
=============================================================================
