# TLA+ models of promptwise-agentic-os

promptwise is a governance layer for coding agents. Agents, an operator and a
dashboard call a Python core through an MCP server, a command line and an HTTP
gateway; the core drives specifications to verified completion, runs governed
actions, and writes down what was done. Nearly all of its state is in files and
in one SQLite database that several processes share, and nearly none of it is
under a lock. These modules model that state and the calls that change it,
check them on small instances with TLC, and prove the invariants that say most
about it for every instance with TLAPS.

- [1. The system](#1-the-system)
- [2. The modules](#2-the-modules)
- [3. SpecEngine](#3-specengine)
- [4. AuditLog](#4-auditlog)
- [5. AuditFeed and LiveView](#5-auditfeed-and-liveview)
- [6. StateFile and its users](#6-statefile-and-its-users)
- [7. GovernedCall](#7-governedcall)
- [8. CodeIndex, PackRegistry, Orchestrate,
  MemoryStore](#8-codeindex-packregistry-orchestrate-memorystore)
- [9. UsageMeter, Router, Credential, Migrate, Configuration, Doctor,
  Dashboard](#9-usagemeter-router-credential-migrate-configuration-doctor-dashboard)
- [10. Runs and bounds](#10-runs-and-bounds)
- [11. Proofs](#11-proofs)
- [12. Where the code and its documents differ](#12-where-the-code-and-its-documents-differ)
- [13. What is not modelled](#13-what-is-not-modelled)
- [14. Plan](#14-plan)

## 1. The system

Paths are relative to `src/`, the root of the repository.

| Component | State it keeps | Operations | What is hard | What makes it correct |
|---|---|---|---|---|
| Spec engine `core/spec` | rows of one specification: stage, plan, tasks, frozen checks | specify, plan, tasks, complete, amend, verify | stage and tasks are read minutes before they are written; checks run on files anyone edits; grants and log are outside the transaction | done means judged, in order, recorded; verified means all accepted; a replaced check reopens its work |
| Database sessions `core/db/base.py` | SQLite in WAL mode, one write lock | `session_scope`, `busy_timeout` | readers hold nothing, writers queue | a session that fails leaves nothing; no caller waits for ever |
| Migrations `core/db/migrate.py`, `core/migrations` | schema version | upgrade to head | two processes on a fresh database, a death in the middle; rows of older versions | what is noted is made; old rows keep the guarantees of the new code |
| JIT grants `core/policy/jit.py` | one JSON file of grants with expiry | grant, check, revoke | read-change-replace without a lock, expiry between two looks | a grant lets one use through, and no other returns but by a save that overlapped |
| Audit log `core/audit/log.py` | one JSONL file, each record naming the hash of the one before; a cache of what was verified | `record_audit`, `verify_chain`, `chain_status` | two steps to append, a write cut short, a file that grows and is edited while it is checked | what was returned is in the log; a verdict is that of a full walk |
| Audit readers and feed `core/audit/read.py`, `gateway/api/v1.py` | byte cursors, open SSE streams | `read_audit`, `read_audit_tail`, `/audit/stream` | a line half written, a log replaced, a stream dropped in a batch, a limit of streams | no record lost, cursor never inside a line |
| Dashboard client `dashboard/src` | cursor, ids seen, retry delay; credential of the tab, cached data of the views | `streamAudit`; token entry, views, signing out | resume after a drop, ids forgotten beyond a bound; answers that come after their asker has gone | each record shown once; one person's data never shown to the next |
| Governed boundary `gateway/mcp_guard.py`, `core/policy/tool_registry.py`, `tool_pins.py` | registry and pin files | guard a call: registry, pin, record, verb, record | a verb that ran and whose record cannot be written | nothing runs unregistered or unrecorded |
| Policy `core/policy/engine.py` | rule files | `check_policy` | order of rules, default | first match wins, deny by default |
| Actions `core/actions` | project files, undo buffer | `fs_write`, undo, `shell_exec` | crash between undo entry, write and record; two writers of one buffer | undo restores what was there |
| Verification gate `core/verify` | failure ledger file | `verify_output`, reviewer, runners | lost updates of the ledger, identical failures | a loop of identical failures stops |
| Orchestrator `core/orchestrate` | none between calls | order a graph, run it, record each node | a record that fails after its node ran | a node runs after all it depends on succeeded |
| Code index `core/index` | SQLite table of symbols by file and mtime | `query_code_index` | files that change between stat and parse, files that vanish | answers reflect the files |
| Memory `core/memory` | facts in SQLite with full text, vectors in Qdrant | record, query, rank fusion | one store of two fails | a fact is never lost to a failing vector store |
| Ingestion sweep `core/ingestion` | none | index and memory in one call | one of the two fails | the other is still done |
| Packs `core/packs` | directories of installed packs | install, remove, list, version ranges | replace is remove then rename; dependencies checked before the copy | dependencies of what is installed are installed |
| Routing and usage `core/routing` | usage rows | route a request, record usage, report | rate limit counted before the insert, a report in several SELECTs, tiers that do not fit | the limit almost holds, a report adds up, a private request stays on the machine |
| Configuration `core/config`, `gateway/mcp_guard.py` | none: layered YAML and environment | resolve; the operator's, a call's and a route's configuration | sections against scalars, variables in any order, files an agent may write | later layers win; a project contributes approved commands and nothing else |
| Credential and HTTP surface `gateway/auth.py`, `app.py` | token file, throttle of denials | create, check | two first requests at once | one credential, never an empty one |
| Diagnostics, supply chain `core/diagnostics`, `core/security` | none | eleven checks one after the other; redaction, support bundle | run when something is broken, which changes meanwhile | every run ends with its report |
| Untrusted text `core/security/untrusted.py` | none | pattern matching | | |
| Command line `scripts/promptwise.py` | none | adapters; `spec amend`, `spec allow-amend` are the operator's own | | |

How they interact: every verb of the MCP server passes the governed boundary,
which records to the audit log before and after; the spec engine's verbs open
sessions of the database, call the verification gate and the policy, use up a
JIT grant, run callable tasks through the orchestrator and write their own audit
records inside their transaction. The dashboard's gateway reads the audit log,
the usage rows and the rows of the spec engine, and writes nothing but
credentials and denials.

## 2. The modules

| Module | Models | Uses |
|---|---|---|
| `SpecEngine` | the six verbs of `core/spec/engine.py` over the store, SQLite's write lock, the grant of one specification, the audit records written inside transactions, edits of check files | refines `SpecLifecycle` |
| `SpecLifecycle` | abstract: what the engine promises of a specification, one step per verb | `FiniteSets` |
| `SpecEngine_proofs` | theorems about `SpecEngine` | `SpecEngine`, TLAPS |
| `GovernedCall_proofs`, `AuditLog_proofs`, `AuditFeed_proofs` | theorems about the module of that name | that module, TLAPS |
| `StateFile_proofs` | what saves do to any file; the theorems about grants, the ledger and the undo buffer | `GrantFile`; instances of `FailureLedger`, `UndoBuffer`; TLAPS |
| `CoreParts_proofs` | invariants and theorems about usage, index, dag, route and memory | `UsageMeter`; instances of `CodeIndex`, `Orchestrate`, `Router`, `MemoryStore`; TLAPS |
| `MCParts_proofs` | the theorems about the parts, for the behaviours of `MCParts` | `MCParts`; instances of `StateFile_proofs`, `CoreParts_proofs`; TLAPS |
| `PacksSchemaLayers_proofs` | the same for packs, schema and the layers of configuration; types of those and of the doctor | `MCParts`, TLAPS |
| `MCSpecEngine` | instances for TLC | `SpecEngine` |
| `AuditLog` | `core/audit/log.py`: append in two steps, crashes, `chain_status` and its cache, edits by others | `SequencesExt` |
| `MCAuditLog` | instances for TLC | `AuditLog` |
| `LiveView` | abstract: what the feed promises the page that shows the log | `SequencesExt` |
| `AuditFeed` | `core/audit/read.py`, the event streams of `gateway/api/v1.py`, `streamAudit` and the rows of `AuditView` | refines `LiveView`; `SequencesExt`, `FiniteSetsExt` |
| `MCAuditFeed` | instances for TLC | `AuditFeed` |
| `StateFile` | load, change, write beside, replace: how every small JSON file is saved, step by step | standard modules |
| `FailureLedger` | `core/verify/ledger.py` as the gate uses it | `StateFile` |
| `UndoBuffer` | `fs_write` and `undo_last` of `core/actions/fs.py` | `StateFile` |
| `GrantFile` | `core/policy/jit.py`, all scopes | `StateFile` |
| `GovernedCall` | one call of `verify_output` through `run_governed`: guard, confinement, records, the gate's steps, policy and `shell_exec`; pin-tools and the kill switch | `SequencesExt` |
| `MCGovernedCall` | instances for TLC | `GovernedCall` |
| `CodeIndex` | `query_code_index` over its table | standard modules |
| `PackRegistry` | `install_pack`, `remove_pack` and version ranges, on directories | standard modules |
| `Orchestrate` | `topological_order` and `orchestrate_tasks` | `SequencesExt` |
| `MemoryStore` | `record_memory`, `query_memory`, the rank fusion, the texts of a sweep | standard modules |
| `UsageMeter` | `record_usage` and `usage_report` over the usage rows | `FiniteSetsExt`, `SequencesExt` |
| `Router` | `route_request` over a catalog of tiers | `SequencesExt` |
| `Credential` | `load_or_create_token` over the credential file | standard modules |
| `Migrate` | `migrate_to_head` over the statements of the revisions | `FiniteSetsExt`, `SequencesExt` |
| `Configuration` | `core/config/resolve.py` and the configurations of `gateway/mcp_guard.py` | `FiniteSetsExt`, `SequencesExt` |
| `Doctor` | `run_diagnostics`, the verdict on dependencies, the exit of `promptwise doctor` | standard modules |
| `Dashboard` | a tab: credential, views and their data, signing out | standard modules |
| `MCParts` | instances for TLC of the three users of `StateFile` and of the last eleven, one at a time | INSTANCE of the fourteen |

Every `*.cfg` belongs to one run (section 10). Operators whose comment says
"mutant" are plausible slips of the same code; a run in which one of them takes
the place of the real definition violates the property that guards against it.

## 3. SpecEngine

One specification, since rows of different specifications never meet.

| Variable | Code |
|---|---|
| `stage`, `trivial`, `plan`, `task`, `frozen` | rows of `spec_stage`, `spec`, `plan`, `task`, `acceptance_check` (`core/spec/tables.py`) |
| `lock` | SQLite's write lock, from the first INSERT or UPDATE of a session to its commit or rollback |
| `file` | the contents of the files each requirement's check is made of |
| `grant`, `expired` | the entry `spec.amend:<id>` of the grant file, by the number of the grant, and the grants whose time has passed |
| `copies` | what saves of other specifications' grants have loaded of that entry |
| `log` | audit records written inside a transaction |
| `call` | the local variables of each client's call, and where it is |
| `proof`, `issued`, `saves`, `spent`, `revived`, `amended` | history for the properties; the last three of each grant: revokes that used it, saves that brought it back after that, amends under it |

A verb is a chain of actions; other clients, the operator, expiry and edits run
between any two of them.

| Verb | Actions |
|---|---|
| specify, plan | `SpecifyFeature`; `PlanFeature`, `PlanWrite`; both then `AuditAfterCommit` |
| tasks | `TasksFeature` (stage read, list validated, files hashed), `ObserveBaseline`, `TasksWrite` (first INSERT: lock, record), `TasksCommit`, `TasksRun` (orchestrator), `ErrorsWrite` (second session) |
| complete | `CompleteTask` (stage), `CompleteReadTasks`, `CompleteReadChecks`, `CompleteJudge` (hashes, baselines, dependencies), `CompleteRunCheck` once per check, `CompleteGate`, `CompleteWrite`, `CompleteCommit` |
| amend | `AmendCheck`, `ObserveBaseline`, `AmendWrite` (lock, grant looked at again, record) or `AmendRefused`, `AmendRevoke` (load the grant file, take the grant out), `AmendReplace` (replace the file), `AmendCommit` |
| verify | `VerifyFeature`, `VerifyRead`, `VerifyWrite`, `VerifyCommit` |
| any | `Abort` (a check says no, an error, a crash), `BusyTimeout`, `IntegrityError` (a unique key) |
| around | `AllowAmend`, `GrantExpires`, `OtherLoads` and `OtherSaves` (grants of other specifications), `EditFile` |

A session that only selects holds no lock in WAL mode, which is why reads and
writes are separate actions, and why the guards of a write are the ones the code
evaluates at the write: the unique keys for `TasksWrite` and `PlanWrite`, the
stage and the grant for `AmendWrite`, nothing for `CompleteWrite` and
`VerifyWrite`.

Abstractions. The hash of a file is its content. A check's run is its passing;
everything that rejects a call is `Abort`, which may happen at any step, so the
model has more aborts than the code and no fewer. Two baselines are kept,
observed and not, since `complete_task` tells only these apart. The ear syntax
of requirements, reasons and texts of records, and the reviewer's wording are
left out. `EditFile` may change a check at any time; that a policy or an
operating system would prevent it is not assumed. The grant file is one for all
specifications and has no lock: a save for another one loads it (`OtherLoads`) and
replaces it later (`OtherSaves`) by this one's grant as it was then, or by none.
How a save goes wrong inside is `GrantFile`'s.

Properties:

- `StageCoherent`, `TaskListFixed`: the stage and the other tables agree, and the
  task list of a tasked specification is fixed, although the stage is read long
  before the tasks are written. The unique keys are what this rests on: with the
  key of the plan, or of the tasks and checks, taken away, both fail.
- `DoneWasJudged`: the engine's promise about done tasks.
- `VerifiedWasAccepted`: what verified means in spite of the race in section 12:
  each task was accepted once, and each requirement by some task.
- `AmendReopens`, `AmendAccounted`, `Accounted`: a replaced check leaves nothing
  done that relied on it; no commit without its record.
- `OneAmendPerGrant`: a grant lets one amend through, and one more for each save of
  another specification's that had loaded it before it was used and replaced the
  file after. That is what the code does with a grant it calls one-shot
  (section 12); that nothing else does is what has to be shown: two amends that
  passed the first look, an amend in the middle of its own load and replace,
  expiry, an operator who issues the next one meanwhile. A grant lost when the commit fails after the revocation is possible (and
  harmless to this property): the file is outside the transaction.
- `LifecycleKept`: `SpecEngine` implements `SpecLifecycle`, in which each verb is
  one step, the one at which the engine commits. The mapping takes `accepted` from
  the history `proof` (the tasks that were ever judged) and the rest from the rows.
  The abstract specification is as strong as the code is: a task is completed
  behind tasks that *were* accepted, which an amend may have reopened since, and so
  is a specification verified (section 12). What it does not let happen is what the
  stale reads could have caused: a verb that commits in the wrong stage, a second
  list, a task accepted before those it depends on ever were, an amend that leaves
  work done, a completion that leaves the specification verified.
- `CallsReturn` (liveness).

Fairness: `WF_vars(Proceed(c))` for each client. A call in progress takes its
next step because every step of the code is bounded: a check by
`spec.check_timeout_seconds`, the wait for the lock by `busy_timeout` (30 s).
Nothing is assumed of starting a call, of aborts, or of the environment.
A waiting client needs no strong fairness: it either finds the lock free or may
give up, so `Proceed(c)` stays enabled.

## 4. AuditLog

`file` is the sequence of complete lines, `tail` what follows the last newline.
A record is numbered when it is hashed, so hashes never collide; an edited record
no longer has the hash it claims. `record_audit` is `ReadTip` (the hash of the
last line, terminated or not) and then an append, whole (`AppendWhole`) or seen
half done (`AppendPart`, `AppendRest`); `Crash` may leave it there. The rest of
the file's behaviour follows from the code: a malformed last line makes the next
`record_audit` raise, a last line that lacks only its newline is read as sound
and the next record is glued to it.

`chain_status` is `StatusOpen` (does the cached prefix still match), any number of
`StatusRead`, `StatusEnd`; writers and edits run in between. The digest of the
cached prefix is modelled by the lines themselves.

- `OneWriterChains` (with `ReturnedIsLogged`): with one writer at a time, whatever
  crashes, the log chains and holds what `record_audit` returned; `glued` names
  the one exception.
- `StatusAgrees`: the verdict, the length and the place of the first break are
  those of a full walk, if nobody edits the file during the call, whatever was
  edited before it and whatever the cache kept.

## 5. AuditFeed and LiveView

The dashboard opens on the newest records (`read_audit_tail`) and then follows the
log over server-sent events. `LiveView` is what a reader of the page expects: it
opens on the newest records, or on fewer of a log longer than the page looks back,
and is told of each later record once, in order. `AuditFeed` is how the code does it.

| Variable | Code |
|---|---|
| `file`, `pending` | the bytes of the log, and what the writer has still to write of a line |
| `active` | `_active_streams` |
| `stream` | the locals of `audit_events` for each stream, and the client it is for |
| `client` | `streamAudit`: `lastId`, `seen`, the connection and what is on its way over it |
| `rows` | the rows of `AuditView` |
| `given`, `writes` | history: what a page was told, and what the bounds count |

A byte is a cell. A record is a line of two cells, a line that is no record any
number of them, so a line may be there in part, a cursor may point into one, and
a line may be longer than a read. `Window` is `read_audit`. `TailPage` is
`read_audit_tail`: it looks back over `MaxRead` cells in steps of `TailChunk`, loses
the line that is cut there (`Scanned`), and so opens behind a long line with fewer
records or none; if the last `TailChunk` cells have no newline it raises
(`TailRaises`), and the page stays closed (`LoadRaises`).

| Part | Actions |
|---|---|
| log | `BeginRecord`, `BeginJunk`, `WriteCell`, `Replace` |
| server | `Begin`; the loop `CheckSize` (size against cursor, reset), `StatLog` (`read_audit` looks at the size again), `ReadLog`; `Deadline` (`sse_max_seconds`), `Disconnected`, `Abandon` |
| page | `Load`, `LoadRaises`, `Connect`, `ReceiveReset`, `ReceiveRecord`, `StreamEnds`, `Drop`, `Stop` |

What a stream sends is on the client's wire until the client takes it; when the
connection breaks the wire is lost, while the stream keeps its place until the
server knows (`Disconnected`). `Abandon` is a response whose body is never begun:
the place counted for it in `events` is given back by the generator `_bounded`
only, which then never runs. Whether that happens is up to the ASGI server, so it
is an action with a bound, `MaxAbandoned`. A request refused with 429 or 503
changes nothing but the delay of the next, so it is `Connect` not being enabled
(`PlaceLeft`). `Stop` is a page that cannot load or whose credential is refused.

- `NoGapNoDuplicate`: while nobody replaces the log, every behaviour is one of
  `LiveView`. A page is past a record when it was told of it or opened behind it
  (`past`), and it may open on less than the newest only if the log is longer than
  it looks back (`long`). What it depends on: only the last event of a page of records carries
  the cursor, ids seen before are skipped, a cursor never gets behind a record
  that was not sent.
- `EveryRecordShown` (liveness): every record gets to every page that was opened
  before it, in the end, as long as one place was not given up by an abandoned
  stream: the server gives none of those back (section 12).
- `ToldOnce`: no record is told twice, also when the log is replaced, unless it is
  replaced and had lines that are no records. It rests on `SeenLimit >= PageLimit`
  (2000 and 100), an assumption of the module: no resume goes back more than a page
  of records. The exception was met when the property was to be proved: the server
  moves a cursor over a line that is no record without a word to the page
  (`audit_events`), so the page's own cursor stays behind; if the log is then replaced and
  grows past the server's cursor, that stream goes on in the middle of the new log
  and a later one, from the page's cursor, starts before it. The page is then told
  of newer records first, forgets ids for older ones, and may be told of one again.
- `PlacesAccounted`: `active` is the streams that are served and those given up.

Fairness: weak, of the server's loop for each stream, of `Disconnected`, and of
the page's loop. The server polls every `sse_poll_seconds` and asks for the
disconnect on every turn; the client retries with a bounded delay. Nothing is
assumed of the writer, of `Deadline`, or of faults. A deadline before a stream
caught up counts as a fault (`MaxFaults`): 300 seconds are long for a page of
records, and without a bound no feed would promise anything.

## 6. StateFile and its users

The failure ledger, the undo buffer and the grant file are saved by the same
lines, three times over: load all, change it, write all of it to `<name>.json.tmp`,
replace. `StateFile` has it once. A name leads to a node of the disk and a writer
keeps its node when the name is moved: this is what makes two saves with one
temporary name dangerous. `BeginSave` is the load together with the change (the
rest of the call uses only what it loaded); then `OpenTmp`, `WriteTmp`,
`ReplaceFile` or `ReplaceFails` (the other call moved the file away: an error),
`Return`; `Die` at any of them. A file that does not parse counts as missing
(`Contents`), as in the code. Where two calls write into one node the result is
the shorter text with the rest of the longer one behind it, or a whole one:
both are outcomes. The history `mishap` says whether calls overlapped or one
died, and the properties name what each of these costs.

- `WholeUnlessOverlap` (part of `AnswerExact` and `GrantsKept`): the promise of
  `ledger.py:49`, that a killed process never leaves a torn file, with the condition it
  needs: no two saves at once. (One that opens the temporary file while another replaces
  it leaves a torn file; it is then read as empty.)
- `AnswerExact`: `retry_loop_broken` is right when calls neither overlap nor die.
  With both, failures may be forgotten but never invented, so no agent is stopped
  too early.
- `UndoLeadsBack`: as deep as the buffer reaches, undoing leads back through
  states the project was in, although a write may die after its entry was saved,
  with its file half written, or before its record. It fails only for an undo that
  dies after its entry is out of the buffer (`broken`), and for calls that overlap.
- `GrantsKept`: while calls neither overlap nor die, a call about one scope loses or
  revives no other; and however calls die, while they do not overlap, a grant taken
  back with the answer true never comes back. With overlap it may, which is what
  `OneAmendPerGrant` of section 3 counts.

What `fs_write` denies changes nothing here and is left out; so are errors of the
file system other than the lost temporary file.

## 7. GovernedCall

Every verb of the MCP server goes through `run_governed`. The model follows the
one that does most, `verify_output`, from the call to the answer. Calls meet in
the registry, the policy files, the log and the death of the gateway only, and
change none but the log, to which each adds records of its own: one call and the
operator are what there is to interleave.

| Variable | Code |
|---|---|
| `config` | the operator's configuration: which commands there are, whether a lint blocks, whether the policy is enforced |
| `registry`, `live` | the tool's entry in `tool_registry.yaml`, the description that is served |
| `pins` | `pin-tools` between its read, the truncation and the write |
| `policy` | the rules of each policy file |
| `writable`, `log` | whether the audit log can be written, and the records in it |
| `call` | the locals of the call: the step of the gate, the rules read so far, the results |
| `ran`, `moments`, `edits` | history: commands that ran; what the policy said while it was read; what the operator last did to the switch |

| Part | Actions |
|---|---|
| `run_governed` | `GuardTool`, `RecordMismatch`, `Deny`, `Confine`, `Announce`, `VerbRaises`, `Complete` |
| `verify_output` | `Skip`, `Scan`, `RunConfigured`, `VerifyOutput` |
| policy | `ReadPolicy` (one file), `CheckPolicy` |
| `shell_exec` | `ShellStart`, `ShellRun`, `ShellEnd` |
| operator | `PinRead`, `PinOpen`, `PinWrite`, `FlipSwitch`, `ChangeDescription`, `EditPolicy` |
| failures | `LogFails` (and comes back), `Die` |

The log may fail and come back between any two steps, so each record's failure is
a case of its own. A scanner that is not installed passes, as in the code. Which
project commands get into the configuration is `Configuration`'s; the
ledger is told of the verdict in `FailureLedger`.

- `NothingUnrecorded`: what ran was announced, the command and the call; a result
  without a warning has both records of the call, and whatever was refused ran
  nothing.
- `PassMeansRun`: a change passes only on commands that ran. It is the difference
  between a command that was stopped and one that is not configured, both of
  which come back with `ran = False`.
- `VerdictOfAMoment`: files are read one after the other. With one edit in
  between, the verdict is still one the policy had; with two it need not be, which
  the property says.
- `SwitchHolds`: `pin-tools` never enables a tool. It writes back what it read, so
  a switch flipped in between is undone; the property leaves that case out.

## 8. CodeIndex, PackRegistry, Orchestrate, MemoryStore

Each keeps a state of its own, so `MCParts` runs them in turn.

**CodeIndex.** `source` is the tree, `stored` the table, `query` each running
query: `Ask`, `ListDirectory` (a directory is listed when the walk gets there),
`StatFile`, `ParseFile`, `ReplaceFileRows`, `FindStale`, `DeleteFileRows`,
`QuerySymbol`; `QueryDies`. Around them `EditFile`, `RestoreFile` (an older content
with its own mtime), `MoveFile` (away, locked, back) and `ShutDirectories` (those
that `os.walk` cannot list and passes over). A content has one mtime and an mtime
one content: two edits within the clock's resolution are not modelled.

A file edited between a query's stat and its parse is stored with the new content
under the old mtime; the model has that (`raced`). `AnswerIsTheTree` says what is
true nevertheless, in three parts. `RowsOfTheirMtime`: no other row has a content
that is not of its mtime, whoever overtakes whom. `RacedRowsGo`: a raced row is not
taken for current, so the next query corrects it, unless the file has been given an
older mtime back; then it may stay for good (section 12). `AnswersAreCurrent`: an
undisturbed query answers from rows of the current mtime of every file it could
list, and of no other, after whatever went before; the rows of a directory that it
could not list are swept. A file that could once not be read has no rows under its
mtime, and gets none until that changes.

**PackRegistry.** `installed` and `leftover` are directories, `job` each
client's call: `InstallPack` (all checks), `CopyTree`, `LookAtDest`, `TakeSome` and
`TakeRest` (`rmtree` in two steps), `RenameIntoPlace`; `RemovePack`; `FailHalfway`.
`Satisfies` and `NeedMet` are the version ranges. `PacksStay`: until a pack
is removed there is a complete copy of it, in place or beside it, whoever else
installs it and dies; and no sequence of installs, upgrades and
removals takes away what an installed pack needs; calls that overlap can, since
nothing is checked again after the copy. Read off the model, with no property: an
upgrade does not check the ranges of those that depend on it, and a temporary
directory left by a dead call is listed as a pack and may keep another from being
removed (`registry.py:51`).

**Orchestrate.** `CheckNames`, `TakeReady`, `Sorted` are Kahn's algorithm; `SkipNode`,
`RunNode`, `HandleFailure`, `DagReturns` the run. A record may fail anywhere: inside the
`try` it turns a node that ran into an error, elsewhere the call raises. `DagIsFollowed`
compares the order of every dag with the definition, by the transitive closure, and
holds the results against the closure too. Ids are unique here and the routing decision
is an input.

**MemoryStore.** `facts` are the rows of each SQLite file, `points` the one
collection of vectors, `keeping` a call that records and `recall` a query.
`RecordMemory`, `NextFact` and `SweepGoesOn` save a fact, `UpsertFact` gives it a
point or does not, `RecordEnds`, `KeepingDies`; `QueryMemory` searches the words,
`RecallFacts` the vectors, fuses, looks up, leaves out and cuts; `RecallEnds`.
Facts are numbered in each SQLite file, which by default every project has for
itself, while the collection is one for all: a point of one project takes the
place of another's, and the number it gives leads elsewhere.
`RecallIsRight` says that no fact of another scope, root or session comes back
nevertheless (the predicates of `get_fact` are what this rests on), and
that a fact saved is found by its words whatever the vectors do, that leaving out
personal data does not use up the limit, and that a fact both searches found is
not displaced by one that one of them found, in lists of up to 61: beyond that the
first of one list outweighs the last of both (the limit is 100). How well a fact fits
is any ranking. `Fused` is the sorted list as the one listing in the order `Above`, a
score and, among equals, the order in which the lists are gone through.

## 9. UsageMeter, Router, Credential, Migrate, Configuration, Doctor, Dashboard

Parts of `MCParts` like those of section 8.

**UsageMeter.** `rows` are the committed rows, `fresh` those of the last hour,
`writing` the holder of the write lock. A report of an agent is `RecordUsage`,
`CountRecent` (the SELECT that counts the hour), `InsertEvent`, `CommitEvent`,
`AuditEvent`, with `RecordFails` at any step; `HourPasses` ages the oldest row.
`usage_report` is one action per SELECT. A tier stands for its price, and an event
for its cost; tokens are left out.
`LimitAlmostHolds`: the count is read without a lock, so the limit may be passed,
but by no more than one report of each other concurrent caller.
`ReportAddsUp`: the buckets are read after the totals and never hold less; when
nothing was reported in between all three are the same, the fold of the agents
that are not shown included. An agent with the name of the fold is excepted
(section 12).

**Router.** One call reads nothing twice, so `RouteRequest` is one step, over every
catalog of up to `MaxTiers` tiers and every request. `RouteFits` states without the
order of the tiers what the documentation promises of the choice: no cloud for a
local request, no tier that does not fit while one that may be used does, no
smaller one passed over, nothing in the cloud unasked while the machine will do.

**Credential.** A file is a node, as in `StateFile`. `ReadCredential`,
`LookForFile` (`path.exists()` chooses the flags), `OpenCredential` (exclusive, or
emptying), `WriteCredential`, `ReadAgain`; `CallEnds` for 503 and deaths;
`OperatorChanges`. `OneCredential`: between two changes by the operator all
requests are checked against one credential, however many create it at once and
die. It excepts the one sequence in which the code fails: a request that saw an
empty file empties it after another has filled it (`overtaken`, section 12).

**Migrate.** `versions` are the rows of `alembic_version`, `objects` what the
statements of the revisions have made. `MigrateToHead` is the look at the revision,
`ReadHeads` Alembic's own, then `CreateVersionTable`, `Execute` per statement and
`NoteRevision`; `FailBetween` breaks off anywhere. Threads of one process take
turns, so a process is one call. Alembic and SQLite are external: that each
statement commits by itself and the row after them is theirs.
`UpgradeIsWhole`: a revision that is noted is made, a call that returned has
reached the head, and races alone (without deaths) leave the database at the head
in the end, though the losers of the race raise.

**Configuration.** A tree maps keys to trees; a leaf is the set of layers its value
comes from, so an answer says who decided it. `Merge`, `EnvOverrides`, `Resolve`
are `_deep_merge`, `_env_overrides`, `resolve_config`; `Set`, `PinStatePaths`,
`Approved`, `Effective` those of `mcp_guard.py`. A variable is one string (`AsString`): as
the operator's list of commands it contains whatever is a part of it, a command of
the project's here. Two levels and one section of each
kind stand for all. `LaterLayerWins` states precedence without merging, for every
mixture of sections and scalars in five layers. `OperatorDecides`: whatever the
project's files say, a governed call runs on the operator's values but for a
command that the operator's list holds, or that the operator's string contains
(section 12).

**Doctor.** `RunDiagnostics` resolves the configuration, then one action per check
that looks at a state of its own (`CheckConfigResolve`, `CheckAuditChain`,
`CheckDependencies`) and `OtherCheck` for those that find anything; then
`DoctorExits`. Meanwhile `EditConfig` and `AppendRecord`. The run `doctor_raises`
asks whether every run ends with its report: section 12.

**Dashboard.** `held` is the credential in the session storage, `gate` what
`App.tsx` shows, `asking` the requests in flight with the credential each was sent
with, `cached` the data of each view with that it was got with. `Submit`,
`CheckAccepted`, `CheckFails` are the gate's; `OpenView`, `ViewAnswered` the
views'; `AskForChain` and `ChainAnswered` the poll of the audit view, of which one
is in flight at a time; `SignOut`; `Rotate` and `Reload` are the operator and the
tab. That an answer to a query that was cleared or left is dropped is the query
client's. `SessionsApart`: outside the gate there is no data; inside, all of it was
got with the credential now held, and so was each request whose answer counts.

## 10. Runs and bounds

| Run | Instance | Shows |
|---|---|---|
| `spec_lifecycle` | 2 clients, 2 tasks (t2 depends on t1) on one requirement, 2 file contents, t1 callable, amends by the operator | types, stages, judgement, accounting, amends; it is a `SpecLifecycle` |
| `spec_returns` | 2 clients, 1 task, 1 grant, 1 save of another's that changes it, fair | one amend per grant and revival; every call comes back |
| `spec_verified_race` | as `spec_lifecycle`, nothing callable, fresh database | violation: section 12 |
| `spec_stale_completion` | same | violation |
| `audit_chain` | 1 writer, 4 records, 2 edits | the log and its verdicts |
| `audit_fork` | 2 writers, 3 records, no edits | violation |
| `feed_view` | 1 page, 1 place, 3 records, 1 line that is none, short or longer than a read, 2 faults, 1 stream given up, fair | the page is a `LiveView`; every record gets there |
| `feed_places` | 1 page, 2 places, 4 records, 1 replacement, 1 fault, 1 stream given up | types, places, nothing told twice |
| `feed_replaced` | 1 page, 1 place, 2 records, 1 replacement | violation |
| `governed_call` | 1 call, 2 policy files, 3 sets of rules, 2 configurations, 2 descriptions, 2 edits | nothing unannounced, no pass without a run, the answer tells of the log |
| `parts` | below | one or two properties of each part, sections 6, 8 and 9 |
| `doctor_raises` | the doctor alone | violation: section 12 |

The parts of `parts`: the ledger with 2 clients, 2 tasks, 2 signatures, 4 runs of
the gate, limit 2; the undo buffer with 2 files, 2 texts, 3 writes, a buffer of 2;
grants with 2 clients, 2 scopes, 2 of them; the index with 2 queries, 2 files in 2
directories, 2 changes of the tree: edits, older files restored, files moved and
locked, directories that cannot be listed; packs with 2 clients, 2
packs in 5 versions and ranges, 1 temporary directory left; all 4096 graphs of 3
nodes, self-loops and an unknown id among them; the memory with one project and
the home store, apart or in one file, a scope and 2 sessions, 2 words, 2 facts,
limit 1; the usage ledger with 2 callers, 3 agents, one of them with the name of
the fold, 3 rows, a limit of 1 and 1 agent shown; the router with every catalog of
up to 3 tiers and every request; the credential with 2 requests, 3 credentials, 2
files; upgrades by 2 processes from every revision, one of a later release
included; the configuration with every mixture of a section of 2 keys and a scalar
in 3 files and up to 2 variables, and of 3 sections in 2 files with a variable for
the operator's list of commands; the doctor; a tab
with 2 credentials and 2 views.

Why these are enough to find a violation if there is one: two clients are the
smallest number that interleave, and each property speaks of one commit of one
call against what others did since it read; a third client adds only further
changes of the same kind, which the proofs cover. Two tasks in a chain give a
dependency, one requirement shared by both gives an amend that reopens more than
one task. (A requirement that a list overlooks takes two requirements; of those
instances `VerifiedMeansAccepted` and the other theorems speak, no run.) Two contents
are a hash that matches and one that does not, and an edit back. One grant can be
used, expire, be raced for, be missing and be brought back. Two edits of the log let one edit be
hidden by the next (a rewrite, then a truncation); four records leave a line cut
short in the middle of others.

For the feed, pages do not meet but at the places, so one page with an old and a
new connection and two places shows what two pages would: a place held by a
stream whose client is gone. Pages of two records, reads of four cells in
two chunks, one row at first, two rows and two ids kept are the smallest values at which a page of
records is cut, a line is longer than a read, a row is dropped and an id
forgotten; three or four records pass each of them. One fault breaks a batch,
two break the resume after it.

For the files, two clients on the ledger let one open, truncate or move away what
the other is writing; three overlapping saves add nothing to a node that two
share. Four runs of the gate hold a failure, another one or a success in between,
and the limit of two. Three writes overflow a buffer of two. The properties of
undo speak of calls that do not overlap, so one client makes them; it
dies and starts again at any step. The two clients of the grants overlap.

For the governed call, two edits are a switch flipped while `pin-tools` runs, or a
policy that changes between its files and back; the two configurations have each
step configured and not, blocking and not. For the index, one query overtakes
another, one edit falls between stat and read, and a second change gives the old
mtime back, takes the file away or hides its directory.
The five versions hold a dependency, a range that excludes a version and a cycle.
Three nodes make a chain, a fork, a join and cycles of each length. Two facts in
two stores have one number, and compete for a limit of one; that a search gives up
beyond twice the limit is then not reached, and `RecallIsRight` says nothing of it.

Two callers pass the hourly limit by one, and with one row below the limit and two
above it the report in progress sees each SELECT before and after a commit. Three
tiers are one that is asked for, one that fits and one passed over. Two requests
find the credential file absent, empty and filled in between; two files are the
one that is written to and the one the operator puts in its place. Two processes
meet at each statement of each revision. Two variables name a section and a key in
it, in both orders; every pair of layers may disagree on a section. Two
credentials are the old and the new, or two people; two views are the one looked
at and the one left, and the audit view is the one that polls.

Bounds of the modules: `MaxGrants` (grants the operator issues), `MaxSaves` (saves of
others' grants that change this one's), `MaxRecords`
(records writers start), `MaxEdits` (edits by others of the log, of the governed
call's files; changes of the indexed tree), `MaxJunk`, `MaxReplaced`, `MaxFaults`,
`MaxAbandoned` and `JunkLines` (the feed's environment), `MaxRuns` and `MaxWrites`
(calls of the gate and of `fs_write`), `MaxLeft` (temporary directories of packs),
`MaxFacts`, `MaxEvents` (usage rows), `MaxTiers`, `MaxNodes` (credential files),
`MaxCalls` (credentials made). The spec engine itself has no counters. Clients and contents are
symmetric where the properties are; the runs with liveness use no symmetry.
Deadlock is not checked: a system in which every client is idle and the bounds are
used up has stopped properly.

The initial states of `SpecEngine` include specifications tasked before baselines
were recorded (`LegacyRows`, migration 0003). The violation runs start from an
empty database, so their traces use current code only.

## 11. Proofs

Each theorem below holds for every value of the constants that satisfies the
named assumption of its module, which TLC evaluates on the instances it checks.

| Module | Theorem | Property | Assumption |
|---|---|---|---|
| `SpecEngine_proofs` | `TypeCorrect` | `TypeOK`, with `Targets` and `LockHeld` | `SpecAssumption`: types of the constants; `None` is not one of the values it stands in for |
| | `StagesCoherent` | `StageCoherent` | |
| | `ListFixed` | `TaskListFixed` | |
| | `DoneMeansJudged` | `DoneWasJudged`, `DepsAcceptedFirst` | |
| | `CommitsAccounted` | `Accounted` | |
| | `AmendsAccounted` | `AmendAccounted` | |
| | `ReplacedCheckReopens` | `AmendReopens` | |
| | `VerifiedMeansAccepted` | `VerifiedWasAccepted` | |
| | `GrantsBoundAmends` | `OneAmendPerGrant` | |
| | `LifecycleImplemented` | `LifecycleKept`: the refinement of `SpecLifecycle` | |
| `GovernedCall_proofs` | `TypeCorrect` | `TypeOK` | `CallAssumption`: types of the constants; one policy file at least |
| | `CommandsRecorded` | `NothingUnrecorded` | |
| | `PassedChangesRan` | `PassMeansRun` | |
| | `PinningKeepsSwitch` | `SwitchHolds` | |
| | `VerdictHadAMoment` | `VerdictOfAMoment` | |
| `AuditLog_proofs` | `TypeCorrect` | `TypeOK` | `AuditAssumption`: types of the constants |
| | `LoneWriterChains` | `OneWriterChains` | and one writer, `OneWriter` |
| | `StatusTellsChain` | `StatusAgrees` | any number of writers |
| `AuditFeed_proofs` | `TypeCorrect` | `TypeOK` | `FeedAssumption`: sizes; a page remembers as many ids as a read has records |
| | `PlacesAreAccounted` | `PlacesAccounted` | |
| | `ToldOnceInOneLog` | `ToldOnce`, while nobody replaces the log | |
| | `EveryPageIsALiveView` | `NoGapNoDuplicate`: the refinement of `LiveView` | |
| `CoreParts_proofs` | `LimitNearlyKept` | `LimitAlmostHolds` | `UsageAssumption`: finitely many callers, one at least |
| | `EveryDagIsFollowed` | `DagIsFollowed` | `DagAssumption`: each node listed once |
| | `EveryRouteFits` | `RouteFits` | `RouteAssumption`: amounts of memory are numbers |
| | `EveryRecallIsRight` | `RecallIsRight` | `MemAssumption`: finitely many projects |
| `StateFile_proofs` | `GrantsAreKept` | `GrantsKept` | `GrantAssumption`: finitely many clients; `None` is no node |
| | `LedgerIsExact` | `AnswerExact` | `LedgerAssumption` |
| | `UndoingLeadsBack` | `UndoLeadsBack` | `UndoAssumption` |
| `MCParts_proofs` | `TypeCorrect` | `TypeOK`, all parts | `PartsAssumption` |
| | `UsageLimit`, `DagIsKeptTo`, `RoutingFits`, `RecallingIsRight`, `GrantsLast`, `LedgerAnswers`, `UndoReturns` | the last seven, of `MCParts` | `PartsAssumption`: those of its parts |
| | `CredentialLasts` | `OneCredential` | `CredAssumption`: nodes and credentials are numbers |
| | `SessionsAreApart` | `SessionsApart` | none |
| | `IndexIsTheTree` | `AnswerIsTheTree` | `IndexAssumption`: each file is in a directory; `None` is no file, row or version |
| `PacksSchemaLayers_proofs` | `InstalledPacksStay` | `PacksStay` | `PackAssumption`: manifests name packs |
| | `UpgradesAreWhole` | `UpgradeIsWhole` | none |
| | `LaterLayersWin` | `LaterLayerWins` | none |
| | `OperatorAlwaysDecides` | `OperatorDecides` | none |

`DoneMeansJudged` also proves `DepsAcceptedFirst`, which no run checks for itself:
it is part of what `LifecycleKept` says of a completion. What `MCParts` fixes by a
definition (the reports of usage, the manifests of packs) its theorems have fixed
too; the proofs use nothing of it but the assumptions, and `LimitNearlyKept` is
about any reports.

None of the properties is inductive: what a step does is right because of what its
call learned steps before, so each invariant has to say what the calls in flight
still know.

**The spec engine.** In layers, each step lemma using the ones before it:

| Layer | Says | Step lemma |
|---|---|---|
| `TypeInv` | types; what a call is about; `LockHeld`: the lock belongs to exactly the call inside a transaction | `TypeStep` |
| `LifecycleInv` | `StageCoherent`, and `StageKnown(c)`: what call c read of stage and tables and nobody can take back | `LifecycleStep`, `KnownStays` |
| `AcceptInv` | `DoneWasJudged`, `DepsAcceptedFirst`, and `Judged(c)`: what a completion has established at each point | `AcceptStep` |
| `LogInv` | `Accounted`, and the record of each open transaction | `LogStep` |
| `VerifiedInv` | verified, or about to be: all accepted | `VerifiedStep` |
| `GrantInv` | of each grant: spent at most once more than revived, and not more than revived while it is in the file or about to be taken out; amended at most as often as spent, with one to spare for the amend about to commit | `GrantStep` |

Two lemmas carry most of it. `LifecycleStep` also shows `Forward`: no step takes
back that a specification is tasked, its list or its plan, which is why what a
call read about these needs no lock. `StepOrigins` says which single action each
kind of change can come from, so that the three last layers need no case per
action. `LockHeld` is what makes a transaction's own checks (`TasksWrite`'s keys,
the grant `AmendRevoke` loaded) still true at its commit. The refinement rests on the same
layers: a step that commits nothing is a stutter (`NoCommitNoChange`), and each
commit is the abstract step of its verb (`LifecycleNext`), whose guards are what
`StageKnown` and `Judged` have kept since the reads.

**The governed call.** `RecordInv`: whoever is let in was announced, and the
command about to run too. `VerdictInv`: each step behind the call has a result
that tells whether its command ran. `SwitchInv`: what `pin-tools` has read of the
switch. `MomentInv`: while a call reads the policy there is one policy, of a moment
of its reading, that agrees with what it has read and, file by file, with what is
still to be read. It needs that the first rule that matches is found
in files read one by one as in all of them: `FirstOfConcat`, `VerdictByFirst`.

**The log.** `OneWriterInv`: the writer that appends has read the tip the file still
has. `StatusInv`: what has been read chains and is how the file begins unless it was
edited since, and so is the cache; with it the incremental verdict is the walk's
(`ScanReads`, `StatusAppend`).

**The feed.** `PlacesInv` is the property with its types: each step that takes a stream
away gives up one place, or is counted among those given up (`StreamsLost`). The rest is
`FeedInv`, which says of a log that nobody has replaced:

- `LinesInv`, `WriterInv`: both cells of a record are together, and records are numbered
  as they come. The *mark* of a position is how many records are whole before it, so
  what `read_audit` returns between two cursors is the run of numbers between their
  marks (`WindowMarks`, `TailMarks`): a statement about bytes becomes arithmetic.
- `PagesInv`: what a page was told, its rows and the ids it remembers are runs of
  numbers with one end, `Top`; what is on its way goes on from there, beginning no
  further back than the ids reach (`OnItsWay`). Only the last event of a batch carries
  a cursor, so the page's cursor may lag, but by less than `PageLimit` records: this is
  where `SeenLimit >= PageLimit` is used.
- `StreamsInv`: the cursor of a stream is where what was sent on it ends (`SentTo`).

`EveryPageIsALiveView` maps the rows of a page to those of `LiveView`, the records that
are whole to its records, and what a page is past to the mark of what it was told or,
before that, of its cursor. A load is its `Open`, a record received that is not
remembered its `Tell`, a cell of a line its
`Grow`, `Stop` its `Close`; all else is a stutter.

**The parts.** A behaviour of `MCParts` is of one part, so its theorems have the
invariant `part = "..." => Inv` and the step of that part only. For usage, dag,
route, memory, grants, ledger and undo the invariant is that of the component's own
proof module, which says the same of the same variables; the bridging lemmas
(`UsageSame`, `GrantSteps`, ...) carry it over.

| Part | Invariant | Why the property alone does not do |
|---|---|---|
| ledger | `LedgerInv`: no text, in the file or under way to it, counts more failures than there were; `SoloInv`; `ExactInv`, where nothing went wrong, file or save has the entries that the runs call for | the file lags behind the gate |
| undo | `UndoInv`: `LeadsInv`, undoing leads back through the buffer from the files as they are, or as the call at work is about to leave them; `Counted`, the writes that have not come to their file or to their record | an entry is saved before its write, and taken out before it is undone |
| dag | `DagInv`: while it sorts, the degree of a node is the number of those it waits for, and what is ordered is closed; afterwards what a node depends on, however far, comes before it; or what is left has no first node (`Stuck`) | the order is right because of what the degrees counted |
| route | `RouteInv`, the types and the property | none: a call is one step |
| memory | `MemInv`: what the words have found is of what matched when the query began, and all of it if it was not cut (`WordsInv`); rows never change, so it stays so while others record | the answer is drawn from a list made before |
| usage | `CountInv`: rows and callers that have counted together stay below the limit and the other callers | a caller that has counted adds a row whatever others do |
| grants | `KeptInv`: `SoloInv`, a save has the temporary file for itself; `SpentInv`, what is used is in no text still to be written; `MeantInv`, file or save holds what was meant | what is about to replace the file counts as much as the file |
| credential | `CredInv`: what a request is about to write to is empty, and one request at most has the file open | a request in flight will write |
| tab | `TabInv`: each request whose answer counts was sent with the credential held | answers come late |
| index | `IndexInv`: what a query holds of a file is the content of its mtime unless it was disturbed in between (`raced`), and then its mtime is older than the file's until an older one comes back; `Thorough`: if nobody disturbs it, each file is before it or stored as it is | rows are written long after the stat |
| packs | `PackInv`: `Safe`, a complete copy is in place, left over, or in the hands of a call; `NeedsMet`, also what an install in progress needs is there and what a removal takes is not needed | checks precede the copy |
| schema | `SchemaInv`: the objects are the first k of ten, no process is beyond them, and unless one failed some process is exactly where they end (`Leads`) or the head is noted | a race is won by whoever leads; the row of a revision is written after its objects |

The files of grants, ledger and undo buffer share `SoloInv` and `Advance`: while saves
do not overlap at most one is in progress and the temporary file is its own, so the
file holds what it held or what was to be written.

**Recursion.** The provers cannot instantiate the library's induction theorems, which
take an operator. Two lemmas do in their place: `LeastNumber`, a set of numbers that is
not empty has a least one (from `WFMin`), and `Climb`, a set that has 0 and with each
number the next has all of them. With them it is shown that the recursive functions of
the model exist and what they compute, that a dag which cannot be ordered has a cycle,
and that a finite set of tiers has a least one.

**What stays with TLC.**

- Liveness under fairness (`CallsReturn`, `EveryRecordShown`), out of TLAPS's reach here.
- `ToldOnce` for logs that are replaced and have no line that is no record.
- `ReportAddsUp`: sums over rows, exchanged with sums over their groups. The fold of the
  community modules takes operators.

## 12. Where the code and its documents differ

Each has a run that TLC refutes; PROJECT.json quotes the lines.

- `spec_verified_race`: `verify_feature` decides, then takes the lock. An amend in
  between reopens a task and sees nothing to take back; the specification is then
  verified with a pending task.
- `spec_stale_completion`: a completion judged by a check that is amended before
  its second session marks the task done; the amend found nothing done to reopen.
- `audit_fork`: two `record_audit` read the same last hash; the chain is then
  reported broken although nobody edited it.
- `feed_replaced`: the stream looks at the size of the log, and `read_audit` looks
  again. A log replaced in between is read from its start, and the client is never
  told to drop the rows of the old one.
- `doctor_raises`: `checks.py:44` has that the doctor must never crash on a bad
  configuration. It resolves the configuration before its first check, takes
  sections for mappings, and each line of the audit log for a record; any of them
  ends it without a report.

Met while modelling, and without a run:

- A grant is "one-shot" (`core/config/defaults.yaml:37`, `jit.py:77`), an operator's
  for one amend (`engine.py:522`). The grants of all specifications are one file that
  is loaded and replaced without a lock: `allow-amend` or a revoke for another
  specification that loaded it before the grant was used writes it back, and a
  second amend passes. `OneAmendPerGrant` counts these; that there are none would be
  violated. The same docstring has a grant used up only by a successful amend; one
  whose commit fails has lost it already (576).
- A project may contribute a command only if the operator pre-approved "that exact
  string" (`mcp_guard.py:14-15`). In a file the approved ones are a list; as
  `PROMPTWISE_GATEWAY__ALLOWED_VERIFY_COMMANDS` they are one string, and `value in allowed`
  (120) then takes every part of it.
- The index is "always consistent with the mtime" it stores (`store.py:3-4`). A file
  edited between the stat and the parse (`query.py:79-86`) is stored with the new
  symbols under the old mtime. The next query corrects it, unless the file has got
  that mtime back (an older copy restored with it): then the wrong symbols stay. A
  directory that cannot be listed for a moment loses the rows of its files
  (`query.py:35-37` has the walk skip it, and 91 sweeps what the walk did not see).
- The page of the audit view opens on the newest records unless they are behind a
  line longer than the scan budget (`read.py:134`), then on fewer or none, and
  `AuditView` does not look at `truncated`. An unfinished last line longer than
  `TAIL_CHUNK` makes `lines.pop(0)` raise (`read.py:145`), though `read.py:4-6` has partial
  lines skipped.
- A stream whose body never begins keeps its place for good (`v1.py:175`). As many of
  these as there are places, and every page is refused from then on.
- The hashes of a check's files are compared once, before the checks run
  (`engine.py:426`); an edit in between is run.
- `guard_tool` writes the record of a mismatched pin unguarded: if it cannot be
  written, `run_governed` raises (`GovernedCall`, "raised"), while
  `mcp_guard.py:7-8` has errors returned and never raised.
- A record that fails in the skip branch or in the handler of a failed node leaves
  `orchestrate_tasks` as an exception (`runner.py:5-6` lets none out).
- A file that vanishes between the walk and its stat keeps its rows until the next
  query (`query.py:77`), although the design has them dropped
  (`docs/superpowers/specs/2026-08-24-code-index-design.md:139-142`).
- One collection serves all projects (`vectors.py:5-8`), but its points are
  numbered by each project's own SQLite file: they overwrite each other, and a
  fact whose point is lost is found by its words only.
- A sweep is not idempotent, as the description of the verb in
  `gateway/mcp_server.py` has it: the same texts are recorded again.
- An agent that calls itself `(other)` loses its bucket to the fold of that name
  (`usage.py:163`), and then the buckets do not add up to the totals.
- A request that saw an empty credential file may empty it again after another has
  written its credential (`auth.py:77`): the first one's is then no longer accepted.
- Two processes that upgrade a fresh database at once may both insert the first
  row of `alembic_version`; the loser's stays. From then on `current_revision`
  raises for every call. A process killed within a revision leaves objects that its
  next attempt cannot make again.
- A list of known-bad packages that cannot be read names none, and the check passes
  (`supply_chain.py:70-71`).
- The doctor says that without a reading of the memory, or with too little of it,
  routing will take the smallest local tier, or prefer the cloud
  (`checks.py:24,30`). `router.py:82-104` keeps the tier that was chosen in the one
  case, and uses the first one that may be used in the other.
- The poll of the audit view has no signal (`AuditView.tsx:54-61`): a 401 that comes
  late drops the credential of whoever has signed in since, and a late answer may
  take the place of a newer verdict on the chain.

## 13. What is not modelled

- `converge_feature`, `spec_status`, `list_specs`: read-only.
- `specify_feature` and `plan_feature` record after their commit. The model has the
  step; no property asks for the record, because the code does not promise it.
- Postgres: `core/db/base.py` allows another URL. The lock is SQLite's, the
  default; under a server with row locks the interleavings would be others.
- A denied or failed call is recorded too ("deny", "error"); `log` has only the
  records of changes.
- The filters of the audit readers, the parser of the event stream, and the moment at which a replaced log does not exist.
- What `list_installed_packs` makes of links, and two edits of a file within one
  tick of the clock.
- What the runners and scanners do.
- The throttle of denial records (`auth.py:94-110`): it bounds what is recorded of
  refused requests and decides nothing.
- The write of a fresh credential in parts: 43 characters go out in one `write`, and
  a reader finds the file empty or whole. One in between would find it too short and
  answer 503.
- Coercion of scalars, paths of configuration files, and trees deeper than two.
- `cost_report`, a sum over the records one request brings (route of `app.py`); tokens and
  rounding of costs.
- The SELECT of the recent rows of a usage report.
- Downgrades of the schema, and databases that are not SQLite files.
- The routes of the HTTP gateway and the tools of the MCP server, but for what the
  sections above name: they pass arguments on and answers back.
- What the views of the dashboard show, and more than one poll of the chain in
  flight.
- The support bundle and redaction, `promptwise profile`, and matching of untrusted
  text: texts and files made in one go, from which nothing is read back.
- The size of files, paths, and the text of checks and commands.
- What is outside: Qdrant, the embedding model, tree-sitter, Alembic, the query
  client, the runners' tools.

## 14. Plan

Every component that keeps state has its model. Left, in order:

1. Proofs: what "What stays with TLC" lists and is not liveness.
2. Denials and their throttle, as a part of the credential's surface.
3. An instance of the spec engine with two requirements that TLC can exhaust.

Runs are kept to one per question.
