------------------------------ MODULE MCParts -------------------------------
(***************************************************************************)
(* Small instances of the parts that share no state with one another.      *)
(* Each behaviour is of one part, and the others rest.                     *)
(* What is said of the undo buffer is said of calls that do not overlap:   *)
(* One client makes them, and its process may die in each.                 *)
(***************************************************************************)
EXTENDS Integers, Sequences, FiniteSets, TLC

CONSTANTS
    Parts,          \* those of this run
    Client, One, None,
    Task, Signature, MaxIdentical, MaxRuns,
    Path, Text, MaxUndo, MaxWrites,
    Scope, MaxGrants,
    File, Dirs, MaxEdits,
    p1, p2, MaxLeft,
    Nodes, Unknown,
    Session, Word, Limit, MaxFacts,
    HourLimit, MAX_BUCKETS, MaxEvents,
    MaxTiers, MaxNodes, MaxCalls,
    Token, View, AuditView

VARIABLES
    part,
    disk, real, tmp, op, mishap,
    runs,
    project, written, broken,
    issued, meant, expired, used,
    source, shut, clock, stored, query, restored,
    installed, leftover, job, disturbed, had,
    deps, degree, ready, order, turn, at, result, told,
    place, facts, points, keeping, recall,
    rows, fresh, writing, reporter, report,
    catalog, decision,
    path, text, made, caller, answered, overtaken,
    table, versions, objects, process, begun, upgraded, failed,
    asked, config,
    layers, trail, doctor,
    accepted, held, gate, view, asking, cached

filevars == <<disk, real, tmp, op, mishap>>
undovars == <<project, written, broken>>
grantvars == <<issued, meant, expired, used>>
indexvars == <<source, shut, clock, stored, query, restored>>
packvars == <<installed, leftover, job, disturbed, had>>
dagvars == <<deps, degree, ready, order, turn, at, result, told>>
memvars == <<place, facts, points, keeping, recall>>
usagevars == <<rows, fresh, writing, reporter, report>>
routevars == <<catalog, decision>>
credvars == <<path, text, made, caller, answered, overtaken>>
migratevars == <<table, versions, objects, process, begun, upgraded, failed>>
configvars == <<asked, config>>
doctorvars == <<layers, trail, doctor>>
tabvars == <<accepted, held, gate, view, asking, cached>>

statevars == <<filevars, runs, undovars, grantvars, indexvars, packvars, dagvars, memvars>>
answervars == <<usagevars, routevars, credvars, migratevars, configvars, doctorvars, tabvars>>

\* p2 needs p1, in one version any and in the other one from 2 on; the second
\* version of p1 needs p2.
Pack == {p1, p2}
Version(p, v, ns) == [name |-> p, version |-> v, needs |-> ns]
Manifests ==
    {Version(p1, 1, {}), Version(p1, 2, {}), Version(p1, 3, {[on |-> p2, range |-> {}]}),
     Version(p2, 1, {[on |-> p1, range |-> {}]}),
     Version(p2, 2, {[on |-> p1, range |-> {[op |-> ">=", bound |-> 2], [op |-> "<", bound |-> 3]}]})}

\* A scope alone, or with one of the sessions.
Labels == {[scope |-> "project", session |-> None]} \cup [scope: {"session"}, session: Session]

\* Three agents, one with the name of the bucket of those that are not shown.
Reports == {[agent |-> 0, tier |-> 2, task |-> None], [agent |-> 1, tier |-> 1, task |-> None],
            [agent |-> 2, tier |-> 2, task |-> One]}

Ledger == INSTANCE FailureLedger
Undo == INSTANCE UndoBuffer WITH Client <- {One}
Grant == INSTANCE GrantFile
Index == INSTANCE CodeIndex
Packs == INSTANCE PackRegistry
Dag == INSTANCE Orchestrate
Memory == INSTANCE MemoryStore WITH Root <- {One}, Label <- Labels
Usage == INSTANCE UsageMeter WITH Event <- Reports, OtherAgents <- 0
Route == INSTANCE Router WITH Gigabytes <- {1, 2}
Cred == INSTANCE Credential
Upgrade == INSTANCE Migrate
Conf == INSTANCE Configuration
Doc == INSTANCE Doctor
Tab == INSTANCE Dashboard

ASSUME PartsAssumption ==
    /\ Grant!GrantAssumption /\ Index!IndexAssumption /\ Packs!PackAssumption
    /\ Usage!UsageAssumption /\ Cred!CredAssumption
    /\ Ledger!LedgerAssumption /\ Undo!UndoAssumption
    /\ Dag!DagAssumption /\ Route!RouteAssumption /\ Memory!MemAssumption
    /\ Doc!DoctorAssumption
    /\ Parts \subseteq {"ledger", "undo", "grants", "index", "packs", "dag", "memory", "usage", "route",
                       "credential", "migrate", "config", "doctor", "tab"}

-----------------------------------------------------------------------------
Init ==
    /\ part \in Parts
    /\ IF part = "ledger" THEN Ledger!Init ELSE runs = None
    /\ IF part = "undo" THEN Undo!Init ELSE project = None /\ written = None /\ broken = None
    /\ IF part = "grants" THEN Grant!Init
       ELSE issued = None /\ meant = None /\ expired = None /\ used = None
    /\ part \notin {"ledger", "undo", "grants"} =>
          disk = None /\ real = None /\ tmp = None /\ op = None /\ mishap = None
    /\ IF part = "index" THEN Index!IndexInit
       ELSE /\ source = None /\ shut = None /\ clock = None
            /\ stored = None /\ query = None /\ restored = None
    /\ IF part = "packs" THEN Packs!PackInit
       ELSE installed = None /\ leftover = None /\ job = None /\ disturbed = None /\ had = None
    /\ IF part = "dag" THEN Dag!DagInit
       ELSE /\ deps = None /\ degree = None /\ ready = None /\ order = None
            /\ turn = None /\ at = None /\ result = None /\ told = None
    /\ IF part = "memory" THEN Memory!MemInit
       ELSE place = None /\ facts = None /\ points = None /\ keeping = None /\ recall = None
    /\ IF part = "usage" THEN Usage!UsageInit
       ELSE rows = None /\ fresh = None /\ writing = None /\ reporter = None /\ report = None
    /\ IF part = "route" THEN Route!RouteInit ELSE catalog = None /\ decision = None
    /\ IF part = "credential" THEN Cred!CredInit
       ELSE /\ path = None /\ text = None /\ made = None
            /\ caller = None /\ answered = None /\ overtaken = None
    /\ IF part = "migrate" THEN Upgrade!MigrateInit
       ELSE /\ table = None /\ versions = None /\ objects = None /\ process = None
            /\ begun = None /\ upgraded = None /\ failed = None
    /\ IF part = "config" THEN Conf!ConfigInit ELSE asked = None /\ config = None
    /\ IF part = "doctor" THEN Doc!DoctorInit ELSE layers = None /\ trail = None /\ doctor = None
    /\ IF part = "tab" THEN Tab!TabInit
       ELSE /\ accepted = None /\ held = None /\ gate = None
            /\ view = None /\ asking = None /\ cached = None

Next ==
    /\ \/ /\ part = "ledger" /\ Ledger!Next
          /\ UNCHANGED <<undovars, grantvars, indexvars, packvars, dagvars, memvars, answervars>>
       \/ /\ part = "undo" /\ Undo!Next
          /\ UNCHANGED <<runs, grantvars, indexvars, packvars, dagvars, memvars, answervars>>
       \/ /\ part = "grants" /\ Grant!Next
          /\ UNCHANGED <<runs, undovars, indexvars, packvars, dagvars, memvars, answervars>>
       \/ /\ part = "index" /\ Index!IndexNext
          /\ UNCHANGED <<filevars, runs, undovars, grantvars, packvars, dagvars, memvars, answervars>>
       \/ /\ part = "packs" /\ Packs!PackNext
          /\ UNCHANGED <<filevars, runs, undovars, grantvars, indexvars, dagvars, memvars, answervars>>
       \/ /\ part = "dag" /\ Dag!DagNext
          /\ UNCHANGED <<filevars, runs, undovars, grantvars, indexvars, packvars, memvars, answervars>>
       \/ /\ part = "memory" /\ Memory!MemNext
          /\ UNCHANGED <<filevars, runs, undovars, grantvars, indexvars, packvars, dagvars, answervars>>
       \/ /\ part = "usage" /\ Usage!UsageNext
          /\ UNCHANGED <<statevars, routevars, credvars, migratevars, configvars, doctorvars, tabvars>>
       \/ /\ part = "route" /\ Route!RouteNext
          /\ UNCHANGED <<statevars, usagevars, credvars, migratevars, configvars, doctorvars, tabvars>>
       \/ /\ part = "credential" /\ Cred!CredNext
          /\ UNCHANGED <<statevars, usagevars, routevars, migratevars, configvars, doctorvars, tabvars>>
       \/ /\ part = "migrate" /\ Upgrade!MigrateNext
          /\ UNCHANGED <<statevars, usagevars, routevars, credvars, configvars, doctorvars, tabvars>>
       \/ /\ part = "config" /\ Conf!ConfigNext
          /\ UNCHANGED <<statevars, usagevars, routevars, credvars, migratevars, doctorvars, tabvars>>
       \/ /\ part = "doctor" /\ Doc!DoctorNext
          /\ UNCHANGED <<statevars, usagevars, routevars, credvars, migratevars, configvars, tabvars>>
       \/ /\ part = "tab" /\ Tab!TabNext
          /\ UNCHANGED <<statevars, usagevars, routevars, credvars, migratevars, configvars, doctorvars>>
    /\ UNCHANGED part

Spec == Init /\ [][Next]_<<part, statevars, answervars>>

-----------------------------------------------------------------------------
\* Each part's types.
TypeOK ==
    CASE part = "ledger" -> Ledger!TypeOK
      [] part = "undo"   -> Undo!TypeOK
      [] part = "grants" -> Grant!TypeOK
      [] part = "index"  -> Index!IndexTypeOK
      [] part = "packs"  -> Packs!PackTypeOK
      [] part = "dag"    -> Dag!DagTypeOK
      [] part = "memory" -> Memory!MemTypeOK
      [] part = "usage"  -> Usage!UsageTypeOK
      [] part = "route"  -> Route!RouteTypeOK
      [] part = "credential" -> Cred!CredTypeOK
      [] part = "migrate" -> Upgrade!MigrateTypeOK
      [] part = "config" -> Conf!ConfigTypeOK
      [] part = "doctor" -> Doc!DoctorTypeOK
      [] part = "tab"    -> Tab!TabTypeOK

\* The ledger (FailureLedger).
AnswerExact == part = "ledger" => Ledger!AnswerExact

\* fs_write and undo_last (UndoBuffer).
UndoLeadsBack == part = "undo" => Undo!UndoLeadsBack

\* Grants (GrantFile).
GrantsKept == part = "grants" => Grant!GrantsKept

\* The code index (CodeIndex).
AnswerIsTheTree == part = "index" => Index!AnswerIsTheTree

\* Packs (PackRegistry).
PacksStay == part = "packs" => Packs!PacksStay

\* The orchestrator (Orchestrate).
DagIsFollowed == part = "dag" => Dag!DagIsFollowed

\* The memory (MemoryStore).
RecallIsRight == part = "memory" => Memory!RecallIsRight

\* The usage ledger (UsageMeter).
LimitAlmostHolds == part = "usage" => Usage!LimitAlmostHolds
ReportAddsUp == part = "usage" => Usage!ReportAddsUp

\* The choice of a model (Router).
RouteFits == part = "route" => Route!RouteFits

\* The credential of the gateway (Credential).
OneCredential == part = "credential" => Cred!OneCredential

\* The schema (Migrate).
UpgradeIsWhole == part = "migrate" => Upgrade!UpgradeIsWhole

\* The layers (Configuration).
LaterLayerWins == part = "config" => Conf!LaterLayerWins
OperatorDecides == part = "config" => Conf!OperatorDecides

\* The health checks (Doctor).
DoctorAnswers == part = "doctor" => Doc!DoctorAnswers

\* A tab of the dashboard (Dashboard).
SessionsApart == part = "tab" => Tab!SessionsApart

-----------------------------------------------------------------------------
ThreeNodes == <<"a", "b", "c">>
EachAlone == {{f} : f \in File}

AllSymmetry ==
    UNION {Permutations(s) : s \in {Client, Task, Signature, Path, Text, Scope, File, Session, Word, Token}}
=============================================================================
