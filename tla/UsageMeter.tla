----------------------------- MODULE UsageMeter -----------------------------
(***************************************************************************)
(* The usage ledger: core/routing/usage.py.  Agents report what they spent *)
(* (record_usage, an MCP tool and a command), a limit bounds the reports   *)
(* of an hour, and usage_report adds them up.                              *)
(*                                                                         *)
(* The hour is counted by a SELECT, which takes no lock, and the row is    *)
(* written after it; a report is several SELECTs, each of the rows         *)
(* committed by then (that of the recent rows, shown as they are, is left  *)
(* out).  The window of a report is a day or more and its beginning is     *)
(* fixed when it starts, so no row leaves it meanwhile.                    *)
(***************************************************************************)
EXTENDS Integers, Sequences, FiniteSets, FiniteSetsExt, SequencesExt

CONSTANTS
    Client,         \* concurrent callers of record_usage
    None,           \* no task, no event, nobody
    Event,          \* what may be reported: agent, tier and task
    OtherAgents,    \* OTHER: the bucket of the agents that are not shown
    HourLimit,      \* usage.max_events_per_hour
    MAX_BUCKETS,    \* agents shown
    MaxEvents       \* bound: rows

\* Agents are numbers in the order of their names, one of which may be that of
\* the bucket; a tier is its price.

\* For the proofs: somebody reports, and the limit is a number of reports.
UsageAssumption == IsFiniteSet(Client) /\ Client # {} /\ HourLimit \in Nat

VARIABLES
    rows,           \* the rows of usage_event in the order of their keys
    fresh,          \* the keys of those of the last hour
    writing,        \* the client whose transaction has the write lock
    reporter,       \* what each caller of record_usage is doing
    report          \* the call of usage_report in progress, or the last one

usagevars == <<rows, fresh, writing, reporter, report>>

IdleReporter == [at |-> "idle", event |-> None]

Nothing == [events |-> 0, cost |-> 0]

NoReport == [at |-> "idle", total |-> Nothing, tasks |-> 0, taskCost |-> 0,
             tiers |-> <<>>, agents |-> <<>>]

UsageInit ==
    /\ rows = <<>> /\ fresh = {} /\ writing = None
    /\ reporter = [c \in Client |-> IdleReporter]
    /\ report = NoReport

-----------------------------------------------------------------------------
(* record_usage *)

\* Token counts, texts, the tier and its price are valid: anything else raises
\* before the database is looked at.
RecordUsage(c) ==
    /\ reporter[c].at = "idle"
    /\ \E e \in Event : reporter' = [reporter EXCEPT ![c] = [at |-> "count", event |-> e]]
    /\ UNCHANGED <<rows, fresh, writing, report>>

\* Mutant: one too many.
UnderLimitInclusive == Cardinality(fresh) <= HourLimit

UnderLimit == Cardinality(fresh) < HourLimit

CountRecent(c) ==
    /\ reporter[c].at = "count"
    /\ reporter' = [reporter EXCEPT ![c] = IF UnderLimit THEN [@ EXCEPT !.at = "insert"]
                                           ELSE IdleReporter]
    /\ UNCHANGED <<rows, fresh, writing, report>>

\* The flush writes the row and takes the lock.
InsertEvent(c) ==
    /\ reporter[c].at = "insert"
    /\ writing = None /\ Len(rows) < MaxEvents
    /\ writing' = c
    /\ reporter' = [reporter EXCEPT ![c].at = "commit"]
    /\ UNCHANGED <<rows, fresh, report>>

CommitEvent(c) ==
    /\ reporter[c].at = "commit"
    /\ rows' = Append(rows, reporter[c].event)
    /\ fresh' = fresh \cup {Len(rows) + 1}
    /\ writing' = None
    /\ reporter' = [reporter EXCEPT ![c].at = "audit"]
    /\ UNCHANGED report

\* The record comes after the commit: if it cannot be written the caller is told
\* of an error although its report is kept.
AuditEvent(c) ==
    /\ reporter[c].at = "audit"
    /\ reporter' = [reporter EXCEPT ![c] = IdleReporter]
    /\ UNCHANGED <<rows, fresh, writing, report>>

\* The lock is not given in time, the commit fails or the caller dies.
RecordFails(c) ==
    /\ reporter[c].at # "idle"
    /\ writing' = IF writing = c THEN None ELSE writing
    /\ reporter' = [reporter EXCEPT ![c] = IdleReporter]
    /\ UNCHANGED <<rows, fresh, report>>

\* The oldest report is an hour old.
HourPasses ==
    /\ fresh # {}
    /\ fresh' = fresh \ {Min(fresh)}
    /\ UNCHANGED <<rows, writing, reporter, report>>

-----------------------------------------------------------------------------
(* usage_report *)

Cost(i) == rows[i].tier

\* count and sum of the rows with these keys.
Summed(keys) == [events |-> Cardinality(keys), cost |-> MapThenSumSet(Cost, keys)]

Keys == DOMAIN rows

Named == {i \in Keys : rows[i].task # None}

\* The columns a report groups by.
Tier  == [i \in Keys |-> rows[i].tier]
Agent == [i \in Keys |-> rows[i].agent]

\* _bucket_query: the rows grouped by one column.
Grouped(column) ==
    [v \in {column[i] : i \in Keys} |-> Summed({i \in Keys : column[i] = v})]

\* The dearest first, then by name.
InOrder(buckets) ==
    SetToSortSeq(DOMAIN buckets, LAMBDA a, b : \/ buckets[a].cost > buckets[b].cost
                                               \/ buckets[a].cost = buckets[b].cost /\ a < b)

AddUp(buckets, names) ==
    LET CountOf(n) == buckets[n].events
        CostOf(n) == buckets[n].cost IN
    [events |-> MapThenSumSet(CountOf, names), cost |-> MapThenSumSet(CostOf, names)]

\* Mutant: what is not shown is in no bucket.
FoldedShort(buckets) ==
    LET order == InOrder(buckets) IN
    [n \in {order[i] : i \in DOMAIN order \cap 1..MAX_BUCKETS} |-> buckets[n]]

\* _to_buckets with a limit: the rest is folded into one bucket, in the place of
\* that of an agent shown under its name.
Folded(buckets) ==
    LET order == InOrder(buckets)
        shown == {order[i] : i \in DOMAIN order \cap 1..MAX_BUCKETS}
        rest  == DOMAIN buckets \ shown IN
    IF rest = {} THEN buckets
    ELSE [n \in shown \cup {OtherAgents} |->
             IF n = OtherAgents THEN AddUp(buckets, rest) ELSE buckets[n]]

UsageReport ==
    /\ report.at = "idle"
    /\ report' = [NoReport EXCEPT !.at = "tasks", !.total = Summed(Keys)]
    /\ UNCHANGED <<rows, fresh, writing, reporter>>

\* The distinct tasks that were named, then what they cost.
ReadTasks ==
    /\ report.at = "tasks"
    /\ report' = [report EXCEPT !.at = "cost", !.tasks = Cardinality({rows[i].task : i \in Named})]
    /\ UNCHANGED <<rows, fresh, writing, reporter>>

ReadTaskCost ==
    /\ report.at = "cost"
    /\ report' = [report EXCEPT !.at = "tiers", !.taskCost = Summed(Named).cost]
    /\ UNCHANGED <<rows, fresh, writing, reporter>>

ReadTiers ==
    /\ report.at = "tiers"
    /\ report' = [report EXCEPT !.at = "agents", !.tiers = Grouped(Tier)]
    /\ UNCHANGED <<rows, fresh, writing, reporter>>

ReadAgents ==
    /\ report.at = "agents"
    /\ report' = [report EXCEPT !.at = "done", !.agents = Folded(Grouped(Agent))]
    /\ UNCHANGED <<rows, fresh, writing, reporter>>

AnswerReport ==
    /\ report.at = "done"
    /\ report' = NoReport
    /\ UNCHANGED <<rows, fresh, writing, reporter>>

UsageNext ==
    \/ \E c \in Client : \/ RecordUsage(c) \/ CountRecent(c) \/ InsertEvent(c)
                         \/ CommitEvent(c) \/ AuditEvent(c) \/ RecordFails(c)
    \/ HourPasses
    \/ UsageReport \/ ReadTasks \/ ReadTaskCost \/ ReadTiers \/ ReadAgents \/ AnswerReport

UsageSpec == UsageInit /\ [][UsageNext]_usagevars

-----------------------------------------------------------------------------
(* Properties *)

UsageTypeOK ==
    /\ rows \in Seq(Event) /\ fresh \subseteq Keys
    /\ writing \in Client \cup {None}
    /\ reporter \in [Client -> [at: {"idle", "count", "insert", "commit", "audit"},
                                event: Event \cup {None}]]
    /\ report.at \in {"idle", "tasks", "cost", "tiers", "agents", "done"}

\* usage.py:134, "usage rate limit reached": counted without a lock, the limit of
\* an hour is passed by at most one report of every other concurrent caller.
LimitAlmostHolds == Cardinality(fresh) <= HourLimit + Cardinality(Client) - 1

\* A report adds up although its SELECTs see different rows (usage.py:172-197):
\* the buckets, read after the totals, hold every row the totals hold; and when
\* nothing was reported meanwhile, every bucket, the fold of the agents that are
\* not shown included, adds up to the totals.  An agent that has the name of the
\* fold loses its own bucket to it.
ReportAddsUp ==
    /\ report.at = "done"
    /\ \A i \in Keys : rows[i].agent # OtherAgents
    => LET tiers  == AddUp(report.tiers, DOMAIN report.tiers)
           agents == AddUp(report.agents, DOMAIN report.agents) IN
       /\ report.total.events <= tiers.events /\ tiers.events <= agents.events
       /\ report.total.cost <= tiers.cost /\ tiers.cost <= agents.cost
       /\ agents.events = report.total.events =>
              /\ agents = report.total /\ tiers = report.total
              /\ report.taskCost <= report.total.cost /\ report.tasks <= report.total.events
       /\ Cardinality(DOMAIN report.agents) <= MAX_BUCKETS + 1
=============================================================================
