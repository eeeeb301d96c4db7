-------------------------- MODULE CoreParts_proofs --------------------------
(***************************************************************************)
(* Invariants of parts of MCParts, each proved of its own module: the      *)
(* usage ledger, the code index, the orchestrator, the choice of a model   *)
(* and the memory.  MCParts_proofs carries them over to the behaviours of  *)
(* MCParts.                                                                *)
(***************************************************************************)
EXTENDS UsageMeter, FiniteSetTheorems, SequenceTheorems, FunctionTheorems, TLAPS

CONSTANTS
    File, Dirs, MaxEdits,
    Nodes, Unknown,
    Gigabytes, MaxTiers,
    Root, Label, Word, Limit, MaxFacts

VARIABLES
    source, shut, clock, restored, stored, query,
    deps, degree, ready, order, turn, at, result, told,
    catalog, decision,
    place, facts, points, keeping, recall

Index == INSTANCE CodeIndex
Dag == INSTANCE Orchestrate
Route == INSTANCE Router
Memory == INSTANCE MemoryStore

-----------------------------------------------------------------------------
(* The usage ledger, for any number of callers, any limit and any reports. *)
(* The number of rows alone is not inductive: a caller that has counted    *)
(* will write a row whatever is written meanwhile.  CountInv counts those  *)
(* callers with the rows.                                                  *)

\* The callers that have counted and will add a row unless they fail.
Counted == {c \in Client : reporter[c].at \in {"insert", "commit"}}

Reporter == [at: {"idle", "count", "insert", "commit", "audit"}, event: Event \cup {None}]

\* A caller at work has something to report.
Working == \A c \in Client : reporter[c].at # "idle" => reporter[c].event \in Event

RowTypes ==
    /\ rows \in Seq(Event)
    /\ fresh \subseteq 1 .. Len(rows)
    /\ reporter \in [Client -> Reporter]
    /\ Working

CountInv ==
    /\ RowTypes
    /\ Cardinality(fresh) + Cardinality(Counted) <= HourLimit + Cardinality(Client) - 1

\* A report has its fields.
ReportTypes ==
    /\ report.at \in {"idle", "tasks", "cost", "tiers", "agents", "done"}
    /\ DOMAIN report = DOMAIN NoReport

UsageInv == CountInv /\ writing \in Client \cup {None} /\ ReportTypes

\* The steps that record; what usage_report reads is none of them.
Recording ==
    \/ \E c \in Client : \/ RecordUsage(c) \/ CountRecent(c) \/ InsertEvent(c)
                         \/ CommitEvent(c) \/ AuditEvent(c) \/ RecordFails(c)
    \/ HourPasses
    \/ UNCHANGED <<rows, fresh, writing, reporter>>

-----------------------------------------------------------------------------
\* The sets that are counted are finite.
LEMMA FiniteCounts ==
    ASSUME UsageAssumption, RowTypes
    PROVE  /\ Cardinality(Client) \in Nat \ {0} /\ HourLimit \in Nat
           /\ IsFiniteSet(fresh) /\ Cardinality(fresh) \in Nat
           /\ IsFiniteSet(Counted) /\ Cardinality(Counted) \in Nat
           /\ Cardinality(Counted) <= Cardinality(Client)
<1>1. Cardinality(Client) \in Nat \ {0} /\ HourLimit \in Nat
  BY FS_CardinalityType, FS_EmptySet DEF UsageAssumption
<1>2. Len(rows) \in Nat /\ fresh \in SUBSET (1 .. Len(rows))
  BY DEF RowTypes
<1>3. IsFiniteSet(1 .. Len(rows))
  BY <1>2, FS_Interval
<1>4. IsFiniteSet(fresh) /\ Cardinality(fresh) \in Nat
  BY <1>2, <1>3, FS_Subset, FS_CardinalityType
<1>5. Counted \in SUBSET Client
  BY DEF Counted
<1>6. /\ IsFiniteSet(Counted) /\ Cardinality(Counted) \in Nat
      /\ Cardinality(Counted) <= Cardinality(Client)
  BY <1>5, FS_Subset, FS_CardinalityType DEF UsageAssumption
<1> QED BY <1>1, <1>4, <1>6

\* No caller has counted yet.
LEMMA CountBegins ==
    ASSUME UsageAssumption, UsageInit
    PROVE  CountInv
<1>1. RowTypes
  BY DEF UsageInit, RowTypes, Reporter, Working, IdleReporter
<1>2. Counted = {} /\ fresh = {}
  BY DEF UsageInit, Counted, IdleReporter
<1>3. Cardinality(Counted) = 0 /\ Cardinality(fresh) = 0
  BY <1>2, FS_EmptySet
<1> QED BY <1>1, <1>3, FiniteCounts DEF CountInv

\* Only a commit adds a row, that of the caller that commits.
LEMMA RowTypesStep ==
    ASSUME RowTypes, Recording
    PROVE  RowTypes'
<1>1. /\ rows \in Seq(Event) /\ fresh \subseteq 1 .. Len(rows) /\ Len(rows) \in Nat
      /\ reporter \in [Client -> Reporter] /\ Working
  BY DEF RowTypes
<1>2. IdleReporter \in Reporter /\ IdleReporter.at = "idle"
  BY DEF IdleReporter, Reporter
<1> USE DEF Reporter, Working
<1>3. ASSUME NEW c \in Client, RecordUsage(c) \/ CountRecent(c) \/ RecordFails(c)
                               \/ InsertEvent(c) \/ AuditEvent(c)
      PROVE  RowTypes'
  <2>1. CASE RecordUsage(c)
    BY <1>1, <2>1 DEF RecordUsage, RowTypes
  <2>2. CASE CountRecent(c)
    <3>1. CASE reporter' = [reporter EXCEPT ![c] = IdleReporter]
      BY <1>1, <1>2, <2>2, <3>1 DEF CountRecent, RowTypes
    <3>2. CASE reporter' = [reporter EXCEPT ![c] = [@ EXCEPT !.at = "insert"]]
      BY <1>1, <2>2, <3>2 DEF CountRecent, RowTypes
    <3> QED BY <2>2, <3>1, <3>2 DEF CountRecent
  <2>3. CASE InsertEvent(c)
    BY <1>1, <2>3 DEF InsertEvent, RowTypes
  <2>4. CASE AuditEvent(c) \/ RecordFails(c)
    BY <1>1, <1>2, <2>4 DEF AuditEvent, RecordFails, RowTypes
  <2> QED BY <1>3, <2>1, <2>2, <2>3, <2>4
<1>4. ASSUME NEW c \in Client, CommitEvent(c) PROVE RowTypes'
  <2>1. reporter[c].event \in Event
    BY <1>1, <1>4 DEF CommitEvent
  <2>2. rows' \in Seq(Event) /\ Len(rows') = Len(rows) + 1
    BY <1>1, <1>4, <2>1 DEF CommitEvent
  <2>3. fresh' \subseteq 1 .. Len(rows')
    BY <1>1, <1>4, <2>2 DEF CommitEvent
  <2>4. reporter' \in [Client -> Reporter] /\ Working'
    BY <1>1, <1>4 DEF CommitEvent
  <2> QED BY <2>2, <2>3, <2>4 DEF RowTypes
<1>5. CASE HourPasses
  BY <1>1, <1>5 DEF HourPasses, RowTypes
<1>6. CASE UNCHANGED <<rows, fresh, writing, reporter>>
  BY <1>1, <1>6 DEF RowTypes
<1> QED BY <1>3, <1>4, <1>5, <1>6 DEF Recording

\* Who counts finds the limit not reached, and takes one of at most as many
\* places as there are callers; a row takes the place of its caller.
LEMMA CountStep ==
    ASSUME UsageAssumption, CountInv, Recording
    PROVE  CountInv'
<1> DEFINE Bounded == Cardinality(fresh') + Cardinality(Counted')
                          <= HourLimit + Cardinality(Client) - 1
<1>1. /\ reporter \in [Client -> Reporter] /\ fresh \subseteq 1 .. Len(rows)
      /\ Len(rows) \in Nat
  BY DEF CountInv, RowTypes
<1>2. RowTypes'
  BY RowTypesStep DEF CountInv
<1>3. /\ Cardinality(Client) \in Nat \ {0} /\ HourLimit \in Nat
      /\ IsFiniteSet(fresh) /\ Cardinality(fresh) \in Nat
      /\ IsFiniteSet(Counted) /\ Cardinality(Counted) \in Nat
      /\ Cardinality(fresh) + Cardinality(Counted) <= HourLimit + Cardinality(Client) - 1
  BY FiniteCounts DEF CountInv
<1>4. ASSUME Counted' \subseteq Counted, fresh' \subseteq fresh PROVE Bounded
  <2>1. /\ Cardinality(Counted') <= Cardinality(Counted) /\ Cardinality(Counted') \in Nat
        /\ Cardinality(fresh') <= Cardinality(fresh) /\ Cardinality(fresh') \in Nat
    BY <1>3, <1>4, FS_Subset, FS_CardinalityType
  <2> QED BY <1>3, <2>1
<1> USE DEF Reporter
<1>5. ASSUME NEW c \in Client, RecordUsage(c) \/ InsertEvent(c) \/ AuditEvent(c) \/ RecordFails(c)
      PROVE  Bounded
  <2>1. Counted' \subseteq Counted /\ fresh' = fresh
    BY <1>1, <1>5 DEF RecordUsage, InsertEvent, AuditEvent, RecordFails, Counted, IdleReporter
  <2> QED BY <1>4, <2>1
<1>6. ASSUME NEW c \in Client, CountRecent(c) PROVE Bounded
  <2>1. CASE UnderLimit
    <3>1. Counted' = Counted \cup {c} /\ c \notin Counted /\ fresh' = fresh
      BY <1>1, <1>6, <2>1 DEF CountRecent, Counted
    <3>2. Counted' \in SUBSET Client
      BY DEF Counted
    <3>3. Cardinality(Counted') <= Cardinality(Client) /\ Cardinality(Counted') \in Nat
      BY <3>2, FS_Subset, FS_CardinalityType DEF UsageAssumption
    <3> QED BY <1>3, <2>1, <3>1, <3>3 DEF UnderLimit
  <2>2. CASE ~UnderLimit
    <3>1. Counted' \subseteq Counted /\ fresh' = fresh
      BY <1>1, <1>6, <2>2 DEF CountRecent, Counted, IdleReporter
    <3> QED BY <1>4, <3>1
  <2> QED BY <2>1, <2>2
<1>7. ASSUME NEW c \in Client, CommitEvent(c) PROVE Bounded
  <2>1. Counted' = Counted \ {c} /\ c \in Counted
    BY <1>1, <1>7 DEF CommitEvent, Counted
  <2>2. Cardinality(Counted') = Cardinality(Counted) - 1
    BY <1>3, <2>1, FS_RemoveElement
  <2>3. fresh' = fresh \cup {Len(rows) + 1} /\ Len(rows) + 1 \notin fresh
    BY <1>1, <1>7 DEF CommitEvent
  <2>4. Cardinality(fresh') = Cardinality(fresh) + 1
    BY <1>3, <2>3, FS_AddElement
  <2> QED BY <1>3, <2>2, <2>4
<1>8. ASSUME HourPasses PROVE Bounded
  <2>1. fresh' \subseteq fresh /\ Counted' = Counted
    BY <1>8 DEF HourPasses, Counted
  <2> QED BY <1>4, <2>1
<1>9. ASSUME UNCHANGED <<rows, fresh, writing, reporter>> PROVE Bounded
  BY <1>4, <1>9 DEF Counted
<1> QED BY <1>2, <1>5, <1>6, <1>7, <1>8, <1>9 DEF Recording, CountInv

\* The limit of an hour is passed by at most one report of every other caller.
LEMMA CountLimits ==
    ASSUME UsageAssumption, CountInv
    PROVE  LimitAlmostHolds
<1>1. Cardinality(fresh) \in Nat /\ Cardinality(Counted) \in Nat /\ HourLimit \in Nat
      /\ Cardinality(Client) \in Nat
  BY FiniteCounts DEF CountInv
<1> QED BY <1>1 DEF CountInv, LimitAlmostHolds

\* A report goes from one of its SELECTs to the next.
LEMMA ReportStep ==
    ASSUME ReportTypes, UsageReport \/ ReadTasks \/ ReadTaskCost \/ ReadTiers \/ ReadAgents
                        \/ AnswerReport
    PROVE  ReportTypes'
<1> USE DEF ReportTypes
<1>1. CASE UsageReport
  <2> DEFINE total == Summed(Keys)
  <2>1. report' = [NoReport EXCEPT !.at = "tasks", !.total = total]
    BY <1>1 DEF UsageReport
  <2> HIDE DEF total
  <2> QED BY <2>1 DEF NoReport
<1>2. CASE AnswerReport
  BY <1>2 DEF AnswerReport, NoReport
<1>3. CASE ReadTasks
  BY <1>3 DEF ReadTasks, NoReport
<1>4. CASE ReadTaskCost
  BY <1>4 DEF ReadTaskCost, NoReport
<1>5. CASE ReadTiers
  BY <1>5 DEF ReadTiers, NoReport
<1>6. CASE ReadAgents
  BY <1>6 DEF ReadAgents, NoReport
<1> QED BY <1>1, <1>2, <1>3, <1>4, <1>5, <1>6

\* All together.
LEMMA UsageStep ==
    ASSUME UsageAssumption, UsageInv, [UsageNext]_usagevars
    PROVE  UsageInv'
<1> DEFINE Reading == UsageReport \/ ReadTasks \/ ReadTaskCost \/ ReadTiers \/ ReadAgents
                      \/ AnswerReport
<1>1. CASE Reading
  <2>1. UNCHANGED <<rows, fresh, writing, reporter>>
    BY <1>1 DEF UsageReport, ReadTasks, ReadTaskCost, ReadTiers, ReadAgents, AnswerReport
  <2> QED BY <1>1, <2>1, CountStep, ReportStep DEF Recording, UsageInv
<1>2. CASE UNCHANGED usagevars
  <2>1. Recording
    BY <1>2 DEF Recording, usagevars
  <2> QED BY <1>2, <2>1, CountStep DEF UsageInv, usagevars, ReportTypes
<1>3. CASE HourPasses \/ \E c \in Client : \/ RecordUsage(c) \/ CountRecent(c) \/ InsertEvent(c)
                                           \/ CommitEvent(c) \/ AuditEvent(c) \/ RecordFails(c)
  <2>1. writing' \in Client \cup {None} /\ report' = report
    BY <1>3 DEF UsageInv, HourPasses, RecordUsage, CountRecent, InsertEvent, CommitEvent,
      AuditEvent, RecordFails
  <2>2. CountInv'
    BY <1>3, CountStep DEF Recording, UsageInv
  <2> QED BY <2>1, <2>2 DEF UsageInv, ReportTypes
<1> QED BY <1>1, <1>2, <1>3 DEF UsageNext

\* usage.py's limit of reports an hour, counted without a lock, is passed by at
\* most one report of every other concurrent caller.
THEOREM LimitNearlyKept ==
    ASSUME UsageAssumption
    PROVE  UsageSpec => [](UsageTypeOK /\ LimitAlmostHolds)
<1>1. UsageInit => UsageInv
  BY CountBegins DEF UsageInit, UsageInv, ReportTypes, NoReport
<1>2. UsageInv /\ [UsageNext]_usagevars => UsageInv'
  BY UsageStep
<1>3. UsageInv => UsageTypeOK
  <2> SUFFICES ASSUME UsageInv PROVE UsageTypeOK
    OBVIOUS
  <2>1. Keys = 1 .. Len(rows)
    BY DEF UsageInv, CountInv, RowTypes, Keys
  <2> QED BY <2>1 DEF UsageInv, CountInv, RowTypes, Reporter, ReportTypes, UsageTypeOK
<1>4. UsageInv => LimitAlmostHolds
  BY CountLimits DEF UsageInv
<1> QED BY <1>1, <1>2, <1>3, <1>4, PTL DEF UsageSpec

-----------------------------------------------------------------------------
(* The code index *)

Now(f) == source[f].version

Tree == <<source, shut, clock, restored>>

Query == [at: {"idle", "walk", "parse", "store", "sweep"}, dirs: SUBSET Dirs,
          todo: SUBSET File, seen: SUBSET File, stale: SUBSET File,
          file: File \cup {None}, mtime: Index!Version, content: Index!Version \cup {None},
          raced: BOOLEAN, alone: BOOLEAN]

\* No file is newer than the mtime known of it, as long as no mtime came back, and one
\* that raced is older than the file.
NotNewer(mtime, raced, f) ==
    ~restored => mtime <= Now(f) /\ (raced => mtime < Now(f))

\* A row that was not raced has the content of its mtime: so where the mtime is that of
\* the file, the content is.
RowFits(row, f) ==
    /\ ~row.raced => row.content \in {row.mtime, None}
    /\ NotNewer(row.mtime, row.raced, f)

\* What a query is about to store is such a row.
QueryFits(q) ==
    /\ q.at \in {"parse", "store"} => q.file \in File /\ NotNewer(q.mtime, q.raced, q.file)
    /\ q.at = "parse" /\ ~q.raced => q.mtime = Now(q.file)
    /\ q.at = "store" /\ ~q.raced => q.content \in {q.mtime, None}
    /\ q.at \notin {"parse", "store"} => ~q.raced

Listed(f) == \E d \in Dirs \ shut : f \in d

\* A query that nobody disturbs has every file before or behind it, and the table
\* has the files behind it as they are; when it sweeps, all of them.
Thorough(q) ==
    /\ \A d \in Dirs \ shut : \A f \in d :
          source[f].state # "gone" => f \in q.seen \cup q.todo \/ d \in q.dirs
    /\ \A f \in q.seen \cup q.todo : source[f].state # "gone" /\ Listed(f)
    /\ q.at \in {"parse", "store"} => q.mtime = Now(q.file)
    /\ \A f \in q.seen :
          \/ q.at \in {"parse", "store"} /\ f = q.file
          \/ stored[f] # None /\ stored[f].mtime = Now(f)
    /\ q.at = "sweep" => /\ q.dirs = {} /\ q.todo = {} /\ q.stale \cap q.seen = {}
                         /\ \A f \in File : stored[f] # None => f \in q.seen \cup q.stale

Running(c) == query[c].at # "idle"

OnlyOne(c) == \A d \in Client : Running(d) => d = c

TableInv ==
    /\ source \in [File -> [version: Index!Version, state: {"there", "locked", "gone"}]]
    /\ clock \in Index!Version /\ \A f \in File : Now(f) <= clock
    /\ shut \subseteq Dirs /\ restored \in BOOLEAN
    /\ stored \in [File -> Index!Row \cup {None}]
    /\ \A f \in File : stored[f] # None => RowFits(stored[f], f)

IndexInv ==
    /\ TableInv
    /\ query \in [Client -> Query]
    /\ \A c \in Client : QueryFits(query[c])
    /\ \A c \in Client : Running(c) /\ query[c].alone => Thorough(query[c]) /\ OnlyOne(c)

LEMMA IndexBegins ==
    ASSUME Index!IndexAssumption, Index!IndexInit
    PROVE  IndexInv
<1>1. 0 \in Index!Version /\ 0 <= 0
  BY DEF Index!IndexAssumption, Index!Version
<1>2. TableInv
  BY <1>1 DEF Index!IndexInit, TableInv, Now
<1>3. Index!NoQuery \in Query /\ Index!NoQuery.at = "idle" /\ ~Index!NoQuery.raced
  BY <1>1 DEF Index!NoQuery, Query
<1>4. query = [c \in Client |-> Index!NoQuery]
  BY DEF Index!IndexInit
<1> QED BY <1>2, <1>3, <1>4 DEF IndexInv, QueryFits, Running

\* A query that is over, or fails.
LEMMA QueryEnds ==
    ASSUME Index!IndexAssumption, IndexInv, NEW c \in Client,
           query' = [query EXCEPT ![c] = Index!NoQuery], UNCHANGED <<Tree, stored>>
    PROVE  IndexInv'
<1>1. Index!NoQuery \in Query /\ Index!NoQuery.at = "idle" /\ ~Index!NoQuery.raced
  BY DEF Index!NoQuery, Query, Index!IndexAssumption, Index!Version
<1>2. \A d \in Client : query'[d] = IF d = c THEN Index!NoQuery ELSE query[d]
  BY DEF IndexInv
<1>3. query' \in [Client -> Query]
  BY <1>1 DEF IndexInv
<1>4. TableInv'
  BY DEF IndexInv, TableInv, RowFits, NotNewer, Now, Tree
<1>5. ASSUME NEW d \in Client PROVE QueryFits(query[d])'
  <2>1. CASE d = c
    BY <1>1, <1>2, <2>1 DEF QueryFits
  <2>2. CASE d # c
    BY <1>2, <2>2 DEF IndexInv, QueryFits, NotNewer, Now, Tree
  <2> QED BY <2>1, <2>2
<1>6. \A d \in Client : Running(d)' => d # c /\ Running(d) /\ query'[d] = query[d]
  BY <1>1, <1>2 DEF Running
<1>7. ASSUME NEW d \in Client, Running(d)', query'[d].alone
      PROVE  Thorough(query[d])' /\ OnlyOne(d)'
  <2>1. Thorough(query[d]) /\ OnlyOne(d) /\ query'[d] = query[d]
    BY <1>6, <1>7 DEF IndexInv
  <2>2. OnlyOne(d)'
    BY <1>6, <2>1 DEF OnlyOne
  <2>3. Thorough(query[d])'
    BY <2>1 DEF Thorough, Listed, Now, Tree
  <2> QED BY <2>2, <2>3
<1> QED BY <1>3, <1>4, <1>5, <1>7 DEF IndexInv

\* A step of a query that goes on: whoever runs beside it is not alone.
LEMMA QueryGoesOn ==
    ASSUME IndexInv, NEW c \in Client, Running(c), NEW q \in Query,
           query' = [query EXCEPT ![c] = q], q.at # "idle", q.alone = query[c].alone,
           UNCHANGED Tree, TableInv', QueryFits(q)',
           q.alone /\ Thorough(query[c]) => Thorough(q)'
    PROVE  IndexInv'
<1>1. \A d \in Client : query'[d] = IF d = c THEN q ELSE query[d]
  BY DEF IndexInv
<1>2. query' \in [Client -> Query]
  BY DEF IndexInv
<1>3. \A d \in Client : QueryFits(query[d])'
  <2> SUFFICES ASSUME NEW d \in Client PROVE QueryFits(query[d])'
    OBVIOUS
  <2>1. CASE d = c
    BY <1>1, <2>1 DEF QueryFits, RowFits, NotNewer, Now, Tree
  <2>2. CASE d # c
    BY <1>1, <2>2 DEF IndexInv, QueryFits, RowFits, NotNewer, Now, Tree
  <2> QED BY <2>1, <2>2
<1>4. \A d \in Client : Running(d)' <=> Running(d)
  BY <1>1 DEF Running
<1>5. ASSUME NEW d \in Client, Running(d)', query'[d].alone
      PROVE  Thorough(query[d])' /\ OnlyOne(d)'
  <2>1. query[d].alone
    BY <1>1, <1>5
  <2>2. Thorough(query[d]) /\ OnlyOne(d)
    BY <1>4, <1>5, <2>1 DEF IndexInv
  <2>3. d = c
    BY <2>2 DEF OnlyOne
  <2>4. OnlyOne(d)'
    BY <1>4, <2>2 DEF OnlyOne
  <2>5. Thorough(q)' /\ query'[d] = q
    BY <1>1, <1>5, <2>2, <2>3
  <2>6. Thorough(query[d])'
    BY <2>5 DEF Thorough, Listed, Now, Tree
  <2> QED BY <2>4, <2>6
<1> QED BY <1>2, <1>3, <1>5 DEF IndexInv

\* A query begins, and the others are alone no more.
LEMMA QueryBegins ==
    ASSUME Index!IndexAssumption, IndexInv, NEW c \in Client, Index!Ask(c)
    PROVE  IndexInv'
<1> DEFINE alone == \A e \in Client : ~Running(e)
<1>1a. alone \in BOOLEAN /\ Index!NoQuery \in Query
  BY DEF Index!NoQuery, Query, Index!IndexAssumption, Index!Version
<1>1b. query' = [d \in Client |->
          IF d = c THEN [Index!NoQuery EXCEPT !.at = "walk", !.dirs = Dirs, !.alone = alone]
          ELSE IF Running(d) THEN [query[d] EXCEPT !.alone = FALSE] ELSE query[d]]
  BY DEF Index!Ask, Index!Running, Running
<1> HIDE DEF alone
<1>1c. PICK first \in Query :
          first = [Index!NoQuery EXCEPT !.at = "walk", !.dirs = Dirs, !.alone = alone]
  BY <1>1a DEF Query
<1>1. /\ first.at = "walk" /\ first.dirs = Dirs /\ first.seen = {}
      /\ first.todo = {} /\ first.alone = alone /\ first.raced = FALSE
  BY <1>1a, <1>1c DEF Index!NoQuery
<1>2. \A d \in Client :
        query'[d] = IF d = c THEN first
                    ELSE IF Running(d) THEN [query[d] EXCEPT !.alone = FALSE] ELSE query[d]
  BY <1>1b, <1>1c
<1>3. query' = [d \in Client |-> query'[d]] /\ UNCHANGED <<Tree, stored>>
  BY <1>1b DEF Index!Ask, Index!treevars, Tree
<1>4. \A d \in Client : d # c =>
        /\ query'[d] \in Query /\ query'[d].at = query[d].at /\ query'[d].file = query[d].file
        /\ query'[d].mtime = query[d].mtime /\ query'[d].content = query[d].content
        /\ query'[d].raced = query[d].raced
        /\ Running(d) => query'[d].alone = FALSE
  <2> SUFFICES ASSUME NEW d \in Client, d # c
               PROVE  /\ query'[d] \in Query /\ query'[d].at = query[d].at
                      /\ query'[d].file = query[d].file /\ query'[d].mtime = query[d].mtime
                      /\ query'[d].content = query[d].content
                      /\ query'[d].raced = query[d].raced
                      /\ Running(d) => query'[d].alone = FALSE
    OBVIOUS
  <2>1. query[d] \in Query
    BY DEF IndexInv
  <2>2. CASE Running(d)
    <3>1. query'[d] = [query[d] EXCEPT !.alone = FALSE]
      BY <1>2, <2>2
    <3> QED BY <2>1, <3>1 DEF Query
  <2>3. CASE ~Running(d)
    BY <1>2, <2>1, <2>3
  <2> QED BY <2>2, <2>3
<1>5. query' \in [Client -> Query]
  BY <1>1, <1>2, <1>3, <1>4
<1>6. TableInv'
  BY <1>3 DEF IndexInv, TableInv, RowFits, NotNewer, Now, Tree
<1>7. \A d \in Client : QueryFits(query[d])'
  <2> SUFFICES ASSUME NEW d \in Client PROVE QueryFits(query[d])'
    OBVIOUS
  <2>1. CASE d = c
    BY <1>1, <1>2, <2>1 DEF QueryFits
  <2>2. CASE d # c
    BY <1>3, <1>4, <2>2 DEF IndexInv, QueryFits, RowFits, NotNewer, Now, Tree
  <2> QED BY <2>1, <2>2
<1>8. ASSUME NEW d \in Client, Running(d)', query'[d].alone
      PROVE  Thorough(query[d])' /\ OnlyOne(d)'
  <2>1. d = c
    BY <1>4, <1>8 DEF Running
  <2>2. \A e \in Client : ~Running(e)
    BY <1>1, <1>2, <1>8, <2>1 DEF alone
  <2>3. OnlyOne(d)'
    BY <1>4, <2>1, <2>2 DEF OnlyOne, Running
  <2>4. Thorough(query[d])'
    BY <1>1, <1>2, <1>3, <2>1 DEF Thorough, Index!IndexAssumption
  <2> QED BY <2>3, <2>4
<1> QED BY <1>5, <1>6, <1>7, <1>8 DEF IndexInv

LEMMA QueryWalks ==
    ASSUME Index!IndexAssumption, IndexInv, NEW c \in Client,
           \/ Index!ListDirectory(c) \/ Index!StatFile(c) \/ Index!ParseFile(c)
           \/ Index!FindStale(c)
    PROVE  IndexInv'
<1> DEFINE was == query[c]
<1>1. was \in Query /\ query \in [Client -> Query] /\ QueryFits(was)
  BY DEF IndexInv
<1>2. TableInv' /\ UNCHANGED <<Tree, stored>>
  BY DEF Index!ListDirectory, Index!StatFile, Index!ParseFile, Index!FindStale, Index!treevars,
    IndexInv, TableInv, RowFits, NotNewer, Now, Tree
<1>3. source \in [File -> [version: Index!Version, state: {"there", "locked", "gone"}]]
      /\ \A f \in File : Now(f) \in Nat /\ Now(f) \in Index!Version
  BY DEF IndexInv, TableInv, Now, Index!Version, Index!IndexAssumption
<1>4. CASE Index!ListDirectory(c)
  <2>1. PICK d \in was.dirs :
           query' = [query EXCEPT ![c].dirs = @ \ {d},
                                  ![c].todo = IF d \in shut THEN {}
                                               ELSE {f \in d : source[f].state # "gone"}]
    BY <1>4 DEF Index!ListDirectory
  <2>2. was.at = "walk" /\ was.todo = {}
    BY <1>4 DEF Index!ListDirectory
  <2> DEFINE rest == was.dirs \ {d}
             todo == IF d \in shut THEN {} ELSE {f \in d : source[f].state # "gone"}
  <2>4. rest \in SUBSET Dirs /\ todo \in SUBSET File
    BY <1>1 DEF Query, Index!IndexAssumption
  <2>4a. \A e \in was.dirs : e = d \/ e \in rest
    OBVIOUS
  <2>4b. \A f \in todo : source[f].state # "gone" /\ Listed(f)
    BY <1>1 DEF Query, Listed
  <2>4c. d \notin shut => \A f \in d : source[f].state # "gone" => f \in todo
    OBVIOUS
  <2> HIDE DEF rest, todo
  <2>4d. PICK q \in Query : q = [was EXCEPT !.dirs = rest, !.todo = todo]
    BY <1>1, <2>4 DEF Query
  <2>3. query' = [query EXCEPT ![c] = q]
    BY <1>1, <2>1, <2>4d DEF rest, todo
  <2>5. /\ q.at = "walk" /\ q.dirs = rest /\ q.todo = todo
        /\ q.seen = was.seen /\ q.alone = was.alone /\ q.raced = was.raced
    BY <1>1, <2>2, <2>4d DEF Query
  <2>6. Thorough(was) => Thorough(q)'
    BY <1>2, <2>2, <2>4a, <2>4b, <2>4c, <2>5 DEF Thorough, Listed, Now, Tree
  <2>7. QueryFits(q)'
    BY <1>1, <2>2, <2>5 DEF QueryFits
  <2> QED BY <1>2, <2>2, <2>3, <2>5, <2>6, <2>7, QueryGoesOn DEF Running
<1>5. CASE Index!StatFile(c)
  <2>1. PICK f \in was.todo :
           LET seen == [was EXCEPT !.todo = @ \ {f}, !.seen = @ \cup {f}] IN
           query' = [query EXCEPT ![c] =
              IF source[f].state = "gone" \/ (stored[f] # None /\ stored[f].mtime = source[f].version)
              THEN seen
              ELSE [seen EXCEPT !.at = "parse", !.file = f, !.mtime = source[f].version]]
    BY <1>5 DEF Index!StatFile
  <2>2. was.at = "walk" /\ f \in File
    BY <1>1, <1>5 DEF Index!StatFile, Query
  <2>3a. PICK seen \in Query : seen = [was EXCEPT !.todo = @ \ {f}, !.seen = @ \cup {f}]
    BY <1>1, <2>2 DEF Query
  <2>3. /\ seen.at = "walk" /\ seen.dirs = was.dirs
        /\ seen.todo = was.todo \ {f} /\ seen.seen = was.seen \cup {f}
        /\ seen.alone = was.alone /\ seen.raced = was.raced
    BY <1>1, <2>2, <2>3a DEF Query
  <2>3b. PICK now \in Index!Version : now = Now(f) /\ now \in Nat
    BY <1>3, <2>2
  <2>3c. \/ /\ source[f].state = "gone" \/ (stored[f] # None /\ stored[f].mtime = now)
            /\ query' = [query EXCEPT ![c] = seen]
         \/ query' = [query EXCEPT ![c] =
                        [seen EXCEPT !.at = "parse", !.file = f, !.mtime = now]]
    BY <2>1, <2>3a, <2>3b DEF Now
  <2>4. CASE (source[f].state = "gone" \/ (stored[f] # None /\ stored[f].mtime = now))
             /\ query' = [query EXCEPT ![c] = seen]
    <3>1. Thorough(was) => Thorough(seen)'
      BY <1>2, <2>2, <2>3, <2>3b, <2>4 DEF Thorough, Listed, Now, Tree
    <3>2. QueryFits(seen)'
      BY <1>1, <2>2, <2>3 DEF QueryFits
    <3> QED BY <1>2, <2>2, <2>3, <2>4, <3>1, <3>2, QueryGoesOn DEF Running
  <2>5. CASE query' = [query EXCEPT ![c] =
                          [seen EXCEPT !.at = "parse", !.file = f, !.mtime = now]]
    <3>1. PICK q \in Query : q = [seen EXCEPT !.at = "parse", !.file = f, !.mtime = now]
      BY <2>2, <2>3b DEF Query
    <3>2. query' = [query EXCEPT ![c] = q]
      BY <2>5, <3>1
    <3>3. /\ q.at = "parse" /\ q.dirs = seen.dirs /\ q.todo = seen.todo
          /\ q.seen = seen.seen /\ q.alone = seen.alone /\ q.raced = seen.raced /\ q.file = f /\ q.mtime = now
      BY <2>2, <2>3, <3>1 DEF Query
    <3>4. Thorough(was) => Thorough(q)'
      BY <1>2, <2>2, <2>3, <2>3b, <3>3 DEF Thorough, Listed, Now, Tree
    <3>5. ~q.raced
      BY <1>1, <2>2, <2>3, <3>3 DEF QueryFits
    <3>6. source' = source
      BY <1>2 DEF Tree
    <3>7. QueryFits(q)'
      BY <2>2, <2>3b, <3>3, <3>5, <3>6 DEF QueryFits, NotNewer, Now
    <3> QED BY <1>2, <2>2, <2>3, <3>2, <3>3, <3>4, <3>7, QueryGoesOn DEF Running
  <2> QED BY <2>3c, <2>4, <2>5
<1>6. CASE Index!ParseFile(c)
  <2>1. was.at = "parse"
    BY <1>6 DEF Index!ParseFile
  <2>2. PICK f \in File :
           f = was.file /\ NotNewer(was.mtime, was.raced, f) /\ (~was.raced => was.mtime = Now(f))
    BY <1>1, <2>1 DEF QueryFits
  <2>3. PICK content \in Index!Version \cup {None} :
           /\ content \in {Now(f), None}
           /\ query' = [query EXCEPT ![c].at = "store", ![c].content = content]
    BY <1>3, <1>6, <2>2 DEF Index!ParseFile, Now
  <2>4. PICK q \in Query : q = [was EXCEPT !.at = "store", !.content = content]
    BY <1>1 DEF Query
  <2>5. /\ q.at = "store" /\ q.dirs = was.dirs /\ q.todo = was.todo
        /\ q.seen = was.seen /\ q.alone = was.alone /\ q.raced = was.raced /\ q.file = f /\ q.mtime = was.mtime
        /\ q.content = content
    BY <1>1, <2>2, <2>4 DEF Query
  <2>5a. query' = [query EXCEPT ![c] = q]
    BY <1>1, <2>3, <2>4
  <2>6. Thorough(was) => Thorough(q)'
    BY <1>2, <2>1, <2>2, <2>5 DEF Thorough, Listed, Now, Tree
  <2>7. NotNewer(q.mtime, q.raced, f)'
    BY <1>2, <2>2, <2>5 DEF NotNewer, Now, Tree
  <2>8. ~q.raced => q.content \in {q.mtime, None}
    BY <2>2, <2>3, <2>5
  <2>9. QueryFits(q)'
    BY <2>5, <2>7, <2>8 DEF QueryFits, NotNewer, Now
  <2> QED BY <1>2, <2>1, <2>5, <2>5a, <2>6, <2>9, QueryGoesOn DEF Running
<1>7. CASE Index!FindStale(c)
  <2> DEFINE stale == {f \in File : stored[f] # None} \ was.seen
  <2>1. was.at = "walk" /\ was.dirs = {} /\ was.todo = {}
        /\ query' = [query EXCEPT ![c].at = "sweep", ![c].stale = stale]
    BY <1>7 DEF Index!FindStale
  <2>2. stale \in SUBSET File /\ stale \cap was.seen = {}
        /\ \A f \in File : stored[f] # None => f \in was.seen \cup stale
    OBVIOUS
  <2> HIDE DEF stale
  <2>2a. PICK q \in Query : q = [was EXCEPT !.at = "sweep", !.stale = stale]
    BY <1>1, <2>2 DEF Query
  <2>3. query' = [query EXCEPT ![c] = q]
    BY <1>1, <2>1, <2>2a
  <2>4. /\ q.at = "sweep" /\ q.dirs = was.dirs /\ q.todo = was.todo
        /\ q.seen = was.seen /\ q.alone = was.alone /\ q.raced = was.raced /\ q.stale = stale
    BY <1>1, <2>2a DEF Query
  <2>5. Thorough(was) => Thorough(q)'
    BY <1>2, <2>1, <2>2, <2>4 DEF Thorough, Listed, Now, Tree
  <2>6. QueryFits(q)'
    BY <1>1, <2>1, <2>4 DEF QueryFits
  <2> QED BY <1>2, <2>1, <2>3, <2>4, <2>5, <2>6, QueryGoesOn DEF Running
<1> QED BY <1>4, <1>5, <1>6, <1>7

LEMMA QueryStores ==
    ASSUME Index!IndexAssumption, IndexInv, NEW c \in Client,
           Index!ReplaceFileRows(c) \/ Index!DeleteFileRows(c)
    PROVE  IndexInv'
<1> DEFINE was == query[c]
<1>1. was \in Query /\ query \in [Client -> Query] /\ QueryFits(was)
  BY DEF IndexInv
<1>2. UNCHANGED Tree /\ TableInv
  BY DEF Index!ReplaceFileRows, Index!DeleteFileRows, Index!treevars, Tree, IndexInv
<1>3. ASSUME NEW f \in File, NEW row \in Index!Row \cup {None},
             stored' = [stored EXCEPT ![f] = row], row # None => RowFits(row, f)
      PROVE  /\ TableInv'
             /\ \A g \in File : stored'[g] = IF g = f THEN row ELSE stored[g]
  <2>1. \A g \in File : stored'[g] = IF g = f THEN row ELSE stored[g]
    BY <1>2, <1>3 DEF TableInv
  <2>2. stored' \in [File -> Index!Row \cup {None}]
    BY <1>2, <1>3 DEF TableInv
  <2>3. \A g \in File : stored'[g] # None => RowFits(stored'[g], g)
    BY <1>2, <1>3, <2>1 DEF TableInv
  <2> QED BY <1>2, <2>1, <2>2, <2>3 DEF TableInv, RowFits, NotNewer, Now, Tree
<1>4. CASE Index!ReplaceFileRows(c)
  <2>1. was.at = "store" /\ stored' = [stored EXCEPT ![was.file] =
                                          [mtime |-> was.mtime, content |-> was.content,
                                           raced |-> was.raced]]
        /\ query' = [query EXCEPT ![c].at = "walk", ![c].file = None, ![c].mtime = 0,
                                  ![c].content = None, ![c].raced = FALSE]
    BY <1>4 DEF Index!ReplaceFileRows
  <2>1a. was.mtime \in Index!Version /\ was.content \in Index!Version \cup {None}
         /\ was.raced \in BOOLEAN
    BY <1>1 DEF Query
  <2>1b. \A r \in Index!Row : r # None
    BY DEF Index!IndexAssumption
  <2>1c. PICK row \in Index!Row : row = [mtime |-> was.mtime, content |-> was.content,
                                           raced |-> was.raced]
    BY <2>1a DEF Index!Row
  <2>2. row = [mtime |-> was.mtime, content |-> was.content,
                                           raced |-> was.raced] /\ row # None
        /\ row.mtime = was.mtime /\ row.content = was.content /\ row.raced = was.raced
    BY <2>1b, <2>1c
  <2>3. PICK f \in File : f = was.file /\ RowFits(row, f)
    BY <1>1, <2>1, <2>2 DEF QueryFits, RowFits
  <2>3a. stored' = [stored EXCEPT ![f] = row]
    BY <2>1, <2>2, <2>3
  <2>4. TableInv' /\ \A g \in File : stored'[g] = IF g = f THEN row ELSE stored[g]
    BY <1>3, <2>3, <2>3a
  <2>4b. 0 \in Index!Version
    BY DEF Index!Version, Index!IndexAssumption
  <2>4a. PICK q \in Query :
            q = [was EXCEPT !.at = "walk", !.file = None, !.mtime = 0, !.content = None,
                            !.raced = FALSE]
    BY <1>1, <2>4b DEF Query
  <2>4c. ~q.raced
    BY <1>1, <2>4a DEF Query
  <2>5. query' = [query EXCEPT ![c] = q]
    BY <1>1, <2>1, <2>4a
  <2>6. /\ q.at = "walk" /\ q.dirs = was.dirs /\ q.todo = was.todo
        /\ q.seen = was.seen /\ q.alone = was.alone
    BY <1>1, <2>4a DEF Query
  <2>7. was.seen \subseteq File
    BY <1>1 DEF Query
  <2>8. Thorough(was) => Thorough(q)'
    <3> SUFFICES ASSUME Thorough(was) PROVE Thorough(q)'
      OBVIOUS
    <3>1. /\ was.mtime = Now(f)
          /\ \A g \in was.seen : g = f \/ (stored[g] # None /\ stored[g].mtime = Now(g))
      <4>1. was.mtime = Now(was.file)
        BY <2>1 DEF Thorough
      <4>2. \A g \in was.seen : g = was.file \/ (stored[g] # None /\ stored[g].mtime = Now(g))
        BY DEF Thorough
      <4> QED BY <2>3, <4>1, <4>2
    <3>2. \A g \in was.seen : stored'[g] # None /\ stored'[g].mtime = Now(g)
      BY <2>2, <2>4, <2>7, <3>1
    <3>3. source' = source /\ shut' = shut
      BY <1>2 DEF Tree
    <3>4. \A g \in was.seen : stored'[g] # None /\ stored'[g].mtime = Now(g)'
      BY <3>2, <3>3 DEF Now
    <3>5. /\ \A d \in Dirs \ shut' : \A g \in d :
                source'[g].state # "gone" => g \in q.seen \cup q.todo \/ d \in q.dirs
          /\ \A g \in q.seen \cup q.todo : source'[g].state # "gone" /\ Listed(g)'
      BY <2>6, <3>3 DEF Thorough, Listed
    <3> QED BY <2>6, <3>4, <3>5 DEF Thorough
  <2>9. QueryFits(q)'
    BY <2>4c, <2>6 DEF QueryFits
  <2> QED BY <1>2, <2>1, <2>4, <2>5, <2>6, <2>8, <2>9, QueryGoesOn DEF Running
<1>5. CASE Index!DeleteFileRows(c)
  <2>1. PICK f \in was.stale : /\ stored' = [stored EXCEPT ![f] = None]
                               /\ query' = [query EXCEPT ![c].stale = @ \ {f}]
    BY <1>5 DEF Index!DeleteFileRows
  <2>2. f \in File /\ was.at = "sweep"
    BY <1>1, <1>5 DEF Index!DeleteFileRows, Query
  <2>3. TableInv' /\ \A g \in File : stored'[g] = IF g = f THEN None ELSE stored[g]
    BY <1>3, <2>1, <2>2
  <2>3a. PICK q \in Query : q = [was EXCEPT !.stale = was.stale \ {f}]
    BY <1>1 DEF Query
  <2>4. query' = [query EXCEPT ![c] = q]
    BY <1>1, <2>1, <2>3a
  <2>5. /\ q.at = "sweep" /\ q.dirs = was.dirs /\ q.todo = was.todo
        /\ q.seen = was.seen /\ q.alone = was.alone /\ q.raced = was.raced /\ q.stale = was.stale \ {f}
    BY <1>1, <2>2, <2>3a DEF Query
  <2>6. was.seen \subseteq File
    BY <1>1 DEF Query
  <2>7. Thorough(was) => Thorough(q)'
    BY <1>2, <2>2, <2>3, <2>5, <2>6 DEF Thorough, Listed, Now, Tree
  <2>8. QueryFits(q)'
    BY <1>1, <2>2, <2>5 DEF QueryFits
  <2> QED BY <1>2, <2>2, <2>3, <2>4, <2>5, <2>7, <2>8, QueryGoesOn DEF Running
<1> QED BY <1>4, <1>5

Sources == [File -> [version: Index!Version, state: {"there", "locked", "gone"}]]

\* The tree changes: no query is alone, one that has yet to parse the file that changes
\* is raced, and a file only gets newer, unless an old one is restored.
LEMMA TreeChanges ==
    ASSUME Index!IndexAssumption, IndexInv, NEW g,
           query' = Index!Disturbed(g), stored' = stored, source' \in Sources,
           shut' \subseteq Dirs, clock' \in Index!Version, restored' \in BOOLEAN,
           \A f \in File : source'[f].version <= clock',
           \A f \in File : f # g => source'[f].version = source[f].version,
           ~restored' => ~restored /\ (g \in File => source[g].version < source'[g].version)
    PROVE  IndexInv'
<1>1. /\ query' \in [Client -> Query]
      /\ \A c \in Client :
            /\ query'[c].at = query[c].at /\ query'[c].file = query[c].file
            /\ query'[c].mtime = query[c].mtime /\ query'[c].content = query[c].content
            /\ query'[c].raced = (query[c].raced \/ (query[c].at = "parse" /\ query[c].file = g))
            /\ Running(c) => query'[c].alone = FALSE
  <2>1. ASSUME NEW c \in Client
        PROVE  /\ query'[c] \in Query
               /\ query'[c].at = query[c].at /\ query'[c].file = query[c].file
               /\ query'[c].mtime = query[c].mtime /\ query'[c].content = query[c].content
               /\ query'[c].raced = (query[c].raced \/ (query[c].at = "parse" /\ query[c].file = g))
               /\ Running(c) => query'[c].alone = FALSE
    <3>1. PICK q \in Query : q = query[c]
      BY DEF IndexInv
    <3>2. PICK raced \in BOOLEAN : raced = (q.raced \/ (q.at = "parse" /\ q.file = g))
      BY <3>1 DEF Query
    <3>3. PICK r : r = [q EXCEPT !.alone = FALSE, !.raced = raced]
      OBVIOUS
    <3>4. /\ r \in Query /\ r.at = q.at /\ r.file = q.file /\ r.mtime = q.mtime
          /\ r.content = q.content /\ r.alone = FALSE /\ r.raced = raced
      BY <3>1, <3>2, <3>3 DEF Query
    <3>5. query'[c] = IF Running(c) THEN r ELSE q
      <4>1. query'[c] = IF Running(c)
                        THEN [query[c] EXCEPT !.alone = FALSE,
                                !.raced = @ \/ (query[c].at = "parse" /\ query[c].file = g)]
                        ELSE query[c]
        BY DEF Index!Disturbed, Index!Running, Running
      <4>2. [query[c] EXCEPT !.alone = FALSE,
                             !.raced = @ \/ (query[c].at = "parse" /\ query[c].file = g)]
               = [query[c] EXCEPT !.alone = FALSE,
                    !.raced = query[c].raced \/ (query[c].at = "parse" /\ query[c].file = g)]
        BY Zenon
      <4>3. r = [query[c] EXCEPT !.alone = FALSE,
                    !.raced = query[c].raced \/ (query[c].at = "parse" /\ query[c].file = g)]
        BY <3>1, <3>2, <3>3
      <4> QED BY <3>1, <4>1, <4>2, <4>3
    <3>6. CASE Running(c)
      BY <3>1, <3>2, <3>4, <3>5, <3>6
    <3>7. CASE ~Running(c)
      <4>1. q.at = "idle" /\ query'[c] = q
        BY <3>1, <3>5, <3>7 DEF Running
      <4>2. raced = q.raced /\ q.raced \in BOOLEAN
        BY <3>1, <3>2, <4>1 DEF Query
      <4> QED BY <3>1, <3>2, <3>7, <4>1, <4>2
    <3> QED BY <3>6, <3>7
  <2>2. query' = [c \in Client |-> query'[c]]
    BY DEF Index!Disturbed
  <2> QED BY <2>1, <2>2
<1>2. \A f \in File : Now(f) \in Nat /\ source'[f].version \in Nat
  BY DEF IndexInv, TableInv, Now, Index!Version, Index!IndexAssumption, Sources
<1>3. ~restored' => ~restored /\ \A f \in File : Now(f) <= source'[f].version
  <2> SUFFICES ASSUME ~restored', NEW f \in File
               PROVE  ~restored /\ Now(f) <= source'[f].version
    OBVIOUS
  <2>1. CASE f = g
    BY <1>2, <2>1 DEF Now
  <2>2. CASE f # g
    BY <1>2, <2>2 DEF Now
  <2> QED BY <2>1, <2>2
<1>4. ASSUME NEW f \in File, NEW m \in Index!Version, NEW raced \in BOOLEAN, NotNewer(m, raced, f)
      PROVE  ~restored' => m <= source'[f].version /\ (raced => m < source'[f].version)
  <2>1. m \in Nat /\ Now(f) \in Nat /\ source'[f].version \in Nat
    BY <1>2 DEF Index!Version
  <2> QED BY <1>3, <1>4, <2>1 DEF NotNewer
<1>5. TableInv'
  <2>1. stored \in [File -> Index!Row \cup {None}]
    BY DEF IndexInv, TableInv
  <2>2. ASSUME NEW f \in File, stored[f] # None
        PROVE  RowFits(stored[f], f)'
    <3>1. PICK row \in Index!Row : row = stored[f]
      BY <2>1, <2>2
    <3>2. /\ ~row.raced => row.content \in {row.mtime, None}
          /\ NotNewer(row.mtime, row.raced, f)
      BY <2>2, <3>1 DEF IndexInv, TableInv, RowFits
    <3>3. row.mtime \in Index!Version /\ row.raced \in BOOLEAN
      BY DEF Index!Row
    <3>4. ~restored' => row.mtime <= source'[f].version /\ (row.raced => row.mtime < source'[f].version)
      BY <1>4, <3>2, <3>3
    <3>5. stored'[f] = row
      BY <3>1
    <3> QED BY <3>2, <3>4, <3>5 DEF RowFits, NotNewer, Now
  <2> QED BY <2>1, <2>2 DEF TableInv, Now, Sources
<1>6. ASSUME NEW c \in Client PROVE QueryFits(query[c])'
  <2>1. PICK q \in Query : q = query[c]
    BY DEF IndexInv
  <2>2. PICK r \in Query : r = query'[c]
    BY <1>1
  <2>3. /\ r.at = q.at /\ r.file = q.file /\ r.mtime = q.mtime /\ r.content = q.content
        /\ r.raced = (q.raced \/ (q.at = "parse" /\ q.file = g))
    BY <1>1, <2>1, <2>2
  <2>4. QueryFits(q) /\ q.mtime \in Index!Version /\ q.raced \in BOOLEAN /\ r.raced \in BOOLEAN
    BY <2>1, <2>2 DEF IndexInv, Query
  <2>5. QueryFits(r)'
    <3>1. CASE q.at = "parse"
      <4>1. PICK f \in File : f = q.file /\ NotNewer(q.mtime, q.raced, f)
        BY <2>4, <3>1 DEF QueryFits
      <4>2. ~restored' => q.mtime <= source'[f].version /\ (q.raced => q.mtime < source'[f].version)
        BY <1>4, <2>4, <4>1
      <4>3. ~restored' => (r.raced => q.mtime < source'[f].version)
        <5>1. ASSUME ~restored', f = g PROVE q.mtime < source'[f].version
          <6>1. q.mtime <= Now(f) /\ Now(f) < source'[f].version
            BY <4>1, <5>1 DEF NotNewer, Now
          <6>2. q.mtime \in Nat /\ Now(f) \in Nat /\ source'[f].version \in Nat
            BY <1>2, <2>4 DEF Index!Version
          <6> QED BY <6>1, <6>2
        <5> QED BY <2>3, <3>1, <4>1, <4>2, <5>1
      <4>4. ~r.raced => q.mtime = source'[f].version
        <5> SUFFICES ASSUME ~r.raced PROVE q.mtime = source'[f].version
          OBVIOUS
        <5>1. f # g /\ ~q.raced
          BY <2>3, <3>1, <4>1
        <5>2. q.mtime = Now(f)
          BY <2>4, <3>1, <4>1, <5>1 DEF QueryFits
        <5> QED BY <5>1, <5>2 DEF Now
      <4> QED BY <2>3, <3>1, <4>1, <4>2, <4>3, <4>4 DEF QueryFits, NotNewer, Now
    <3>2. CASE q.at = "store"
      <4>1. PICK f \in File : f = q.file /\ NotNewer(q.mtime, q.raced, f)
        BY <2>4, <3>2 DEF QueryFits
      <4>2. ~restored' => q.mtime <= source'[f].version /\ (q.raced => q.mtime < source'[f].version)
        BY <1>4, <2>4, <4>1
      <4>3. (r.raced <=> q.raced) /\ (~q.raced => q.content \in {q.mtime, None})
        BY <2>3, <2>4, <3>2 DEF QueryFits
      <4> QED BY <2>3, <3>2, <4>1, <4>2, <4>3 DEF QueryFits, NotNewer, Now
    <3>3. CASE q.at \notin {"parse", "store"}
      BY <2>3, <2>4, <3>3 DEF QueryFits
    <3> QED BY <3>1, <3>2, <3>3
  <2> QED BY <2>2, <2>5 DEF QueryFits, NotNewer, Now
<1>7. \A c \in Client : ~(Running(c)' /\ query'[c].alone)
  BY <1>1 DEF Running
<1> QED BY <1>1, <1>5, <1>6, <1>7 DEF IndexInv

LEMMA TreeStep ==
    ASSUME Index!IndexAssumption, IndexInv,
           (\E f \in File : Index!EditFile(f) \/ Index!RestoreFile(f) \/ Index!MoveFile(f))
              \/ Index!ShutDirectories
    PROVE  IndexInv'
<1> DEFINE next == clock + 1
<1>1. /\ source \in Sources /\ clock \in Index!Version /\ Index!Version \subseteq Nat
      /\ shut \subseteq Dirs /\ restored \in BOOLEAN
      /\ \A f \in File : source[f].version <= clock /\ source[f].version \in Nat
  BY DEF IndexInv, TableInv, Now, Sources, Index!Version, Index!IndexAssumption
<1>2. next \in Index!Version /\ next \in Nat /\ clock < next /\ clock' = next
  BY <1>1 DEF Index!EditFile, Index!RestoreFile, Index!MoveFile, Index!ShutDirectories,
    Index!Tick, Index!Version, Index!IndexAssumption
<1>3. stored' = stored /\ clock \in Nat
  BY <1>1 DEF Index!EditFile, Index!RestoreFile, Index!MoveFile, Index!ShutDirectories
<1>4. None \notin File
  BY DEF Index!IndexAssumption
<1>5. ASSUME NEW f \in File, Index!EditFile(f) PROVE IndexInv'
  <2>1. /\ source' = [source EXCEPT ![f] = [version |-> next, state |-> "there"]]
        /\ query' = Index!Disturbed(f) /\ shut' = shut /\ restored' = restored
    BY <1>5 DEF Index!EditFile
  <2> HIDE DEF next
  <2>2. source' \in Sources
        /\ \A h \in File : source'[h].version = IF h = f THEN next ELSE source[h].version
    BY <1>1, <1>2, <2>1 DEF Sources
  <2>3. \A h \in File : source'[h].version <= clock'
    BY <1>1, <1>2, <1>3, <2>2
  <2>4. source[f].version < source'[f].version
    BY <1>1, <1>2, <1>3, <2>2
  <2>5. restored' \in BOOLEAN
        /\ (~restored' => ~restored /\ (f \in File => source[f].version < source'[f].version))
    BY <1>1, <2>1, <2>4
  <2>6. \A h \in File : h # f => source'[h].version = source[h].version
    BY <2>2
  <2>7. shut' \subseteq Dirs /\ clock' \in Index!Version
    BY <1>1, <1>2, <2>1
  <2> QED BY <1>3, <2>1, <2>2, <2>3, <2>5, <2>6, <2>7, TreeChanges
<1>6. ASSUME NEW f \in File, Index!RestoreFile(f) PROVE IndexInv'
  <2>1. PICK v \in 0..clock :
           /\ source' = [source EXCEPT ![f] = [version |-> v, state |-> "there"]]
           /\ query' = Index!Disturbed(f) /\ shut' = shut /\ restored' = TRUE
    BY <1>6 DEF Index!RestoreFile
  <2>2. v \in Index!Version /\ v \in Nat /\ v <= clock
    BY <1>1 DEF Index!Version, Index!IndexAssumption
  <2> HIDE DEF next
  <2>3. source' \in Sources
        /\ \A h \in File : source'[h].version = IF h = f THEN v ELSE source[h].version
    BY <1>1, <2>1, <2>2 DEF Sources
  <2>4. \A h \in File : source'[h].version <= clock'
    BY <1>1, <1>2, <1>3, <2>2, <2>3
  <2>5. restored' \in BOOLEAN
        /\ (~restored' => ~restored /\ (f \in File => source[f].version < source'[f].version))
    BY <2>1
  <2>6. \A h \in File : h # f => source'[h].version = source[h].version
    BY <2>3
  <2>7. shut' \subseteq Dirs /\ clock' \in Index!Version
    BY <1>1, <1>2, <2>1
  <2> QED BY <1>3, <2>1, <2>3, <2>4, <2>5, <2>6, <2>7, TreeChanges
<1>7. ASSUME NEW f \in File, Index!MoveFile(f) PROVE IndexInv'
  <2>1. PICK s \in {"there", "locked", "gone"} : source' = [source EXCEPT ![f].state = s]
    BY <1>7 DEF Index!MoveFile
  <2>2. query' = Index!Disturbed(None) /\ shut' = shut /\ restored' = restored
    BY <1>7 DEF Index!MoveFile
  <2>3. source' \in Sources /\ \A h \in File : source'[h].version = source[h].version
    BY <1>1, <2>1 DEF Sources
  <2> HIDE DEF next
  <2>4. \A h \in File : source'[h].version <= clock'
    BY <1>1, <1>2, <1>3, <2>3
  <2> QED BY <1>1, <1>2, <1>3, <1>4, <2>2, <2>3, <2>4, TreeChanges
<1>8. ASSUME Index!ShutDirectories PROVE IndexInv'
  <2>1. /\ query' = Index!Disturbed(None) /\ shut' \subseteq Dirs /\ restored' = restored
        /\ source' = source
    BY <1>8 DEF Index!ShutDirectories
  <2> HIDE DEF next
  <2>2. \A h \in File : source'[h].version <= clock'
    BY <1>1, <1>2, <1>3, <2>1
  <2> QED BY <1>1, <1>2, <1>3, <1>4, <2>1, <2>2, TreeChanges
<1> QED BY <1>5, <1>6, <1>7, <1>8

LEMMA IndexStep ==
    ASSUME Index!IndexAssumption, IndexInv, [Index!IndexNext]_Index!indexvars
    PROVE  IndexInv'
<1>1. CASE UNCHANGED Index!indexvars
  BY <1>1 DEF Index!indexvars, Index!treevars, IndexInv, TableInv, QueryFits, RowFits, NotNewer,
    Thorough, Listed, OnlyOne, Running, Now
<1>2. ASSUME NEW c \in Client, Index!QuerySymbol(c) \/ Index!QueryDies(c)
      PROVE  IndexInv'
  BY <1>2, QueryEnds DEF Index!QuerySymbol, Index!QueryDies, Index!treevars, Tree
<1> QED BY <1>1, <1>2, QueryBegins, QueryWalks, QueryStores, TreeStep DEF Index!IndexNext

LEMMA IndexAnswers ==
    ASSUME Index!IndexAssumption, IndexInv
    PROVE  Index!AnswerIsTheTree
<1>1. ASSUME NEW f \in File, stored[f] # None
      PROVE  /\ ~stored[f].raced => stored[f].content \in {stored[f].mtime, None}
             /\ ~restored /\ stored[f].mtime = source[f].version =>
                   stored[f].content \in {source[f].version, None}
  <2>1. PICK row \in Index!Row : row = stored[f]
    BY <1>1 DEF IndexInv, TableInv
  <2>2. RowFits(row, f) /\ row.mtime \in Nat /\ row.raced \in BOOLEAN
    BY <1>1, <2>1 DEF IndexInv, TableInv, Index!Row, Index!Version
  <2>3. Now(f) \in Nat
    BY DEF IndexInv, TableInv, Index!Version, Now
  <2>4. ~restored /\ row.mtime = Now(f) => ~row.raced
    BY <2>2, <2>3 DEF RowFits, NotNewer
  <2> QED BY <2>1, <2>2, <2>4 DEF RowFits, Now
<1>2. ASSUME NEW c \in Client, query[c].at = "sweep", query[c].stale = {}, query[c].alone,
             NEW f \in File
      PROVE  /\ source[f].state = "there" /\ Listed(f) =>
                   stored[f] # None /\ stored[f].mtime = source[f].version
             /\ source[f].state = "gone" \/ ~Listed(f) => stored[f] = None
  <2>1. Thorough(query[c])
    BY <1>2 DEF IndexInv, Running
  <2>2. ASSUME source[f].state = "there", Listed(f)
        PROVE  stored[f] # None /\ stored[f].mtime = source[f].version
    <3>1. PICK d \in Dirs \ shut : f \in d
      BY <2>2 DEF Listed
    <3>2. f \in query[c].seen
      BY <1>2, <2>1, <2>2, <3>1 DEF Thorough
    <3> QED BY <1>2, <2>1, <3>2 DEF Thorough, Now
  <2>3. ASSUME source[f].state = "gone" \/ ~Listed(f)
        PROVE  stored[f] = None
    BY <1>2, <2>1, <2>3 DEF Thorough
  <2> QED BY <2>2, <2>3
<1>3. Index!RowsOfTheirMtime
  BY <1>1 DEF Index!RowsOfTheirMtime
<1>4. Index!RacedRowsGo
  BY <1>1 DEF Index!RacedRowsGo
<1>5. Index!AnswersAreCurrent
  BY <1>2 DEF Index!AnswersAreCurrent, Listed
<1> QED BY <1>3, <1>4, <1>5 DEF Index!AnswerIsTheTree

-----------------------------------------------------------------------------
(* Numbers and sequences *)

LEMMA LeastNumber ==
    ASSUME NEW T, T \subseteq Nat, T # {}
    PROVE  \E x \in T : \A y \in T : x <= y
<1>1. \E x \in T : \A y \in T : ~(<<y, x>> \in OpToRel(<, Nat))
  BY NatLessThanWellFounded, WFMin, Zenon
<1>2. PICK x \in T : \A y \in T : ~(<<y, x>> \in OpToRel(<, Nat))
  BY <1>1
<1>3. \A y \in T : ~(y < x)
  BY <1>2, Zenon DEF OpToRel
<1> QED BY <1>3

\* A set that holds 0, and with each number the next one, up to n.
LEMMA Climb ==
    ASSUME NEW n \in Nat, NEW T, 0 \in T, \A i \in 0..(n - 1) : i \in T => i + 1 \in T
    PROVE  \A i \in 0..n : i \in T
<1> DEFINE U == {i \in Nat : i \in 0..n /\ i \notin T}
<1> SUFFICES ASSUME U # {} PROVE FALSE
  OBVIOUS
<1>1. U \subseteq Nat
  OBVIOUS
<1>2. PICK m \in U : \A i \in U : m <= i
  BY <1>1, LeastNumber
<1>3. m \in 0..n /\ m \notin T /\ m # 0
  BY <1>2
<1>4. m - 1 \in 0..(n - 1) /\ (m - 1) + 1 = m /\ ~(m <= m - 1) /\ m - 1 \in Nat /\ m - 1 \in 0..n
  BY <1>3
<1>5. m - 1 \in T
  BY <1>2, <1>4
<1> QED BY <1>3, <1>4, <1>5

\* A sequence without repetition keeps that when something new is appended.
LEMMA AppendNew ==
    ASSUME NEW A, NEW s \in Seq(A), NEW x \in A
    PROVE  /\ Append(s, x) \in Seq(A) /\ Len(Append(s, x)) = Len(s) + 1
           /\ Dag!Range(Append(s, x)) = Dag!Range(s) \cup {x}
           /\ \A i \in 1..Len(s) : Append(s, x)[i] = s[i]
           /\ Append(s, x)[Len(s) + 1] = x
           /\ (Dag!IsInjective(s) /\ x \notin Dag!Range(s)) => Dag!IsInjective(Append(s, x))
<1> DEFINE t == Append(s, x)
<1>1. /\ Len(s) \in Nat /\ DOMAIN s = 1..Len(s)
      /\ t \in Seq(A) /\ Len(t) = Len(s) + 1 /\ DOMAIN t = 1..(Len(s) + 1)
      /\ \A i \in 1..Len(s) : t[i] = s[i]
      /\ t[Len(s) + 1] = x
  BY AppendProperties, LenProperties
<1> HIDE DEF t
<1>2. Dag!Range(t) = Dag!Range(s) \cup {x}
  BY <1>1 DEF Dag!Range
<1>3. (Dag!IsInjective(s) /\ x \notin Dag!Range(s)) => Dag!IsInjective(t)
  BY <1>1 DEF Dag!Range, Dag!IsInjective
<1> QED BY <1>1, <1>2, <1>3 DEF t

\* So do the rest of it and what is behind it without an element of it.
LEMMA QueueOn ==
    ASSUME NEW A, NEW s \in Seq(A), s # <<>>, NEW l \in Seq(A),
           Dag!IsInjective(s), Dag!IsInjective(l), Dag!Range(s) \cap Dag!Range(l) = {}
    PROVE  /\ Head(s) \in Dag!Range(s)
           /\ Tail(s) \o l \in Seq(A)
           /\ Dag!Range(Tail(s) \o l) = (Dag!Range(s) \ {Head(s)}) \cup Dag!Range(l)
           /\ Dag!IsInjective(Tail(s) \o l)
<1> DEFINE r == Tail(s)
           t == r \o l
<1>1. /\ Len(s) \in Nat \ {0} /\ DOMAIN s = 1..Len(s) /\ Head(s) = s[1]
      /\ r \in Seq(A) /\ Len(r) = Len(s) - 1
      /\ \A i \in 1..Len(r) : r[i] = s[i + 1]
  BY HeadTailProperties, LenProperties, EmptySeq
<1>2. /\ t \in Seq(A) /\ Len(t) = Len(r) + Len(l) /\ DOMAIN t = 1..(Len(r) + Len(l))
      /\ Len(l) \in Nat /\ DOMAIN l = 1..Len(l) /\ Len(r) \in Nat
      /\ \A i \in 1..(Len(r) + Len(l)) : t[i] = IF i <= Len(r) THEN r[i] ELSE l[i - Len(r)]
  BY <1>1, ConcatProperties, LenProperties
<1> HIDE DEF r, t
<1>3. Head(s) \in Dag!Range(s)
  BY <1>1 DEF Dag!Range
<1>4. \A i \in 1..Len(t) : \/ i <= Len(r) /\ i + 1 \in DOMAIN s /\ t[i] = s[i + 1]
                           \/ ~(i <= Len(r)) /\ i - Len(r) \in DOMAIN l /\ t[i] = l[i - Len(r)]
  <2> SUFFICES ASSUME NEW i \in 1..Len(t)
               PROVE  \/ i <= Len(r) /\ i + 1 \in DOMAIN s /\ t[i] = s[i + 1]
                      \/ ~(i <= Len(r)) /\ i - Len(r) \in DOMAIN l /\ t[i] = l[i - Len(r)]
    OBVIOUS
  <2>1. i \in Nat /\ i \in 1..(Len(r) + Len(l)) /\ t[i] = IF i <= Len(r) THEN r[i] ELSE l[i - Len(r)]
    BY <1>2
  <2>2. CASE i <= Len(r)
    <3>1. i \in 1..Len(r) /\ i + 1 \in DOMAIN s
      BY <2>1, <2>2, <1>1
    <3> QED BY <3>1, <2>1, <2>2, <1>1
  <2>3. CASE ~(i <= Len(r))
    <3>1. i - Len(r) \in DOMAIN l
      BY <2>1, <2>3, <1>2
    <3> QED BY <3>1, <2>1, <2>3
  <2> QED BY <2>2, <2>3
<1>5. Dag!IsInjective(t)
  <2> SUFFICES ASSUME NEW i \in 1..Len(t), NEW j \in 1..Len(t), t[i] = t[j] PROVE i = j
    BY <1>2 DEF Dag!IsInjective
  <2>1. CASE i <= Len(r) /\ j <= Len(r)
    <3>1. i + 1 = j + 1
      BY <2>1, <1>4 DEF Dag!IsInjective
    <3> QED BY <3>1
  <2>2. CASE ~(i <= Len(r)) /\ ~(j <= Len(r))
    <3>1. i - Len(r) = j - Len(r)
      BY <2>2, <1>4 DEF Dag!IsInjective
    <3> QED BY <3>1, <1>2
  <2>3. CASE i <= Len(r) /\ ~(j <= Len(r))
    <3>1. t[i] \in Dag!Range(s) /\ t[j] \in Dag!Range(l)
      BY <2>3, <1>4 DEF Dag!Range
    <3> QED BY <3>1
  <2>4. CASE ~(i <= Len(r)) /\ j <= Len(r)
    <3>1. t[j] \in Dag!Range(s) /\ t[i] \in Dag!Range(l)
      BY <2>4, <1>4 DEF Dag!Range
    <3> QED BY <3>1
  <2> QED BY <2>1, <2>2, <2>3, <2>4
<1>6. Dag!Range(t) = (Dag!Range(s) \ {Head(s)}) \cup Dag!Range(l)
  <2>1. \A i \in DOMAIN t : t[i] \in (Dag!Range(s) \ {Head(s)}) \cup Dag!Range(l)
    <3> SUFFICES ASSUME NEW i \in 1..Len(t) PROVE t[i] \in (Dag!Range(s) \ {Head(s)}) \cup Dag!Range(l)
      BY <1>2
    <3>1. CASE i <= Len(r)
      <4>1. i + 1 \in DOMAIN s /\ t[i] = s[i + 1] /\ 1 \in DOMAIN s /\ i + 1 # 1
        BY <3>1, <1>1, <1>2, <1>4
      <4>2. s[i + 1] # s[1]
        BY <4>1 DEF Dag!IsInjective
      <4> QED BY <4>1, <4>2, <1>1 DEF Dag!Range
    <3>2. CASE ~(i <= Len(r))
      BY <3>2, <1>4 DEF Dag!Range
    <3> QED BY <3>1, <3>2
  <2>2. \A i \in DOMAIN s : s[i] # Head(s) => i - 1 \in DOMAIN t /\ t[i - 1] = s[i]
    <3> SUFFICES ASSUME NEW i \in DOMAIN s, s[i] # Head(s) PROVE i - 1 \in DOMAIN t /\ t[i - 1] = s[i]
      OBVIOUS
    <3>1. i # 1 /\ i \in 1..Len(s)
      BY <1>1
    <3>2. i - 1 \in 1..Len(r) /\ (i - 1) + 1 = i
      BY <3>1, <1>1
    <3> QED BY <3>2, <1>1, <1>2
  <2>3. \A i \in DOMAIN l : i + Len(r) \in DOMAIN t /\ t[i + Len(r)] = l[i]
    BY <1>2
  <2> QED BY <2>1, <2>2, <2>3 DEF Dag!Range
<1> QED BY <1>2, <1>3, <1>5, <1>6 DEF r, t

-----------------------------------------------------------------------------
(* The orchestrator, for every dag of any nodes.                            *)

\* That there is a function as Listed declares it is shown place by place.
Added(S, s, k) == IF Nodes[k] \in S THEN Append(s, Nodes[k]) ELSE s

IsFirst(S, f) ==
    f = [k \in 0..Len(Nodes) |->
            IF k = 0 THEN <<>>
            ELSE IF Nodes[k] \in S THEN Append(f[k - 1], Nodes[k]) ELSE f[k - 1]]

LEMMA ListedExists ==
    ASSUME Dag!DagAssumption, NEW S
    PROVE  \E f : IsFirst(S, f)
<1> DEFINE Fits(g, j) == /\ g = [k \in 0..j |-> g[k]]
                         /\ g[0] = <<>>
                         /\ \A k \in 1..j : g[k] = Added(S, g[k - 1], k)
           T == {j \in Nat : \E g : Fits(g, j)}
<1>1. Len(Nodes) \in Nat
  BY LenProperties DEF Dag!DagAssumption
<1>2. 0 \in T
  <2> DEFINE g == [k \in 0..0 |-> <<>>]
  <2>1. Fits(g, 0)
    OBVIOUS
  <2> HIDE DEF g, Fits
  <2> QED BY <2>1
<1>3. ASSUME NEW i \in 0..(Len(Nodes) - 1), i \in T
      PROVE  i + 1 \in T
  <2>1. PICK g : Fits(g, i)
    BY <1>3
  <2> DEFINE h == [k \in 0..(i + 1) |-> IF k = i + 1 THEN Added(S, g[i], i + 1) ELSE g[k]]
  <2>2. h = [k \in 0..(i + 1) |-> h[k]] /\ h[0] = <<>>
    BY <2>1, <1>1
  <2>3. \A k \in 1..(i + 1) : h[k] = Added(S, h[k - 1], k)
    <3> SUFFICES ASSUME NEW k \in 1..(i + 1) PROVE h[k] = Added(S, h[k - 1], k)
      OBVIOUS
    <3>1. k - 1 \in 0..(i + 1) /\ k - 1 # i + 1 /\ h[k - 1] = g[k - 1] /\ k \in 0..(i + 1)
      BY <1>1
    <3>2. CASE k = i + 1
      BY <3>1, <3>2, <1>1
    <3>3. CASE k # i + 1
      <4>1. k \in 1..i /\ h[k] = g[k]
        BY <3>1, <3>3, <1>1
      <4> QED BY <4>1, <3>1, <2>1
    <3> QED BY <3>2, <3>3
  <2> HIDE DEF h
  <2>4. Fits(h, i + 1)
    BY <2>2, <2>3, Zenon
  <2>5. i + 1 \in Nat
    BY <1>1
  <2> HIDE DEF Fits
  <2> QED BY <2>4, <2>5
<1>4. PICK f : Fits(f, Len(Nodes))
  <2>1. Len(Nodes) \in 0..Len(Nodes)
    BY <1>1
  <2>2. \A i \in 0..Len(Nodes) : i \in T
    <3> HIDE DEF T
    <3> QED BY <1>1, <1>2, <1>3, Climb
  <2> HIDE DEF Fits
  <2> QED BY <2>1, <2>2
<1>5. \A k \in 0..Len(Nodes) : f[k] = IF k = 0 THEN <<>> ELSE Added(S, f[k - 1], k)
  BY <1>4, <1>1
<1> QED BY <1>4, <1>5, Zenon DEF Added, IsFirst

LEMMA ListedIs ==
    ASSUME Dag!DagAssumption, NEW S \in SUBSET Dag!Node
    PROVE  /\ Dag!Listed(S) \in Seq(Dag!Node) /\ Dag!IsInjective(Dag!Listed(S))
           /\ Dag!Range(Dag!Listed(S)) = S
<1> DEFINE F == CHOOSE f : IsFirst(S, f)
           Upto(k) == {Nodes[i] : i \in {j \in 1..k : Nodes[j] \in S}}
           T == {k \in 0..Len(Nodes) : /\ F[k] \in Seq(Dag!Node) /\ Dag!IsInjective(F[k])
                                       /\ Dag!Range(F[k]) = Upto(k)}
<1>1. /\ Len(Nodes) \in Nat /\ DOMAIN Nodes = 1..Len(Nodes)
      /\ \A i \in 1..Len(Nodes) : Nodes[i] \in Dag!Node
  BY LenProperties DEF Dag!DagAssumption
<1>2. IsFirst(S, F)
  BY ListedExists, Zenon
<1>3. Dag!Listed(S) = F[Len(Nodes)]
  BY Zenon DEF Dag!Listed, IsFirst
<1> HIDE DEF F
<1>4. F[0] = <<>> /\ \A k \in 1..Len(Nodes) : F[k] = Added(S, F[k - 1], k)
  <2>1. F[0] = <<>>
    BY <1>1, <1>2 DEF IsFirst
  <2>2. ASSUME NEW k \in 1..Len(Nodes)
        PROVE  F[k] = Added(S, F[k - 1], k)
    <3>1. k \in 0..Len(Nodes) /\ k # 0
      BY <1>1
    <3> QED BY <1>2, <3>1 DEF Added, IsFirst
  <2> QED BY <2>1, <2>2
<1>5. 0 \in T
  <2>1. Upto(0) = {} /\ 0 \in 0..Len(Nodes)
    BY <1>1
  <2> HIDE DEF Upto
  <2>2. <<>> \in Seq(Dag!Node) /\ DOMAIN <<>> = {}
    BY EmptySeq
  <2>3. Dag!IsInjective(<<>>) /\ Dag!Range(<<>>) = {}
    BY <2>2, Zenon DEF Dag!IsInjective, Dag!Range
  <2> QED BY <1>4, <2>1, <2>2, <2>3
<1>6. ASSUME NEW k \in 0..(Len(Nodes) - 1), k \in T
      PROVE  k + 1 \in T
  <2>1. k + 1 \in 1..Len(Nodes) /\ (k + 1) - 1 = k /\ k \in Nat /\ k + 1 \in 0..Len(Nodes)
    BY <1>1
  <2>2. F[k + 1] = Added(S, F[k], k + 1)
    BY <1>4, <2>1
  <2>3. CASE Nodes[k + 1] \in S
    <3>1. Upto(k + 1) = Upto(k) \cup {Nodes[k + 1]}
      BY <2>1, <2>3
    <3>2. Nodes[k + 1] \notin Upto(k)
      BY <2>1, <1>1 DEF Dag!DagAssumption, Dag!IsInjective
    <3>3. F[k + 1] = Append(F[k], Nodes[k + 1]) /\ Nodes[k + 1] \in Dag!Node
      BY <2>1, <2>2, <2>3, <1>1 DEF Added
    <3> HIDE DEF Upto
    <3>4. F[k] \in Seq(Dag!Node) /\ Dag!IsInjective(F[k]) /\ Dag!Range(F[k]) = Upto(k)
      BY <1>6
    <3>5. /\ F[k + 1] \in Seq(Dag!Node) /\ Dag!IsInjective(F[k + 1])
          /\ Dag!Range(F[k + 1]) = Upto(k) \cup {Nodes[k + 1]}
      BY <3>2, <3>3, <3>4, AppendNew
    <3> QED BY <3>1, <3>5, <2>1
  <2>4. CASE Nodes[k + 1] \notin S
    <3>1. Upto(k + 1) = Upto(k)
      BY <2>1, <2>4
    <3>2. F[k + 1] = F[k]
      BY <2>2, <2>4 DEF Added
    <3> HIDE DEF Upto
    <3> QED BY <3>1, <3>2, <1>6, <2>1
  <2> QED BY <2>3, <2>4
<1>7. Len(Nodes) \in T
  <2> HIDE DEF T
  <2>1. Len(Nodes) \in 0..Len(Nodes)
    BY <1>1
  <2> QED BY <2>1, <1>1, <1>5, <1>6, Climb
<1>8. Upto(Len(Nodes)) = S
  <2>1. \A n \in S : \E i \in 1..Len(Nodes) : Nodes[i] = n
    BY <1>1 DEF Dag!Node, Dag!Range
  <2> QED BY <2>1
<1> QED BY <1>3, <1>7, <1>8

-----------------------------------------------------------------------------
\* What is behind a node: its depends_on, theirs, and no more.
LEMMA BehindIs ==
    ASSUME NEW n \in Dag!Node, deps \in [Dag!Node -> SUBSET Dag!Node]
    PROVE  /\ Dag!Behind(n) \subseteq Dag!Node
           /\ deps[n] \subseteq Dag!Behind(n)
           /\ \A m \in Dag!Behind(n) : deps[m] \subseteq Dag!Behind(n)
           /\ \A R \in SUBSET Dag!Node :
                 (deps[n] \subseteq R /\ Dag!Closed(R)) => Dag!Behind(n) \subseteq R
<1> DEFINE All == Dag!Node \cup {Unknown}
<1>1. \A R \in SUBSET Dag!Node :
         (deps[n] \subseteq R /\ Dag!Closed(R)) => Dag!Behind(n) \subseteq R
  BY Zenon DEF Dag!Behind
<1>2. Dag!Closed(Dag!Node) /\ deps[n] \subseteq Dag!Node
  BY DEF Dag!Closed
<1>3. Dag!Behind(n) \subseteq Dag!Node
  BY <1>1, <1>2
<1>4. deps[n] \subseteq Dag!Behind(n)
  BY DEF Dag!Behind
<1>5. ASSUME NEW m \in Dag!Behind(n), NEW d \in deps[m]
      PROVE  d \in Dag!Behind(n)
  <2>1. m \in Dag!Node /\ d \in Dag!Node
    BY <1>3
  <2>2. ASSUME NEW R \in SUBSET All, deps[n] \subseteq R, Dag!Closed(R)
        PROVE  d \in R
    <3>1. m \in R
      BY <2>2 DEF Dag!Behind
    <3> QED BY <3>1, <2>1, <2>2 DEF Dag!Closed
  <2> QED BY <2>1, <2>2 DEF Dag!Behind
<1> QED BY <1>1, <1>3, <1>4, <1>5

\* What is behind what is behind a node is behind it.
LEMMA BehindBehind ==
    ASSUME NEW n \in Dag!Node, deps \in [Dag!Node -> SUBSET Dag!Node], NEW m \in Dag!Behind(n)
    PROVE  Dag!Behind(m) \subseteq Dag!Behind(n)
<1>1. /\ m \in Dag!Node /\ Dag!Behind(n) \subseteq Dag!Node
      /\ deps[m] \subseteq Dag!Behind(n) /\ Dag!Closed(Dag!Behind(n))
  BY BehindIs DEF Dag!Closed
<1> QED BY <1>1, BehindIs

\* The ids differ, so there are as many nodes as places.
LEMMA NodesCount ==
    ASSUME Dag!DagAssumption
    PROVE  /\ Len(Nodes) \in Nat /\ IsFiniteSet(Dag!Node) /\ Cardinality(Dag!Node) = Len(Nodes)
           /\ \A s \in Seq(Dag!Node) :
                 Dag!IsInjective(s) =>
                    /\ Len(s) \in Nat /\ Len(s) <= Len(Nodes)
                    /\ Len(s) = Len(Nodes) <=> Dag!Range(s) = Dag!Node
<1>1. ASSUME NEW s \in Seq(Dag!Node), Dag!IsInjective(s)
      PROVE  /\ Len(s) \in Nat /\ IsFiniteSet(Dag!Range(s)) /\ Cardinality(Dag!Range(s)) = Len(s)
             /\ Dag!Range(s) \subseteq Dag!Node
  <2>1. /\ Len(s) \in Nat /\ s \in [1..Len(s) -> Dag!Node] /\ DOMAIN s = 1..Len(s)
    BY LenProperties
  <2>2. IsFiniteSet(1..Len(s)) /\ Cardinality(1..Len(s)) = Len(s)
    BY <2>1, FS_Interval
  <2>3. s \in Bijection(1..Len(s), Dag!Range(s))
    BY <1>1, <2>1 DEF Bijection, Injection, Surjection, IsInjective, Dag!IsInjective, Dag!Range
  <2>4. ExistsBijection(1..Len(s), Dag!Range(s))
    BY <2>3 DEF ExistsBijection
  <2>5. Dag!Range(s) \subseteq Dag!Node
    BY <2>1 DEF Dag!Range
  <2> QED BY <2>1, <2>2, <2>4, <2>5, FS_Bijection
<1>2. /\ Len(Nodes) \in Nat /\ IsFiniteSet(Dag!Node) /\ Cardinality(Dag!Node) = Len(Nodes)
  BY <1>1 DEF Dag!DagAssumption, Dag!Node
<1>3. ASSUME NEW s \in Seq(Dag!Node), Dag!IsInjective(s)
      PROVE  /\ Len(s) \in Nat /\ Len(s) <= Len(Nodes)
             /\ Len(s) = Len(Nodes) <=> Dag!Range(s) = Dag!Node
  BY <1>1, <1>2, <1>3, FS_Subset
<1> QED BY <1>2, <1>3

\* Nodes that each depend on one of them: one of them is behind itself.
LEMMA CycleBehind ==
    ASSUME Dag!DagAssumption, deps \in [Dag!Node -> SUBSET Dag!Node],
           NEW S \in SUBSET Dag!Node, S # {}, \A m \in S : deps[m] \cap S # {}
    PROVE  \E n \in Dag!Node : n \in Dag!Behind(n)
<1> SUFFICES ASSUME \A n \in Dag!Node : n \notin Dag!Behind(n) PROVE FALSE
  OBVIOUS
<1> DEFINE Size(n) == Cardinality(Dag!Behind(n))
           T == {Size(n) : n \in S}
<1>1. \A n \in Dag!Node : /\ IsFiniteSet(Dag!Behind(n)) /\ Size(n) \in Nat
                          /\ Dag!Behind(n) \subseteq Dag!Node
  BY NodesCount, BehindIs, FS_Subset, FS_CardinalityType
<1>2. T \subseteq Nat /\ T # {}
  <2> HIDE DEF Size
  <2> QED BY <1>1
<1>3. PICK n \in S : \A m \in S : Size(n) <= Size(m)
  <2>1. PICK x \in T : \A y \in T : x <= y
    <3> HIDE DEF T
    <3> QED BY <1>2, LeastNumber
  <2> HIDE DEF Size
  <2> QED BY <2>1
<1>4. PICK m \in S : m \in deps[n]
  BY <1>3
<1>5. m \in Dag!Behind(n) /\ n \in Dag!Node /\ m \in Dag!Node
  BY <1>4, BehindIs
<1>6. Dag!Behind(m) \subseteq Dag!Behind(n) /\ m \notin Dag!Behind(m)
  BY <1>5, BehindBehind
<1>7. Size(m) <= Size(n) /\ Size(m) # Size(n)
  BY <1>1, <1>5, <1>6, FS_Subset
<1>8. Size(n) <= Size(m) /\ Size(n) \in Nat /\ Size(m) \in Nat
  BY <1>1, <1>3, <1>5
<1> HIDE DEF Size
<1> QED BY <1>7, <1>8

-----------------------------------------------------------------------------
\* No node has run: the order is still to be found, or there is none.
Fresh == turn = 1 /\ told = {} /\ \A n \in Dag!Node : result[n] = "none"

NamesKnown == \A n \in Dag!Node : Unknown \notin deps[n]

\* Some nodes wait for each other.
Stuck == \E S \in SUBSET Dag!Node : S # {} /\ \A m \in S : deps[m] \cap S # {}

\* The order has no node twice, and each behind what it depends on.
Before(i) == {order[j] : j \in 1..(i - 1)}
DagOrdered == Dag!IsInjective(order) /\ \A i \in 1..Len(order) : deps[order[i]] \subseteq Before(i)

\* The degree counts what is still missing, and the queue holds the nodes that miss nothing.
Placed == Dag!Range(order)
Queued == Dag!Range(ready)
Sorting ==
    /\ Dag!IsInjective(ready) /\ Queued \cap Placed = {}
    /\ \A m \in Dag!Node : /\ degree[m] = Cardinality(deps[m] \ Placed)
                           /\ m \in Placed \cup Queued <=> deps[m] \subseteq Placed

\* What has come of a node goes with what has come of those it depends on.
Outcomes ==
    \A n \in Dag!Node :
        /\ result[n] \in {"done", "error"} => \A d \in deps[n] : result[d] = "done"
        /\ result[n] = "skipped" => \E d \in deps[n] : result[d] \in {"error", "skipped"}
        /\ result[n] = "done" => <<n, "allow">> \in told

\* The nodes whose turn was have a result and a record, those whose turn comes have none.
Turns ==
    \A i \in 1..Len(order) :
        /\ i < turn => result[order[i]] # "none" /\ \E w \in {"allow", "error"} : <<order[i], w>> \in told
        /\ i > turn \/ (i = turn /\ at # "raised") => result[order[i]] = "none"

DagRunning ==
    /\ Len(order) = Len(Nodes) /\ Placed = Dag!Node
    /\ Turns /\ Outcomes
    /\ at = "except" => turn <= Len(order) /\ \A d \in deps[order[turn]] : result[d] = "done"
    /\ at = "returned" => turn > Len(order)

DagInv ==
    /\ Dag!DagTypeOK
    /\ at \in {"called", "sort", "refused"} => Fresh
    /\ at = "called" => order = <<>>
    /\ at = "refused" => ~NamesKnown \/ Stuck
    /\ at \notin {"called", "refused"} => NamesKnown /\ DagOrdered
    /\ at = "sort" => Sorting
    /\ at \in {"run", "except", "returned", "raised"} => DagRunning

LEMMA DagStarts == ASSUME Dag!DagAssumption, Dag!DagInit PROVE DagInv
<1>1. Len(Nodes) \in Nat
  BY NodesCount
<1>2. Dag!DagTypeOK
  BY <1>1, EmptySeq DEF Dag!DagInit, Dag!DagTypeOK
<1>3. Fresh
  BY DEF Dag!DagInit, Fresh
<1> QED BY <1>2, <1>3 DEF DagInv, Dag!DagInit

\* All that is behind a node is before it.
LEMMA BehindIsBefore ==
    ASSUME Dag!DagAssumption, Dag!DagTypeOK, deps \in [Dag!Node -> SUBSET Dag!Node], DagOrdered,
           NEW i \in 1..Len(order)
    PROVE  /\ order[i] \in Dag!Node
           /\ Dag!Behind(order[i]) \subseteq Before(i)
           /\ \A j \in 1..Len(order) : order[j] \in Before(i) => j < i
<1>1. Len(order) \in Nat /\ \A j \in 1..Len(order) : order[j] \in Dag!Node
  BY LenProperties, ElementOfSeq DEF Dag!DagTypeOK
<1>2. Before(i) \subseteq Dag!Node
  BY <1>1 DEF Before
<1>3. Dag!Closed(Before(i))
  <2> SUFFICES ASSUME NEW j \in 1..(i - 1) PROVE deps[order[j]] \subseteq Before(i)
    BY DEF Dag!Closed, Before
  <2>1. j \in 1..Len(order)
    BY <1>1
  <2>2. deps[order[j]] \subseteq Before(j)
    BY <2>1 DEF DagOrdered
  <2>3. Before(j) \subseteq Before(i)
    BY <1>1 DEF Before
  <2> QED BY <2>2, <2>3
<1>4. deps[order[i]] \subseteq Before(i)
  BY DEF DagOrdered
<1>5. ASSUME NEW j \in 1..Len(order), order[j] \in Before(i)
      PROVE  j < i
  <2>1. PICK k \in 1..(i - 1) : order[j] = order[k]
    BY <1>5 DEF Before
  <2>2. DOMAIN order = 1..Len(order) /\ k \in 1..Len(order)
    BY <1>1, LenProperties DEF Dag!DagTypeOK
  <2>3. j = k
    BY <2>1, <2>2 DEF DagOrdered, Dag!IsInjective
  <2> QED BY <2>3, <1>1
<1> QED BY <1>1, <1>2, <1>3, <1>4, <1>5, BehindIs

LEMMA DagFollows ==
    ASSUME Dag!DagAssumption, DagInv
    PROVE  Dag!DagTypeOK /\ Dag!DagIsFollowed
<1> USE DEF DagInv
<1>1. /\ Dag!DagTypeOK
      /\ NamesKnown => deps \in [Dag!Node -> SUBSET Dag!Node]
      /\ Len(order) \in Nat /\ \A j \in 1..Len(order) : order[j] \in Dag!Node
      /\ at \in {"called", "sort", "run", "except", "returned", "refused", "raised"}
  BY LenProperties, ElementOfSeq DEF Dag!DagTypeOK, NamesKnown
<1>2. CASE at \in {"called", "sort"}
  BY <1>2 DEF Dag!DagIsFollowed, Fresh
<1>3. CASE at = "refused"
  <2>1. ~Dag!Runnable
    <3>1. CASE ~NamesKnown
      BY <3>1 DEF NamesKnown, Dag!Runnable
    <3>2. CASE NamesKnown
      <4>1. Stuck
        BY <1>3, <3>2
      <4>2. \E n \in Dag!Node : n \in Dag!Behind(n)
        BY <4>1, <3>2, <1>1, CycleBehind DEF Stuck
      <4> QED BY <4>2 DEF Dag!Runnable
    <3> QED BY <3>1, <3>2
  <2> QED BY <2>1, <1>3 DEF Dag!DagIsFollowed, Fresh
<1>4. CASE at \in {"run", "except", "returned", "raised"}
  <2>1. /\ NamesKnown /\ DagOrdered /\ DagRunning
        /\ deps \in [Dag!Node -> SUBSET Dag!Node]
    BY <1>1, <1>4
  <2>2. \A n \in Dag!Node : \E i \in 1..Len(order) : n = order[i]
    <3>1. DOMAIN order = 1..Len(order)
      BY <1>1, LenProperties DEF Dag!DagTypeOK
    <3> QED BY <2>1, <3>1 DEF DagRunning, Placed, Dag!Range
  <2>3. \A i \in 1..Len(order) : /\ Dag!Behind(order[i]) \subseteq Before(i)
                                 /\ \A j \in 1..Len(order) : order[j] \in Before(i) => j < i
    BY <1>1, <2>1, BehindIsBefore
  <2>4. \A i, j \in 1..Len(order) : order[j] \in Dag!Behind(order[i]) => j < i
    BY <2>3
  <2>5. Dag!Runnable
    <3>1. \A n \in Dag!Node : n \notin Dag!Behind(n)
      BY <2>2, <2>4, <1>1
    <3> QED BY <3>1, <2>1 DEF Dag!Runnable, NamesKnown
  <2>6. ASSUME NEW n \in Dag!Node, result[n] \in {"done", "error"}
        PROVE  \A d \in Dag!Behind(n) : result[d] = "done"
    <3> DEFINE R == {d \in Dag!Node : result[d] = "done"}
    <3>1. deps[n] \subseteq R /\ Dag!Closed(R)
      BY <2>1, <2>6 DEF DagRunning, Outcomes, Dag!Closed
    <3>2. Dag!Behind(n) \subseteq R
      BY <2>1, <3>1, BehindIs
    <3> QED BY <3>2
  <2>7. ASSUME NEW n \in Dag!Node, result[n] = "skipped"
        PROVE  \E d \in Dag!Behind(n) : result[d] = "error"
    <3> DEFINE T == {i \in 1..Len(order) : /\ result[order[i]] = "skipped"
                                           /\ \A d \in Dag!Behind(order[i]) : result[d] # "error"}
    <3> SUFFICES ASSUME T # {} PROVE FALSE
      BY <2>2, <2>7
    <3>1. PICK i \in T : \A j \in T : i <= j
      <4>1. T \subseteq Nat
        BY <1>1
      <4> HIDE DEF T
      <4> QED BY <4>1, LeastNumber
    <3>2. PICK d \in deps[order[i]] : result[d] \in {"error", "skipped"}
      BY <1>1, <2>1, <3>1 DEF DagRunning, Outcomes
    <3>3. d \in Dag!Behind(order[i]) /\ d \in Dag!Node
      BY <1>1, <2>1, <3>1, <3>2, BehindIs
    <3>4. PICK j \in 1..Len(order) : d = order[j]
      BY <2>2, <3>3
    <3>5. j < i /\ result[order[j]] = "skipped"
      BY <2>4, <3>1, <3>2, <3>3, <3>4
    <3>6. ~(i <= j)
      BY <3>5, <1>1
    <3>7. j \notin T
      BY <3>1, <3>6
    <3>8. PICK e \in Dag!Behind(order[j]) : result[e] = "error"
      BY <3>5, <3>7
    <3>9. e \in Dag!Behind(order[i])
      BY <1>1, <2>1, <3>1, <3>3, <3>4, <3>8, BehindBehind
    <3> QED BY <3>1, <3>8, <3>9
  <2>8. ASSUME at = "returned", NEW n \in Dag!Node
        PROVE  result[n] # "none" /\ \E w \in {"allow", "error"} : <<n, w>> \in told
    <3>1. PICK i \in 1..Len(order) : n = order[i]
      BY <2>2
    <3>2. turn > Len(order) /\ turn \in Nat
      BY <2>1, <2>8, <1>1, NodesCount DEF DagRunning, Dag!DagTypeOK
    <3>3. i < turn
      BY <3>2, <1>1
    <3> QED BY <2>1, <3>1, <3>3 DEF DagRunning, Turns
  <2> QED BY <1>1, <1>4, <2>1, <2>4, <2>5, <2>6, <2>7, <2>8 DEF Dag!DagIsFollowed, DagRunning, Outcomes, Placed
<1> QED BY <1>1, <1>2, <1>3, <1>4

-----------------------------------------------------------------------------
\* The facts every step of the orchestrator starts from.
LEMMA DagFacts ==
    ASSUME Dag!DagAssumption, Dag!DagTypeOK
    PROVE  /\ Len(Nodes) \in Nat /\ IsFiniteSet(Dag!Node) /\ Cardinality(Dag!Node) = Len(Nodes)
           /\ Len(order) \in Nat /\ order \in [1..Len(order) -> Dag!Node] /\ DOMAIN order = 1..Len(order)
           /\ Placed \subseteq Dag!Node /\ Queued \subseteq Dag!Node
           /\ turn \in Nat
           /\ NamesKnown => \A n \in Dag!Node : deps[n] \in SUBSET Dag!Node
<1>1. Len(Nodes) \in Nat /\ IsFiniteSet(Dag!Node) /\ Cardinality(Dag!Node) = Len(Nodes)
  BY NodesCount
<1>2. /\ Len(order) \in Nat /\ order \in [1..Len(order) -> Dag!Node] /\ DOMAIN order = 1..Len(order)
      /\ ready \in [1..Len(ready) -> Dag!Node] /\ DOMAIN ready = 1..Len(ready)
  BY LenProperties DEF Dag!DagTypeOK
<1>3. Placed \subseteq Dag!Node /\ Queued \subseteq Dag!Node
  BY <1>2 DEF Placed, Queued, Dag!Range
<1>4. turn \in Nat
  BY <1>1 DEF Dag!DagTypeOK
<1>5. NamesKnown => \A n \in Dag!Node : deps[n] \in SUBSET Dag!Node
  BY DEF NamesKnown, Dag!DagTypeOK
<1> QED BY <1>1, <1>2, <1>3, <1>4, <1>5

\* A node has at most as many missing as there are nodes.
LEMMA MissingCount ==
    ASSUME Dag!DagAssumption, NEW D \in SUBSET Dag!Node, NEW P
    PROVE  IsFiniteSet(D \ P) /\ Cardinality(D \ P) \in 0..Len(Nodes)
<1>1. D \ P \in SUBSET Dag!Node
  OBVIOUS
<1>2. /\ IsFiniteSet(D \ P) /\ Cardinality(D \ P) \in Nat /\ Cardinality(D \ P) <= Len(Nodes)
      /\ Len(Nodes) \in Nat
  BY <1>1, NodesCount, FS_Subset, FS_CardinalityType
<1> QED BY <1>2

LEMMA SameCardinality == \A S : Dag!Cardinality(S) = Cardinality(S)
BY DEF Dag!Cardinality, Cardinality, Dag!IsFiniteSet, IsFiniteSet

LEMMA CheckNamesKeeps ==
    ASSUME Dag!DagAssumption, DagInv, Dag!CheckNames
    PROVE  DagInv'
<1> DEFINE Free == {n \in Dag!Node : deps[n] = {}}
<1>1. /\ Dag!DagTypeOK /\ Fresh /\ order = <<>> /\ at = "called"
      /\ UNCHANGED <<deps, order, turn, result, told>>
  BY DEF DagInv, Dag!CheckNames
<1>2. Fresh'
  BY <1>1 DEF Fresh
<1>3. CASE \E n \in Dag!Node : Unknown \in deps[n]
  <2>1. at' = "refused" /\ UNCHANGED <<degree, ready>>
    BY <1>3 DEF Dag!CheckNames
  <2>2. Dag!DagTypeOK'
    BY <1>1, <2>1 DEF Dag!DagTypeOK
  <2>3. ~NamesKnown'
    BY <1>1, <1>3 DEF NamesKnown
  <2> QED BY <1>1, <1>2, <2>1, <2>2, <2>3 DEF DagInv
<1>4. CASE ~(\E n \in Dag!Node : Unknown \in deps[n])
  <2>1. /\ at' = "sort" /\ degree' = [n \in Dag!Node |-> Cardinality(deps[n])]
        /\ ready' = Dag!Listed(Free)
    BY <1>4, SameCardinality DEF Dag!CheckNames
  <2>2. NamesKnown /\ \A n \in Dag!Node : deps[n] \in SUBSET Dag!Node
    BY <1>1, <1>4, DagFacts DEF NamesKnown
  <2>3. /\ ready' \in Seq(Dag!Node) /\ Dag!IsInjective(ready')
        /\ Dag!Range(ready') = Free
    BY <2>1, ListedIs
  <2>4. \A n \in Dag!Node : Cardinality(deps[n]) \in 0..Len(Nodes)
    <3> SUFFICES ASSUME NEW n \in Dag!Node PROVE Cardinality(deps[n]) \in 0..Len(Nodes)
      OBVIOUS
    <3>1. deps[n] \ {} = deps[n]
      OBVIOUS
    <3> QED BY <2>2, <3>1, MissingCount
  <2>5. Dag!DagTypeOK'
    BY <1>1, <2>1, <2>3, <2>4 DEF Dag!DagTypeOK
  <2>6. order' = <<>> /\ DOMAIN order' = {} /\ Len(order') = 0
    BY <1>1, EmptySeq
  <2>7. Placed' = {}
    BY <2>6 DEF Placed, Dag!Range
  <2>8. DagOrdered'
    BY <2>6 DEF DagOrdered, Dag!IsInjective
  <2>9. Sorting'
    <3>1. Queued' = Free
      BY <2>3 DEF Queued
    <3>2. \A m \in Dag!Node : degree'[m] = Cardinality(deps'[m] \ {}) /\ deps'[m] = deps[m]
      <4>1. \A m \in Dag!Node : deps[m] \ {} = deps[m]
        OBVIOUS
      <4> QED BY <1>1, <2>1, <4>1
    <3>3. \A m \in Dag!Node : m \in {} \cup Queued' <=> deps'[m] \subseteq {}
      BY <1>1, <3>1
    <3> QED BY <2>3, <2>7, <3>2, <3>3 DEF Sorting
  <2>10. NamesKnown'
    BY <1>1, <2>2 DEF NamesKnown
  <2> QED BY <1>2, <2>1, <2>5, <2>8, <2>9, <2>10 DEF DagInv
<1> QED BY <1>3, <1>4

LEMMA TakeReadyKeeps ==
    ASSUME Dag!DagAssumption, DagInv, Dag!TakeReady
    PROVE  DagInv'
<1>1. /\ Dag!DagTypeOK /\ Fresh /\ NamesKnown /\ DagOrdered /\ Sorting /\ at = "sort"
      /\ UNCHANGED <<deps, turn, at, result, told>>
  BY DEF DagInv, Dag!TakeReady
<1>2. PICK n : n = Head(ready)
  OBVIOUS
<1>3. PICK D : D = {m \in Dag!Dependents(n) : degree[m] = 1}
  OBVIOUS
<1>4. /\ ready # <<>> /\ order' = Append(order, n)
      /\ degree' = [m \in Dag!Node |-> IF m \in Dag!Dependents(n) THEN degree[m] - 1 ELSE degree[m]]
      /\ ready' = Tail(ready) \o Dag!Listed(D)
  BY <1>2, <1>3 DEF Dag!TakeReady
<1>5. /\ Placed \subseteq Dag!Node /\ Queued \subseteq Dag!Node
      /\ \A m \in Dag!Node : deps[m] \in SUBSET Dag!Node
      /\ Len(order) \in Nat /\ Len(Nodes) \in Nat
      /\ ready \in Seq(Dag!Node) /\ order \in Seq(Dag!Node)
      /\ degree \in [Dag!Node -> 0..Len(Nodes)]
  BY <1>1, DagFacts DEF Dag!DagTypeOK
<1>6. n \in Queued
  BY <1>2, <1>4, <1>5, HeadTailProperties, LenProperties, EmptySeq DEF Queued, Dag!Range
<1>7. n \in Dag!Node /\ n \notin Placed /\ deps[n] \subseteq Placed
  BY <1>1, <1>5, <1>6 DEF Sorting
<1>8. /\ order' \in Seq(Dag!Node) /\ Len(order') = Len(order) + 1
      /\ Placed' = Placed \cup {n}
      /\ \A i \in 1..Len(order) : order'[i] = order[i]
      /\ order'[Len(order) + 1] = n
      /\ Dag!IsInjective(order')
  BY <1>1, <1>4, <1>5, <1>7, AppendNew DEF Placed, DagOrdered
\* What is missing of a node that depends on this one is one less.
<1>9. \A m \in Dag!Node :
         /\ IsFiniteSet(deps[m] \ Placed) /\ Cardinality(deps[m] \ Placed) \in 0..Len(Nodes)
         /\ n \in deps[m] => /\ Cardinality(deps[m] \ (Placed \cup {n})) = Cardinality(deps[m] \ Placed) - 1
                             /\ Cardinality(deps[m] \ (Placed \cup {n})) \in 0..Len(Nodes)
         /\ n \notin deps[m] => deps[m] \ (Placed \cup {n}) = deps[m] \ Placed
  <2> SUFFICES ASSUME NEW m \in Dag!Node
               PROVE  /\ IsFiniteSet(deps[m] \ Placed) /\ Cardinality(deps[m] \ Placed) \in 0..Len(Nodes)
                      /\ n \in deps[m] => /\ Cardinality(deps[m] \ (Placed \cup {n})) = Cardinality(deps[m] \ Placed) - 1
                                          /\ Cardinality(deps[m] \ (Placed \cup {n})) \in 0..Len(Nodes)
                      /\ n \notin deps[m] => deps[m] \ (Placed \cup {n}) = deps[m] \ Placed
    OBVIOUS
  <2>1. IsFiniteSet(deps[m] \ Placed) /\ Cardinality(deps[m] \ Placed) \in 0..Len(Nodes)
    BY <1>5, MissingCount
  <2>2. ASSUME n \in deps[m]
        PROVE  Cardinality(deps[m] \ (Placed \cup {n})) = Cardinality(deps[m] \ Placed) - 1
    <3>1. deps[m] \ (Placed \cup {n}) = (deps[m] \ Placed) \ {n} /\ n \in deps[m] \ Placed
      BY <1>7, <2>2
    <3> QED BY <2>1, <3>1, FS_RemoveElement
  <2>3. Cardinality(deps[m] \ (Placed \cup {n})) \in 0..Len(Nodes)
    BY <1>5, MissingCount
  <2> QED BY <2>1, <2>2, <2>3
<1>10. D = {m \in Dag!Node : n \in deps[m] /\ deps[m] \subseteq Placed \cup {n}}
  <2> SUFFICES ASSUME NEW m \in Dag!Node, n \in deps[m]
               PROVE  degree[m] = 1 <=> deps[m] \subseteq Placed \cup {n}
    BY <1>3 DEF Dag!Dependents
  <2>1. degree[m] = Cardinality(deps[m] \ Placed) /\ IsFiniteSet(deps[m] \ Placed)
    BY <1>1, <1>9 DEF Sorting
  <2>2. degree[m] = 1 <=> \E x : deps[m] \ Placed = {x}
    BY <2>1, FS_Singleton
  <2>3. n \in deps[m] \ Placed
    BY <1>7
  <2> QED BY <2>2, <2>3
<1>11. D \in SUBSET Dag!Node /\ D \cap (Placed \cup Queued) = {}
  <2>1. \A m \in D : m \in Dag!Node /\ n \in deps[m]
    BY <1>10
  <2>2. \A m \in D : ~(deps[m] \subseteq Placed)
    BY <2>1, <1>7
  <2> QED BY <1>1, <2>1, <2>2 DEF Sorting
<1>12. /\ ready' \in Seq(Dag!Node) /\ Dag!IsInjective(ready')
       /\ Queued' = (Queued \ {n}) \cup D
  <2>1. /\ Dag!Listed(D) \in Seq(Dag!Node) /\ Dag!IsInjective(Dag!Listed(D))
        /\ Dag!Range(Dag!Listed(D)) = D
    BY <1>11, ListedIs
  <2>2. Dag!IsInjective(ready) /\ Dag!Range(ready) \cap D = {}
    BY <1>1, <1>11 DEF Sorting, Queued
  <2> QED BY <1>2, <1>4, <1>5, <2>1, <2>2, QueueOn DEF Queued
<1>13. DagOrdered'
  <2> SUFFICES ASSUME NEW i \in 1..Len(order')
               PROVE  deps'[order'[i]] \subseteq Before(i)'
    BY <1>8 DEF DagOrdered
  <2>1. i \in Nat /\ i <= Len(order) + 1
    BY <1>5, <1>8
  <2>2. Before(i)' = Before(i)
    <3>1. \A j \in 1..(i - 1) : order'[j] = order[j]
      BY <1>5, <1>8, <2>1
    <3> QED BY <3>1 DEF Before
  <2>3. CASE i = Len(order) + 1
    <3>1. Placed = Before(i)
      BY <1>5, <2>3, LenProperties DEF Placed, Before, Dag!Range
    <3> QED BY <1>1, <1>7, <1>8, <2>2, <2>3, <3>1
  <2>4. CASE i # Len(order) + 1
    <3>1. i \in 1..Len(order)
      BY <1>5, <2>1, <2>4
    <3> QED BY <1>1, <1>8, <2>2, <3>1 DEF DagOrdered
  <2> QED BY <2>3, <2>4
<1>14. Sorting'
  <2>1. Queued' \cap Placed' = {}
    BY <1>1, <1>8, <1>11, <1>12, <1>7 DEF Sorting
  <2>2. ASSUME NEW m \in Dag!Node
        PROVE  degree'[m] = Cardinality(deps'[m] \ Placed')
    <3>1. degree[m] = Cardinality(deps[m] \ Placed) /\ deps'[m] = deps[m]
      BY <1>1 DEF Sorting
    <3> QED BY <1>4, <1>8, <1>9, <3>1 DEF Dag!Dependents
  <2>3. ASSUME NEW m \in Dag!Node
        PROVE  m \in Placed' \cup Queued' <=> deps'[m] \subseteq Placed'
    <3>1. m \in Placed \cup Queued <=> deps[m] \subseteq Placed
      BY <1>1 DEF Sorting
    <3>2. m \in Placed' \cup Queued' <=> m \in Placed \cup Queued \cup D
      BY <1>6, <1>8, <1>12
    <3>3. m \in D <=> (n \in deps[m] /\ deps[m] \subseteq Placed \cup {n})
      BY <1>10
    <3>4. deps'[m] = deps[m] /\ Placed' = Placed \cup {n}
      BY <1>1, <1>8
    <3> QED BY <3>1, <3>2, <3>3, <3>4
  <2> QED BY <1>12, <2>1, <2>2, <2>3 DEF Sorting
<1>15. Dag!DagTypeOK'
  <2>1. degree' \in [Dag!Node -> 0..Len(Nodes)]
    <3>1. \A m \in Dag!Node : degree[m] = Cardinality(deps[m] \ Placed)
      BY <1>1 DEF Sorting
    <3>2. \A m \in Dag!Dependents(n) : degree[m] - 1 \in 0..Len(Nodes)
      BY <1>9, <3>1 DEF Dag!Dependents
    <3> QED BY <1>4, <1>5, <3>2
  <2> QED BY <1>1, <1>8, <1>12, <2>1 DEF Dag!DagTypeOK
<1>16. Fresh' /\ NamesKnown'
  BY <1>1 DEF Fresh, NamesKnown
<1> QED BY <1>1, <1>13, <1>14, <1>15, <1>16 DEF DagInv

LEMMA SortedKeeps ==
    ASSUME Dag!DagAssumption, DagInv, Dag!Sorted
    PROVE  DagInv'
<1>1. /\ Dag!DagTypeOK /\ Fresh /\ NamesKnown /\ DagOrdered /\ Sorting /\ at = "sort"
      /\ ready = <<>> /\ at' = IF Len(order) = Len(Nodes) THEN "run" ELSE "refused"
      /\ UNCHANGED <<deps, degree, ready, order, turn, result, told>>
  BY DEF DagInv, Dag!Sorted
<1>2. /\ Placed \subseteq Dag!Node
      /\ Len(order) = Len(Nodes) <=> Placed = Dag!Node
      /\ \A m \in Dag!Node : deps[m] \in SUBSET Dag!Node
      /\ order \in [1..Len(order) -> Dag!Node] /\ Len(order) \in Nat
  BY <1>1, DagFacts, NodesCount DEF Placed, DagOrdered, Dag!DagTypeOK
<1>3. Dag!DagTypeOK'
  BY <1>1 DEF Dag!DagTypeOK
<1>4. Fresh' /\ NamesKnown' /\ DagOrdered'
  BY <1>1 DEF Fresh, NamesKnown, DagOrdered, Before
<1>5. CASE Len(order) = Len(Nodes)
  <2>1. at' = "run" /\ Len(order') = Len(Nodes) /\ Placed' = Dag!Node
    BY <1>1, <1>2, <1>5 DEF Placed
  <2>2. Turns'
    <3> SUFFICES ASSUME NEW i \in 1..Len(order)
                 PROVE  ~(i < 1) /\ result[order[i]] = "none"
      BY <1>1 DEF Turns, Fresh
    <3> QED BY <1>1, <1>2 DEF Fresh
  <2>3. Outcomes'
    BY <1>4 DEF Outcomes, Fresh
  <2>4. DagRunning'
    BY <2>1, <2>2, <2>3 DEF DagRunning
  <2> QED BY <1>3, <1>4, <2>1, <2>4 DEF DagInv
<1>6. CASE Len(order) # Len(Nodes)
  <2>1. at' = "refused"
    BY <1>1, <1>6
  <2>2. Stuck
    <3> DEFINE S == Dag!Node \ Placed
    <3>1. S # {} /\ S \in SUBSET Dag!Node
      BY <1>2, <1>6
    <3>2. Queued = {}
      <4>1. DOMAIN ready = {}
        BY <1>1
      <4> QED BY <4>1 DEF Queued, Dag!Range
    <3>3. \A m \in S : deps[m] \cap S # {}
      BY <1>1, <1>2, <3>2 DEF Sorting
    <3> HIDE DEF S
    <3> QED BY <3>1, <3>3 DEF Stuck
  <2>3. Stuck'
    BY <1>1, <2>2 DEF Stuck
  <2> QED BY <1>3, <1>4, <2>1, <2>3 DEF DagInv
<1> QED BY <1>5, <1>6

-----------------------------------------------------------------------------
\* The facts a step of the run starts from; i is the turn.
LEMMA TurnFacts ==
    ASSUME Dag!DagAssumption, DagInv, at \in {"run", "except"}, turn <= Len(order)
    PROVE  /\ Dag!DagTypeOK /\ NamesKnown /\ DagOrdered /\ DagRunning
           /\ Len(Nodes) \in Nat /\ Len(order) = Len(Nodes) /\ turn \in 1..Len(order)
           /\ Dag!N \in Dag!Node /\ Dag!N = order[turn] /\ result[Dag!N] = "none"
           /\ \A i \in 1..Len(order) : order[i] \in Dag!Node /\ (order[i] = Dag!N => i = turn)
           /\ \A n \in Dag!Node : Dag!N \in deps[n] => result[n] = "none"
<1>1. Dag!DagTypeOK /\ NamesKnown /\ DagOrdered /\ DagRunning
  BY DEF DagInv
<1>2. /\ Len(Nodes) \in Nat /\ Len(order) = Len(Nodes) /\ turn \in 1..Len(order)
      /\ DOMAIN order = 1..Len(order)
      /\ \A i \in 1..Len(order) : order[i] \in Dag!Node
  <2>1. turn \in 1..(Len(Nodes) + 1) /\ Len(order) = Len(Nodes)
    BY <1>1 DEF DagRunning, Dag!DagTypeOK
  <2> QED BY <1>1, <2>1, DagFacts
<1>3. Dag!N \in Dag!Node /\ Dag!N = order[turn] /\ result[Dag!N] = "none"
  BY <1>1, <1>2 DEF Dag!N, DagRunning, Turns
<1>4. \A i \in 1..Len(order) : order[i] = Dag!N => i = turn
  BY <1>1, <1>2, <1>3 DEF DagOrdered, Dag!IsInjective
<1>5. \A n \in Dag!Node : Dag!N \in deps[n] => result[n] = "none"
  <2> SUFFICES ASSUME NEW n \in Dag!Node, Dag!N \in deps[n] PROVE result[n] = "none"
    OBVIOUS
  <2>1. PICK i \in 1..Len(order) : n = order[i]
    BY <1>1, <1>2 DEF DagRunning, Placed, Dag!Range
  <2>2. PICK j \in 1..(i - 1) : order[j] = Dag!N
    BY <1>1, <2>1 DEF DagOrdered, Before
  <2>3. j \in 1..Len(order) /\ j < i
    BY <1>2, <2>2
  <2>4. i > turn
    BY <1>2, <1>4, <2>2, <2>3
  <2> QED BY <1>1, <2>1, <2>4 DEF DagRunning, Turns
<1> QED BY <1>1, <1>2, <1>3, <1>4, <1>5

\* What the node whose turn it is depends on was before it.
LEMMA TurnBehind ==
    ASSUME Dag!DagAssumption, DagInv, at \in {"run", "except"}, turn <= Len(order)
    PROVE  \A d \in deps[Dag!N] : d # Dag!N /\ result[d] # "none"
<1> SUFFICES ASSUME NEW d \in deps[Dag!N] PROVE d # Dag!N /\ result[d] # "none"
  OBVIOUS
<1>1. /\ DagOrdered /\ DagRunning /\ Dag!N = order[turn] /\ turn \in 1..Len(order) /\ Len(order) \in Nat
      /\ \A i \in 1..Len(order) : order[i] = Dag!N => i = turn
  BY TurnFacts
<1>2. PICK j \in 1..(turn - 1) : d = order[j]
  BY <1>1 DEF DagOrdered, Before
<1>3. j \in 1..Len(order) /\ j < turn /\ j # turn
  BY <1>1, <1>2
<1> QED BY <1>1, <1>2, <1>3 DEF DagRunning, Turns

\* The node whose turn it is gets its result, and with its record the turn passes on;
\* without it the call raises.
LEMMA ResultKeeps ==
    ASSUME Dag!DagAssumption, DagInv, at \in {"run", "except"}, turn <= Len(order),
           NEW s \in {"done", "error", "skipped"}, NEW w \in {"allow", "error"},
           result' = [result EXCEPT ![Dag!N] = s],
           UNCHANGED <<deps, degree, ready, order>>,
           s \in {"done", "error"} => \A d \in deps[Dag!N] : result[d] = "done",
           s = "skipped" => \E d \in deps[Dag!N] : result[d] \in {"error", "skipped"},
           \/ told' = told \cup {<<Dag!N, w>>} /\ turn' = turn + 1 /\ at' = "run"
           \/ told' = told /\ turn' = turn /\ at' = "raised",
           s = "done" => at' = "run" /\ w = "allow"
    PROVE  DagInv'
<1>1. /\ Dag!DagTypeOK /\ NamesKnown /\ DagOrdered /\ DagRunning
      /\ Len(Nodes) \in Nat /\ Len(order) = Len(Nodes) /\ turn \in 1..Len(order)
      /\ Dag!N \in Dag!Node /\ Dag!N = order[turn] /\ result[Dag!N] = "none"
      /\ \A i \in 1..Len(order) : order[i] \in Dag!Node /\ (order[i] = Dag!N => i = turn)
      /\ \A n \in Dag!Node : Dag!N \in deps[n] => result[n] = "none"
  BY TurnFacts
<1>2. PICK k : k = Dag!N
  OBVIOUS
<1>3. /\ k \in Dag!Node /\ result'[k] = s /\ \A n \in Dag!Node : n # k => result'[n] = result[n]
      /\ \A n \in Dag!Node : n # k => result'[n] = result[n]
      /\ told \subseteq told'
  BY <1>1, <1>2 DEF Dag!DagTypeOK
<1>4. Dag!DagTypeOK'
  <2>1. result' \in [Dag!Node -> {"none", "done", "error", "skipped"}]
    BY <1>1 DEF Dag!DagTypeOK
  <2>2. told' \subseteq Dag!Node \X {"allow", "error"}
    BY <1>1 DEF Dag!DagTypeOK
  <2>3. turn' \in 1..(Len(Nodes) + 1)
    BY <1>1
  <2> QED BY <1>1, <2>1, <2>2, <2>3 DEF Dag!DagTypeOK
<1>5. NamesKnown' /\ DagOrdered'
  BY <1>1 DEF NamesKnown, DagOrdered, Before
<1>6. Outcomes'
  <2> SUFFICES ASSUME NEW n \in Dag!Node
               PROVE  /\ result'[n] \in {"done", "error"} => \A d \in deps[n] : result'[d] = "done"
                      /\ result'[n] = "skipped" => \E d \in deps[n] : result'[d] \in {"error", "skipped"}
                      /\ result'[n] = "done" => <<n, "allow">> \in told'
    BY DEF Outcomes
  <2>1. \A d \in deps[n] : d \in Dag!Node
    BY <1>1, DagFacts
  <2>2. CASE n = k
    <3>1. \A d \in deps[n] : d # k
      BY <1>2, <2>2, TurnBehind
    <3>2. s = "done" => <<n, "allow">> \in told'
      BY <1>2, <2>2
    <3> QED BY <1>2, <1>3, <2>1, <2>2, <3>1, <3>2
  <2>3. CASE n # k
    <3>1. result'[n] = result[n]
      BY <1>3, <2>3
    <3>2. result[n] # "none" => k \notin deps[n]
      BY <1>1, <1>2
    <3>3. /\ result[n] \in {"done", "error"} => \A d \in deps[n] : result[d] = "done"
          /\ result[n] = "skipped" => \E d \in deps[n] : result[d] \in {"error", "skipped"}
          /\ result[n] = "done" => <<n, "allow">> \in told
      BY <1>1 DEF DagRunning, Outcomes
    <3> QED BY <1>3, <2>1, <3>1, <3>2, <3>3
  <2> QED BY <2>2, <2>3
<1>7. Turns'
  <2> SUFFICES ASSUME NEW i \in 1..Len(order)
               PROVE  /\ i < turn' => result'[order[i]] # "none" /\ \E v \in {"allow", "error"} : <<order[i], v>> \in told'
                      /\ i > turn' \/ (i = turn' /\ at' # "raised") => result'[order[i]] = "none"
    BY DEF Turns
  <2>1. order[i] \in Dag!Node /\ (i # turn => order[i] # k)
    BY <1>1, <1>2
  <2>2. CASE i = turn
    <3>1. order[i] = k
      BY <1>1, <1>2, <2>2
    <3>2. at' = "run" => <<k, w>> \in told'
      BY <1>2
    <3>3. at' = "raised" => turn' = turn
      OBVIOUS
    <3>4. at' = "run" => turn' = turn + 1
      OBVIOUS
    <3> QED BY <1>1, <1>3, <2>2, <3>1, <3>2, <3>3, <3>4
  <2>3. CASE i # turn
    <3>1. result'[order[i]] = result[order[i]]
      BY <1>3, <2>1, <2>3
    <3>2. /\ i < turn => result[order[i]] # "none" /\ \E v \in {"allow", "error"} : <<order[i], v>> \in told
          /\ i > turn => result[order[i]] = "none"
      BY <1>1 DEF DagRunning, Turns
    <3>3. turn' \in {turn, turn + 1}
      OBVIOUS
    <3>4. (i < turn' => i < turn) /\ (i >= turn' => i > turn)
      BY <1>1, <2>3, <3>3
    <3>5. i > turn' \/ i = turn' => i > turn
      BY <1>1, <3>3, <3>4
    <3> QED BY <1>3, <3>1, <3>2, <3>4, <3>5
  <2> QED BY <2>2, <2>3
<1>8. DagRunning'
  BY <1>1, <1>6, <1>7 DEF DagRunning, Placed
<1> QED BY <1>4, <1>5, <1>8 DEF DagInv

LEMMA RunKeeps ==
    ASSUME Dag!DagAssumption, DagInv, Dag!SkipNode \/ Dag!RunNode \/ Dag!HandleFailure \/ Dag!DagReturns
    PROVE  DagInv'
<1>1. Dag!DagTypeOK
  BY DEF DagInv
<1>2. CASE Dag!SkipNode
  <2>1. /\ at = "run" /\ turn <= Len(order) /\ result' = [result EXCEPT ![Dag!N] = "skipped"]
        /\ UNCHANGED <<deps, degree, ready, order>>
        /\ \/ told' = told \cup {<<Dag!N, "error">>} /\ turn' = turn + 1 /\ at' = "run"
           \/ told' = told /\ turn' = turn /\ at' = "raised"
    BY <1>2 DEF Dag!SkipNode, Dag!Tell
  <2>2. \E d \in deps[Dag!N] : result[d] # "done"
    BY <1>2 DEF Dag!SkipNode, Dag!DepFailed
  <2>3. \A d \in deps[Dag!N] : result[d] # "none"
    BY <2>1, TurnBehind
  <2>4. \E d \in deps[Dag!N] : result[d] \in {"error", "skipped"}
    BY <2>1, <2>2, <2>3, TurnFacts, DagFacts DEF Dag!DagTypeOK
  <2> QED BY <2>1, <2>4, ResultKeeps
<1>3. CASE Dag!RunNode
  <2>1. /\ at = "run" /\ turn <= Len(order) /\ \A d \in deps[Dag!N] : result[d] = "done"
        /\ UNCHANGED <<deps, degree, ready, order>>
    BY <1>3 DEF Dag!RunNode, Dag!DepFailed
  <2>2. CASE /\ result' = [result EXCEPT ![Dag!N] = "done"]
             /\ told' = told \cup {<<Dag!N, "allow">>} /\ turn' = turn + 1 /\ at' = "run"
    BY <2>1, <2>2, ResultKeeps
  <2>3. CASE at' = "except" /\ UNCHANGED <<result, told, turn>>
    <3>1. /\ NamesKnown /\ DagOrdered /\ DagRunning /\ Dag!N = order[turn]
      BY <2>1, TurnFacts
    <3>2. Dag!DagTypeOK' /\ NamesKnown' /\ DagOrdered'
      BY <1>1, <2>1, <2>3, <3>1 DEF Dag!DagTypeOK, NamesKnown, DagOrdered, Before
    <3>3. Turns' /\ Outcomes' /\ Placed' = Placed
      BY <2>1, <2>3, <3>1 DEF DagRunning, Turns, Outcomes, Placed
    <3>4. DagRunning'
      BY <2>1, <2>3, <3>1, <3>3 DEF DagRunning
    <3> QED BY <2>3, <3>2, <3>4 DEF DagInv
  <2> QED BY <1>3, <2>1, <2>2, <2>3 DEF Dag!RunNode
<1>4. CASE Dag!HandleFailure
  <2>1. /\ at = "except" /\ result' = [result EXCEPT ![Dag!N] = "error"]
        /\ UNCHANGED <<deps, degree, ready, order>>
        /\ \/ told' = told \cup {<<Dag!N, "error">>} /\ turn' = turn + 1 /\ at' = "run"
           \/ told' = told /\ turn' = turn /\ at' = "raised"
    BY <1>4 DEF Dag!HandleFailure
  <2>2. turn <= Len(order) /\ \A d \in deps[Dag!N] : result[d] = "done"
    BY <2>1 DEF DagInv, DagRunning, Dag!N
  <2> QED BY <2>1, <2>2, ResultKeeps
<1>5. CASE Dag!DagReturns
  <2>1. /\ at = "run" /\ turn > Len(order) /\ at' = "returned"
        /\ UNCHANGED <<deps, degree, ready, order, turn, result, told>>
    BY <1>5 DEF Dag!DagReturns
  <2>2. NamesKnown /\ DagOrdered /\ DagRunning
    BY <2>1 DEF DagInv
  <2>3. Dag!DagTypeOK' /\ NamesKnown' /\ DagOrdered'
    BY <1>1, <2>1, <2>2 DEF Dag!DagTypeOK, NamesKnown, DagOrdered, Before
  <2>4. DagRunning'
    BY <2>1, <2>2 DEF DagRunning, Turns, Outcomes, Placed
  <2> QED BY <2>1, <2>3, <2>4 DEF DagInv
<1> QED BY <1>2, <1>3, <1>4, <1>5

LEMMA DagStays ==
    ASSUME DagInv, UNCHANGED <<deps, degree, ready, order, turn, at, result, told>>
    PROVE  DagInv'
<1>1. Dag!DagTypeOK' = Dag!DagTypeOK /\ Fresh' = Fresh /\ NamesKnown' = NamesKnown /\ Stuck' = Stuck
  BY DEF Dag!DagTypeOK, Fresh, NamesKnown, Stuck
<1>2. DagOrdered' = DagOrdered /\ Sorting' = Sorting
  BY DEF DagOrdered, Before, Sorting, Placed, Queued
<1>3. DagRunning' = DagRunning
  BY DEF DagRunning, Turns, Outcomes, Placed
<1> QED BY <1>1, <1>2, <1>3 DEF DagInv

LEMMA DagStep ==
    ASSUME Dag!DagAssumption, DagInv,
           Dag!DagNext \/ UNCHANGED <<deps, degree, ready, order, turn, at, result, told>>
    PROVE  DagInv'
BY CheckNamesKeeps, TakeReadyKeeps, SortedKeeps, RunKeeps, DagStays DEF Dag!DagNext

\* The orchestrator alone keeps to its dag, for all nodes and all dags of them.
THEOREM EveryDagIsFollowed ==
    ASSUME Dag!DagAssumption
    PROVE  Dag!DagInit /\ [][Dag!DagNext]_<<deps, degree, ready, order, turn, at, result, told>>
              => [](Dag!DagTypeOK /\ Dag!DagIsFollowed)
<1>1. Dag!DagInit => DagInv
  BY DagStarts
<1>2. DagInv /\ [Dag!DagNext]_<<deps, degree, ready, order, turn, at, result, told>> => DagInv'
  BY DagStep
<1>3. DagInv => Dag!DagTypeOK /\ Dag!DagIsFollowed
  BY DagFollows
<1> QED BY <1>1, <1>2, <1>3, PTL

-----------------------------------------------------------------------------
(* The choice of a model, for any amounts of memory and any catalog.        *)

RouteInv == Route!RouteTypeOK /\ Route!RouteFits

\* The one of some tiers that is the least in what f gives for a tier.
LEMMA LeastTier ==
    ASSUME NEW S, S # {}, NEW f, \A t \in S : f[t] \in Nat
    PROVE  \E t \in S : \A u \in S : f[t] <= f[u]
<1> DEFINE T == {f[t] : t \in S}
<1>1. T \subseteq Nat /\ T # {}
  OBVIOUS
<1>2. PICK x \in T : \A y \in T : x <= y
  <2> HIDE DEF T
  <2> QED BY <1>1, LeastNumber
<1> QED BY <1>2

\* Of any tiers there is one that is before all others.
LEMMA FirstIs ==
    ASSUME Route!RouteAssumption, Route!RouteTypeOK, NEW S \in SUBSET (DOMAIN catalog), S # {}
    PROVE  /\ Route!First(S) \in S
           /\ \A u \in S : /\ catalog[Route!First(S)].cloud => catalog[u].cloud
                           /\ catalog[u].cloud = catalog[Route!First(S)].cloud =>
                                  catalog[Route!First(S)].ram <= catalog[u].ram
<1>1. \A t \in S : /\ t \in Nat /\ catalog[t].cloud \in BOOLEAN
                   /\ catalog[t].ram \in Nat /\ catalog[t].price \in Nat
                   /\ catalog[t] \in Route!Tiers
  <2>1. DOMAIN catalog = 1..Len(catalog) /\ Len(catalog) \in Nat
        /\ \A t \in DOMAIN catalog : catalog[t] \in Route!Tiers
    BY LenProperties, ElementOfSeq DEF Route!RouteTypeOK
  <2>2. \A t \in S : t \in Nat /\ catalog[t] \in Route!Tiers
    BY <2>1
  <2>3. \A k \in Route!Tiers : k.cloud \in BOOLEAN /\ k.ram \in Nat /\ k.price \in Nat
    <3> SUFFICES ASSUME NEW k \in Route!Tiers PROVE k.cloud \in BOOLEAN /\ k.ram \in Nat /\ k.price \in Nat
      OBVIOUS
    <3>1. k.cloud \in BOOLEAN /\ k.ram \in Gigabytes /\ k.price \in {1, 2}
      BY DEF Route!Tiers
    <3>2. k.ram \in Nat
      BY <3>1 DEF Route!RouteAssumption
    <3>3. k.price \in Nat
      BY <3>1
    <3> QED BY <3>1, <3>2, <3>3
  <2> QED BY <2>2, <2>3
<1>2. PICK A \in SUBSET S : /\ A # {}
                            /\ \/ A = S /\ \A t \in S : catalog[t].cloud
                               \/ A = {t \in S : ~catalog[t].cloud}
  <2>1. CASE \A t \in S : catalog[t].cloud
    BY <2>1
  <2>2. CASE \E t \in S : ~catalog[t].cloud
    BY <2>2
  <2> QED BY <2>1, <2>2
<1>3. PICK b \in A : \A u \in A : catalog[b].ram <= catalog[u].ram
  <2> DEFINE f == [t \in S |-> catalog[t].ram]
  <2>1. \A t \in A : f[t] \in Nat /\ f[t] = catalog[t].ram
    BY <1>1, <1>2
  <2> HIDE DEF f
  <2>2. PICK t \in A : \A u \in A : f[t] <= f[u]
    BY <1>2, <2>1, LeastTier
  <2> QED BY <2>1, <2>2
<1> DEFINE B == {t \in A : catalog[t].ram = catalog[b].ram}
<1>4. PICK c \in B : \A u \in B : catalog[c].price <= catalog[u].price
  <2> DEFINE f == [t \in S |-> catalog[t].price]
  <2>1. \A t \in B : f[t] \in Nat /\ f[t] = catalog[t].price
    BY <1>1, <1>2
  <2>2. B # {}
    BY <1>3
  <2> HIDE DEF f, B
  <2>3. PICK t \in B : \A u \in B : f[t] <= f[u]
    BY <2>1, <2>2, LeastTier
  <2> QED BY <2>1, <2>3
<1> DEFINE C == {t \in B : catalog[t].price = catalog[c].price}
<1>5. PICK d \in C : \A u \in C : d <= u
  <2>1. C \subseteq Nat /\ C # {}
    BY <1>1, <1>2, <1>4
  <2> HIDE DEF C
  <2> QED BY <2>1, LeastNumber
<1>6. d \in S /\ \A u \in S \ {d} : Route!TierOrder(d, u)
  <2>1. d \in S /\ d \in A /\ d \in B /\ d \in C
    BY <1>2, <1>5
  <2> SUFFICES ASSUME NEW u \in S, u # d PROVE Route!TierOrder(d, u)
    BY <2>1
  <2>2. CASE u \notin A
    BY <1>1, <1>2, <2>1, <2>2 DEF Route!TierOrder
  <2>3. CASE u \in A
    <3>1. catalog[u].cloud = catalog[d].cloud
      BY <1>1, <1>2, <2>1, <2>3
    <3>2. catalog[d].ram = catalog[b].ram /\ catalog[b].ram <= catalog[u].ram
      BY <1>3, <2>1, <2>3
    <3>3. CASE u \notin B
      <4>1. catalog[d].ram < catalog[u].ram
        BY <1>1, <2>1, <2>3, <3>2, <3>3
      <4> QED BY <3>1, <4>1 DEF Route!TierOrder
    <3>4. CASE u \in B
      <4>1. catalog[u].ram = catalog[d].ram /\ catalog[d].price = catalog[c].price
            /\ catalog[c].price <= catalog[u].price
        BY <1>4, <2>1, <3>2, <3>4
      <4>2. CASE u \notin C
        <5>1. catalog[d].price < catalog[u].price
          BY <1>1, <2>1, <3>4, <4>1, <4>2
        <5> QED BY <3>1, <4>1, <5>1 DEF Route!TierOrder
      <4>3. CASE u \in C
        <5>1. catalog[u].price = catalog[d].price /\ d < u
          BY <1>1, <1>5, <2>1, <4>1, <4>3
        <5>2. catalog[u] = catalog[d]
          BY <1>1, <2>1, <3>1, <4>1, <5>1 DEF Route!Tiers
        <5> QED BY <5>1, <5>2 DEF Route!TierOrder
      <4> QED BY <4>2, <4>3
    <3> QED BY <3>3, <3>4
  <2> QED BY <2>2, <2>3
<1>7. PICK e : e = Route!First(S)
  OBVIOUS
<1>8. e \in S /\ \A u \in S \ {e} : Route!TierOrder(e, u)
  BY <1>6, <1>7 DEF Route!First
<1>9. ASSUME NEW u \in S
      PROVE  /\ catalog[e].cloud => catalog[u].cloud
             /\ catalog[u].cloud = catalog[e].cloud => catalog[e].ram <= catalog[u].ram
  <2>1. CASE u = e
    BY <1>1, <2>1
  <2>2. CASE u # e
    <3>1. Route!TierOrder(e, u)
      BY <1>8, <2>2
    <3> QED BY <1>1, <1>8, <3>1 DEF Route!TierOrder
  <2> QED BY <2>1, <2>2
<1> QED BY <1>7, <1>8, <1>9

LEMMA RouteBegins ==
    ASSUME Route!RouteAssumption, Route!RouteInit
    PROVE  RouteInv
<1>1. catalog \in Seq(Route!Tiers)
  BY DEF Route!RouteInit, Route!RouteAssumption
<1> QED BY <1>1 DEF RouteInv, Route!RouteInit, Route!NoDecision, Route!RouteTypeOK, Route!RouteFits

\* A request that is answered: what RouteFits says of the answer, one by one.
LEMMA RouteAnswers ==
    ASSUME Route!RouteAssumption, Route!RouteTypeOK, Route!RouteRequest
    PROVE  RouteInv'
<1>1. PICK r \in Route!Requests :
         LET eligible == Route!EligibleTiers(r.local)
             target == Route!Target(r, eligible)
             watchdog == r.free # None /\ catalog[target].ram > r.free IN
         decision' =
             IF eligible = {} THEN [Route!NoDecision EXCEPT !.request = r]
             ELSE [request |-> r, fallback |-> watchdog,
                   tier |-> IF watchdog THEN Route!Fallback(r, eligible) ELSE target,
                   forced |-> /\ r.local /\ r.preferred \in DOMAIN catalog
                              /\ catalog[r.preferred].cloud]
  BY DEF Route!RouteRequest
<1>2. PICK E : E = Route!EligibleTiers(r.local)
  OBVIOUS
<1>3. PICK target : target = Route!Target(r, E)
  OBVIOUS
<1>4. PICK watchdog \in BOOLEAN : watchdog <=> (r.free # None /\ catalog[target].ram > r.free)
  OBVIOUS
<1>5. PICK forced \in BOOLEAN :
         forced <=> (r.local /\ r.preferred \in DOMAIN catalog /\ catalog[r.preferred].cloud)
  OBVIOUS
<1>6. PICK tier : tier = IF watchdog THEN Route!Fallback(r, E) ELSE target
  OBVIOUS
<1>7. /\ UNCHANGED catalog
      /\ E = {} => decision' = [Route!NoDecision EXCEPT !.request = r]
      /\ E # {} => decision' = [request |-> r, fallback |-> watchdog, tier |-> tier, forced |-> forced]
  BY <1>1, <1>2, <1>3, <1>4, <1>5, <1>6 DEF Route!RouteRequest
<1>8. /\ E = {u \in DOMAIN catalog : r.local => ~catalog[u].cloud}
      /\ DOMAIN catalog \subseteq Nat /\ None \notin DOMAIN catalog
      /\ r.free \in Nat \cup {None} /\ r.local \in BOOLEAN
      /\ \A u \in DOMAIN catalog : catalog[u].ram \in Nat /\ catalog[u].cloud \in BOOLEAN
  <2>1. DOMAIN catalog = 1..Len(catalog) /\ Len(catalog) \in Nat
        /\ \A t \in DOMAIN catalog : catalog[t] \in Route!Tiers
    BY LenProperties, ElementOfSeq DEF Route!RouteTypeOK
  <2>2. E = {u \in DOMAIN catalog : r.local => ~catalog[u].cloud}
    BY <1>2 DEF Route!EligibleTiers
  <2>3. r.free \in Nat \cup {None} /\ r.local \in BOOLEAN
    BY DEF Route!Requests, Route!RouteAssumption
  <2>4. DOMAIN catalog \subseteq Nat /\ None \notin DOMAIN catalog
    BY <2>1 DEF Route!RouteAssumption
  <2>5. \A u \in DOMAIN catalog : catalog[u].ram \in Nat /\ catalog[u].cloud \in BOOLEAN
    BY <2>1 DEF Route!Tiers, Route!RouteAssumption
  <2> QED BY <2>2, <2>3, <2>4, <2>5
<1>9. CASE E = {}
  <2> DEFINE d == [Route!NoDecision EXCEPT !.request = r]
  <2>1. /\ d = [request |-> r, tier |-> None, fallback |-> FALSE, forced |-> FALSE]
        /\ decision' = d
    BY <1>7, <1>9 DEF Route!NoDecision
  <2> HIDE DEF d
  <2>2. Route!RouteTypeOK'
    BY <1>7, <2>1 DEF Route!RouteTypeOK
  <2>3. Route!RouteFits'
    BY <1>7, <1>8, <1>9, <2>1 DEF Route!RouteFits
  <2> QED BY <2>2, <2>3 DEF RouteInv
<1>10. CASE E # {}
  <2> DEFINE F == {u \in E : r.free = None \/ catalog[u].ram <= r.free}
  <2>1. E \in SUBSET (DOMAIN catalog)
    BY <1>8
  \* The target, before the watchdog.
  <2>2. /\ target \in E
        /\ r.preferred \in E => target = r.preferred
        /\ target \notin {r.preferred, r.default} =>
              \A u \in E : /\ catalog[target].cloud => catalog[u].cloud
                           /\ catalog[u].cloud = catalog[target].cloud => catalog[target].ram <= catalog[u].ram
    BY <1>3, <1>10, <2>1, FirstIs DEF Route!Target
  <2>3. ~watchdog => target \in F
    BY <1>4, <1>8, <2>2
  \* The watchdog: the first that fits, and if none does the first.
  <2>4. ASSUME watchdog
        PROVE  /\ tier \in E /\ target \notin F
               /\ F # {} => /\ tier \in F
                            /\ \A u \in F : /\ catalog[tier].cloud => catalog[u].cloud
                                            /\ catalog[u].cloud = catalog[tier].cloud =>
                                                   catalog[tier].ram <= catalog[u].ram
    <3>1. Route!Fitting(r, E) = F /\ target \notin F
      BY <1>4, <1>8, <2>2, <2>4 DEF Route!Fitting
    <3>2. tier = Route!First(IF F # {} THEN F ELSE E)
      BY <1>6, <2>4, <3>1 DEF Route!Fallback
    <3>3. F \in SUBSET (DOMAIN catalog)
      BY <2>1
    <3>4. CASE F # {}
      <4>1. tier = Route!First(F) /\ F \subseteq E
        BY <3>2, <3>4
      <4> HIDE DEF F
      <4> QED BY <3>1, <3>3, <3>4, <4>1, FirstIs
    <3>5. CASE F = {}
      <4>1. tier = Route!First(E)
        BY <3>2, <3>5
      <4> HIDE DEF F
      <4> QED BY <1>10, <2>1, <3>1, <3>5, <4>1, FirstIs
    <3> QED BY <3>4, <3>5
  <2>5. ~watchdog => tier = target
    BY <1>6
  <2>6. decision' = [request |-> r, fallback |-> watchdog, tier |-> tier, forced |-> forced]
    BY <1>7, <1>10
  <2>7. tier \in E /\ (F # {} => tier \in F)
    BY <2>2, <2>3, <2>4, <2>5
  <2>8. r.preferred \in F => tier = r.preferred /\ ~watchdog
    <3>1. F \subseteq E
      OBVIOUS
    <3> HIDE DEF F
    <3> QED BY <2>2, <2>4, <2>5, <3>1
  <2>9. tier \notin {r.preferred, r.default} =>
            \A u \in F : /\ catalog[tier].cloud => catalog[u].cloud
                         /\ catalog[u].cloud = catalog[tier].cloud => catalog[tier].ram <= catalog[u].ram
    <3>1. F \subseteq E
      OBVIOUS
    <3> HIDE DEF F
    <3> QED BY <2>2, <2>4, <2>5, <3>1
  <2>10. forced => r.preferred \notin E
    BY <1>5, <1>8
  <2>11. Route!RouteTypeOK'
    BY <1>7, <1>8, <2>1, <2>6, <2>7 DEF Route!RouteTypeOK
  <2>12. tier # None
    BY <1>8, <2>1, <2>7
  <2> DEFINE usable == {u \in DOMAIN catalog : r.local => ~catalog[u].cloud}
             fitting == {u \in usable : r.free = None \/ catalog[u].ram <= r.free}
  <2>13. usable = E /\ fitting = F
    BY <1>8
  <2>14. /\ tier = None <=> usable = {}
         /\ usable # {} =>
             /\ tier \in usable
             /\ fitting # {} => tier \in fitting
             /\ r.preferred \in fitting => tier = r.preferred /\ ~watchdog
             /\ tier \notin {r.preferred, r.default} =>
                   \A u \in fitting : /\ catalog[tier].cloud => catalog[u].cloud
                                      /\ catalog[u].cloud = catalog[tier].cloud =>
                                             catalog[tier].ram <= catalog[u].ram
             /\ forced => r.preferred \notin usable
    <3> HIDE DEF F, usable, fitting
    <3> QED BY <1>10, <2>7, <2>8, <2>9, <2>10, <2>12, <2>13
  <2>15. Route!RouteFits'
    BY <1>7, <2>6, <2>14 DEF Route!RouteFits
  <2> QED BY <2>11, <2>15 DEF RouteInv
<1> QED BY <1>9, <1>10

LEMMA RouteStep ==
    ASSUME Route!RouteAssumption, RouteInv, Route!RouteNext \/ UNCHANGED <<catalog, decision>>
    PROVE  RouteInv'
<1>1. Route!RouteTypeOK /\ Route!RouteFits
  BY DEF RouteInv
<1>2. CASE UNCHANGED <<catalog, decision>>
  BY <1>1, <1>2 DEF RouteInv, Route!RouteTypeOK, Route!RouteFits
<1>3. CASE Route!NextRequest
  <2>1. /\ decision' = [request |-> None, tier |-> None, fallback |-> FALSE, forced |-> FALSE]
        /\ UNCHANGED catalog
    BY <1>3 DEF Route!NextRequest, Route!NoDecision
  <2> QED BY <1>1, <2>1 DEF RouteInv, Route!RouteTypeOK, Route!RouteFits
<1> QED BY <1>1, <1>2, <1>3, RouteAnswers DEF Route!RouteNext

\* Whatever the catalog, the memory and the wishes: what a request is answered with
\* may be used, fits if any that may be used does, and is the preferred one if that
\* fits.
THEOREM EveryRouteFits ==
    ASSUME Route!RouteAssumption
    PROVE  Route!RouteSpec => [](Route!RouteTypeOK /\ Route!RouteFits)
<1>1. Route!RouteInit => RouteInv
  BY RouteBegins
<1>2. RouteInv /\ [Route!RouteNext]_(Route!routevars) => RouteInv'
  BY RouteStep DEF Route!routevars
<1>3. RouteInv => Route!RouteTypeOK /\ Route!RouteFits
  BY DEF RouteInv
<1> QED BY <1>1, <1>2, <1>3, PTL DEF Route!RouteSpec

-----------------------------------------------------------------------------
(* The memory, for any projects, scopes, sessions and words, any number of *)
(* facts and any limit.  A query knows that what it found by words is what *)
(* matched when it began, if the list was not cut; rows never change, so   *)
(* that stays so while others record.                                      *)

Stored == [word: Word, root: Memory!Roots, label: Label, pii: BOOLEAN]

\* What matched when the query began.
Matched == Memory!Matching(recall.root, recall.label, recall.word) \cap (1..recall.known)

\* What the words have found.
WordsInv ==
    /\ recall.label \in Label
    /\ recall.known <= Len(facts[place[recall.root]])
    /\ Memory!In(recall.lexical) \subseteq Matched
    /\ Memory!Cardinality(Matched) <= 2 * Limit => Memory!In(recall.lexical) = Matched

MemInv ==
    /\ Memory!MemTypeOK
    /\ \A r \in Memory!Roots : Len(facts[r]) <= MaxFacts
    /\ keeping.at # "idle" => keeping.label \in Label
    /\ recall.at # "idle" => WordsInv
    /\ Memory!RecallIsRight

LEMMA MemCardinality ==
    /\ \A S : Memory!IsFiniteSet(S) <=> IsFiniteSet(S)
    /\ \A S : Memory!Cardinality(S) = Cardinality(S)
BY DEF Memory!IsFiniteSet, IsFiniteSet, Memory!Cardinality, Cardinality

LEMMA MemAssumed ==
    ASSUME Memory!MemAssumption
    PROVE  IsFiniteSet(Root) /\ None \notin Root /\ Limit \in Nat /\ MaxFacts \in Nat
BY MemCardinality DEF Memory!MemAssumption

LEMMA ListIs ==
    ASSUME NEW T, NEW n \in Nat, NEW s \in [1..n -> T]
    PROVE  s \in Seq(T) /\ Len(s) = n /\ DOMAIN s = 1..n
OBVIOUS

LEMMA ShareSpan ==
    ASSUME NEW n \in Nat, n <= 61, NEW r \in 1..n
    PROVE  60 + r \in 61..121
OBVIOUS

-----------------------------------------------------------------------------
\* A ranking names some of the set, none of them twice, and all if they are few.
LEMMA RankedIs ==
    ASSUME Memory!MemAssumption, NEW S \in SUBSET (1..MaxFacts), NEW s \in Memory!Ranked(S)
    PROVE  /\ s \in Seq(1..MaxFacts) /\ DOMAIN s = 1..Len(s)
           /\ Memory!In(s) \subseteq S
           /\ Memory!Cardinality(S) <= 2 * Limit => Memory!In(s) = S
<1>1. Limit \in Nat /\ MaxFacts \in Nat
  BY MemAssumed
<1>2. IsFiniteSet(S) /\ Cardinality(S) \in Nat
  <2>1. IsFiniteSet(1..MaxFacts)
    BY <1>1, FS_Interval
  <2> QED BY <2>1, FS_Subset, FS_CardinalityType
<1> DEFINE n == IF Cardinality(S) < 2 * Limit THEN Cardinality(S) ELSE 2 * Limit
<1>3. n \in Nat /\ (Cardinality(S) <= 2 * Limit => n = Cardinality(S))
  BY <1>1, <1>2
<1>4. s \in [1..n -> S] /\ \A i, j \in 1..n : s[i] = s[j] => i = j
  BY MemCardinality DEF Memory!Ranked
<1> HIDE DEF n
<1>5. s \in Seq(1..MaxFacts) /\ Len(s) = n /\ DOMAIN s = 1..n
  <2>1. s \in [1..n -> 1..MaxFacts]
    BY <1>4
  <2>2. n \in Nat
    BY <1>3
  <2> QED BY <2>1, <2>2, ListIs
<1>6. Memory!In(s) \subseteq S
  BY <1>4, <1>5 DEF Memory!In
<1>7. ASSUME Cardinality(S) <= 2 * Limit PROVE S \subseteq Memory!In(s)
  <2>1. s \in Injection(1..n, S)
    BY <1>4, Fun_IsInj
  <2>2. Cardinality(1..n) = n
    BY <1>3, FS_Interval
  <2>3. s \in Surjection(1..n, S)
    BY <1>2, <1>3, <1>7, <2>1, <2>2, FS_Injection
  <2>4. \A i \in S : \E k \in 1..n : s[k] = i
    BY <2>3 DEF Surjection
  <2> QED BY <1>5, <2>4 DEF Memory!In
<1> QED BY <1>5, <1>6, <1>7, MemCardinality

LEMMA RankIs ==
    ASSUME NEW s \in Seq(1..MaxFacts), NEW i \in Memory!In(s)
    PROVE  Memory!Rank(s, i) \in 1..Len(s) /\ s[Memory!Rank(s, i)] = i
<1>1. \E k \in DOMAIN s : s[k] = i
  BY DEF Memory!In
<1>2. DOMAIN s = 1..Len(s)
  BY LenProperties
<1> QED BY <1>1, <1>2 DEF Memory!Rank

LEMMA ShareIs ==
    ASSUME NEW s \in Seq(1..MaxFacts), NEW i
    PROVE  /\ Memory!Share(s, i).n \in Nat /\ Memory!Share(s, i).d \in Nat
           /\ i \in Memory!In(s) => /\ Memory!Share(s, i).n = 1
                                    /\ Memory!Share(s, i).d = 60 + Memory!Rank(s, i)
                                    /\ Memory!Rank(s, i) \in 1..Len(s)
           /\ i \notin Memory!In(s) => Memory!Share(s, i).n = 0 /\ Memory!Share(s, i).d = 1
<1>1. CASE i \in Memory!In(s)
  <2>1. Memory!Share(s, i) = [n |-> 1, d |-> 60 + Memory!Rank(s, i)]
    BY <1>1 DEF Memory!Share
  <2>2. Memory!Rank(s, i) \in 1..Len(s) /\ Len(s) \in Nat
    BY <1>1, RankIs, LenProperties
  <2> QED BY <1>1, <2>1, <2>2
<1>2. CASE i \notin Memory!In(s)
  BY <1>2 DEF Memory!Share
<1> QED BY <1>1, <1>2

\* Nothing is above itself.
LEMMA AboveOthers ==
    ASSUME NEW a \in Seq(1..MaxFacts), NEW b \in Seq(1..MaxFacts),
           NEW i \in Memory!In(a) \cup Memory!In(b)
    PROVE  ~Memory!Above(a, b, i, i)
<1> DEFINE x == Memory!Score(a, b, i)
<1>1. x.n \in Nat /\ x.d \in Nat
  <2>1. /\ Memory!Share(a, i).n \in Nat /\ Memory!Share(a, i).d \in Nat
        /\ Memory!Share(b, i).n \in Nat /\ Memory!Share(b, i).d \in Nat
    BY ShareIs
  <2>2. /\ x.n = Memory!Share(a, i).n * Memory!Share(b, i).d + Memory!Share(b, i).n * Memory!Share(a, i).d
        /\ x.d = Memory!Share(a, i).d * Memory!Share(b, i).d
    BY DEF Memory!Score
  <2> HIDE DEF x
  <2> DEFINE an == Memory!Share(a, i).n
             ad == Memory!Share(a, i).d
             bn == Memory!Share(b, i).n
             bd == Memory!Share(b, i).d
  <2>3. an \in Nat /\ ad \in Nat /\ bn \in Nat /\ bd \in Nat
    BY <2>1
  <2>4. x.n = an * bd + bn * ad /\ x.d = ad * bd
    BY <2>2
  <2> HIDE DEF an, ad, bn, bd
  <2> QED BY <2>3, <2>4
<1>2. ~Memory!Earlier(a, b, i, i)
  <2>1. i \in Memory!In(a) => Memory!Rank(a, i) \in Nat
    BY RankIs, LenProperties
  <2>2. i \in Memory!In(b) => Memory!Rank(b, i) \in Nat
    BY RankIs, LenProperties
  <2> QED BY <2>1, <2>2 DEF Memory!Earlier
<1> HIDE DEF x
<1>3. ~(x.n * x.d > x.n * x.d)
  BY <1>1
<1> QED BY <1>2, <1>3 DEF Memory!Above, x

\* What both lists hold is above what one of them holds, in lists of up to 61.
LEMMA BothAboveOne ==
    ASSUME NEW A \in 61..121, NEW B \in 61..121, NEW C \in Nat, C >= 61
    PROVE  A * B < (A + B) * C /\ A * B \in Nat /\ (A + B) * C \in Nat
<1>1. A * B <= 121 * B /\ A * B <= 121 * A /\ A * B \in Nat
  <2>1. A * B <= 121 * B
    OBVIOUS
  <2>2. A * B <= 121 * A
    OBVIOUS
  <2> QED BY <2>1, <2>2
<1>2. (A + B) * 61 <= (A + B) * C /\ (A + B) * C \in Nat
  OBVIOUS
<1>3. A * B < (A + B) * 61
  BY <1>1
<1> QED BY <1>1, <1>2, <1>3

LEMMA AboveBoth ==
    ASSUME NEW a \in Seq(1..MaxFacts), NEW b \in Seq(1..MaxFacts), Len(a) <= 61, Len(b) <= 61,
           NEW i \in Memory!In(a) \cap Memory!In(b),
           NEW j \in Memory!In(a) \cup Memory!In(b), Memory!Above(a, b, j, i)
    PROVE  j \in Memory!In(a) \cap Memory!In(b)
<1> DEFINE A == 60 + Memory!Rank(a, i)
           B == 60 + Memory!Rank(b, i)
           x == Memory!Score(a, b, j)
           y == Memory!Score(a, b, i)
<1>1. A \in 61..121 /\ B \in 61..121
  <2>1. Memory!Rank(a, i) \in 1..Len(a) /\ Memory!Rank(b, i) \in 1..Len(b)
    BY RankIs
  <2>2. Len(a) \in Nat /\ Len(b) \in Nat
    BY LenProperties
  <2>3. A \in 61..121
    BY <2>1, <2>2, ShareSpan
  <2>4. B \in 61..121
    BY <2>1, <2>2, ShareSpan
  <2> QED BY <2>3, <2>4
<1>2. y.n = A + B /\ y.d = A * B
  <2>1. /\ Memory!Share(a, i).n = 1 /\ Memory!Share(a, i).d = A
        /\ Memory!Share(b, i).n = 1 /\ Memory!Share(b, i).d = B
    BY ShareIs
  <2> HIDE DEF A, B
  <2> QED BY <1>1, <2>1 DEF Memory!Score
<1>3. ASSUME NEW C \in Nat, C >= 61, x.n = 1, x.d = C PROVE FALSE
  <2>1. A * B < (A + B) * C /\ A * B \in Nat /\ (A + B) * C \in Nat
    BY <1>1, <1>3, BothAboveOne
  <2>2. x.n * y.d = A * B /\ y.n * x.d = (A + B) * C
    <3> HIDE DEF A, B, x, y
    <3> QED BY <1>2, <1>3, <2>1
  <2>3. x.n * y.d > y.n * x.d \/ x.n * y.d = y.n * x.d
    BY DEF Memory!Above
  <2> HIDE DEF A, B, x, y
  <2> QED BY <2>1, <2>2, <2>3
<1>4. CASE j \notin Memory!In(a)
  <2>1. /\ Memory!Share(a, j).n = 0 /\ Memory!Share(a, j).d = 1
        /\ Memory!Share(b, j).n = 1 /\ Memory!Share(b, j).d = 60 + Memory!Rank(b, j)
        /\ Memory!Rank(b, j) \in 1..Len(b) /\ Len(b) \in Nat
    BY <1>4, ShareIs, LenProperties
  <2>2. x.n = 1 /\ x.d = 60 + Memory!Rank(b, j)
    BY <2>1 DEF Memory!Score
  <2> HIDE DEF x
  <2> QED BY <1>3, <2>1, <2>2
<1>5. CASE j \notin Memory!In(b)
  <2>1. /\ Memory!Share(b, j).n = 0 /\ Memory!Share(b, j).d = 1
        /\ Memory!Share(a, j).n = 1 /\ Memory!Share(a, j).d = 60 + Memory!Rank(a, j)
        /\ Memory!Rank(a, j) \in 1..Len(a) /\ Len(a) \in Nat
    BY <1>5, ShareIs, LenProperties
  <2>2. x.n = 1 /\ x.d = 60 + Memory!Rank(a, j)
    BY <2>1 DEF Memory!Score
  <2> HIDE DEF x
  <2> QED BY <1>3, <2>1, <2>2
<1> QED BY <1>4, <1>5

\* The fused list has each of them, and each that comes before is above.
LEMMA FusedIs ==
    ASSUME Memory!MemAssumption, NEW a \in Seq(1..MaxFacts), NEW b \in Seq(1..MaxFacts),
           NEW S \in SUBSET (Memory!In(a) \cup Memory!In(b)), NEW f \in Memory!Fused(a, b, S)
    PROVE  /\ f \in Seq(S) /\ f \in Seq(1..MaxFacts)
           /\ \A i \in S : \E k \in 1..Len(f) : f[k] = i
           /\ \A k, m \in 1..Len(f) : k < m => Memory!Above(a, b, f[k], f[m])
<1> DEFINE n == Cardinality(S)
<1>1. S \subseteq 1..MaxFacts /\ IsFiniteSet(S) /\ n \in Nat
  <2>1. IsFiniteSet(1..MaxFacts)
    BY MemAssumed, FS_Interval
  <2>2. Memory!In(a) \subseteq 1..MaxFacts /\ Memory!In(b) \subseteq 1..MaxFacts
    <3>1. ASSUME NEW s \in Seq(1..MaxFacts) PROVE Memory!In(s) \subseteq 1..MaxFacts
      <4> SUFFICES ASSUME NEW k \in DOMAIN s PROVE s[k] \in 1..MaxFacts
        BY DEF Memory!In
      <4>1. k \in 1..Len(s)
        BY LenProperties
      <4> QED BY <4>1, ElementOfSeq
    <3> QED BY <3>1
  <2>3. S \in SUBSET (1..MaxFacts)
    BY <2>2
  <2> QED BY <2>1, <2>3, FS_Subset, FS_CardinalityType
<1>2. f \in [1..n -> S] /\ \A k, m \in DOMAIN f : k < m => Memory!Above(a, b, f[k], f[m])
  BY MemCardinality DEF Memory!Fused
<1> HIDE DEF n
<1>3. f \in Seq(S) /\ f \in Seq(1..MaxFacts) /\ Len(f) = n /\ DOMAIN f = 1..n
  <2>1. f \in [1..n -> S] /\ f \in [1..n -> 1..MaxFacts]
    BY <1>1, <1>2
  <2>2. n \in Nat
    BY <1>1
  <2> QED BY <2>1, <2>2, ListIs
<1>4. f \in Injection(1..n, S)
  <2>1. ASSUME NEW k \in 1..n, NEW m \in 1..n, k # m, f[k] = f[m] PROVE FALSE
    <3>1. f[k] \in Memory!In(a) \cup Memory!In(b) /\ k \in DOMAIN f /\ m \in DOMAIN f
      BY <1>2, <1>3, <2>1
    <3>2. k < m \/ m < k
      BY <1>1, <2>1
    <3> QED BY <1>2, <2>1, <3>1, <3>2, AboveOthers
  <2> QED BY <1>2, <2>1, Fun_IsInj
<1>5. f \in Surjection(1..n, S)
  <2>1. Cardinality(1..n) = n
    BY <1>1, FS_Interval
  <2> QED BY <1>1, <1>4, <2>1, FS_Injection DEF n
<1>6. \A i \in S : \E k \in 1..n : f[k] = i
  BY <1>5 DEF Surjection
<1> QED BY <1>2, <1>3, <1>6

-----------------------------------------------------------------------------
\* Where a root's rows are, and how many at most.
LEMMA PlaceIs ==
    ASSUME Memory!MemTypeOK, NEW r \in Memory!Roots
    PROVE  /\ place[r] \in Memory!Roots
           /\ facts[place[r]] \in Seq(Stored)
           /\ Memory!Ids(r) = 1..Len(facts[place[r]]) /\ Len(facts[place[r]]) \in Nat
<1>1. place[r] \in Memory!Roots
  BY DEF Memory!MemTypeOK, Memory!Places, Memory!Roots
<1>2. facts[place[r]] \in Seq(Stored)
  BY <1>1 DEF Memory!MemTypeOK, Stored
<1>3. DOMAIN facts[place[r]] = 1..Len(facts[place[r]]) /\ Len(facts[place[r]]) \in Nat
  BY <1>2, LenProperties
<1> QED BY <1>1, <1>2, <1>3 DEF Memory!Ids

\* Rows stay, as they are.
Grown ==
    \A r \in Memory!Roots :
        /\ Len(facts[place[r]]) <= Len(facts[place[r]])'
        /\ Memory!Ids(r) \subseteq Memory!Ids(r)'
        /\ \A i \in Memory!Ids(r) : Memory!RowOf(r, i)' = Memory!RowOf(r, i)

LEMMA Unchanged ==
    ASSUME Memory!MemTypeOK, UNCHANGED <<place, facts>>
    PROVE  Grown
<1>1. \A r \in Memory!Roots : Len(facts[place[r]]) \in Nat
  BY PlaceIs
<1> QED BY <1>1 DEF Grown, Memory!Ids, Memory!RowOf

\* What matched when a query began still does, and nothing else.
LEMMA MatchedStays ==
    ASSUME Memory!MemTypeOK, Grown, recall' = recall,
           recall.known <= Len(facts[place[recall.root]])
    PROVE  Matched' = Matched
<1> DEFINE r == recall.root
           l == recall.label
           w == recall.word
<1>1. r \in Memory!Roots /\ recall.known \in Nat
  BY DEF Memory!MemTypeOK
<1>2. 1..recall.known \subseteq Memory!Ids(r)
  <2>1. Memory!Ids(r) = 1..Len(facts[place[r]]) /\ Len(facts[place[r]]) \in Nat
    BY <1>1, PlaceIs
  <2> QED BY <1>1, <2>1
<1>3. \A i \in Memory!Ids(r) : i \in Memory!Ids(r)' /\ Memory!RowOf(r, i)' = Memory!RowOf(r, i)
  BY <1>1 DEF Grown
<1>4. ASSUME NEW i \in 1..recall.known
      PROVE  i \in Memory!Matching(r, l, w)' <=> i \in Memory!Matching(r, l, w)
  <2>1. i \in Memory!Ids(r) /\ i \in Memory!Ids(r)' /\ Memory!RowOf(r, i)' = Memory!RowOf(r, i)
    BY <1>2, <1>3, <1>4
  <2>2. r' = r /\ l' = l /\ w' = w
    OBVIOUS
  <2> QED BY <2>1, <2>2 DEF Memory!Matching, Memory!Fits
<1> QED BY <1>4 DEF Matched

LEMMA RecallStays ==
    ASSUME MemInv, Grown, recall' = recall
    PROVE  (recall.at # "idle" => WordsInv)' /\ Memory!RecallIsRight'
<1> DEFINE r == recall.root
<1>1. Memory!MemTypeOK /\ r \in Memory!Roots
  BY DEF MemInv, Memory!MemTypeOK
<1>2. Len(facts[place[r]]) \in Nat /\ Len(facts[place[r]]) <= Len(facts[place[r]])'
      /\ recall.known \in Nat
  BY <1>1, PlaceIs DEF Grown, Memory!MemTypeOK
<1>3. ASSUME recall.at # "idle"
      PROVE  WordsInv /\ Matched' = Matched
  BY <1>1, <1>3, MatchedStays DEF MemInv, WordsInv
<1>4. \A i \in Memory!Ids(r) : i \in Memory!Ids(r)' /\ Memory!RowOf(r, i)' = Memory!RowOf(r, i)
  BY <1>1 DEF Grown
<1>5. ASSUME recall.at # "idle"
      PROVE  WordsInv'
  <2>1. recall'.known <= Len(facts[place[recall.root]])'
    <3>1. recall.known <= Len(facts[place[r]])
      BY <1>3, <1>5 DEF WordsInv
    <3> QED BY <1>2, <3>1
  <2>2. Memory!In(recall.lexical)' = Memory!In(recall.lexical) /\ recall' = recall
    BY DEF Memory!In
  <2>3. (Memory!Cardinality(Matched) <= 2 * Limit)' <=> Memory!Cardinality(Matched) <= 2 * Limit
    BY <1>3, <1>5, MemCardinality
  <2> QED BY <1>3, <1>5, <2>1, <2>2, <2>3 DEF WordsInv
<1>6. ASSUME recall.at = "answered"
      PROVE  Memory!RecallIsRight'
  <2>1. WordsInv /\ Matched' = Matched /\ Memory!RecallIsRight
    BY <1>3, <1>6 DEF MemInv
  <2>2. \A i \in Memory!In(recall.answer) :
           /\ i \in Memory!Ids(r)
           /\ Memory!Fits(Memory!RowOf(r, i), r, recall.label)
           /\ recall.pii \/ ~Memory!RowOf(r, i).pii
    BY <1>6, <2>1 DEF Memory!RecallIsRight
  <2>3. Memory!In(recall.answer)' = Memory!In(recall.answer)
        /\ Memory!In(recall.lexical)' = Memory!In(recall.lexical)
        /\ Memory!In(recall.vector)' = Memory!In(recall.vector)
    BY DEF Memory!In
  <2>4. \A i \in Memory!In(recall.answer) :
           /\ i \in Memory!Ids(r)'
           /\ Memory!Fits(Memory!RowOf(r, i)', r, recall.label)
           /\ recall.pii \/ ~Memory!RowOf(r, i)'.pii
    BY <1>4, <2>2
  <2>5. \A i \in Matched : Memory!MayShow(i)' <=> Memory!MayShow(i)
    <3>1. Matched \subseteq Memory!Ids(r)
      BY DEF Matched, Memory!Matching
    <3>2. ASSUME NEW i \in Matched PROVE Memory!MayShow(i)' <=> Memory!MayShow(i)
      <4>1. Memory!RowOf(r, i)' = Memory!RowOf(r, i)
        BY <1>4, <3>1, <3>2
      <4> QED BY <4>1 DEF Memory!MayShow
    <3> QED BY <3>2
  <2>6. Memory!Cardinality(Matched) <= 2 * Limit =>
           \A i \in Matched :
               \/ ~Memory!MayShow(i)
               \/ i \in Memory!In(recall.answer)
               \/ /\ Len(recall.answer) = Limit
                  /\ i \in Memory!In(recall.vector) /\ Len(recall.lexical) <= 61 /\ Len(recall.vector) <= 61 =>
                        Memory!In(recall.answer) \subseteq Memory!In(recall.lexical) \cap Memory!In(recall.vector)
    BY <1>6, <2>1 DEF Memory!RecallIsRight, Matched
  <2>7. (\A i \in Memory!In(recall.answer) :
           /\ i \in Memory!Ids(recall.root)
           /\ Memory!Fits(Memory!RowOf(recall.root, i), recall.root, recall.label)
           /\ recall.pii \/ ~Memory!RowOf(recall.root, i).pii)'
    BY <2>3, <2>4 DEF Memory!Fits
  <2>8. (Memory!Cardinality(Matched) <= 2 * Limit =>
           \A i \in Matched :
               \/ ~Memory!MayShow(i)
               \/ i \in Memory!In(recall.answer)
               \/ /\ Len(recall.answer) = Limit
                  /\ i \in Memory!In(recall.vector) /\ Len(recall.lexical) <= 61 /\ Len(recall.vector) <= 61 =>
                        Memory!In(recall.answer) \subseteq Memory!In(recall.lexical) \cap Memory!In(recall.vector))'
    <3>1. Memory!Cardinality(Matched)' = Memory!Cardinality(Matched)
      BY <2>1, MemCardinality
    <3> QED BY <2>1, <2>3, <2>5, <2>6, <3>1
  <2> QED BY <2>7, <2>8 DEF Memory!RecallIsRight, Matched
<1> QED BY <1>5, <1>6 DEF Memory!RecallIsRight

-----------------------------------------------------------------------------
LEMMA MemBegins ==
    ASSUME Memory!MemAssumption, Memory!MemInit
    PROVE  MemInv
<1>1. MaxFacts \in Nat
  BY MemAssumed
<1>2. keeping.at = "idle" /\ recall.at = "idle" /\ facts = [r \in Memory!Roots |-> <<>>]
  BY DEF Memory!MemInit, Memory!NotKeeping, Memory!NoRecall
<1>3. Memory!MemTypeOK
  <2>1. facts \in [Memory!Roots -> Seq(Stored)]
    BY <1>2
  <2>2. points \in [1..MaxFacts -> Memory!Payload \cup {None}]
    BY DEF Memory!MemInit
  <2>3. keeping \in [at: {"idle", "extracted", "saved"}, root: Memory!Roots,
                     label: Label \cup {None}, pii: BOOLEAN, id: 0..MaxFacts]
    BY <1>1 DEF Memory!MemInit, Memory!NotKeeping, Memory!Roots
  <2>4. recall \in [at: {"idle", "words", "answered"}, root: Memory!Roots,
                    label: Label \cup {None}, word: Word \cup {None}, pii: BOOLEAN, known: 0..MaxFacts,
                    lexical: Seq(1..MaxFacts), vector: Seq(1..MaxFacts), answer: Seq(1..MaxFacts)]
    BY <1>1 DEF Memory!MemInit, Memory!NoRecall, Memory!Roots
  <2> QED BY <2>1, <2>2, <2>3, <2>4 DEF Memory!MemTypeOK, Stored, Memory!MemInit
<1>4. \A r \in Memory!Roots : Len(facts[r]) <= MaxFacts
  BY <1>1, <1>2
<1> QED BY <1>2, <1>3, <1>4 DEF MemInv, Memory!RecallIsRight

LEMMA SpanIs ==
    ASSUME NEW n \in Nat
    PROVE  IsFiniteSet(1..n) /\ Cardinality(1..n) = n
BY FS_Interval

\* There is room for one row more.
LEMMA RoomForOne ==
    ASSUME Memory!MemAssumption, MemInv,
           MaxFacts > Len(facts[None])
                      + Memory!Cardinality(UNION {{q} \X DOMAIN facts[q] : q \in Root}),
           NEW r \in Memory!Roots
    PROVE  Len(facts[r]) + 1 \in 1..MaxFacts
<1> DEFINE U == UNION {{q} \X DOMAIN facts[q] : q \in Root}
<1>1. Memory!MemTypeOK /\ MaxFacts \in Nat
  BY MemAssumed DEF MemInv
<1>2. \A q \in Memory!Roots : /\ DOMAIN facts[q] = 1..Len(facts[q])
                              /\ Len(facts[q]) \in Nat /\ Len(facts[q]) <= MaxFacts
  <2>1. \A q \in Memory!Roots : facts[q] \in Seq(Stored)
    BY <1>1 DEF Memory!MemTypeOK, Stored
  <2> QED BY <2>1, LenProperties DEF MemInv
<1>3. IsFiniteSet(U) /\ Cardinality(U) \in Nat
  <2>1. IsFiniteSet(Root) /\ IsFiniteSet(1..MaxFacts)
    BY <1>1, MemAssumed, FS_Interval
  <2>2. IsFiniteSet(Root \X (1..MaxFacts))
    BY <2>1, FS_Product
  <2>3. U \in SUBSET (Root \X (1..MaxFacts))
    <3>1. ASSUME NEW q \in Root PROVE DOMAIN facts[q] \subseteq 1..MaxFacts
      <4>1. DOMAIN facts[q] = 1..Len(facts[q]) /\ Len(facts[q]) \in Nat /\ Len(facts[q]) <= MaxFacts
        BY <1>2 DEF Memory!Roots
      <4> QED BY <1>1, <4>1
    <3> QED BY <3>1
  <2> QED BY <2>2, <2>3, FS_Subset, FS_CardinalityType
<1>4. MaxFacts > Len(facts[None]) + Cardinality(U)
  BY MemCardinality
<1>5. Len(facts[None]) \in Nat /\ Len(facts[r]) \in Nat
  BY <1>2 DEF Memory!Roots
<1>6. CASE r = None
  <2> HIDE DEF U
  <2> QED BY <1>1, <1>3, <1>4, <1>5, <1>6
<1>7. CASE r \in Root
  <2> DEFINE V == {r} \X DOMAIN facts[r]
  <2>1. V \in SUBSET U
    BY <1>7
  <2>2. IsFiniteSet(V) /\ Cardinality(V) <= Cardinality(U)
    <3> HIDE DEF U, V
    <3> QED BY <1>3, <2>1, FS_Subset
  <2>3. Cardinality(V) = Len(facts[r])
    <3>1. DOMAIN facts[r] = 1..Len(facts[r])
      BY <1>2
    <3>2. IsFiniteSet(1..Len(facts[r])) /\ Cardinality(1..Len(facts[r])) = Len(facts[r])
      BY <1>5, SpanIs
    <3>3. IsFiniteSet({r}) /\ Cardinality({r}) = 1
      BY FS_Singleton
    <3>4. Cardinality(V) = Cardinality({r}) * Cardinality(DOMAIN facts[r])
      BY <3>1, <3>2, <3>3, FS_Product
    <3> QED BY <1>5, <3>1, <3>2, <3>3, <3>4
  <2> HIDE DEF U, V
  <2> QED BY <1>1, <1>3, <1>4, <1>5, <2>2, <2>3
<1> QED BY <1>6, <1>7 DEF Memory!Roots

\* A row more.
LEMMA SaveStep ==
    ASSUME Memory!MemAssumption, MemInv,
           NEW r \in Memory!Roots, NEW l \in Label, NEW pii \in BOOLEAN, NEW w \in Word,
           Memory!SaveFact(r, l, pii, w)
    PROVE  MemInv'
<1> DEFINE q == place[r]
           row == [word |-> w, root |-> r, label |-> l, pii |-> pii]
<1>1. Memory!MemTypeOK /\ MaxFacts \in Nat
  BY MemAssumed DEF MemInv
<1>2. q \in Memory!Roots
  BY <1>1, PlaceIs
<1>3. Len(facts[q]) + 1 \in 1..MaxFacts
  BY <1>2, RoomForOne DEF Memory!SaveFact
<1>4. \A p \in Memory!Roots : facts[p] \in Seq(Stored) /\ Len(facts[p]) \in Nat
  BY <1>1, LenProperties DEF Memory!MemTypeOK, Stored
<1>5. row \in Stored
  BY DEF Stored
<1>6. facts' = [facts EXCEPT ![q] = Append(facts[q], row)] /\ UNCHANGED <<place, points, recall>>
  BY DEF Memory!SaveFact
<1>7. keeping' = [at |-> "saved", root |-> r, label |-> l, pii |-> pii, id |-> Len(facts[q]) + 1]
  BY DEF Memory!SaveFact
<1> HIDE DEF row
<1>8. facts' \in [Memory!Roots -> Seq(Stored)]
  <2>1. Append(facts[q], row) \in Seq(Stored)
    BY <1>2, <1>4, <1>5, AppendProperties
  <2> QED BY <1>1, <1>6, <2>1 DEF Memory!MemTypeOK, Stored
<1>9. /\ facts'[q] = Append(facts[q], row)
      /\ \A p \in Memory!Roots : p # q => facts'[p] = facts[p]
  BY <1>1, <1>2, <1>6 DEF Memory!MemTypeOK
<1>10. /\ Len(facts'[q]) = Len(facts[q]) + 1
       /\ \A i \in 1..Len(facts[q]) : facts'[q][i] = facts[q][i]
  BY <1>2, <1>4, <1>5, <1>9, AppendProperties
<1>11. Memory!MemTypeOK'
  <2>1. keeping' \in [at: {"idle", "extracted", "saved"}, root: Memory!Roots,
                      label: Label \cup {None}, pii: BOOLEAN, id: 0..MaxFacts]
    BY <1>1, <1>3, <1>7
  <2> QED BY <1>1, <1>6, <1>8, <2>1 DEF Memory!MemTypeOK, Stored
<1>12. (\A p \in Memory!Roots : Len(facts[p]) <= MaxFacts)'
  <2>1. \A p \in Memory!Roots : Len(facts[p]) <= MaxFacts
    BY DEF MemInv
  <2> QED BY <1>1, <1>2, <1>3, <1>9, <1>10, <2>1
<1>13. Grown
  <2> SUFFICES ASSUME NEW s \in Memory!Roots
               PROVE  /\ Len(facts[place[s]]) <= Len(facts[place[s]])'
                      /\ Memory!Ids(s) \subseteq Memory!Ids(s)'
                      /\ \A i \in Memory!Ids(s) : Memory!RowOf(s, i)' = Memory!RowOf(s, i)
    BY DEF Grown
  <2> DEFINE p == place[s]
  <2>1. p \in Memory!Roots /\ Memory!Ids(s) = 1..Len(facts[p])
    BY <1>1, PlaceIs
  <2>2. place' = place /\ Memory!Ids(s)' = 1..Len(facts'[p])
    <3>1. DOMAIN facts'[p] = 1..Len(facts'[p])
      BY <1>8, <2>1, LenProperties
    <3> QED BY <1>6, <3>1 DEF Memory!Ids
  <2>3. CASE p = q
    BY <1>3, <1>4, <1>6, <1>10, <2>1, <2>2, <2>3 DEF Memory!RowOf
  <2>4. CASE p # q
    BY <1>4, <1>6, <1>9, <2>1, <2>2, <2>4 DEF Memory!RowOf
  <2> QED BY <2>3, <2>4
<1>14. (keeping.at # "idle" => keeping.label \in Label)'
  BY <1>7
<1>15. (recall.at # "idle" => WordsInv)' /\ Memory!RecallIsRight'
  BY <1>6, <1>13, RecallStays
<1> QED BY <1>11, <1>12, <1>14, <1>15 DEF MemInv

\* What records without a row, and a row's point.
LEMMA KeepStep ==
    ASSUME Memory!MemAssumption, MemInv,
           Memory!UpsertFact \/ Memory!RecordEnds \/ Memory!KeepingDies
    PROVE  MemInv'
<1>1. Memory!MemTypeOK /\ MaxFacts \in Nat
  BY MemAssumed DEF MemInv
<1>2. UNCHANGED <<place, facts, recall>>
  BY DEF Memory!UpsertFact, Memory!RecordEnds, Memory!KeepingDies
<1>3. (recall.at # "idle" => WordsInv)' /\ Memory!RecallIsRight'
  BY <1>1, <1>2, Unchanged, RecallStays
<1>4. (\A r \in Memory!Roots : Len(facts[r]) <= MaxFacts)'
  BY <1>2 DEF MemInv
<1>5. CASE keeping' = Memory!NotKeeping /\ UNCHANGED points
  <2>1. keeping' \in [at: {"idle", "extracted", "saved"}, root: Memory!Roots,
                      label: Label \cup {None}, pii: BOOLEAN, id: 0..MaxFacts]
        /\ keeping'.at = "idle"
    BY <1>1, <1>5 DEF Memory!NotKeeping, Memory!Roots
  <2>2. Memory!MemTypeOK'
    BY <1>1, <1>2, <1>5, <2>1 DEF Memory!MemTypeOK
  <2> QED BY <1>3, <1>4, <2>1, <2>2 DEF MemInv
<1>6. CASE Memory!UpsertFact
  <2>1. keeping.at = "saved" /\ keeping.label \in Label /\ keeping.root \in Memory!Roots
    BY <1>6 DEF Memory!UpsertFact, MemInv, Memory!MemTypeOK
  <2>2. points' \in [1..MaxFacts -> Memory!Payload \cup {None}]
    <3>1. [root |-> keeping.root, label |-> keeping.label] \in Memory!Payload
      BY <2>1 DEF Memory!Payload
    <3> QED BY <1>1, <1>6, <3>1 DEF Memory!UpsertFact, Memory!MemTypeOK
  <2>3. keeping' = [keeping EXCEPT !.at = "extracted", !.id = 0]
    BY <1>6 DEF Memory!UpsertFact
  <2>3a. keeping \in [at: {"idle", "extracted", "saved"}, root: Memory!Roots,
                     label: Label \cup {None}, pii: BOOLEAN, id: 0..MaxFacts] /\ 0 \in 0..MaxFacts
    BY <1>1 DEF Memory!MemTypeOK
  <2>4. keeping' \in [at: {"idle", "extracted", "saved"}, root: Memory!Roots,
                      label: Label \cup {None}, pii: BOOLEAN, id: 0..MaxFacts]
        /\ keeping'.label = keeping.label
    BY <2>3, <2>3a
  <2>5. Memory!MemTypeOK'
    BY <1>1, <1>2, <2>2, <2>4 DEF Memory!MemTypeOK
  <2>6. (keeping.at # "idle" => keeping.label \in Label)'
    BY <2>1, <2>4
  <2> QED BY <1>3, <1>4, <2>5, <2>6 DEF MemInv
<1> QED BY <1>5, <1>6 DEF Memory!RecordEnds, Memory!KeepingDies

\* A query begins.
LEMMA QueryStep ==
    ASSUME Memory!MemAssumption, MemInv,
           NEW r \in Memory!Roots, NEW l \in Label, NEW w \in Word, NEW pii \in BOOLEAN,
           Memory!QueryMemory(r, l, w, pii)
    PROVE  MemInv'
<1> DEFINE M == Memory!Matching(r, l, w)
           n == Len(facts[place[r]])
<1>1. Memory!MemTypeOK /\ MaxFacts \in Nat
  BY MemAssumed DEF MemInv
<1>2. PICK s \in Memory!Ranked(M) :
         recall' = [at |-> "words", root |-> r, label |-> l, word |-> w, pii |-> pii,
                    known |-> n, lexical |-> s, vector |-> <<>>, answer |-> <<>>]
  BY DEF Memory!QueryMemory
<1>3. UNCHANGED <<place, facts, points, keeping>>
  BY DEF Memory!QueryMemory
<1>4. Memory!Ids(r) = 1..n /\ n \in Nat /\ n <= MaxFacts
  BY <1>1, PlaceIs DEF MemInv
<1>5. M \subseteq 1..n /\ M \in SUBSET (1..MaxFacts)
  <2>1. M \subseteq Memory!Ids(r)
    BY DEF Memory!Matching
  <2> QED BY <1>1, <1>4, <2>1
<1>6. /\ s \in Seq(1..MaxFacts) /\ Memory!In(s) \subseteq M
      /\ Memory!Cardinality(M) <= 2 * Limit => Memory!In(s) = M
  BY <1>2, <1>5, RankedIs
<1>7. Memory!MemTypeOK'
  <2>1. n \in 0..MaxFacts /\ <<>> \in Seq(1..MaxFacts)
    BY <1>1, <1>4
  <2> HIDE DEF n
  <2>2. recall' \in [at: {"idle", "words", "answered"}, root: Memory!Roots,
                    label: Label \cup {None}, word: Word \cup {None}, pii: BOOLEAN, known: 0..MaxFacts,
                    lexical: Seq(1..MaxFacts), vector: Seq(1..MaxFacts), answer: Seq(1..MaxFacts)]
    BY <1>2, <1>6, <2>1
  <2> QED BY <1>1, <1>3, <2>2 DEF Memory!MemTypeOK
<1>8. Matched' = M
  <2>1. Matched' = M' \cap (1..n)
    BY <1>2 DEF Matched
  <2>2. M' = M
    BY <1>3 DEF Memory!Matching, Memory!Ids, Memory!RowOf, Memory!Fits
  <2> QED BY <1>5, <2>1, <2>2
<1>9. WordsInv'
  <2>1. recall'.label \in Label /\ recall'.lexical = s
    BY <1>2
  <2>2. recall'.known = n /\ n' = Len(facts[place[recall.root]])' /\ n' = n
    BY <1>2, <1>3
  <2>3. Memory!In(recall.lexical)' = Memory!In(s)
    BY <2>1 DEF Memory!In
  <2>4. (Memory!Cardinality(Matched) <= 2 * Limit)' <=> Memory!Cardinality(M) <= 2 * Limit
    BY <1>8, MemCardinality
  <2>5. recall'.known <= Len(facts[place[recall.root]])'
    BY <1>4, <2>2
  <2> QED BY <1>6, <1>8, <2>1, <2>3, <2>4, <2>5 DEF WordsInv
<1>10. Memory!RecallIsRight'
  BY <1>2 DEF Memory!RecallIsRight
<1>11. (\A p \in Memory!Roots : Len(facts[p]) <= MaxFacts)'
       /\ (keeping.at # "idle" => keeping.label \in Label)'
  BY <1>3 DEF MemInv
<1> QED BY <1>7, <1>9, <1>10, <1>11 DEF MemInv

\* It fails, or its answer is returned.
LEMMA RecallEndStep ==
    ASSUME Memory!MemAssumption, MemInv, Memory!RecallEnds
    PROVE  MemInv'
<1>1. Memory!MemTypeOK /\ MaxFacts \in Nat
  BY MemAssumed DEF MemInv
<1>2. recall' = Memory!NoRecall /\ UNCHANGED <<place, facts, points, keeping>>
  BY DEF Memory!RecallEnds
<1>3. recall' \in [at: {"idle", "words", "answered"}, root: Memory!Roots,
                  label: Label \cup {None}, word: Word \cup {None}, pii: BOOLEAN, known: 0..MaxFacts,
                  lexical: Seq(1..MaxFacts), vector: Seq(1..MaxFacts), answer: Seq(1..MaxFacts)]
      /\ recall'.at = "idle"
  BY <1>1, <1>2 DEF Memory!NoRecall, Memory!Roots
<1>4. Memory!MemTypeOK'
  BY <1>1, <1>2, <1>3 DEF Memory!MemTypeOK
<1>5. Memory!RecallIsRight'
  BY <1>3 DEF Memory!RecallIsRight
<1> QED BY <1>2, <1>3, <1>4, <1>5 DEF MemInv

\* The answer is the beginning of the fused list.
LEMMA CutIs ==
    ASSUME Limit \in Nat, NEW T, NEW f \in Seq(T)
    PROVE  /\ Memory!Cut(f) \in Seq(T)
           /\ \A x \in Memory!In(Memory!Cut(f)) : \E m \in 1..Len(f) : f[m] = x
           /\ \A k \in 1..Len(f) :
                 \/ f[k] \in Memory!In(Memory!Cut(f))
                 \/ /\ Len(Memory!Cut(f)) = Limit
                    /\ \A x \in Memory!In(Memory!Cut(f)) : \E m \in 1..Len(f) : m < k /\ f[m] = x
<1>1. Len(f) \in Nat /\ DOMAIN f = 1..Len(f)
  BY LenProperties
<1>2. CASE Len(f) < Limit
  <2>1. Memory!Cut(f) = f
    BY <1>2 DEF Memory!Cut
  <2> QED BY <1>1, <2>1 DEF Memory!In
<1>3. CASE ~(Len(f) < Limit)
  <2>1. Memory!Cut(f) = SubSeq(f, 1, Limit) /\ Limit <= Len(f)
    BY <1>1, <1>3 DEF Memory!Cut
  <2> DEFINE g == SubSeq(f, 1, Limit)
  <2>2. g \in Seq(T) /\ Len(g) = Limit /\ \A k \in 1..Limit : g[k] = f[k]
    <3>1. 1 \in 1..(Len(f) + 1) /\ Limit \in (1 - 1)..Len(f)
      BY <1>1, <2>1
    <3>2. /\ g \in Seq(T)
          /\ Len(g) = IF 1 <= Limit THEN Limit - 1 + 1 ELSE 0
          /\ \A k \in 1..(Limit - 1 + 1) : g[k] = f[1 + k - 1]
      BY <3>1, SubSeqProperties
    <3>3. \A k \in 1..Limit : g[k] = f[k]
      <4> HIDE DEF g
      <4>1. \A k \in 1..Limit : k \in 1..(Limit - 1 + 1) /\ 1 + k - 1 = k
        OBVIOUS
      <4> QED BY <3>2, <4>1
    <3>4. Len(g) = Limit
      <4> HIDE DEF g
      <4> QED BY <3>2
    <3> QED BY <3>2, <3>3, <3>4
  <2> HIDE DEF g
  <2>3. DOMAIN g = 1..Limit
    BY <2>2, LenProperties
  <2>4. Memory!Cut(f) = g
    BY <2>1 DEF g
  <2>5. \A x \in Memory!In(g) : \E m \in 1..Limit : f[m] = x
    BY <2>2, <2>3 DEF Memory!In
  <2>6. \A k \in 1..Limit : f[k] \in Memory!In(g)
    BY <2>2, <2>3 DEF Memory!In
  <2>7. \A k \in 1..Len(f) : k \in 1..Limit \/ \A m \in 1..Limit : m < k /\ m \in 1..Len(f)
    BY <1>1, <2>1
  <2>8. \A m \in 1..Limit : m \in 1..Len(f)
    BY <1>1, <2>1
  <2> QED BY <2>2, <2>4, <2>5, <2>6, <2>7, <2>8
<1> QED BY <1>2, <1>3

\* A query answers.
LEMMA RecallStep ==
    ASSUME Memory!MemAssumption, MemInv, Memory!RecallFacts
    PROVE  MemInv'
<1> DEFINE a == recall.lexical
           r == recall.root
<1>1. Memory!MemTypeOK /\ MaxFacts \in Nat /\ Limit \in Nat
  BY MemAssumed DEF MemInv
<1>2. PICK s \in Memory!Searched : \E f \in Memory!Fused(a, s, Memory!Kept(Memory!In(a) \cup Memory!In(s))) :
         recall' = [recall EXCEPT !.at = "answered", !.vector = s, !.answer = Memory!Cut(f)]
  BY DEF Memory!RecallFacts
<1> DEFINE S == Memory!Kept(Memory!In(a) \cup Memory!In(s))
<1>3. PICK f \in Memory!Fused(a, s, S) :
         recall' = [recall EXCEPT !.at = "answered", !.vector = s, !.answer = Memory!Cut(f)]
  BY <1>2
<1>4. recall.at = "words" /\ UNCHANGED <<place, facts, points, keeping>>
  BY DEF Memory!RecallFacts
<1>5. a \in Seq(1..MaxFacts) /\ r \in Memory!Roots
  BY <1>1 DEF Memory!MemTypeOK
<1>6. s \in Seq(1..MaxFacts)
  <2>1. CASE s = <<>>
    BY <2>1
  <2>2. ASSUME s # <<>> PROVE s \in Seq(1..MaxFacts)
    <3> DEFINE P == {i \in 1..MaxFacts : points[i] # None
                                         /\ Memory!Fits(points[i], recall.root, recall.label)}
    <3>1. s \in Memory!Ranked(P) /\ P \in SUBSET (1..MaxFacts)
      BY <2>2 DEF Memory!Searched
    <3> HIDE DEF P
    <3> QED BY <3>1, RankedIs
  <2> QED BY <2>1, <2>2
<1>7. S \in SUBSET (Memory!In(a) \cup Memory!In(s))
  BY DEF Memory!Kept
<1> HIDE DEF S
<1>8. /\ f \in Seq(S) /\ f \in Seq(1..MaxFacts)
      /\ \A i \in S : \E k \in 1..Len(f) : f[k] = i
      /\ \A k, m \in 1..Len(f) : k < m => Memory!Above(a, s, f[k], f[m])
  BY <1>5, <1>6, <1>7, FusedIs
<1> DEFINE g == Memory!Cut(f)
<1>9. /\ g \in Seq(1..MaxFacts)
      /\ \A x \in Memory!In(g) : \E m \in 1..Len(f) : f[m] = x
      /\ \A k \in 1..Len(f) :
            \/ f[k] \in Memory!In(g)
            \/ /\ Len(g) = Limit
               /\ \A x \in Memory!In(g) : \E m \in 1..Len(f) : m < k /\ f[m] = x
  BY <1>1, <1>8, CutIs
<1> HIDE DEF g
<1>10. recall' = [recall EXCEPT !.at = "answered", !.vector = s, !.answer = g]
  BY <1>3 DEF g
<1>11. /\ recall'.root = recall.root /\ recall'.label = recall.label /\ recall'.word = recall.word
       /\ recall'.pii = recall.pii /\ recall'.known = recall.known /\ recall'.lexical = a
       /\ recall'.vector = s /\ recall'.answer = g /\ recall'.at = "answered"
  BY <1>1, <1>10 DEF Memory!MemTypeOK
<1>12. Memory!MemTypeOK'
  <2>1. recall \in [at: {"idle", "words", "answered"}, root: Memory!Roots,
                    label: Label \cup {None}, word: Word \cup {None}, pii: BOOLEAN, known: 0..MaxFacts,
                    lexical: Seq(1..MaxFacts), vector: Seq(1..MaxFacts), answer: Seq(1..MaxFacts)]
    BY <1>1 DEF Memory!MemTypeOK
  <2>2. recall' \in [at: {"idle", "words", "answered"}, root: Memory!Roots,
                    label: Label \cup {None}, word: Word \cup {None}, pii: BOOLEAN, known: 0..MaxFacts,
                    lexical: Seq(1..MaxFacts), vector: Seq(1..MaxFacts), answer: Seq(1..MaxFacts)]
    BY <1>6, <1>9, <1>10, <2>1
  <2> QED BY <1>1, <1>4, <2>2 DEF Memory!MemTypeOK
<1>13. Matched' = Matched
  BY <1>4, <1>11 DEF Matched, Memory!Matching, Memory!Ids, Memory!RowOf, Memory!Fits
<1>14. WordsInv
  BY <1>4 DEF MemInv
<1>15. WordsInv'
  <2>1. Memory!In(recall.lexical)' = Memory!In(recall.lexical)
    BY <1>11 DEF Memory!In
  <2>2. (Memory!Cardinality(Matched) <= 2 * Limit)' <=> Memory!Cardinality(Matched) <= 2 * Limit
    BY <1>13, MemCardinality
  <2>3. Len(facts[place[recall.root]])' = Len(facts[place[recall.root]])
    BY <1>4, <1>11
  <2> QED BY <1>11, <1>13, <1>14, <2>1, <2>2, <2>3 DEF WordsInv
<1>16. \A i \in Memory!In(a) : /\ i \in Memory!Ids(r)
                               /\ Memory!Fits(Memory!RowOf(r, i), r, recall.label)
  BY <1>14 DEF WordsInv, Matched, Memory!Matching
<1>17. \A i \in S : /\ i \in Memory!Ids(r)
                    /\ Memory!Fits(Memory!RowOf(r, i), r, recall.label)
                    /\ Memory!MayShow(i)
  BY <1>16 DEF S, Memory!Kept, Memory!Found
<1>18. Memory!In(g) \subseteq S
  <2>1. \A m \in 1..Len(f) : f[m] \in S
    BY <1>8, ElementOfSeq
  <2> QED BY <1>9, <2>1
<1>19. ASSUME Memory!Cardinality(Matched) <= 2 * Limit, NEW i \in Matched, Memory!MayShow(i),
              i \notin Memory!In(g)
       PROVE  /\ Len(g) = Limit
              /\ i \in Memory!In(s) /\ Len(a) <= 61 /\ Len(s) <= 61 =>
                    Memory!In(g) \subseteq Memory!In(a) \cap Memory!In(s)
  <2>1. i \in Memory!In(a)
    BY <1>14, <1>19 DEF WordsInv
  <2>2. i \in S
    BY <1>19, <2>1 DEF S, Memory!Kept, Memory!Found
  <2>3. PICK k \in 1..Len(f) : f[k] = i
    BY <1>8, <2>2
  <2>4. /\ Len(g) = Limit
        /\ \A x \in Memory!In(g) : \E m \in 1..Len(f) : m < k /\ f[m] = x
    BY <1>9, <1>19, <2>3
  <2>5. ASSUME i \in Memory!In(s), Len(a) <= 61, Len(s) <= 61, NEW x \in Memory!In(g)
        PROVE  x \in Memory!In(a) \cap Memory!In(s)
    <3>1. Memory!Above(a, s, x, i)
      BY <1>8, <2>3, <2>4
    <3>2. x \in Memory!In(a) \cup Memory!In(s)
      BY <1>7, <1>18
    <3> QED BY <1>5, <1>6, <2>1, <2>5, <3>1, <3>2, AboveBoth
  <2> QED BY <2>4, <2>5
<1>20. Memory!RecallIsRight'
  <2>1. /\ Memory!In(recall.answer)' = Memory!In(g) /\ Memory!In(recall.lexical)' = Memory!In(a)
        /\ Memory!In(recall.vector)' = Memory!In(s)
    BY <1>11 DEF Memory!In
  <2>2. \A i : /\ i \in Memory!Ids(recall.root)' <=> i \in Memory!Ids(r)
               /\ Memory!RowOf(recall.root, i)' = Memory!RowOf(r, i)
    BY <1>4, <1>11 DEF Memory!Ids, Memory!RowOf
  <2>3. \A i : Memory!MayShow(i)' <=> Memory!MayShow(i)
    BY <1>11, <2>2 DEF Memory!MayShow
  <2>4. (\A i \in Memory!In(recall.answer) :
           /\ i \in Memory!Ids(recall.root)
           /\ Memory!Fits(Memory!RowOf(recall.root, i), recall.root, recall.label)
           /\ recall.pii \/ ~Memory!RowOf(recall.root, i).pii)'
    <3> SUFFICES ASSUME NEW i \in Memory!In(g)
                 PROVE  (/\ i \in Memory!Ids(recall.root)
                         /\ Memory!Fits(Memory!RowOf(recall.root, i), recall.root, recall.label)
                         /\ recall.pii \/ ~Memory!RowOf(recall.root, i).pii)'
      BY <2>1
    <3>1. /\ i \in Memory!Ids(r)
          /\ Memory!Fits(Memory!RowOf(r, i), r, recall.label)
          /\ Memory!MayShow(i)
      BY <1>17, <1>18
    <3> QED BY <1>11, <2>2, <3>1 DEF Memory!Fits, Memory!MayShow
  <2>5. (Memory!Cardinality(Matched) <= 2 * Limit =>
           \A i \in Matched :
               \/ ~Memory!MayShow(i)
               \/ i \in Memory!In(recall.answer)
               \/ /\ Len(recall.answer) = Limit
                  /\ i \in Memory!In(recall.vector) /\ Len(recall.lexical) <= 61 /\ Len(recall.vector) <= 61 =>
                        Memory!In(recall.answer) \subseteq Memory!In(recall.lexical) \cap Memory!In(recall.vector))'
    <3>1. Memory!Cardinality(Matched)' = Memory!Cardinality(Matched)
      BY <1>13, MemCardinality
    <3> QED BY <1>11, <1>13, <1>19, <2>1, <2>3, <3>1
  <2> QED BY <2>4, <2>5 DEF Memory!RecallIsRight, Matched
<1>21. (\A p \in Memory!Roots : Len(facts[p]) <= MaxFacts)'
       /\ (keeping.at # "idle" => keeping.label \in Label)'
  BY <1>4 DEF MemInv
<1> QED BY <1>12, <1>15, <1>20, <1>21 DEF MemInv

LEMMA MemStep ==
    ASSUME Memory!MemAssumption, MemInv, Memory!MemNext \/ UNCHANGED Memory!memvars
    PROVE  MemInv'
<1>1. keeping.root \in Memory!Roots /\ keeping.pii \in BOOLEAN
  BY DEF MemInv, Memory!MemTypeOK
<1>2. keeping.at # "idle" => keeping.label \in Label
  BY DEF MemInv
<1>3. ASSUME NEW r \in Memory!Roots, NEW l \in Label, NEW w \in Word, NEW pii \in BOOLEAN,
             Memory!RecordMemory(r, l, pii, w) \/ Memory!QueryMemory(r, l, w, pii)
      PROVE  MemInv'
  BY <1>3, SaveStep, QueryStep DEF Memory!RecordMemory
<1>4. ASSUME NEW w \in Word, Memory!NextFact(w)
      PROVE  MemInv'
  BY <1>1, <1>2, <1>4, SaveStep DEF Memory!NextFact
<1>5. ASSUME NEW w \in Word, NEW pii \in BOOLEAN, Memory!SweepGoesOn(pii, w)
      PROVE  MemInv'
  BY <1>1, <1>2, <1>5, SaveStep DEF Memory!SweepGoesOn
<1>6. CASE Memory!UpsertFact \/ Memory!RecordEnds \/ Memory!KeepingDies
           \/ Memory!RecallFacts \/ Memory!RecallEnds
  BY <1>6, KeepStep, RecallStep, RecallEndStep
<1>7. CASE UNCHANGED Memory!memvars
  <2>1. UNCHANGED <<place, facts, points, keeping, recall>>
    BY <1>7 DEF Memory!memvars
  <2>2. (recall.at # "idle" => WordsInv)' /\ Memory!RecallIsRight'
    BY <2>1, Unchanged, RecallStays DEF MemInv
  <2>3. Memory!MemTypeOK'
    BY <2>1 DEF MemInv, Memory!MemTypeOK
  <2> QED BY <2>1, <2>2, <2>3 DEF MemInv
<1> QED BY <1>3, <1>4, <1>5, <1>6, <1>7 DEF Memory!MemNext

\* What a query of the memory answers is right, for any projects, scopes, words and
\* numbers of facts, and any limit.
THEOREM EveryRecallIsRight ==
    ASSUME Memory!MemAssumption
    PROVE  Memory!MemSpec => [](Memory!MemTypeOK /\ Memory!RecallIsRight)
<1>1. Memory!MemInit => MemInv
  BY MemBegins
<1>2. MemInv /\ [Memory!MemNext]_(Memory!memvars) => MemInv'
  BY MemStep
<1>3. MemInv => Memory!MemTypeOK /\ Memory!RecallIsRight
  BY DEF MemInv
<1> QED BY <1>1, <1>2, <1>3, PTL DEF Memory!MemSpec
=============================================================================
