------------------------------ MODULE Migrate -------------------------------
(***************************************************************************)
(* migrate_to_head of core/db/migrate.py over the revisions of             *)
(* core/migrations.  Every use of the database begins with it, so the      *)
(* first ones of several processes run it at once; in one process a lock   *)
(* lets one call at a time go on, so a process is its call.                *)
(*                                                                         *)
(* Alembic is external.  On SQLite it does not run a revision in one       *)
(* transaction: each CREATE and ALTER commits by itself, and the row of    *)
(* alembic_version is written after those of its revision.                 *)
(***************************************************************************)
EXTENDS Integers, Sequences, FiniteSets, FiniteSetsExt, SequencesExt

CONSTANTS
    Client          \* processes that use the database

VARIABLES
    table,          \* is there a table alembic_version
    versions,       \* its rows
    objects,        \* the tables, columns and indexes made
    process,        \* what each process is doing
    begun,          \* a call has found something to do
    upgraded,       \* a call has returned
    failed          \* a statement failed or a process died in the middle

migratevars == <<table, versions, objects, process, begun, upgraded, failed>>

\* upgrade() of each revision, in the order of its statements; the first is empty.
SpecTables == <<"spec", "spec_requirement", "plan", "spec_stage", "task", "acceptance_check">>
BaselineColumns == <<"expect_baseline", "baseline">>
UsageLedger == <<"usage_event", "ix_usage_event_ts">>

Makes == <<<<>>, SpecTables, BaselineColumns, UsageLedger>>

HeadRevision == Len(Makes)

MadeBy(r) == UNION {ToSet(Makes[q]) : q \in 1..r}

Resting == [at |-> "idle", next |-> 0, done |-> 0]

\* None yet, or left by this or another release of the code.
MigrateInit ==
    /\ \E r \in 0..HeadRevision + 1 :
          /\ table = (r > 0) /\ versions = {r} \ {0}
          /\ objects = MadeBy(Min({r, HeadRevision}))
    /\ process = [p \in Client |-> Resting]
    /\ begun = FALSE /\ upgraded = FALSE /\ failed = FALSE

Raise(p) == process' = [process EXCEPT ![p] = Resting]

Reached(p) == Raise(p) /\ upgraded' = TRUE

-----------------------------------------------------------------------------
\* current_revision: more than one row raises, and so does a revision that this
\* code does not know; at head nothing is to be done.
MigrateToHead(p) ==
    /\ process[p].at = "idle"
    /\ \/ /\ versions = {HeadRevision}
          /\ Reached(p) /\ UNCHANGED begun
       \/ /\ Cardinality(versions) > 1 \/ HeadRevision + 1 \in versions
          /\ Raise(p) /\ UNCHANGED <<begun, upgraded>>
       \/ /\ versions \in {{}} \cup {{r} : r \in 1..HeadRevision - 1}
          /\ process' = [process EXCEPT ![p].at = "heads"]
          /\ begun' = TRUE /\ UNCHANGED upgraded
    /\ UNCHANGED <<table, versions, objects, failed>>

\* command.upgrade reads the rows again.
ReadHeads(p) ==
    /\ process[p].at = "heads"
    /\ \/ /\ versions = {}
          /\ process' = [process EXCEPT ![p] = [at |-> IF table THEN "run" ELSE "create",
                                                next |-> 1, done |-> 0]]
          /\ UNCHANGED upgraded
       \/ /\ versions # {} /\ Max(versions) < HeadRevision
          /\ process' = [process EXCEPT ![p] = [at |-> "run", next |-> Max(versions) + 1, done |-> 0]]
          /\ UNCHANGED upgraded
       \/ versions # {} /\ Max(versions) = HeadRevision /\ Reached(p)
    /\ UNCHANGED <<table, versions, objects, begun, failed>>

CreateVersionTable(p) ==
    /\ process[p].at = "create"
    /\ IF table THEN Raise(p) ELSE process' = [process EXCEPT ![p].at = "run"]
    /\ table' = TRUE
    /\ UNCHANGED <<versions, objects, begun, upgraded, failed>>

\* What is there already cannot be made.
Execute(p) ==
    LET object == Makes[process[p].next][process[p].done + 1] IN
    /\ process[p].at = "run" /\ process[p].done < Len(Makes[process[p].next])
    /\ IF object \in objects THEN Raise(p) ELSE process' = [process EXCEPT ![p].done = @ + 1]
    /\ objects' = objects \cup {object}
    /\ UNCHANGED <<table, versions, begun, upgraded, failed>>

\* Mutant: the revision is noted first and then made.
MadeNever(p) == process[p].done = 0

AllMade(p) == process[p].done = Len(Makes[process[p].next])

\* The first revision's row is inserted, and every other one's takes the place of
\* the one before, which must still be there.
NoteRevision(p) ==
    LET next == process[p].next
        conflict == IF next = 1 THEN 1 \in versions ELSE next - 1 \notin versions IN
    /\ process[p].at = "run" /\ AllMade(p)
    /\ \/ conflict /\ Raise(p) /\ UNCHANGED <<versions, upgraded>>
       \/ /\ ~conflict
          /\ versions' = (versions \ {next - 1}) \cup {next}
          /\ IF next = HeadRevision THEN Reached(p)
             ELSE /\ process' = [process EXCEPT ![p].next = next + 1, ![p].done = 0]
                  /\ UNCHANGED upgraded
    /\ UNCHANGED <<table, objects, begun, failed>>

\* The lock of the file is not given in time, or the process is killed.
FailBetween(p) ==
    /\ process[p].at # "idle"
    /\ Raise(p) /\ failed' = TRUE
    /\ UNCHANGED <<table, versions, objects, begun, upgraded>>

MigrateNext ==
    \E p \in Client : \/ MigrateToHead(p) \/ ReadHeads(p) \/ CreateVersionTable(p)
                      \/ Execute(p) \/ NoteRevision(p) \/ FailBetween(p)

MigrateSpec == MigrateInit /\ [][MigrateNext]_migratevars

-----------------------------------------------------------------------------
(* Properties *)

MigrateTypeOK ==
    /\ versions \subseteq 1..HeadRevision + 1 /\ objects \subseteq MadeBy(HeadRevision)
    /\ process \in [Client -> [at: {"idle", "heads", "create", "run"}, next: 0..HeadRevision,
                               done: 0..6]]
    /\ {table, begun, upgraded, failed} \subseteq BOOLEAN

\* migrate.py:64, upgrades of several processes at once and upgrades broken off:
\* a revision that is noted has everything that it and those before it make, a
\* call that returned has left the head, and if nothing failed but calls that
\* lost a race, one of them has reached it when none is at work (unless the
\* database is of a later release, which no call touches).
UpgradeIsWhole ==
    /\ \A r \in versions : MadeBy(Min({r, HeadRevision})) \subseteq objects
    /\ upgraded => HeadRevision \in versions
    /\ begun /\ ~failed /\ (\A p \in Client : process[p].at = "idle") => HeadRevision \in versions
=============================================================================
