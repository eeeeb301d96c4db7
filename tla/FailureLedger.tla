--------------------------- MODULE FailureLedger ----------------------------
(***************************************************************************)
(* The failure ledger: core/verify/ledger.py as verify_output of           *)
(* core/verify/gate.py uses it.  The gate ran, and the ledger is told      *)
(* whether it passed and, if not, what the failure looked like; the answer *)
(* is whether the same failure has now come MaxIdentical times in a row,   *)
(* and the agent must stop.                                                *)
(***************************************************************************)
EXTENDS StateFile, SequencesExt, FiniteSetsExt

CONSTANTS
    Task,           \* ledger keys
    Signature,      \* shapes of a failure
    MaxIdentical,   \* verify.max_identical_failures (3)
    MaxRuns         \* bound: runs of the gate

VARIABLES
    runs            \* history: the results of the gate the ledger was told of, by task

vars == <<filevars, runs>>

\* For the proofs.
LedgerAssumption == FileAssumption /\ None \notin Signature

NoEntry == [signature |-> None, count |-> 0]

EmptyLedger == [t \in Task |-> NoEntry]

Ledger == Contents(EmptyLedger)

NoRuns == [t \in Task |-> <<>>]

Init ==
    /\ FileInit
    /\ runs = NoRuns

\* How many of the last results are this one.
InARow(results, s) ==
    Len(results) - Max({0} \cup {i \in DOMAIN results : results[i] # s})

-----------------------------------------------------------------------------
\* Mutant: a failure of another shape goes on with the count.
CountOn(entry, s) == entry.count + 1

\* record_failure answers whether the count has come to max_identical_failures.
Count(entry, s) == IF entry.signature = s THEN entry.count + 1 ELSE 1

RunsLeft == MaxRuns > FoldSet(LAMBDA t, n : n + Len(runs[t]), 0, Task)

RecordFailure(c, t, s) ==
    /\ RunsLeft
    /\ LET entry == [signature |-> s, count |-> Count(Ledger[t], s)] IN
       BeginSave(c, [task |-> t, broken |-> entry.count >= MaxIdentical], [Ledger EXCEPT ![t] = entry])
    /\ runs' = [runs EXCEPT ![t] = Append(@, s)]

\* record_success: nothing is saved if there is no entry.
RecordSuccess(c, t) ==
    /\ RunsLeft
    /\ IF Ledger[t] = NoEntry
       THEN Load(c) /\ UNCHANGED op
       ELSE BeginSave(c, [task |-> t, broken |-> FALSE], [Ledger EXCEPT ![t] = NoEntry])
    /\ runs' = [runs EXCEPT ![t] = Append(@, None)]

Next ==
    \E c \in Client :
        \/ \E t \in Task : RecordSuccess(c, t) \/ \E s \in Signature : RecordFailure(c, t, s)
        \/ (SaveStep(c) \/ ReplaceFails(c) \/ Return(c) \/ Die(c)) /\ UNCHANGED runs

Spec == Init /\ [][Next]_vars

-----------------------------------------------------------------------------
(* Properties *)

Entry == [signature: Signature \cup {None}, count: Nat]

TypeOK ==
    /\ FileTypeOK([Task -> Entry])
    /\ runs \in [Task -> Seq(Signature \cup {None})]

\* Whatever overlaps or dies, an agent is never stopped by a failure that came
\* less than MaxIdentical times. Where calls neither overlap nor die, it is
\* stopped exactly when the last MaxIdentical runs of the task failed alike:
\* neither another failure nor a success in between is missed, nor does another
\* task count. And the file is whole unless saves overlap.
AnswerExact ==
    /\ WholeUnlessOverlap
    /\ \A t \in Task : Ledger[t].count <=
          Cardinality({i \in DOMAIN runs[t] : runs[t][i] = Ledger[t].signature})
    /\ \A c \in Client : op[c].at = "saved" /\ mishap = {} =>
          LET t == op[c].call.task IN
          op[c].call.broken <=> /\ Last(runs[t]) # None
                                /\ InARow(runs[t], Last(runs[t])) >= MaxIdentical
=============================================================================
