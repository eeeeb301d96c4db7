------------------------------ MODULE LiveView ------------------------------
(***************************************************************************)
(* What the audit feed promises the page that shows it, while nobody       *)
(* replaces the log: a page opens on the newest records, or on fewer if    *)
(* the log is longer than it looks back, and is then told of every later   *)
(* record once, in the order of the log, until it is closed; it keeps the  *)
(* newest MaxRows of them.                                                 *)
(*                                                                         *)
(* AuditFeed, where the log is read by byte offsets over connections that  *)
(* end and break, implements this specification.                           *)
(***************************************************************************)
EXTENDS Integers, Sequences, SequencesExt

CONSTANTS
    Client,         \* pages that show the log
    TailRows,       \* how many records a page opens with
    MaxRows         \* how many it keeps

VARIABLES
    records,        \* the records of the log, oldest first
    long,           \* the log is longer than a page looks back
    page            \* each page: whether it is loading, open or closed, its rows, and
                    \* the newest record it is past (0: none)

vars == <<records, long, page>>

Loading == [at |-> "loading", rows |-> <<>>, past |-> 0]

Init ==
    /\ records = <<>> /\ long = FALSE
    /\ page = [c \in Client |-> Loading]

\* The last n elements of a sequence, or all of them.
LastN(seq, n) == SubSeq(seq, (IF Len(seq) > n THEN Len(seq) - n + 1 ELSE 1), Len(seq))

Newest == IF records = <<>> THEN 0 ELSE Last(records)

\* The log grows, by a record or by something else.
Grow ==
    /\ \/ records' = records
       \/ /\ records' # <<>> /\ Front(records') = records
          /\ Last(records') \in Nat /\ Last(records') > Newest
    /\ long' \in {long, TRUE}
    /\ UNCHANGED page

Open(c) ==
    /\ page[c].at = "loading"
    /\ \E n \in 0..TailRows :
          /\ n = TailRows \/ long
          /\ page' = [page EXCEPT ![c] =
                [at |-> "open", rows |-> LastN(records, n), past |-> Newest]]
    /\ UNCHANGED <<records, long>>

\* The first record it has still to be told of.
Tell(c) ==
    /\ page[c].at = "open"
    /\ \E k \in 1..Len(records) :
          /\ records[k] > page[c].past
          /\ \A j \in 1..k - 1 : records[j] <= page[c].past
          /\ page' = [page EXCEPT ![c].rows = LastN(Append(@, records[k]), MaxRows),
                                  ![c].past = records[k]]
    /\ UNCHANGED <<records, long>>

Close(c) ==
    /\ page' = [page EXCEPT ![c].at = "closed"]
    /\ UNCHANGED <<records, long>>

Next == Grow \/ \E c \in Client : Open(c) \/ Tell(c) \/ Close(c)

Spec == Init /\ [][Next]_vars
=============================================================================
