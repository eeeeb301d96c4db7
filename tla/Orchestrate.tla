----------------------------- MODULE Orchestrate -----------------------------
(***************************************************************************)
(* orchestrate_tasks (core/orchestrate/runner.py): Kahn's algorithm over   *)
(* the nodes (graph.py), then one node after the other, each with a record *)
(* in the audit log. A node may fail, and so may a record.                 *)
(***************************************************************************)
EXTENDS Naturals, FiniteSets, SequencesExt

CONSTANTS
    Nodes,          \* the nodes as they are listed: a sequence of ids
    Unknown         \* an id that no node has

Node == Range(Nodes)

\* For the proofs: the ids differ (a dag where two are the same is refused before
\* anything else), and Unknown is none of them.
DagAssumption ==
    /\ Nodes \in Seq(Node) /\ IsInjective(Nodes)
    /\ Unknown \notin Node

VARIABLES
    deps,           \* depends_on of each node
    degree, ready, order,   \* Kahn's algorithm: in_degree, queue, order
    turn,           \* the node whose turn it is: its place in the order
    at,             \* where the call is
    result,         \* status of each node, "none" without one
    told            \* the records: node and what it says

dagvars == <<deps, degree, ready, order, turn, at, result, told>>

DagInit ==
    /\ deps \in [Node -> SUBSET (Node \cup {Unknown})]
    /\ degree = [n \in Node |-> 0] /\ ready = <<>> /\ order = <<>>
    /\ turn = 1 /\ at = "called"
    /\ result = [n \in Node |-> "none"] /\ told = {}

Dependents(n) == {m \in Node : n \in deps[m]}

\* The nodes of a set, one behind the other as they are listed.
Listed(S) ==
    LET First[k \in 0..Len(Nodes)] ==
            IF k = 0 THEN <<>>
            ELSE IF Nodes[k] \in S THEN Append(First[k - 1], Nodes[k]) ELSE First[k - 1]
    IN First[Len(Nodes)]

-----------------------------------------------------------------------------
CheckNames ==
    /\ at = "called"
    /\ IF \E n \in Node : Unknown \in deps[n]
       THEN at' = "refused" /\ UNCHANGED <<degree, ready>>
       ELSE /\ at' = "sort"
            /\ degree' = [n \in Node |-> Cardinality(deps[n])]
            /\ ready' = Listed({n \in Node : deps[n] = {}})
    /\ UNCHANGED <<deps, order, turn, result, told>>

TakeReady ==
    /\ at = "sort" /\ ready # <<>>
    /\ LET n == Head(ready) IN
       /\ order' = Append(order, n)
       /\ degree' = [m \in Node |-> IF m \in Dependents(n) THEN degree[m] - 1 ELSE degree[m]]
       /\ ready' = Tail(ready) \o Listed({m \in Dependents(n) : degree[m] = 1})
    /\ UNCHANGED <<deps, turn, at, result, told>>

Sorted ==
    /\ at = "sort" /\ ready = <<>>
    /\ at' = IF Len(order) = Len(Nodes) THEN "run" ELSE "refused"
    /\ UNCHANGED <<deps, degree, ready, order, turn, result, told>>

-----------------------------------------------------------------------------
N == order[turn]

DepFailed == \E d \in deps[N] : result[d] # "done"

\* The record is written and it is the next one's turn, or the call raises.
Tell(what) ==
    \/ told' = told \cup {<<N, what>>} /\ turn' = turn + 1 /\ UNCHANGED at
    \/ at' = "raised" /\ UNCHANGED <<told, turn>>

SkipNode ==
    /\ at = "run" /\ turn <= Len(order) /\ DepFailed
    /\ result' = [result EXCEPT ![N] = "skipped"]
    /\ Tell("error")
    /\ UNCHANGED <<deps, degree, ready, order>>

\* Mutant: only a dependency that failed holds a node back, not one that was skipped.
RunNodeBehindSkipped ==
    /\ at = "run" /\ turn <= Len(order) /\ \A d \in deps[N] : result[d] # "error"
    /\ \/ /\ result' = [result EXCEPT ![N] = "done"]
          /\ told' = told \cup {<<N, "allow">>} /\ turn' = turn + 1 /\ UNCHANGED at
       \/ /\ at' = "except"
          /\ UNCHANGED <<result, told, turn>>
    /\ UNCHANGED <<deps, degree, ready, order>>

\* The node runs and is recorded; either may raise.
RunNode ==
    /\ at = "run" /\ turn <= Len(order) /\ ~DepFailed
    /\ \/ /\ result' = [result EXCEPT ![N] = "done"]
          /\ told' = told \cup {<<N, "allow">>} /\ turn' = turn + 1 /\ UNCHANGED at
       \/ /\ at' = "except"
          /\ UNCHANGED <<result, told, turn>>
    /\ UNCHANGED <<deps, degree, ready, order>>

\* A record that fails in here leaves the call.
HandleFailure ==
    /\ at = "except"
    /\ result' = [result EXCEPT ![N] = "error"]
    /\ \/ told' = told \cup {<<N, "error">>} /\ turn' = turn + 1 /\ at' = "run"
       \/ at' = "raised" /\ UNCHANGED <<told, turn>>
    /\ UNCHANGED <<deps, degree, ready, order>>

DagReturns ==
    /\ at = "run" /\ turn > Len(order)
    /\ at' = "returned"
    /\ UNCHANGED <<deps, degree, ready, order, turn, result, told>>

DagNext ==
    CheckNames \/ TakeReady \/ Sorted \/ SkipNode \/ RunNode \/ HandleFailure \/ DagReturns

-----------------------------------------------------------------------------
DagTypeOK ==
    /\ deps \in [Node -> SUBSET (Node \cup {Unknown})]
    /\ degree \in [Node -> 0..Len(Nodes)]
    /\ ready \in Seq(Node) /\ order \in Seq(Node)
    /\ turn \in 1..Len(Nodes) + 1
    /\ at \in {"called", "sort", "run", "except", "returned", "refused", "raised"}
    /\ result \in [Node -> {"none", "done", "error", "skipped"}]
    /\ told \subseteq Node \X {"allow", "error"}

\* What a node depends on, at once or through others: what is in every set that
\* holds its depends_on and the depends_on of its own members.
Closed(R) == \A m \in R \cap Node : deps[m] \subseteq R
Behind(n) ==
    {d \in Node \cup {Unknown} :
        \A R \in SUBSET (Node \cup {Unknown}) : deps[n] \subseteq R /\ Closed(R) => d \in R}

Runnable == \A n \in Node : Unknown \notin deps[n] /\ n \notin Behind(n)

\* Every dag without a cycle or an unknown id is run and every other is refused
\* before a node runs (graph.py); the order is one of all nodes, each behind all it
\* depends on, at once or through others.  A node is done or failed only behind
\* nodes that are all done, and skipped only because one it depends on failed
\* (runner.py:4); what is done is recorded as done, and a call that returns has a
\* result and a record of each node.
DagIsFollowed ==
    /\ at = "refused" => ~Runnable /\ \A n \in Node : result[n] = "none"
    /\ at \in {"run", "except", "returned", "raised"} =>
          /\ Runnable
          /\ Len(order) = Len(Nodes) /\ Range(order) = Node
          /\ \A i, j \in 1..Len(order) : order[j] \in Behind(order[i]) => j < i
    /\ \A n \in Node :
          /\ result[n] \in {"done", "error"} => \A d \in Behind(n) : result[d] = "done"
          /\ result[n] = "skipped" => \E d \in Behind(n) : result[d] = "error"
          /\ result[n] = "done" => <<n, "allow">> \in told
    /\ at = "returned" => \A n \in Node : result[n] # "none" /\ \E w \in {"allow", "error"} : <<n, w>> \in told
=============================================================================
