---------------------------- MODULE MemoryStore -----------------------------
(***************************************************************************)
(* record_memory and query_memory (core/memory/memory.py) and the sweep    *)
(* that records texts (core/ingestion/sweep.py).  A fact is a row of the   *)
(* project's own SQLite file (store.py), numbered there from 1, and, at    *)
(* best, a point of that number in a Qdrant collection that all projects   *)
(* share (vectors.py): a project's point may take the place of another's.  *)
(* A query asks both, fuses the two lists (rank.py) and looks up what only *)
(* the vectors found.                                                      *)
(*                                                                         *)
(* A fact has one word; the facts a model finds in a text are any.  How    *)
(* well a row or a point fits a query is not modelled: each search may     *)
(* rank what it finds in any order.  One call records at a time: several   *)
(* meet only in the two stores, which take one write after the other.  A   *)
(* query runs beside it.                                                   *)
(***************************************************************************)
EXTENDS Naturals, Sequences, FiniteSets

CONSTANTS
    Root,           \* projects
    None,           \* no root (the user's home store), no session, no point
    Label,          \* pairs of a scope and a session, or None, that calls name
    Word,
    Limit,          \* facts a query returns at most
    MaxFacts        \* bound: facts of all stores

\* For the proofs: finitely many projects.
MemAssumption == IsFiniteSet(Root) /\ None \notin Root /\ Limit \in Nat /\ MaxFacts \in Nat

VARIABLES
    place,          \* configuration: the SQLite file of each root
    facts,          \* its rows
    points,         \* the collection: payloads by number
    keeping,        \* a call that records, or a sweep
    recall          \* a query

memvars == <<place, facts, points, keeping, recall>>

Roots == Root \cup {None}

\* memory.db_path is relative to the root, or one file for all.
Places == {[r \in Roots |-> r], [r \in Roots |-> None]}

NotKeeping == [at |-> "idle", root |-> None, label |-> None, pii |-> FALSE, id |-> 0]

NoRecall == [at |-> "idle", root |-> None, label |-> None, word |-> None, pii |-> TRUE,
             known |-> 0, lexical |-> <<>>, vector |-> <<>>, answer |-> <<>>]

MemInit ==
    /\ place \in Places
    /\ facts = [r \in Roots |-> <<>>]
    /\ points = [i \in 1..MaxFacts |-> None]
    /\ keeping = NotKeeping
    /\ recall = NoRecall

RowOf(r, i) == facts[place[r]][i]

Ids(r) == DOMAIN facts[place[r]]

-----------------------------------------------------------------------------
(* Recording *)

\* save_fact: the row and its words in one transaction. Or it raises, and the call
\* with it (RecordEnds).
SaveFact(r, l, pii, w) ==
    /\ MaxFacts > Len(facts[None]) + Cardinality(UNION {{q} \X DOMAIN facts[q] : q \in Root})
    /\ facts' = [facts EXCEPT ![place[r]] = Append(@, [word |-> w, root |-> r, label |-> l, pii |-> pii])]
    /\ keeping' = [at |-> "saved", root |-> r, label |-> l, pii |-> pii, id |-> Len(facts[place[r]]) + 1]
    /\ UNCHANGED <<place, points, recall>>

\* record_memory comes to its first fact; before it, and without one, nothing changes.
RecordMemory(r, l, pii, w) == keeping.at = "idle" /\ SaveFact(r, l, pii, w)

NextFact(w) ==
    keeping.at = "extracted" /\ SaveFact(keeping.root, keeping.label, keeping.pii, w)

\* run_ingestion_sweep comes to a fact of a later text, whether or not the calls for
\* those before raised. (What it does to the code index is in CodeIndex.)
SweepGoesOn(pii, w) ==
    /\ keeping.at = "extracted" /\ keeping.root # None /\ keeping.label.scope = "session"
    /\ SaveFact(keeping.root, keeping.label, pii, w)

\* embed_text and upsert_fact: the point of that number, whosever it was; or
\* neither Ollama nor Qdrant need be there, and the fact does without.
UpsertFact ==
    /\ keeping.at = "saved"
    /\ \/ points' = [points EXCEPT ![keeping.id] = [root |-> keeping.root, label |-> keeping.label]]
       \/ UNCHANGED points
    /\ keeping' = [keeping EXCEPT !.at = "extracted", !.id = 0]
    /\ UNCHANGED <<place, facts, recall>>

\* There are no more facts, or a row or the audit record cannot be written and the
\* call raises: what was saved stays.
RecordEnds ==
    /\ keeping.at = "extracted"
    /\ keeping' = NotKeeping
    /\ UNCHANGED <<place, facts, points, recall>>

KeepingDies ==
    /\ keeping.at # "idle"
    /\ keeping' = NotKeeping
    /\ UNCHANGED <<place, facts, points, recall>>

-----------------------------------------------------------------------------
(* Recalling *)

\* Rankings of a set, cut to twice the limit.
Ranked(S) ==
    LET n == IF Cardinality(S) < 2 * Limit THEN Cardinality(S) ELSE 2 * Limit
    IN {s \in [1..n -> S] : \A i, j \in 1..n : s[i] = s[j] => i = j}

\* The predicates of search_fts and get_fact, and of the payload filter.
Fits(x, r, l) ==
    /\ x.label.scope = l.scope
    /\ r # None => x.root = r
    /\ l.session # None => x.label.session = l.session

Matching(r, l, w) == {i \in Ids(r) : RowOf(r, i).word = w /\ Fits(RowOf(r, i), r, l)}

\* query_memory begins: search_fts.
QueryMemory(r, l, w, pii) ==
    /\ recall.at = "idle"
    /\ \E s \in Ranked(Matching(r, l, w)) :
          recall' = [at |-> "words", root |-> r, label |-> l, word |-> w, pii |-> pii,
                     known |-> Len(facts[place[r]]), lexical |-> s, vector |-> <<>>, answer |-> <<>>]
    /\ UNCHANGED <<place, facts, points, keeping>>

In(s) == {s[i] : i \in DOMAIN s}

Rank(s, i) == CHOOSE k \in DOMAIN s : s[k] = i

\* 1 / (k + rank), as a numerator and a denominator; 0 if i is not ranked.
Share(s, i) == IF i \in In(s) THEN [n |-> 1, d |-> 60 + Rank(s, i)] ELSE [n |-> 0, d |-> 1]

Score(a, b, i) ==
    LET x == Share(a, i)
        y == Share(b, i)
    IN [n |-> x.n * y.d + y.n * x.d, d |-> x.d * y.d]

\* The order in which the lists are gone through, one behind the other.
Earlier(a, b, i, j) ==
    \/ i \in In(a) /\ (j \in In(a) => Rank(a, i) < Rank(a, j))
    \/ i \notin In(a) /\ j \notin In(a) /\ Rank(b, i) < Rank(b, j)

\* reciprocal_rank_fusion: a sort that keeps the order of equals.
Above(a, b, i, j) ==
    LET x == Score(a, b, i)
        y == Score(a, b, j)
    IN x.n * y.d > y.n * x.d \/ (x.n * y.d = y.n * x.d /\ Earlier(a, b, i, j))

\* Some of what was ranked, in that order: there is one such sequence.
Fused(a, b, S) ==
    {f \in [1..Cardinality(S) -> S] : \A k, m \in DOMAIN f : k < m => Above(a, b, f[k], f[m])}

\* Mutant: get_fact looks an id up with no further condition.
FoundById(i) == i \in In(recall.lexical) \/ i \in Ids(recall.root)

\* by_id, or get_fact for what only the vectors found.
Found(i) ==
    \/ i \in In(recall.lexical)
    \/ i \in Ids(recall.root) /\ Fits(RowOf(recall.root, i), recall.root, recall.label)

Cut(s) == IF Len(s) < Limit THEN s ELSE SubSeq(s, 1, Limit)

MayShow(i) == recall.pii \/ ~RowOf(recall.root, i).pii

\* What is left of the fused list: none that is not found, nor may be shown.
Kept(ids) == {i \in ids : Found(i) /\ MayShow(i)}

\* The points that search in vectors.py finds; none if Ollama or Qdrant fails. (Rows
\* never change, so that it does not matter when get_fact reads them.)
Searched == {<<>>} \cup
    Ranked({i \in 1..MaxFacts : points[i] # None /\ Fits(points[i], recall.root, recall.label)})

RecallFacts ==
    /\ recall.at = "words"
    /\ \E s \in Searched :
       \E f \in Fused(recall.lexical, s, Kept(In(recall.lexical) \cup In(s))) :
          recall' = [recall EXCEPT !.at = "answered", !.vector = s, !.answer = Cut(f)]
    /\ UNCHANGED <<place, facts, points, keeping>>

\* The answer is audited and returned; or the query fails or dies.
RecallEnds ==
    /\ recall.at # "idle"
    /\ recall' = NoRecall
    /\ UNCHANGED <<place, facts, points, keeping>>

MemNext ==
    \/ \E r \in Roots, l \in Label, w \in Word, pii \in BOOLEAN :
          RecordMemory(r, l, pii, w) \/ QueryMemory(r, l, w, pii)
    \/ \E w \in Word : NextFact(w) \/ \E pii \in BOOLEAN : SweepGoesOn(pii, w)
    \/ UpsertFact \/ RecordEnds \/ KeepingDies \/ RecallFacts \/ RecallEnds

MemSpec == MemInit /\ [][MemNext]_memvars

-----------------------------------------------------------------------------
Payload == [root: Roots, label: Label]

MemTypeOK ==
    /\ place \in Places
    /\ facts \in [Roots -> Seq([word: Word, root: Roots, label: Label, pii: BOOLEAN])]
    /\ points \in [1..MaxFacts -> Payload \cup {None}]
    /\ keeping \in [at: {"idle", "extracted", "saved"}, root: Roots,
                    label: Label \cup {None}, pii: BOOLEAN, id: 0..MaxFacts]
    /\ recall \in [at: {"idle", "words", "answered"}, root: Roots,
                   label: Label \cup {None}, word: Word \cup {None}, pii: BOOLEAN, known: 0..MaxFacts,
                   lexical: Seq(1..MaxFacts), vector: Seq(1..MaxFacts), answer: Seq(1..MaxFacts)]

\* store.py:70: a query returns facts of its own scope, root and session only, and
\* none with personal data if it must not, though the numbers the vectors name may
\* be those of other projects' facts.  And (memory.py:3) a fact saved before the
\* query that has its word and may be shown is in the answer, whatever the vectors
\* do, unless the answer is full; and one that both searches found gives way only
\* to others that both found.  (If more than twice the limit match, facts are cut
\* before personal data are left out.  That both count for more than one holds for
\* lists of up to 61: the limit is 100.)
RecallIsRight ==
    recall.at = "answered" =>
        LET matching == Matching(recall.root, recall.label, recall.word) \cap (1..recall.known) IN
        /\ \A i \in In(recall.answer) :
              /\ i \in Ids(recall.root)
              /\ Fits(RowOf(recall.root, i), recall.root, recall.label)
              /\ recall.pii \/ ~RowOf(recall.root, i).pii
        /\ Cardinality(matching) <= 2 * Limit =>
              \A i \in matching :
                  \/ ~MayShow(i)
                  \/ i \in In(recall.answer)
                  \/ /\ Len(recall.answer) = Limit
                     /\ i \in In(recall.vector) /\ Len(recall.lexical) <= 61 /\ Len(recall.vector) <= 61 =>
                           In(recall.answer) \subseteq In(recall.lexical) \cap In(recall.vector)
=============================================================================
