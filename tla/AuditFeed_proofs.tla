--------------------------- MODULE AuditFeed_proofs ---------------------------
(***************************************************************************)
(* The live feed, for any number of pages, places and records and all      *)
(* sizes of a read, of a page of records and of what a page keeps.         *)
(*                                                                         *)
(*  - The places of the event streams: every step that takes a stream away *)
(*    gives up one place or is counted among those given up (StreamsLost); *)
(*    the other steps leave the streams that are served the same ones      *)
(*    (StreamsKept).                                                       *)
(*  - The types of cells, cursors, wires and pages.                        *)
(*  - Marks: how many records are whole before a position of the log. In a *)
(*    log that only grows the records are numbered in their order          *)
(*    (LinesInv), so a read, a wire, the rows and the ids a page remembers *)
(*    are each a run of numbers, and what a step does is arithmetic on     *)
(*    their ends (FeedInv).                                                *)
(*  - From it, that nothing is told twice, and that a page is a LiveView.  *)
(***************************************************************************)
EXTENDS AuditFeed, FiniteSetTheorems, SequenceTheorems, TLAPS

Served == {s \in Stream : stream[s].at # "free"}

Fields == {"at", "cursor", "after", "peer", "idle"}

\* What the server keeps of its streams.
Streams == DOMAIN stream = Stream /\ \A s \in Stream : DOMAIN stream[s] = Fields

WriteCounts == [records: Nat, junk: Nat, replaced: Nat, faults: Nat, abandoned: Nat]

PlacesInv ==
    /\ Streams
    /\ writes \in WriteCounts
    /\ active \in Nat
    /\ PlacesAccounted

LEMMA ServedFinite ==
    IsFiniteSet(Served) /\ Cardinality(Served) \in Nat
<1>1. IsFiniteSet(Stream)
  BY FeedAssumption, FS_Interval DEF Stream
<1> QED BY <1>1, FS_Subset, FS_CardinalityType DEF Served

LEMMA PlacesBegin ==
    ASSUME Init
    PROVE  PlacesInv
<1>1. Served = {}
  BY DEF Init, Served, FreeStream
<1>2. Cardinality(Served) = 0
  BY <1>1, FS_EmptySet
<1>3. Streams
  BY DEF Init, FreeStream, Streams, Fields
<1>4. active = 0 /\ writes \in WriteCounts /\ writes.abandoned = 0
  BY DEF Init, WriteCounts
<1>5. MaxStreams \in Nat
  BY FeedAssumption
<1> QED BY <1>2, <1>3, <1>4, <1>5 DEF PlacesInv, PlacesAccounted, Served

\* Steps that change something else, or a stream that stays one.
LEMMA StreamsKept ==
    ASSUME PlacesInv, Streams',
           \A s \in Stream : stream'[s].at # "free" <=> stream[s].at # "free",
           writes' \in WriteCounts, writes'.abandoned = writes.abandoned, active' = active
    PROVE  PlacesInv'
<1>1. Served' = Served
  BY DEF Served
<1> QED BY <1>1 DEF PlacesInv, PlacesAccounted, Served

\* One stream that stays, whatever becomes of its place in the log.
LEMMA StreamGoesOn ==
    ASSUME PlacesInv, NEW s \in Stream, stream[s].at # "free", NEW k, DOMAIN k = Fields,
           k.at # "free", stream' = [stream EXCEPT ![s] = k],
           writes' \in WriteCounts, writes'.abandoned = writes.abandoned, active' = active
    PROVE  PlacesInv'
<1>1. \A q \in Stream : stream'[q] = IF q = s THEN k ELSE stream[q]
  BY DEF PlacesInv, Streams
<1>2. Streams'
  BY <1>1 DEF PlacesInv, Streams
<1> QED BY <1>1, <1>2, StreamsKept

\* A stream ends: its place is free again, or was given up with it.
LEMMA StreamsLost ==
    ASSUME PlacesInv, NEW s \in Stream, stream[s].at # "free",
           stream' = [stream EXCEPT ![s] = FreeStream], writes' \in WriteCounts,
           \/ active' = active - 1 /\ writes'.abandoned = writes.abandoned
           \/ active' = active /\ writes'.abandoned = writes.abandoned + 1
    PROVE  PlacesInv'
<1>1. \A q \in Stream : stream'[q] = IF q = s THEN FreeStream ELSE stream[q]
  BY DEF PlacesInv, Streams
<1>2. DOMAIN FreeStream = Fields
  BY DEF FreeStream, Fields
<1>3. Streams'
  BY <1>1, <1>2 DEF PlacesInv, Streams
<1>4. s \in Served /\ Served' = Served \ {s}
  BY <1>1 DEF Served, FreeStream
<1>5. Cardinality(Served') = Cardinality(Served) - 1 /\ Cardinality(Served) >= 1
  <2>1. Cardinality(Served \ {s}) = Cardinality(Served) - 1
    BY <1>4, ServedFinite, FS_RemoveElement
  <2>2. Cardinality(Served) # 0
    BY <1>4, ServedFinite, FS_EmptySet
  <2> QED BY <1>4, <2>1, <2>2, ServedFinite
<1>6. /\ writes.abandoned \in Nat /\ writes'.abandoned \in Nat /\ MaxStreams \in Nat
      /\ active \in Nat /\ active = Cardinality(Served) + writes.abandoned
      /\ active <= MaxStreams
  BY FeedAssumption DEF PlacesInv, PlacesAccounted, WriteCounts, Served
<1>7. /\ active' \in Nat /\ active' = Cardinality(Served') + writes'.abandoned
      /\ active' <= MaxStreams
  BY <1>5, <1>6, ServedFinite
<1> QED BY <1>3, <1>7 DEF PlacesInv, PlacesAccounted, Served

LEMMA ConnectPlaces ==
    ASSUME PlacesInv, NEW c \in Client, Connect(c)
    PROVE  PlacesInv'
<1>1. active < MaxStreams /\ active' = active + 1 /\ writes' = writes
  BY DEF Connect, PlaceLeft
<1>2. PICK s \in Stream :
         /\ stream[s].at = "free"
         /\ stream' = [stream EXCEPT ![s] =
               [FreeStream EXCEPT !.at = "accepted", !.cursor = client[c].lastId, !.peer = c]]
  BY DEF Connect
<1> DEFINE k == [FreeStream EXCEPT !.at = "accepted", !.cursor = client[c].lastId, !.peer = c]
<1>3. DOMAIN k = Fields /\ k.at = "accepted"
  BY DEF FreeStream, Fields
<1>4. stream' = [stream EXCEPT ![s] = k]
  BY <1>2
<1> HIDE DEF k
<1>5. \A q \in Stream : stream'[q] = IF q = s THEN k ELSE stream[q]
  BY <1>4 DEF PlacesInv, Streams
<1>7. Streams'
  BY <1>3, <1>4, <1>5 DEF PlacesInv, Streams
<1>8. s \notin Served /\ Served' = Served \cup {s}
  BY <1>2, <1>3, <1>5 DEF Served
<1>9. Cardinality(Served') = Cardinality(Served) + 1
  BY <1>8, ServedFinite, FS_AddElement
<1>10. /\ writes.abandoned \in Nat /\ MaxStreams \in Nat
       /\ active \in Nat /\ active = Cardinality(Served) + writes.abandoned
  BY FeedAssumption DEF PlacesInv, PlacesAccounted, WriteCounts, Served
<1>11. /\ active' \in Nat /\ active' = Cardinality(Served') + writes'.abandoned
       /\ active' <= MaxStreams
  BY <1>1, <1>9, <1>10, ServedFinite
<1> QED BY <1>1, <1>7, <1>11 DEF PlacesInv, PlacesAccounted, Served

LEMMA ServerPlaces ==
    ASSUME PlacesInv, NEW s \in Stream,
           ServerStep(s) \/ Abandon(s) \/ Deadline(s) \/ Disconnected(s)
    PROVE  PlacesInv'
<1>1. /\ DOMAIN stream = Stream /\ DOMAIN stream[s] = Fields
      /\ writes \in WriteCounts
  BY DEF PlacesInv, Streams
<1>2. CASE Begin(s)
  <2> DEFINE k == [stream[s] EXCEPT !.at = "check"]
  <2>1. stream' = [stream EXCEPT ![s] = k]
    BY <1>1, <1>2 DEF Begin
  <2>2. DOMAIN k = Fields /\ k.at = "check"
    BY <1>1 DEF Fields
  <2>3. stream[s].at # "free" /\ writes' = writes /\ active' = active
    BY <1>2 DEF Begin
  <2> HIDE DEF k
  <2> QED BY <1>1, <2>1, <2>2, <2>3, StreamGoesOn
<1>3. CASE CheckSize(s)
  <2>1. stream[s].at # "free" /\ writes' = writes /\ active' = active
    BY <1>3 DEF CheckSize
  <2>2. CASE stream' = [stream EXCEPT ![s].cursor = 0, ![s].at = "stat"]
    <3> DEFINE k == [stream[s] EXCEPT !.cursor = 0, !.at = "stat"]
    <3>1. stream' = [stream EXCEPT ![s] = k]
      BY <1>1, <2>2
    <3>2. DOMAIN k = Fields /\ k.at = "stat"
      BY <1>1 DEF Fields
    <3> HIDE DEF k
    <3> QED BY <1>1, <2>1, <3>1, <3>2, StreamGoesOn
  <2>3. CASE stream' = [stream EXCEPT ![s].at = "stat"]
    <3> DEFINE k == [stream[s] EXCEPT !.at = "stat"]
    <3>1. stream' = [stream EXCEPT ![s] = k]
      BY <1>1, <2>3
    <3>2. DOMAIN k = Fields /\ k.at = "stat"
      BY <1>1 DEF Fields
    <3> HIDE DEF k
    <3> QED BY <1>1, <2>1, <3>1, <3>2, StreamGoesOn
  <2> QED BY <1>3, <2>2, <2>3 DEF CheckSize
<1>4. CASE StatLog(s)
  <2> DEFINE after == IF stream[s].cursor > Len(file) THEN 0 ELSE stream[s].cursor
             k == [stream[s] EXCEPT !.after = after, !.at = "read"]
  <2>1. stream[s].at # "free" /\ writes' = writes /\ active' = active
        /\ stream' = [stream EXCEPT ![s].after = after, ![s].at = "read"]
    BY <1>4 DEF StatLog
  <2> HIDE DEF after
  <2>2. stream' = [stream EXCEPT ![s] = k]
    BY <1>1, <2>1
  <2>3. DOMAIN k = Fields /\ k.at = "read"
    BY <1>1 DEF Fields
  <2> HIDE DEF k
  <2> QED BY <1>1, <2>1, <2>2, <2>3, StreamGoesOn
<1>5. CASE ReadLog(s)
  <2> DEFINE next == Window(stream[s].after).next
  <2>1. stream[s].at # "free" /\ writes' = writes /\ active' = active
        /\ \/ stream' = [stream EXCEPT ![s].cursor = next, ![s].after = 0, ![s].at = "check"]
           \/ stream' = [stream EXCEPT ![s].after = 0, ![s].at = "check", ![s].idle = TRUE]
    BY <1>5 DEF ReadLog
  <2> HIDE DEF next
  <2>2. CASE stream' = [stream EXCEPT ![s].cursor = next, ![s].after = 0, ![s].at = "check"]
    <3> DEFINE k == [stream[s] EXCEPT !.cursor = next, !.after = 0, !.at = "check"]
    <3>1. stream' = [stream EXCEPT ![s] = k]
      BY <1>1, <2>2
    <3>2. DOMAIN k = Fields /\ k.at = "check"
      BY <1>1 DEF Fields
    <3> HIDE DEF k
    <3> QED BY <1>1, <2>1, <3>1, <3>2, StreamGoesOn
  <2>3. CASE stream' = [stream EXCEPT ![s].after = 0, ![s].at = "check", ![s].idle = TRUE]
    <3> DEFINE k == [stream[s] EXCEPT !.after = 0, !.at = "check", !.idle = TRUE]
    <3>1. stream' = [stream EXCEPT ![s] = k]
      BY <1>1, <2>3
    <3>2. DOMAIN k = Fields /\ k.at = "check"
      BY <1>1 DEF Fields
    <3> HIDE DEF k
    <3> QED BY <1>1, <2>1, <3>1, <3>2, StreamGoesOn
  <2> QED BY <2>1, <2>2, <2>3
<1>6. CASE Abandon(s)
  <2>1. writes' \in WriteCounts /\ writes'.abandoned = writes.abandoned + 1
    BY <1>1, <1>6 DEF Abandon, WriteCounts
  <2> QED BY <1>6, <2>1, StreamsLost DEF Abandon
<1>7. CASE Deadline(s)
  <2>1. writes' \in WriteCounts /\ writes'.abandoned = writes.abandoned
    BY <1>1, <1>7 DEF Deadline, WriteCounts
  <2> QED BY <1>7, <2>1, StreamsLost DEF Deadline, EndStream
<1>8. CASE Disconnected(s)
  BY <1>1, <1>8, StreamsLost DEF Disconnected, EndStream
<1> QED BY <1>2, <1>3, <1>4, <1>5, <1>6, <1>7, <1>8 DEF ServerStep

LEMMA DropPlaces ==
    ASSUME PlacesInv, NEW c \in Client, Drop(c)
    PROVE  PlacesInv'
<1> DEFINE left(s) == [stream[s] EXCEPT !.peer = None]
<1>1. \A s \in Stream : DOMAIN stream[s] = Fields
  BY DEF PlacesInv, Streams
<1>2. \A s \in Stream : DOMAIN left(s) = Fields /\ left(s).at = stream[s].at
  BY <1>1 DEF Fields
<1>3. stream' = [s \in Stream |-> IF s = client[c].conn THEN left(s) ELSE stream[s]]
  BY DEF Drop
<1>4. writes' \in WriteCounts /\ writes'.abandoned = writes.abandoned /\ active' = active
  BY DEF Drop, PlacesInv, WriteCounts
<1> HIDE DEF left
<1>5. Streams' /\ \A s \in Stream : stream'[s].at = stream[s].at
  BY <1>1, <1>2, <1>3 DEF Streams
<1> QED BY <1>4, <1>5, StreamsKept

LEMMA PlacesStep ==
    ASSUME PlacesInv, [Next]_vars
    PROVE  PlacesInv'
<1>1. ASSUME UNCHANGED <<active, stream>>, writes' \in WriteCounts,
             writes'.abandoned = writes.abandoned
      PROVE  PlacesInv'
  BY <1>1, StreamsKept DEF PlacesInv, Streams
<1>2. writes \in WriteCounts
  BY DEF PlacesInv
<1>3. CASE UNCHANGED vars
  BY <1>1, <1>2, <1>3 DEF vars, servervars
<1>4. CASE BeginRecord \/ BeginJunk \/ WriteCell \/ Replace
  BY <1>1, <1>2, <1>4, SMTT(40)
    DEF BeginRecord, BeginJunk, WriteCell, Replace, servervars, WriteCounts
<1>5. ASSUME NEW c \in Client,
             Load(c) \/ LoadRaises(c) \/ ReceiveReset(c) \/ ReceiveRecord(c) \/ StreamEnds(c)
      PROVE  PlacesInv'
  <2>1. UNCHANGED <<active, stream, writes>>
    BY <1>5 DEF Load, LoadRaises, ReceiveReset, ReceiveRecord, StreamEnds, servervars
  <2> QED BY <1>1, <1>2, <2>1, SMTT(40)
<1>6. ASSUME NEW c \in Client, Stop(c) PROVE PlacesInv'
  BY <1>1, <1>2, <1>6 DEF Stop, servervars, WriteCounts
<1> QED
  BY <1>3, <1>4, <1>5, <1>6, ServerPlaces, ConnectPlaces, DropPlaces DEF Next, PageStep

\* gateway/api/v1.py, _bounded and events: every place taken is a stream that is
\* still served, or one that was given up before its body began, and the streams
\* are never more than MaxStreams, whenever the server learns that a client has
\* gone.
THEOREM PlacesAreAccounted == Spec => []PlacesAccounted
<1>1. Init => PlacesInv
  BY PlacesBegin
<1>2. PlacesInv /\ [Next]_vars => PlacesInv'
  BY PlacesStep
<1>3. PlacesInv => PlacesAccounted
  BY DEF PlacesInv
<1> QED BY <1>1, <1>2, <1>3, PTL DEF Spec
-----------------------------------------------------------------------------
(* Numbers, and the positions of the log in order.                          *)

LEMMA LeastNumber ==
    ASSUME NEW T, T \subseteq Nat, T # {}
    PROVE  \E x \in T : \A y \in T : x <= y
<1>1. \E x \in T : \A y \in T : ~(<<y, x>> \in OpToRel(<, Nat))
  BY NatLessThanWellFounded, WFMin, Zenon
<1>2. PICK x \in T : \A y \in T : ~(<<y, x>> \in OpToRel(<, Nat))
  BY <1>1
<1>3. \A y \in T : ~(y < x)
  BY <1>2, Zenon DEF OpToRel
<1> QED BY <1>3

\* A set that holds 0, and with each number the next one, up to n.
LEMMA Climb ==
    ASSUME NEW n \in Nat, NEW T, 0 \in T, \A i \in 0..(n - 1) : i \in T => i + 1 \in T
    PROVE  \A i \in 0..n : i \in T
<1> DEFINE U == {i \in Nat : i \in 0..n /\ i \notin T}
<1> SUFFICES ASSUME U # {} PROVE FALSE
  OBVIOUS
<1>1. U \subseteq Nat
  OBVIOUS
<1>2. PICK m \in U : \A i \in U : m <= i
  BY <1>1, LeastNumber
<1>3. m \in 0..n /\ m \notin T /\ m # 0
  BY <1>2
<1>4. m - 1 \in 0..(n - 1) /\ (m - 1) + 1 = m /\ ~(m <= m - 1) /\ m - 1 \in Nat /\ m - 1 \in 0..n
  BY <1>3
<1>5. m - 1 \in T
  BY <1>2, <1>4
<1> QED BY <1>3, <1>4, <1>5

\* That there is a function as Ascending declares it is shown place by place.
Added(S, s, k) == IF k \in S THEN Append(s, k) ELSE s

IsFirst(S, f) ==
    f = [k \in 0..Len(file) |->
            IF k = 0 THEN <<>>
            ELSE IF k \in S THEN Append(f[k - 1], k) ELSE f[k - 1]]

LEMMA AscendingExists ==
    ASSUME Len(file) \in Nat, NEW S
    PROVE  \E f : IsFirst(S, f)
<1> DEFINE Fits(g, j) == /\ g = [k \in 0..j |-> g[k]]
                         /\ g[0] = <<>>
                         /\ \A k \in 1..j : g[k] = Added(S, g[k - 1], k)
           T == {j \in Nat : \E g : Fits(g, j)}
<1>2. 0 \in T
  <2> DEFINE g == [k \in 0..0 |-> <<>>]
  <2>1. Fits(g, 0)
    OBVIOUS
  <2> HIDE DEF g, Fits
  <2> QED BY <2>1
<1>3. ASSUME NEW i \in 0..(Len(file) - 1), i \in T
      PROVE  i + 1 \in T
  <2>1. PICK g : Fits(g, i)
    BY <1>3
  <2> DEFINE h == [k \in 0..(i + 1) |-> IF k = i + 1 THEN Added(S, g[i], i + 1) ELSE g[k]]
  <2>2. h = [k \in 0..(i + 1) |-> h[k]] /\ h[0] = <<>>
    BY <2>1
  <2>3. \A k \in 1..(i + 1) : h[k] = Added(S, h[k - 1], k)
    <3> SUFFICES ASSUME NEW k \in 1..(i + 1) PROVE h[k] = Added(S, h[k - 1], k)
      OBVIOUS
    <3>1. k - 1 \in 0..(i + 1) /\ k - 1 # i + 1 /\ h[k - 1] = g[k - 1] /\ k \in 0..(i + 1)
      OBVIOUS
    <3>2. CASE k = i + 1
      BY <3>1, <3>2
    <3>3. CASE k # i + 1
      <4>1. k \in 1..i /\ h[k] = g[k]
        BY <3>1, <3>3
      <4> QED BY <4>1, <3>1, <2>1
    <3> QED BY <3>2, <3>3
  <2> HIDE DEF h
  <2>4. Fits(h, i + 1)
    BY <2>2, <2>3, Zenon
  <2>5. i + 1 \in Nat
    OBVIOUS
  <2> HIDE DEF Fits
  <2> QED BY <2>4, <2>5
<1>4. PICK f : Fits(f, Len(file))
  <2>1. Len(file) \in 0..Len(file)
    OBVIOUS
  <2>2. \A i \in 0..Len(file) : i \in T
    <3> HIDE DEF T
    <3> QED BY <1>2, <1>3, Climb
  <2> HIDE DEF Fits
  <2> QED BY <2>1, <2>2
<1>5. \A k \in 0..Len(file) : f[k] = IF k = 0 THEN <<>> ELSE Added(S, f[k - 1], k)
  BY <1>4
<1> QED BY <1>4, <1>5, Zenon DEF Added, IsFirst

\* What is listed at the k-th place has k - 1 of the set before it.
LEMMA AscendingIs ==
    ASSUME Len(file) \in Nat, NEW S \in SUBSET (1..Len(file))
    PROVE  /\ Ascending(S) \in Seq(S) /\ Len(Ascending(S)) = Cardinality(S)
           /\ \A k \in 1..Len(Ascending(S)) : Cardinality(S \cap (1..Ascending(S)[k])) = k
<1> DEFINE F == CHOOSE f : IsFirst(S, f)
           Upto(k) == S \cap (1..k)
           Lists(s, k) == /\ s \in Seq(S) /\ Len(s) = Cardinality(Upto(k))
                          /\ \A j \in 1..Len(s) : Cardinality(Upto(s[j])) = j
           T == {k \in 0..Len(file) : Lists(F[k], k)}
<1>1. IsFirst(S, F)
  BY AscendingExists, Zenon
<1>2. Ascending(S) = F[Len(file)]
  BY Zenon DEF Ascending, IsFirst
<1> HIDE DEF F
<1>3. F[0] = <<>>
  <2>1. 0 \in 0..Len(file)
    OBVIOUS
  <2> QED BY <1>1, <2>1 DEF IsFirst
<1>4. ASSUME NEW k \in 1..Len(file)
      PROVE  F[k] = Added(S, F[k - 1], k)
  <2>1. k \in 0..Len(file) /\ k # 0
    OBVIOUS
  <2> QED BY <1>1, <2>1 DEF Added, IsFirst
<1>5. 0 \in T
  <2>1. Upto(0) = {} /\ 0 \in 0..Len(file)
    OBVIOUS
  <2>2. <<>> \in Seq(S) /\ Len(<<>>) = 0
    BY EmptySeq
  <2>3. Lists(<<>>, 0)
    BY <2>1, <2>2, FS_EmptySet
  <2> HIDE DEF Lists
  <2> QED BY <1>3, <2>1, <2>3
<1>6. ASSUME NEW k \in 0..(Len(file) - 1), k \in T
      PROVE  k + 1 \in T
  <2>1. k + 1 \in 1..Len(file) /\ (k + 1) - 1 = k /\ k + 1 \in 0..Len(file)
    OBVIOUS
  <2>2. F[k + 1] = Added(S, F[k], k + 1) /\ Lists(F[k], k)
    BY <1>4, <1>6, <2>1
  <2>3. CASE k + 1 \in S
    <3>1. Upto(k + 1) = Upto(k) \cup {k + 1} /\ k + 1 \notin Upto(k)
      BY <2>3
    <3>2. IsFiniteSet(Upto(k))
      <4>1. IsFiniteSet(1..k)
        BY FS_Interval
      <4> QED BY <4>1, FS_Intersection
    <3>3. F[k + 1] = Append(F[k], k + 1)
      BY <2>2, <2>3 DEF Added
    <3> HIDE DEF Upto
    <3>4. Cardinality(Upto(k + 1)) = Cardinality(Upto(k)) + 1 /\ Cardinality(Upto(k)) \in Nat
      BY <3>1, <3>2, FS_AddElement, FS_CardinalityType
    <3>5. /\ F[k + 1] \in Seq(S) /\ Len(F[k + 1]) = Len(F[k]) + 1
          /\ \A j \in 1..Len(F[k]) : F[k + 1][j] = F[k][j]
          /\ F[k + 1][Len(F[k]) + 1] = k + 1
      BY <3>3, <2>2, <2>3, AppendProperties
    <3>6. Len(F[k]) = Cardinality(Upto(k)) /\ \A j \in 1..Len(F[k]) : Cardinality(Upto(F[k][j])) = j
      BY <2>2
    <3>7. \A j \in 1..Len(F[k + 1]) : Cardinality(Upto(F[k + 1][j])) = j
      <4> SUFFICES ASSUME NEW j \in 1..Len(F[k + 1]) PROVE Cardinality(Upto(F[k + 1][j])) = j
        OBVIOUS
      <4>1. CASE j \in 1..Len(F[k])
        BY <4>1, <3>5, <3>6
      <4>2. CASE j = Len(F[k]) + 1
        BY <4>2, <3>4, <3>5, <3>6
      <4> QED BY <4>1, <4>2, <3>4, <3>5, <3>6
    <3>8. Lists(F[k + 1], k + 1)
      BY <3>4, <3>5, <3>6, <3>7
    <3> HIDE DEF Lists
    <3> QED BY <3>8, <2>1
  <2>4. CASE k + 1 \notin S
    <3>1. Upto(k + 1) = Upto(k)
      BY <2>4
    <3>2. F[k + 1] = F[k]
      BY <2>2, <2>4 DEF Added
    <3> HIDE DEF Upto
    <3> QED BY <3>1, <3>2, <2>2, <2>1
  <2> QED BY <2>3, <2>4
<1>7. Len(file) \in T
  <2> HIDE DEF T
  <2>1. Len(file) \in 0..Len(file)
    OBVIOUS
  <2> QED BY <2>1, <1>5, <1>6, Climb
<1>8. Upto(Len(file)) = S
  OBVIOUS
<1> QED BY <1>2, <1>7, <1>8

-----------------------------------------------------------------------------
(* The types.                                                               *)

LEMMA MinIs ==
    ASSUME NEW S \in SUBSET Nat, S # {}
    PROVE  Min(S) \in S /\ \A y \in S : Min(S) <= y
<1>1. PICK x \in S : \A y \in S : x <= y
  BY LeastNumber
<1> QED BY <1>1 DEF Min

LEMMA MaxIs ==
    ASSUME NEW n \in Nat, NEW S \in SUBSET (0..n), S # {}
    PROVE  Max(S) \in S /\ \A y \in S : y <= Max(S)
<1> DEFINE T == {n - x : x \in S}
<1>1. T \subseteq Nat /\ T # {}
  <2>1. PICK x \in S : TRUE
    OBVIOUS
  <2>2. n - x \in T
    OBVIOUS
  <2>3. \A y \in S : n - y \in Nat
    OBVIOUS
  <2> QED BY <2>2, <2>3
<1>2. PICK t \in T : \A y \in T : t <= y
  BY <1>1, LeastNumber
<1>3. n - t \in S
  BY <1>2
<1>4. \A y \in S : n - t >= y
  <2> SUFFICES ASSUME NEW y \in S PROVE n - t >= y
    OBVIOUS
  <2>1. t <= n - y
    BY <1>2
  <2> QED BY <2>1, <1>1, <1>2
<1> HIDE DEF T
<1>5. \E x \in S : \A y \in S : x >= y
  BY <1>3, <1>4
<1>6. Max(S) \in S /\ \A y \in S : Max(S) >= y
  BY <1>5 DEF Max
<1> QED BY <1>6

LEMMA MinOfTwo ==
    ASSUME NEW a \in Nat, NEW b \in Nat
    PROVE  Min({a, b}) = IF a <= b THEN a ELSE b
<1>1. Min({a, b}) \in {a, b} /\ \A y \in {a, b} : Min({a, b}) <= y
  BY MinIs
<1> QED BY <1>1

LEMMA MaxOfTwo ==
    ASSUME NEW a \in Nat, NEW b \in Nat
    PROVE  Max({a, b}) = IF a <= b THEN b ELSE a
<1>0. a + b \in Nat /\ {a, b} \in SUBSET (0..(a + b)) /\ {a, b} # {}
  OBVIOUS
<1>1. Max({a, b}) \in {a, b} /\ \A y \in {a, b} : y <= Max({a, b})
  BY <1>0, MaxIs
<1> QED BY <1>1

\* One read, taken apart: how far it looks, the ends of the records it returns,
\* and the three ways in which its cursor moves on.
Reads(after, upto, n, ends) ==
    /\ upto = (IF Len(file) <= after + MaxRead THEN Len(file) ELSE after + MaxRead)
    /\ Len(ends) = n
    /\ \A k \in 1..n : /\ ends[k] \in RecordEnds(after, upto)
                       /\ Cardinality(RecordEnds(after, upto) \cap (1..ends[k])) = k
    /\ Window(after).records = [k \in 1..n |-> file[ends[k]].of]
    /\ \/ n = PageLimit /\ Window(after).next = ends[n]
       \/ /\ n < PageLimit /\ n = Cardinality(RecordEnds(after, upto))
          /\ \/ /\ Window(after).next \in Newlines(after, upto)
                /\ \A i \in Newlines(after, upto) : i <= Window(after).next
             \/ /\ Newlines(after, upto) = {} /\ upto - after >= MaxRead
                /\ Window(after).next = SkipOversized(upto)
             \/ Newlines(after, upto) = {} /\ Window(after).next = after

LEMMA WindowIs ==
    ASSUME file \in Seq(Cell), NEW after \in Nat
    PROVE  \E upto \in 0..Len(file), n \in 0..PageLimit, ends \in Seq(1..Len(file)) :
              Reads(after, upto, n, ends)
<1> DEFINE upto == Min({Len(file), after + MaxRead})
           E == RecordEnds(after, upto)
           L == Newlines(after, upto)
           all == Ascending(E)
           n == Min({Len(all), PageLimit})
           ends == SubSeq(all, 1, n)
<1>1. Len(file) \in Nat /\ MaxRead \in Nat /\ PageLimit \in Nat \ {0}
  BY LenProperties, FeedAssumption
<1>2. /\ upto = (IF Len(file) <= after + MaxRead THEN Len(file) ELSE after + MaxRead)
      /\ upto \in 0..Len(file)
  BY <1>1, MinOfTwo
<1> HIDE DEF upto
<1>3. L \in SUBSET (1..Len(file)) /\ E \in SUBSET (1..Len(file)) /\ E \subseteq L
  BY <1>1, <1>2 DEF Newlines, RecordEnds
<1>w. Window(after) =
        [records |-> [k \in DOMAIN ends |-> file[ends[k]].of],
         next    |->
            CASE Len(ends) = PageLimit            -> Last(ends)
              [] L # {} /\ Len(ends) < PageLimit  -> Max(L)
              [] L = {} /\ upto - after >= MaxRead -> SkipOversized(upto)
              [] OTHER                            -> after]
  BY DEF Window, upto
<1> HIDE DEF E, L
<1>4. /\ all \in Seq(E) /\ Len(all) = Cardinality(E) /\ Len(all) \in Nat
      /\ \A k \in 1..Len(all) : Cardinality(E \cap (1..all[k])) = k
  BY <1>1, <1>3, AscendingIs, LenProperties
<1> HIDE DEF all
<1>5. n = (IF Len(all) <= PageLimit THEN Len(all) ELSE PageLimit)
  BY <1>1, <1>4, MinOfTwo
<1>6. n \in 0..PageLimit /\ n <= Len(all) /\ n \in Nat
  BY <1>1, <1>4, <1>5
<1> HIDE DEF n
<1>7. \A k \in 1..n : all[k] \in E
  BY <1>4, <1>6, ElementOfSeq
<1>8. ends \in Seq(E) /\ Len(ends) = n /\ \A k \in 1..n : ends[k] = all[k]
  BY <1>6, <1>7, SubSeqProperties
<1>9. ends \in Seq(1..Len(file)) /\ DOMAIN ends = 1..n
  BY <1>3, <1>8, SeqMonotonic, LenProperties
<1> HIDE DEF ends
<1>10. \A k \in 1..n : ends[k] \in E /\ Cardinality(E \cap (1..ends[k])) = k
  BY <1>4, <1>6, <1>7, <1>8
<1>11. Window(after).records = [k \in 1..n |-> file[ends[k]].of]
  BY <1>w, <1>9
<1>12. \/ n = PageLimit /\ Window(after).next = ends[n]
       \/ /\ n < PageLimit /\ n = Cardinality(E)
          /\ \/ Window(after).next \in L /\ \A i \in L : i <= Window(after).next
             \/ L = {} /\ upto - after >= MaxRead /\ Window(after).next = SkipOversized(upto)
             \/ L = {} /\ Window(after).next = after
  <2>1. CASE n = PageLimit
    <3>0. /\ Len(ends) = PageLimit /\ ~(Len(ends) < PageLimit)
          /\ L # {}
      <4>1. 1 \in 1..n
        BY <2>1, <1>1
      <4>2. all[1] \in L
        BY <4>1, <1>3, <1>7
      <4>3. Len(ends) = PageLimit
        BY <2>1, <1>8
      <4> QED BY <4>2, <4>3, <1>1
    <3>1. Window(after).next = Last(ends)
      BY <1>w, <3>0
    <3>2. Last(ends) = ends[n]
      BY <3>0, <2>1 DEF Last
    <3> QED BY <2>1, <3>1, <3>2
  <2>2. CASE n # PageLimit
    <3>1. /\ n < PageLimit /\ n = Cardinality(E)
          /\ Len(ends) # PageLimit /\ Len(ends) < PageLimit
      BY <1>1, <1>4, <1>5, <1>6, <1>8, <2>2
    <3>2. CASE L # {}
      <4>1. Window(after).next = Max(L)
        BY <1>w, <3>1, <3>2
      <4>2. Max(L) \in L /\ \A y \in L : y <= Max(L)
        <5>1. L \in SUBSET (0..Len(file))
          BY <1>3
        <5> QED BY <5>1, <1>1, <3>2, MaxIs
      <4> QED BY <3>1, <4>1, <4>2
    <3>3. CASE L = {} /\ upto - after >= MaxRead
      <4>1. Window(after).next = SkipOversized(upto)
        BY <1>w, <3>1, <3>3
      <4> QED BY <3>1, <3>3, <4>1
    <3>4. CASE L = {} /\ ~(upto - after >= MaxRead)
      <4>1. Window(after).next = after
        BY <1>w, <3>1, <3>4
      <4> QED BY <3>1, <3>4, <4>1
    <3> QED BY <3>2, <3>3, <3>4
  <2> QED BY <2>1, <2>2
<1>13. /\ n \in 0..PageLimit /\ ends \in Seq(1..Len(file)) /\ Len(ends) = n
  BY <1>6, <1>8, <1>9
<1>14. Reads(after, upto, n, ends)
  BY <1>2, <1>8, <1>10, <1>11, <1>12, Zenon DEF Reads, E, L
<1> QED BY <1>2, <1>13, <1>14

LEMMA CellsAre ==
    ASSUME file \in Seq(Cell)
    PROVE  \A i \in 1..Len(file) : file[i].of \in Nat /\ file[i].ends \in BOOLEAN
<1> SUFFICES ASSUME NEW i \in 1..Len(file)
             PROVE  file[i].of \in Nat /\ file[i].ends \in BOOLEAN
  OBVIOUS
<1>1. file[i] \in Cell
  BY ElementOfSeq
<1> QED BY <1>1 DEF Cell

LEMMA SkipOversizedIs ==
    ASSUME file \in Seq(Cell), NEW upto \in 0..Len(file)
    PROVE  /\ SkipOversized(upto) \in upto..Len(file)
           /\ \/ /\ SkipOversized(upto) \in Newlines(upto, Len(file))
                 /\ \A i \in Newlines(upto, Len(file)) : SkipOversized(upto) <= i
              \/ Newlines(upto, Len(file)) = {} /\ SkipOversized(upto) = Len(file)
<1> DEFINE L == Newlines(upto, Len(file))
<1>1. Len(file) \in Nat /\ L \in SUBSET (upto + 1..Len(file))
  BY LenProperties DEF Newlines
<1>2. SkipOversized(upto) = IF L # {} THEN Min(L) ELSE Len(file)
  BY DEF SkipOversized
<1> HIDE DEF L
<1>3. CASE L # {}
  <2>1. Min(L) \in L /\ \A y \in L : Min(L) <= y
    BY <1>1, <1>3, MinIs
  <2> QED BY <1>1, <1>2, <1>3, <2>1 DEF L
<1> QED BY <1>1, <1>2, <1>3 DEF L

LEMMA WindowTypes ==
    ASSUME file \in Seq(Cell), NEW after \in Nat
    PROVE  Window(after).records \in Seq(Nat) /\ Window(after).next \in Nat
<1>1. PICK upto \in 0..Len(file), n \in 0..PageLimit, ends \in Seq(1..Len(file)) :
         Reads(after, upto, n, ends)
  BY WindowIs
<1>2. /\ Len(file) \in Nat /\ PageLimit \in Nat \ {0}
      /\ \A i \in 1..Len(file) : file[i].of \in Nat
  BY LenProperties, CellsAre, FeedAssumption
<1>3. \A k \in 1..n : ends[k] \in 1..Len(file)
  BY <1>1, ElementOfSeq DEF Reads
<1>4. \A k \in 1..n : file[ends[k]].of \in Nat
  BY <1>2, <1>3
<1>5. [k \in 1..n |-> file[ends[k]].of] \in Seq(Nat)
  BY <1>2, <1>4
<1>6. SkipOversized(upto) \in Nat /\ \A i \in Newlines(after, upto) : i \in Nat
  BY <1>1, <1>2, SkipOversizedIs DEF Newlines
<1>7. n = PageLimit => ends[n] \in Nat
  BY <1>2, <1>3
<1>8. /\ Window(after).records = [k \in 1..n |-> file[ends[k]].of]
      /\ \/ n = PageLimit /\ Window(after).next = ends[n]
         \/ Window(after).next \in Newlines(after, upto)
         \/ Window(after).next = SkipOversized(upto)
         \/ Window(after).next = after
  BY <1>1 DEF Reads
<1> QED BY <1>5, <1>6, <1>7, <1>8

\* The records of the first u cells.
LEMMA RecordsUpto ==
    ASSUME file \in Seq(Cell), NEW u \in 0..Len(file)
    PROVE  /\ Records(0, u) \in Seq(Nat)
           /\ Len(Records(0, u)) = Cardinality(RecordEnds(0, u))
           /\ \A k \in 1..Len(Records(0, u)) :
                 \E i \in RecordEnds(0, u) :
                    /\ Records(0, u)[k] = file[i].of
                    /\ Cardinality(RecordEnds(0, u) \cap (1..i)) = k
<1> DEFINE E == RecordEnds(0, u)
           A == Ascending(E)
           r == Records(0, u)
<1>1. /\ Len(file) \in Nat /\ E \in SUBSET (1..Len(file))
      /\ \A i \in 1..Len(file) : file[i].of \in Nat
  BY LenProperties, CellsAre DEF RecordEnds, Newlines
<1>2. r = [k \in DOMAIN A |-> file[A[k]].of]
  BY DEF Records
<1> HIDE DEF E, r
<1>3. /\ A \in Seq(E) /\ Len(A) = Cardinality(E)
      /\ \A k \in 1..Len(A) : Cardinality(E \cap (1..A[k])) = k
  BY <1>1, AscendingIs
<1> HIDE DEF A
<1>4. DOMAIN A = 1..Len(A) /\ Len(A) \in Nat /\ \A k \in 1..Len(A) : A[k] \in E
  BY <1>3, LenProperties, ElementOfSeq
<1>5. \A k \in 1..Len(A) : file[A[k]].of \in Nat
  BY <1>1, <1>4
<1>6. r = [k \in 1..Len(A) |-> file[A[k]].of]
  BY <1>2, <1>4
<1>7. r \in Seq(Nat) /\ Len(r) = Len(A)
  BY <1>4, <1>5, <1>6
<1>8. \A k \in 1..Len(r) : r[k] = file[A[k]].of
  BY <1>4, <1>6, <1>7
<1>9. \A k \in 1..Len(r) : A[k] \in E /\ r[k] = file[A[k]].of /\ Cardinality(E \cap (1..A[k])) = k
  BY <1>3, <1>4, <1>7, <1>8
<1> QED BY <1>3, <1>7, <1>9 DEF E, r

\* All the records of the log.
LEMMA RecordsIs ==
    ASSUME file \in Seq(Cell)
    PROVE  /\ Records(0, Len(file)) \in Seq(Nat)
           /\ Len(Records(0, Len(file))) = Cardinality(RecordEnds(0, Len(file)))
           /\ \A k \in 1..Len(Records(0, Len(file))) :
                 \E i \in RecordEnds(0, Len(file)) :
                    /\ Records(0, Len(file))[k] = file[i].of
                    /\ Cardinality(RecordEnds(0, Len(file)) \cap (1..i)) = k
<1>1. Len(file) \in 0..Len(file)
  BY LenProperties
<1> QED BY <1>1, RecordsUpto

\* Where the newest m of n begin.
LEMMA NewestFrom ==
    ASSUME NEW n \in Nat, NEW m \in Nat \ {0}
    PROVE  Max({1, n - m + 1}) = IF n > m THEN n - m + 1 ELSE 1
<1>1. CASE n > m
  BY <1>1, MaxOfTwo
<1>2. CASE ~(n > m)
  <2>1. 1 \in {1, n - m + 1} /\ \A y \in {1, n - m + 1} : 1 >= y
    BY <1>2
  <2>2. \A x \in {1, n - m + 1} : x >= 1 => x = 1
    BY <1>2
  <2> QED BY <1>2, <2>1, <2>2 DEF Max
<1> QED BY <1>1, <1>2

\* The newest of its records, by their number.
LEMMA TailTypes ==
    ASSUME file \in Seq(Cell)
    PROVE  /\ TailPage.records \in Seq(Nat) /\ TailPage.next \in Nat
           /\ TailPage.next \in Newlines(0, Len(file)) \cup {0}
           /\ \A i \in Newlines(0, Len(file)) : i <= TailPage.next
           /\ LET all == Records(0, Len(file))
                  n   == Len(TailPage.records) IN
              /\ n \in 0..TailRows /\ n \in 0..Len(all)
              /\ TailPage.records = SubSeq(all, Len(all) - n + 1, Len(all))
              /\ Len(file) <= MaxRead =>
                    n = IF Len(all) > TailRows THEN TailRows ELSE Len(all)
<1> DEFINE all == Records(0, Len(file))
           E == RecordEnds(0, Len(file))
           L == Newlines(0, Len(file)) \cup {0}
           n == Min({TailRows, Cardinality(Scanned)})
<1>1. all \in Seq(Nat) /\ Len(all) \in Nat /\ Len(all) = Cardinality(E) /\ TailRows \in Nat \ {0}
  BY RecordsIs, LenProperties, FeedAssumption
<1>2. L \in SUBSET (0..Len(file)) /\ L # {} /\ Len(file) \in Nat
  BY LenProperties DEF Newlines
<1>3. TailPage = [records |-> SubSeq(all, Len(all) - n + 1, Len(all)), next |-> Max(L)]
  BY DEF TailPage
<1>4. Scanned \subseteq E /\ (Len(file) <= MaxRead => Scanned = E)
  <2>1. Scanned \subseteq E
    BY DEF Scanned
  <2>2. ASSUME Len(file) <= MaxRead PROVE Scanned = E
    <3>1. MaxRead \in Nat
      BY FeedAssumption
    <3>2. Max({0, Len(file) - MaxRead}) = 0
      <4>1. \A x \in {0, Len(file) - MaxRead} : 0 >= x
        BY <1>2, <2>2, <3>1
      <4>2. \A x \in {0, Len(file) - MaxRead} :
               (\A y \in {0, Len(file) - MaxRead} : x >= y) => x = 0
        BY <1>2, <2>2, <3>1
      <4> QED BY <4>1, <4>2 DEF Max
    <3> QED BY <3>2 DEF Scanned
  <2> QED BY <2>1, <2>2
<1>5. IsFiniteSet(E)
  <2>1. IsFiniteSet(1..Len(file)) /\ E \subseteq 1..Len(file)
    BY <1>2, FS_Interval DEF RecordEnds, Newlines
  <2> HIDE DEF E
  <2> QED BY <2>1, FS_Subset
<1> HIDE DEF E, all, L
<1>6. /\ Cardinality(Scanned) \in Nat /\ Cardinality(Scanned) <= Cardinality(E)
      /\ Len(file) <= MaxRead => Cardinality(Scanned) = Cardinality(E)
  BY <1>4, <1>5, FS_Subset, FS_CardinalityType
<1>7. n = IF TailRows <= Cardinality(Scanned) THEN TailRows ELSE Cardinality(Scanned)
  BY <1>1, <1>6, MinOfTwo
<1> HIDE DEF n
<1>8. /\ n \in 0..TailRows /\ n \in 0..Len(all)
      /\ Len(file) <= MaxRead => n = IF Len(all) > TailRows THEN TailRows ELSE Len(all)
  BY <1>1, <1>6, <1>7
<1>9. Max(L) \in L /\ \A y \in L : y <= Max(L)
  BY <1>2, MaxIs
<1>10. \A i \in 1..Len(all) : all[i] \in Nat
  BY <1>1, ElementOfSeq
<1> DEFINE from == Len(all) - n + 1
<1>11. from \in Int /\ Len(all) \in Int /\ \A i \in from..Len(all) : all[i] \in Nat
  BY <1>1, <1>8, <1>10
<1>12. from \in 1..Len(all) + 1 /\ Len(all) - from + 1 = n
  BY <1>1, <1>8
<1> HIDE DEF from
<1>13. /\ SubSeq(all, from, Len(all)) \in Seq(Nat)
       /\ Len(SubSeq(all, from, Len(all))) = IF from <= Len(all) THEN Len(all) - from + 1 ELSE 0
  BY <1>11, SubSeqProperties
<1>14. Len(SubSeq(all, from, Len(all))) = n
  BY <1>1, <1>8, <1>12, <1>13
<1>15. TailPage.records = SubSeq(all, from, Len(all)) /\ TailPage.next = Max(L)
  BY <1>3 DEF from
<1>16. TailPage.next \in Nat
  <2>1. Max(L) \in 0..Len(file)
    BY <1>2, <1>9
  <2> QED BY <1>2, <1>15, <2>1
<1>17. TailPage.next \in L /\ \A i \in L : i <= TailPage.next
  BY <1>9, <1>15
<1>18. Newlines(0, Len(file)) \subseteq L /\ L = Newlines(0, Len(file)) \cup {0}
  BY DEF L
<1>19. Len(TailPage.records) = n /\ TailPage.records = SubSeq(all, Len(all) - n + 1, Len(all))
  BY <1>14, <1>15 DEF from
<1> QED BY <1>8, <1>13, <1>15, <1>16, <1>17, <1>18, <1>19 DEF all

StreamRec == [at: {"free", "accepted", "check", "stat", "read"}, cursor: Nat, after: Nat,
              peer: Client \cup {None}, idle: BOOLEAN]

\* A reset says where to begin.
Told == {e \in Event : e.event = "reset" => e.id \in Nat}

PageRec == [at: {"load", "connect", "live", "stopped"}, lastId: Nat,
            conn: Stream \cup {None}, wire: Seq(Told), seen: Seq(Nat)]

FeedTypes ==
    /\ file \in Seq(Cell) /\ pending \in Seq(Cell)
    /\ stream \in [Stream -> StreamRec]
    /\ client \in [Client -> PageRec]
    /\ rows \in [Client -> Seq(Nat)] /\ given \in [Client -> Seq(Nat)]
    /\ writes \in WriteCounts

\* A page or a stream with other fields.
Page(at, lastId, conn, wire, seen) ==
    [at |-> at, lastId |-> lastId, conn |-> conn, wire |-> wire, seen |-> seen]

StreamOf(at, cursor, after, peer, idle) ==
    [at |-> at, cursor |-> cursor, after |-> after, peer |-> peer, idle |-> idle]

PageFields == {"at", "lastId", "conn", "wire", "seen"}

LEMMA PageKeeps ==
    ASSUME NEW p \in PageRec
    PROVE  /\ p = Page(p.at, p.lastId, p.conn, p.wire, p.seen)
           /\ \A x : [p EXCEPT !.at = x] = Page(x, p.lastId, p.conn, p.wire, p.seen)
           /\ \A x : [p EXCEPT !.conn = x] = Page(p.at, p.lastId, x, p.wire, p.seen)
           /\ \A x : [p EXCEPT !.wire = x] = Page(p.at, p.lastId, p.conn, x, p.seen)
<1>1. p = Page(p.at, p.lastId, p.conn, p.wire, p.seen)
  BY DEF PageRec, Page
<1>2. \A x : [p EXCEPT !.at = x] = Page(x, p.lastId, p.conn, p.wire, p.seen)
  BY DEF PageRec, Page
<1>3. \A x : [p EXCEPT !.conn = x] = Page(p.at, p.lastId, x, p.wire, p.seen)
  BY DEF PageRec, Page
<1>4. \A x : [p EXCEPT !.wire = x] = Page(p.at, p.lastId, p.conn, x, p.seen)
  BY SMTT(40) DEF PageRec, Page
<1> QED BY <1>1, <1>2, <1>3, <1>4

LEMMA PageIs ==
    ASSUME NEW k, k = [i \in PageFields |-> k[i]]
    PROVE  k = Page(k.at, k.lastId, k.conn, k.wire, k.seen)
BY DEF Page, PageFields

LEMMA StreamKeeps ==
    ASSUME NEW p \in StreamRec
    PROVE  /\ p = StreamOf(p.at, p.cursor, p.after, p.peer, p.idle)
           /\ \A x : [p EXCEPT !.at = x] = StreamOf(x, p.cursor, p.after, p.peer, p.idle)
           /\ \A x : [p EXCEPT !.peer = x] = StreamOf(p.at, p.cursor, p.after, x, p.idle)
<1>1. p = StreamOf(p.at, p.cursor, p.after, p.peer, p.idle)
  BY DEF StreamRec, StreamOf
<1>2. \A x : [p EXCEPT !.at = x] = StreamOf(x, p.cursor, p.after, p.peer, p.idle)
  BY DEF StreamRec, StreamOf
<1>3. \A x : [p EXCEPT !.peer = x] = StreamOf(p.at, p.cursor, p.after, x, p.idle)
  BY DEF StreamRec, StreamOf
<1> QED BY <1>1, <1>2, <1>3

LEMMA StreamIs ==
    ASSUME NEW k, k = [i \in Fields |-> k[i]]
    PROVE  k = StreamOf(k.at, k.cursor, k.after, k.peer, k.idle)
BY DEF StreamOf, Fields

-----------------------------------------------------------------------------
(* What each step does to its page and its stream.                          *)

LEMMA Typed ==
    ASSUME FeedTypes
    PROVE  /\ \A c \in Client : /\ client[c] \in PageRec /\ client[c].lastId \in Nat
                                /\ client[c].wire \in Seq(Told) /\ client[c].seen \in Seq(Nat)
                                /\ client[c].conn \in Stream \cup {None}
                                /\ client[c].at \in {"load", "connect", "live", "stopped"}
           /\ \A s \in Stream : /\ stream[s] \in StreamRec
                                /\ stream[s].cursor \in Nat /\ stream[s].after \in Nat
                                /\ stream[s].peer \in Client \cup {None}
           /\ DOMAIN client = Client /\ DOMAIN stream = Stream
<1>1. \A c \in Client : client[c] \in PageRec
  BY DEF FeedTypes
<1>2. \A s \in Stream : stream[s] \in StreamRec
  BY DEF FeedTypes
<1>3. DOMAIN client = Client /\ DOMAIN stream = Stream
  BY DEF FeedTypes
<1>4. \A p \in PageRec : /\ p.lastId \in Nat /\ p.wire \in Seq(Told) /\ p.seen \in Seq(Nat)
                         /\ p.conn \in Stream \cup {None}
                         /\ p.at \in {"load", "connect", "live", "stopped"}
  BY DEF PageRec
<1>5. \A p \in StreamRec : p.cursor \in Nat /\ p.after \in Nat /\ p.peer \in Client \cup {None}
  BY DEF StreamRec
<1> QED BY <1>1, <1>2, <1>3, <1>4, <1>5

LEMMA NotOne == None \notin Client /\ \A s \in Stream : s # None /\ s \in Nat
<1>1. MaxStreams \in Nat /\ None \notin Client \cup Nat
  BY FeedAssumption
<1>2. \A s \in Stream : s \in Nat
  BY <1>1 DEF Stream
<1> QED BY <1>1, <1>2

\* The events reach the page, if it is still there.
LEMMA SendDoes ==
    ASSUME FeedTypes, NEW s \in Stream, NEW events, Send(s, events)
    PROVE  LET c == stream[s].peer IN
           \/ c = None /\ client' = client
           \/ /\ c \in Client
              /\ client' = [client EXCEPT ![c] =
                    Page(client[c].at, client[c].lastId, client[c].conn,
                         client[c].wire \o events, client[c].seen)]
<1>1. CASE stream[s].peer = None
  BY <1>1 DEF Send
<1>2. CASE stream[s].peer # None
  <2>1. PICK c : c = stream[s].peer
    OBVIOUS
  <2>2. c \in Client /\ client[c] \in PageRec
    BY <1>2, <2>1, Typed
  <2>3. client' = [client EXCEPT ![c].wire = @ \o events]
    BY <1>2, <2>1 DEF Send
  <2>4. client' = [client EXCEPT ![c] = [client[c] EXCEPT !.wire = client[c].wire \o events]]
    BY <2>3
  <2>5. client' = [client EXCEPT ![c] =
           Page(client[c].at, client[c].lastId, client[c].conn,
                client[c].wire \o events, client[c].seen)]
    BY <2>2, <2>4, PageKeeps
  <2> QED BY <2>1, <2>2, <2>5
<1> QED BY <1>1, <1>2

LEMMA BeginDoes ==
    ASSUME FeedTypes, NEW s \in Stream, Begin(s)
    PROVE  LET p == stream[s] IN
           stream' = [stream EXCEPT ![s] = StreamOf("check", p.cursor, p.after, p.peer, p.idle)]
<1>1. stream[s] \in StreamRec
  BY Typed
<1>2. stream' = [stream EXCEPT ![s] = [stream[s] EXCEPT !.at = "check"]]
  BY DEF Begin
<1> QED BY <1>1, <1>2, StreamKeeps

LEMMA CheckSizeDoes ==
    ASSUME FeedTypes, NEW s \in Stream, CheckSize(s)
    PROVE  LET p == stream[s] IN
           IF p.cursor > Len(file)
           THEN /\ stream' = [stream EXCEPT ![s] = StreamOf("stat", 0, p.after, p.peer, p.idle)]
                /\ Send(s, <<[event |-> "reset", of |-> JUNK, id |-> 0]>>)
           ELSE /\ stream' = [stream EXCEPT ![s] =
                                 StreamOf("stat", p.cursor, p.after, p.peer, p.idle)]
                /\ client' = client
<1>1. stream[s] \in StreamRec
  BY Typed
<1>2. CASE stream[s].cursor > Len(file)
  <2>1. stream' = [stream EXCEPT ![s] = [stream[s] EXCEPT !.cursor = 0, !.at = "stat"]]
    BY <1>1, <1>2 DEF CheckSize, StreamRec
  <2>2. [stream[s] EXCEPT !.cursor = 0, !.at = "stat"]
           = StreamOf("stat", 0, stream[s].after, stream[s].peer, stream[s].idle)
    <3> DEFINE k == [stream[s] EXCEPT !.cursor = 0, !.at = "stat"]
    <3>1. k = [i \in Fields |-> k[i]]
      BY <1>1 DEF StreamRec, Fields
    <3>2. k.at = "stat" /\ k.cursor = 0 /\ k.after = stream[s].after /\ k.peer = stream[s].peer /\ k.idle = stream[s].idle
      BY <1>1 DEF StreamRec
    <3> HIDE DEF k
    <3>3. k = StreamOf("stat", 0, stream[s].after, stream[s].peer, stream[s].idle)
      BY <3>1, <3>2, StreamIs
    <3> QED BY <3>3 DEF k
  <2> QED BY <1>2, <2>1, <2>2 DEF CheckSize
<1>3. CASE ~(stream[s].cursor > Len(file))
  <2>1. stream' = [stream EXCEPT ![s] = [stream[s] EXCEPT !.at = "stat"]]
    BY <1>3 DEF CheckSize
  <2> QED BY <1>1, <1>3, <2>1, StreamKeeps DEF CheckSize
<1> QED BY <1>2, <1>3

LEMMA StatLogDoes ==
    ASSUME FeedTypes, NEW s \in Stream, StatLog(s)
    PROVE  LET p == stream[s] IN
           stream' = [stream EXCEPT ![s] =
              StreamOf("read", p.cursor, IF p.cursor > Len(file) THEN 0 ELSE p.cursor,
                       p.peer, p.idle)]
<1>1. stream[s] \in StreamRec
  BY Typed
<1> DEFINE a == IF stream[s].cursor > Len(file) THEN 0 ELSE stream[s].cursor
<1>2. stream' = [stream EXCEPT ![s].after = a, ![s].at = "read"]
  BY DEF StatLog
<1> HIDE DEF a
<1>3. stream' = [stream EXCEPT ![s] = [stream[s] EXCEPT !.after = a, !.at = "read"]]
  BY <1>1, <1>2 DEF StreamRec
<1>4. [stream[s] EXCEPT !.after = a, !.at = "read"]
         = StreamOf("read", stream[s].cursor, a, stream[s].peer, stream[s].idle)
  <2> DEFINE k == [stream[s] EXCEPT !.after = a, !.at = "read"]
  <2>1. k = [i \in Fields |-> k[i]]
    BY <1>1 DEF StreamRec, Fields
  <2>2. k.at = "read" /\ k.cursor = stream[s].cursor /\ k.after = a /\ k.peer = stream[s].peer /\ k.idle = stream[s].idle
    BY <1>1 DEF StreamRec
  <2> HIDE DEF k
  <2>3. k = StreamOf("read", stream[s].cursor, a, stream[s].peer, stream[s].idle)
    BY <2>1, <2>2, StreamIs
  <2> QED BY <2>3 DEF k
<1> QED BY <1>3, <1>4 DEF a

LEMMA ReadLogDoes ==
    ASSUME FeedTypes, NEW s \in Stream, ReadLog(s)
    PROVE  LET p == stream[s]
               w == Window(p.after) IN
           \/ /\ w.next # p.cursor /\ Send(s, PageEvents(w))
              /\ stream' = [stream EXCEPT ![s] = StreamOf("check", w.next, 0, p.peer, p.idle)]
           \/ /\ w.next = p.cursor /\ client' = client
              /\ stream' = [stream EXCEPT ![s] = StreamOf("check", p.cursor, 0, p.peer, TRUE)]
<1>1. stream[s] \in StreamRec
  BY Typed
<1> DEFINE w == Window(stream[s].after)
<1>2. \/ /\ w.next # stream[s].cursor /\ Send(s, PageEvents(w))
         /\ stream' = [stream EXCEPT ![s].cursor = w.next, ![s].after = 0, ![s].at = "check"]
      \/ /\ w.next = stream[s].cursor /\ client' = client
         /\ stream' = [stream EXCEPT ![s].after = 0, ![s].at = "check", ![s].idle = TRUE]
  BY DEF ReadLog
<1> HIDE DEF w
<1>3. ASSUME stream' = [stream EXCEPT ![s].cursor = w.next, ![s].after = 0, ![s].at = "check"]
      PROVE  stream' = [stream EXCEPT ![s] = StreamOf("check", w.next, 0, stream[s].peer, stream[s].idle)]
  <2>1. stream' = [stream EXCEPT ![s] =
                      [stream[s] EXCEPT !.cursor = w.next, !.after = 0, !.at = "check"]]
    BY <1>1, <1>3 DEF StreamRec
  <2>2. [stream[s] EXCEPT !.cursor = w.next, !.after = 0, !.at = "check"]
           = StreamOf("check", w.next, 0, stream[s].peer, stream[s].idle)
    <3> DEFINE k == [stream[s] EXCEPT !.cursor = w.next, !.after = 0, !.at = "check"]
    <3>1. k = [i \in Fields |-> k[i]]
      BY <1>1 DEF StreamRec, Fields
    <3>2. k.at = "check" /\ k.cursor = w.next /\ k.after = 0 /\ k.peer = stream[s].peer /\ k.idle = stream[s].idle
      BY <1>1 DEF StreamRec
    <3> HIDE DEF k
    <3>3. k = StreamOf("check", w.next, 0, stream[s].peer, stream[s].idle)
      BY <3>1, <3>2, StreamIs
    <3> QED BY <3>3 DEF k
  <2> QED BY <2>1, <2>2
<1>4. ASSUME stream' = [stream EXCEPT ![s].after = 0, ![s].at = "check", ![s].idle = TRUE]
      PROVE  stream' = [stream EXCEPT ![s] =
                           StreamOf("check", stream[s].cursor, 0, stream[s].peer, TRUE)]
  <2>1. stream' = [stream EXCEPT ![s] =
                      [stream[s] EXCEPT !.after = 0, !.at = "check", !.idle = TRUE]]
    BY <1>1, <1>4 DEF StreamRec
  <2>2. [stream[s] EXCEPT !.after = 0, !.at = "check", !.idle = TRUE]
           = StreamOf("check", stream[s].cursor, 0, stream[s].peer, TRUE)
    <3> DEFINE k == [stream[s] EXCEPT !.after = 0, !.at = "check", !.idle = TRUE]
    <3>1. k = [i \in Fields |-> k[i]]
      BY <1>1 DEF StreamRec, Fields
    <3>2. k.at = "check" /\ k.cursor = stream[s].cursor /\ k.after = 0 /\ k.peer = stream[s].peer /\ k.idle = TRUE
      BY <1>1 DEF StreamRec
    <3> HIDE DEF k
    <3>3. k = StreamOf("check", stream[s].cursor, 0, stream[s].peer, TRUE)
      BY <3>1, <3>2, StreamIs
    <3> QED BY <3>3 DEF k
  <2> QED BY <2>1, <2>2
<1> QED BY <1>2, <1>3, <1>4 DEF w

LEMMA DeadlineDoes ==
    ASSUME FeedTypes, NEW s \in Stream, Deadline(s)
    PROVE  LET c == stream[s].peer IN
           /\ c \in Client
           /\ stream' = [stream EXCEPT ![s] = StreamOf("free", 0, 0, None, FALSE)]
           /\ client' = [client EXCEPT ![c] =
                 Page(client[c].at, client[c].lastId, None, client[c].wire, client[c].seen)]
<1>1. stream[s].peer \in Client
  BY Typed DEF Deadline
<1>2. PICK c \in Client : c = stream[s].peer
  BY <1>1
<1>3. client[c] \in PageRec
  BY Typed
<1>4. client' = [client EXCEPT ![c] = [client[c] EXCEPT !.conn = None]]
  BY <1>2 DEF Deadline
<1>5. client' = [client EXCEPT ![c] =
         Page(client[c].at, client[c].lastId, None, client[c].wire, client[c].seen)]
  BY <1>3, <1>4, PageKeeps
<1> QED BY <1>2, <1>5 DEF Deadline, EndStream, FreeStream, StreamOf

LEMMA LoadDoes ==
    ASSUME FeedTypes, NEW c \in Client, Load(c)
    PROVE  LET p == client[c] IN
           client' = [client EXCEPT ![c] = Page("connect", TailPage.next, p.conn, p.wire, p.seen)]
<1>1. client[c] \in PageRec
  BY Typed
<1> DEFINE n == TailPage.next
<1>2. client' = [client EXCEPT ![c].at = "connect", ![c].lastId = n]
  BY DEF Load
<1> HIDE DEF n
<1>3. client' = [client EXCEPT ![c] = [client[c] EXCEPT !.at = "connect", !.lastId = n]]
  BY <1>1, <1>2 DEF PageRec
<1>4. [client[c] EXCEPT !.at = "connect", !.lastId = n]
         = Page("connect", n, client[c].conn, client[c].wire, client[c].seen)
  <2> DEFINE k == [client[c] EXCEPT !.at = "connect", !.lastId = n]
  <2>1. k = [i \in PageFields |-> k[i]]
    BY <1>1 DEF PageRec, PageFields
  <2>2. /\ k.at = "connect" /\ k.lastId = n /\ k.conn = client[c].conn
       /\ k.wire = client[c].wire /\ k.seen = client[c].seen
    BY <1>1 DEF PageRec
  <2> HIDE DEF k
  <2>3. k = Page("connect", n, client[c].conn, client[c].wire, client[c].seen)
    BY <2>1, <2>2, PageIs
  <2> QED BY <2>3 DEF k
<1> QED BY <1>3, <1>4 DEF n

LEMMA ConnectDoes ==
    ASSUME FeedTypes, NEW c \in Client, Connect(c)
    PROVE  LET p == client[c] IN
           \E s \in Stream :
              /\ stream[s].at = "free"
              /\ stream' = [stream EXCEPT ![s] = StreamOf("accepted", p.lastId, 0, c, FALSE)]
              /\ client' = [client EXCEPT ![c] = Page("live", p.lastId, s, p.wire, p.seen)]
<1>1. client[c] \in PageRec
  BY Typed
<1>2. PICK s \in Stream :
         /\ stream[s].at = "free"
         /\ stream' = [stream EXCEPT ![s] =
               [FreeStream EXCEPT !.at = "accepted", !.cursor = client[c].lastId, !.peer = c]]
         /\ client' = [client EXCEPT ![c].at = "live", ![c].conn = s]
  BY DEF Connect
<1>3. client' = [client EXCEPT ![c] = [client[c] EXCEPT !.at = "live", !.conn = s]]
  BY <1>1, <1>2 DEF PageRec
<1>4. [client[c] EXCEPT !.at = "live", !.conn = s]
         = Page("live", client[c].lastId, s, client[c].wire, client[c].seen)
  <2> DEFINE k == [client[c] EXCEPT !.at = "live", !.conn = s]
  <2>1. k = [i \in PageFields |-> k[i]]
    BY <1>1 DEF PageRec, PageFields
  <2>2. /\ k.at = "live" /\ k.lastId = client[c].lastId /\ k.conn = s
       /\ k.wire = client[c].wire /\ k.seen = client[c].seen
    BY <1>1 DEF PageRec
  <2> HIDE DEF k
  <2>3. k = Page("live", client[c].lastId, s, client[c].wire, client[c].seen)
    BY <2>1, <2>2, PageIs
  <2> QED BY <2>3 DEF k
<1>5. [FreeStream EXCEPT !.at = "accepted", !.cursor = client[c].lastId, !.peer = c]
         = StreamOf("accepted", client[c].lastId, 0, c, FALSE)
  <2> DEFINE k == [FreeStream EXCEPT !.at = "accepted", !.cursor = client[c].lastId, !.peer = c]
  <2>1. k = [i \in Fields |-> k[i]]
    BY DEF FreeStream, Fields
  <2>2. /\ k.at = "accepted" /\ k.cursor = client[c].lastId /\ k.after = 0
        /\ k.peer = c /\ k.idle = FALSE
    BY DEF FreeStream
  <2> HIDE DEF k
  <2>3. k = StreamOf("accepted", client[c].lastId, 0, c, FALSE)
    <3>1. k = StreamOf(k.at, k.cursor, k.after, k.peer, k.idle)
      BY <2>1, StreamIs
    <3> QED BY <2>2, <3>1
  <2> QED BY <2>3 DEF k
<1>6. stream' = [stream EXCEPT ![s] = StreamOf("accepted", client[c].lastId, 0, c, FALSE)]
  BY <1>2, <1>5
<1>7. client' = [client EXCEPT ![c] = Page("live", client[c].lastId, s, client[c].wire, client[c].seen)]
  BY <1>3, <1>4
<1> QED BY <1>2, <1>6, <1>7

LEMMA ReceiveResetDoes ==
    ASSUME FeedTypes, NEW c \in Client, ReceiveReset(c)
    PROVE  LET p == client[c]
               e == Head(p.wire) IN
           client' = [client EXCEPT ![c] = Page(p.at, e.id, p.conn, Tail(p.wire), <<>>)]
<1>1. client[c] \in PageRec
  BY Typed
<1> DEFINE e == Head(client[c].wire)
           t == Tail(client[c].wire)
<1>2. client' = [client EXCEPT ![c].lastId = e.id, ![c].seen = <<>>, ![c].wire = t]
  BY <1>1 DEF ReceiveReset, PageRec
<1> HIDE DEF e, t
<1>3. client' = [client EXCEPT ![c] = [client[c] EXCEPT !.lastId = e.id, !.seen = <<>>, !.wire = t]]
  BY <1>1, <1>2, ZenonT(40) DEF PageRec
<1>4. [client[c] EXCEPT !.lastId = e.id, !.seen = <<>>, !.wire = t]
         = Page(client[c].at, e.id, client[c].conn, t, <<>>)
  <2> DEFINE k == [client[c] EXCEPT !.lastId = e.id, !.seen = <<>>, !.wire = t]
  <2>1. k = [i \in PageFields |-> k[i]]
    BY <1>1 DEF PageRec, PageFields
  <2>2. /\ k.at = client[c].at /\ k.lastId = e.id /\ k.conn = client[c].conn
       /\ k.wire = t /\ k.seen = <<>>
    BY <1>1 DEF PageRec
  <2> HIDE DEF k
  <2>3. k = Page(client[c].at, e.id, client[c].conn, t, <<>>)
    BY <2>1, <2>2, PageIs
  <2> QED BY <2>3 DEF k
<1> QED BY <1>3, <1>4 DEF e, t

\* What a page shows of a record that is new to it, and what it remembers.
LEMMA ReceiveRecordDoes ==
    ASSUME FeedTypes, NEW c \in Client, ReceiveRecord(c)
    PROVE  LET p == client[c]
               e == Head(p.wire) IN
           /\ p.at = "live" /\ p.wire # <<>> /\ e.event = "audit"
           /\ client' = [client EXCEPT ![c] =
                 Page(p.at, IF e.id = None THEN p.lastId ELSE e.id, p.conn, Tail(p.wire),
                      IF Contains(p.seen, e.of) THEN p.seen ELSE Remember(p.seen, e.of))]
           /\ IF Contains(p.seen, e.of) THEN UNCHANGED <<rows, given>>
              ELSE /\ rows' = [rows EXCEPT ![c] = NewestRows(c, e.of)]
                   /\ given' = [given EXCEPT ![c] = Append(given[c], e.of)]
<1>1. client[c] \in PageRec
  BY Typed
<1> DEFINE e == Head(client[c].wire)
           t == Tail(client[c].wire)
           l == IF e.id = None THEN client[c].lastId ELSE e.id
           known == Contains(client[c].seen, e.of)
           m == IF known THEN client[c].seen ELSE Remember(client[c].seen, e.of)
<1>2. /\ client' = [client EXCEPT
            ![c].lastId = IF e.id = None THEN @ ELSE e.id,
            ![c].seen = IF ~known THEN Remember(@, e.of) ELSE @,
            ![c].wire = Tail(@)]
      /\ client[c].at = "live" /\ client[c].wire # <<>> /\ e.event = "audit"
      /\ IF ~known
         THEN /\ rows' = [rows EXCEPT ![c] = NewestRows(c, e.of)]
              /\ given' = [given EXCEPT ![c] = Append(@, e.of)]
         ELSE UNCHANGED <<rows, given>>
  BY DEF ReceiveRecord
<1>3. client' = [client EXCEPT ![c].lastId = l, ![c].seen = m, ![c].wire = t]
  <2> HIDE DEF known, e
  <2> QED BY <1>1, <1>2 DEF PageRec
<1>4. IF known THEN UNCHANGED <<rows, given>>
      ELSE /\ rows' = [rows EXCEPT ![c] = NewestRows(c, e.of)]
           /\ given' = [given EXCEPT ![c] = Append(given[c], e.of)]
  <2> HIDE DEF known, e
  <2> QED BY <1>2
<1> HIDE DEF l, m, t
<1>5. client' = [client EXCEPT ![c] = [client[c] EXCEPT !.lastId = l, !.seen = m, !.wire = t]]
  BY <1>1, <1>3 DEF PageRec
<1>6. [client[c] EXCEPT !.lastId = l, !.seen = m, !.wire = t]
         = Page(client[c].at, l, client[c].conn, t, m)
  <2> DEFINE k == [client[c] EXCEPT !.lastId = l, !.seen = m, !.wire = t]
  <2>1. k = [i \in PageFields |-> k[i]]
    BY <1>1 DEF PageRec, PageFields
  <2>2. /\ k.at = client[c].at /\ k.lastId = l /\ k.conn = client[c].conn
       /\ k.wire = t /\ k.seen = m
    BY <1>1 DEF PageRec
  <2> HIDE DEF k
  <2>3. k = Page(client[c].at, l, client[c].conn, t, m)
    BY <2>1, <2>2, PageIs
  <2> QED BY <2>3 DEF k
<1> QED BY <1>2, <1>4, <1>5, <1>6 DEF l, m, t

LEMMA DropDoes ==
    ASSUME FeedTypes, NEW c \in Client, Drop(c)
    PROVE  LET p == client[c] IN
           /\ client' = [client EXCEPT ![c] = Page("connect", p.lastId, None, <<>>, p.seen)]
           /\ \A s \in Stream : stream'[s] =
                 IF s = p.conn
                 THEN StreamOf(stream[s].at, stream[s].cursor, stream[s].after, None, stream[s].idle)
                 ELSE stream[s]
           /\ stream' = [s \in Stream |-> stream'[s]]
<1>1. client[c] \in PageRec
  BY Typed
<1>2. client' = [client EXCEPT ![c].at = "connect", ![c].conn = None, ![c].wire = <<>>]
  BY DEF Drop
<1>3. client' = [client EXCEPT ![c] = [client[c] EXCEPT !.at = "connect", !.conn = None, !.wire = <<>>]]
  BY <1>1, <1>2 DEF PageRec
<1>4. [client[c] EXCEPT !.at = "connect", !.conn = None, !.wire = <<>>]
         = Page("connect", client[c].lastId, None, <<>>, client[c].seen)
  <2> DEFINE k == [client[c] EXCEPT !.at = "connect", !.conn = None, !.wire = <<>>]
  <2>1. k = [i \in PageFields |-> k[i]]
    BY <1>1 DEF PageRec, PageFields
  <2>2. /\ k.at = "connect" /\ k.lastId = client[c].lastId /\ k.conn = None
       /\ k.wire = <<>> /\ k.seen = client[c].seen
    BY <1>1 DEF PageRec
  <2> HIDE DEF k
  <2>3. k = Page("connect", client[c].lastId, None, <<>>, client[c].seen)
    BY <2>1, <2>2, PageIs
  <2> QED BY <2>3 DEF k
<1>5. \A s \in Stream : [stream[s] EXCEPT !.peer = None]
         = StreamOf(stream[s].at, stream[s].cursor, stream[s].after, None, stream[s].idle)
  BY Typed, StreamKeeps
<1>6. stream' = [s \in Stream |->
         IF s = client[c].conn THEN [stream[s] EXCEPT !.peer = None] ELSE stream[s]]
  BY DEF Drop
<1> QED BY <1>3, <1>4, <1>5, <1>6

LEMMA RecsAre ==
    /\ \A a \in {"load", "connect", "live", "stopped"}, l \in Nat, n \in Stream \cup {None},
          w \in Seq(Told), r \in Seq(Nat) : Page(a, l, n, w, r) \in PageRec
    /\ \A a \in {"free", "accepted", "check", "stat", "read"}, x \in Nat, y \in Nat,
          p \in Client \cup {None}, i \in BOOLEAN : StreamOf(a, x, y, p, i) \in StreamRec
<1>1. \A a \in {"load", "connect", "live", "stopped"}, l \in Nat, n \in Stream \cup {None},
         w \in Seq(Told), r \in Seq(Nat) : Page(a, l, n, w, r) \in PageRec
  BY DEF Page, PageRec
<1>2. \A a \in {"free", "accepted", "check", "stat", "read"}, x \in Nat, y \in Nat,
         p \in Client \cup {None}, i \in BOOLEAN : StreamOf(a, x, y, p, i) \in StreamRec
  BY DEF StreamOf, StreamRec
<1> QED BY <1>1, <1>2

\* What the lines, the events and the memory of a page are.
LEMMA PartsTyped ==
    /\ \A r \in Nat : RecordLine(r) \in Seq(Cell)
    /\ \A n \in JunkLines : JunkLine(n) \in Seq(Cell)
    /\ <<[event |-> "reset", of |-> JUNK, id |-> 0]>> \in Seq(Told)
    /\ \A s \in Seq(Nat), r \in Nat : Remember(s, r) \in Seq(Nat)
<1>1. ASSUME NEW r \in Nat PROVE RecordLine(r) \in Seq(Cell)
  BY DEF RecordLine, Cell
<1>2. ASSUME NEW n \in JunkLines PROVE JunkLine(n) \in Seq(Cell)
  <2>1. n \in Nat
    BY FeedAssumption
  <2>2. \A i \in 1..n : [of |-> JUNK, ends |-> i = n] \in Cell
    BY <2>1 DEF Cell, JUNK
  <2> QED BY <2>1, <2>2 DEF JunkLine
<1>3. <<[event |-> "reset", of |-> JUNK, id |-> 0]>> \in Seq(Told)
  BY DEF Event, Told, JUNK
<1>4. ASSUME NEW s \in Seq(Nat), NEW r \in Nat PROVE Remember(s, r) \in Seq(Nat)
  <2>1. CASE Len(s) >= SeenLimit
    <3>1. s # <<>> /\ Tail(s) \in Seq(Nat)
      <4>1. Len(s) # 0
        BY <2>1, FeedAssumption, LenProperties
      <4> QED BY <4>1, EmptySeq, HeadTailProperties
    <3> QED BY <2>1, <3>1, AppendProperties DEF Remember
  <2> QED BY <2>1, AppendProperties DEF Remember
<1> QED BY <1>1, <1>2, <1>3, <1>4

\* The k-th event of a page of records.
LEMMA EventsAre ==
    ASSUME NEW p, p.records \in Seq(Nat), p.next \in Nat
    PROVE  /\ PageEvents(p) \in Seq(Told) /\ Len(PageEvents(p)) = Len(p.records)
           /\ \A k \in 1..Len(p.records) :
                 /\ PageEvents(p)[k].event = "audit" /\ PageEvents(p)[k].of = p.records[k]
                 /\ PageEvents(p)[k].id = IF k = Len(p.records) THEN p.next ELSE None
<1> DEFINE n == Len(p.records)
           e(k) == [event |-> "audit", of |-> p.records[k], id |-> IF k = n THEN p.next ELSE None]
<1>1. n \in Nat /\ DOMAIN p.records = 1..n
  BY LenProperties
<1>2. \A k \in 1..n : p.records[k] \in Nat
  BY ElementOfSeq
<1>3. \A k \in 1..n : e(k) \in Told
  BY <1>2 DEF Event, Told
<1>4. PageEvents(p) = [k \in 1..n |-> e(k)]
  BY <1>1 DEF PageEvents
<1>5. \A k \in 1..n : /\ e(k).event = "audit" /\ e(k).of = p.records[k]
                      /\ e(k).id = IF k = n THEN p.next ELSE None
  OBVIOUS
<1> HIDE DEF e, n
<1>6. PageEvents(p) \in Seq(Told) /\ Len(PageEvents(p)) = n
  BY <1>1, <1>3, <1>4
<1>7. \A k \in 1..n : PageEvents(p)[k] = e(k)
  BY <1>4
<1> QED BY <1>5, <1>6, <1>7 DEF n

LEMMA SendTypes ==
    ASSUME FeedTypes, NEW s \in Stream, NEW events \in Seq(Told), Send(s, events)
    PROVE  client' \in [Client -> PageRec]
<1>1. CASE client' = client
  BY <1>1 DEF FeedTypes
<1>2. CASE client' # client
  <2>1. PICK c \in Client : client' = [client EXCEPT ![c] =
           Page(client[c].at, client[c].lastId, client[c].conn,
                client[c].wire \o events, client[c].seen)]
    BY <1>2, SendDoes
  <2>2. client[c].wire \o events \in Seq(Told)
    BY Typed, ConcatProperties
  <2>3. Page(client[c].at, client[c].lastId, client[c].conn,
             client[c].wire \o events, client[c].seen) \in PageRec
    BY <2>2, Typed, RecsAre
  <2> QED BY <2>1, <2>3 DEF FeedTypes
<1> QED BY <1>1, <1>2

LEMMA NewestTypes ==
    ASSUME FeedTypes, NEW c \in Client, NEW r \in Nat
    PROVE  LET all == IF Contains(rows[c], r) THEN rows[c] ELSE Append(rows[c], r) IN
           /\ all \in Seq(Nat)
           /\ NewestRows(c, r) \in Seq(Nat)
           /\ NewestRows(c, r) = SubSeq(all, IF Len(all) > MaxRows THEN Len(all) - MaxRows + 1 ELSE 1,
                                        Len(all))
<1> DEFINE all == IF Contains(rows[c], r) THEN rows[c] ELSE Append(rows[c], r)
           from == IF Len(all) > MaxRows THEN Len(all) - MaxRows + 1 ELSE 1
<1>1. all \in Seq(Nat)
  BY AppendProperties DEF FeedTypes
<1>2. NewestRows(c, r) = SubSeq(all, Max({1, Len(all) - MaxRows + 1}), Len(all))
  BY DEF NewestRows
<1> HIDE DEF all
<1>3. Len(all) \in Nat /\ MaxRows \in Nat \ {0} /\ \A i \in 1..Len(all) : all[i] \in Nat
  BY <1>1, LenProperties, ElementOfSeq, FeedAssumption
<1>4. Max({1, Len(all) - MaxRows + 1}) = from
  BY <1>3, NewestFrom
<1> HIDE DEF from
<1>5. from \in Int /\ Len(all) \in Int /\ \A i \in from..Len(all) : all[i] \in Nat
  BY <1>3 DEF from
<1>6. SubSeq(all, from, Len(all)) \in Seq(Nat)
  BY <1>5, SubSeqProperties
<1>7. NewestRows(c, r) = SubSeq(all, from, Len(all))
  BY <1>2, <1>4
<1>8. NewestRows(c, r) \in Seq(Nat)
  BY <1>6, <1>7
<1>9. NewestRows(c, r) = SubSeq(all, IF Len(all) > MaxRows THEN Len(all) - MaxRows + 1 ELSE 1, Len(all))
  BY <1>7 DEF from
<1> QED BY <1>1, <1>8, <1>9 DEF all

LEMMA TypesBegin ==
    ASSUME Init
    PROVE  FeedTypes
<1>1. FreeStream \in StreamRec /\ ClosedPage \in PageRec
  BY EmptySeq DEF FreeStream, ClosedPage, StreamRec, PageRec
<1> QED BY <1>1, EmptySeq DEF Init, FeedTypes, WriteCounts

Counted ==
    \/ writes' = writes
    \/ writes' = [writes EXCEPT !.records = @ + 1]
    \/ writes' = [writes EXCEPT !.junk = @ + 1]
    \/ writes' = [writes EXCEPT !.replaced = @ + 1]
    \/ writes' = [writes EXCEPT !.faults = @ + 1]
    \/ writes' = [writes EXCEPT !.abandoned = @ + 1]

LEMMA CountsTyped ==
    ASSUME writes \in WriteCounts, Counted
    PROVE  writes' \in WriteCounts
BY DEF Counted, WriteCounts

LEMMA LogTypes ==
    ASSUME FeedTypes, BeginRecord \/ BeginJunk \/ WriteCell \/ Replace
    PROVE  FeedTypes'
<1>1. UNCHANGED <<stream, client, rows, given>>
  BY DEF BeginRecord, BeginJunk, WriteCell, Replace, servervars, clientvars
<1>2. writes' \in WriteCounts
  <2>1. Counted
    BY DEF BeginRecord, BeginJunk, WriteCell, Replace, Counted
  <2> QED BY <2>1, CountsTyped DEF FeedTypes
<1>3. file' \in Seq(Cell) /\ pending' \in Seq(Cell)
  <2>1. CASE BeginRecord
    <3>1. writes.records + 1 \in Nat
      BY DEF FeedTypes, WriteCounts
    <3> QED BY <2>1, <3>1, PartsTyped DEF BeginRecord, FeedTypes
  <2>2. CASE BeginJunk
    BY <2>2, PartsTyped DEF BeginJunk, FeedTypes
  <2>3. CASE WriteCell
    <3>1. pending # <<>> /\ file' = Append(file, Head(pending)) /\ pending' = Tail(pending)
      BY <2>3 DEF WriteCell
    <3>2. Head(pending) \in Cell /\ Tail(pending) \in Seq(Cell)
      BY <3>1, HeadTailProperties DEF FeedTypes
    <3> QED BY <3>1, <3>2, AppendProperties DEF FeedTypes
  <2>4. CASE Replace
    BY <2>4, EmptySeq DEF Replace, FeedTypes
  <2> QED BY <2>1, <2>2, <2>3, <2>4
<1> QED BY <1>1, <1>2, <1>3 DEF FeedTypes

LEMMA ServerTypes ==
    ASSUME FeedTypes, NEW s \in Stream,
           ServerStep(s) \/ Abandon(s) \/ Deadline(s) \/ Disconnected(s)
    PROVE  FeedTypes'
<1>1. /\ UNCHANGED <<file, pending, rows, given>>
      /\ writes' \in WriteCounts
  <2>1. UNCHANGED <<file, pending, rows, given>>
    BY DEF ServerStep, Begin, CheckSize, StatLog, ReadLog, Abandon, Deadline, Disconnected,
           logvars, clientvars
  <2>2. Counted
    BY DEF ServerStep, Begin, CheckSize, StatLog, ReadLog, Abandon, Deadline, Disconnected,
           clientvars, Counted
  <2> QED BY <2>1, <2>2, CountsTyped DEF FeedTypes
<1>2. /\ stream[s].cursor \in Nat /\ stream[s].after \in Nat
      /\ stream[s].peer \in Client \cup {None} /\ stream[s].idle \in BOOLEAN
  BY Typed DEF StreamRec
<1>3. /\ stream \in [Stream -> StreamRec] /\ client \in [Client -> PageRec]
      /\ file \in Seq(Cell)
  BY DEF FeedTypes
<1>4. ASSUME NEW k \in StreamRec, stream' = [stream EXCEPT ![s] = k]
      PROVE  stream' \in [Stream -> StreamRec]
  BY <1>3, <1>4
<1>5. FreeStream \in StreamRec
  BY DEF FreeStream, StreamRec
<1>6. stream' \in [Stream -> StreamRec]
  <2>1. CASE Begin(s)
    <3>1. StreamOf("check", stream[s].cursor, stream[s].after, stream[s].peer, stream[s].idle) \in StreamRec
      BY <1>2, RecsAre
    <3> QED BY <2>1, <3>1, <1>4, BeginDoes
  <2>2. CASE CheckSize(s)
    <3>1. /\ StreamOf("stat", 0, stream[s].after, stream[s].peer, stream[s].idle) \in StreamRec
          /\ StreamOf("stat", stream[s].cursor, stream[s].after, stream[s].peer, stream[s].idle) \in StreamRec
      BY <1>2, RecsAre
    <3> QED BY <2>2, <3>1, <1>4, CheckSizeDoes
  <2>3. CASE StatLog(s)
    <3> DEFINE a == IF stream[s].cursor > Len(file) THEN 0 ELSE stream[s].cursor
    <3>1. a \in Nat
      BY <1>2
    <3>2. StreamOf("read", stream[s].cursor, a, stream[s].peer, stream[s].idle) \in StreamRec
      BY <1>2, <3>1, RecsAre
    <3>3. stream' = [stream EXCEPT ![s] =
             StreamOf("read", stream[s].cursor, a, stream[s].peer, stream[s].idle)]
      BY <2>3, StatLogDoes
    <3> QED BY <3>2, <3>3, <1>4
  <2>4. CASE ReadLog(s)
    <3>1. Window(stream[s].after).next \in Nat
      BY <1>2, <1>3, WindowTypes
    <3>2. /\ StreamOf("check", Window(stream[s].after).next, 0, stream[s].peer, stream[s].idle) \in StreamRec
          /\ StreamOf("check", stream[s].cursor, 0, stream[s].peer, TRUE) \in StreamRec
      BY <1>2, <3>1, RecsAre
    <3> QED BY <2>4, <3>2, <1>4, ReadLogDoes
  <2>5. CASE Abandon(s)
    BY <2>5, <1>4, <1>5 DEF Abandon
  <2>6. CASE Deadline(s)
    BY <2>6, <1>4, <1>5 DEF Deadline, EndStream
  <2>7. CASE Disconnected(s)
    BY <2>7, <1>4, <1>5 DEF Disconnected, EndStream
  <2> QED BY <2>1, <2>2, <2>3, <2>4, <2>5, <2>6, <2>7 DEF ServerStep
<1>7. client' \in [Client -> PageRec]
  <2>1. CASE UNCHANGED client
    BY <1>3, <2>1
  <2>2. CASE CheckSize(s)
    BY <2>1, <2>2, CheckSizeDoes, PartsTyped, SendTypes
  <2>3. CASE ReadLog(s)
    <3>1. PageEvents(Window(stream[s].after)) \in Seq(Told)
      BY <1>2, <1>3, WindowTypes, EventsAre
    <3> QED BY <2>1, <2>3, <3>1, ReadLogDoes, SendTypes
  <2>4. CASE Deadline(s)
    <3>1. PICK c \in Client : client' = [client EXCEPT ![c] =
             Page(client[c].at, client[c].lastId, None, client[c].wire, client[c].seen)]
      BY <2>4, DeadlineDoes
    <3>2. Page(client[c].at, client[c].lastId, None, client[c].wire, client[c].seen) \in PageRec
      BY Typed, RecsAre, ZenonT(40)
    <3> QED BY <1>3, <3>1, <3>2
  <2> QED
    BY <2>1, <2>2, <2>3, <2>4
      DEF ServerStep, Begin, StatLog, Abandon, Disconnected, clientvars
<1> QED BY <1>1, <1>3, <1>6, <1>7 DEF FeedTypes

LEMMA PageTypes ==
    ASSUME FeedTypes, NEW c \in Client, PageStep(c) \/ Stop(c) \/ Drop(c)
    PROVE  FeedTypes'
<1>1. /\ UNCHANGED <<file, pending>>
      /\ writes' \in WriteCounts
  <2>1. UNCHANGED <<file, pending>>
    BY SMTT(40) DEF PageStep, Load, LoadRaises, Connect, ReceiveReset, ReceiveRecord, StreamEnds,
                    Stop, Drop, logvars
  <2>2. Counted
    BY DEF PageStep, Load, LoadRaises, Connect, ReceiveReset, ReceiveRecord, StreamEnds,
           Stop, Drop, Counted
  <2> QED BY <2>1, <2>2, CountsTyped, SMTT(40) DEF FeedTypes
<1>2. /\ client[c].lastId \in Nat /\ client[c].conn \in Stream \cup {None}
      /\ client[c].wire \in Seq(Told) /\ client[c].seen \in Seq(Nat)
      /\ client[c].at \in {"load", "connect", "live", "stopped"}
  BY Typed
<1>3. /\ stream \in [Stream -> StreamRec] /\ client \in [Client -> PageRec]
      /\ rows \in [Client -> Seq(Nat)] /\ given \in [Client -> Seq(Nat)]
      /\ file \in Seq(Cell) /\ pending \in Seq(Cell)
  BY DEF FeedTypes
<1>4. ASSUME NEW k \in PageRec, client' = [client EXCEPT ![c] = k]
      PROVE  client' \in [Client -> PageRec]
  BY <1>3, <1>4
<1>5. CASE Load(c)
  <2>1. TailPage.records \in Seq(Nat) /\ TailPage.next \in Nat
    BY <1>3, TailTypes
  <2>2. Page("connect", TailPage.next, client[c].conn, client[c].wire, client[c].seen) \in PageRec
    BY <1>2, <2>1, RecsAre
  <2>3. client' \in [Client -> PageRec]
    BY <1>4, <1>5, <2>2, LoadDoes
  <2>4. /\ stream' = stream /\ rows' = [rows EXCEPT ![c] = TailPage.records]
        /\ given' = [given EXCEPT ![c] = TailPage.records]
    BY <1>5 DEF Load, servervars
  <2>5. rows' \in [Client -> Seq(Nat)] /\ given' \in [Client -> Seq(Nat)]
    BY <1>3, <2>1, <2>4
  <2> QED BY <1>1, <1>3, <2>3, <2>4, <2>5 DEF FeedTypes
<1>6. CASE Connect(c)
  <2>1. PICK s \in Stream :
           /\ stream' = [stream EXCEPT ![s] = StreamOf("accepted", client[c].lastId, 0, c, FALSE)]
           /\ client' = [client EXCEPT ![c] =
                 Page("live", client[c].lastId, s, client[c].wire, client[c].seen)]
    BY <1>6, ConnectDoes
  <2>2. /\ Page("live", client[c].lastId, s, client[c].wire, client[c].seen) \in PageRec
        /\ StreamOf("accepted", client[c].lastId, 0, c, FALSE) \in StreamRec
    BY <1>2, RecsAre
  <2>3. client' \in [Client -> PageRec] /\ stream' \in [Stream -> StreamRec]
    BY <1>3, <2>1, <2>2
  <2>4. UNCHANGED <<rows, given>>
    BY <1>6 DEF Connect
  <2> QED BY <1>1, <1>3, <2>3, <2>4 DEF FeedTypes
<1>7. CASE ReceiveReset(c)
  <2>1. client[c].wire # <<>> /\ Head(client[c].wire).event = "reset"
    BY <1>7 DEF ReceiveReset
  <2>2. Head(client[c].wire) \in Told /\ Tail(client[c].wire) \in Seq(Told)
    BY <1>2, <2>1, HeadTailProperties
  <2>3. CASE Head(client[c].wire).id \in Nat
    <3>1. Page(client[c].at, Head(client[c].wire).id, client[c].conn, Tail(client[c].wire), <<>>) \in PageRec
      BY <1>2, <2>2, <2>3, RecsAre, EmptySeq
    <3>2. client' \in [Client -> PageRec]
      BY <1>4, <1>7, <3>1, ReceiveResetDoes
    <3>3. /\ stream' = stream /\ rows' = [rows EXCEPT ![c] = <<>>]
          /\ given' = [given EXCEPT ![c] = <<>>]
      BY <1>7 DEF ReceiveReset, servervars
    <3>4. rows' \in [Client -> Seq(Nat)] /\ given' \in [Client -> Seq(Nat)]
      BY <1>3, <3>3, EmptySeq
    <3> QED BY <1>1, <1>3, <3>2, <3>3, <3>4 DEF FeedTypes
  <2> QED BY <2>1, <2>2, <2>3 DEF Told
<1>8. CASE ReceiveRecord(c)
  <2> DEFINE e == Head(client[c].wire)
             l == IF e.id = None THEN client[c].lastId ELSE e.id
             m == IF Contains(client[c].seen, e.of) THEN client[c].seen ELSE Remember(client[c].seen, e.of)
  <2>1. client[c].wire # <<>>
    BY <1>8 DEF ReceiveRecord
  <2>2. e \in Told /\ Tail(client[c].wire) \in Seq(Told)
    BY <1>2, <2>1, HeadTailProperties
  <2>3. e.of \in Nat /\ e.id \in Nat \cup {None}
    BY <2>2 DEF Event, Told
  <2> HIDE DEF e
  <2>4. l \in Nat
    BY <1>2, <2>3
  <2>5. m \in Seq(Nat)
    BY <1>2, <2>3, PartsTyped
  <2>6. client' = [client EXCEPT ![c] =
           Page(client[c].at, l, client[c].conn, Tail(client[c].wire), m)]
    BY <1>8, ReceiveRecordDoes DEF e
  <2>7. IF Contains(client[c].seen, e.of) THEN UNCHANGED <<rows, given>>
        ELSE /\ rows' = [rows EXCEPT ![c] = NewestRows(c, e.of)]
             /\ given' = [given EXCEPT ![c] = Append(given[c], e.of)]
    BY <1>8, ReceiveRecordDoes DEF e
  <2> HIDE DEF l, m
  <2>8. Page(client[c].at, l, client[c].conn, Tail(client[c].wire), m) \in PageRec
    BY <1>2, <2>2, <2>4, <2>5, RecsAre
  <2>9. client' \in [Client -> PageRec]
    BY <1>4, <2>6, <2>8
  <2>10. NewestRows(c, e.of) \in Seq(Nat) /\ Append(given[c], e.of) \in Seq(Nat)
    BY <1>3, <2>3, NewestTypes, AppendProperties
  <2>11. rows' \in [Client -> Seq(Nat)] /\ given' \in [Client -> Seq(Nat)]
    BY <1>3, <2>7, <2>10
  <2>12. stream' = stream
    BY <1>8 DEF ReceiveRecord, servervars
  <2> QED BY <1>1, <1>3, <2>9, <2>11, <2>12 DEF FeedTypes
<1>9. CASE StreamEnds(c) \/ LoadRaises(c) \/ Stop(c)
  <2>1. PICK a \in {"connect", "stopped"} : client' = [client EXCEPT ![c].at = a]
    BY <1>9 DEF StreamEnds, LoadRaises, Stop
  <2>2. client' = [client EXCEPT ![c] =
           Page(a, client[c].lastId, client[c].conn, client[c].wire, client[c].seen)]
    <3>1. client' = [client EXCEPT ![c] = [client[c] EXCEPT !.at = a]]
      BY <2>1
    <3> QED BY <3>1, Typed, PageKeeps
  <2>3. Page(a, client[c].lastId, client[c].conn, client[c].wire, client[c].seen) \in PageRec
    BY <1>2, RecsAre
  <2>4. client' \in [Client -> PageRec]
    BY <1>4, <2>2, <2>3
  <2>5. UNCHANGED <<stream, rows, given>>
    BY <1>9 DEF StreamEnds, LoadRaises, Stop, servervars
  <2> QED BY <1>1, <1>3, <2>4, <2>5 DEF FeedTypes
<1>10. CASE Drop(c)
  <2>1. Page("connect", client[c].lastId, None, <<>>, client[c].seen) \in PageRec
    BY <1>2, RecsAre, EmptySeq
  <2>2. client' \in [Client -> PageRec]
    BY <1>4, <1>10, <2>1, DropDoes
  <2>3. \A s \in Stream : /\ stream[s] \in StreamRec
           /\ StreamOf(stream[s].at, stream[s].cursor, stream[s].after, None, stream[s].idle) \in StreamRec
    <3>1. \A s \in Stream : /\ stream[s] \in StreamRec
             /\ stream[s].at \in {"free", "accepted", "check", "stat", "read"}
             /\ stream[s].cursor \in Nat /\ stream[s].after \in Nat /\ stream[s].idle \in BOOLEAN
      BY <1>3 DEF StreamRec
    <3> QED BY <3>1, RecsAre
  <2>4. \A s \in Stream : stream'[s] \in StreamRec
    BY <1>10, <2>3, DropDoes
  <2>5. stream' = [s \in Stream |-> stream'[s]]
    BY <1>10, DropDoes
  <2>6. stream' \in [Stream -> StreamRec]
    BY <2>4, <2>5
  <2>7. UNCHANGED <<rows, given>>
    BY <1>10 DEF Drop
  <2> QED BY <1>1, <1>3, <2>2, <2>6, <2>7 DEF FeedTypes
<1> QED BY <1>5, <1>6, <1>7, <1>8, <1>9, <1>10 DEF PageStep

LEMMA TypesStep ==
    ASSUME FeedTypes, [Next]_vars
    PROVE  FeedTypes'
<1>1. CASE UNCHANGED vars
  BY <1>1 DEF vars, logvars, servervars, clientvars, FeedTypes
<1> QED BY <1>1, LogTypes, ServerTypes, PageTypes DEF Next

\* Every variable of the feed is well typed in every reachable state, however the
\* log is cut, read, replaced and lost on the way; the places taken are never more
\* than MaxStreams.
THEOREM TypeCorrect == Spec => []TypeOK
<1>1. Init => FeedTypes /\ PlacesInv
  BY TypesBegin, PlacesBegin
<1>2. FeedTypes /\ PlacesInv /\ [Next]_vars => FeedTypes' /\ PlacesInv'
  BY TypesStep, PlacesStep
<1>3. FeedTypes /\ PlacesInv => TypeOK
  <2> SUFFICES ASSUME FeedTypes, PlacesInv PROVE TypeOK
    OBVIOUS
  <2>1. active \in 0..MaxStreams
    BY FeedAssumption DEF PlacesInv, PlacesAccounted
  <2>2. Told \subseteq Event
    BY DEF Told
  <2>3. ASSUME NEW p \in PageRec
        PROVE  p \in [at: {"load", "connect", "live", "stopped"}, lastId: Nat,
                      conn: Stream \cup {None}, wire: Seq(Event), seen: Seq(Nat)]
    <3>1. p.wire \in Seq(Told)
      BY DEF PageRec
    <3>2. p.wire \in Seq(Event)
      BY <2>2, <3>1, SeqMonotonic
    <3> QED BY <3>2 DEF PageRec
  <2>4. client \in [Client -> [at: {"load", "connect", "live", "stopped"}, lastId: Nat,
                               conn: Stream \cup {None}, wire: Seq(Event), seen: Seq(Nat)]]
    BY <2>3 DEF FeedTypes
  <2> QED BY <2>1, <2>4 DEF TypeOK, FeedTypes, StreamRec, WriteCounts
<1> QED BY <1>1, <1>2, <1>3, PTL DEF Spec

-----------------------------------------------------------------------------
(* The log that nobody replaces.  Its records are 1, 2, 3 and so on; a      *)
(* cursor is as good as the number of records before it, its mark.          *)

\* A cell that ends a record, and how many of them there are up to a cell.
Done(i) == file[i].ends /\ file[i].of # JUNK

DoneIn(p, q) == {i \in p + 1 .. q : Done(i)}

Mark(p) == Cardinality(DoneIn(0, p))

\* A cursor that is not inside of a record.
Clean(p) == p \in 0..Len(file) /\ (p = 0 \/ file[p].ends \/ file[p].of = JUNK)

AtLine == file = <<>> \/ file[Len(file)].ends

\* Both cells of a record are together at the beginning of a line, and records are
\* numbered as they come.
LinesInv ==
    /\ \A i \in 1..Len(file) : Done(i) =>
          /\ i >= 2 /\ file[i - 1] = [of |-> file[i].of, ends |-> FALSE]
          /\ i = 2 \/ file[i - 2].ends
          /\ file[i].of = Mark(i)
    /\ \A i \in 1..Len(file) :
          file[i].of # JUNK /\ ~file[i].ends => i = 1 \/ file[i - 1].ends

\* What the writer has still to write fits to what is there.
WriterInv ==
    \/ pending = <<>> /\ AtLine /\ Mark(Len(file)) = writes.records
    \/ /\ writes.records > 0 /\ Mark(Len(file)) = writes.records - 1
       /\ \/ pending = RecordLine(writes.records) /\ AtLine
          \/ /\ pending = <<[of |-> writes.records, ends |-> TRUE]>>
             /\ file # <<>> /\ file[Len(file)] = [of |-> writes.records, ends |-> FALSE]
    \/ /\ pending # <<>> /\ pending[Len(pending)].ends
       /\ Mark(Len(file)) = writes.records
       /\ \A k \in 1..Len(pending) : pending[k].of = JUNK

FileInv == LinesInv /\ WriterInv

LEMMA MarkBetween ==
    ASSUME NEW p \in Nat, NEW q \in Nat, p <= q
    PROVE  /\ IsFiniteSet(DoneIn(p, q)) /\ Cardinality(DoneIn(p, q)) \in Nat
           /\ Mark(p) \in Nat /\ Mark(q) \in Nat
           /\ Mark(q) = Mark(p) + Cardinality(DoneIn(p, q))
           /\ Mark(p) <= Mark(q)
           /\ DoneIn(p, q) = {} => Mark(q) = Mark(p)
           /\ q \in DoneIn(p, q) => Mark(p) < Mark(q)
<1> DEFINE A == DoneIn(0, p)
           B == DoneIn(p, q)
           C == DoneIn(0, q)
<1>1. C = A \cup B /\ A \cap B = {}
  BY DEF DoneIn
<1>2. IsFiniteSet(A) /\ IsFiniteSet(B)
  <2>1. IsFiniteSet(1..p) /\ IsFiniteSet(p + 1..q) /\ A \subseteq 1..p /\ B \subseteq p + 1..q
    BY FS_Interval DEF DoneIn
  <2> HIDE DEF A, B
  <2> QED BY <2>1, FS_Subset
<1>3. Mark(p) = Cardinality(A) /\ Mark(q) = Cardinality(C)
  BY DEF Mark
<1>4. q \in B => B # {}
  OBVIOUS
<1> HIDE DEF A, B, C
<1>5. /\ Cardinality(A) \in Nat /\ Cardinality(B) \in Nat
      /\ Cardinality(C) = Cardinality(A) + Cardinality(B) - Cardinality({})
      /\ Cardinality({}) = 0 /\ (Cardinality(B) = 0 <=> B = {})
  BY <1>1, <1>2, FS_CardinalityType, FS_Union, FS_EmptySet
<1> QED BY <1>2, <1>3, <1>4, <1>5 DEF B

LEMMA MarkZero ==
    Mark(0) = 0
<1>1. DoneIn(0, 0) = {}
  BY DEF DoneIn
<1> QED BY <1>1, FS_EmptySet DEF Mark

LEMMA MarkNext ==
    ASSUME NEW p \in Nat
    PROVE  Mark(p + 1) = IF Done(p + 1) THEN Mark(p) + 1 ELSE Mark(p)
<1>1. CASE Done(p + 1)
  <2>1. DoneIn(p, p + 1) = {p + 1}
    BY <1>1 DEF DoneIn
  <2>2. Cardinality({p + 1}) = 1
    BY FS_Singleton
  <2>3. Mark(p + 1) = Mark(p) + Cardinality(DoneIn(p, p + 1))
    BY MarkBetween
  <2> QED BY <1>1, <2>1, <2>2, <2>3
<1>2. CASE ~Done(p + 1)
  <2>1. DoneIn(p, p + 1) = {}
    BY <1>2 DEF DoneIn
  <2> QED BY <1>2, <2>1, MarkBetween
<1> QED BY <1>1, <1>2

\* More cells change nothing of those that are there.
LEMMA MarkStays ==
    ASSUME file \in Seq(Cell), NEW x \in Cell, file' = Append(file, x)
    PROVE  /\ Len(file') = Len(file) + 1 /\ Len(file) \in Nat
           /\ \A i \in 1..Len(file) : file'[i] = file[i] /\ (Done(i)' <=> Done(i))
           /\ file'[Len(file) + 1] = x
           /\ \A p, q \in 0..Len(file) : DoneIn(p, q)' = DoneIn(p, q)
           /\ \A p \in 0..Len(file) : Mark(p)' = Mark(p) /\ (Clean(p) => Clean(p)')
<1>1. /\ Len(file') = Len(file) + 1 /\ Len(file) \in Nat
      /\ \A i \in 1..Len(file) : file'[i] = file[i]
      /\ file'[Len(file) + 1] = x
  BY AppendProperties, LenProperties
<1>2. \A i \in 1..Len(file) : Done(i)' <=> Done(i)
  BY <1>1 DEF Done
<1>3. ASSUME NEW p \in 0..Len(file), NEW q \in 0..Len(file)
      PROVE  DoneIn(p, q)' = DoneIn(p, q)
  BY <1>1, <1>2 DEF DoneIn
<1>4. ASSUME NEW p \in 0..Len(file)
      PROVE  Mark(p)' = Mark(p)
  <2>1. DoneIn(0, p)' = DoneIn(0, p)
    BY <1>1, <1>3
  <2> QED BY <2>1 DEF Mark
<1>5. ASSUME NEW p \in 0..Len(file), Clean(p)
      PROVE  Clean(p)'
  BY <1>1, <1>5 DEF Clean
<1> QED BY <1>1, <1>2, <1>3, <1>4, <1>5


LEMMA BoundsAre ==
    /\ MaxRead \in Nat /\ MaxRead >= 2 /\ PageLimit \in Nat \ {0} /\ TailRows \in Nat \ {0}
    /\ MaxRows \in Nat /\ MaxRows >= TailRows /\ SeenLimit \in Nat /\ SeenLimit >= PageLimit
BY FeedAssumption

\* A read from a cursor that is not inside of a record overlooks none.
LEMMA EndsAreDone ==
    ASSUME file \in Seq(Cell), LinesInv, NEW p, Clean(p), NEW u \in 0..Len(file)
    PROVE  /\ RecordEnds(p, u) = DoneIn(p, u)
           /\ DoneIn(p, u) \subseteq Newlines(p, u)
<1>0. Len(file) \in Nat /\ p \in 0..Len(file)
  BY LenProperties DEF Clean
<1>1. RecordEnds(p, u) \subseteq DoneIn(p, u) /\ DoneIn(p, u) \subseteq Newlines(p, u)
  BY DEF RecordEnds, Newlines, DoneIn, Done
<1>2. ASSUME NEW i \in DoneIn(p, u)
      PROVE  i \in RecordEnds(p, u)
  <2>1. i \in p + 1..u /\ Done(i) /\ i \in 1..Len(file)
    BY <1>0, <1>2 DEF DoneIn
  <2>2. /\ i >= 2 /\ file[i - 1] = [of |-> file[i].of, ends |-> FALSE]
        /\ i = 2 \/ file[i - 2].ends
    BY <2>1 DEF LinesInv
  <2>3. file[i].ends /\ file[i].of # JUNK
    BY <2>1 DEF Done
  <2>4. i # p + 1
    <3>1. SUFFICES ASSUME i = p + 1 PROVE FALSE
      OBVIOUS
    <3>2. p = i - 1 /\ p # 0
      BY <1>0, <2>2, <3>1
    <3>3. ~file[p].ends /\ file[p].of # JUNK
      BY <2>2, <2>3, <3>2
    <3> QED BY <3>2, <3>3 DEF Clean
  <2>5. i > p + 1 /\ (i = 2 => i = p + 2)
    BY <1>0, <2>1, <2>4
  <2> QED BY <2>1, <2>2, <2>3, <2>5 DEF RecordEnds, Newlines
<1> QED BY <1>1, <1>2

\* The k-th record after a cursor is the k-th after its mark.
LEMMA PlaceOfEnd ==
    ASSUME file \in Seq(Cell), LinesInv, NEW p, Clean(p), NEW u \in 0..Len(file),
           NEW e \in RecordEnds(p, u)
    PROVE  /\ e \in 1..Len(file) /\ Clean(e) /\ p <= e
           /\ Mark(e) = Mark(p) + Cardinality(RecordEnds(p, u) \cap (1..e))
           /\ file[e].of = Mark(e)
<1>0. Len(file) \in Nat /\ p \in 0..Len(file)
  BY LenProperties DEF Clean
<1>1. RecordEnds(p, u) = DoneIn(p, u)
  BY EndsAreDone
<1>2. e \in p + 1..u /\ Done(e) /\ e \in 1..Len(file)
  BY <1>0, <1>1 DEF DoneIn
<1>3. DoneIn(p, u) \cap (1..e) = DoneIn(p, e)
  BY <1>0, <1>2 DEF DoneIn
<1>4. Mark(e) = Mark(p) + Cardinality(DoneIn(p, e))
  BY <1>0, <1>2, MarkBetween
<1>5. file[e].of = Mark(e)
  BY <1>2 DEF LinesInv
<1>6. Clean(e) /\ p <= e
  <2>1. file[e].ends
    BY <1>2 DEF Done
  <2> QED BY <1>0, <1>2, <2>1 DEF Clean
<1>7. Mark(e) = Mark(p) + Cardinality(RecordEnds(p, u) \cap (1..e))
  BY <1>1, <1>3, <1>4
<1> QED BY <1>2, <1>5, <1>6, <1>7

\* A line that is too long for a read is no record.
LEMMA SkipMarks ==
    ASSUME file \in Seq(Cell), LinesInv, NEW p, Clean(p), NEW u \in 0..Len(file),
           p + 2 <= u, Newlines(p, u) = {}
    PROVE  Clean(SkipOversized(u)) /\ Mark(SkipOversized(u)) = Mark(p)
<1> DEFINE x == SkipOversized(u)
<1>0. Len(file) \in Nat /\ p \in 0..Len(file) /\ u \in Nat /\ p \in Nat
  BY LenProperties DEF Clean
<1>1. x \in u..Len(file)
  BY SkipOversizedIs
<1>2. \/ x \in Newlines(u, Len(file)) /\ \A i \in Newlines(u, Len(file)) : x <= i
      \/ Newlines(u, Len(file)) = {} /\ x = Len(file)
  BY SkipOversizedIs
<1> HIDE DEF x
<1>3. \A i \in p + 1..x - 1 : ~file[i].ends
  <2> SUFFICES ASSUME NEW i \in p + 1..x - 1, file[i].ends
               PROVE  FALSE
    OBVIOUS
  <2>1. CASE i <= u
    <3>1. i \in Newlines(p, u)
      BY <1>0, <2>1 DEF Newlines
    <3> QED BY <3>1
  <2>2. CASE i > u
    <3>1. i \in Newlines(u, Len(file))
      BY <1>0, <1>1, <2>2 DEF Newlines
    <3> QED BY <1>0, <1>1, <1>2, <3>1
  <2> QED BY <1>0, <2>1, <2>2
<1>4. x \in 1..Len(file) /\ x - 1 \in 1..Len(file) /\ x - 1 \in p + 1..x - 1 /\ x \in Nat
  BY <1>0, <1>1
<1>5. ~Done(x)
  <2>1. SUFFICES ASSUME Done(x) PROVE FALSE
    OBVIOUS
  <2>2. x >= 2 /\ (x = 2 \/ file[x - 2].ends) /\ file[x].ends
    BY <1>4, <2>1 DEF LinesInv, Done
  <2>3. x \in Newlines(u, Len(file))
    <3>1. CASE x = u
      <4>1. u \in Newlines(p, u)
        BY <1>0, <2>2, <3>1 DEF Newlines
      <4> QED BY <4>1
    <3>2. CASE x # u
      BY <1>0, <1>1, <2>2, <3>2 DEF Newlines
    <3> QED BY <3>1, <3>2
  <2>4. x >= u + 1
    BY <1>0, <2>3 DEF Newlines
  <2>5. x - 2 \in p + 1..x - 1 /\ x # 2
    BY <1>0, <1>1, <2>4
  <2> QED BY <1>3, <2>2, <2>5
<1>6. DoneIn(p, x) = {}
  <2> SUFFICES ASSUME NEW i \in DoneIn(p, x)
               PROVE  FALSE
    OBVIOUS
  <2>1. i \in p + 1..x /\ Done(i)
    BY DEF DoneIn
  <2>2. i \in p + 1..x - 1
    BY <1>0, <1>4, <1>5, <2>1
  <2> QED BY <1>3, <2>1, <2>2 DEF Done
<1>7. Mark(x) = Mark(p)
  <2>1. p <= x
    BY <1>0, <1>1
  <2> QED BY <1>0, <1>4, <1>6, <2>1, MarkBetween
<1>8. Clean(x)
  <2>1. CASE x \in Newlines(u, Len(file))
    BY <1>4, <2>1 DEF Clean, Newlines
  <2>2. CASE x \notin Newlines(u, Len(file))
    <3>1. x = Len(file)
      BY <1>2, <2>2
    <3>2. ~(file[x].of # JUNK /\ ~file[x].ends)
      <4>1. SUFFICES ASSUME file[x].of # JUNK /\ ~file[x].ends PROVE FALSE
        OBVIOUS
      <4>2. x = 1 \/ file[x - 1].ends
        BY <1>4, <4>1 DEF LinesInv
      <4>3. x # 1
        BY <1>0, <1>1
      <4> QED BY <1>3, <1>4, <4>2, <4>3
    <3> QED BY <1>4, <3>2 DEF Clean
  <2> QED BY <2>1, <2>2
<1> QED BY <1>7, <1>8 DEF x

\* One read returns the records that follow its cursor, in order and without a
\* gap, and the cursor behind them.
LEMMA WindowMarks ==
    ASSUME file \in Seq(Cell), LinesInv, NEW after, Clean(after)
    PROVE  LET w == Window(after) IN
           /\ w.records \in Seq(Nat) /\ w.next \in Nat /\ Len(w.records) <= PageLimit
           /\ Clean(w.next)
           /\ Mark(w.next) = Mark(after) + Len(w.records)
           /\ \A k \in 1..Len(w.records) : w.records[k] = Mark(after) + k
<1> DEFINE w == Window(after)
<1>0. /\ Len(file) \in Nat /\ after \in 0..Len(file) /\ after \in Nat
      /\ w.records \in Seq(Nat) /\ w.next \in Nat
  BY LenProperties, WindowTypes DEF Clean
<1>1. PICK upto \in 0..Len(file), n \in 0..PageLimit, ends \in Seq(1..Len(file)) :
         Reads(after, upto, n, ends)
  BY <1>0, WindowIs
<1>2. /\ upto = (IF Len(file) <= after + MaxRead THEN Len(file) ELSE after + MaxRead)
      /\ \A k \in 1..n : /\ ends[k] \in RecordEnds(after, upto)
                         /\ Cardinality(RecordEnds(after, upto) \cap (1..ends[k])) = k
      /\ w.records = [k \in 1..n |-> file[ends[k]].of]
  BY <1>1 DEF Reads
<1>3. \/ n = PageLimit /\ w.next = ends[n]
      \/ /\ n < PageLimit /\ n = Cardinality(RecordEnds(after, upto))
         /\ \/ /\ w.next \in Newlines(after, upto)
               /\ \A i \in Newlines(after, upto) : i <= w.next
            \/ /\ Newlines(after, upto) = {} /\ upto - after >= MaxRead
               /\ w.next = SkipOversized(upto)
            \/ Newlines(after, upto) = {} /\ w.next = after
  BY <1>1 DEF Reads
<1> HIDE DEF w
<1>4. n \in Nat /\ n <= PageLimit /\ upto \in Nat /\ after <= upto
  BY <1>0, <1>2, BoundsAre
<1>5. \A k \in 1..n : /\ Clean(ends[k]) /\ Mark(ends[k]) = Mark(after) + k
                      /\ file[ends[k]].of = Mark(after) + k
  <2> TAKE k \in 1..n
  <2>1. ends[k] \in RecordEnds(after, upto)
        /\ Cardinality(RecordEnds(after, upto) \cap (1..ends[k])) = k
    BY <1>2
  <2> DEFINE e == ends[k]
  <2> HIDE DEF e
  <2>2. e \in RecordEnds(after, upto) /\ Cardinality(RecordEnds(after, upto) \cap (1..e)) = k
    BY <2>1 DEF e
  <2>3. /\ Clean(e) /\ file[e].of = Mark(e)
        /\ Mark(e) = Mark(after) + Cardinality(RecordEnds(after, upto) \cap (1..e))
    BY <2>2, PlaceOfEnd
  <2> QED BY <2>2, <2>3 DEF e
<1>6. DOMAIN w.records = 1..n /\ Len(w.records) = n
  BY <1>0, <1>2, <1>4, LenProperties
<1>7. \A k \in 1..Len(w.records) : w.records[k] = Mark(after) + k
  BY <1>2, <1>5, <1>6
<1>8. RecordEnds(after, upto) = DoneIn(after, upto) /\ DoneIn(after, upto) \subseteq Newlines(after, upto)
  BY EndsAreDone
<1>9. Clean(w.next) /\ Mark(w.next) = Mark(after) + n
  <2>1. CASE n = PageLimit /\ w.next = ends[n]
    <3>1. n \in 1..n
      BY <1>4, <2>1, BoundsAre
    <3> QED BY <1>5, <2>1, <3>1
  <2>2. CASE /\ n = Cardinality(RecordEnds(after, upto))
             /\ w.next \in Newlines(after, upto)
             /\ \A i \in Newlines(after, upto) : i <= w.next
    <3> DEFINE x == w.next
    <3>1. x \in after + 1..upto /\ file[x].ends
      BY <2>2 DEF Newlines
    <3>2. \A i \in DoneIn(after, upto) : i <= x
      BY <1>8, <2>2
    <3> HIDE DEF x
    <3>3. x \in 1..Len(file) /\ x <= upto /\ x \in Nat
      BY <1>0, <1>4, <3>1
    <3>4. DoneIn(x, upto) = {}
      <4> SUFFICES ASSUME NEW i \in DoneIn(x, upto) PROVE FALSE
        OBVIOUS
      <4>1. i \in x + 1..upto /\ i \in DoneIn(after, upto)
        BY <1>0, <3>1 DEF DoneIn
      <4> QED BY <3>2, <3>3, <4>1
    <3>5. Mark(upto) = Mark(x)
      BY <1>4, <3>3, <3>4, MarkBetween
    <3>6. Mark(upto) = Mark(after) + Cardinality(DoneIn(after, upto))
      BY <1>0, <1>4, MarkBetween
    <3>7. Clean(x)
      BY <3>1, <3>3 DEF Clean
    <3> QED BY <1>8, <2>2, <3>5, <3>6, <3>7 DEF x
  <2>3. CASE /\ n = Cardinality(RecordEnds(after, upto)) /\ Newlines(after, upto) = {}
             /\ \/ upto - after >= MaxRead /\ w.next = SkipOversized(upto)
                \/ w.next = after
    <3>1. n = 0
      <4>1. RecordEnds(after, upto) = {}
        BY <1>8, <2>3
      <4> QED BY <2>3, <4>1, FS_EmptySet
    <3>2. Mark(after) \in Nat
      BY <1>0, MarkBetween
    <3>3. CASE upto - after >= MaxRead /\ w.next = SkipOversized(upto)
      <4>1. after + 2 <= upto
        BY <1>0, <1>4, <3>3, BoundsAre
      <4>2. Clean(SkipOversized(upto)) /\ Mark(SkipOversized(upto)) = Mark(after)
        BY <2>3, <4>1, SkipMarks
      <4> QED BY <3>1, <3>2, <3>3, <4>2
    <3>4. CASE w.next = after
      BY <3>1, <3>2, <3>4
    <3> QED BY <2>3, <3>3, <3>4
  <2> QED BY <1>3, <2>1, <2>2, <2>3
<1> QED BY <1>0, <1>4, <1>6, <1>7, <1>9 DEF w

\* The records of the first cells are 1, 2, 3 and so on.
LEMMA MarkedUpto ==
    ASSUME file \in Seq(Cell), LinesInv, NEW u \in 0..Len(file)
    PROVE  LET all == Records(0, u) IN
           /\ all \in Seq(Nat) /\ Len(all) = Mark(u) /\ Len(all) \in Nat
           /\ \A k \in 1..Len(all) : all[k] = k
<1> DEFINE all == Records(0, u)
           E == RecordEnds(0, u)
<1>0. Len(file) \in Nat /\ Clean(0)
  BY LenProperties DEF Clean
<1>1. E = DoneIn(0, u)
  BY <1>0, EndsAreDone
<1>2. all \in Seq(Nat) /\ Len(all) \in Nat /\ Len(all) = Cardinality(E)
  BY RecordsUpto, LenProperties
<1>3. Cardinality(E) = Mark(u)
  BY <1>1 DEF Mark
<1>4. ASSUME NEW k \in 1..Len(all)
      PROVE  all[k] = k
  <2>1. PICK i \in E : all[k] = file[i].of /\ Cardinality(E \cap (1..i)) = k
    BY RecordsUpto
  <2>2. file[i].of = Mark(i) /\ Mark(i) = Mark(0) + Cardinality(E \cap (1..i))
    BY <1>0, <2>1, PlaceOfEnd
  <2> QED BY <2>1, <2>2, MarkZero
<1> HIDE DEF all, E
<1> QED BY <1>2, <1>3, <1>4 DEF all

\* So are all the records of the log.
LEMMA RecordsMarked ==
    ASSUME file \in Seq(Cell), LinesInv
    PROVE  LET all == Records(0, Len(file)) IN
           /\ all \in Seq(Nat) /\ Len(all) = Mark(Len(file)) /\ Len(all) \in Nat
           /\ \A k \in 1..Len(all) : all[k] = k
<1>1. Len(file) \in 0..Len(file)
  BY LenProperties
<1> QED BY <1>1, MarkedUpto

\* A page begins with the newest records of the log and the cursor behind them.
LEMMA TailMarks ==
    ASSUME file \in Seq(Cell), LinesInv
    PROVE  LET t == TailPage
               m == Mark(Len(file)) IN
           /\ t.records \in Seq(Nat) /\ t.next \in Nat /\ m \in Nat
           /\ Clean(t.next) /\ Mark(t.next) = m
           /\ Len(t.records) \in Nat /\ Len(t.records) <= m /\ Len(t.records) <= TailRows
           /\ \A k \in 1..Len(t.records) : t.records[k] = m - Len(t.records) + k
<1> DEFINE t == TailPage
           m == Mark(Len(file))
           all == Records(0, Len(file))
           n == Len(t.records)
<1>0. Len(file) \in Nat /\ Clean(0) /\ TailRows \in Nat \ {0}
  BY LenProperties, BoundsAre DEF Clean
<1>1. /\ t.records \in Seq(Nat) /\ t.next \in Nat
      /\ t.next \in Newlines(0, Len(file)) \cup {0}
      /\ \A i \in Newlines(0, Len(file)) : i <= t.next
      /\ n \in 0..TailRows /\ n \in 0..Len(all)
      /\ t.records = SubSeq(all, Len(all) - n + 1, Len(all))
  BY TailTypes
<1>2. /\ all \in Seq(Nat) /\ Len(all) = m /\ Len(all) \in Nat
      /\ \A k \in 1..Len(all) : all[k] = k
  BY RecordsMarked
<1> DEFINE from == m - n + 1
<1>3. t.records = SubSeq(all, from, m)
  BY <1>1, <1>2
<1>33. n = Len(t.records)
  OBVIOUS
<1> HIDE DEF t, m, all, n
<1>4. m \in Nat /\ n \in Nat /\ n <= m /\ n <= TailRows
  BY <1>0, <1>1, <1>2
<1>5. from \in 1..m + 1 /\ from \in Int /\ m \in Int /\ m - from + 1 = n
  BY <1>0, <1>4
<1> HIDE DEF from
<1>6. from \in Int /\ m \in Int /\ \A i \in from..m : all[i] \in Nat
  BY <1>2, <1>4, <1>5
<1>7. /\ Len(SubSeq(all, from, m)) = IF from <= m THEN m - from + 1 ELSE 0
      /\ \A i \in 1..m - from + 1 : SubSeq(all, from, m)[i] = all[from + i - 1]
  BY <1>6, SubSeqProperties
<1>9. ASSUME NEW k \in 1..n
      PROVE  t.records[k] = m - n + k
  <2>1. t.records[k] = all[from + k - 1]
    BY <1>3, <1>5, <1>7
  <2>2. from + k - 1 \in 1..Len(all) /\ from + k - 1 = m - n + k
    BY <1>2, <1>4, <1>5
  <2>3. all[from + k - 1] = from + k - 1
    BY <1>2, <2>2
  <2> QED BY <2>1, <2>2, <2>3
<1>10. Clean(t.next)
  <2>1. t.next = 0 \/ (t.next \in 1..Len(file) /\ file[t.next].ends)
    BY <1>1 DEF Newlines
  <2> QED BY <1>0, <2>1 DEF Clean
<1>11. DoneIn(t.next, Len(file)) = {}
  <2> SUFFICES ASSUME NEW i \in DoneIn(t.next, Len(file)) PROVE FALSE
    OBVIOUS
  <2>1. i \in t.next + 1..Len(file) /\ Done(i)
    BY DEF DoneIn
  <2>2. i \in Newlines(0, Len(file))
    BY <1>0, <1>1, <2>1 DEF Newlines, Done
  <2> QED BY <1>1, <2>1, <2>2
<1>12. Mark(t.next) = m
  <2>1. t.next <= Len(file)
    BY <1>10 DEF Clean
  <2>2. Mark(Len(file)) = Mark(t.next)
    BY <1>0, <1>1, <1>11, <2>1, MarkBetween
  <2> QED BY <2>2 DEF m
<1>13. /\ n \in Nat /\ n <= m /\ n <= TailRows
       /\ \A k \in 1..n : t.records[k] = m - n + k
  BY <1>4, <1>9
<1> QED BY <1>1, <1>4, <1>10, <1>12, <1>13, <1>33 DEF t, m, n

\* One more cell is one more record, or none.
LEMMA MarkGrows ==
    ASSUME file \in Seq(Cell), NEW m \in Nat, m = Len(file), NEW x \in Cell,
           file' = Append(file, x)
    PROVE  /\ Mark(Len(file))' = Mark(m + 1)'
           /\ Mark(m + 1)' = IF Done(m + 1)' THEN Mark(m) + 1 ELSE Mark(m)
           /\ Done(m + 1)' <=> x.ends /\ x.of # JUNK
<1>1. /\ Len(file') = m + 1 /\ file'[m + 1] = x
      /\ \A i \in 1..m : Done(i)' <=> Done(i)
  BY MarkStays
<1>2. Mark(Len(file))' = Mark(m + 1)'
  BY <1>1 DEF Mark, DoneIn, Done
<1>3. Done(m + 1)' <=> x.ends /\ x.of # JUNK
  BY <1>1 DEF Done
<1> DEFINE A == DoneIn(0, m)
           B == {i \in 1..m + 1 : Done(i)'}
<1>4. Mark(m + 1)' = Cardinality(B) /\ Mark(m) = Cardinality(A)
  BY DEF Mark, DoneIn
<1>5. IsFiniteSet(A) /\ m + 1 \notin A
  BY MarkBetween DEF DoneIn
<1>6. B = IF Done(m + 1)' THEN A \cup {m + 1} ELSE A
  <2>1. \A i \in 1..m + 1 : i \in 1..m \/ i = m + 1
    OBVIOUS
  <2>2. A = {i \in 1..m : Done(i)}
    BY DEF DoneIn
  <2>3. \A i : i \in B <=> (i \in A \/ (i = m + 1 /\ Done(m + 1)'))
    BY <1>1, <2>1, <2>2
  <2> HIDE DEF A, B
  <2> QED BY <2>3
<1> HIDE DEF A, B
<1>7. Cardinality(A \cup {m + 1}) = Cardinality(A) + 1
  BY <1>5, FS_AddElement
<1> QED BY <1>2, <1>3, <1>4, <1>6, <1>7

\* What is written next fits to what is there.
LEMMA LogGoesOn ==
    ASSUME FeedTypes, FileInv, BeginRecord \/ BeginJunk \/ WriteCell
    PROVE  FileInv'
<1>0. /\ Len(file) \in Nat /\ file \in Seq(Cell) /\ pending \in Seq(Cell) /\ Len(pending) \in Nat
      /\ writes.records \in Nat /\ Mark(Len(file)) \in Nat
  <2>1. file \in Seq(Cell) /\ pending \in Seq(Cell) /\ writes.records \in Nat
    BY DEF FeedTypes, WriteCounts
  <2> QED BY <2>1, LenProperties, MarkBetween
<1>1. CASE BeginRecord \/ BeginJunk
  <2>1. file' = file /\ pending = <<>>
    BY <1>1 DEF BeginRecord, BeginJunk
  <2>2. LinesInv' /\ Mark(Len(file))' = Mark(Len(file)) /\ (AtLine' <=> AtLine)
    <3>1. LinesInv'
      BY <2>1 DEF FileInv, LinesInv, Mark, DoneIn, Done
    <3>2. Mark(Len(file))' = Mark(Len(file)) /\ (AtLine' <=> AtLine)
      BY <2>1 DEF Mark, DoneIn, Done, AtLine
    <3> QED BY <3>1, <3>2
  <2>3. AtLine /\ Mark(Len(file)) = writes.records
    <3>1. <<>> # <<[of |-> writes.records, ends |-> TRUE]>> /\ <<>> # RecordLine(writes.records)
      BY DEF RecordLine
    <3> QED BY <2>1, <3>1 DEF FileInv, WriterInv
  <2>4. CASE BeginRecord
    <3>1. pending' = RecordLine(writes.records + 1)
      BY <2>4 DEF BeginRecord
    <3>2. writes'.records = writes.records + 1
      BY <2>4 DEF BeginRecord, FeedTypes, WriteCounts
    <3>3. writes'.records > 0 /\ Mark(Len(file))' = writes'.records - 1
      BY <1>0, <2>2, <2>3, <3>2
    <3> QED BY <2>2, <2>3, <3>1, <3>2, <3>3 DEF FileInv, WriterInv
  <2>5. CASE BeginJunk
    <3>1. PICK n \in JunkLines : pending' = JunkLine(n)
      BY <2>5 DEF BeginJunk
    <3>2. n \in Nat \ {0}
      BY FeedAssumption
    <3>3. writes'.records = writes.records
      BY <2>5 DEF BeginJunk, FeedTypes, WriteCounts
    <3>4. pending' = [i \in 1..n |-> [of |-> JUNK, ends |-> i = n]]
      BY <3>1 DEF JunkLine
    <3>5. Len(pending') = n /\ pending' # <<>>
      <4>1. pending' \in Seq(Cell)
        BY <3>1, <3>2, PartsTyped
      <4>2. DOMAIN pending' = 1..n
        BY <3>4
      <4>3. Len(pending') \in Nat /\ DOMAIN pending' = 1..Len(pending')
        BY <4>1, LenProperties
      <4>4. n \in 1..Len(pending') /\ Len(pending') = n
        BY <3>2, <4>2, <4>3
      <4> QED BY <3>2, <4>4
    <3>6. pending'[Len(pending')].ends /\ \A k \in 1..Len(pending') : pending'[k].of = JUNK
      <4>1. pending'[n] = [of |-> JUNK, ends |-> n = n]
        BY <3>2, <3>4
      <4>2. \A k \in 1..n : pending'[k].of = JUNK
        BY <3>2, <3>4
      <4>3. pending'[n].ends = (n = n)
        BY <4>1
      <4>4. pending'[n].ends
        BY <4>3
      <4> QED BY <3>5, <4>2, <4>4
    <3> QED BY <2>2, <2>3, <3>3, <3>5, <3>6 DEF FileInv, WriterInv
  <2> QED BY <1>1, <2>4, <2>5
<1>2. CASE WriteCell
  <2> DEFINE x == Head(pending)
             n == Len(file)
  <2>1. /\ pending # <<>> /\ file' = Append(file, x) /\ pending' = Tail(pending)
        /\ writes' = writes
    BY <1>2 DEF WriteCell
  <2>2. x \in Cell /\ x = pending[1] /\ Len(pending) >= 1
    BY <1>0, <2>1, ElementOfSeq, EmptySeq
  <2>3. /\ Len(Tail(pending)) = Len(pending) - 1
        /\ \A k \in 1..Len(pending) - 1 : Tail(pending)[k] = pending[k + 1]
    BY <1>0, <2>1, HeadTailProperties
  <2> HIDE DEF x
  <2>4. PICK m \in Nat : m = Len(file)
    BY <1>0
  <2>5. /\ Len(file') = m + 1
        /\ \A i \in 1..m : file'[i] = file[i] /\ (Done(i)' <=> Done(i))
        /\ file'[m + 1] = x
        /\ \A p \in 0..m : Mark(p)' = Mark(p)
    BY <1>0, <2>1, <2>2, <2>4, MarkStays
  <2>6. /\ Mark(Len(file))' = Mark(m + 1)'
        /\ Mark(m + 1)' = IF Done(m + 1)' THEN Mark(m) + 1 ELSE Mark(m)
        /\ Done(m + 1)' <=> x.ends /\ x.of # JUNK
    BY <1>0, <2>1, <2>2, <2>4, MarkGrows
  <2>7. Mark(m) \in Nat /\ Mark(m) = Mark(Len(file))
    BY <1>0, <2>4
  \* What the new cell has to be for the lines.
  <2>8. ASSUME Done(m + 1)' => /\ m >= 1 /\ file[m] = [of |-> x.of, ends |-> FALSE]
                               /\ x.of = Mark(m) + 1,
               x.of # JUNK /\ ~x.ends => AtLine
        PROVE  LinesInv'
    <3>1. ASSUME NEW i \in 1..m + 1, Done(i)'
          PROVE  /\ i >= 2 /\ file'[i - 1] = [of |-> file'[i].of, ends |-> FALSE]
                 /\ i = 2 \/ file'[i - 2].ends
                 /\ file'[i].of = Mark(i)'
      <4>1. CASE i \in 1..m
        <5>1. /\ i >= 2 /\ file[i - 1] = [of |-> file[i].of, ends |-> FALSE]
              /\ i = 2 \/ file[i - 2].ends
              /\ file[i].of = Mark(i)
          BY <2>4, <2>5, <3>1, <4>1 DEF FileInv, LinesInv
        <5>2. i - 1 \in 1..m /\ (i # 2 => i - 2 \in 1..m) /\ i \in 0..m
          BY <2>4, <4>1, <5>1
        <5> QED BY <2>5, <4>1, <5>1, <5>2
      <4>2. CASE i = m + 1
        <5>1. /\ Done(m + 1)' /\ m >= 1 /\ file[m] = [of |-> x.of, ends |-> FALSE]
              /\ x.of = Mark(m) + 1
          BY <2>8, <3>1, <4>2
        <5>2. x.of # JUNK /\ m \in 1..m /\ i - 1 = m /\ i >= 2
          BY <2>4, <2>6, <4>2, <5>1
        <5>3. m = 1 \/ file[m - 1].ends
          <6>1. file[m].of # JUNK /\ ~file[m].ends
            BY <5>1, <5>2
          <6> QED BY <2>4, <5>2, <6>1 DEF FileInv, LinesInv
        <5>4. i = 2 \/ file'[i - 2].ends
          <6>1. CASE m = 1
            BY <4>2, <6>1
          <6>2. CASE m # 1
            <7>1. m - 1 \in 1..m /\ i - 2 = m - 1
              BY <2>4, <4>2, <5>2, <6>2
            <7> QED BY <2>5, <5>3, <6>2, <7>1
          <6> QED BY <6>1, <6>2
        <5>5. file'[i] = x /\ file'[i - 1] = file[m]
          BY <2>5, <4>2, <5>2
        <5>6. Mark(i)' = x.of
          BY <2>6, <4>2, <5>1
        <5> QED BY <5>1, <5>2, <5>4, <5>5, <5>6
      <4> QED BY <2>4, <4>1, <4>2
    <3>2. ASSUME NEW i \in 1..m + 1, file'[i].of # JUNK, ~file'[i].ends
          PROVE  i = 1 \/ file'[i - 1].ends
      <4>1. CASE i \in 1..m
        <5>1. i = 1 \/ file[i - 1].ends
          BY <2>4, <2>5, <3>2, <4>1 DEF FileInv, LinesInv
        <5>2. CASE i # 1
          <6>1. i - 1 \in 1..m
            BY <2>4, <4>1, <5>2
          <6> QED BY <2>5, <5>1, <5>2, <6>1
        <5> QED BY <5>2
      <4>2. CASE i = m + 1
        <5>1. AtLine
          BY <2>5, <2>8, <3>2, <4>2
        <5>2. m = 0 \/ (m \in 1..m /\ file[m].ends)
          <6>1. file = <<>> => m = 0
            BY <2>4
          <6> QED BY <2>4, <5>1, <6>1 DEF AtLine
        <5> QED BY <2>4, <2>5, <4>2, <5>2
      <4> QED BY <2>4, <4>1, <4>2
    <3> QED BY <2>5, <3>1, <3>2 DEF LinesInv
  <2>9. CASE pending = RecordLine(writes.records) /\ AtLine /\ writes.records > 0
             /\ Mark(Len(file)) = writes.records - 1
    <3>1. x = [of |-> writes.records, ends |-> FALSE]
          /\ pending' = <<[of |-> writes.records, ends |-> TRUE]>>
      <4>1. pending = <<[of |-> writes.records, ends |-> FALSE],
                        [of |-> writes.records, ends |-> TRUE]>>
        BY <2>9 DEF RecordLine
      <4>2. \A a, b : Tail(<<a, b>>) = <<b>> /\ <<a, b>>[1] = a
        OBVIOUS
      <4>3. x = [of |-> writes.records, ends |-> FALSE]
        BY <2>2, <4>1, <4>2
      <4>4. pending' = <<[of |-> writes.records, ends |-> TRUE]>>
        BY <2>1, <4>1, <4>2
      <4> QED BY <4>3, <4>4
    <3>2. ~Done(m + 1)'
      BY <2>6, <3>1
    <3>3. LinesInv'
      BY <2>8, <2>9, <3>2
    <3>4. file' # <<>> /\ file'[Len(file')] = [of |-> writes.records, ends |-> FALSE]
      BY <2>4, <2>5, <3>1
    <3>5. Mark(Len(file))' = writes'.records - 1
      BY <2>1, <2>6, <2>7, <2>9, <3>2
    <3> QED BY <2>1, <2>9, <3>1, <3>3, <3>4, <3>5 DEF FileInv, WriterInv
  <2>10. CASE /\ pending = <<[of |-> writes.records, ends |-> TRUE]>> /\ writes.records > 0
              /\ Mark(Len(file)) = writes.records - 1
              /\ file # <<>> /\ file[Len(file)] = [of |-> writes.records, ends |-> FALSE]
    <3>1. x = [of |-> writes.records, ends |-> TRUE] /\ pending' = <<>>
      BY <2>1, <2>2, <2>10
    <3>2. m >= 1
      BY <1>0, <2>4, <2>10, EmptySeq
    <3>3. LinesInv'
      <4>1. writes.records = Mark(m) + 1
        BY <1>0, <2>4, <2>10
      <4> QED BY <2>4, <2>8, <2>10, <3>1, <3>2, <4>1
    <3>4. x.ends /\ x.of # JUNK
      BY <1>0, <2>10, <3>1 DEF JUNK
    <3>5. Mark(Len(file))' = writes'.records
      BY <1>0, <2>1, <2>4, <2>6, <2>10, <3>4
    <3>6. AtLine'
      BY <2>5, <3>4 DEF AtLine
    <3> QED BY <3>1, <3>3, <3>5, <3>6 DEF FileInv, WriterInv
  <2>11. CASE /\ pending[Len(pending)].ends /\ Mark(Len(file)) = writes.records
              /\ \A k \in 1..Len(pending) : pending[k].of = JUNK
    <3>1. x.of = JUNK
      BY <1>0, <2>2, <2>11
    <3>2. LinesInv' /\ ~Done(m + 1)'
      <4>1. ~Done(m + 1)'
        BY <2>6, <3>1
      <4> QED BY <2>8, <3>1, <4>1
    <3>3. Mark(Len(file))' = writes'.records
      BY <2>1, <2>4, <2>6, <2>11, <3>2
    <3>4. CASE pending' = <<>>
      <4>1. Len(pending) = 1
        BY <1>0, <2>1, <2>2, <2>3, <3>4, SMTT(40)
      <4>2. x.ends
        BY <2>2, <2>11, <4>1
      <4>3. AtLine'
        BY <2>5, <4>2 DEF AtLine
      <4> QED BY <3>2, <3>3, <3>4, <4>3 DEF FileInv, WriterInv
    <3>5. CASE pending' # <<>>
      <4>1. Len(pending') = Len(pending) - 1 /\ pending' \in Seq(Cell) /\ Len(pending') >= 1
        <5>1. pending' \in Seq(Cell)
          BY <1>0, <2>1, HeadTailProperties
        <5> QED BY <1>0, <2>1, <2>3, <3>5, <5>1, EmptySeq
      <4>2. \A k \in 1..Len(pending') : pending'[k] = pending[k + 1] /\ k + 1 \in 1..Len(pending)
        BY <1>0, <2>1, <2>3, <4>1
      <4>3. pending'[Len(pending')] = pending[Len(pending)]
        <5>1. Len(pending') \in 1..Len(pending') /\ Len(pending') + 1 = Len(pending)
          BY <1>0, <4>1
        <5> QED BY <4>2, <5>1
      <4>4. /\ \A k \in 1..Len(pending') : pending'[k].of = JUNK
            /\ pending'[Len(pending')].ends
        BY <2>11, <4>2, <4>3
      <4> QED BY <3>2, <3>3, <3>5, <4>4 DEF FileInv, WriterInv
    <3> QED BY <3>4, <3>5
  <2> QED BY <2>1, <2>9, <2>10, <2>11 DEF FileInv, WriterInv
<1> QED BY <1>1, <1>2

-----------------------------------------------------------------------------
(* The pages and the streams of a log that nobody replaces.                  *)

\* The same of any log.
MarkIn(f, p) == Cardinality({i \in 0 + 1..p : f[i].ends /\ f[i].of # JUNK})

CleanIn(f, p) == p \in 0..Len(f) /\ (p = 0 \/ f[p].ends \/ f[p].of = JUNK)

\* The newest record a page is past: it was told of it, or its cursor is behind it.
Top(f, last, g) == IF g = <<>> THEN MarkIn(f, last) ELSE g[Len(g)]

\* Consecutive records, the last of them t.
Run(q, t) == \A k \in 1..Len(q) : q[k] = t - Len(q) + k

\* What is on its way to a page: records that follow each other, and never many
\* without a cursor.
OnItsWay(f, w, last, t) ==
    /\ \A k \in 1..Len(w) :
          /\ w[k].event = "audit" /\ w[k].of = w[1].of + k - 1
          /\ w[k].id # None => CleanIn(f, w[k].id) /\ MarkIn(f, w[k].id) = w[k].of
          /\ w[k].id = None => \/ w[k].of - MarkIn(f, last) < PageLimit
                               \/ \E j \in 1..k - 1 : w[j].id # None /\ k - j < PageLimit
    /\ w # <<>> => /\ w[Len(w)].id # None
                   /\ MarkIn(f, last) < w[1].of /\ w[1].of <= t + 1

\* What a page was told, shows and remembers ends with the same record; its cursor
\* is not further back than it remembers.
PageOk(f, p, g, r) ==
    LET t == Top(f, p.lastId, g) IN
    /\ p.at = "load" => g = <<>> /\ r = <<>>
    /\ Run(g, t) /\ Run(r, t) /\ Run(p.seen, t)
    /\ Len(r) = IF Len(g) > MaxRows THEN MaxRows ELSE Len(g)
    /\ Len(p.seen) <= SeenLimit /\ Len(p.seen) <= Len(g)
    /\ CleanIn(f, p.lastId)
    /\ MarkIn(f, p.lastId) <= t /\ t - MarkIn(f, p.lastId) <= Len(p.seen)
    /\ t <= MarkIn(f, Len(f))
    /\ OnItsWay(f, p.wire, p.lastId, t)
    /\ p.wire # <<>> => p.at = "live"

\* The last record that was sent to a page or is behind its cursor.
SentTo(f, p) == IF p.wire = <<>> THEN MarkIn(f, p.lastId) ELSE p.wire[Len(p.wire)].of

\* A stream goes on where its client's wire ends.
StreamOk(f, s, st, p) ==
    /\ p.at = "live" /\ p.conn = s
    /\ CleanIn(f, st.cursor) /\ MarkIn(f, st.cursor) = SentTo(f, p)
    /\ st.at = "read" => st.after = st.cursor

PagesInv == \A c \in Client : PageOk(file, client[c], given[c], rows[c])

StreamsInv ==
    \A s \in Stream :
        /\ stream[s].at = "free" => stream[s].peer = None
        /\ stream[s].peer # None => StreamOk(file, s, stream[s], client[stream[s].peer])

FeedInv ==
    /\ FeedTypes
    /\ writes.replaced = 0 => FileInv /\ PagesInv /\ StreamsInv

LEMMA MarksOf ==
    /\ \A p : Mark(p) = MarkIn(file, p) /\ (Clean(p) <=> CleanIn(file, p))
    /\ \A p : Mark(p)' = MarkIn(file', p) /\ (Clean(p)' <=> CleanIn(file', p))
<1>1. \A p : Mark(p) = MarkIn(file, p) /\ (Clean(p) <=> CleanIn(file, p))
  BY DEF Mark, MarkIn, DoneIn, Done, Clean, CleanIn
<1>2. \A p : Mark(p)' = MarkIn(file', p) /\ (Clean(p)' <=> CleanIn(file', p))
  BY DEF Mark, MarkIn, DoneIn, Done, Clean, CleanIn
<1> QED BY <1>1, <1>2

LEMMA MarksAre ==
    ASSUME file \in Seq(Cell), NEW p, CleanIn(file, p)
    PROVE  /\ p \in Nat /\ MarkIn(file, p) \in Nat /\ p <= Len(file)
           /\ MarkIn(file, Len(file)) \in Nat /\ MarkIn(file, p) <= MarkIn(file, Len(file))
<1>1. Len(file) \in Nat /\ p \in 0..Len(file)
  BY LenProperties DEF CleanIn
<1>2. p \in Nat /\ p <= Len(file)
  BY <1>1
<1>3. Mark(p) \in Nat /\ Mark(Len(file)) \in Nat /\ Mark(p) <= Mark(Len(file))
  BY <1>1, <1>2, MarkBetween
<1> QED BY <1>2, <1>3, MarksOf

LEMMA TopIs ==
    ASSUME file \in Seq(Cell), NEW p, CleanIn(file, p), NEW g \in Seq(Nat)
    PROVE  Top(file, p, g) \in Nat /\ (g # <<>> => Top(file, p, g) = g[Len(g)])
<1>1. CASE g = <<>>
  BY <1>1, MarksAre DEF Top
<1>2. CASE g # <<>>
  <2>1. Len(g) \in 1..Len(g)
    BY <1>2, LenProperties, EmptySeq
  <2> QED BY <1>2, <2>1, ElementOfSeq DEF Top
<1> QED BY <1>1, <1>2

\* More cells change nothing for a page.
LEMMA PageOkKept ==
    ASSUME file \in Seq(Cell), NEW x \in Cell, file' = Append(file, x),
           NEW p, NEW g, NEW r, Top(file, p.lastId, g) \in Nat, PageOk(file, p, g, r)
    PROVE  PageOk(file', p, g, r)
<1> DEFINE t == Top(file, p.lastId, g)
<1>1. \A q : CleanIn(file, q) => CleanIn(file', q) /\ MarkIn(file', q) = MarkIn(file, q)
  <2> SUFFICES ASSUME NEW q, CleanIn(file, q)
               PROVE  CleanIn(file', q) /\ MarkIn(file', q) = MarkIn(file, q)
    OBVIOUS
  <2>1. q \in 0..Len(file) /\ Clean(q)
    BY MarksOf DEF CleanIn
  <2>2. Mark(q)' = Mark(q) /\ Clean(q)'
    BY <2>1, MarkStays
  <2> QED BY <2>2, MarksOf
<1>2. MarkIn(file, Len(file)) \in Nat /\ MarkIn(file', Len(file')) \in Nat
      /\ MarkIn(file, Len(file)) <= MarkIn(file', Len(file'))
  <2>1. PICK m \in Nat : m = Len(file)
    BY LenProperties
  <2>2. /\ Mark(Len(file))' = Mark(m + 1)'
        /\ Mark(m + 1)' = IF Done(m + 1)' THEN Mark(m) + 1 ELSE Mark(m)
    BY <2>1, MarkGrows
  <2>3. Len(file') = m + 1
    BY <2>1, MarkStays
  <2>4. Mark(m) \in Nat /\ Mark(m) = MarkIn(file, Len(file))
    BY <2>1, MarkBetween, MarksOf
  <2>5. Mark(m + 1)' = MarkIn(file', Len(file'))
    BY <2>3, MarksOf
  <2> QED BY <2>2, <2>4, <2>5
<1>3. CleanIn(file', p.lastId) /\ MarkIn(file', p.lastId) = MarkIn(file, p.lastId)
  BY <1>1 DEF PageOk
<1>4. OnItsWay(file', p.wire, p.lastId, t)
  BY <1>1, <1>3 DEF PageOk, OnItsWay
<1>5. t <= MarkIn(file', Len(file'))
  <2>1. t <= MarkIn(file, Len(file)) /\ t \in Nat
    BY DEF PageOk
  <2> HIDE DEF t
  <2> QED BY <1>2, <2>1
<1>6. Top(file', p.lastId, g) = t
  BY <1>3 DEF Top
<1> QED BY <1>3, <1>4, <1>5, <1>6 DEF PageOk

\* What is told, shown and remembered of it has its place in the run.
LEMMA RunGrows ==
    ASSUME NEW q \in Seq(Nat), NEW t \in Nat, Run(q, t)
    PROVE  /\ Append(q, t + 1) \in Seq(Nat) /\ Len(Append(q, t + 1)) = Len(q) + 1
           /\ Run(Append(q, t + 1), t + 1)
           /\ q # <<>> => /\ Tail(q) \in Seq(Nat) /\ Len(Tail(q)) = Len(q) - 1
                          /\ Run(Tail(q), t)
           /\ \A i \in Nat : i <= Len(q) =>
                 /\ SubSeq(q, i + 1, Len(q)) \in Seq(Nat)
                 /\ Len(SubSeq(q, i + 1, Len(q))) = Len(q) - i
                 /\ Run(SubSeq(q, i + 1, Len(q)), t)
<1>0. Len(q) \in Nat /\ \A i \in 1..Len(q) : q[i] \in Nat
  BY LenProperties, ElementOfSeq
<1>1. /\ Append(q, t + 1) \in Seq(Nat) /\ Len(Append(q, t + 1)) = Len(q) + 1
      /\ \A i \in 1..Len(q) : Append(q, t + 1)[i] = q[i]
      /\ Append(q, t + 1)[Len(q) + 1] = t + 1
  BY AppendProperties
<1>2. Run(Append(q, t + 1), t + 1)
  <2> SUFFICES ASSUME NEW k \in 1..Len(q) + 1
               PROVE  Append(q, t + 1)[k] = (t + 1) - (Len(q) + 1) + k
    BY <1>1 DEF Run
  <2>1. CASE k \in 1..Len(q)
    <3>1. q[k] = t - Len(q) + k
      BY <2>1 DEF Run
    <3> QED BY <1>0, <1>1, <2>1, <3>1
  <2>2. CASE k = Len(q) + 1
    BY <1>0, <1>1, <2>2
  <2> QED BY <1>0, <2>1, <2>2
<1>3. ASSUME q # <<>>
      PROVE  Tail(q) \in Seq(Nat) /\ Len(Tail(q)) = Len(q) - 1 /\ Run(Tail(q), t)
  <2>1. /\ Tail(q) \in Seq(Nat) /\ Len(Tail(q)) = Len(q) - 1
        /\ \A i \in 1..Len(q) - 1 : Tail(q)[i] = q[i + 1]
    BY <1>3, HeadTailProperties
  <2> QED BY <1>0, <2>1 DEF Run
<1>4. ASSUME NEW i \in Nat, i <= Len(q)
      PROVE  /\ SubSeq(q, i + 1, Len(q)) \in Seq(Nat)
             /\ Len(SubSeq(q, i + 1, Len(q))) = Len(q) - i
             /\ Run(SubSeq(q, i + 1, Len(q)), t)
  <2>1. i + 1 \in Int /\ Len(q) \in Int /\ \A j \in i + 1..Len(q) : q[j] \in Nat
    BY <1>0
  <2> DEFINE a == i + 1
             n == Len(q)
  <2>2. a \in Int /\ n \in Int /\ \A j \in a..n : q[j] \in Nat
    BY <2>1
  <2> HIDE DEF a, n
  <2>3. /\ SubSeq(q, a, n) \in Seq(Nat)
        /\ Len(SubSeq(q, a, n)) = IF a <= n THEN n - a + 1 ELSE 0
        /\ \A j \in 1..n - a + 1 : SubSeq(q, a, n)[j] = q[a + j - 1]
    BY <2>2, SubSeqProperties
  <2> DEFINE z == SubSeq(q, a, n)
  <2>4. z = SubSeq(q, i + 1, Len(q))
    BY DEF a, n
  <2> HIDE DEF z
  <2>5. n = Len(q) /\ a = i + 1 /\ z \in Seq(Nat) /\ Len(z) = n - i
    BY <1>0, <1>4, <2>3 DEF a, n, z
  <2>6. Run(z, t)
    <3> SUFFICES ASSUME NEW k \in 1..Len(z) PROVE z[k] = t - Len(z) + k
      BY DEF Run
    <3>1. z[k] = q[a + k - 1] /\ a + k - 1 \in 1..Len(q)
      BY <1>0, <1>4, <2>3, <2>5 DEF z
    <3>2. q[a + k - 1] = t - Len(q) + (a + k - 1)
      BY <3>1 DEF Run
    <3> QED BY <1>0, <1>4, <2>5, <3>1, <3>2
  <2> QED BY <2>4, <2>5, <2>6
<1> QED BY <1>1, <1>2, <1>3, <1>4

\* A page of records goes onto the wire behind what is there.
LEMMA SendsOn ==
    ASSUME FeedTypes, FileInv, NEW p \in PageRec, NEW g, NEW r,
           Top(file, p.lastId, g) \in Nat,
           PageOk(file, p, g, r), p.at = "live",
           NEW x, CleanIn(file, x), MarkIn(file, x) = SentTo(file, p)
    PROVE  LET z == Window(x)
               q == Page(p.at, p.lastId, p.conn, p.wire \o PageEvents(z), p.seen) IN
           /\ PageOk(file, q, g, r)
           /\ CleanIn(file, z.next) /\ MarkIn(file, z.next) = SentTo(file, q)
<1> DEFINE z == Window(x)
           e == PageEvents(z)
           w == p.wire
           v == w \o e
           q == Page(p.at, p.lastId, p.conn, v, p.seen)
           l == MarkIn(file, p.lastId)
           m == MarkIn(file, x)
           t == Top(file, p.lastId, g)
           n == Len(z.records)
<1>0. file \in Seq(Cell) /\ w \in Seq(Told) /\ Len(w) \in Nat /\ PageLimit \in Nat \ {0}
  <2>1. file \in Seq(Cell) /\ w \in Seq(Told)
    BY DEF FeedTypes, PageRec
  <2> QED BY <2>1, LenProperties, BoundsAre
<1>1. /\ z.records \in Seq(Nat) /\ z.next \in Nat /\ Len(z.records) <= PageLimit
      /\ CleanIn(file, z.next)
      /\ MarkIn(file, z.next) = m + Len(z.records)
      /\ \A k \in 1..Len(z.records) : z.records[k] = m + k
  BY <1>0, MarksOf, WindowMarks DEF FileInv
<1>2. /\ e \in Seq(Told) /\ Len(e) = n /\ n \in Nat
      /\ \A k \in 1..n :
            /\ e[k].event = "audit" /\ e[k].of = m + k
            /\ e[k].id = IF k = n THEN z.next ELSE None
  BY <1>1, EventsAre, LenProperties
<1>3. l \in Nat /\ m \in Nat /\ t \in Nat
  BY <1>0, MarksAre DEF PageOk
<1>4. /\ q.at = p.at /\ q.lastId = p.lastId /\ q.conn = p.conn /\ q.wire = v /\ q.seen = p.seen
  BY DEF Page
<1>5. z.next # None
  BY <1>1, FeedAssumption
<1>6. /\ v \in Seq(Told) /\ Len(v) = Len(w) + n
      /\ \A k \in 1..Len(w) : v[k] = w[k]
      /\ \A k \in 1..n : v[Len(w) + k] = e[k]
  <2> HIDE DEF w, e, n
  <2>1. /\ v \in Seq(Told) /\ Len(v) = Len(w) + Len(e)
        /\ \A i \in 1..Len(w) + Len(e) : v[i] = IF i <= Len(w) THEN w[i] ELSE e[i - Len(w)]
    BY <1>0, <1>2, ConcatProperties
  <2> HIDE DEF v
  <2>2. ASSUME NEW k \in 1..n
        PROVE  v[Len(w) + k] = e[k]
    <3>1. Len(w) + k \in 1..Len(w) + Len(e) /\ ~(Len(w) + k <= Len(w)) /\ (Len(w) + k) - Len(w) = k
      BY <1>0, <1>2
    <3> QED BY <2>1, <3>1
  <2> QED BY <1>0, <1>2, <2>1, <2>2
<1>7. /\ w = <<>> => m = l
      /\ w # <<>> => Len(w) >= 1 /\ m = w[Len(w)].of /\ w[Len(w)].id # None
                     /\ l < w[1].of /\ w[1].of <= t + 1
                     /\ w[Len(w)].of = w[1].of + Len(w) - 1
  <2>1. CASE w = <<>>
    BY <2>1 DEF SentTo
  <2>2. CASE w # <<>>
    <3>1. Len(w) >= 1 /\ Len(w) \in 1..Len(w)
      BY <1>0, <2>2, EmptySeq
    <3>2. m = w[Len(w)].of
      BY <2>2 DEF SentTo
    <3> QED BY <2>2, <3>1, <3>2 DEF PageOk, OnItsWay
  <2> QED BY <2>1, <2>2
<1>8. \A k \in 1..Len(w) : w[k].of \in Nat
  <2> SUFFICES ASSUME NEW k \in 1..Len(w) PROVE w[k].of \in Nat
    OBVIOUS
  <2>1. w[k] \in Told
    BY <1>0, ElementOfSeq
  <2> QED BY <2>1 DEF Told, Event
<1>9. l <= t
  BY DEF PageOk
<1>10. \A k \in 1..Len(w) :
          /\ w[k].event = "audit" /\ w[k].of = w[1].of + k - 1
          /\ w[k].id # None => CleanIn(file, w[k].id) /\ MarkIn(file, w[k].id) = w[k].of
          /\ w[k].id = None => \/ w[k].of - l < PageLimit
                               \/ \E j \in 1..k - 1 : w[j].id # None /\ k - j < PageLimit
  BY DEF PageOk, OnItsWay
<1> HIDE DEF z, e, w, v, q, l, m, t, n
<1>11. CASE n = 0
  <2>1. e = <<>>
    BY <1>2, <1>11, EmptySeq
  <2>2. v = w
    BY <1>0, <2>1, ConcatEmptySeq DEF v
  <2>3. PageOk(file, q, g, r)
    BY <1>4, <2>2 DEF PageOk, w
  <2>4. SentTo(file, q) = m
    <3>1. SentTo(file, q) = SentTo(file, p)
      BY <1>4, <2>2 DEF SentTo, w
    <3> QED BY <3>1 DEF m
  <2>5. CleanIn(file, z.next) /\ MarkIn(file, z.next) = m
    BY <1>1, <1>3, <1>11 DEF n
  <2> QED BY <2>3, <2>4, <2>5 DEF q, v, e, w, z
<1>12. CASE n # 0
  <2>1. n >= 1 /\ Len(v) >= 1 /\ v # <<>> /\ 1 \in 1..n /\ n \in 1..n
    BY <1>0, <1>2, <1>6, <1>12, EmptySeq
  <2>2. v[1].of = IF w = <<>> THEN m + 1 ELSE w[1].of
    <3>1. CASE w = <<>>
      <4>1. Len(w) = 0
        BY <3>1
      <4>2. v[1] = e[1]
        BY <1>6, <2>1, <4>1
      <4> QED BY <1>2, <2>1, <3>1, <4>2
    <3>2. CASE w # <<>>
      <4>1. v[1] = w[1]
        BY <1>0, <1>6, <1>7, <3>2
      <4> QED BY <3>2, <4>1
    <3> QED BY <3>1, <3>2
  <2>3. m = (v[1].of + Len(w)) - 1 /\ v[1].of \in Nat
    <3>1. CASE w = <<>>
      <4>1. Len(w) = 0
        BY <3>1
      <4> QED BY <1>3, <2>2, <3>1, <4>1
    <3>2. CASE w # <<>>
      <4>1. w[1].of \in Nat
        BY <1>0, <1>7, <1>8, <3>2
      <4>2. v[1].of = w[1].of
        BY <2>2, <3>2
      <4>3. m = (w[1].of + Len(w)) - 1
        BY <1>0, <1>7, <3>2, <4>1, SMTT(40)
      <4> QED BY <4>1, <4>2, <4>3
    <3> QED BY <3>1, <3>2
  <2>4. ASSUME NEW k \in 1..Len(v)
        PROVE  /\ v[k].event = "audit" /\ v[k].of = v[1].of + k - 1
               /\ v[k].id # None => CleanIn(file, v[k].id) /\ MarkIn(file, v[k].id) = v[k].of
               /\ v[k].id = None => \/ v[k].of - l < PageLimit
                                    \/ \E j \in 1..k - 1 : v[j].id # None /\ k - j < PageLimit
    <3>1. CASE k \in 1..Len(w)
      <4>1. v[k] = w[k] /\ \A j \in 1..k - 1 : v[j] = w[j]
        BY <1>0, <1>6, <3>1
      <4>2. w # <<>>
        <5>1. Len(<<>>) = 0
          OBVIOUS
        <5> QED BY <3>1, <5>1
      <4>3. v[1].of = w[1].of
        BY <2>2, <4>2
      <4>4. /\ w[k].event = "audit" /\ w[k].of = w[1].of + k - 1
            /\ w[k].id # None => CleanIn(file, w[k].id) /\ MarkIn(file, w[k].id) = w[k].of
            /\ w[k].id = None => \/ w[k].of - l < PageLimit
                                 \/ \E j \in 1..k - 1 : w[j].id # None /\ k - j < PageLimit
        BY <1>10, <3>1
      <4> QED BY <4>1, <4>3, <4>4
    <3>2. CASE k \notin 1..Len(w)
      <4>1. PICK i \in 1..n : k = Len(w) + i
        <5>1. k - Len(w) \in 1..n /\ k = Len(w) + (k - Len(w))
          BY <1>0, <1>2, <1>6, <3>2
        <5> QED BY <5>1
      <4>2. /\ v[k] = e[i] /\ e[i].event = "audit" /\ e[i].of = m + i
            /\ e[i].id = IF i = n THEN z.next ELSE None
        BY <1>2, <1>6, <4>1
      <4>3. v[k].of = v[1].of + k - 1
        BY <1>0, <1>3, <2>3, <4>1, <4>2, SMTT(40)
      <4>4. v[k].id # None => CleanIn(file, v[k].id) /\ MarkIn(file, v[k].id) = v[k].of
        <5>1. v[k].id # None => i = n /\ v[k].id = z.next
          BY <4>2
        <5> QED BY <1>1, <4>2, <5>1 DEF n
      <4>5. ASSUME v[k].id = None
            PROVE  \/ v[k].of - l < PageLimit
                   \/ \E j \in 1..k - 1 : v[j].id # None /\ k - j < PageLimit
        <5>1. i # n
          BY <1>5, <4>2, <4>5
        <5>2. i < PageLimit
          BY <1>0, <1>1, <1>2, <5>1 DEF n
        <5>3. CASE w = <<>>
          <6>1. v[k].of - l = i
            BY <1>3, <1>7, <4>2, <5>3
          <6> QED BY <5>2, <6>1
        <5>4. CASE w # <<>>
          <6>1. Len(w) \in 1..k - 1 /\ v[Len(w)] = w[Len(w)] /\ k - Len(w) < PageLimit
            BY <1>0, <1>6, <1>7, <4>1, <5>2, <5>4
          <6> QED BY <1>7, <5>4, <6>1
        <5> QED BY <5>3, <5>4
      <4> QED BY <4>2, <4>3, <4>4, <4>5
    <3> QED BY <3>1, <3>2
  <2>5. v[Len(v)] = e[n]
    BY <1>2, <1>6, <2>1
  <2>6. v[Len(v)].id # None /\ v[Len(v)].of = m + n
    BY <1>2, <1>5, <2>1, <2>5
  <2>7. l < v[1].of /\ v[1].of <= t + 1
    <3>1. CASE w = <<>>
      BY <1>3, <1>7, <1>9, <2>2, <3>1
    <3>2. CASE w # <<>>
      BY <1>7, <2>2, <3>2
    <3> QED BY <3>1, <3>2
  <2>8. OnItsWay(file, v, p.lastId, t)
    BY <2>4, <2>6, <2>7 DEF OnItsWay, l
  <2>9. PageOk(file, q, g, r)
    BY <1>4, <2>8 DEF PageOk, t
  <2>10. SentTo(file, q) = m + n /\ MarkIn(file, z.next) = m + n
    BY <1>1, <1>4, <2>1, <2>6 DEF SentTo, n
  <2> QED BY <1>1, <2>9, <2>10 DEF q, v, e, w, z
<1> QED BY <1>11, <1>12

\* A page that loads is past the newest record there is.
LEMMA TailTop ==
    ASSUME file \in Seq(Cell), LinesInv
    PROVE  Top(file, TailPage.next, TailPage.records) = Mark(Len(file))
<1> DEFINE t == TailPage
           m == Mark(Len(file))
           n == Len(t.records)
<1>1. /\ t.records \in Seq(Nat) /\ t.next \in Nat /\ m \in Nat
      /\ Clean(t.next) /\ Mark(t.next) = m
      /\ n \in Nat /\ n <= m
      /\ \A k \in 1..n : t.records[k] = m - n + k
  BY TailMarks
<1>2. MarkIn(file, t.next) = m /\ CleanIn(file, t.next)
  BY <1>1, MarksOf
<1> HIDE DEF t, m
<1>3. CASE t.records = <<>>
  BY <1>2, <1>3 DEF Top, t, m
<1>4. CASE t.records # <<>>
  <2>1. n \in 1..n
    BY <1>1, <1>4, EmptySeq
  <2>2. t.records[n] = m - n + n
    BY <1>1, <2>1
  <2>3. Top(file, t.next, t.records) = t.records[n]
    BY <1>1, <1>2, <1>4, TopIs
  <2> QED BY <1>1, <2>2, <2>3 DEF t, m
<1> QED BY <1>3, <1>4

\* A page that loads shows the newest of them.
LEMMA LoadsRows ==
    ASSUME FeedTypes, FileInv, NEW p \in PageRec, NEW g, NEW r,
           PageOk(file, p, g, r), p.at = "load"
    PROVE  LET t == TailPage IN
           PageOk(file, Page("connect", t.next, p.conn, p.wire, p.seen), t.records, t.records)
<1> DEFINE t == TailPage
           m == Mark(Len(file))
           q == Page("connect", t.next, p.conn, p.wire, p.seen)
           n == Len(t.records)
<1>0. /\ file \in Seq(Cell) /\ p.seen \in Seq(Nat) /\ Len(p.seen) \in Nat
      /\ TailRows \in Nat \ {0} /\ MaxRows \in Nat /\ MaxRows >= TailRows /\ SeenLimit \in Nat
  <2>1. file \in Seq(Cell) /\ p.seen \in Seq(Nat)
    BY DEF FeedTypes, PageRec
  <2> QED BY <2>1, LenProperties, BoundsAre
<1>1. /\ t.records \in Seq(Nat) /\ t.next \in Nat /\ m \in Nat
      /\ Clean(t.next) /\ Mark(t.next) = m
      /\ Len(t.records) \in Nat /\ Len(t.records) <= m /\ Len(t.records) <= TailRows
      /\ \A k \in 1..Len(t.records) : t.records[k] = m - Len(t.records) + k
  BY <1>0, TailMarks DEF FileInv
<1>2. /\ q.at = "connect" /\ q.lastId = t.next /\ q.wire = p.wire /\ q.seen = p.seen
  BY DEF Page
<1>3. g = <<>> /\ p.wire = <<>> /\ Len(p.seen) <= Len(g)
  BY DEF PageOk
<1>4. Len(p.seen) = 0
  BY <1>0, <1>3
<1>5. MarkIn(file, t.next) = m /\ CleanIn(file, t.next) /\ MarkIn(file, Len(file)) = m
  BY <1>1, MarksOf
<1> HIDE DEF t, m, q
<1>6. n \in Nat /\ n <= MaxRows
  BY <1>0, <1>1, LenProperties
<1>7. Top(file, t.next, t.records) = m
  BY <1>0, TailTop DEF FileInv, t, m
<1>8. Run(t.records, m) /\ Run(p.seen, m)
  <2>1. Run(t.records, m)
    BY <1>1 DEF Run
  <2>2. Run(p.seen, m)
    BY <1>4 DEF Run
  <2> QED BY <2>1, <2>2
<1>9. OnItsWay(file, q.wire, q.lastId, m)
  <2>1. q.wire = <<>> /\ Len(q.wire) = 0
    BY <1>2, <1>3
  <2> QED BY <2>1 DEF OnItsWay
<1>10. PageOk(file, q, t.records, t.records)
  BY <1>0, <1>1, <1>2, <1>3, <1>4, <1>5, <1>6, <1>7, <1>8, <1>9 DEF PageOk
<1> QED BY <1>10 DEF q, t

\* What a page remembers tells whether it was told of a record already.
LEMMA SeenTells ==
    ASSUME NEW q \in Seq(Nat), NEW t \in Nat, Run(q, t), NEW x \in Nat, t - Len(q) < x
    PROVE  Contains(q, x) <=> x <= t
<1>0. Len(q) \in Nat
  BY LenProperties
<1>1. ASSUME Contains(q, x)
      PROVE  x <= t
  <2>1. PICK k \in 1..Len(q) : q[k] = x
    BY <1>1 DEF Contains
  <2> QED BY <1>0, <2>1 DEF Run
<1>2. ASSUME x <= t
      PROVE  Contains(q, x)
  <2> DEFINE k == (x - t) + Len(q)
  <2>1. k \in 1..Len(q) /\ q[k] = t - Len(q) + k /\ t - Len(q) + k = x
    BY <1>0, <1>2 DEF Run
  <2> HIDE DEF k
  <2> QED BY <2>1 DEF Contains
<1> QED BY <1>1, <1>2

\* A record that is new to a page is the next one, and the page remembers it; of the
\* newest MaxRows it shows all.
LEMMA NewRecord ==
    ASSUME FeedTypes, NEW c \in Client, NEW t \in Nat, Run(rows[c], t), Run(client[c].seen, t),
           Len(client[c].seen) <= SeenLimit,
           Len(rows[c]) <= MaxRows
    PROVE  /\ LET q == Remember(client[c].seen, t + 1) IN
              /\ q \in Seq(Nat) /\ Run(q, t + 1)
              /\ Len(q) = IF Len(client[c].seen) = SeenLimit THEN SeenLimit
                          ELSE Len(client[c].seen) + 1
           /\ LET q == NewestRows(c, t + 1) IN
              /\ q \in Seq(Nat) /\ Run(q, t + 1)
              /\ Len(q) = IF Len(rows[c]) = MaxRows THEN MaxRows ELSE Len(rows[c]) + 1
              /\ LET all == Append(rows[c], t + 1) IN
                 q = SubSeq(all, IF Len(all) > MaxRows THEN Len(all) - MaxRows + 1 ELSE 1, Len(all))
<1> DEFINE s == client[c].seen
           r == rows[c]
           a == Append(r, t + 1)
<1>0. /\ s \in Seq(Nat) /\ r \in Seq(Nat) /\ Len(s) \in Nat /\ Len(r) \in Nat
      /\ MaxRows \in Nat \ {0} /\ SeenLimit \in Nat \ {0} /\ t + 1 \in Nat
  <2>1. s \in Seq(Nat) /\ r \in Seq(Nat)
    BY Typed DEF FeedTypes
  <2> QED BY <2>1, LenProperties, BoundsAre, FeedAssumption, SMTT(40)
<1>1. Remember(s, t + 1) = IF Len(s) >= SeenLimit THEN Append(Tail(s), t + 1) ELSE Append(s, t + 1)
  BY DEF Remember
<1>2. /\ NewestRows(c, t + 1) \in Seq(Nat)
      /\ NewestRows(c, t + 1) =
            LET all == IF Contains(r, t + 1) THEN r ELSE a IN
            SubSeq(all, IF Len(all) > MaxRows THEN Len(all) - MaxRows + 1 ELSE 1, Len(all))
  BY <1>0, NewestTypes
<1>3. Run(s, t) /\ Run(r, t) /\ Len(s) <= SeenLimit /\ Len(r) <= MaxRows
  OBVIOUS
<1> HIDE DEF s, r, a
<1>4. /\ Remember(s, t + 1) \in Seq(Nat) /\ Run(Remember(s, t + 1), t + 1)
      /\ Len(Remember(s, t + 1)) = IF Len(s) = SeenLimit THEN SeenLimit ELSE Len(s) + 1
  <2>1. CASE Len(s) < SeenLimit
    <3>1. Remember(s, t + 1) = Append(s, t + 1)
      <4>1. ~(Len(s) >= SeenLimit)
        BY <1>0, <2>1
      <4> QED BY <1>1, <4>1
    <3>2. /\ Append(s, t + 1) \in Seq(Nat) /\ Len(Append(s, t + 1)) = Len(s) + 1
          /\ Run(Append(s, t + 1), t + 1)
      BY <1>0, <1>3, RunGrows
    <3>3. Len(s) # SeenLimit
      BY <1>0, <2>1
    <3> QED BY <3>1, <3>2, <3>3
  <2>2. CASE Len(s) = SeenLimit
    <3>1. Remember(s, t + 1) = Append(Tail(s), t + 1) /\ s # <<>>
      <4>1. Len(<<>>) = 0
        OBVIOUS
      <4> QED BY <1>0, <1>1, <2>2, <4>1
    <3> DEFINE z == Tail(s)
    <3>2. z \in Seq(Nat) /\ Len(z) = Len(s) - 1 /\ Run(z, t)
      BY <1>0, <1>3, <3>1, RunGrows
    <3> HIDE DEF z
    <3>3. /\ Append(z, t + 1) \in Seq(Nat) /\ Len(Append(z, t + 1)) = Len(z) + 1
          /\ Run(Append(z, t + 1), t + 1)
      BY <3>2, RunGrows
    <3>4. Remember(s, t + 1) = Append(z, t + 1)
      BY <3>1 DEF z
    <3>5. Len(z) + 1 = SeenLimit
      BY <1>0, <2>2, <3>2
    <3> QED BY <2>2, <3>3, <3>4, <3>5
  <2> QED BY <1>0, <1>3, <2>1, <2>2
<1>5. ~Contains(r, t + 1)
  <2> SUFFICES ASSUME NEW k \in 1..Len(r), r[k] = t + 1
               PROVE  FALSE
    BY DEF Contains
  <2>1. r[k] = t - Len(r) + k
    BY <1>3 DEF Run
  <2> QED BY <1>0, <2>1
<1>6. a \in Seq(Nat) /\ Len(a) = Len(r) + 1 /\ Run(a, t + 1)
  BY <1>0, <1>3, RunGrows DEF a
<1>7. NewestRows(c, t + 1) =
          SubSeq(a, IF Len(a) > MaxRows THEN Len(a) - MaxRows + 1 ELSE 1, Len(a))
  BY <1>2, <1>5
<1>8. PICK i \in 0..1 : /\ i = IF Len(r) = MaxRows THEN 1 ELSE 0
                        /\ i + 1 = IF Len(a) > MaxRows THEN Len(a) - MaxRows + 1 ELSE 1
  <2>1. CASE Len(r) = MaxRows
    BY <1>0, <1>6, <2>1
  <2>2. CASE Len(r) < MaxRows
    BY <1>0, <1>6, <2>2
  <2> QED BY <1>0, <1>3, <2>1, <2>2
<1>9. /\ SubSeq(a, i + 1, Len(a)) \in Seq(Nat)
      /\ Len(SubSeq(a, i + 1, Len(a))) = Len(a) - i
      /\ Run(SubSeq(a, i + 1, Len(a)), t + 1)
  <2>1. i \in Nat /\ i <= Len(a)
    BY <1>0, <1>6
  <2> QED BY <1>0, <1>6, <2>1, RunGrows
<1> DEFINE z == SubSeq(a, i + 1, Len(a))
<1>10. NewestRows(c, t + 1) = z /\ z \in Seq(Nat) /\ Len(z) = Len(a) - i /\ Run(z, t + 1)
  BY <1>7, <1>8, <1>9
<1> HIDE DEF z
<1>11. Len(a) - i = IF Len(r) = MaxRows THEN MaxRows ELSE Len(r) + 1
  BY <1>0, <1>6, <1>8
<1>12. /\ NewestRows(c, t + 1) \in Seq(Nat) /\ Run(NewestRows(c, t + 1), t + 1)
       /\ Len(NewestRows(c, t + 1)) = IF Len(r) = MaxRows THEN MaxRows ELSE Len(r) + 1
  BY <1>10, <1>11
<1> USE DEF s, r
<1>13. /\ Remember(client[c].seen, t + 1) \in Seq(Nat) /\ Run(Remember(client[c].seen, t + 1), t + 1)
       /\ Len(Remember(client[c].seen, t + 1)) = IF Len(client[c].seen) = SeenLimit THEN SeenLimit
                          ELSE Len(client[c].seen) + 1
  BY <1>4
<1>14. /\ NewestRows(c, t + 1) \in Seq(Nat) /\ Run(NewestRows(c, t + 1), t + 1)
       /\ Len(NewestRows(c, t + 1)) = IF Len(rows[c]) = MaxRows THEN MaxRows ELSE Len(rows[c]) + 1
  BY <1>12
<1>15. LET all == Append(rows[c], t + 1) IN
       NewestRows(c, t + 1) = SubSeq(all, IF Len(all) > MaxRows THEN Len(all) - MaxRows + 1 ELSE 1,
                                     Len(all))
  BY <1>7 DEF a
<1> QED BY <1>13, <1>14, <1>15

\* What a page does with the next event: the record is new to it exactly when it
\* follows those it was told of.
LEMMA Receives ==
    ASSUME FeedTypes, NEW c \in Client, PageOk(file, client[c], given[c], rows[c]),
           ReceiveRecord(c)
    PROVE  /\ PageOk(file, client'[c], given'[c], rows'[c])
           /\ SentTo(file, client'[c]) = SentTo(file, client[c])
           /\ client'[c].at = "live" /\ client'[c].conn = client[c].conn
           /\ \/ rows'[c] = rows[c] /\ given'[c] = given[c] /\ given[c] # <<>>
              \/ LET t == Top(file, client[c].lastId, given[c]) IN
                 /\ rows'[c] = NewestRows(c, t + 1)
                 /\ t + 1 <= MarkIn(file, Len(file))
                 /\ given'[c] = Append(given[c], t + 1)
<1> DEFINE p == client[c]
           g == given[c]
           r == rows[c]
           w == p.wire
           s == p.seen
           e == Head(p.wire)
           l == IF e.id = None THEN p.lastId ELSE e.id
           m == MarkIn(file, p.lastId)
           t == Top(file, p.lastId, g)
           v == Tail(p.wire)
<1>0. /\ p \in PageRec /\ w \in Seq(Told) /\ s \in Seq(Nat) /\ g \in Seq(Nat) /\ r \in Seq(Nat)
      /\ file \in Seq(Cell) /\ Len(w) \in Nat /\ Len(s) \in Nat /\ Len(g) \in Nat /\ Len(r) \in Nat
      /\ MaxRows \in Nat \ {0} /\ SeenLimit \in Nat /\ PageLimit \in Nat \ {0}
      /\ SeenLimit >= PageLimit
  <2>1. /\ p \in PageRec /\ w \in Seq(Told) /\ s \in Seq(Nat) /\ g \in Seq(Nat) /\ r \in Seq(Nat)
        /\ file \in Seq(Cell)
    BY Typed DEF FeedTypes
  <2> QED BY <2>1, LenProperties, BoundsAre, FeedAssumption
<1>1. /\ p.at = "live" /\ w # <<>> /\ e.event = "audit"
      /\ client' = [client EXCEPT ![c] =
            Page(p.at, l, p.conn, v, IF Contains(s, e.of) THEN s ELSE Remember(s, e.of))]
      /\ IF Contains(s, e.of) THEN UNCHANGED <<rows, given>>
         ELSE /\ rows' = [rows EXCEPT ![c] = NewestRows(c, e.of)]
              /\ given' = [given EXCEPT ![c] = Append(given[c], e.of)]
  BY ReceiveRecordDoes
<1>2. PageOk(file, p, g, r)
  OBVIOUS
<1>3. t \in Nat /\ (g # <<>> => t = g[Len(g)])
  BY <1>0, <1>2, TopIs DEF PageOk
<1>4. /\ DOMAIN client = Client /\ DOMAIN rows = Client /\ DOMAIN given = Client
  BY DEF FeedTypes
<1> DEFINE k == client'[c]
           h == given'[c]
           q == rows'[c]
<1>5. /\ k = Page(p.at, l, p.conn, v, IF Contains(s, e.of) THEN s ELSE Remember(s, e.of))
      /\ IF Contains(s, e.of) THEN q = r /\ h = g
         ELSE q = NewestRows(c, e.of) /\ h = Append(g, e.of)
  BY <1>1, <1>4
<1>6. /\ e = w[1] /\ 1 \in 1..Len(w) /\ Len(w) \in 1..Len(w)
      /\ v \in Seq(Told) /\ Len(v) = Len(w) - 1
      /\ \A i \in 1..Len(w) - 1 : v[i] = w[i + 1]
  <2>1. Len(w) >= 1
    BY <1>0, <1>1, EmptySeq
  <2> HIDE DEF w
  <2> QED BY <1>0, <1>1, <2>1, HeadTailProperties DEF w
<1>7. \A i \in 1..Len(w) : w[i].of \in Nat
  <2> SUFFICES ASSUME NEW i \in 1..Len(w) PROVE w[i].of \in Nat
    OBVIOUS
  <2>1. w[i] \in Told
    BY <1>0, ElementOfSeq
  <2> QED BY <2>1 DEF Told, Event
<1>8. /\ Run(g, t) /\ Run(r, t) /\ Run(s, t)
      /\ Len(r) = IF Len(g) > MaxRows THEN MaxRows ELSE Len(g)
      /\ Len(s) <= SeenLimit /\ Len(s) <= Len(g)
      /\ CleanIn(file, p.lastId)
      /\ m <= t /\ t - m <= Len(s)
      /\ t <= MarkIn(file, Len(file))
      /\ OnItsWay(file, w, p.lastId, t)
  BY <1>2 DEF PageOk
<1>9. /\ \A i \in 1..Len(w) :
            /\ w[i].event = "audit" /\ w[i].of = w[1].of + i - 1
            /\ w[i].id # None => CleanIn(file, w[i].id) /\ MarkIn(file, w[i].id) = w[i].of
            /\ w[i].id = None => \/ w[i].of - m < PageLimit
                                 \/ \E j \in 1..i - 1 : w[j].id # None /\ i - j < PageLimit
      /\ w[Len(w)].id # None /\ m < w[1].of /\ w[1].of <= t + 1
  BY <1>1, <1>8 DEF OnItsWay
<1> HIDE DEF p, g, r, w, s, e, l, m, t, v, k, h, q
<1>10. m \in Nat /\ MarkIn(file, Len(file)) \in Nat
  BY <1>0, <1>8, MarksAre DEF m
<1> DEFINE y == MarkIn(file, l)
<1>11. /\ CleanIn(file, l) /\ y \in Nat /\ m <= y /\ y <= e.of
       /\ e.id = None => y = m
       /\ e.id # None => y = e.of
  <2>1. CASE e.id = None
    <3>1. l = p.lastId /\ y = m
      BY <2>1 DEF l, m
    <3> QED BY <1>6, <1>7, <1>8, <1>9, <1>10, <2>1, <3>1
  <2>2. CASE e.id # None
    <3>1. l = e.id
      BY <2>2 DEF l
    <3>2. CleanIn(file, l) /\ y = e.of
      BY <1>6, <1>9, <2>2, <3>1
    <3> QED BY <1>6, <1>7, <1>9, <1>10, <2>2, <3>2
  <2> QED BY <2>1, <2>2
<1> HIDE DEF y
<1>12. e.of \in Nat /\ m < e.of /\ e.of <= t + 1 /\ (Contains(s, e.of) <=> e.of <= t)
  <2>1. e.of \in Nat /\ m < e.of /\ e.of <= t + 1
    BY <1>6, <1>7, <1>9
  <2>2. t - Len(s) < e.of
    BY <1>0, <1>3, <1>8, <1>10, <2>1
  <2> QED BY <1>0, <1>3, <1>8, <2>1, <2>2, SeenTells
<1>13. e.of <= MarkIn(file, Len(file))
  <2>1. /\ CleanIn(file, w[Len(w)].id) /\ MarkIn(file, w[Len(w)].id) = w[Len(w)].of
        /\ w[Len(w)].of = w[1].of + Len(w) - 1
    BY <1>6, <1>9
  <2>2. w[Len(w)].of <= MarkIn(file, Len(file))
    BY <1>0, <2>1, MarksAre
  <2> QED BY <1>0, <1>6, <1>7, <1>10, <2>1, <2>2
\* The wire that is left.
<1>14. ASSUME NEW u \in Nat, e.of <= u
       PROVE  OnItsWay(file, v, l, u)
  <2>1. ASSUME NEW i \in 1..Len(v)
        PROVE  /\ v[i].event = "audit" /\ v[i].of = v[1].of + i - 1
               /\ v[i].id # None => CleanIn(file, v[i].id) /\ MarkIn(file, v[i].id) = v[i].of
               /\ v[i].id = None => \/ v[i].of - y < PageLimit
                                    \/ \E j \in 1..i - 1 : v[j].id # None /\ i - j < PageLimit
    <3>0. i \in 1..Len(w) - 1 /\ 1 \in 1..Len(w) - 1 /\ 1 + 1 = 2
          /\ i + 1 \in 1..Len(w) /\ 2 \in 1..Len(w)
      BY <1>0, <1>6
    <3>1. v[i] = w[i + 1] /\ v[1] = w[2] /\ i + 1 \in 1..Len(w) /\ 2 \in 1..Len(w)
      <4>1. v[1] = w[1 + 1] /\ v[i] = w[i + 1]
        BY <1>6, <3>0
      <4> QED BY <3>0, <4>1
    <3>2. v[i].of = w[1].of + i /\ v[1].of = w[1].of + 1 /\ w[1].of \in Nat
      BY <1>6, <1>7, <1>9, <3>1
    <3>3. ASSUME v[i].id = None
          PROVE  \/ v[i].of - y < PageLimit
                 \/ \E j \in 1..i - 1 : v[j].id # None /\ i - j < PageLimit
      <4>1. \/ w[i + 1].of - m < PageLimit
            \/ \E j \in 1..(i + 1) - 1 : w[j].id # None /\ (i + 1) - j < PageLimit
        BY <1>9, <3>1, <3>3
      <4>2. CASE w[i + 1].of - m < PageLimit
        <5>1. y \in Nat /\ m \in Nat /\ m <= y
          BY <1>10, <1>11
        <5>2. v[i].of - m < PageLimit /\ v[i].of \in Nat /\ PageLimit \in Nat
          <6>1. v[i].of - m < PageLimit
            BY <3>1, <4>2
          <6>2. v[i].of = w[1].of + i /\ w[1].of \in Nat /\ i \in Nat
            BY <1>0, <1>6, <3>0, <3>2
          <6>3. v[i].of \in Nat
            BY <6>2
          <6> QED BY <1>0, <6>1, <6>3
        <5> QED BY <5>1, <5>2
      <4>3. CASE \E j \in 1..(i + 1) - 1 : w[j].id # None /\ (i + 1) - j < PageLimit
        <5>1. PICK j \in 1..(i + 1) - 1 : w[j].id # None /\ (i + 1) - j < PageLimit
          BY <4>3
        <5>2. CASE j = 1
          <6>1. y = w[1].of
            BY <1>6, <1>11, <5>1, <5>2
          <6> QED BY <1>0, <3>2, <5>1, <5>2, <6>1, SMTT(40)
        <5>3. CASE j # 1
          <6> DEFINE b == j - 1
          <6>1. b \in 1..i - 1 /\ b \in 1..Len(w) - 1 /\ b + 1 = j /\ i - b < PageLimit
            BY <1>0, <1>6, <5>1, <5>3
          <6>2. v[b] = w[b + 1]
            BY <1>6, <6>1
          <6> HIDE DEF b
          <6> QED BY <5>1, <6>1, <6>2
        <5> QED BY <5>2, <5>3
      <4> QED BY <4>1, <4>2, <4>3
    <3> QED BY <1>9, <3>1, <3>2, <3>3
  <2>2. ASSUME v # <<>>
        PROVE  v[Len(v)].id # None /\ y < v[1].of /\ v[1].of <= u + 1
    <3>1. Len(v) \in 1..Len(v) /\ 1 \in 1..Len(v)
      BY <1>0, <1>6, <2>2, EmptySeq
    <3>0. /\ Len(v) \in 1..Len(w) - 1 /\ Len(v) + 1 = Len(w)
          /\ 1 \in 1..Len(w) - 1 /\ 1 + 1 = 2 /\ 2 \in 1..Len(w)
      BY <1>0, <1>6, <3>1
    <3>2. v[Len(v)] = w[Len(w)] /\ v[1] = w[2] /\ 2 \in 1..Len(w)
      <4>1. v[1] = w[1 + 1] /\ v[Len(v)] = w[Len(v) + 1]
        BY <1>6, <3>0
      <4> QED BY <3>0, <4>1
    <3>3. v[1].of = e.of + 1
      BY <1>6, <1>7, <1>9, <3>2
    <3> QED BY <1>9, <1>11, <1>12, <1>14, <3>2, <3>3
  <2> QED BY <2>1, <2>2 DEF OnItsWay, y
<1>15. /\ k.at = "live" /\ k.lastId = l /\ k.conn = p.conn /\ k.wire = v
       /\ k.seen = IF Contains(s, e.of) THEN s ELSE Remember(s, e.of)
  BY <1>1, <1>5 DEF Page
<1>16. SentTo(file, k) = SentTo(file, p)
  <2>1. SentTo(file, p) = w[Len(w)].of
    BY <1>1 DEF SentTo, w
  <2>2. CASE v = <<>>
    <3>1. Len(w) = 1
      <4>1. Len(v) = 0
        BY <2>2
      <4> QED BY <1>0, <1>6, <4>1
    <3>2. y = w[1].of
      BY <1>6, <1>9, <1>11, <3>1
    <3>3. SentTo(file, k) = y
      BY <1>15, <2>2 DEF SentTo, y
    <3> QED BY <2>1, <3>1, <3>2, <3>3
  <2>3. CASE v # <<>>
    <3>1. v[Len(v)] = w[Len(w)]
      <4>1. Len(v) \in 1..Len(w) - 1 /\ Len(v) + 1 = Len(w)
        BY <1>0, <1>6, <2>3, EmptySeq
      <4> QED BY <1>6, <4>1
    <3> QED BY <1>15, <2>1, <2>3, <3>1 DEF SentTo
  <2> QED BY <2>2, <2>3
<1>17. CASE Contains(s, e.of)
  <2>1. h = g /\ q = r /\ k.seen = s /\ e.of <= t
    BY <1>5, <1>12, <1>15, <1>17
  <2>2. t - y <= Len(s) /\ y <= t
    <3>1. y \in Nat /\ m \in Nat /\ m <= y /\ y <= e.of /\ e.of \in Nat
      BY <1>10, <1>11, <1>12
    <3>2. t \in Nat /\ Len(s) \in Nat /\ t - m <= Len(s) /\ e.of <= t
      BY <1>0, <1>3, <1>8, <2>1
    <3> QED BY <3>1, <3>2
  <2>3. OnItsWay(file, v, l, t)
    BY <1>3, <1>14, <2>1
  <2>0. g # <<>>
    <3>1. PICK i \in 1..Len(s) : TRUE
      BY <1>17 DEF Contains
    <3>2. Len(g) # 0
      BY <1>0, <1>8, <3>1
    <3> QED BY <3>2
  <2>4. Top(file, k.lastId, h) = t
    BY <1>3, <2>0, <2>1 DEF Top
  <2>5. PageOk(file, k, h, q)
    BY <1>8, <1>11, <1>15, <2>1, <2>2, <2>3, <2>4 DEF PageOk, y
  <2> QED BY <1>15, <1>16, <2>0, <2>1, <2>5 DEF k, h, q, p, r, g
<1>18. CASE ~Contains(s, e.of)
  <2>1. e.of = t + 1
    BY <1>3, <1>12, <1>18
  <2>2. h = Append(g, t + 1) /\ q = NewestRows(c, t + 1) /\ k.seen = Remember(s, t + 1)
    BY <1>5, <1>15, <1>18, <2>1
  <2>3. /\ h \in Seq(Nat) /\ Len(h) = Len(g) + 1 /\ Run(h, t + 1)
    BY <1>0, <1>3, <1>8, <2>2, RunGrows
  <2>4. Top(file, k.lastId, h) = t + 1
    <3>1. h # <<>> /\ Len(h) \in 1..Len(h)
      BY <1>0, <2>3, EmptySeq
    <3>2. h[Len(h)] = (t + 1) - Len(h) + Len(h)
      BY <2>3, <3>1 DEF Run
    <3> QED BY <1>3, <2>3, <1>0, <3>1, <3>2 DEF Top
  <2>5. Len(r) <= MaxRows
    BY <1>0, <1>8
  <2>6. /\ k.seen \in Seq(Nat) /\ Run(k.seen, t + 1)
        /\ Len(k.seen) = IF Len(s) = SeenLimit THEN SeenLimit ELSE Len(s) + 1
        /\ q \in Seq(Nat) /\ Run(q, t + 1)
        /\ Len(q) = IF Len(r) = MaxRows THEN MaxRows ELSE Len(r) + 1
    <3>1. Run(rows[c], t) /\ Run(client[c].seen, t) /\ Len(client[c].seen) <= SeenLimit
          /\ Len(rows[c]) <= MaxRows
      BY <1>8, <2>5 DEF r, s, p
    <3>2. s = client[c].seen /\ r = rows[c]
      BY DEF r, s, p
    <3> QED BY <1>3, <2>2, <3>1, <3>2, NewRecord
  <2>7. Len(q) = IF Len(h) > MaxRows THEN MaxRows ELSE Len(h)
    <3>1. CASE Len(g) >= MaxRows
      <4>1. Len(r) = MaxRows /\ Len(h) > MaxRows
        BY <1>0, <1>8, <2>3, <3>1, SMTT(40)
      <4> QED BY <2>6, <4>1
    <3>2. CASE Len(g) < MaxRows
      <4>1. Len(r) = Len(g) /\ Len(r) # MaxRows /\ ~(Len(h) > MaxRows)
        BY <1>0, <1>8, <2>3, <3>2
      <4> QED BY <2>3, <2>6, <4>1
    <3> QED BY <1>0, <3>1, <3>2
  <2>8. Len(k.seen) <= SeenLimit /\ Len(k.seen) <= Len(h)
    <3>1. CASE Len(s) = SeenLimit
      BY <1>0, <1>8, <2>3, <2>6, <3>1
    <3>2. CASE Len(s) # SeenLimit
      <4>1. Len(k.seen) = Len(s) + 1
        BY <2>6, <3>2
      <4> QED BY <1>0, <1>8, <2>3, <3>2, <4>1
    <3> QED BY <3>1, <3>2
  <2>9. y <= t + 1 /\ (t + 1) - y <= Len(k.seen)
    <3>1. CASE e.id = None
      <4>1. y = m
        BY <1>11, <3>1
      <4>2. e.of - m < PageLimit
        BY <1>6, <1>9, <3>1
      <4>3. t \in Nat /\ m \in Nat /\ Len(s) \in Nat /\ m <= t + 1
            /\ t - m <= Len(s) /\ Len(s) <= SeenLimit
        BY <1>0, <1>3, <1>8, <1>10, <1>11, <1>12, <2>1
      <4>4. PageLimit \in Nat /\ SeenLimit \in Nat /\ PageLimit <= SeenLimit
        BY <1>0
      <4>5. CASE Len(s) = SeenLimit
        <5>1. Len(k.seen) = SeenLimit
          BY <2>6, <4>5
        <5>2. (t + 1) - m < PageLimit
          BY <2>1, <4>2
        <5> QED BY <4>1, <4>3, <4>4, <5>1, <5>2
      <4>6. CASE Len(s) # SeenLimit
        <5>1. Len(k.seen) = Len(s) + 1
          BY <2>6, <4>6
        <5> QED BY <4>1, <4>3, <5>1
      <4> QED BY <4>5, <4>6
    <3>2. CASE e.id # None
      <4>1. y = t + 1
        BY <1>11, <2>1, <3>2
      <4>2. t \in Nat /\ y <= t + 1 /\ (t + 1) - y = 0
        BY <1>3, <4>1
      <4>3. Len(k.seen) \in Nat
        BY <2>6, LenProperties
      <4> QED BY <4>2, <4>3
    <3> QED BY <3>1, <3>2
  <2>10. OnItsWay(file, v, l, t + 1)
    BY <1>3, <1>14, <2>1
  <2>11. PageOk(file, k, h, q)
    BY <1>11, <1>13, <1>15, <2>1, <2>3, <2>4, <2>6, <2>7, <2>8, <2>9, <2>10 DEF PageOk, y
  <2> QED BY <1>13, <1>15, <1>16, <2>1, <2>2, <2>11 DEF k, h, q, p, t, g
<1> QED BY <1>17, <1>18

-----------------------------------------------------------------------------
(* The steps of the feed.                                                    *)

\* A page that only changes its state, its connection, or loses its wire.
LEMMA PageOkAs ==
    ASSUME NEW p, NEW g, NEW r, PageOk(file, p, g, r), NEW k,
           k.lastId = p.lastId, k.seen = p.seen, k.wire = p.wire \/ k.wire = <<>>,
           k.at # "load", k.wire # <<>> => k.at = "live"
    PROVE  PageOk(file, k, g, r)
<1>1. OnItsWay(file, k.wire, k.lastId, Top(file, k.lastId, g))
  <2>1. CASE k.wire = p.wire
    BY <2>1 DEF PageOk
  <2>2. CASE k.wire = <<>>
    <3>1. Len(k.wire) = 0
      BY <2>2
    <3> QED BY <2>2, <3>1 DEF OnItsWay
  <2> QED BY <2>1, <2>2
<1> QED BY <1>1 DEF PageOk

LEMMA FileStays ==
    ASSUME FileInv, file' = file, pending' = pending, writes'.records = writes.records
    PROVE  FileInv'
<1>1. LinesInv'
  BY DEF FileInv, LinesInv, Mark, DoneIn, Done
<1>2. Mark(Len(file))' = Mark(Len(file)) /\ (AtLine' <=> AtLine)
  BY DEF Mark, DoneIn, Done, AtLine
<1>3. WriterInv'
  BY <1>2 DEF FileInv, WriterInv
<1> QED BY <1>1, <1>3 DEF FileInv

\* One page changes.
LEMMA OnePage ==
    ASSUME FeedTypes, PagesInv, file' = file, NEW c \in Client, NEW k,
           client' = [client EXCEPT ![c] = k],
           \A d \in Client : d # c => rows'[d] = rows[d] /\ given'[d] = given[d],
           PageOk(file, k, given'[c], rows'[c])
    PROVE  PagesInv'
<1> SUFFICES ASSUME NEW d \in Client
             PROVE  PageOk(file', client'[d], given'[d], rows'[d])
  BY DEF PagesInv
<1>1. client'[d] = IF d = c THEN k ELSE client[d]
  BY Typed
<1>2. CASE d = c
  BY <1>1, <1>2
<1>3. CASE d # c
  BY <1>1, <1>3 DEF PagesInv
<1> QED BY <1>2, <1>3

\* A page has one stream, and none if it is not connected.
LEMMA OneStream ==
    ASSUME StreamsInv, NEW c \in Client
    PROVE  /\ client[c].at # "live" => \A s \in Stream : stream[s].peer # c
           /\ \A s \in Stream : stream[s].peer = c =>
                 /\ client[c].at = "live" /\ client[c].conn = s
                 /\ StreamOk(file, s, stream[s], client[c])
                 /\ \A q \in Stream : q # s => stream[q].peer # c
<1>1. \A s \in Stream : stream[s].peer = c =>
         client[c].at = "live" /\ client[c].conn = s /\ StreamOk(file, s, stream[s], client[c])
  BY NotOne DEF StreamsInv, StreamOk
<1> QED BY <1>1

\* One stream changes, and its page with it or nothing else.
LEMMA StreamChanges ==
    ASSUME FeedTypes, StreamsInv, file' = file, NEW s \in Stream, NEW st,
           stream' = [stream EXCEPT ![s] = st],
           \/ client' = client /\ (st.peer # None => StreamOk(file, s, st, client[st.peer]))
           \/ \E c \in Client : \E k :
                 /\ client' = [client EXCEPT ![c] = k]
                 /\ \A q \in Stream : q # s => stream[q].peer # c
                 /\ st.peer = None \/ (st.peer = c /\ StreamOk(file, s, st, k)),
           st.at = "free" => st.peer = None
    PROVE  StreamsInv'
<1> SUFFICES ASSUME NEW q \in Stream
             PROVE  /\ stream'[q].at = "free" => stream'[q].peer = None
                    /\ stream'[q].peer # None =>
                          StreamOk(file', q, stream'[q], client'[stream'[q].peer])
  BY DEF StreamsInv
<1>1. stream'[q] = IF q = s THEN st ELSE stream[q]
  BY Typed
<1>2. CASE q # s
  <2>1. /\ stream[q].at = "free" => stream[q].peer = None
        /\ stream[q].peer # None => StreamOk(file, q, stream[q], client[stream[q].peer])
    BY DEF StreamsInv
  <2>2. stream[q].peer # None => client'[stream[q].peer] = client[stream[q].peer]
    BY <1>2, Typed
  <2> QED BY <1>1, <1>2, <2>1, <2>2
<1>3. CASE q = s
  <2>1. st.peer # None => StreamOk(file, s, st, client'[st.peer])
    BY Typed
  <2> QED BY <1>1, <1>3, <2>1
<1> QED BY <1>2, <1>3

\* One page changes, and its stream does not.
LEMMA StreamsStay ==
    ASSUME FeedTypes, StreamsInv, file' = file, stream' = stream, NEW c \in Client, NEW k,
           client' = [client EXCEPT ![c] = k],
           \A s \in Stream : stream[s].peer = c => StreamOk(file, s, stream[s], k)
    PROVE  StreamsInv'
<1> SUFFICES ASSUME NEW q \in Stream
             PROVE  /\ stream[q].at = "free" => stream[q].peer = None
                    /\ stream[q].peer # None =>
                          StreamOk(file, q, stream[q], client'[stream[q].peer])
  BY DEF StreamsInv
<1>1. /\ stream[q].at = "free" => stream[q].peer = None
      /\ stream[q].peer # None => StreamOk(file, q, stream[q], client[stream[q].peer])
  BY DEF StreamsInv
<1>2. stream[q].peer # None =>
         client'[stream[q].peer] = IF stream[q].peer = c THEN k ELSE client[stream[q].peer]
  BY Typed
<1>3. CASE stream[q].peer = c
  BY <1>1, <1>2, <1>3
<1>4. CASE stream[q].peer # c
  BY <1>1, <1>2, <1>4
<1> QED BY <1>3, <1>4

LEMMA FeedBegins ==
    ASSUME Init
    PROVE  FeedInv
<1>1. FeedTypes
  BY TypesBegin
<1>2. file = <<>> /\ Len(file) = 0 /\ pending = <<>> /\ writes.records = 0
  BY DEF Init
<1>3. FileInv
  <2>1. LinesInv
    BY <1>2 DEF LinesInv
  <2>2. Mark(Len(file)) = 0
    BY <1>2, MarkZero
  <2> QED BY <1>2, <2>1, <2>2 DEF FileInv, WriterInv, AtLine
<1>4. PagesInv
  <2> SUFFICES ASSUME NEW c \in Client PROVE PageOk(file, client[c], given[c], rows[c])
    BY DEF PagesInv
  <2>1. client[c] = ClosedPage /\ given[c] = <<>> /\ rows[c] = <<>>
    BY DEF Init
  <2>2. /\ client[c].at = "load" /\ client[c].lastId = 0 /\ client[c].wire = <<>>
        /\ client[c].seen = <<>>
    BY <2>1 DEF ClosedPage
  <2>3. MarkIn(file, 0) = 0 /\ CleanIn(file, 0)
    BY <1>2, MarkZero, MarksOf DEF CleanIn
  <2>4. Top(file, 0, <<>>) = 0 /\ Run(<<>>, 0) /\ OnItsWay(file, <<>>, 0, 0)
    BY <2>3 DEF Top, Run, OnItsWay
  <2>5. SeenLimit \in Nat /\ MaxRows \in Nat
    BY BoundsAre
  <2> QED BY <1>2, <2>1, <2>2, <2>3, <2>4, <2>5 DEF PageOk
<1>5. StreamsInv
  <2> SUFFICES ASSUME NEW s \in Stream PROVE stream[s].peer = None
    BY DEF StreamsInv
  <2> QED BY DEF Init, FreeStream
<1> QED BY <1>1, <1>3, <1>4, <1>5 DEF FeedInv

LEMMA FeedLog ==
    ASSUME FeedTypes, FileInv, PagesInv, StreamsInv, BeginRecord \/ BeginJunk \/ WriteCell
    PROVE  FileInv' /\ PagesInv' /\ StreamsInv'
<1>1. FileInv'
  BY LogGoesOn
<1>2. /\ client' = client /\ stream' = stream /\ given' = given /\ rows' = rows
  BY DEF BeginRecord, BeginJunk, WriteCell, servervars, clientvars
<1>3. CASE BeginRecord \/ BeginJunk
  <2>1. file' = file
    BY <1>3 DEF BeginRecord, BeginJunk
  <2>2. PagesInv'
    BY <1>2, <2>1 DEF PagesInv
  <2>3. StreamsInv'
    BY <1>2, <2>1 DEF StreamsInv
  <2> QED BY <1>1, <2>2, <2>3
<1>4. CASE WriteCell
  <2>1. file' = Append(file, Head(pending)) /\ pending # <<>>
    BY <1>4 DEF WriteCell
  <2>2. PICK x \in Cell : file' = Append(file, x)
    <3>1. pending \in Seq(Cell)
      BY DEF FeedTypes
    <3>2. pending[1] \in Cell /\ Head(pending) = pending[1]
      <4>1. Len(pending) \in Nat /\ Len(pending) # 0
        BY <2>1, <3>1, LenProperties, EmptySeq
      <4>2. 1 \in 1..Len(pending)
        BY <4>1
      <4> QED BY <2>1, <3>1, <4>2, ElementOfSeq, HeadTailProperties
    <3> QED BY <2>1, <3>2
  <2>3. file \in Seq(Cell) /\ \A c \in Client : given[c] \in Seq(Nat)
    BY DEF FeedTypes
  <2>4. \A c \in Client : PageOk(file', client[c], given[c], rows[c])
    <3> SUFFICES ASSUME NEW c \in Client PROVE PageOk(file', client[c], given[c], rows[c])
      OBVIOUS
    <3>2. PageOk(file, client[c], given[c], rows[c])
      BY DEF PagesInv
    <3>1. Top(file, client[c].lastId, given[c]) \in Nat
      BY <2>3, <3>2, TopIs DEF PageOk
    <3> QED BY <2>2, <2>3, <3>1, <3>2, PageOkKept
  <2>5. PagesInv'
    BY <1>2, <2>4 DEF PagesInv
  <2>6. StreamsInv'
    <3> SUFFICES ASSUME NEW s \in Stream
                 PROVE  /\ stream[s].at = "free" => stream[s].peer = None
                        /\ stream[s].peer # None =>
                              StreamOk(file', s, stream[s], client[stream[s].peer])
      BY <1>2 DEF StreamsInv
    <3>1. \A q : CleanIn(file, q) => CleanIn(file', q) /\ MarkIn(file', q) = MarkIn(file, q)
      <4> SUFFICES ASSUME NEW q, CleanIn(file, q)
                   PROVE  CleanIn(file', q) /\ MarkIn(file', q) = MarkIn(file, q)
        OBVIOUS
      <4>1. q \in 0..Len(file) /\ Clean(q)
        BY MarksOf DEF CleanIn
      <4>2. Mark(q)' = Mark(q) /\ Clean(q)'
        BY <2>2, <2>3, <4>1, MarkStays
      <4> QED BY <4>2, MarksOf
    <3>2. stream[s].at = "free" => stream[s].peer = None
      BY DEF StreamsInv
    <3>3. ASSUME stream[s].peer # None
          PROVE  StreamOk(file', s, stream[s], client[stream[s].peer])
      <4>1. PICK c \in Client : c = stream[s].peer
        BY <3>3, Typed
      <4>2. StreamOk(file, s, stream[s], client[c])
        BY <3>3, <4>1 DEF StreamsInv
      <4>3. CleanIn(file, client[c].lastId)
        BY DEF PagesInv, PageOk
      <4>4. SentTo(file', client[c]) = SentTo(file, client[c])
        BY <3>1, <4>3 DEF SentTo
      <4>5. StreamOk(file', s, stream[s], client[c])
        BY <3>1, <4>2, <4>4 DEF StreamOk
      <4> QED BY <4>1, <4>5
    <3> QED BY <3>2, <3>3
  <2> QED BY <1>1, <2>5, <2>6
<1> QED BY <1>3, <1>4

LEMMA FeedServer ==
    ASSUME FeedTypes, FileInv, PagesInv, StreamsInv, NEW s \in Stream,
           ServerStep(s) \/ Abandon(s) \/ Deadline(s) \/ Disconnected(s)
    PROVE  PagesInv' /\ StreamsInv'
<1> DEFINE st == stream[s]
           c == st.peer
           p == client[c]
<1>0. /\ file' = file /\ given' = given /\ rows' = rows
  BY DEF ServerStep, Begin, CheckSize, StatLog, ReadLog, Abandon, Deadline, Disconnected,
         logvars, clientvars
<1>1. /\ st \in StreamRec /\ st.cursor \in Nat /\ c \in Client \cup {None}
      /\ file \in Seq(Cell) /\ Len(file) \in Nat
  BY Typed, LenProperties DEF FeedTypes
<1>2. c # None =>
        /\ c \in Client /\ StreamOk(file, s, st, p) /\ PageOk(file, p, given[c], rows[c])
        /\ p \in PageRec
        /\ st.cursor <= Len(file) /\ \A q \in Stream : q # s => stream[q].peer # c
  <2> SUFFICES ASSUME c # None
               PROVE  /\ c \in Client /\ StreamOk(file, s, st, p)
                      /\ PageOk(file, p, given[c], rows[c]) /\ p \in PageRec
                      /\ st.cursor <= Len(file) /\ \A q \in Stream : q # s => stream[q].peer # c
    OBVIOUS
  <2>1. PICK d \in Client : d = c
    BY <1>1
  <2>2. /\ StreamOk(file, s, st, client[d]) /\ PageOk(file, client[d], given[d], rows[d])
        /\ client[d] \in PageRec /\ \A q \in Stream : q # s => stream[q].peer # d
    BY <2>1, OneStream, Typed DEF PagesInv
  <2>3. st.cursor <= Len(file)
    BY <1>1, <2>2, MarksAre DEF StreamOk
  <2> QED BY <2>1, <2>2, <2>3
<1>3. ASSUME client' = client
      PROVE  PagesInv'
  BY <1>0, <1>3 DEF PagesInv
\* The fields of a stream are what it is built of.
<1>4. \A a, x, y, d, i : LET z == StreamOf(a, x, y, d, i) IN
         z.at = a /\ z.cursor = x /\ z.after = y /\ z.peer = d /\ z.idle = i
  BY DEF StreamOf
<1>5. CASE Begin(s)
  <2> DEFINE z == StreamOf("check", st.cursor, st.after, c, st.idle)
  <2>1. stream' = [stream EXCEPT ![s] = z] /\ client' = client
    BY <1>5, BeginDoes DEF Begin
  <2>2. z.at = "check" /\ z.cursor = st.cursor /\ z.peer = c
    BY <1>4
  <2> HIDE DEF z
  <2>3. z.peer # None => StreamOk(file, s, z, client[z.peer])
    BY <1>2, <2>2 DEF StreamOk
  <2>4. StreamsInv'
    BY <1>0, <2>1, <2>2, <2>3, StreamChanges
  <2> QED BY <1>3, <2>1, <2>4
<1>6. CASE CheckSize(s)
  <2>1. CASE st.cursor > Len(file)
    <3> DEFINE z == StreamOf("stat", 0, st.after, c, st.idle)
    <3>1. /\ stream' = [stream EXCEPT ![s] = z]
          /\ Send(s, <<[event |-> "reset", of |-> JUNK, id |-> 0]>>)
      BY <1>6, <2>1, CheckSizeDoes
    <3>2. c = None
      BY <1>1, <1>2, <2>1
    <3>3. client' = client
      BY <3>1, <3>2 DEF Send
    <3>4. z.at = "stat" /\ z.peer = None
      BY <1>4, <3>2
    <3> HIDE DEF z
    <3>5. StreamsInv'
      BY <1>0, <3>1, <3>3, <3>4, StreamChanges
    <3> QED BY <1>3, <3>3, <3>5
  <2>2. CASE ~(st.cursor > Len(file))
    <3> DEFINE z == StreamOf("stat", st.cursor, st.after, c, st.idle)
    <3>1. stream' = [stream EXCEPT ![s] = z] /\ client' = client
      BY <1>6, <2>2, CheckSizeDoes
    <3>2. z.at = "stat" /\ z.cursor = st.cursor /\ z.peer = c
      BY <1>4
    <3> HIDE DEF z
    <3>3. z.peer # None => StreamOk(file, s, z, client[z.peer])
      BY <1>2, <3>2 DEF StreamOk
    <3>4. StreamsInv'
      BY <1>0, <3>1, <3>2, <3>3, StreamChanges
    <3> QED BY <1>3, <3>1, <3>4
  <2> QED BY <2>1, <2>2
<1>7. CASE StatLog(s)
  <2> DEFINE y == IF st.cursor > Len(file) THEN 0 ELSE st.cursor
             z == StreamOf("read", st.cursor, y, c, st.idle)
  <2>1. stream' = [stream EXCEPT ![s] = z] /\ client' = client
    BY <1>7, StatLogDoes DEF StatLog, clientvars
  <2>2. z.at = "read" /\ z.cursor = st.cursor /\ z.after = y /\ z.peer = c
    BY <1>4
  <2>3. c # None => y = st.cursor
    BY <1>1, <1>2
  <2> HIDE DEF z, y
  <2>4. z.peer # None => StreamOk(file, s, z, client[z.peer])
    BY <1>2, <2>2, <2>3 DEF StreamOk
  <2>5. StreamsInv'
    BY <1>0, <2>1, <2>2, <2>4, StreamChanges
  <2> QED BY <1>3, <2>1, <2>5
<1>8. CASE ReadLog(s)
  <2> DEFINE w == Window(st.after)
  <2>1. st.at = "read"
    BY <1>8 DEF ReadLog
  <2>2. \/ /\ w.next # st.cursor /\ Send(s, PageEvents(w))
           /\ stream' = [stream EXCEPT ![s] = StreamOf("check", w.next, 0, c, st.idle)]
        \/ /\ w.next = st.cursor /\ client' = client
           /\ stream' = [stream EXCEPT ![s] = StreamOf("check", st.cursor, 0, c, TRUE)]
    BY <1>8, ReadLogDoes
  <2>3. CASE /\ w.next = st.cursor /\ client' = client
             /\ stream' = [stream EXCEPT ![s] = StreamOf("check", st.cursor, 0, c, TRUE)]
    <3> DEFINE z == StreamOf("check", st.cursor, 0, c, TRUE)
    <3>1. z.at = "check" /\ z.cursor = st.cursor /\ z.peer = c
      BY DEF StreamOf
    <3>2. stream' = [stream EXCEPT ![s] = z]
      BY <2>3
    <3> HIDE DEF z
    <3>3. z.peer # None => StreamOk(file, s, z, client[z.peer])
      BY <1>2, <3>1 DEF StreamOk
    <3>4. StreamsInv'
      BY <1>0, <2>3, <3>1, <3>2, <3>3, StreamChanges
    <3> QED BY <1>3, <2>3, <3>4
  <2>4. CASE /\ Send(s, PageEvents(w))
             /\ stream' = [stream EXCEPT ![s] = StreamOf("check", w.next, 0, c, st.idle)]
    <3> DEFINE z == StreamOf("check", w.next, 0, c, st.idle)
    <3>1. z.at = "check" /\ z.cursor = w.next /\ z.peer = c
      BY <1>4
    <3>2. stream' = [stream EXCEPT ![s] = z]
      BY <2>4
    <3> HIDE DEF z
    <3>3. CASE c = None
      <4>1. client' = client
        BY <2>4, <3>3 DEF Send
      <4>2. StreamsInv'
        BY <1>0, <3>1, <3>2, <3>3, <4>1, StreamChanges
      <4> QED BY <1>3, <4>1, <4>2
    <3>4. CASE c # None
      <4>1. /\ c \in Client /\ StreamOk(file, s, st, p) /\ PageOk(file, p, given[c], rows[c])
            /\ p \in PageRec /\ \A q \in Stream : q # s => stream[q].peer # c
        BY <1>2, <3>4
      <4>2. PICK d \in Client : d = c
        BY <4>1
      <4> DEFINE k == Page(p.at, p.lastId, p.conn, p.wire \o PageEvents(w), p.seen)
      <4>3. client' = [client EXCEPT ![d] = k]
        BY <2>4, <3>4, <4>2, SendDoes
      <4>4. /\ p.at = "live" /\ p.conn = s /\ CleanIn(file, st.cursor)
            /\ MarkIn(file, st.cursor) = SentTo(file, p) /\ st.after = st.cursor
        BY <2>1, <4>1 DEF StreamOk
      <4>5. PICK x \in Nat : x = st.cursor
        BY <1>1
      <4>6. Top(file, p.lastId, given[c]) \in Nat
        <5>1. given[d] \in Seq(Nat) /\ file \in Seq(Cell) /\ CleanIn(file, p.lastId)
          BY <4>1 DEF FeedTypes, PageOk
        <5> QED BY <4>2, <5>1, TopIs
      <4>7. w = Window(x) /\ CleanIn(file, x) /\ MarkIn(file, x) = SentTo(file, p)
        BY <4>4, <4>5
      <4> HIDE DEF w
      <4>8. PICK g, r, b : g = given[c] /\ r = rows[c] /\ b = p
        OBVIOUS
      <4>9. b \in PageRec /\ Top(file, b.lastId, g) \in Nat /\ PageOk(file, b, g, r) /\ b.at = "live"
            /\ MarkIn(file, x) = SentTo(file, b)
        BY <4>1, <4>4, <4>6, <4>7, <4>8
      <4>10. LET v == Window(x)
                 q == Page(b.at, b.lastId, b.conn, b.wire \o PageEvents(v), b.seen) IN
             /\ PageOk(file, q, g, r)
             /\ CleanIn(file, v.next) /\ MarkIn(file, v.next) = SentTo(file, q)
        BY <4>7, <4>9, SendsOn
      <4>11. /\ PageOk(file, k, given[c], rows[c])
             /\ CleanIn(file, w.next) /\ MarkIn(file, w.next) = SentTo(file, k)
        BY <4>7, <4>8, <4>10
      <4>12. k.at = "live" /\ k.conn = s
        BY <4>4 DEF Page
      <4> HIDE DEF k
      <4>13. PagesInv'
        BY <1>0, <4>2, <4>3, <4>11, OnePage
      <4>14. StreamOk(file, s, z, k)
        BY <3>1, <4>11, <4>12 DEF StreamOk
      <4>15. /\ client' = [client EXCEPT ![d] = k]
             /\ \A q \in Stream : q # s => stream[q].peer # d
             /\ z.peer = d /\ z.at # "free"
        BY <3>1, <4>1, <4>2, <4>3
      <4>16. StreamsInv'
        BY <1>0, <3>2, <4>14, <4>15, StreamChanges
      <4> QED BY <4>13, <4>16
    <3> QED BY <3>3, <3>4
  <2> QED BY <2>2, <2>3, <2>4
<1>9. CASE Deadline(s)
  <2> DEFINE z == StreamOf("free", 0, 0, None, FALSE)
             k == Page(p.at, p.lastId, None, p.wire, p.seen)
  <2>1. /\ c \in Client /\ c # None /\ stream' = [stream EXCEPT ![s] = z]
        /\ client' = [client EXCEPT ![c] = k]
    BY <1>9, DeadlineDoes, NotOne
  <2>2. PICK d \in Client : d = c
    BY <2>1
  <2>3. z.peer = None
    BY DEF StreamOf
  <2>4. k.lastId = p.lastId /\ k.seen = p.seen /\ k.wire = p.wire /\ k.at = p.at
    BY DEF Page
  <2>5. p.at = "live" /\ PageOk(file, p, given[c], rows[c])
    BY <1>2, <2>1 DEF StreamOk
  <2> HIDE DEF z, k
  <2>6. PageOk(file, k, given[d], rows[d])
    BY <2>2, <2>4, <2>5, PageOkAs
  <2>7. client' = [client EXCEPT ![d] = k] /\ \A q \in Stream : q # s => stream[q].peer # d
    BY <1>2, <2>1, <2>2
  <2>8. PagesInv'
    BY <1>0, <2>6, <2>7, OnePage
  <2>9. StreamsInv'
    BY <1>0, <2>1, <2>3, <2>7, StreamChanges
  <2> QED BY <2>8, <2>9
<1>10. CASE Abandon(s) \/ Disconnected(s)
  <2>1. stream' = [stream EXCEPT ![s] = FreeStream] /\ client' = client
    BY <1>10 DEF Abandon, Disconnected, EndStream, clientvars
  <2>2. FreeStream.peer = None
    BY DEF FreeStream
  <2>3. StreamsInv'
    BY <1>0, <2>1, <2>2, StreamChanges
  <2> QED BY <1>3, <2>1, <2>3
<1> QED BY <1>5, <1>6, <1>7, <1>8, <1>9, <1>10 DEF ServerStep

LEMMA FeedPage ==
    ASSUME FeedTypes, FileInv, PagesInv, StreamsInv, NEW c \in Client,
           PageStep(c) \/ Stop(c) \/ Drop(c)
    PROVE  PagesInv' /\ StreamsInv'
<1> DEFINE p == client[c]
<1>0. file' = file /\ p \in PageRec /\ p.lastId \in Nat
  BY Typed DEF PageStep, Load, LoadRaises, Connect, ReceiveReset, ReceiveRecord, StreamEnds, Stop,
               Drop, logvars
<1>1. PageOk(file, p, given[c], rows[c])
  BY DEF PagesInv
<1>2. p.at # "live" => \A s \in Stream : stream[s].peer # c
  BY OneStream
<1>3. DOMAIN given = Client /\ DOMAIN rows = Client
  BY DEF FeedTypes
<1>4. \A a, x, n, w, b : LET k == Page(a, x, n, w, b) IN
         k.at = a /\ k.lastId = x /\ k.conn = n /\ k.wire = w /\ k.seen = b
  BY DEF Page
<1>5. CASE Load(c)
  <2>1. /\ p.at = "load" /\ stream' = stream
        /\ rows' = [rows EXCEPT ![c] = TailPage.records]
        /\ given' = [given EXCEPT ![c] = TailPage.records]
    BY <1>5 DEF Load, servervars
  <2> DEFINE k == Page("connect", TailPage.next, p.conn, p.wire, p.seen)
  <2>2. client' = [client EXCEPT ![c] = k]
    BY <1>5, LoadDoes
  <2>3. PageOk(file, k, TailPage.records, TailPage.records)
    <3>1. PICK b, g, r : b = p /\ g = given[c] /\ r = rows[c]
      OBVIOUS
    <3>2. b \in PageRec /\ PageOk(file, b, g, r) /\ b.at = "load"
      BY <1>0, <1>1, <2>1, <3>1
    <3>3. LET t == TailPage IN
          PageOk(file, Page("connect", t.next, b.conn, b.wire, b.seen), t.records, t.records)
      BY <3>2, LoadsRows
    <3> QED BY <3>1, <3>3
  <2> HIDE DEF k
  <2>4. /\ given'[c] = TailPage.records /\ rows'[c] = TailPage.records
        /\ \A d \in Client : d # c => rows'[d] = rows[d] /\ given'[d] = given[d]
    BY <1>3, <2>1
  <2>5. PagesInv'
    BY <1>0, <2>2, <2>3, <2>4, OnePage
  <2>6. StreamsInv'
    <3>1. \A s \in Stream : stream[s].peer = c => StreamOk(file, s, stream[s], k)
      BY <1>2, <2>1
    <3> QED BY <1>0, <2>1, <2>2, <3>1, StreamsStay
  <2> QED BY <2>5, <2>6
<1>6. CASE Connect(c)
  <2>1. p.at = "connect" /\ rows' = rows /\ given' = given
    BY <1>6 DEF Connect
  <2>2. PICK s \in Stream :
           /\ stream[s].at = "free"
           /\ stream' = [stream EXCEPT ![s] = StreamOf("accepted", p.lastId, 0, c, FALSE)]
           /\ client' = [client EXCEPT ![c] = Page("live", p.lastId, s, p.wire, p.seen)]
    BY <1>6, ConnectDoes
  <2> DEFINE k == Page("live", p.lastId, s, p.wire, p.seen)
             z == StreamOf("accepted", p.lastId, 0, c, FALSE)
  <2>3. k.at = "live" /\ k.lastId = p.lastId /\ k.conn = s /\ k.wire = p.wire /\ k.seen = p.seen
    BY <1>4
  <2>4. z.at = "accepted" /\ z.cursor = p.lastId /\ z.peer = c
    BY DEF StreamOf
  <2>5. stream' = [stream EXCEPT ![s] = z] /\ client' = [client EXCEPT ![c] = k]
    BY <2>2
  <2> HIDE DEF k, z
  <2>6. PageOk(file, k, given'[c], rows'[c])
    BY <1>1, <2>1, <2>3, PageOkAs
  <2>7. PagesInv'
    BY <1>0, <2>1, <2>5, <2>6, OnePage
  <2>8. StreamOk(file, s, z, k)
    <3>1. p.wire = <<>> /\ CleanIn(file, p.lastId)
      BY <1>1, <2>1 DEF PageOk
    <3> QED BY <2>3, <2>4, <3>1 DEF StreamOk, SentTo
  <2>9. \A q \in Stream : q # s => stream[q].peer # c
    BY <1>2, <2>1
  <2>10. StreamsInv'
    BY <1>0, <2>4, <2>5, <2>8, <2>9, StreamChanges
  <2> QED BY <2>7, <2>10
<1>7. CASE ReceiveReset(c)
  <2>1. p.wire # <<>> /\ Head(p.wire).event = "reset"
    BY <1>7 DEF ReceiveReset
  <2>2. p.wire \in Seq(Told)
    BY Typed
  <2>3. Head(p.wire) = p.wire[1] /\ 1 \in 1..Len(p.wire)
    <3>1. Len(p.wire) \in Nat /\ Len(p.wire) # 0
      BY <2>1, <2>2, LenProperties, EmptySeq
    <3> DEFINE w == p.wire
    <3> HIDE DEF w
    <3>2. w \in Seq(Told) /\ w # <<>> => Head(w) = w[1]
      BY HeadTailProperties
    <3> QED BY <2>1, <2>2, <3>1, <3>2 DEF w
  <2>4. p.wire[1].event = "audit"
    BY <1>1, <2>3 DEF PageOk, OnItsWay
  <2> QED BY <2>1, <2>3, <2>4
<1>8. CASE ReceiveRecord(c)
  <2>1. /\ PageOk(file, client'[c], given'[c], rows'[c])
        /\ SentTo(file, client'[c]) = SentTo(file, p)
        /\ client'[c].at = "live" /\ client'[c].conn = p.conn
    BY <1>1, <1>8, Receives
  <2>2. stream' = stream
    BY <1>8 DEF ReceiveRecord, servervars
  <2>3. PICK k : k = client'[c]
    OBVIOUS
  <2>4. client' = [client EXCEPT ![c] = k]
    <3>1. PICK h : client' = [client EXCEPT ![c] = h]
      BY <1>8, ReceiveRecordDoes
    <3>2. h = client'[c]
      BY <3>1, Typed
    <3> QED BY <2>3, <3>1, <3>2
  <2>5. \A d \in Client : d # c => rows'[d] = rows[d] /\ given'[d] = given[d]
    <3>1. \/ rows' = rows /\ given' = given
          \/ \E x, y : rows' = [rows EXCEPT ![c] = x] /\ given' = [given EXCEPT ![c] = y]
      BY <1>8, ReceiveRecordDoes
    <3> QED BY <1>3, <3>1
  <2>6. PagesInv'
    BY <1>0, <2>1, <2>3, <2>4, <2>5, OnePage
  <2>7. \A s \in Stream : stream[s].peer = c => StreamOk(file, s, stream[s], k)
    <3> SUFFICES ASSUME NEW s \in Stream, stream[s].peer = c
                 PROVE  StreamOk(file, s, stream[s], k)
      OBVIOUS
    <3>1. StreamOk(file, s, stream[s], p)
      BY OneStream
    <3> QED BY <2>1, <2>3, <3>1 DEF StreamOk
  <2>8. StreamsInv'
    BY <1>0, <2>2, <2>4, <2>7, StreamsStay
  <2> QED BY <2>6, <2>8
<1>9. CASE StreamEnds(c) \/ LoadRaises(c) \/ Stop(c)
  <2>1. /\ stream' = stream /\ rows' = rows /\ given' = given
        /\ \A s \in Stream : stream[s].peer # c
    <3>1. /\ stream' = stream /\ rows' = rows /\ given' = given
          /\ p.at # "live" \/ p.conn = None
      BY <1>9 DEF StreamEnds, LoadRaises, Stop, servervars
    <3>2. p.conn = None => \A s \in Stream : stream[s].peer # c
      BY OneStream, NotOne
    <3> QED BY <1>2, <3>1, <3>2
  <2>2. PICK a \in {"connect", "stopped"} :
           client' = [client EXCEPT ![c] = Page(a, p.lastId, p.conn, p.wire, p.seen)]
    <3>1. PICK a \in {"connect", "stopped"} : client' = [client EXCEPT ![c].at = a]
      BY <1>9 DEF StreamEnds, LoadRaises, Stop
    <3>2. [p EXCEPT !.at = a] = Page(a, p.lastId, p.conn, p.wire, p.seen)
      BY <1>0, PageKeeps
    <3> QED BY <3>1, <3>2
  <2> DEFINE k == Page(a, p.lastId, p.conn, p.wire, p.seen)
  <2>3. k.at = a /\ k.lastId = p.lastId /\ k.wire = p.wire /\ k.seen = p.seen
    BY <1>4
  <2>4. client' = [client EXCEPT ![c] = k]
    BY <2>2
  <2> HIDE DEF k
  <2>5. p.wire = <<>>
    BY <1>1, <1>9 DEF StreamEnds, LoadRaises, Stop, PageOk
  <2>6. PageOk(file, k, given'[c], rows'[c])
    BY <1>1, <2>1, <2>3, <2>5, PageOkAs
  <2>7. PagesInv'
    BY <1>0, <2>1, <2>4, <2>6, OnePage
  <2>8. StreamsInv'
    BY <1>0, <2>1, <2>4, StreamsStay
  <2> QED BY <2>7, <2>8
<1>10. CASE Drop(c)
  <2>1. rows' = rows /\ given' = given /\ p.at = "live"
    BY <1>10 DEF Drop
  <2> DEFINE k == Page("connect", p.lastId, None, <<>>, p.seen)
  <2>2. /\ client' = [client EXCEPT ![c] = k]
        /\ \A s \in Stream : stream'[s] =
              IF s = p.conn
              THEN StreamOf(stream[s].at, stream[s].cursor, stream[s].after, None, stream[s].idle)
              ELSE stream[s]
    BY <1>10, DropDoes
  <2>3. k.at = "connect" /\ k.lastId = p.lastId /\ k.wire = <<>> /\ k.seen = p.seen
    BY <1>4
  <2> HIDE DEF k
  <2>4. PageOk(file, k, given'[c], rows'[c])
    BY <1>1, <2>1, <2>3, PageOkAs
  <2>5. PagesInv'
    BY <1>0, <2>1, <2>2, <2>4, OnePage
  <2>6. StreamsInv'
    <3> SUFFICES ASSUME NEW s \in Stream
                 PROVE  /\ stream'[s].at = "free" => stream'[s].peer = None
                        /\ stream'[s].peer # None =>
                              StreamOk(file', s, stream'[s], client'[stream'[s].peer])
      BY DEF StreamsInv
    <3>1. CASE s = p.conn
      <4> DEFINE z == StreamOf(stream[s].at, stream[s].cursor, stream[s].after, None, stream[s].idle)
      <4>0. z.peer = None
        BY DEF StreamOf
      <4> HIDE DEF z
      <4>1. stream'[s].peer = None
        BY <2>2, <3>1, <4>0 DEF z
      <4> QED BY <4>1
    <3>2. CASE s # p.conn
      <4>1. stream'[s] = stream[s] /\ stream[s].peer # c
        BY <2>2, <3>2, OneStream
      <4>2. /\ stream[s].at = "free" => stream[s].peer = None
            /\ stream[s].peer # None => StreamOk(file, s, stream[s], client[stream[s].peer])
        BY DEF StreamsInv
      <4>3. stream[s].peer # None => client'[stream[s].peer] = client[stream[s].peer]
        BY <2>2, <4>1, Typed
      <4> QED BY <1>0, <4>1, <4>2, <4>3
    <3> QED BY <3>1, <3>2
  <2> QED BY <2>5, <2>6
<1> QED BY <1>5, <1>6, <1>7, <1>8, <1>9, <1>10 DEF PageStep

\* What is counted: nobody replaces the log but Replace.
LEMMA CountsKept ==
    ASSUME FeedTypes,
           \/ \E s \in Stream : ServerStep(s) \/ Abandon(s) \/ Deadline(s) \/ Disconnected(s)
           \/ \E c \in Client : PageStep(c) \/ Stop(c) \/ Drop(c)
    PROVE  /\ writes'.records = writes.records /\ writes'.replaced = writes.replaced
           /\ file' = file /\ pending' = pending
<1>1. /\ \/ writes' = writes
         \/ writes' = [writes EXCEPT !.faults = @ + 1]
         \/ writes' = [writes EXCEPT !.abandoned = @ + 1]
      /\ file' = file /\ pending' = pending
  <2>1. CASE \E s \in Stream : ServerStep(s) \/ Abandon(s) \/ Deadline(s) \/ Disconnected(s)
    BY <2>1, ZenonT(40) DEF ServerStep, Begin, CheckSize, StatLog, ReadLog, Abandon, Deadline, Disconnected,
                logvars
  <2>2. CASE \E c \in Client : PageStep(c) \/ Stop(c) \/ Drop(c)
    BY <2>2 DEF PageStep, Load, LoadRaises, Connect, ReceiveReset, ReceiveRecord, StreamEnds, Stop,
                Drop, logvars
  <2> QED BY <2>1, <2>2, SMTT(40)
<1>2. writes \in WriteCounts
  BY DEF FeedTypes
<1> QED BY <1>1, <1>2, SMTT(40) DEF WriteCounts

LEMMA FeedStep ==
    ASSUME FeedInv, [Next]_vars
    PROVE  FeedInv' /\ (writes'.replaced = 0 => writes.replaced = 0)
<1>1. FeedTypes /\ FeedTypes' /\ writes \in WriteCounts
  BY TypesStep DEF FeedInv, FeedTypes
<1> SUFFICES ASSUME writes'.replaced = 0
             PROVE  writes.replaced = 0 /\ FileInv' /\ PagesInv' /\ StreamsInv'
  BY <1>1 DEF FeedInv
<1>2. CASE BeginRecord \/ BeginJunk \/ WriteCell
  <2>1. writes.replaced = 0
    BY <1>1, <1>2 DEF BeginRecord, BeginJunk, WriteCell, WriteCounts
  <2> QED BY <1>1, <1>2, <2>1, FeedLog DEF FeedInv
<1>3. CASE Replace
  <2>1. writes'.replaced = writes.replaced + 1 /\ writes.replaced \in Nat
    BY <1>1, <1>3 DEF Replace, WriteCounts
  <2> QED BY <2>1
<1>4. CASE \E s \in Stream : ServerStep(s) \/ Abandon(s) \/ Deadline(s) \/ Disconnected(s)
  <2>1. /\ writes'.records = writes.records /\ writes.replaced = 0
        /\ file' = file /\ pending' = pending
    BY <1>1, <1>4, CountsKept
  <2>2. FileInv /\ PagesInv /\ StreamsInv
    BY <2>1 DEF FeedInv
  <2>3. FileInv'
    BY <2>1, <2>2, FileStays
  <2>4. PagesInv' /\ StreamsInv'
    BY <1>1, <1>4, <2>2, FeedServer
  <2> QED BY <2>1, <2>3, <2>4
<1>5. CASE \E c \in Client : PageStep(c) \/ Stop(c) \/ Drop(c)
  <2>1. /\ writes'.records = writes.records /\ writes.replaced = 0
        /\ file' = file /\ pending' = pending
    BY <1>1, <1>5, CountsKept
  <2>2. FileInv /\ PagesInv /\ StreamsInv
    BY <2>1 DEF FeedInv
  <2>3. FileInv'
    BY <2>1, <2>2, FileStays
  <2>4. PagesInv' /\ StreamsInv'
    BY <1>1, <1>5, <2>2, FeedPage
  <2> QED BY <2>1, <2>3, <2>4
<1>6. CASE UNCHANGED vars
  <2>1. /\ file' = file /\ pending' = pending /\ stream' = stream /\ client' = client
        /\ rows' = rows /\ given' = given /\ writes' = writes
    BY <1>6 DEF vars, logvars, servervars, clientvars
  <2>2. FileInv /\ PagesInv /\ StreamsInv
    BY <2>1 DEF FeedInv
  <2>3. FileInv'
    BY <2>1, <2>2, FileStays
  <2>4. PagesInv'
    BY <2>1, <2>2 DEF PagesInv
  <2>5. StreamsInv'
    BY <2>1, <2>2 DEF StreamsInv
  <2> QED BY <2>1, <2>3, <2>4, <2>5
<1> QED BY <1>2, <1>3, <1>4, <1>5, <1>6 DEF Next

LEMMA FeedAlways ==
    Spec => []FeedInv
<1>1. FeedInv /\ [Next]_vars => FeedInv'
  BY FeedStep
<1> QED BY FeedBegins, <1>1, PTL DEF Spec

\* As long as nobody replaces the log, a page is told of a record once, however
\* often streams break in the middle of a page of records, whatever lines are no
\* records, and though it remembers only the newest: for any number of pages,
\* places and records, and all sizes of a read and of what a page keeps.
THEOREM ToldOnceInOneLog ==
    Spec => [](writes.replaced = 0 => ToldOnce)
<1>1. FeedInv => (writes.replaced = 0 => ToldOnce)
  <2> SUFFICES ASSUME FeedInv, writes.replaced = 0, NEW c \in Client
               PROVE  IsInjective(given[c])
    BY DEF ToldOnce
  <2> DEFINE t == Top(file, client[c].lastId, given[c])
  <2>1. /\ given[c] \in Seq(Nat) /\ Run(given[c], t)
        /\ file \in Seq(Cell) /\ CleanIn(file, client[c].lastId)
    BY DEF FeedInv, FeedTypes, PagesInv, PageOk
  <2>2. Len(given[c]) \in Nat /\ DOMAIN given[c] = 1..Len(given[c])
    BY <2>1, LenProperties
  <2>3. t \in Nat
    BY <2>1, TopIs
  <2>4. ASSUME NEW a \in 1..Len(given[c]), NEW b \in 1..Len(given[c]), given[c][a] = given[c][b]
        PROVE  a = b
    <3>1. /\ given[c][a] = t - Len(given[c]) + a
          /\ given[c][b] = t - Len(given[c]) + b
      BY <2>1 DEF Run
    <3>2. PICK u \in Nat, n \in Nat : u = t /\ n = Len(given[c])
      BY <2>2, <2>3
    <3>3. u - n + a = u - n + b /\ a \in Nat /\ b \in Nat
      <4>1. u - n + a = u - n + b
        BY <2>4, <3>1, <3>2
      <4>2. a \in Nat /\ b \in Nat
        BY <2>2
      <4> QED BY <4>1, <4>2
    <3> QED BY <3>2, <3>3
  <2> QED BY <2>2, <2>4 DEF IsInjective
<1> QED BY FeedAlways, <1>1, PTL

-----------------------------------------------------------------------------
(* A page is a LiveView as long as nobody replaces the log.                  *)

Shown == Records(0, Len(file))

NewestShown == IF Shown = <<>> THEN 0 ELSE Last(Shown)

Long == Len(file) > MaxRead

RecordsOk == file \in Seq(Cell) /\ LinesInv =>
    /\ Shown \in Seq(Nat) /\ Len(Shown) = Mark(Len(file)) /\ Len(Shown) \in Nat
    /\ \A k \in 1..Len(Shown) : Shown[k] = k
    /\ NewestShown = Mark(Len(file))

ViewAt(at) == CASE at = "load" -> "loading" [] at = "stopped" -> "closed" [] OTHER -> "open"

ViewOf(c) == [at |-> ViewAt(client[c].at), rows |-> rows[c], past |-> Past(c)]

ViewPage == [c \in Client |-> ViewOf(c)]

LEMMA ShownAre ==
    RecordsOk
<1> SUFFICES ASSUME file \in Seq(Cell), LinesInv PROVE RecordsOk
  BY DEF RecordsOk
<1>1. /\ Shown \in Seq(Nat) /\ Len(Shown) = Mark(Len(file)) /\ Len(Shown) \in Nat
      /\ \A k \in 1..Len(Shown) : Shown[k] = k
  BY RecordsMarked DEF Shown
<1> DEFINE s == Shown
<1>2. s \in Seq(Nat) /\ Len(s) \in Nat /\ \A k \in 1..Len(s) : s[k] = k
  BY <1>1
<1> HIDE DEF s
<1>3. (IF s = <<>> THEN 0 ELSE Last(s)) = Len(s)
  <2>1. CASE s = <<>>
    BY <2>1
  <2>2. CASE s # <<>>
    <3>1. Len(s) \in 1..Len(s)
      BY <1>2, <2>2, EmptySeq
    <3> QED BY <1>2, <2>2, <3>1 DEF Last
  <2> QED BY <2>1, <2>2
<1>4. NewestShown = Mark(Len(file))
  BY <1>1, <1>3 DEF NewestShown, s
<1> QED BY <1>1, <1>4 DEF RecordsOk

LEMMA ShownNext ==
    RecordsOk'
BY ShownAre, PTL

\* What a page is past, by its cursor if it shows nothing.
PastOk ==
    FeedTypes /\ FileInv /\ PagesInv =>
        \A c \in Client : Past(c) = Top(file, client[c].lastId, given[c])

LEMMA PastIs ==
    PastOk
<1> SUFFICES ASSUME FeedTypes, FileInv, PagesInv, NEW c \in Client
             PROVE  Past(c) = Top(file, client[c].lastId, given[c])
  BY DEF PastOk
<1> DEFINE g == given[c]
           r == rows[c]
           u == client[c].lastId
           t == Top(file, u, g)
<1>1. /\ file \in Seq(Cell) /\ LinesInv /\ g \in Seq(Nat) /\ r \in Seq(Nat)
      /\ Len(file) \in Nat /\ Len(g) \in Nat /\ Len(r) \in Nat /\ MaxRows \in Nat \ {0}
  <2>1. file \in Seq(Cell) /\ LinesInv /\ g \in Seq(Nat) /\ r \in Seq(Nat)
    BY DEF FeedTypes, FileInv
  <2> QED BY <2>1, LenProperties, FeedAssumption
<1>2. /\ Run(r, t) /\ CleanIn(file, u)
      /\ Len(r) = IF Len(g) > MaxRows THEN MaxRows ELSE Len(g)
  BY DEF PagesInv, PageOk
<1>3. u \in 0..Len(file) /\ t \in Nat
  BY <1>1, <1>2, TopIs DEF CleanIn
<1>4. Past(c) = IF r # <<>> THEN Last(r) ELSE NewestOf(Min({u, Len(file)}))
  BY DEF Past
<1> HIDE DEF r, u
<1>5. CASE r # <<>>
  <2>1. Len(r) \in 1..Len(r)
    BY <1>1, <1>5, EmptySeq
  <2>2. r[Len(r)] = t - Len(r) + Len(r)
    BY <1>2, <2>1 DEF Run
  <2>3. r[Len(r)] = t
    <3> HIDE DEF t
    <3> QED BY <1>1, <1>3, <2>2
  <2> QED BY <1>4, <1>5, <2>3 DEF Last, u
<1>6. CASE r = <<>>
  <2>1. g = <<>>
    <3>1. Len(r) = 0
      BY <1>6
    <3>2. Len(g) = 0
      <4> HIDE DEF g
      <4> QED BY <1>1, <1>2, <3>1
    <3> QED BY <1>1, <3>2, EmptySeq
  <2>2. t = MarkIn(file, u)
    BY <2>1 DEF Top
  <2>3. Min({u, Len(file)}) = u
    <3>1. u \in Nat /\ u <= Len(file)
      BY <1>1, <1>3
    <3> QED BY <1>1, <3>1, MinOfTwo
  <2> DEFINE all == Records(0, u)
  <2>4. /\ all \in Seq(Nat) /\ Len(all) = Mark(u) /\ Len(all) \in Nat
        /\ \A k \in 1..Len(all) : all[k] = k
    BY <1>1, <1>3, MarkedUpto
  <2>5. NewestOf(u) = IF all = <<>> THEN 0 ELSE Last(all)
    BY DEF NewestOf
  <2> HIDE DEF all
  <2>6. NewestOf(u) = Len(all)
    <3>1. CASE all = <<>>
      BY <2>5, <3>1
    <3>2. CASE all # <<>>
      <4>1. Len(all) \in 1..Len(all)
        BY <2>4, <3>2, EmptySeq
      <4> QED BY <2>4, <2>5, <3>2, <4>1 DEF Last
    <3> QED BY <3>1, <3>2
  <2>7. Mark(u) = MarkIn(file, u)
    BY MarksOf
  <2> QED BY <1>4, <1>6, <2>2, <2>3, <2>4, <2>6, <2>7 DEF u
<1> QED BY <1>5, <1>6

LEMMA PastNext ==
    PastOk'
BY PastIs, PTL

\* A page that is told of nothing is past the same record.
LEMMA PastKept ==
    ASSUME FeedTypes, FileInv, PagesInv, (FeedTypes /\ FileInv /\ PagesInv)', file' = file,
           NEW c \in Client, given'[c] = given[c],
           client'[c].lastId = client[c].lastId \/ given[c] # <<>>
    PROVE  Past(c)' = Past(c)
<1>1. Past(c) = Top(file, client[c].lastId, given[c])
  BY PastIs DEF PastOk
<1>2. Past(c)' = Top(file', client'[c].lastId, given'[c])
  BY PastNext DEF PastOk
<1>3. Top(file', client'[c].lastId, given'[c]) = Top(file, client[c].lastId, given[c])
  BY DEF Top
<1> QED BY <1>1, <1>2, <1>3

\* Nor does a longer log change that.
LEMMA PastStays ==
    ASSUME FeedTypes, FileInv, PagesInv, (FeedTypes /\ FileInv /\ PagesInv)',
           NEW x \in Cell, file' = Append(file, x), client' = client, given' = given,
           NEW c \in Client
    PROVE  Past(c)' = Past(c)
<1> DEFINE u == client[c].lastId
<1>1. Past(c) = Top(file, u, given[c])
  BY PastIs DEF PastOk
<1>2. Past(c)' = Top(file', u, given[c])
  BY PastNext DEF PastOk
<1>3. MarkIn(file', u) = MarkIn(file, u)
  <2>1. CleanIn(file, u) /\ file \in Seq(Cell)
    BY DEF PagesInv, PageOk, FeedTypes
  <2>2. u \in 0..Len(file)
    BY <2>1 DEF CleanIn
  <2>3. PICK z \in 0..Len(file) : z = u
    BY <2>2
  <2> HIDE DEF u
  <2>4. Mark(z)' = Mark(z)
    BY <2>1, MarkStays
  <2>5. Mark(z) = MarkIn(file, z) /\ Mark(z)' = MarkIn(file', z)
    BY MarksOf
  <2> QED BY <2>3, <2>4, <2>5
<1> HIDE DEF u
<1> QED BY <1>1, <1>2, <1>3 DEF Top

\* With one more record, or with as many as before.
LEMMA ShownGrows ==
    ASSUME file \in Seq(Cell), LinesInv, (file \in Seq(Cell) /\ LinesInv)',
           Mark(Len(file))' \in {Mark(Len(file)), Mark(Len(file)) + 1}
    PROVE  /\ Mark(Len(file))' = Mark(Len(file)) => Shown' = Shown
           /\ Mark(Len(file))' = Mark(Len(file)) + 1 =>
                 /\ Shown' # <<>> /\ Front(Shown') = Shown /\ Last(Shown') \in Nat
                 /\ Last(Shown') > NewestShown
<1>1. /\ Shown \in Seq(Nat) /\ Len(Shown) = Mark(Len(file)) /\ Len(Shown) \in Nat
      /\ \A k \in 1..Len(Shown) : Shown[k] = k
      /\ NewestShown = Len(Shown)
  BY ShownAre DEF RecordsOk
<1>2. /\ Shown' \in Seq(Nat) /\ Len(Shown') = Mark(Len(file))' /\ Len(Shown') \in Nat
      /\ \A k \in 1..Len(Shown') : Shown'[k] = k
  BY ShownNext DEF RecordsOk
<1>3. ASSUME Mark(Len(file))' = Mark(Len(file))
      PROVE  Shown' = Shown
  <2>1. Len(Shown') = Len(Shown) /\ \A k \in 1..Len(Shown) : Shown'[k] = Shown[k]
    BY <1>1, <1>2, <1>3
  <2> QED BY <1>1, <1>2, <2>1, SeqEqual
<1>4. ASSUME Mark(Len(file))' = Mark(Len(file)) + 1
      PROVE  /\ Shown' # <<>> /\ Front(Shown') = Shown /\ Last(Shown') \in Nat
             /\ Last(Shown') > NewestShown
  <2>1. Len(Shown') = Len(Shown) + 1 /\ Shown' # <<>>
    <3>1. Len(Shown') = Len(Shown) + 1
      BY <1>1, <1>2, <1>4
    <3> QED BY <1>1, <1>2, <3>1, EmptySeq
  <2>2. PICK z, y : z = Shown' /\ y = Shown
    OBVIOUS
  <2>3. /\ z \in Seq(Nat) /\ y \in Seq(Nat) /\ Len(y) \in Nat /\ Len(z) = Len(y) + 1
        /\ \A k \in 1..Len(z) : z[k] = k
        /\ \A k \in 1..Len(y) : y[k] = k
    BY <1>1, <1>2, <2>1, <2>2
  <2>4. Front(z) = y
    <3>1. Front(z) = SubSeq(z, 1, Len(z) - 1)
      BY DEF Front
    <3>2. 1 \in Int /\ Len(y) \in Int /\ Len(z) - 1 = Len(y) /\ \A i \in 1..Len(y) : z[i] \in Nat
      BY <2>3
    <3>3. /\ SubSeq(z, 1, Len(y)) \in Seq(Nat)
          /\ Len(SubSeq(z, 1, Len(y))) = IF 1 <= Len(y) THEN Len(y) - 1 + 1 ELSE 0
          /\ \A i \in 1..Len(y) - 1 + 1 : SubSeq(z, 1, Len(y))[i] = z[1 + i - 1]
      BY <3>2, SubSeqProperties
    <3> DEFINE x == SubSeq(z, 1, Len(y))
    <3>4. x \in Seq(Nat) /\ Front(z) = x
      BY <3>1, <3>2, <3>3
    <3>5. Len(x) = Len(y)
      BY <2>3, <3>3
    <3>6. \A i \in 1..Len(y) : x[i] = y[i]
      BY <2>3, <3>3
    <3> HIDE DEF x
    <3> QED BY <2>3, <3>4, <3>5, <3>6, SeqEqual
  <2>5. Last(z) = Len(y) + 1
    BY <2>3 DEF Last
  <2>6. NewestShown = Len(y)
    BY <1>1, <2>2
  <2> QED BY <2>1, <2>2, <2>3, <2>4, <2>5, <2>6
<1> QED BY <1>3, <1>4

\* The actions of the view, of what is shown.
LEMMA ViewVars ==
    /\ View!vars = <<Shown, Long, ViewPage>>
    /\ View!vars' = <<Shown', Long', ViewPage'>>
BY DEF View!vars, Shown, Long, ViewPage, ViewOf, ViewAt

LEMMA ViewGrows ==
    ASSUME \/ Shown' = Shown
           \/ /\ Shown' # <<>> /\ Front(Shown') = Shown
              /\ Last(Shown') \in Nat /\ Last(Shown') > NewestShown,
           Long' \in {Long, TRUE}, ViewPage' = ViewPage
    PROVE  View!Next
<1>1. View!Grow
  BY DEF View!Grow, View!Newest, View!Front, View!Last, Front, Last, Shown, NewestShown, Long,
         ViewPage, ViewOf, ViewAt
<1> QED BY <1>1 DEF View!Next

LEMMA ViewOpens ==
    ASSUME NEW c \in Client, ViewPage[c].at = "loading", Shown' = Shown, Long' = Long,
           NEW n \in 0..TailRows, n = TailRows \/ Long,
           ViewPage' = [ViewPage EXCEPT ![c] =
                           [at |-> "open", rows |-> View!LastN(Shown, n), past |-> NewestShown]]
    PROVE  View!Next
<1>1. View!Open(c)
  BY DEF View!Open, View!Newest, View!Last, Last, Shown, NewestShown, Long, ViewPage, ViewOf, ViewAt
<1> QED BY <1>1 DEF View!Next

LEMMA ViewCloses ==
    ASSUME NEW c \in Client, ViewPage' = [ViewPage EXCEPT ![c].at = "closed"], Shown' = Shown,
           Long' = Long
    PROVE  View!Next
<1>1. View!Close(c)
  BY DEF View!Close, Shown, Long, ViewPage, ViewOf, ViewAt
<1> QED BY <1>1 DEF View!Next

LEMMA ViewTells ==
    ASSUME NEW c \in Client, NEW k \in 1..Len(Shown), ViewPage[c].at = "open", Shown' = Shown,
           Long' = Long, Shown[k] > ViewPage[c].past,
           \A j \in 1..k - 1 : Shown[j] <= ViewPage[c].past,
           ViewPage' = [ViewPage EXCEPT ![c].rows = View!LastN(Append(@, Shown[k]), MaxRows),
                                        ![c].past = Shown[k]]
    PROVE  View!Next
<1>1. View!Tell(c)
  BY DEF View!Tell, Shown, Long, ViewPage, ViewOf, ViewAt
<1> QED BY <1>1 DEF View!Next

LEMMA ViewStays ==
    ASSUME \A c \in Client : /\ rows'[c] = rows[c] /\ ViewAt(client'[c].at) = ViewAt(client[c].at)
                             /\ Past(c)' = Past(c)
    PROVE  ViewPage' = ViewPage
<1>1. \A c \in Client : ViewOf(c)' = ViewOf(c)
  BY DEF ViewOf
<1> QED BY <1>1 DEF ViewPage

\* One page opens, closes or gets a row.
LEMMA ViewChanges ==
    ASSUME FeedTypes, FileInv, PagesInv, (FeedTypes /\ FileInv /\ PagesInv)', file' = file,
           NEW c \in Client, NEW k, client' = [client EXCEPT ![c] = k],
           \A d \in Client : d # c => rows'[d] = rows[d] /\ given'[d] = given[d]
    PROVE  ViewPage' = [ViewPage EXCEPT ![c] =
                           [at |-> ViewAt(k.at), rows |-> rows'[c], past |-> Past(c)']]
<1>1. \A d \in Client : client'[d] = IF d = c THEN k ELSE client[d]
  BY Typed
<1>2. \A d \in Client : d # c => Past(d)' = Past(d)
  BY <1>1, PastKept
<1>3. \A d \in Client : d # c => ViewOf(d)' = ViewOf(d)
  BY <1>1, <1>2 DEF ViewOf
<1>4. ViewOf(c)' = [at |-> ViewAt(k.at), rows |-> rows'[c], past |-> Past(c)']
  BY <1>1 DEF ViewOf
<1>5. ViewPage' = [d \in Client |-> ViewOf(d)']
  BY DEF ViewPage
<1> DEFINE v == [at |-> ViewAt(k.at), rows |-> rows'[c], past |-> Past(c)']
<1>6. [ViewPage EXCEPT ![c] = v] = [d \in Client |-> IF d = c THEN v ELSE ViewOf(d)]
  BY DEF ViewPage
<1>7. \A d \in Client : ViewOf(d)' = IF d = c THEN v ELSE ViewOf(d)
  BY <1>3, <1>4
<1> HIDE DEF v
<1>8. ViewPage' = [ViewPage EXCEPT ![c] = v]
  BY <1>5, <1>6, <1>7
<1> QED BY <1>8 DEF v

LEMMA ViewOfServer ==
    ASSUME FeedTypes, FileInv, PagesInv, (FeedTypes /\ FileInv /\ PagesInv)', file' = file,
           NEW s \in Stream, ServerStep(s) \/ Abandon(s) \/ Deadline(s) \/ Disconnected(s)
    PROVE  ViewPage' = ViewPage
<1>0. rows' = rows /\ given' = given
  BY DEF ServerStep, Begin, CheckSize, StatLog, ReadLog, Abandon, Deadline, Disconnected, clientvars
<1>1. ASSUME NEW c \in Client, NEW n, NEW w,
             client' = [client EXCEPT ![c] = Page(client[c].at, client[c].lastId, n, w, client[c].seen)]
      PROVE  \A d \in Client : client'[d].at = client[d].at /\ client'[d].lastId = client[d].lastId
  <2> DEFINE k == Page(client[c].at, client[c].lastId, n, w, client[c].seen)
  <2>1. k.at = client[c].at /\ k.lastId = client[c].lastId
    BY DEF Page
  <2>2. client' = [client EXCEPT ![c] = k]
    BY <1>1
  <2> HIDE DEF k
  <2> QED BY <2>1, <2>2, Typed
<1>2. ASSUME NEW events, Send(s, events)
      PROVE  \A d \in Client : client'[d].at = client[d].at /\ client'[d].lastId = client[d].lastId
  <2>1. CASE client' = client
    BY <2>1
  <2>2. CASE client' # client
    <3>1. PICK c \in Client : client' = [client EXCEPT ![c] =
              Page(client[c].at, client[c].lastId, client[c].conn, client[c].wire \o events,
                   client[c].seen)]
      BY <1>2, <2>2, SendDoes
    <3> QED BY <1>1, <3>1
  <2> QED BY <2>1, <2>2
<1>3. \A d \in Client : client'[d].at = client[d].at /\ client'[d].lastId = client[d].lastId
  <2>1. CASE Deadline(s)
    <3>1. PICK c \in Client : client' = [client EXCEPT ![c] =
              Page(client[c].at, client[c].lastId, None, client[c].wire, client[c].seen)]
      BY <2>1, DeadlineDoes
    <3> QED BY <1>1, <3>1
  <2>2. CASE ServerStep(s) \/ Abandon(s) \/ Disconnected(s)
    <3>1. client' = client \/ \E events : Send(s, events)
      BY <2>2 DEF ServerStep, Begin, CheckSize, StatLog, ReadLog, Abandon, Disconnected, clientvars
    <3> QED BY <1>2, <3>1
  <2> QED BY <2>1, <2>2
<1>4. \A d \in Client : Past(d)' = Past(d)
  BY <1>0, <1>3, PastKept
<1> QED BY <1>0, <1>3, <1>4, ViewStays

\* A page that is told of the next record.
LEMMA ViewOfRecord ==
    ASSUME FeedTypes, FileInv, PagesInv, (FeedTypes /\ FileInv /\ PagesInv)', file' = file,
           NEW c \in Client, ReceiveRecord(c), Shown' = Shown, Long' = Long
    PROVE  View!Next \/ UNCHANGED View!vars
<1> DEFINE t == Top(file, client[c].lastId, given[c])
           r == rows[c]
<1>1. /\ client'[c].at = "live" /\ client[c].at = "live"
      /\ \/ rows'[c] = r /\ given'[c] = given[c] /\ given[c] # <<>>
         \/ /\ rows'[c] = NewestRows(c, t + 1) /\ t + 1 <= MarkIn(file, Len(file))
            /\ given'[c] = Append(given[c], t + 1)
  BY Receives DEF PagesInv, ReceiveRecord
<1>2. PICK k : client' = [client EXCEPT ![c] = k]
  BY ReceiveRecordDoes
<1>3. k = client'[c]
  BY <1>2, Typed
<1>4. \A d \in Client : d # c => rows'[d] = rows[d] /\ given'[d] = given[d]
  <2>1. \/ rows' = rows /\ given' = given
        \/ \E x, y : rows' = [rows EXCEPT ![c] = x] /\ given' = [given EXCEPT ![c] = y]
    BY ReceiveRecordDoes
  <2>2. DOMAIN rows = Client /\ DOMAIN given = Client
    BY DEF FeedTypes
  <2> QED BY <2>1, <2>2
<1>5. /\ r \in Seq(Nat) /\ given[c] \in Seq(Nat) /\ client[c].seen \in Seq(Nat)
      /\ Len(r) \in Nat /\ Len(given[c]) \in Nat /\ file \in Seq(Cell)
      /\ MaxRows \in Nat \ {0}
  <2>1. r \in Seq(Nat) /\ given[c] \in Seq(Nat) /\ client[c].seen \in Seq(Nat) /\ file \in Seq(Cell)
    BY Typed DEF FeedTypes
  <2> QED BY <2>1, LenProperties, FeedAssumption
<1>7. /\ Run(r, t) /\ Run(client[c].seen, t) /\ Len(client[c].seen) <= SeenLimit
      /\ Len(r) = IF Len(given[c]) > MaxRows THEN MaxRows ELSE Len(given[c])
      /\ CleanIn(file, client[c].lastId)
  BY DEF PagesInv, PageOk
<1>6. t \in Nat /\ Past(c) = t
  <2>1. t \in Nat
    BY <1>5, <1>7, TopIs
  <2> QED BY <2>1, PastIs DEF PastOk
<1> HIDE DEF t, r
<1>8. CASE rows'[c] = r /\ given'[c] = given[c] /\ given[c] # <<>>
  <2>1. ViewPage' = ViewPage
    <3> SUFFICES ASSUME NEW d \in Client
                 PROVE  /\ rows'[d] = rows[d] /\ ViewAt(client'[d].at) = ViewAt(client[d].at)
                        /\ Past(d)' = Past(d)
      BY ViewStays
    <3>1. CASE d = c
      <4>1. Past(c)' = Past(c)
        BY <1>8, PastKept
      <4> QED BY <1>1, <1>8, <3>1, <4>1 DEF r
    <3>2. CASE d # c
      <4>1. client'[d] = client[d]
        BY <1>2, <3>2, Typed
      <4>2. Past(d)' = Past(d)
        BY <1>4, <3>2, <4>1, PastKept
      <4> QED BY <1>4, <3>2, <4>1, <4>2
    <3> QED BY <3>1, <3>2
  <2> QED BY <2>1, ViewVars
<1>9. CASE /\ rows'[c] = NewestRows(c, t + 1) /\ t + 1 <= MarkIn(file, Len(file))
           /\ given'[c] = Append(given[c], t + 1)
  <2>1. /\ Len(Shown) \in Nat /\ \A j \in 1..Len(Shown) : Shown[j] = j
        /\ Len(Shown) = MarkIn(file, Len(file))
    BY <1>5, ShownAre, MarksOf DEF RecordsOk, FileInv
  <2>2. t + 1 \in 1..Len(Shown)
    BY <1>6, <1>9, <2>1
  <2> DEFINE a == Append(r, t + 1)
             q == SubSeq(a, IF Len(a) > MaxRows THEN Len(a) - MaxRows + 1 ELSE 1, Len(a))
  <2>3. rows'[c] = q
    <3>1. Len(rows[c]) <= MaxRows /\ Run(rows[c], t) /\ Run(client[c].seen, t)
          /\ Len(client[c].seen) <= SeenLimit
      BY <1>5, <1>7 DEF r
    <3>2. LET all == Append(rows[c], t + 1) IN
          NewestRows(c, t + 1) = SubSeq(all, IF Len(all) > MaxRows THEN Len(all) - MaxRows + 1 ELSE 1,
                                        Len(all))
      BY <1>6, <3>1, NewRecord
    <3> QED BY <1>9, <3>2 DEF r
  <2>4. q = View!LastN(a, MaxRows)
    BY DEF View!LastN
  <2> HIDE DEF a, q
  <2>5. ViewPage[c] = [at |-> "open", rows |-> r, past |-> t] /\ ViewAt(k.at) = "open"
    BY <1>1, <1>3, <1>6 DEF ViewPage, ViewOf, ViewAt, r
  <2>6. Past(c)' = t + 1
    <3>1. Past(c)' = Top(file', client'[c].lastId, given'[c])
      BY PastNext DEF PastOk
    <3> DEFINE h == Append(given[c], t + 1)
    <3>2. h # <<>> /\ h[Len(h)] = t + 1
      <4>1. Len(h) = Len(given[c]) + 1 /\ h[Len(given[c]) + 1] = t + 1
        BY <1>5, <1>6, AppendProperties
      <4>2. Len(<<>>) = 0
        OBVIOUS
      <4> QED BY <1>5, <4>1, <4>2
    <3> HIDE DEF h
    <3>3. given'[c] = h
      BY <1>9 DEF h
    <3> QED BY <3>1, <3>2, <3>3 DEF Top
  <2>7. ViewPage' = [ViewPage EXCEPT ![c].rows = View!LastN(Append(@, Shown[t + 1]), MaxRows),
                                     ![c].past = Shown[t + 1]]
    <3>1. ViewPage' = [ViewPage EXCEPT ![c] = [at |-> "open", rows |-> q, past |-> t + 1]]
      <4>1. ViewPage' = [ViewPage EXCEPT ![c] =
                            [at |-> ViewAt(k.at), rows |-> rows'[c], past |-> Past(c)']]
        BY <1>2, <1>4, ViewChanges
      <4>2. ViewAt(k.at) = "open" /\ rows'[c] = q /\ Past(c)' = t + 1
        BY <2>3, <2>5, <2>6
      <4>3. [at |-> ViewAt(k.at), rows |-> rows'[c], past |-> Past(c)']
               = [at |-> "open", rows |-> q, past |-> t + 1]
        BY <4>2
      <4> QED BY <4>1, <4>3
    <3>2. Shown[t + 1] = t + 1
      BY <2>1, <2>2
    <3>3. PICK v : v = ViewPage[c]
      OBVIOUS
    <3>4. [v EXCEPT !.rows = q, !.past = t + 1] = [at |-> "open", rows |-> q, past |-> t + 1]
      <4>1. v = [at |-> "open", rows |-> r, past |-> t]
        BY <2>5, <3>3
      <4>2. PICK n : n = t + 1
        OBVIOUS
      <4>3. v \in [at: {"open"}, rows: {r, q}, past: {t, n}]
        BY <4>1
      <4>4. PICK w \in [at: {"open"}, rows: {r, q}, past: {t, n}] :
               w = [v EXCEPT !.rows = q, !.past = n]
        BY <4>3
      <4>5. w.at = "open" /\ w.rows = q /\ w.past = n
        BY <4>3, <4>4
      <4>6. w = [at |-> "open", rows |-> q, past |-> n]
        BY <4>5
      <4> QED BY <4>2, <4>4, <4>6
    <3>5. View!LastN(Append(ViewPage[c].rows, Shown[t + 1]), MaxRows) = q
      BY <2>4, <2>5, <3>2 DEF a
    <3>6. DOMAIN ViewPage = Client
      BY DEF ViewPage
    <3>7. [ViewPage EXCEPT ![c].rows = q, ![c].past = t + 1]
             = [ViewPage EXCEPT ![c] = [v EXCEPT !.rows = q, !.past = t + 1]]
      BY <2>5, <3>3, <3>6
    <3> DEFINE page == [at |-> "open", rows |-> q, past |-> t + 1]
               grown == View!LastN(Append(ViewPage[c].rows, Shown[t + 1]), MaxRows)
    <3>8. ViewPage' = [ViewPage EXCEPT ![c].rows = q, ![c].past = t + 1]
      <4>1. [ViewPage EXCEPT ![c].rows = q, ![c].past = t + 1] = [ViewPage EXCEPT ![c] = page]
        BY <3>4, <3>7
      <4>2. ViewPage' = [ViewPage EXCEPT ![c] = page]
        BY <3>1
      <4> QED BY <4>1, <4>2
    <3>9. [ViewPage EXCEPT ![c].rows = View!LastN(Append(@, Shown[t + 1]), MaxRows),
                           ![c].past = Shown[t + 1]]
             = [ViewPage EXCEPT ![c].rows = grown, ![c].past = Shown[t + 1]]
      BY Zenon
    <3>10. grown = q
      BY <3>5
    <3> HIDE DEF grown, page
    <3> QED BY <3>2, <3>8, <3>9, <3>10
  <2>8. PICK m \in 1..Len(Shown) : m = t + 1
    BY <2>2
  <2>9. Shown[m] > t /\ \A j \in 1..m - 1 : Shown[j] <= t
    <3>1. Shown[m] > t
      BY <1>6, <2>1, <2>8
    <3>2. ASSUME NEW j \in 1..m - 1
          PROVE  Shown[j] <= t
      <4>1. j \in 1..Len(Shown) /\ j <= t
        BY <1>6, <2>1, <2>8
      <4> QED BY <2>1, <4>1
    <3> QED BY <3>1, <3>2
  <2>10. ViewPage[c].at = "open" /\ ViewPage[c].past = t
    BY <2>5
  <2> QED BY <2>7, <2>8, <2>9, <2>10, ViewTells
<1> QED BY <1>1, <1>8, <1>9, SMTT(40)

\* A page that loads.
LEMMA ViewOfLoad ==
    ASSUME FeedTypes, FileInv, PagesInv, (FeedTypes /\ FileInv /\ PagesInv)', file' = file,
           NEW c \in Client, Load(c), Shown' = Shown, Long' = Long
    PROVE  View!Next
<1> DEFINE p == client[c]
           k == Page("connect", TailPage.next, p.conn, p.wire, p.seen)
<1>1. /\ p.at = "load" /\ rows' = [rows EXCEPT ![c] = TailPage.records]
      /\ given' = [given EXCEPT ![c] = TailPage.records]
  BY DEF Load
<1>2. /\ client' = [client EXCEPT ![c] = k]
      /\ k.at = "connect" /\ k.lastId = TailPage.next
  <2>1. client' = [client EXCEPT ![c] = Page("connect", TailPage.next, client[c].conn, client[c].wire,
                                             client[c].seen)]
    BY LoadDoes
  <2>2. k.at = "connect" /\ k.lastId = TailPage.next
    BY DEF Page
  <2> QED BY <2>1, <2>2
<1> HIDE DEF k
<1>3. /\ DOMAIN rows = Client /\ DOMAIN given = Client /\ file \in Seq(Cell) /\ LinesInv
  BY DEF FeedTypes, FileInv
<1>4. /\ rows'[c] = TailPage.records /\ given'[c] = TailPage.records
      /\ \A d \in Client : d # c => rows'[d] = rows[d] /\ given'[d] = given[d]
  BY <1>1, <1>3
<1>5. client'[c] = k
  BY <1>2, Typed
<1>6. ViewAt(k.at) = "open" /\ ViewAt(p.at) = "loading"
  BY <1>1, <1>2 DEF ViewAt
<1>7. Past(c)' = NewestShown
  <2>1. Past(c)' = Top(file', client'[c].lastId, given'[c])
    BY PastNext DEF PastOk
  <2>2. Top(file, TailPage.next, TailPage.records) = Mark(Len(file))
    BY <1>3, TailTop
  <2>3. NewestShown = Mark(Len(file))
    BY <1>3, ShownAre DEF RecordsOk
  <2> QED BY <1>2, <1>4, <1>5, <2>1, <2>2, <2>3
<1>8. PICK n \in 0..TailRows : /\ n = TailRows \/ Long
                               /\ TailPage.records = View!LastN(Shown, n)
  <2> DEFINE m == Len(TailPage.records)
  <2>1. /\ m \in 0..TailRows /\ m \in 0..Len(Shown)
        /\ TailPage.records = SubSeq(Shown, Len(Shown) - m + 1, Len(Shown))
        /\ Len(file) <= MaxRead => m = IF Len(Shown) > TailRows THEN TailRows ELSE Len(Shown)
    BY <1>3, TailTypes DEF Shown
  <2>2. Len(Shown) \in Nat /\ TailRows \in Nat /\ MaxRead \in Nat /\ Len(file) \in Nat
    BY <1>3, ShownAre, BoundsAre, LenProperties DEF RecordsOk
  <2> HIDE DEF m
  <2>3. CASE Long
    <3>1. View!LastN(Shown, m) = SubSeq(Shown, IF Len(Shown) > m THEN Len(Shown) - m + 1 ELSE 1, Len(Shown))
      BY DEF View!LastN
    <3>2. (IF Len(Shown) > m THEN Len(Shown) - m + 1 ELSE 1) = Len(Shown) - m + 1
      BY <2>1, <2>2
    <3> QED BY <2>1, <2>3, <3>1, <3>2
  <2>4. CASE ~Long
    <3>1. View!LastN(Shown, TailRows)
             = SubSeq(Shown, IF Len(Shown) > TailRows THEN Len(Shown) - TailRows + 1 ELSE 1, Len(Shown))
      BY DEF View!LastN
    <3>2. m = IF Len(Shown) > TailRows THEN TailRows ELSE Len(Shown)
      BY <2>1, <2>2, <2>4 DEF Long
    <3>3. (IF Len(Shown) > TailRows THEN Len(Shown) - TailRows + 1 ELSE 1) = Len(Shown) - m + 1
      BY <2>2, <3>2
    <3>4. TailRows \in 0..TailRows
      BY <2>2
    <3> QED BY <2>1, <3>1, <3>3, <3>4
  <2> QED BY <2>3, <2>4
<1>9. ViewPage' = [ViewPage EXCEPT ![c] =
                      [at |-> "open", rows |-> View!LastN(Shown, n), past |-> NewestShown]]
  <2>1. ViewPage' = [ViewPage EXCEPT ![c] =
                        [at |-> ViewAt(k.at), rows |-> rows'[c], past |-> Past(c)']]
    BY <1>2, <1>4, ViewChanges
  <2> QED BY <1>4, <1>6, <1>7, <1>8, <2>1
<1>10. ViewPage[c].at = "loading"
  BY <1>6 DEF ViewPage, ViewOf
<1> QED BY <1>8, <1>9, <1>10, ViewOpens

LEMMA ViewOfPage ==
    ASSUME FeedTypes, FileInv, PagesInv, StreamsInv, (FeedTypes /\ FileInv /\ PagesInv)',
           file' = file, NEW c \in Client, PageStep(c) \/ Stop(c) \/ Drop(c), Shown' = Shown,
           Long' = Long
    PROVE  View!Next \/ UNCHANGED View!vars
<1> DEFINE p == client[c]
<1>0. \A a, x, n, w, b : Page(a, x, n, w, b).at = a /\ Page(a, x, n, w, b).lastId = x
  BY DEF Page
<1>1. DOMAIN rows = Client /\ ViewPage[c] = [at |-> ViewAt(p.at), rows |-> rows[c], past |-> Past(c)]
  BY DEF FeedTypes, ViewPage, ViewOf
<1>2. PageOk(file, p, given[c], rows[c]) /\ p \in PageRec
  BY Typed DEF PagesInv
\* A page that shows the same rows, and is open as it was.
<1>3. ASSUME NEW k, client' = [client EXCEPT ![c] = k], rows' = rows, given' = given,
             k.lastId = p.lastId, ViewAt(k.at) = ViewAt(p.at)
      PROVE  UNCHANGED View!vars
  <2>1. \A d \in Client : client'[d] = IF d = c THEN k ELSE client[d]
    BY <1>3, Typed
  <2>2. \A d \in Client : client'[d].lastId = client[d].lastId
    BY <1>3, <2>1
  <2>3. \A d \in Client : Past(d)' = Past(d)
    BY <1>3, <2>2, PastKept
  <2>4. ViewPage' = ViewPage
    BY <1>3, <2>1, <2>3, ViewStays
  <2> QED BY <2>4, ViewVars
<1>4. CASE Load(c)
  BY <1>4, ViewOfLoad
<1>5. CASE Connect(c)
  <2>1. p.at = "connect" /\ rows' = rows /\ given' = given
    BY <1>5 DEF Connect
  <2>2. PICK s \in Stream : client' = [client EXCEPT ![c] = Page("live", p.lastId, s, p.wire, p.seen)]
    BY <1>5, ConnectDoes
  <2> DEFINE k == Page("live", p.lastId, s, p.wire, p.seen)
  <2>3. client' = [client EXCEPT ![c] = k] /\ k.at = "live" /\ k.lastId = p.lastId
    BY <1>0, <2>2
  <2> HIDE DEF k
  <2>4. ViewAt(k.at) = ViewAt(p.at)
    BY <2>1, <2>3 DEF ViewAt
  <2> QED BY <1>3, <2>1, <2>3, <2>4
<1>6. CASE ReceiveReset(c)
  <2>1. p.wire # <<>> /\ Head(p.wire).event = "reset"
    BY <1>6 DEF ReceiveReset
  <2> DEFINE w == p.wire
  <2>2. w \in Seq(Told)
    BY Typed
  <2>3. \A i \in 1..Len(w) : w[i].event = "audit"
    BY <1>2 DEF PageOk, OnItsWay
  <2> HIDE DEF w
  <2>4. w # <<>> => Head(w) = w[1] /\ 1 \in 1..Len(w)
    <3>1. w # <<>> => Len(w) \in Nat /\ Len(w) # 0
      BY <2>2, LenProperties, EmptySeq
    <3>2. w # <<>> => Head(w) = w[1]
      BY <2>2, HeadTailProperties
    <3> QED BY <3>1, <3>2
  <2> QED BY <2>1, <2>3, <2>4 DEF w
<1>7. CASE ReceiveRecord(c)
  BY <1>7, ViewOfRecord
<1>8. CASE StreamEnds(c)
  <2>1. p.at = "live" /\ rows' = rows /\ given' = given /\ client' = [client EXCEPT ![c].at = "connect"]
    BY <1>8 DEF StreamEnds
  <2> DEFINE k == [p EXCEPT !.at = "connect"]
  <2>2. client' = [client EXCEPT ![c] = k]
    BY <2>1
  <2>3. k.at = "connect" /\ k.lastId = p.lastId
    BY <1>0, <1>2, PageKeeps
  <2> HIDE DEF k
  <2>4. ViewAt(k.at) = ViewAt(p.at)
    BY <2>1, <2>3 DEF ViewAt
  <2> QED BY <1>3, <2>1, <2>2, <2>3, <2>4
<1>9. CASE LoadRaises(c) \/ Stop(c)
  <2>1. rows' = rows /\ given' = given /\ client' = [client EXCEPT ![c].at = "stopped"]
    BY <1>9 DEF LoadRaises, Stop
  <2> DEFINE k == [p EXCEPT !.at = "stopped"]
  <2>2. client' = [client EXCEPT ![c] = k]
    BY <2>1
  <2>3. k.at = "stopped" /\ k.lastId = p.lastId
    BY <1>0, <1>2, PageKeeps
  <2> HIDE DEF k
  <2>4. ViewAt(k.at) = "closed"
    BY <2>3 DEF ViewAt
  <2>5. Past(c)' = Past(c)
    <3>1. client'[c] = k
      BY <2>2, Typed
    <3> QED BY <2>1, <2>3, <3>1, PastKept
  <2>6. ViewPage' = [ViewPage EXCEPT ![c] = [at |-> "closed", rows |-> rows[c], past |-> Past(c)]]
    <3>1. \A d \in Client : d # c => rows'[d] = rows[d] /\ given'[d] = given[d]
      BY <2>1
    <3>2. ViewPage' = [ViewPage EXCEPT ![c] =
                          [at |-> ViewAt(k.at), rows |-> rows'[c], past |-> Past(c)']]
      BY <2>2, <3>1, ViewChanges
    <3> QED BY <2>1, <2>4, <2>5, <3>2
  <2>7. [ViewPage[c] EXCEPT !.at = "closed"] = [at |-> "closed", rows |-> rows[c], past |-> Past(c)]
    BY <1>1
  <2>8. ViewPage' = [ViewPage EXCEPT ![c].at = "closed"]
    BY <2>6, <2>7
  <2> QED BY <2>8, ViewCloses
<1>10. CASE Drop(c)
  <2>1. p.at = "live" /\ rows' = rows /\ given' = given
    BY <1>10 DEF Drop
  <2> DEFINE k == Page("connect", p.lastId, None, <<>>, p.seen)
  <2>2. client' = [client EXCEPT ![c] = k]
    BY <1>10, DropDoes
  <2>3. k.at = "connect" /\ k.lastId = p.lastId
    BY <1>0
  <2> HIDE DEF k
  <2>4. ViewAt(k.at) = ViewAt(p.at)
    BY <2>1, <2>3 DEF ViewAt
  <2> QED BY <1>3, <2>1, <2>2, <2>3, <2>4
<1> QED BY <1>4, <1>5, <1>6, <1>7, <1>8, <1>9, <1>10 DEF PageStep

LEMMA ViewBegins ==
    ASSUME Init
    PROVE  View!Init
<1>1. FeedInv /\ writes.replaced = 0 /\ file = <<>> /\ Len(file) = 0
  BY FeedBegins DEF Init
<1>2. FeedTypes /\ FileInv /\ PagesInv /\ file \in Seq(Cell) /\ LinesInv
  BY <1>1 DEF FeedInv, FeedTypes, FileInv
<1>3. Shown = <<>> /\ MarkIn(file, 0) = 0
  <2>1. Shown \in Seq(Nat) /\ Len(Shown) = 0 /\ MarkIn(file, 0) = 0
    BY <1>1, <1>2, ShownAre, MarkZero, MarksOf DEF RecordsOk
  <2> QED BY <2>1, EmptySeq
<1>4. Long = FALSE
  <2>1. ~(Len(file) > MaxRead)
    BY <1>1, BoundsAre
  <2> QED BY <2>1 DEF Long
<1>5. \A c \in Client : ViewOf(c) = View!Loading
  <2> SUFFICES ASSUME NEW c \in Client PROVE ViewOf(c) = View!Loading
    OBVIOUS
  <2>1. client[c].at = "load" /\ client[c].lastId = 0 /\ rows[c] = <<>> /\ given[c] = <<>>
    BY DEF Init, ClosedPage
  <2>2. Past(c) = 0
    <3>1. Past(c) = Top(file, client[c].lastId, given[c])
      BY <1>2, PastIs DEF PastOk
    <3> QED BY <1>3, <2>1, <3>1 DEF Top
  <2> QED BY <2>1, <2>2 DEF ViewOf, ViewAt, View!Loading
<1>6. ViewPage = [c \in Client |-> View!Loading]
  BY <1>5 DEF ViewPage
<1> QED BY <1>3, <1>4, <1>6 DEF View!Init, Shown, Long, ViewPage, ViewOf, ViewAt

LEMMA ViewStep ==
    ASSUME FeedInv, [Next]_vars
    PROVE  [View!Next \/ writes'.replaced > 0]_(View!vars)
<1>1. FeedTypes /\ FeedInv' /\ writes'.replaced \in Nat /\ (writes'.replaced = 0 => writes.replaced = 0)
  <2>1. FeedInv' /\ (writes'.replaced = 0 => writes.replaced = 0)
    BY FeedStep
  <2>2. writes' \in WriteCounts
    BY <2>1 DEF FeedInv, FeedTypes
  <2> QED BY <2>1, <2>2 DEF FeedInv, WriteCounts
<1> SUFFICES ASSUME writes'.replaced = 0
             PROVE  View!Next \/ UNCHANGED View!vars
  BY <1>1
<1>2. FileInv /\ PagesInv /\ StreamsInv /\ (FeedTypes /\ FileInv /\ PagesInv)'
  BY <1>1 DEF FeedInv
<1>3. /\ file \in Seq(Cell) /\ LinesInv /\ (file \in Seq(Cell) /\ LinesInv)'
  BY <1>1, <1>2 DEF FeedInv, FeedTypes, FileInv
<1>4. ASSUME file' = file
      PROVE  Shown' = Shown /\ Long' = Long
  <2>1. Mark(Len(file))' = Mark(Len(file))
    BY <1>4 DEF Mark, DoneIn, Done
  <2>2. Long' = Long
    BY <1>4 DEF Long
  <2> QED BY <1>3, <2>1, <2>2, ShownGrows
<1>5. CASE BeginRecord \/ BeginJunk \/ UNCHANGED vars
  <2>1. file' = file /\ rows' = rows /\ client' = client /\ given' = given
    BY <1>5 DEF BeginRecord, BeginJunk, vars, logvars, clientvars
  <2>2. \A c \in Client : Past(c)' = Past(c)
    BY <1>1, <1>2, <2>1, PastKept
  <2>3. ViewPage' = ViewPage
    BY <2>1, <2>2, ViewStays
  <2> QED BY <1>4, <2>1, <2>3, ViewVars
<1>6. CASE WriteCell
  <2>1. /\ rows' = rows /\ client' = client /\ given' = given
        /\ pending # <<>> /\ file' = Append(file, Head(pending))
    BY <1>6 DEF WriteCell, clientvars
  <2>2. Head(pending) \in Cell
    <3>1. pending \in Seq(Cell)
      BY <1>1 DEF FeedTypes
    <3>2. Len(pending) \in Nat /\ Len(pending) # 0
      BY <2>1, <3>1, LenProperties, EmptySeq
    <3>3. pending[1] \in Cell
      BY <3>1, <3>2, ElementOfSeq
    <3> QED BY <2>1, <3>1, <3>3, HeadTailProperties
  <2>3. PICK m \in Nat, x \in Cell : m = Len(file) /\ x = Head(pending)
    BY <1>3, <2>2, LenProperties
  <2>4. \A c \in Client : Past(c)' = Past(c)
    BY <1>1, <1>2, <2>1, <2>3, PastStays
  <2>5. ViewPage' = ViewPage
    BY <2>1, <2>4, ViewStays
  <2>6. Mark(Len(file))' \in {Mark(Len(file)), Mark(Len(file)) + 1}
    <3>1. /\ Mark(Len(file))' = Mark(m + 1)'
          /\ Mark(m + 1)' = IF Done(m + 1)' THEN Mark(m) + 1 ELSE Mark(m)
      BY <1>3, <2>1, <2>3, MarkGrows
    <3>2. Mark(m) = Mark(Len(file))
      BY <2>3
    <3> QED BY <3>1, <3>2
  <2>7. \/ Mark(Len(file))' = Mark(Len(file)) /\ Shown' = Shown
        \/ /\ Shown' # <<>> /\ Front(Shown') = Shown /\ Last(Shown') \in Nat
           /\ Last(Shown') > NewestShown
    BY <1>3, <2>6, ShownGrows
  <2>8. Long' \in {Long, TRUE}
    <3>1. Len(file') = m + 1
      BY <1>3, <2>1, <2>3, AppendProperties
    <3>2. Long => Long'
      BY <2>3, <3>1, BoundsAre DEF Long
    <3>3. Long \in BOOLEAN /\ Long' \in BOOLEAN
      <4>1. (Len(file) > MaxRead) \in BOOLEAN /\ (Len(file') > MaxRead) \in BOOLEAN
        BY <2>3, <3>1, BoundsAre
      <4> QED BY <4>1 DEF Long
    <3> QED BY <3>2, <3>3, Zenon
  <2> QED BY <2>5, <2>7, <2>8, ViewGrows
<1>7. CASE Replace
  <2>1. writes \in WriteCounts
    BY <1>1 DEF FeedTypes
  <2>2. writes'.replaced = writes.replaced + 1 /\ writes.replaced \in Nat
    BY <1>7, <2>1 DEF Replace, WriteCounts
  <2> QED BY <2>2
<1>8. CASE \E s \in Stream : ServerStep(s) \/ Abandon(s) \/ Deadline(s) \/ Disconnected(s)
  <2>1. file' = file
    BY <1>1, <1>8, CountsKept
  <2>2. ViewPage' = ViewPage
    BY <1>1, <1>2, <1>8, <2>1, ViewOfServer
  <2> QED BY <1>4, <2>1, <2>2, ViewVars
<1>9. CASE \E c \in Client : PageStep(c) \/ Stop(c) \/ Drop(c)
  <2>1. file' = file
    BY <1>1, <1>9, CountsKept
  <2>2. Shown' = Shown /\ Long' = Long
    BY <1>4, <2>1
  <2> QED BY <1>1, <1>2, <1>9, <2>1, <2>2, ViewOfPage
<1> QED BY <1>5, <1>6, <1>7, <1>8, <1>9 DEF Next

\* The feed implements LiveView: while nobody replaces the log a page opens on the
\* newest records, or on fewer of them if the log is longer than read_audit_tail
\* looks back, gets every later record once and in order, and keeps the newest
\* MaxRows, whatever becomes of its connections and whatever lines are too long
\* for a read; for any number of pages and places and all sizes of a read, of a
\* chunk and of what a page keeps.
THEOREM EveryPageIsALiveView ==
    Spec => NoGapNoDuplicate
<1>1. FeedInv /\ [Next]_vars => [View!Next \/ writes'.replaced > 0]_(View!vars)
  BY ViewStep
<1>2. Init => View!Init
  BY ViewBegins
<1> QED BY FeedAlways, <1>1, <1>2, PTL DEF Spec, NoGapNoDuplicate
===============================================================================
