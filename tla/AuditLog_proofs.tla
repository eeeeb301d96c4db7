-------------------------- MODULE AuditLog_proofs --------------------------
(***************************************************************************)
(* Proofs about AuditLog, for any number of writers, records and edits.    *)
(***************************************************************************)
EXTENDS AuditLog, TLAPS, SequenceTheorems, WellFoundedInduction

LEMMA LeastNumber ==
    ASSUME NEW T, T \subseteq Nat, T # {}
    PROVE  \E x \in T : \A y \in T : x <= y
<1>1. \E x \in T : \A y \in T : ~(<<y, x>> \in OpToRel(<, Nat))
  BY NatLessThanWellFounded, WFMin, Zenon
<1>2. PICK x \in T : \A y \in T : ~(<<y, x>> \in OpToRel(<, Nat))
  BY <1>1
<1>3. \A y \in T : ~(y < x)
  BY <1>2, Zenon DEF OpToRel
<1> QED BY <1>3

-----------------------------------------------------------------------------
(* Lines that chain, and the first that does not *)

IsBreak(lines, i) ==
    /\ i \in 0..(Len(lines) - 1)
    /\ ~Intact(lines, i + 1)
    /\ \A j \in 1..i : Intact(lines, j)

\* Lines that do not chain have a first that breaks, and FirstBreak is that one.
LEMMA BreakExists ==
    ASSUME NEW lines \in Seq(Line), ~Chains(lines)
    PROVE  IsBreak(lines, FirstBreak(lines)) /\ FirstBreak(lines) \in Nat
<1> DEFINE T == {i \in Nat : i < Len(lines) /\ ~Intact(lines, i + 1)}
<1>0. Len(lines) \in Nat
  OBVIOUS
<1>1. T # {}
  <2>1. PICK i \in 1..Len(lines) : ~Intact(lines, i)
    BY DEF Chains
  <2>2. i - 1 \in Nat /\ i - 1 < Len(lines) /\ (i - 1) + 1 = i
    BY <1>0, <2>1
  <2>3. i - 1 \in T
    BY <2>1, <2>2
  <2> QED BY <2>3
<1>2. PICK i \in T : \A j \in T : i <= j
  BY <1>1, LeastNumber
<1>3. IsBreak(lines, i)
  <2>1. i \in 0..(Len(lines) - 1) /\ ~Intact(lines, i + 1)
    BY <1>0, <1>2
  <2>2. ASSUME NEW j \in 1..i, ~Intact(lines, j) PROVE FALSE
    <3>1. j - 1 \in Nat /\ j - 1 < Len(lines) /\ (j - 1) + 1 = j /\ ~(i <= j - 1)
      BY <1>0, <2>1
    <3>2. j - 1 \in T
      BY <2>2, <3>1
    <3> QED BY <1>2, <3>1, <3>2
  <2> QED BY <2>1, <2>2 DEF IsBreak
<1>4. FirstBreak(lines) = CHOOSE k \in 0..(Len(lines) - 1) :
                             ~Intact(lines, k + 1) /\ \A j \in 1..k : Intact(lines, j)
  BY DEF FirstBreak
<1>5. \E k \in 0..(Len(lines) - 1) : ~Intact(lines, k + 1) /\ \A j \in 1..k : Intact(lines, j)
  BY <1>3 DEF IsBreak
<1>6. IsBreak(lines, FirstBreak(lines))
  BY <1>4, <1>5 DEF IsBreak
<1> QED BY <1>0, <1>6 DEF IsBreak

\* Only one line is the first that breaks.
LEMMA BreakUnique ==
    ASSUME NEW lines \in Seq(Line), NEW i, IsBreak(lines, i)
    PROVE  FirstBreak(lines) = i
<1>0. Len(lines) \in Nat /\ i \in Nat /\ i + 1 \in 1..Len(lines)
  BY DEF IsBreak
<1>1. ~Chains(lines)
  BY <1>0 DEF IsBreak, Chains
<1> DEFINE k == FirstBreak(lines)
<1>2. k \in Nat /\ ~Intact(lines, k + 1) /\ \A j \in 1..k : Intact(lines, j)
  BY <1>1, BreakExists DEF IsBreak
<1>3. ~Intact(lines, i + 1) /\ \A j \in 1..i : Intact(lines, j)
  BY DEF IsBreak
<1> HIDE DEF k
<1>4. ~(k < i)
  <2>1. k < i => k + 1 \in 1..i
    BY <1>0, <1>2
  <2> QED BY <1>2, <1>3, <2>1
<1>5. ~(i < k)
  <2>1. i < k => i + 1 \in 1..k
    BY <1>0, <1>2
  <2> QED BY <1>2, <1>3, <2>1
<1>6. k = i
  BY <1>0, <1>2, <1>4, <1>5
<1> QED BY <1>6 DEF k

\* s is how t begins.
Begins(s, t) == Len(s) <= Len(t) /\ \A i \in 1..Len(s) : s[i] = t[i]

\* What is said of a line is said by the lines up to it.
LEMMA IntactBegins ==
    ASSUME NEW s \in Seq(Line), NEW t \in Seq(Line), Begins(s, t), NEW i \in 1..Len(s)
    PROVE  Intact(s, i) <=> Intact(t, i)
<1>1. s[i] = t[i] /\ (i # 1 => i - 1 \in 1..Len(s) /\ s[i - 1] = t[i - 1])
  BY DEF Begins
<1> QED BY <1>1 DEF Intact

LEMMA ChainsBegins ==
    ASSUME NEW s \in Seq(Line), NEW t \in Seq(Line), Begins(s, t)
    PROVE  /\ Chains(t) => Chains(s)
           /\ \A i : IsBreak(s, i) => IsBreak(t, i)
<1>0. Len(s) \in Nat /\ Len(t) \in Nat /\ Len(s) <= Len(t)
  BY DEF Begins
<1>1. Chains(t) => Chains(s)
  BY <1>0, IntactBegins DEF Chains
<1>2. ASSUME NEW i, IsBreak(s, i) PROVE IsBreak(t, i)
  <2>1. /\ i \in 0..(Len(s) - 1) /\ ~Intact(s, i + 1) /\ \A j \in 1..i : Intact(s, j)
    BY <1>2 DEF IsBreak
  <2>2. i \in 0..(Len(t) - 1) /\ i + 1 \in 1..Len(s) /\ \A j \in 1..i : j \in 1..Len(s)
    BY <1>0, <2>1
  <2> QED BY <2>1, <2>2, IntactBegins DEF IsBreak
<1> QED BY <1>1, <1>2

\* One line more chains if it names the last one.
LEMMA ChainsAppend ==
    ASSUME NEW s \in Seq(Line), NEW l \in Line, Chains(s), l.text = "sound",
           l.prev = IF s = <<>> THEN GENESIS_HASH ELSE Last(s).hash
    PROVE  Chains(Append(s, l))
<1> DEFINE t == Append(s, l)
<1>1. /\ Len(s) \in Nat /\ t \in Seq(Line) /\ Len(t) = Len(s) + 1
      /\ \A i \in 1..Len(s) : t[i] = s[i]
      /\ t[Len(s) + 1] = l
  OBVIOUS
<1>2. s = <<>> <=> Len(s) = 0
  OBVIOUS
<1> HIDE DEF t
<1>3. Begins(s, t)
  BY <1>1 DEF Begins
<1>4. ASSUME NEW i \in 1..Len(t) PROVE Intact(t, i)
  <2>1. CASE i \in 1..Len(s)
    BY <1>1, <1>3, <2>1, IntactBegins DEF Chains
  <2>2. CASE i = Len(s) + 1
    <3>1. CASE Len(s) = 0
      BY <1>1, <1>2, <2>2, <3>1 DEF Intact
    <3>2. CASE Len(s) # 0
      <4>1. Len(s) \in 1..Len(s) /\ i # 1 /\ i - 1 = Len(s)
        BY <1>1, <2>2, <3>2
      <4>2. t[i - 1] = Last(s) /\ t[i] = l
        BY <1>1, <2>2, <4>1 DEF Last
      <4> QED BY <1>2, <3>2, <4>1, <4>2 DEF Intact
    <3> QED BY <3>1, <3>2
  <2> QED BY <1>1, <2>1, <2>2
<1> QED BY <1>4 DEF Chains, t

LEMMA BeginsAppend ==
    ASSUME NEW s \in Seq(Line), NEW l \in Line
    PROVE  /\ Append(s, l) \in Seq(Line) /\ Len(Append(s, l)) = Len(s) + 1
           /\ Begins(s, Append(s, l))
           /\ Append(s, l)[Len(s) + 1] = l
BY DEF Begins

\* What a reader has of the file and the chunk behind it.
LEMMA ScanReads ==
    ASSUME NEW scan \in Seq(Line), NEW lines \in Seq(Line),
           NEW k \in Len(scan) + 1 .. Len(lines)
    PROVE  LET read == scan \o SubSeq(lines, Len(scan) + 1, k) IN
           /\ read \in Seq(Line) /\ Len(read) = k
           /\ \A i \in 1..Len(scan) : read[i] = scan[i]
           /\ Begins(scan, lines) => Begins(read, lines)
<1> DEFINE m == Len(scan)
           chunk == SubSeq(lines, m + 1, k)
           read == scan \o chunk
<1>1. m \in Nat /\ Len(lines) \in Nat /\ k \in Nat /\ m + 1 <= k /\ k <= Len(lines)
  OBVIOUS
<1>2. \A i \in m + 1 .. k : lines[i] \in Line
  BY <1>1
<1>3. /\ chunk \in Seq(Line) /\ Len(chunk) = k - m
      /\ \A i \in 1..(k - m) : chunk[i] = lines[m + i]
  <2>1. /\ chunk \in Seq(Line)
        /\ Len(chunk) = IF m + 1 <= k THEN k - (m + 1) + 1 ELSE 0
        /\ \A i \in 1 .. k - (m + 1) + 1 : chunk[i] = lines[(m + 1) + i - 1]
    BY <1>1, <1>2, SubSeqProperties
  <2>2. k - (m + 1) + 1 = k - m /\ \A i \in 1..(k - m) : (m + 1) + i - 1 = m + i
    BY <1>1
  <2> QED BY <1>1, <2>1, <2>2
<1> HIDE DEF chunk
<1>4. /\ read \in Seq(Line) /\ Len(read) = m + (k - m)
      /\ \A i \in 1..m : read[i] = scan[i]
      /\ \A i \in 1..(k - m) : read[m + i] = chunk[i]
  BY <1>1, <1>3
<1>5. Len(read) = k
  BY <1>1, <1>4
<1> HIDE DEF read
<1>6. ASSUME Begins(scan, lines), NEW i \in 1..k PROVE read[i] = lines[i]
  <2>1. CASE i \in 1..m
    BY <1>4, <1>6, <2>1 DEF Begins
  <2>2. CASE i \notin 1..m
    <3>1. i - m \in 1..(k - m) /\ m + (i - m) = i
      BY <1>1, <2>2
    <3>2. read[m + (i - m)] = chunk[i - m] /\ chunk[i - m] = lines[m + (i - m)]
      BY <1>3, <1>4, <3>1
    <3> QED BY <3>1, <3>2
  <2> QED BY <2>1, <2>2
<1>7. Begins(scan, lines) => Begins(read, lines)
  BY <1>1, <1>5, <1>6 DEF Begins
<1> QED BY <1>4, <1>5, <1>7 DEF read, chunk

-----------------------------------------------------------------------------
(* Types *)

WriterState == [at: {"idle", "append", "rest", "glued_rest"}, hash: Nat, prev: Nat]

StatusState == [at: {"idle", "read"}, scan: Seq(Line), ok: BOOLEAN, break: Nat,
                length: Nat, edits: Nat]

LEMMA LinesTyped ==
    /\ Malformed \in Line
    /\ TypeOK => \A w \in Writer : Landed(w) \in Line
    /\ TypeOK /\ LastLine # None => LastLine \in Line
<1>1. Malformed \in Line
  BY DEF Malformed, Line, GENESIS_HASH
<1>2. ASSUME TypeOK, NEW w \in Writer PROVE Landed(w) \in Line
  <2>1. writer[w] \in WriterState
    BY <1>2 DEF TypeOK, WriterState
  <2> QED BY <1>1, <2>1 DEF Landed, Line, WriterState
<1>3. ASSUME TypeOK, LastLine # None PROVE LastLine \in Line
  <2>1. CASE tail # None
    BY <1>3, <2>1 DEF TypeOK, LastLine
  <2>2. CASE tail = None
    <3>1. LastLine = IF file = <<>> THEN None ELSE Last(file)
      BY <2>2 DEF LastLine
    <3>2. file # <<>> /\ LastLine = Last(file)
      BY <1>3, <3>1
    <3>3. file \in Seq(Line) /\ Len(file) \in 1..Len(file)
      BY <1>3, <3>2 DEF TypeOK
    <3> QED BY <3>2, <3>3 DEF Last
  <2> QED BY <2>1, <2>2
<1> QED BY <1>1, <1>2, <1>3

LEMMA TypeInit == Init => TypeOK
<1> SUFFICES ASSUME Init PROVE TypeOK
  OBVIOUS
<1>1. IdleWriter \in WriterState
  BY DEF IdleWriter, WriterState, GENESIS_HASH
<1>2. status \in StatusState
  BY DEF Init, StatusState
<1> QED BY <1>1, <1>2 DEF Init, TypeOK, WriterState, StatusState

LEMMA TypeStep == TypeOK /\ [Next]_vars => TypeOK'
<1> SUFFICES ASSUME TypeOK, [Next]_vars PROVE TypeOK'
  OBVIOUS
<1> DEFINE FilesOK == file \in Seq(Line) /\ tail \in Line \cup {None}
           WritersOK == writer \in [Writer -> WriterState] /\ appender \in Writer \cup {None}
           StatusOK == cache \in Seq(Line) \cup {None} /\ status \in StatusState
           HistoryOK == /\ hashes \in Nat /\ edits \in Nat /\ returned \subseteq Nat
                        /\ glued \in BOOLEAN
<1>0. FilesOK /\ WritersOK /\ StatusOK /\ HistoryOK
  BY DEF TypeOK, WriterState, StatusState
<1>00. ASSUME FilesOK', WritersOK', StatusOK', HistoryOK' PROVE TypeOK'
  BY <1>00 DEF TypeOK, WriterState, StatusState
<1>1. ASSUME NEW w \in Writer, ReadTip(w) PROVE TypeOK'
  <2> DEFINE prev == IF LastLine = None THEN GENESIS_HASH ELSE LastLine.hash
  <2>1. prev \in Nat
    BY LinesTyped DEF GENESIS_HASH, Line
  <2>2. writer' = [writer EXCEPT ![w] = [at |-> "append", hash |-> hashes + 1, prev |-> prev]]
    BY <1>1 DEF ReadTip
  <2> HIDE DEF prev
  <2>3. WritersOK'
    BY <1>0, <1>1, <2>1, <2>2 DEF ReadTip, WriterState
  <2>4. FilesOK' /\ StatusOK' /\ HistoryOK'
    BY <1>0, <1>1 DEF ReadTip, filevars, statusvars
  <2> QED BY <1>00, <2>3, <2>4
<1>2. ASSUME NEW w \in Writer, AppendWhole(w) PROVE TypeOK'
  <2>1. WritersOK'
    BY <1>0, <1>2 DEF AppendWhole, IdleWriter, WriterState, GENESIS_HASH
  <2>2. FilesOK'
    BY <1>0, <1>2, LinesTyped DEF AppendWhole
  <2>3. StatusOK' /\ HistoryOK'
    BY <1>0, <1>2 DEF AppendWhole, statusvars, WriterState, Unterminated
  <2> QED BY <1>00, <2>1, <2>2, <2>3
<1>3. ASSUME NEW w \in Writer, AppendPart(w) PROVE TypeOK'
  <2> DEFINE at == IF tail = None THEN "rest" ELSE "glued_rest"
  <2>1. at \in {"rest", "glued_rest"} /\ writer' = [writer EXCEPT ![w].at = at]
    BY <1>3 DEF AppendPart
  <2> HIDE DEF at
  <2>2. WritersOK'
    BY <1>0, <1>3, <2>1 DEF AppendPart, WriterState
  <2>3. FilesOK'
    BY <1>0, <1>3, LinesTyped DEF AppendPart
  <2>4. StatusOK' /\ HistoryOK'
    BY <1>0, <1>3 DEF AppendPart, statusvars, Unterminated
  <2> QED BY <1>00, <2>2, <2>3, <2>4
<1>4. ASSUME NEW w \in Writer, AppendRest(w) PROVE TypeOK'
  <2> DEFINE l == IF writer[w].at = "glued_rest" THEN Malformed
                  ELSE [hash |-> writer[w].hash, prev |-> writer[w].prev, text |-> "sound"]
  <2>1. l \in Line
    <3>1. writer[w] \in WriterState
      BY <1>0
    <3> QED BY <3>1, LinesTyped DEF WriterState, Line
  <2>2. file' = Append(file, l)
    BY <1>4 DEF AppendRest
  <2> HIDE DEF l
  <2>3. FilesOK'
    BY <1>0, <1>4, <2>1, <2>2 DEF AppendRest
  <2>4. WritersOK'
    BY <1>0, <1>4 DEF AppendRest, IdleWriter, WriterState, GENESIS_HASH
  <2>5. StatusOK' /\ HistoryOK'
    BY <1>0, <1>4 DEF AppendRest, statusvars, WriterState
  <2> QED BY <1>00, <2>3, <2>4, <2>5
<1>5. ASSUME NEW w \in Writer, Crash(w) PROVE TypeOK'
  <2>1. WritersOK'
    BY <1>0, <1>5 DEF Crash, IdleWriter, WriterState, GENESIS_HASH
  <2>2. FilesOK' /\ StatusOK' /\ HistoryOK'
    BY <1>0, <1>5 DEF Crash, filevars, statusvars, history
  <2> QED BY <1>00, <2>1, <2>2
<1>6. CASE StatusOpen
  <2> DEFINE scan == IF PrefixMatches THEN cache ELSE <<>>
  <2>1. scan \in Seq(Line)
    BY <1>0 DEF PrefixMatches
  <2>2. status' = [at |-> "read", scan |-> scan, ok |-> TRUE, break |-> 0,
                   length |-> Len(file), edits |-> edits]
    BY <1>6 DEF StatusOpen
  <2> HIDE DEF scan
  <2>3. StatusOK'
    BY <1>0, <1>6, <2>1, <2>2 DEF StatusOpen, StatusState
  <2>4. FilesOK' /\ WritersOK' /\ HistoryOK'
    BY <1>0, <1>6 DEF StatusOpen, filevars, history
  <2> QED BY <1>00, <2>3, <2>4
<1>7. CASE StatusRead
  <2>1. PICK k \in Len(status.scan) + 1 .. Len(file) :
          LET lines == status.scan \o SubSeq(file, Len(status.scan) + 1, k) IN
          IF Chains(lines)
          THEN status' = [status EXCEPT !.scan = lines] /\ UNCHANGED cache
          ELSE /\ status' = [status EXCEPT !.at = "idle", !.scan = <<>>, !.ok = FALSE,
                                           !.break = FirstBreak(lines)]
               /\ cache' = None
    BY <1>7 DEF StatusRead
  <2> DEFINE lines == status.scan \o SubSeq(file, Len(status.scan) + 1, k)
  <2>2. lines \in Seq(Line)
    <3>1. status.scan \in Seq(Line) /\ file \in Seq(Line)
      BY <1>0 DEF StatusState
    <3> QED BY <2>1, <3>1, ScanReads
  <2> HIDE DEF lines
  <2>3. StatusOK'
    <3>1. CASE Chains(lines)
      BY <1>0, <2>1, <2>2, <3>1 DEF lines, StatusState
    <3>2. CASE ~Chains(lines)
      <4>1. FirstBreak(lines) \in Nat
        BY <2>2, <3>2, BreakExists
      <4> DEFINE b == FirstBreak(lines)
      <4>2. /\ status' = [status EXCEPT !.at = "idle", !.scan = <<>>, !.ok = FALSE, !.break = b]
            /\ cache' = None /\ <<>> \in Seq(Line)
        BY <2>1, <3>2 DEF lines
      <4> HIDE DEF b
      <4> QED BY <1>0, <4>1, <4>2 DEF StatusState, b
    <3> QED BY <3>1, <3>2
  <2>4. FilesOK' /\ WritersOK' /\ HistoryOK'
    BY <1>0, <1>7 DEF StatusRead, filevars, history
  <2> QED BY <1>00, <2>3, <2>4
<1>8. CASE StatusEnd
  <2>1. StatusOK'
    <3> DEFINE n == Len(status.scan)
    <3>1. status.scan \in Seq(Line) /\ n \in Nat
      BY <1>0 DEF StatusState
    <3>2. status' = [status EXCEPT !.at = "idle", !.length = n] /\ cache' = status.scan
      BY <1>8 DEF StatusEnd
    <3> HIDE DEF n
    <3> QED BY <1>0, <3>1, <3>2 DEF StatusState
  <2>2. FilesOK' /\ WritersOK' /\ HistoryOK'
    BY <1>0, <1>8 DEF StatusEnd, filevars, history
  <2> QED BY <1>00, <2>1, <2>2
<1>9. ASSUME NEW i \in 1..Len(file), EditLine(i) PROVE TypeOK'
  <2>1. file[i] \in Line
    BY <1>0
  <2>2. PICK l \in Line : file' = [file EXCEPT ![i] = l]
    <3>1. CASE file' = [file EXCEPT ![i].text = "edited"]
      <4>1. [file[i] EXCEPT !.text = "edited"] \in Line
        BY <2>1 DEF Line
      <4> QED BY <1>0, <3>1, <4>1
    <3>2. CASE file' = [file EXCEPT ![i].hash = hashes + 1, ![i].text = "sound"]
      <4> DEFINE h == hashes + 1
      <4>1. h \in Nat
        BY <1>0
      <4>2. file' = [file EXCEPT ![i].hash = h, ![i].text = "sound"]
        BY <3>2
      <4> HIDE DEF h
      <4>3. [file[i] EXCEPT !.hash = h, !.text = "sound"] \in Line
        BY <2>1, <4>1 DEF Line
      <4>4. file' = [file EXCEPT ![i] = [file[i] EXCEPT !.hash = h, !.text = "sound"]]
        BY <1>0, <4>2
      <4> QED BY <4>3, <4>4
    <3> QED BY <1>9, <3>1, <3>2 DEF EditLine
  <2>3. FilesOK'
    BY <1>0, <1>9, <2>2, ExceptSeq DEF EditLine
  <2>4. WritersOK' /\ StatusOK' /\ HistoryOK'
    BY <1>0, <1>9 DEF EditLine, statusvars
  <2> QED BY <1>00, <2>3, <2>4
<1>10. ASSUME NEW n \in 0..(Len(file) - 1), Truncate(n) PROVE TypeOK'
  <2>1. FilesOK'
    BY <1>0, <1>10, SubSeqProperties DEF Truncate
  <2>2. WritersOK' /\ StatusOK' /\ HistoryOK'
    BY <1>0, <1>10 DEF Truncate, statusvars
  <2> QED BY <1>00, <2>1, <2>2
<1>11. CASE UNCHANGED vars
  BY <1>0, <1>00, <1>11 DEF vars, filevars, statusvars, history
<1> QED BY <1>1, <1>2, <1>3, <1>4, <1>5, <1>6, <1>7, <1>8, <1>9, <1>10, <1>11 DEF Next

\* The log, its readers and its writers are well typed in every state; that holds of
\* the first break too, which is chosen (_verify_from, core/audit/log.py).
THEOREM TypeCorrect == Spec => []TypeOK
BY TypeInit, TypeStep, PTL DEF Spec

-----------------------------------------------------------------------------
(* One writer *)

\* One caller of record_audit at a time; more of them fork the log
\* (EachCoversPrevious).
OneWriter == \A v, w \in Writer : v = w

TipHash == IF file = <<>> THEN GENESIS_HASH ELSE Last(file).hash

\* The writer that appends has read the tip the file still has; behind a line cut
\* short there is no writer that appends.
AppendsToTip(w) ==
    /\ writer[w].at = "append" =>
          IF tail = None THEN writer[w].prev = TipHash ELSE tail.text = "sound"
    /\ writer[w].at = "rest" => writer[w].prev = TipHash
    /\ writer[w].at # "glued_rest"

TailWritten ==
    /\ tail # None => tail.text \in {"sound", "malformed"}
    /\ \A w \in Writer : writer[w].at \in {"rest", "glued_rest"} <=> appender = w

OneWriterInv ==
    edits = 0 /\ ~glued =>
        /\ Chains(file)
        /\ \A h \in returned : \E i \in 1..Len(file) :
              file[i].hash = h /\ file[i].text = "sound"
        /\ \A w \in Writer : AppendsToTip(w)

\* A sound line behind the tip, whose writer returns.
LEMMA RecordLands ==
    ASSUME TypeOK, OneWriter, NEW w \in Writer, edits = 0 /\ ~glued, OneWriterInv,
           writer[w].prev = TipHash, edits' = edits,
           file' = Append(file, [hash |-> writer[w].hash, prev |-> writer[w].prev,
                                 text |-> "sound"]),
           returned' = returned \cup {writer[w].hash},
           writer' = [writer EXCEPT ![w] = IdleWriter]
    PROVE  OneWriterInv'
<1> DEFINE l == [hash |-> writer[w].hash, prev |-> writer[w].prev, text |-> "sound"]
<1>1. /\ l \in Line /\ l.hash = writer[w].hash /\ l.prev = writer[w].prev /\ l.text = "sound"
      /\ file \in Seq(Line) /\ writer \in [Writer -> WriterState]
  BY DEF TypeOK, Line, WriterState
<1>2. file' = Append(file, l)
  OBVIOUS
<1> HIDE DEF l
<1>3. Chains(file')
  BY <1>1, <1>2, ChainsAppend DEF OneWriterInv, TipHash
<1>4. /\ Len(file') = Len(file) + 1 /\ Len(file) \in Nat /\ file'[Len(file) + 1] = l
      /\ \A i \in 1..Len(file) : file'[i] = file[i]
  BY <1>1, <1>2
<1>5. ASSUME NEW h \in returned'
      PROVE  \E i \in 1..Len(file') : file'[i].hash = h /\ file'[i].text = "sound"
  <2>1. CASE h \in returned
    <3>1. PICK i \in 1..Len(file) : file[i].hash = h /\ file[i].text = "sound"
      BY <2>1 DEF OneWriterInv
    <3>2. i \in 1..Len(file') /\ file'[i] = file[i]
      BY <1>4, <3>1
    <3> QED BY <3>1, <3>2
  <2>2. CASE h = writer[w].hash
    <3>1. Len(file) + 1 \in 1..Len(file')
      BY <1>4
    <3> QED BY <1>1, <1>4, <2>2, <3>1
  <2> QED BY <1>5, <2>1, <2>2
<1>6. \A v \in Writer : writer'[v].at = "idle"
  BY <1>1 DEF OneWriter, IdleWriter
<1> QED BY <1>3, <1>5, <1>6 DEF OneWriterInv, AppendsToTip

LEMMA TailInit == Init => TailWritten
BY AuditAssumption DEF Init, TailWritten, IdleWriter

LEMMA TailStep == TypeOK /\ TailWritten /\ [Next]_vars => TailWritten'
<1> SUFFICES ASSUME TypeOK, TailWritten, [Next]_vars PROVE TailWritten'
  OBVIOUS
<1>0. /\ writer \in [Writer -> WriterState] /\ appender \in Writer \cup {None}
      /\ None \notin Writer /\ None \notin Line
  BY AuditAssumption DEF TypeOK, WriterState
<1>1. ASSUME NEW w \in Writer, ReadTip(w) PROVE TailWritten'
  BY <1>0, <1>1 DEF ReadTip, TailWritten, filevars, WriterState
<1>2. ASSUME NEW w \in Writer, AppendWhole(w) PROVE TailWritten'
  BY <1>0, <1>2 DEF AppendWhole, TailWritten, IdleWriter
<1>3. ASSUME NEW w \in Writer, AppendPart(w) PROVE TailWritten'
  <2>1. tail'.text \in {"sound", "malformed"}
    BY <1>3 DEF AppendPart, Landed, Malformed
  <2> DEFINE at == IF tail = None THEN "rest" ELSE "glued_rest"
  <2>2. /\ at \in {"rest", "glued_rest"} /\ writer' = [writer EXCEPT ![w].at = at]
        /\ appender = None /\ appender' = w
    BY <1>3 DEF AppendPart
  <2> HIDE DEF at
  <2>3. \A v \in Writer : writer'[v].at \in {"rest", "glued_rest"} <=> appender' = v
    BY <1>0, <2>2 DEF TailWritten, WriterState
  <2> QED BY <2>1, <2>3 DEF TailWritten
<1>4. ASSUME NEW w \in Writer, AppendRest(w) PROVE TailWritten'
  BY <1>0, <1>4 DEF AppendRest, TailWritten, IdleWriter
<1>5. ASSUME NEW w \in Writer, Crash(w) PROVE TailWritten'
  BY <1>0, <1>5 DEF Crash, TailWritten, filevars, IdleWriter
<1>6. CASE UNCHANGED <<tail, writer, appender>>
  BY <1>6 DEF TailWritten
<1>7. ASSUME NEW n \in 0..(Len(file) - 1), Truncate(n) PROVE TailWritten'
  BY <1>7 DEF Truncate, TailWritten
<1> QED BY <1>1, <1>2, <1>3, <1>4, <1>5, <1>6, <1>7
        DEF Next, StatusOpen, StatusRead, StatusEnd, EditLine, vars, filevars

LEMMA OneWriterInit == Init => OneWriterInv
BY DEF Init, OneWriterInv, Chains, AppendsToTip, IdleWriter

LEMMA OneWriterStep ==
    ASSUME OneWriter, TypeOK, TailWritten, OneWriterInv, [Next]_vars
    PROVE  OneWriterInv'
<1>0. /\ writer \in [Writer -> WriterState] /\ appender \in Writer \cup {None}
      /\ edits \in Nat /\ glued \in BOOLEAN /\ None \notin Writer /\ None \notin Line
  BY AuditAssumption DEF TypeOK, WriterState
<1>1. ASSUME NEW w \in Writer, ReadTip(w) PROVE OneWriterInv'
  <2> SUFFICES ASSUME edits = 0 /\ ~glued PROVE OneWriterInv'
    BY <1>1 DEF ReadTip, OneWriterInv
  <2> DEFINE prev == IF LastLine = None THEN GENESIS_HASH ELSE LastLine.hash
  <2>1. /\ writer' = [writer EXCEPT ![w] = [at |-> "append", hash |-> hashes + 1,
                                           prev |-> prev]]
        /\ file' = file /\ tail' = tail /\ returned' = returned
        /\ LastLine # None => LastLine.text # "malformed"
    BY <1>1 DEF ReadTip, filevars
  <2>2. CASE tail = None
    <3>1. LastLine = IF file = <<>> THEN None ELSE Last(file)
      BY <2>2 DEF LastLine
    <3>2. file # <<>> => Last(file) # None
      <4>1. file # <<>> => Len(file) \in 1..Len(file) /\ file[Len(file)] \in Line
        BY DEF TypeOK
      <4> QED BY <1>0, <4>1 DEF Last
    <3>3. prev = TipHash
      BY <3>1, <3>2 DEF TipHash
    <3> HIDE DEF prev
    <3>4. writer'[w].at = "append" /\ writer'[w].prev = prev
      BY <1>0, <2>1
    <3>5. TipHash' = TipHash
      BY <2>1 DEF TipHash
    <3>6. \A v \in Writer : AppendsToTip(v)'
      BY <2>1, <2>2, <3>3, <3>4, <3>5 DEF AppendsToTip, OneWriter
    <3> QED BY <2>1, <3>6 DEF OneWriterInv
  <2>3. CASE tail # None
    <3>1. tail.text = "sound"
      BY <2>1, <2>3 DEF LastLine, TailWritten
    <3> HIDE DEF prev
    <3>2. writer'[w].at = "append"
      BY <1>0, <2>1
    <3>3. \A v \in Writer : AppendsToTip(v)'
      BY <2>1, <2>3, <3>1, <3>2 DEF AppendsToTip, OneWriter
    <3> QED BY <2>1, <3>3 DEF OneWriterInv
  <2> QED BY <2>2, <2>3
<1>2. ASSUME NEW w \in Writer, AppendWhole(w) PROVE OneWriterInv'
  <2>1. CASE edits = 0 /\ ~glued /\ tail = None
    <3>1. writer[w].prev = TipHash
      BY <1>2, <2>1 DEF AppendWhole, OneWriterInv, AppendsToTip
    <3> QED BY <1>2, <2>1, <3>1, RecordLands DEF AppendWhole, Landed
  <2>2. CASE edits = 0 /\ ~glued /\ tail # None
    <3>1. glued'
      BY <1>2, <2>2 DEF AppendWhole, OneWriterInv, AppendsToTip, Unterminated
    <3> QED BY <3>1 DEF OneWriterInv
  <2>3. CASE ~(edits = 0 /\ ~glued)
    BY <1>2, <2>3 DEF AppendWhole, OneWriterInv
  <2> QED BY <2>1, <2>2, <2>3
<1>3. ASSUME NEW w \in Writer, AppendPart(w) PROVE OneWriterInv'
  <2>1. CASE edits = 0 /\ ~glued /\ tail = None
    <3>1. /\ writer' = [writer EXCEPT ![w].at = "rest"] /\ file' = file
          /\ returned' = returned /\ writer[w].at = "append"
      BY <1>3, <2>1 DEF AppendPart
    <3>2. writer[w].prev = TipHash
      BY <2>1, <3>1 DEF OneWriterInv, AppendsToTip
    <3>3. writer'[w].at = "rest" /\ writer'[w].prev = writer[w].prev
      BY <1>0, <3>1 DEF WriterState
    <3>4. \A v \in Writer : AppendsToTip(v)'
      BY <3>1, <3>2, <3>3 DEF AppendsToTip, OneWriter, TipHash
    <3> QED BY <2>1, <3>1, <3>4 DEF OneWriterInv
  <2>2. CASE edits = 0 /\ ~glued /\ tail # None
    <3>1. glued'
      BY <1>3, <2>2 DEF AppendPart, OneWriterInv, AppendsToTip, Unterminated
    <3> QED BY <3>1 DEF OneWriterInv
  <2>3. CASE ~(edits = 0 /\ ~glued)
    BY <1>3, <2>3 DEF AppendPart, OneWriterInv
  <2> QED BY <2>1, <2>2, <2>3
<1>4. ASSUME NEW w \in Writer, AppendRest(w) PROVE OneWriterInv'
  <2>1. CASE edits = 0 /\ ~glued
    <3>1. writer[w].at = "rest"
      BY <1>4, <2>1 DEF AppendRest, OneWriterInv, AppendsToTip, TailWritten
    <3>2. writer[w].prev = TipHash
      BY <2>1, <3>1 DEF OneWriterInv, AppendsToTip
    <3> QED BY <1>4, <2>1, <3>1, <3>2, RecordLands DEF AppendRest
  <2>2. CASE ~(edits = 0 /\ ~glued)
    BY <1>4, <2>2 DEF AppendRest, OneWriterInv
  <2> QED BY <2>1, <2>2
<1>5. ASSUME NEW w \in Writer, Crash(w) PROVE OneWriterInv'
  <2>1. /\ \A v \in Writer : writer'[v].at = "idle"
        /\ file' = file /\ returned' = returned /\ edits' = edits /\ glued' = glued
    BY <1>0, <1>5 DEF Crash, IdleWriter, OneWriter, filevars, history
  <2> QED BY <2>1 DEF OneWriterInv, AppendsToTip
<1>6. CASE UNCHANGED <<filevars, writer, returned, glued, edits>>
  BY <1>6 DEF OneWriterInv, AppendsToTip, TipHash, filevars
<1>7. ASSUME edits' = edits + 1 PROVE OneWriterInv'
  <2>1. edits' # 0
    BY <1>0, <1>7
  <2> QED BY <2>1 DEF OneWriterInv
<1> QED BY <1>1, <1>2, <1>3, <1>4, <1>5, <1>6, <1>7
        DEF Next, StatusOpen, StatusRead, StatusEnd, EditLine, Truncate, vars, history

\* With one writer at a time, whatever crashes in the middle of a line, a log that
\* nobody edits chains and holds every record that record_audit returned, until a
\* record is glued to a line that lacks its newline (core/audit/log.py).
THEOREM LoneWriterChains == OneWriter => (Spec => []OneWriterChains)
<1>1. OneWriter /\ Init => TypeOK /\ TailWritten /\ OneWriterInv
  BY TypeInit, TailInit, OneWriterInit
<1>2. TypeOK /\ TailWritten /\ (OneWriter => OneWriterInv) /\ [Next]_vars
      => (TypeOK /\ TailWritten /\ (OneWriter => OneWriterInv))'
  <2>1. TypeOK /\ TailWritten /\ [Next]_vars => TypeOK' /\ TailWritten'
    BY TypeStep, TailStep
  <2>2. OneWriter' <=> OneWriter
    BY DEF OneWriter
  <2> QED BY <2>1, <2>2, OneWriterStep
<1>3. OneWriter /\ OneWriterInv => OneWriterChains
  BY DEF OneWriterInv, OneWriterChains
<1>4. OneWriter => OneWriter'
  BY DEF OneWriter
<1> QED BY <1>1, <1>2, <1>3, <1>4, PTL DEF Spec

-----------------------------------------------------------------------------
(* chain_status *)

\* What the call in progress has read chains and, if nobody edited the file since it
\* began, is how the file begins; its verdict speaks of the file as it is now.
ReadSoFar ==
    status.at = "read" =>
        /\ status.ok /\ Chains(status.scan)
        /\ edits = status.edits => Begins(status.scan, file)

Told ==
    status.at = "idle" /\ edits = status.edits =>
        IF status.ok
        THEN status.length <= Len(file) /\ \A i \in 1..status.length : Intact(file, i)
        ELSE IsBreak(file, status.break)

StatusInv ==
    /\ cache # None => Chains(cache)
    /\ status.edits <= edits
    /\ ReadSoFar
    /\ Told

LEMMA PrefixBegins ==
    ASSUME NEW s \in Seq(Line), NEW t \in Seq(Line), IsPrefix(s, t)
    PROVE  Begins(s, t)
<1>1. /\ Len(s) \in Nat /\ Len(t) \in Nat /\ Len(s) <= Len(t)
      /\ SubSeq(s, 1, Len(s)) = SubSeq(t, 1, Len(s))
  BY DEF IsPrefix
<1>2. ASSUME NEW u \in Seq(Line), Len(s) <= Len(u), NEW i \in 1..Len(s)
      PROVE  SubSeq(u, 1, Len(s))[i] = u[i]
  <2>1. /\ Len(u) \in Nat /\ 1 \in Int /\ Len(s) \in Int
        /\ \A j \in 1..Len(s) : u[j] \in Line
    BY <1>1, <1>2
  <2>2. \A j \in 1 .. Len(s) - 1 + 1 : SubSeq(u, 1, Len(s))[j] = u[1 + j - 1]
    BY <2>1, SubSeqProperties
  <2>3. i \in 1 .. Len(s) - 1 + 1 /\ 1 + i - 1 = i
    BY <1>1
  <2> QED BY <2>2, <2>3
<1>3. \A i \in 1..Len(s) : s[i] = t[i]
  BY <1>1, <1>2
<1> QED BY <1>1, <1>3 DEF Begins

\* Lines that are appended change neither what was read nor the verdict.
LEMMA StatusAppend ==
    ASSUME TypeOK, StatusInv, UNCHANGED <<statusvars, edits>>,
           file' = file \/ \E l \in Line : file' = Append(file, l)
    PROVE  StatusInv'
<1>1. /\ file \in Seq(Line) /\ file' \in Seq(Line) /\ Begins(file, file')
      /\ Len(file) \in Nat /\ Len(file') \in Nat
  <2>1. file \in Seq(Line)
    BY DEF TypeOK
  <2>2. CASE file' = file
    BY <2>1, <2>2 DEF Begins
  <2>3. ASSUME NEW l \in Line, file' = Append(file, l)
        PROVE  file' \in Seq(Line) /\ Begins(file, file') /\ Len(file') \in Nat
    BY <2>1, <2>3, BeginsAppend
  <2> QED BY <2>1, <2>2, <2>3
<1>2. status \in StatusState /\ edits \in Nat
  BY DEF TypeOK, StatusState
<1>3. ReadSoFar'
  <2>1. status.at = "read" /\ Begins(status.scan, file) => Begins(status.scan, file')
    <3>1. status.scan \in Seq(Line) /\ Len(status.scan) \in Nat
      BY <1>2 DEF StatusState
    <3> QED BY <1>1, <3>1 DEF Begins
  <2> QED BY <2>1 DEF StatusInv, ReadSoFar, statusvars
<1>4. Told'
  <2> SUFFICES ASSUME status.at = "idle", edits = status.edits
               PROVE  IF status.ok
                      THEN /\ status.length <= Len(file')
                           /\ \A i \in 1..status.length : Intact(file', i)
                      ELSE IsBreak(file', status.break)
    BY DEF Told, statusvars
  <2>1. CASE status.ok
    <3>1. status.length <= Len(file) /\ status.length \in Nat
      BY <1>2, <2>1 DEF StatusInv, Told, StatusState
    <3>2. \A i \in 1..status.length : i \in 1..Len(file) /\ Intact(file, i)
      BY <1>1, <2>1, <3>1 DEF StatusInv, Told
    <3>3. status.length <= Len(file')
      BY <1>1, <3>1 DEF Begins
    <3> QED BY <1>1, <2>1, <3>2, <3>3, IntactBegins
  <2>2. CASE ~status.ok
    <3>1. IsBreak(file, status.break)
      BY <2>2 DEF StatusInv, Told
    <3> QED BY <1>1, <2>2, <3>1, ChainsBegins
  <2> QED BY <2>1, <2>2
<1> QED BY <1>3, <1>4 DEF StatusInv, statusvars

LEMMA StatusInit == Init => StatusInv
<1> SUFFICES ASSUME Init PROVE StatusInv
  OBVIOUS
<1>1. /\ cache = None /\ status.at = "idle" /\ status.ok /\ status.length = 0
      /\ status.edits = 0 /\ edits = 0 /\ file = <<>>
  BY DEF Init
<1> QED BY <1>1 DEF StatusInv, ReadSoFar, Told

LEMMA StatusStep == TypeOK /\ StatusInv /\ [Next]_vars => StatusInv'
<1> SUFFICES ASSUME TypeOK, StatusInv, [Next]_vars PROVE StatusInv'
  OBVIOUS
<1>0. /\ file \in Seq(Line) /\ Len(file) \in Nat /\ status \in StatusState /\ edits \in Nat
      /\ cache \in Seq(Line) \cup {None} /\ writer \in [Writer -> WriterState]
      /\ status.scan \in Seq(Line) /\ Len(status.scan) \in Nat
  BY DEF TypeOK, StatusState, WriterState
<1>1. ASSUME NEW w \in Writer, ReadTip(w) PROVE StatusInv'
  BY <1>1, StatusAppend DEF ReadTip, filevars
<1>2. ASSUME NEW w \in Writer, AppendWhole(w) PROVE StatusInv'
  BY <1>2, LinesTyped, StatusAppend DEF AppendWhole
<1>3. ASSUME NEW w \in Writer, AppendPart(w) PROVE StatusInv'
  BY <1>3, StatusAppend DEF AppendPart
<1>4. ASSUME NEW w \in Writer, AppendRest(w) PROVE StatusInv'
  <2> DEFINE l == IF writer[w].at = "glued_rest" THEN Malformed
                  ELSE [hash |-> writer[w].hash, prev |-> writer[w].prev, text |-> "sound"]
  <2>1. l \in Line
    <3>1. writer[w] \in WriterState
      BY <1>0
    <3> QED BY <3>1, LinesTyped DEF WriterState, Line
  <2>2. file' = Append(file, l) /\ UNCHANGED <<statusvars, edits>>
    BY <1>4 DEF AppendRest
  <2> HIDE DEF l
  <2> QED BY <2>1, <2>2, StatusAppend
<1>5. ASSUME NEW w \in Writer, Crash(w) PROVE StatusInv'
  BY <1>5, StatusAppend DEF Crash, filevars, history
<1>6. CASE StatusOpen
  <2> DEFINE scan == IF PrefixMatches THEN cache ELSE <<>>
  <2>1. /\ status' = [at |-> "read", scan |-> scan, ok |-> TRUE, break |-> 0,
                      length |-> Len(file), edits |-> edits]
        /\ file' = file /\ edits' = edits /\ cache' = cache
    BY <1>6 DEF StatusOpen, filevars, history
  <2>2. Chains(scan) /\ Begins(scan, file)
    <3>1. CASE PrefixMatches
      <4>1. cache \in Seq(Line) /\ Chains(cache) /\ IsPrefix(cache, file)
        BY <1>0, <3>1 DEF PrefixMatches, StatusInv
      <4>2. Begins(cache, file)
        BY <1>0, <4>1, PrefixBegins
      <4> QED BY <3>1, <4>1, <4>2
    <3>2. CASE ~PrefixMatches
      BY <1>0, <3>2 DEF Chains, Begins
    <3> QED BY <3>1, <3>2
  <2> HIDE DEF scan
  <2>3. status'.at = "read" /\ status'.scan = scan /\ status'.edits = edits
    BY <2>1
  <2>4. ReadSoFar' /\ Told'
    BY <2>1, <2>2, <2>3 DEF ReadSoFar, Told
  <2> QED BY <1>0, <2>1, <2>3, <2>4 DEF StatusInv
<1>7. CASE StatusRead
  <2>1. PICK k \in Len(status.scan) + 1 .. Len(file) :
          LET lines == status.scan \o SubSeq(file, Len(status.scan) + 1, k) IN
          IF Chains(lines)
          THEN status' = [status EXCEPT !.scan = lines] /\ UNCHANGED cache
          ELSE /\ status' = [status EXCEPT !.at = "idle", !.scan = <<>>, !.ok = FALSE,
                                           !.break = FirstBreak(lines)]
               /\ cache' = None
    BY <1>7 DEF StatusRead
  <2> DEFINE lines == status.scan \o SubSeq(file, Len(status.scan) + 1, k)
  <2>2. lines \in Seq(Line) /\ (Begins(status.scan, file) => Begins(lines, file))
    BY <1>0, <2>1, ScanReads
  <2>3. status.at = "read" /\ file' = file /\ edits' = edits
    BY <1>7 DEF StatusRead, filevars, history
  <2>4. edits = status.edits => Begins(lines, file)
    BY <2>2, <2>3 DEF StatusInv, ReadSoFar
  <2> HIDE DEF lines
  <2>5. CASE Chains(lines)
    <3>1. status' = [status EXCEPT !.scan = lines] /\ cache' = cache
      BY <2>1, <2>5 DEF lines
    <3>2. /\ status'.at = "read" /\ status'.scan = lines /\ status'.edits = status.edits
          /\ status'.ok = status.ok
      BY <1>0, <2>3, <3>1 DEF StatusState
    <3>0. status.ok
      BY <2>3 DEF StatusInv, ReadSoFar
    <3>3. ReadSoFar' /\ Told'
      BY <2>3, <2>4, <3>0, <2>5, <3>2 DEF ReadSoFar, Told
    <3> QED BY <2>3, <3>1, <3>2, <3>3 DEF StatusInv
  <2>6. CASE ~Chains(lines)
    <3> DEFINE b == FirstBreak(lines)
    <3>1. IsBreak(lines, b)
      BY <2>2, <2>6, BreakExists
    <3>2. /\ status' = [status EXCEPT !.at = "idle", !.scan = <<>>, !.ok = FALSE, !.break = b]
          /\ cache' = None
      BY <2>1, <2>6 DEF lines
    <3> HIDE DEF b
    <3>3. /\ status'.at = "idle" /\ status'.ok = FALSE /\ status'.break = b
          /\ status'.edits = status.edits
      BY <1>0, <3>2 DEF StatusState
    <3>4. edits = status.edits => IsBreak(file, b)
      BY <1>0, <2>2, <2>4, <3>1, ChainsBegins
    <3>5. ReadSoFar' /\ Told'
      BY <2>3, <3>3, <3>4 DEF ReadSoFar, Told
    <3> QED BY <2>3, <3>2, <3>3, <3>5 DEF StatusInv
  <2> QED BY <2>5, <2>6
<1>8. CASE StatusEnd
  <2> DEFINE n == Len(status.scan)
  <2>1. /\ status' = [status EXCEPT !.at = "idle", !.length = n] /\ cache' = status.scan
        /\ file' = file /\ edits' = edits /\ status.at = "read" /\ Len(file) <= n
    BY <1>8 DEF StatusEnd, filevars, history
  <2>2. Chains(status.scan)
    BY <2>1 DEF StatusInv, ReadSoFar
  <2>3. edits = status.edits => /\ Begins(status.scan, file) /\ n <= Len(file)
                              /\ \A i \in 1..n : Intact(file, i)
    <3>1. edits = status.edits => Begins(status.scan, file)
      BY <2>1 DEF StatusInv, ReadSoFar
    <3>2. \A i \in 1..n : Intact(status.scan, i)
      BY <2>2 DEF Chains
    <3> QED BY <1>0, <3>1, <3>2, IntactBegins DEF Begins
  <2>4. CASE status.ok
    <3> HIDE DEF n
    <3>1. /\ status'.at = "idle" /\ status'.length = n /\ status'.edits = status.edits
          /\ status'.ok = status.ok
      BY <1>0, <2>1 DEF StatusState
    <3>2. ReadSoFar' /\ Told'
      BY <2>1, <2>3, <2>4, <3>1 DEF ReadSoFar, Told
    <3> QED BY <2>1, <2>2, <3>1, <3>2 DEF StatusInv
  <2> QED BY <2>1, <2>4 DEF StatusInv, ReadSoFar
<1>9. ASSUME edits' = edits + 1, UNCHANGED statusvars PROVE StatusInv'
  <2>1. status.edits <= edits /\ status.edits \in Nat
    BY <1>0 DEF StatusInv, StatusState
  <2>2. status'.edits # edits' /\ status'.edits <= edits'
    BY <1>0, <1>9, <2>1 DEF statusvars
  <2> QED BY <1>9, <2>2 DEF StatusInv, ReadSoFar, Told, statusvars
<1>10. CASE UNCHANGED <<file, statusvars, edits>>
  BY <1>10, StatusAppend
<1> QED BY <1>1, <1>2, <1>3, <1>4, <1>5, <1>6, <1>7, <1>8, <1>9, <1>10
        DEF Next, EditLine, Truncate, vars, filevars, history

\* chain_status and verify_chain agree whatever was appended or edited before the
\* call: what it kept of an earlier walk is used only for the file that has it.
THEOREM StatusTellsChain == Spec => []StatusAgrees
<1>1. Spec => [](TypeOK /\ StatusInv)
  BY TypeInit, TypeStep, StatusInit, StatusStep, PTL DEF Spec
<1>2. TypeOK /\ StatusInv => StatusAgrees
  <2> SUFFICES ASSUME TypeOK, StatusInv, status.at = "idle", edits = status.edits
               PROVE  IF status.ok
                      THEN /\ status.length <= Len(file)
                           /\ Chains(SubSeq(file, 1, status.length))
                      ELSE status.break < Len(file) /\ FirstBreak(file) = status.break
    BY DEF StatusAgrees
  <2>1. file \in Seq(Line) /\ Len(file) \in Nat /\ status \in StatusState
    BY DEF TypeOK, StatusState
  <2>2. CASE status.ok
    <3> DEFINE n == status.length
               s == SubSeq(file, 1, n)
    <3>1. /\ n \in Nat /\ n <= Len(file) /\ \A i \in 1..n : Intact(file, i)
      BY <2>1, <2>2 DEF StatusInv, Told, StatusState
    <3> HIDE DEF n
    <3>2. /\ s \in Seq(Line) /\ Len(s) = n /\ \A i \in 1..n : s[i] = file[i]
      <4>1. \A i \in 1..n : file[i] \in Line
        BY <2>1, <3>1
      <4>2. /\ s \in Seq(Line) /\ Len(s) = IF 1 <= n THEN n - 1 + 1 ELSE 0
            /\ \A i \in 1 .. n - 1 + 1 : s[i] = file[1 + i - 1]
        BY <3>1, <4>1, SubSeqProperties
      <4> QED BY <3>1, <4>2
    <3> HIDE DEF s
    <3>3. Begins(s, file)
      BY <3>1, <3>2 DEF Begins
    <3>4. Chains(s)
      BY <2>1, <3>1, <3>2, <3>3, IntactBegins DEF Chains
    <3> QED BY <2>2, <3>1, <3>4 DEF n, s
  <2>3. CASE ~status.ok
    <3>1. IsBreak(file, status.break)
      BY <2>3 DEF StatusInv, Told
    <3>2. status.break < Len(file)
      BY <2>1, <3>1 DEF IsBreak
    <3> QED BY <2>1, <2>3, <3>1, <3>2, BreakUnique
  <2> QED BY <2>2, <2>3
<1> QED BY <1>1, <1>2, PTL
=============================================================================
