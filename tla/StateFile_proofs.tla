-------------------------- MODULE StateFile_proofs ---------------------------
(***************************************************************************)
(* What becomes of the files that StateFile's saves change, for any number *)
(* of processes: first of any such file, then of the grants, the failure   *)
(* ledger and the undo buffer.  While saves do not overlap at most one of  *)
(* them is in progress, and the temporary file is its own (SoloInv): so    *)
(* the file is whole, and a save leads from what the file held to what was *)
(* to be written and to nothing else (Advance).                            *)
(***************************************************************************)
EXTENDS GrantFile, FiniteSetTheorems, SequenceTheorems, WellFoundedInduction, TLAPS

CONSTANTS Task, Signature, MaxIdentical, MaxRuns, Path, Text, MaxUndo, MaxWrites

VARIABLES runs, project, written, broken

Ledger == INSTANCE FailureLedger
Undo == INSTANCE UndoBuffer

-----------------------------------------------------------------------------
(* Any file: what is written is of D, and so is what will be; the calls are *)
(* of C                                                                     *)

NodeText(D) == [text: {"part", "whole", "torn"}, data: D \cup {None}]

Op(D, C) == [at: {"idle", "save", "open", "written", "saved", "opened", "done"},
             call: C \cup {None}, data: D \cup {None}, node: Node \cup {None}]

DiskTypes(D) ==
    /\ disk \in [Node -> NodeText(D)]
    /\ \A n \in Node : disk[n].text # "part" => disk[n].data \in D
    /\ real \in Node \cup {None} /\ tmp \in Node \cup {None}

OpTypes(D, C) ==
    /\ op \in [Client -> Op(D, C)]
    /\ \A c \in Client : op[c].at # "idle" => op[c].call \in C /\ op[c].data \in D
    /\ \A c \in Client : op[c].at = "open" => op[c].node \in Node

FileTypes(D, C) == DiskTypes(D) /\ OpTypes(D, C) /\ mishap \subseteq {"overlap", "death"}

\* Some node is free: the file has one, the temporary file, and every save.
LEMMA UnusedExists ==
    ASSUME FileAssumption, NEW c \in Client
    PROVE  /\ Unused \in Node
           /\ Unused \notin {real, tmp}
           /\ \A d \in Client : op[d].node # Unused
<1> DEFINE taken == {op[d].node : d \in Client}
           all == taken \cup {real, tmp}
<1>1. IsFiniteSet(Client) /\ Cardinality(Client) \in Nat
  BY FS_CardinalityType DEF FileAssumption
<1>2. IsFiniteSet(taken) /\ Cardinality(taken) <= Cardinality(Client)
      /\ Cardinality(taken) \in Nat
  <2> DEFINE f == [d \in Client |-> op[d].node]
  <2>1. taken = {f[d] : d \in Client}
    OBVIOUS
  <2>2. f \in [Client -> taken]
    OBVIOUS
  <2>3. \A n \in taken : \E d \in Client : f[d] = n
    OBVIOUS
  <2>4. f \in Surjection(Client, taken)
    BY <2>2, <2>3 DEF Surjection
  <2> QED BY <1>1, <2>4, FS_Surjection, FS_CardinalityType
<1>3. IsFiniteSet({real, tmp}) /\ Cardinality({real, tmp}) <= 2 /\ Cardinality({real, tmp}) \in Nat
  <2>1. IsFiniteSet({real}) /\ Cardinality({real}) = 1
    BY FS_Singleton
  <2>2. {real, tmp} = {real} \cup {tmp}
    OBVIOUS
  <2>3. /\ IsFiniteSet({real} \cup {tmp})
        /\ Cardinality({real} \cup {tmp}) = IF tmp \in {real} THEN Cardinality({real})
                                                              ELSE Cardinality({real}) + 1
    BY <2>1, FS_AddElement
  <2> QED BY <2>1, <2>2, <2>3
<1>4. IsFiniteSet(all) /\ Cardinality(all) <= Cardinality(Client) + 2
      /\ Cardinality(all) \in Nat
  <2>1. /\ IsFiniteSet(all)
        /\ Cardinality(all) = Cardinality(taken) + Cardinality({real, tmp})
                                - Cardinality(taken \cap {real, tmp})
    BY <1>2, <1>3, FS_Union
  <2>2. Cardinality(taken \cap {real, tmp}) \in Nat
    BY <1>2, FS_Intersection, FS_CardinalityType
  <2>3. Cardinality(all) \in Nat
    BY <2>1, FS_CardinalityType
  <2> QED BY <1>1, <1>2, <1>3, <2>1, <2>2, <2>3
<1>5. Cardinality(Client) > 0
  BY <1>1, FS_EmptySet
<1>6. IsFiniteSet(Node) /\ Cardinality(Node) = 2 * Cardinality(Client) + 2
  <2> DEFINE m == 2 * Cardinality(Client) + 2
  <2>1. m \in Int /\ 1 \in Int /\ m >= 1 /\ m - 1 + 1 = m
    BY <1>1
  <2>2. Node = 1..m
    BY DEF Node
  <2> HIDE DEF m
  <2>3. IsFiniteSet(1..m) /\ Cardinality(1..m) = m
    BY <2>1, FS_Interval
  <2> QED BY <2>2, <2>3 DEF m
<1>7. ~(Node \subseteq all)
  <2>1. ASSUME Node \subseteq all PROVE FALSE
    <3>1. Cardinality(Node) <= Cardinality(all)
      BY <1>4, <2>1, FS_Subset
    <3> QED BY <1>1, <1>4, <1>5, <1>6, <3>1
  <2> QED BY <2>1
<1>8. \E n \in Node : n \notin {real, tmp} /\ \A d \in Client : op[d].node # n
  BY <1>7
<1> QED BY <1>8 DEF Unused

LEMMA FileBegins ==
    ASSUME FileInit, NEW D, NEW C
    PROVE  FileTypes(D, C)
<1>1. DiskTypes(D)
  BY DEF FileInit, DiskTypes, NodeText, Blank
<1>2. OpTypes(D, C)
  BY DEF FileInit, OpTypes, Op, Idle
<1> QED BY <1>1, <1>2 DEF FileTypes, FileInit

\* What is loaded is of D.
LEMMA ContentsType ==
    ASSUME NEW D, NEW C, FileTypes(D, C), NEW nothing \in D
    PROVE  Contents(nothing) \in D
BY DEF FileTypes, DiskTypes, Contents

\* What may be written may grow, and the file need not know.
LEMMA FileGrows ==
    ASSUME NEW D, NEW C, NEW E, NEW F, FileTypes(D, C), D \subseteq E, C \subseteq F
    PROVE  FileTypes(E, F)
<1>1. NodeText(D) \subseteq NodeText(E) /\ Op(D, C) \subseteq Op(E, F)
  BY DEF NodeText, Op
<1>2. DiskTypes(E)
  BY <1>1 DEF FileTypes, DiskTypes
<1>3. OpTypes(E, F)
  BY <1>1 DEF FileTypes, OpTypes
<1> QED BY <1>2, <1>3 DEF FileTypes

LEMMA FileStays ==
    ASSUME NEW D, NEW C, FileTypes(D, C), UNCHANGED filevars
    PROVE  FileTypes(D, C)'
BY DEF FileTypes, DiskTypes, OpTypes, filevars

\* A call of C that becomes busy with something of D.
LEMMA FileCall ==
    ASSUME NEW D, NEW C, FileTypes(D, C), NEW c \in Client, NEW call \in C, NEW data \in D,
           BeginSave(c, call, data)
    PROVE  FileTypes(D, C)'
<1> DEFINE k == [at |-> "save", call |-> call, data |-> data, node |-> None]
<1>1. UNCHANGED <<disk, real, tmp>> /\ op' = [op EXCEPT ![c] = k]
      /\ mishap' \subseteq {"overlap", "death"}
  BY DEF BeginSave, Load, FileTypes
<1>2. DiskTypes(D)'
  BY <1>1 DEF FileTypes, DiskTypes
<1>3. k \in Op(D, C)
  BY DEF Op
<1>4. OpTypes(D, C)'
  BY <1>1, <1>3 DEF FileTypes, OpTypes
<1> QED BY <1>1, <1>2, <1>4 DEF FileTypes

\* One call goes on to k, and the disk stays typed.
LEMMA OneOp ==
    ASSUME NEW D, NEW C, OpTypes(D, C), NEW c \in Client, NEW k \in Op(D, C),
           op' = [op EXCEPT ![c] = k], k.at # "idle" => k.call \in C /\ k.data \in D,
           k.at = "open" => k.node \in Node
    PROVE  OpTypes(D, C)'
BY DEF OpTypes

LEMMA FileStep ==
    ASSUME FileAssumption, NEW D, NEW C, FileTypes(D, C), NEW c \in Client,
           SaveStep(c) \/ ReplaceFails(c) \/ Return(c) \/ Die(c)
    PROVE  FileTypes(D, C)'
<1>3. /\ disk \in [Node -> NodeText(D)] /\ op \in [Client -> Op(D, C)]
      /\ \A n \in Node : disk[n].text # "part" => disk[n].data \in D
      /\ op[c] \in Op(D, C)
      /\ op[c].at # "idle" => op[c].call \in C /\ op[c].data \in D
      /\ op[c].at = "open" => op[c].node \in Node
      /\ real \in Node \cup {None} /\ tmp \in Node \cup {None}
      /\ OpTypes(D, C)
  BY DEF FileTypes, DiskTypes, OpTypes
<1>4. Idle \in Op(D, C) /\ Blank \in NodeText(D)
  BY DEF Idle, Op, Blank, NodeText
<1>6. CASE OpenTmp(c)
  <2> DEFINE n == IF tmp = None THEN Unused ELSE tmp
             k == [op[c] EXCEPT !.at = "open", !.node = n]
  <2>1. n \in Node
    BY <1>3, UnusedExists
  <2>2. tmp' = n /\ disk' = [disk EXCEPT ![n] = Blank] /\ UNCHANGED <<real, mishap>>
        /\ op[c].at = "save"
    BY <1>6 DEF OpenTmp
  <2>3. op' = [op EXCEPT ![c] = k]
    BY <1>3, <1>6 DEF OpenTmp, Op
  <2> HIDE DEF n
  <2>4. k \in Op(D, C) /\ k.at = "open" /\ k.call = op[c].call /\ k.data = op[c].data
        /\ k.node = n
    BY <1>3, <2>1 DEF Op
  <2> HIDE DEF k
  <2>5. OpTypes(D, C)'
    BY <1>3, <2>1, <2>2, <2>3, <2>4, OneOp
  <2>6. DiskTypes(D)'
    BY <1>3, <1>4, <2>1, <2>2 DEF DiskTypes, Blank
  <2> QED BY <2>2, <2>5, <2>6 DEF FileTypes
<1>7. CASE WriteTmp(c)
  <2> DEFINE n == op[c].node
             k == [op[c] EXCEPT !.at = "written"]
  <2>1. op[c].at = "open" /\ UNCHANGED <<real, tmp, mishap>>
    BY <1>7 DEF WriteTmp
  <2>2. n \in Node
    BY <1>3, <2>1
  <2>3. op' = [op EXCEPT ![c] = k]
    BY <1>3, <1>7 DEF WriteTmp, Op
  <2>4. k \in Op(D, C) /\ k.at = "written" /\ k.call = op[c].call /\ k.data = op[c].data
    BY <1>3 DEF Op
  <2> HIDE DEF k
  <2>5. OpTypes(D, C)'
    BY <1>3, <2>1, <2>3, <2>4, OneOp
  <2>6. PICK text \in {"whole", "torn"} :
           disk' = [disk EXCEPT ![n] = [text |-> text, data |-> op[c].data]]
    BY <1>7 DEF WriteTmp
  <2>7. op[c].data \in D
    BY <1>3, <2>1
  <2>8. [text |-> text, data |-> op[c].data] \in NodeText(D)
    BY <2>7 DEF NodeText
  <2> HIDE DEF n
  <2>9. DiskTypes(D)'
    BY <1>3, <2>1, <2>2, <2>6, <2>7, <2>8 DEF DiskTypes
  <2> QED BY <2>1, <2>5, <2>9 DEF FileTypes
<1>8. CASE ReplaceFile(c)
  <2> DEFINE k == [op[c] EXCEPT !.at = "saved", !.node = None]
  <2>1. op[c].at = "written" /\ real' = tmp /\ tmp' = None /\ UNCHANGED mishap
        /\ disk' = [n \in Node |-> IF n = real THEN Blank ELSE disk[n]]
    BY <1>8 DEF ReplaceFile
  <2>2. op' = [op EXCEPT ![c] = k]
    BY <1>3, <1>8 DEF ReplaceFile, Op
  <2>3. k \in Op(D, C) /\ k.at = "saved" /\ k.call = op[c].call /\ k.data = op[c].data
    BY <1>3 DEF Op
  <2> HIDE DEF k
  <2>4. OpTypes(D, C)'
    BY <1>3, <2>1, <2>2, <2>3, OneOp
  <2>5. DiskTypes(D)'
    BY <1>3, <1>4, <2>1 DEF DiskTypes, Blank
  <2> QED BY <2>1, <2>4, <2>5 DEF FileTypes
<1>9. CASE ReplaceFails(c) \/ Return(c) \/ Die(c)
  <2>1. UNCHANGED <<disk, real, tmp>> /\ op' = [op EXCEPT ![c] = Idle]
        /\ mishap' \subseteq {"overlap", "death"}
    BY <1>9 DEF ReplaceFails, Return, Die, FileTypes
  <2>2. OpTypes(D, C)'
    BY <1>3, <1>4, <2>1, OneOp DEF Idle
  <2>3. DiskTypes(D)'
    BY <1>3, <2>1 DEF DiskTypes
  <2> QED BY <2>1, <2>2, <2>3 DEF FileTypes
<1> QED BY <1>6, <1>7, <1>8, <1>9 DEF SaveStep

-----------------------------------------------------------------------------
(* One save at a time *)

Busy(c) == op[c].at # "idle"

\* The temporary file is that of the save in progress, or nobody's, and never
\* the file itself; what was saved is in the file until the call is over.
SoloInv ==
    /\ \A c, d \in Client : Busy(c) /\ Busy(d) => c = d
    /\ tmp # None => tmp # real
    /\ real # None => disk[real].text = "whole"
    /\ \A c \in Client : op[c].at \in {"open", "written"} => tmp # None /\ op[c].node = tmp
    /\ \A c \in Client : op[c].at = "open" => disk[tmp].text = "part"
    /\ \A c \in Client : op[c].at = "written" =>
          disk[tmp].text = "whole" /\ disk[tmp].data = op[c].data
    /\ \A c \in Client : op[c].at \in {"saved", "opened", "done"} =>
          real # None /\ disk[real].data = op[c].data

\* The file then holds what was saved.
LEMMA SavedContents ==
    ASSUME SoloInv, NEW c \in Client, op[c].at \in {"saved", "opened", "done"}, NEW nothing
    PROVE  Contents(nothing) = op[c].data
BY DEF SoloInv, Contents

LEMMA SoloBegins ==
    ASSUME FileInit
    PROVE  SoloInv /\ AllIdle /\ \A nothing : Contents(nothing) = nothing
BY DEF FileInit, SoloInv, Busy, AllIdle, Idle, Contents

\* Nothing of the file moves.
LEMMA SoloStays ==
    ASSUME UNCHANGED filevars, NEW nothing
    PROVE  Contents(nothing)' = Contents(nothing) /\ (SoloInv <=> SoloInv')
BY DEF filevars, SoloInv, Busy, Contents

\* A call that begins alone finds the file whole and nobody at work.
LEMMA BeginSolo ==
    ASSUME NEW D, NEW C, FileTypes(D, C), SoloInv, NEW c \in Client, NEW call, NEW data,
           BeginSave(c, call, data), "overlap" \notin mishap', NEW nothing
    PROVE  /\ AllIdle /\ Contents(nothing)' = Contents(nothing) /\ mishap' = mishap
           /\ SoloInv' /\ \A d \in Client : op'[d].at # "idle" => d = c
           /\ op'[c].at = "save" /\ op'[c].call = call /\ op'[c].data = data
<1>1. AllIdle /\ mishap' = mishap /\ UNCHANGED <<disk, real, tmp>>
  BY DEF BeginSave, Load, AllIdle
<1>2. op' = [op EXCEPT ![c] = [at |-> "save", call |-> call, data |-> data, node |-> None]]
      /\ op \in [Client -> Op(D, C)]
  BY DEF BeginSave, FileTypes, OpTypes
<1>3. Contents(nothing)' = Contents(nothing)
  BY <1>1 DEF Contents
<1>4. \A d \in Client : /\ d # c => op'[d].at = "idle"
                        /\ d = c => op'[d].at = "save" /\ op'[d].call = call /\ op'[d].data = data
  BY <1>1, <1>2 DEF AllIdle
<1>5. SoloInv'
  BY <1>1, <1>4 DEF SoloInv, Busy
<1> QED BY <1>1, <1>3, <1>4, <1>5

\* What a step of a save in progress does: the call goes on with the same data,
\* which are in the file once they are saved, or it ends and the file stays.
Advance(c, nothing) ==
    /\ Busy(c)
    /\ \A d \in Client : d # c => op'[d] = op[d] /\ op[d].at = "idle"
    /\ \/ /\ op[c].at \in {"save", "open", "written"} /\ op'[c].at \in {"open", "written", "saved"}
          /\ op'[c].call = op[c].call /\ op'[c].data = op[c].data /\ mishap' = mishap
          /\ Contents(nothing)' = IF op'[c].at = "saved" THEN op[c].data ELSE Contents(nothing)
       \/ op'[c].at = "idle" /\ Contents(nothing)' = Contents(nothing) /\ "death" \in mishap'

LEMMA SaveSolo ==
    ASSUME FileAssumption, NEW D, NEW C, FileTypes(D, C), SoloInv, NEW nothing, NEW c \in Client,
           SaveStep(c) \/ ReplaceFails(c) \/ Die(c)
    PROVE  SoloInv' /\ Advance(c, nothing)
<1>1. /\ disk \in [Node -> NodeText(D)] /\ op \in [Client -> Op(D, C)]
      /\ real \in Node \cup {None} /\ tmp \in Node \cup {None} /\ None \notin Node
  BY DEF FileTypes, DiskTypes, OpTypes, FileAssumption
<1>2. ASSUME Busy(c) PROVE \A d \in Client : d # c => op[d].at = "idle"
  BY <1>2 DEF SoloInv, Busy
<1>3. CASE OpenTmp(c)
  <2> DEFINE n == IF tmp = None THEN Unused ELSE tmp
  <2>1. n \in Node /\ n # real
    BY <1>1, UnusedExists DEF SoloInv
  <2>2. tmp' = n /\ disk' = [disk EXCEPT ![n] = Blank] /\ UNCHANGED <<real, mishap>>
        /\ op[c].at = "save"
    BY <1>3 DEF OpenTmp
  <2>3. op' = [op EXCEPT ![c] = [op[c] EXCEPT !.at = "open", !.node = n]]
    BY <1>1, <1>3 DEF OpenTmp, Op
  <2> HIDE DEF n
  <2>4. \A d \in Client : d # c => op'[d] = op[d] /\ op[d].at = "idle"
    BY <1>1, <1>2, <2>2, <2>3 DEF Busy
  <2>5. op'[c].at = "open" /\ op'[c].node = n /\ op'[c].call = op[c].call
        /\ op'[c].data = op[c].data
    BY <1>1, <2>3 DEF Op
  <2>6. /\ real # None => disk'[real] = disk[real]
        /\ disk'[n].text = "part"
    BY <1>1, <2>1, <2>2 DEF Blank
  <2>7. Contents(nothing)' = Contents(nothing)
    BY <2>2, <2>6 DEF Contents
  <2>8. SoloInv'
    BY <1>1, <2>1, <2>2, <2>4, <2>5, <2>6 DEF SoloInv, Busy
  <2> QED BY <2>2, <2>4, <2>5, <2>7, <2>8 DEF Advance, Busy
<1>4. CASE WriteTmp(c)
  <2>1. op[c].at = "open" /\ UNCHANGED <<real, tmp, mishap>>
    BY <1>4 DEF WriteTmp
  <2>2. op[c].node = tmp /\ tmp # None /\ tmp # real /\ tmp \in Node /\ disk[tmp].text = "part"
    BY <1>1, <2>1 DEF SoloInv
  <2>3. disk' = [disk EXCEPT ![tmp] = [text |-> "whole", data |-> op[c].data]]
    BY <1>4, <2>2 DEF WriteTmp
  <2>4. op' = [op EXCEPT ![c] = [op[c] EXCEPT !.at = "written"]]
    BY <1>1, <1>4 DEF WriteTmp, Op
  <2>5. \A d \in Client : d # c => op'[d] = op[d] /\ op[d].at = "idle"
    BY <1>1, <1>2, <2>1, <2>4 DEF Busy
  <2>6. op'[c].at = "written" /\ op'[c].node = tmp /\ op'[c].call = op[c].call
        /\ op'[c].data = op[c].data
    BY <1>1, <2>2, <2>4 DEF Op
  <2>7. /\ real # None => disk'[real] = disk[real]
        /\ disk'[tmp].text = "whole" /\ disk'[tmp].data = op[c].data
    BY <1>1, <2>2, <2>3
  <2>8. Contents(nothing)' = Contents(nothing)
    BY <2>1, <2>7 DEF Contents
  <2>9. SoloInv'
    BY <2>1, <2>2, <2>5, <2>6, <2>7 DEF SoloInv, Busy
  <2> QED BY <2>1, <2>5, <2>6, <2>8, <2>9 DEF Advance, Busy
<1>5. CASE ReplaceFile(c)
  <2>1. op[c].at = "written" /\ real' = tmp /\ tmp' = None /\ tmp # None /\ UNCHANGED mishap
        /\ disk' = [n \in Node |-> IF n = real THEN Blank ELSE disk[n]]
    BY <1>5 DEF ReplaceFile
  <2>2. tmp # real /\ tmp \in Node /\ disk[tmp].text = "whole" /\ disk[tmp].data = op[c].data
    BY <1>1, <2>1 DEF SoloInv
  <2>3. op' = [op EXCEPT ![c] = [op[c] EXCEPT !.at = "saved", !.node = None]]
    BY <1>1, <1>5 DEF ReplaceFile, Op
  <2>4. \A d \in Client : d # c => op'[d] = op[d] /\ op[d].at = "idle"
    BY <1>1, <1>2, <2>1, <2>3 DEF Busy
  <2>5. op'[c].at = "saved" /\ op'[c].call = op[c].call /\ op'[c].data = op[c].data
    BY <1>1, <2>3 DEF Op
  <2>6. disk'[tmp] = disk[tmp]
    BY <1>1, <2>1, <2>2
  <2>7. Contents(nothing)' = op[c].data
    BY <2>1, <2>2, <2>6 DEF Contents
  <2>8. SoloInv'
    BY <2>1, <2>2, <2>4, <2>5, <2>6, <2>7 DEF SoloInv, Busy
  <2> QED BY <2>1, <2>4, <2>5, <2>7, <2>8 DEF Advance, Busy
<1>6. CASE ReplaceFails(c)
  BY <1>6 DEF ReplaceFails, SoloInv
<1>7. CASE Die(c)
  <2>1. UNCHANGED <<disk, real, tmp>> /\ op' = [op EXCEPT ![c] = Idle]
        /\ "death" \in mishap' /\ Busy(c)
    BY <1>7 DEF Die, Busy
  <2>2. \A d \in Client : /\ d # c => op'[d] = op[d] /\ op[d].at = "idle"
                          /\ d = c => op'[d].at = "idle"
    BY <1>1, <1>2, <2>1 DEF Idle
  <2>3. Contents(nothing)' = Contents(nothing)
    BY <2>1 DEF Contents
  <2>4. SoloInv'
    BY <2>1, <2>2 DEF SoloInv, Busy
  <2> QED BY <2>1, <2>2, <2>3, <2>4 DEF Advance, Busy
<1> QED BY <1>3, <1>4, <1>5, <1>6, <1>7 DEF SaveStep

-----------------------------------------------------------------------------
(* The grants *)

GrantData == [Scope -> 0..issued]
GrantCall == [do: {"grant", "revoke"}, grant: 1..issued]

\* What the history counts.
HistoryTypes ==
    /\ issued \in 0..MaxGrants
    /\ expired \subseteq 1..issued
    /\ used \in Seq(1..issued)
    /\ meant \in GrantData

TypeInv == HistoryTypes /\ FileTypes(GrantData, GrantCall)

LEMMA TypeBegins ==
    ASSUME GrantAssumption, Init
    PROVE  TypeInv
<1>1. HistoryTypes
  BY DEF Init, GrantAssumption, HistoryTypes, GrantData, NoGrants, NoGrant
<1>2. FileTypes(GrantData, GrantCall)
  BY FileBegins DEF Init
<1> QED BY <1>1, <1>2 DEF TypeInv

\* What is loaded is a set of grants.
LEMMA GrantsType ==
    ASSUME TypeInv
    PROVE  Grants \in GrantData
<1>1. NoGrants \in GrantData
  BY DEF TypeInv, HistoryTypes, GrantData, NoGrants, NoGrant
<1> QED BY <1>1, ContentsType DEF TypeInv, Grants

\* A call that becomes busy with a change of the grants.
LEMMA BeginTypes ==
    ASSUME GrantAssumption, TypeInv, NEW c \in Client, NEW call, NEW data,
           BeginSave(c, call, data), HistoryTypes', issued' >= issued,
           call \in GrantCall', data \in GrantData'
    PROVE  TypeInv'
<1>1. PICK D, C : D = GrantData' /\ C = GrantCall'
  OBVIOUS
<1>2. GrantData \subseteq D /\ GrantCall \subseteq C
  BY <1>1 DEF TypeInv, HistoryTypes, GrantAssumption, GrantData, GrantCall
<1>3. FileTypes(D, C)
  BY <1>2, FileGrows DEF TypeInv
<1>4. FileTypes(D, C)'
  BY <1>1, <1>3, FileCall
<1> QED BY <1>1, <1>4 DEF TypeInv, FileTypes, DiskTypes, OpTypes, NodeText, Op

LEMMA GrantTypes ==
    ASSUME GrantAssumption, TypeInv, NEW c \in Client, NEW s \in Scope, GrantJitPermission(c, s)
    PROVE  TypeInv'
<1>1. /\ issued \in Nat /\ MaxGrants \in Nat /\ issued < MaxGrants
      /\ issued' = issued + 1 /\ meant \in GrantData
      /\ expired' = expired /\ used' = used /\ expired \subseteq 1..issued
      /\ used \in Seq(1..issued)
  BY DEF TypeInv, HistoryTypes, GrantAssumption, GrantJitPermission
<1> DEFINE g == issued + 1
<1>2. g \in 1..issued' /\ g \in 0..issued' /\ 0..issued \subseteq 0..issued'
      /\ 1..issued \subseteq 1..issued' /\ issued' >= issued /\ issued' \in 0..MaxGrants
  BY <1>1
<1>3. Grants \in GrantData
  BY GrantsType
<1>4. /\ BeginSave(c, [do |-> "grant", grant |-> g], [Grants EXCEPT ![s] = g])
      /\ meant' = [meant EXCEPT ![s] = g]
  BY DEF GrantJitPermission
<1> HIDE DEF g
<1>5. [Grants EXCEPT ![s] = g] \in GrantData' /\ meant' \in GrantData'
  BY <1>1, <1>2, <1>3, <1>4 DEF GrantData
<1>6. used' \in Seq(1..issued')
  <2>1. \A i \in 1..Len(used) : used[i] \in 1..issued'
    BY <1>1, <1>2
  <2> QED BY <1>1, <2>1
<1>7. HistoryTypes'
  BY <1>1, <1>2, <1>5, <1>6 DEF HistoryTypes
<1>8. [do |-> "grant", grant |-> g] \in GrantCall'
  BY <1>2 DEF GrantCall
<1> QED BY <1>2, <1>4, <1>5, <1>7, <1>8, BeginTypes

LEMMA RevokeTypes ==
    ASSUME GrantAssumption, TypeInv, NEW c \in Client, NEW s \in Scope, RevokeJitGrant(c, s)
    PROVE  TypeInv'
<1>1. /\ issued \in Nat /\ UNCHANGED <<issued, expired, used>> /\ meant \in GrantData
      /\ meant' = [meant EXCEPT ![s] = NoGrant]
  BY DEF TypeInv, HistoryTypes, GrantAssumption, RevokeJitGrant
<1>2. Grants \in GrantData /\ Grants[s] # NoGrant
  BY GrantsType DEF RevokeJitGrant
<1> DEFINE held == Grants
<1> HIDE DEF held
<1>2a. held \in GrantData /\ held[s] # NoGrant /\ Revoked(s) = [held EXCEPT ![s] = NoGrant]
       /\ Grants = held
  BY <1>2 DEF held, Revoked
<1>3. Grants[s] \in 1..issued /\ Revoked(s) \in GrantData' /\ meant' \in GrantData'
  BY <1>1, <1>2a DEF GrantData, NoGrant
<1>4. HistoryTypes'
  BY <1>1, <1>3 DEF TypeInv, HistoryTypes
<1>5. [do |-> "revoke", grant |-> Grants[s]] \in GrantCall'
  BY <1>1, <1>3 DEF GrantCall
<1>6. issued' >= issued
  BY <1>1
<1> QED BY <1>3, <1>4, <1>5, <1>6, BeginTypes DEF RevokeJitGrant

\* A step of a save, or a return, that leaves what is granted alone.
LEMMA SaveTypes ==
    ASSUME GrantAssumption, TypeInv, NEW c \in Client,
           SaveStep(c) \/ ReplaceFails(c) \/ Return(c) \/ Die(c), HistoryTypes', issued' = issued
    PROVE  TypeInv'
<1>1. PICK D, C : D = GrantData /\ C = GrantCall
  OBVIOUS
<1>2. D = GrantData' /\ C = GrantCall'
  BY <1>1 DEF GrantData, GrantCall
<1>3. FileTypes(D, C)'
  BY <1>1, FileStep DEF TypeInv, GrantAssumption
<1> QED BY <1>2, <1>3 DEF TypeInv, FileTypes, DiskTypes, OpTypes, NodeText, Op

LEMMA QuietTypes ==
    ASSUME TypeInv, UNCHANGED filevars, HistoryTypes', issued' = issued
    PROVE  TypeInv'
<1>1. PICK D, C : D = GrantData /\ C = GrantCall
  OBVIOUS
<1>2. D = GrantData' /\ C = GrantCall'
  BY <1>1 DEF GrantData, GrantCall
<1>3. FileTypes(D, C)'
  BY <1>1, FileStays DEF TypeInv
<1> QED BY <1>2, <1>3 DEF TypeInv, FileTypes, DiskTypes, OpTypes, NodeText, Op

\* A call returns.
LEMMA ReturnTypes ==
    ASSUME GrantAssumption, TypeInv, NEW c \in Client, ReturnGrant(c)
    PROVE  TypeInv'
<1>1. UNCHANGED <<issued, meant, expired>> /\ Return(c) /\ op[c].at = "saved"
  BY DEF ReturnGrant, Return
<1>2. op[c].call.grant \in 1..issued
  BY <1>1 DEF TypeInv, FileTypes, OpTypes, GrantCall
<1>3. used' \in Seq(1..issued)
  <2> DEFINE g == op[c].call.grant
             S == 1..issued
  <2>1. used \in Seq(S) /\ g \in S
    BY <1>2 DEF TypeInv, HistoryTypes
  <2>2. used' = Append(used, g) \/ used' = used
    BY DEF ReturnGrant
  <2> HIDE DEF g, S
  <2>3. used' \in Seq(S)
    BY <2>1, <2>2, AppendProperties
  <2> QED BY <2>3 DEF S
<1>4. HistoryTypes'
  BY <1>1, <1>3 DEF TypeInv, HistoryTypes, GrantData
<1> QED BY <1>1, <1>4, SaveTypes

\* A set of grants in which no grant is there twice, and none that was used.
Apart(held) ==
    /\ \A s, t \in Scope : held[s] = held[t] /\ held[s] # NoGrant => s = t
    /\ \A s \in Scope : \A i \in DOMAIN used : held[s] # used[i]

\* What was used is out of the file and of what is about to be written, and so
\* is what is about to be answered.
SpentInv ==
    /\ \A i, j \in DOMAIN used : used[i] = used[j] => i = j
    /\ Apart(Grants)
    /\ \A c \in Client : Busy(c) => Apart(op[c].data)
    /\ \A c \in Client : Busy(c) /\ op[c].call.do = "revoke" =>
          /\ \A s \in Scope : op[c].data[s] # op[c].call.grant
          /\ \A i \in DOMAIN used : used[i] # op[c].call.grant

\* Nothing went wrong: the file holds what the calls meant, or the save in
\* progress does.
MeantInv ==
    /\ AllIdle => Grants = meant
    /\ \A c \in Client : Busy(c) => op[c].data = meant

KeptInv ==
    /\ TypeInv
    /\ "overlap" \notin mishap => SoloInv /\ SpentInv
    /\ mishap = {} => MeantInv

LEMMA KeptBegins ==
    ASSUME GrantAssumption, Init
    PROVE  KeptInv
<1>1. TypeInv
  BY TypeBegins
<1>2. FileInit /\ used = <<>> /\ meant = NoGrants
  BY DEF Init
<1>3. Grants = NoGrants /\ SoloInv /\ \A c \in Client : op[c].at = "idle"
  BY <1>2, SoloBegins DEF Grants, AllIdle
<1>4. SpentInv
  BY <1>2, <1>3 DEF SpentInv, Apart, Busy, NoGrants, NoGrant
<1>5. MeantInv
  BY <1>2, <1>3 DEF MeantInv, Busy
<1> QED BY <1>1, <1>3, <1>4, <1>5 DEF KeptInv

\* BeginSolo and SaveSolo, said of the grants.
LEMMA GrantsSolo ==
    ASSUME TypeInv, SoloInv, NEW c \in Client, NEW call, NEW data,
           BeginSave(c, call, data), "overlap" \notin mishap'
    PROVE  /\ AllIdle /\ Grants' = Grants /\ mishap' = mishap
           /\ SoloInv' /\ \A d \in Client : Busy(d)' => d = c
           /\ op'[c].call = call /\ op'[c].data = data
BY BeginSolo DEF TypeInv, Grants, Busy

LEMMA GrantsAdvance ==
    ASSUME GrantAssumption, TypeInv, SoloInv, NEW c \in Client,
           SaveStep(c) \/ ReplaceFails(c) \/ Die(c)
    PROVE  SoloInv' /\ Advance(c, NoGrants)
BY SaveSolo DEF TypeInv, GrantAssumption

LEMMA GrantKeeps ==
    ASSUME GrantAssumption, KeptInv, NEW c \in Client, NEW s \in Scope,
           GrantJitPermission(c, s)
    PROVE  KeptInv'
<1> DEFINE g == issued + 1
           data == [Grants EXCEPT ![s] = g]
<1>1. TypeInv'
  BY GrantTypes DEF KeptInv
<1>2. /\ BeginSave(c, [do |-> "grant", grant |-> g], data)
      /\ meant' = [meant EXCEPT ![s] = g] /\ used' = used
  BY DEF GrantJitPermission
<1>3. Grants \in GrantData /\ used \in Seq(1..issued) /\ issued \in Nat
  BY GrantsType DEF KeptInv, TypeInv, HistoryTypes, GrantAssumption
<1>4. /\ \A t \in Scope : Grants[t] # g
      /\ \A i \in DOMAIN used : used[i] # g
  BY <1>3 DEF GrantData
<1> HIDE DEF g
<1>5. ASSUME "overlap" \notin mishap'
      PROVE  SoloInv' /\ SpentInv' /\ (mishap' = {} => MeantInv')
  <2>1. "overlap" \notin mishap
    BY <1>2, <1>5 DEF BeginSave, Load
  <2>2. /\ AllIdle /\ Grants' = Grants /\ mishap' = mishap /\ SoloInv'
        /\ \A d \in Client : Busy(d)' => d = c
        /\ op'[c].call = [do |-> "grant", grant |-> g] /\ op'[c].data = data
    BY <1>2, <1>5, <2>1, GrantsSolo DEF KeptInv
  <2>3. SpentInv
    BY <2>1 DEF KeptInv
  <2>4. \A t \in Scope : data[t] = IF t = s THEN g ELSE Grants[t]
    BY <1>3 DEF GrantData
  <2>5. Apart(data)
    BY <1>4, <2>3, <2>4 DEF SpentInv, Apart
  <2> HIDE DEF data
  <2>6. SpentInv'
    BY <1>2, <2>2, <2>3, <2>5 DEF SpentInv, Apart
  <2>7. ASSUME mishap' = {} PROVE MeantInv'
    <3>1. Grants = meant
      BY <2>2, <2>7 DEF KeptInv, MeantInv
    <3>2. data = meant'
      BY <1>2, <3>1 DEF data
    <3>3. ~AllIdle'
      BY <1>2 DEF BeginSave, AllIdle, KeptInv, TypeInv, FileTypes, OpTypes
    <3> QED BY <2>2, <3>2, <3>3 DEF MeantInv
  <2> QED BY <2>2, <2>6, <2>7
<1> QED BY <1>1, <1>5 DEF KeptInv

LEMMA RevokeKeeps ==
    ASSUME GrantAssumption, KeptInv, NEW c \in Client, NEW s \in Scope, RevokeJitGrant(c, s)
    PROVE  KeptInv'
<1> DEFINE g == Grants[s]
           data == Revoked(s)
<1>1. TypeInv'
  BY RevokeTypes DEF KeptInv
<1>2. /\ BeginSave(c, [do |-> "revoke", grant |-> g], data)
      /\ meant' = [meant EXCEPT ![s] = NoGrant] /\ used' = used /\ g # NoGrant
  BY DEF RevokeJitGrant
<1>3. Grants \in GrantData
  BY GrantsType DEF KeptInv
<1>4. \A t \in Scope : data[t] = IF t = s THEN NoGrant ELSE Grants[t]
  BY <1>3 DEF GrantData, Revoked
<1> HIDE DEF data
<1>5. ASSUME "overlap" \notin mishap'
      PROVE  SoloInv' /\ SpentInv' /\ (mishap' = {} => MeantInv')
  <2>1. "overlap" \notin mishap
    BY <1>2, <1>5 DEF BeginSave, Load
  <2>2. /\ AllIdle /\ Grants' = Grants /\ mishap' = mishap /\ SoloInv'
        /\ \A d \in Client : Busy(d)' => d = c
        /\ op'[c].call = [do |-> "revoke", grant |-> g] /\ op'[c].data = data
    BY <1>2, <1>5, <2>1, GrantsSolo DEF KeptInv
  <2>3. SpentInv
    BY <2>1 DEF KeptInv
  <2>4. \A i \in DOMAIN used : used[i] \in 1..issued
    BY DEF KeptInv, TypeInv, HistoryTypes
  <2>5. \A i \in DOMAIN used : used[i] # NoGrant
    BY <2>4 DEF KeptInv, TypeInv, HistoryTypes, GrantAssumption, NoGrant
  <2>6. Apart(data)
    BY <1>4, <2>3, <2>5 DEF SpentInv, Apart
  <2>7. \A t \in Scope : data[t] # g
    BY <1>2, <1>4, <2>3 DEF SpentInv, Apart
  <2>8. \A i \in DOMAIN used : used[i] # g
    BY <2>3 DEF SpentInv, Apart
  <2> HIDE DEF g
  <2>9. SpentInv'
    BY <1>2, <2>2, <2>3, <2>6, <2>7, <2>8 DEF SpentInv, Apart
  <2>10. ASSUME mishap' = {} PROVE MeantInv'
    <3>1. Grants = meant
      BY <2>2, <2>10 DEF KeptInv, MeantInv
    <3>2. data = meant'
      BY <1>2, <3>1 DEF data, Revoked
    <3>3. ~AllIdle'
      BY <1>2 DEF BeginSave, AllIdle, KeptInv, TypeInv, FileTypes, OpTypes
    <3> QED BY <2>2, <3>2, <3>3 DEF MeantInv
  <2> QED BY <2>2, <2>9, <2>10
<1> QED BY <1>1, <1>5 DEF KeptInv

LEMMA SaveKeeps ==
    ASSUME GrantAssumption, KeptInv, NEW c \in Client,
           SaveStep(c) \/ ReplaceFails(c) \/ Die(c), UNCHANGED grantvars
    PROVE  KeptInv'
<1>1. TypeInv'
  <2>1. HistoryTypes' /\ issued' = issued
    BY DEF KeptInv, TypeInv, HistoryTypes, grantvars, GrantData
  <2> QED BY <2>1, SaveTypes DEF KeptInv
<1>2. ASSUME "overlap" \notin mishap'
      PROVE  SoloInv' /\ SpentInv' /\ (mishap' = {} => MeantInv')
  <2>1. "overlap" \notin mishap
    BY <1>2 DEF SaveStep, OpenTmp, WriteTmp, ReplaceFile, ReplaceFails, Die
  <2>2. SoloInv' /\ Advance(c, NoGrants)
    BY <2>1, GrantsAdvance DEF KeptInv
  <2>3. SpentInv /\ used' = used /\ meant' = meant
    BY <2>1 DEF KeptInv, grantvars
  <2>4. SpentInv'
    BY <2>2, <2>3 DEF SpentInv, Advance, Apart, Busy, Grants
  <2>5. ASSUME mishap' = {} PROVE MeantInv'
    <3>1. mishap = {} /\ Busy(c)' /\ op'[c].data = op[c].data
      BY <2>2, <2>5 DEF Advance, Busy
    <3>2. MeantInv
      BY <3>1 DEF KeptInv
    <3> QED BY <2>2, <2>3, <3>1, <3>2 DEF MeantInv, Advance, AllIdle, Busy, Grants
  <2> QED BY <2>2, <2>4, <2>5
<1> QED BY <1>1, <1>2 DEF KeptInv

LEMMA ReturnKeeps ==
    ASSUME GrantAssumption, KeptInv, NEW c \in Client, ReturnGrant(c)
    PROVE  KeptInv'
<1> DEFINE g == op[c].call.grant
<1>1. TypeInv'
  BY ReturnTypes DEF KeptInv
<1>2. /\ UNCHANGED <<disk, real, tmp, mishap, meant>> /\ op[c].at = "saved"
      /\ op' = [op EXCEPT ![c] = Idle]
      /\ used' = used \/ (used' = Append(used, g) /\ op[c].call.do = "revoke")
  BY DEF ReturnGrant, Return
<1>3. op \in [Client -> Op(GrantData, GrantCall)] /\ used \in Seq(1..issued) /\ g \in 1..issued
  BY <1>2 DEF KeptInv, TypeInv, FileTypes, HistoryTypes, OpTypes, GrantCall
<1> HIDE DEF g
<1>4. Grants' = Grants
  BY <1>2 DEF Grants, Contents
<1>5. ASSUME "overlap" \notin mishap'
      PROVE  SoloInv' /\ SpentInv' /\ (mishap' = {} => MeantInv')
  <2>1. SoloInv /\ SpentInv
    BY <1>2, <1>5 DEF KeptInv
  <2>2. \A d \in Client : op'[d].at = "idle"
    BY <1>2, <1>3, <2>1 DEF SoloInv, Busy, Idle
  <2>3. SoloInv'
    BY <1>2, <2>1, <2>2 DEF SoloInv, Busy
  <2>4. Grants = op[c].data
    BY <1>2, <2>1, SavedContents DEF Grants
  <2>5. ASSUME used' = used PROVE SpentInv'
    BY <1>4, <2>1, <2>2, <2>5 DEF SpentInv, Apart, Busy
  <2>6. ASSUME used' = Append(used, g), op[c].call.do = "revoke" PROVE SpentInv'
    <3>1. /\ \A s \in Scope : Grants[s] # g
          /\ \A i \in DOMAIN used : used[i] # g
      BY <1>2, <2>1, <2>4, <2>6 DEF SpentInv, Busy, g
    <3>2. \A i \in DOMAIN used' : \/ i \in DOMAIN used /\ used'[i] = used[i]
                                  \/ i = Len(used) + 1 /\ used'[i] = g
      BY <1>3, <2>6
    <3> QED BY <1>4, <2>1, <2>2, <3>1, <3>2 DEF SpentInv, Apart, Busy
  <2>7. ASSUME mishap' = {} PROVE MeantInv'
    <3>1. op[c].data = meant
      BY <1>2, <2>7 DEF KeptInv, MeantInv, Busy
    <3> QED BY <1>2, <1>4, <2>2, <2>4, <3>1 DEF MeantInv, Busy
  <2> QED BY <1>2, <2>3, <2>5, <2>6, <2>7
<1> QED BY <1>1, <1>5 DEF KeptInv

LEMMA KeptStep ==
    ASSUME GrantAssumption, KeptInv, [Next]_vars
    PROVE  KeptInv'
<1>1. ASSUME UNCHANGED <<filevars, meant, used>>, TypeInv' PROVE KeptInv'
  <2>1. Grants' = Grants /\ (SoloInv <=> SoloInv') /\ mishap' = mishap
    BY <1>1, SoloStays DEF Grants, filevars
  <2>2. UNCHANGED <<SpentInv, MeantInv>>
    BY <1>1, <2>1 DEF filevars, SpentInv, MeantInv, Apart, Busy, AllIdle
  <2> QED BY <1>1, <2>1, <2>2 DEF KeptInv
<1>2. CASE UNCHANGED vars
  <2>1. HistoryTypes' /\ issued' = issued /\ UNCHANGED filevars
    BY <1>2 DEF KeptInv, TypeInv, HistoryTypes, GrantData, vars, grantvars
  <2>2. TypeInv'
    BY <2>1, QuietTypes DEF KeptInv
  <2> QED BY <1>1, <1>2, <2>2 DEF vars, grantvars
<1>3. ASSUME NEW g \in 1..issued, Expire(g) PROVE KeptInv'
  <2>1. HistoryTypes' /\ issued' = issued /\ UNCHANGED <<filevars, meant, used>>
    BY <1>3 DEF Expire, KeptInv, TypeInv, HistoryTypes, GrantData
  <2>2. TypeInv'
    BY <2>1, QuietTypes DEF KeptInv
  <2> QED BY <1>1, <2>1, <2>2
<1> QED BY <1>2, <1>3, GrantKeeps, RevokeKeeps, ReturnKeeps, SaveKeeps DEF Next

\* What is typed is typed as FileTypeOK says.
LEMMA FileTyped ==
    ASSUME NEW D, NEW C, FileTypes(D, C)
    PROVE  FileTypeOK(D)
BY DEF FileTypes, DiskTypes, OpTypes, NodeText, Op, FileTypeOK

LEMMA KeptImplies ==
    ASSUME GrantAssumption, KeptInv
    PROVE  TypeOK /\ GrantsKept
<1>1. TypeOK
  <2>1. GrantData \subseteq [Scope -> 0..MaxGrants]
    BY DEF KeptInv, TypeInv, HistoryTypes, GrantAssumption, GrantData
  <2>2. FileTypes([Scope -> 0..MaxGrants], GrantCall)
    BY <2>1, FileGrows DEF KeptInv, TypeInv
  <2>3. FileTypeOK([Scope -> 0..MaxGrants])
    BY <2>2, FileTyped
  <2> QED BY <2>3 DEF KeptInv, TypeInv, HistoryTypes, GrantData, TypeOK
<1>2. GrantsKept
  BY DEF KeptInv, MeantInv, SoloInv, SpentInv, Apart, GrantsKept, WholeUnlessOverlap
<1> QED BY <1>1, <1>2

\* core/policy/jit.py: as long as calls do not overlap the file of the grants is
\* whole, and a grant is used once and stays out; if none dies either, the file
\* holds what the calls meant.  For any number of processes, scopes and grants.
THEOREM GrantsAreKept ==
    ASSUME GrantAssumption
    PROVE  Spec => [](TypeOK /\ GrantsKept)
<1>1. Init => KeptInv
  BY KeptBegins
<1>2. KeptInv /\ [Next]_vars => KeptInv'
  BY KeptStep
<1>3. KeptInv => TypeOK /\ GrantsKept
  BY KeptImplies
<1> QED BY <1>1, <1>2, <1>3, PTL DEF Spec

-----------------------------------------------------------------------------
(* The failure ledger: a ledger is fair if it counts no failure more often *)
(* than the task failed so, and exact if it counts those in a row          *)

\* What stands between the instance and this module.
LEMMA LedgerSame ==
    /\ Ledger!FileInit <=> FileInit
    /\ \A nothing : Ledger!Contents(nothing) = Contents(nothing)
    /\ \A c \in Client :
          /\ Ledger!Load(c) <=> Load(c)
          /\ \A call, data : Ledger!BeginSave(c, call, data) <=> BeginSave(c, call, data)
          /\ Ledger!SaveStep(c) <=> SaveStep(c)
          /\ Ledger!ReplaceFails(c) <=> ReplaceFails(c)
          /\ Ledger!Return(c) <=> Return(c)
          /\ Ledger!Die(c) <=> Die(c)
    /\ \A D : Ledger!FileTypeOK(D) <=> FileTypeOK(D)
    /\ Ledger!WholeUnlessOverlap <=> WholeUnlessOverlap
<1>1. \A S : Ledger!Cardinality(S) = Cardinality(S)
  BY DEF Ledger!Cardinality, Cardinality
<1>2. Ledger!Node = Node
  BY <1>1 DEF Ledger!Node, Node
<1>3. Ledger!Blank = Blank /\ Ledger!Idle = Idle /\ Ledger!Unused = Unused
  BY <1>2 DEF Ledger!Blank, Blank, Ledger!Idle, Idle, Ledger!Unused, Unused
<1>4. Ledger!FileInit <=> FileInit
  BY <1>2, <1>3 DEF Ledger!FileInit, FileInit
<1>5. \A nothing : Ledger!Contents(nothing) = Contents(nothing)
  BY DEF Ledger!Contents, Contents
<1>6. \A c \in Client : Ledger!Load(c) <=> Load(c)
  BY DEF Ledger!Load, Load
<1>7. \A c \in Client : \A call, data : Ledger!BeginSave(c, call, data) <=> BeginSave(c, call, data)
  BY <1>6 DEF Ledger!BeginSave, BeginSave
<1>8. ASSUME NEW c \in Client
      PROVE  /\ Ledger!OpenTmp(c) <=> OpenTmp(c)
             /\ Ledger!WriteTmp(c) <=> WriteTmp(c)
             /\ Ledger!ReplaceFile(c) <=> ReplaceFile(c)
             /\ Ledger!ReplaceFails(c) <=> ReplaceFails(c)
             /\ Ledger!Return(c) <=> Return(c)
             /\ Ledger!Die(c) <=> Die(c)
  <2>1. Ledger!OpenTmp(c) <=> OpenTmp(c)
    BY <1>3 DEF Ledger!OpenTmp, OpenTmp
  <2>2. Ledger!WriteTmp(c) <=> WriteTmp(c)
    BY DEF Ledger!WriteTmp, WriteTmp
  <2>3. Ledger!ReplaceFile(c) <=> ReplaceFile(c)
    BY <1>2, <1>3 DEF Ledger!ReplaceFile, ReplaceFile
  <2>4. Ledger!ReplaceFails(c) <=> ReplaceFails(c)
    BY <1>3 DEF Ledger!ReplaceFails, ReplaceFails
  <2>5. Ledger!Return(c) <=> Return(c)
    BY <1>3 DEF Ledger!Return, Return
  <2>6. Ledger!Die(c) <=> Die(c)
    BY <1>3 DEF Ledger!Die, Die
  <2> QED BY <2>1, <2>2, <2>3, <2>4, <2>5, <2>6
<1>9. \A c \in Client : Ledger!SaveStep(c) <=> SaveStep(c)
  BY <1>8 DEF Ledger!SaveStep, SaveStep
<1>10. \A D : Ledger!FileTypeOK(D) <=> FileTypeOK(D)
  BY <1>2 DEF Ledger!FileTypeOK, FileTypeOK
<1>11. Ledger!WholeUnlessOverlap <=> WholeUnlessOverlap
  BY DEF Ledger!WholeUnlessOverlap, WholeUnlessOverlap
<1> QED BY <1>4, <1>5, <1>6, <1>7, <1>8, <1>9, <1>10, <1>11

LEMMA LedgerAssumed ==
    ASSUME Ledger!LedgerAssumption
    PROVE  FileAssumption /\ None \notin Signature
<1>1. Ledger!Cardinality(Client) = Cardinality(Client) /\ (Ledger!IsFiniteSet(Client) <=> IsFiniteSet(Client))
  BY DEF Ledger!Cardinality, Cardinality, Ledger!IsFiniteSet, IsFiniteSet
<1> QED BY <1>1 DEF Ledger!LedgerAssumption, Ledger!FileAssumption, FileAssumption, Ledger!Node, Node

Result == Signature \cup {None}

\* How often a task had this result.
Often(results, s) == Cardinality({i \in DOMAIN results : results[i] = s})

FairLedgers == {l \in [Task -> Ledger!Entry] : \A t \in Task : l[t].count <= Often(runs[t], l[t].signature)}

LedgerCall == [task: Task, broken: BOOLEAN]

\* The entry that the results of a task call for.
Exact(entry, results) ==
    IF results = <<>> \/ results[Len(results)] = None THEN entry = Ledger!NoEntry
    ELSE /\ entry.signature = results[Len(results)]
         /\ entry.count = Ledger!InARow(results, results[Len(results)])

\* The answer that they call for.
Right(call) ==
    LET results == runs[call.task] IN
    /\ results # <<>>
    /\ call.broken <=> /\ results[Len(results)] # None
                       /\ Ledger!InARow(results, results[Len(results)]) >= MaxIdentical

\* Nothing went wrong: the ledger is exact, or the one that is being saved is.
ExactInv ==
    /\ AllIdle => \A t \in Task : Exact(Ledger!Ledger[t], runs[t])
    /\ \A c \in Client : Busy(c) =>
          Right(op[c].call) /\ \A t \in Task : Exact(op[c].data[t], runs[t])

LedgerTypes == runs \in [Task -> Seq(Result)] /\ FileTypes(FairLedgers, LedgerCall)

LedgerInv ==
    /\ LedgerTypes
    /\ "overlap" \notin mishap => SoloInv
    /\ mishap = {} => ExactInv


LEMMA LeastNumber ==
    ASSUME NEW T, T \subseteq Nat, T # {}
    PROVE  \E x \in T : \A y \in T : x <= y
<1>1. \E x \in T : \A y \in T : ~(<<y, x>> \in OpToRel(<, Nat))
  BY NatLessThanWellFounded, WFMin, Zenon
<1>2. PICK x \in T : \A y \in T : ~(<<y, x>> \in OpToRel(<, Nat))
  BY <1>1
<1>3. \A y \in T : ~(y < x)
  BY <1>2, Zenon DEF OpToRel
<1> QED BY <1>3

\* Of a set of numbers up to n with at least one, there is a greatest.
LEMMA GreatestNumber ==
    ASSUME NEW n \in Nat, NEW S, S \subseteq 0..n, 0 \in S
    PROVE  Ledger!Max(S) \in S /\ \A y \in S : Ledger!Max(S) >= y
<1> DEFINE T == {n - x : x \in S}
<1>1. T \subseteq Nat /\ T # {}
  OBVIOUS
<1>2. PICK m \in T : \A y \in T : m <= y
  BY <1>1, LeastNumber
<1>3. PICK x \in S : m = n - x
  BY <1>2
<1>4. \A y \in S : n - y \in T /\ n - x <= n - y /\ x \in 0..n /\ y \in 0..n
  BY <1>2, <1>3
<1>5. \A y \in S : x >= y
  BY <1>4
<1> QED BY <1>3, <1>5 DEF Ledger!Max

\* The failures in a row grow by one, and where the last result was another one
\* there are none.
LEMMA InARowGrows ==
    ASSUME NEW results \in Seq(Result), NEW s \in Result
    PROVE  /\ Ledger!InARow(results, s) \in Nat
           /\ Ledger!InARow(Append(results, s), s) = Ledger!InARow(results, s) + 1
<1> DEFINE others == {i \in DOMAIN results : results[i] # s}
           more == Append(results, s)
           n == Len(results)
<1>1. n \in Nat /\ DOMAIN results = 1..n /\ Len(more) = n + 1 /\ DOMAIN more = 1..(n + 1)
      /\ (\A i \in 1..n : more[i] = results[i]) /\ more[n + 1] = s
  OBVIOUS
<1>2. {i \in DOMAIN more : more[i] # s} = others
  <2>1. ASSUME NEW i \in 1..(n + 1), more[i] # s PROVE i \in 1..n
    BY <1>1, <2>1
  <2> QED BY <1>1, <2>1
<1>3. {0} \cup others \subseteq 0..n /\ 0 \in {0} \cup others
  BY <1>1
<1> DEFINE m == Ledger!Max({0} \cup others)
<1>4. m \in 0..n
  BY <1>1, <1>3, GreatestNumber
<1>5. Ledger!InARow(results, s) = n - m /\ Ledger!InARow(more, s) = (n + 1) - m
  BY <1>1, <1>2 DEF Ledger!InARow
<1> HIDE DEF m, n
<1> QED BY <1>1, <1>4, <1>5

LEMMA InARowBroken ==
    ASSUME NEW results \in Seq(Result), NEW s, results = <<>> \/ results[Len(results)] # s
    PROVE  Ledger!InARow(results, s) = 0
<1> DEFINE others == {i \in DOMAIN results : results[i] # s}
           n == Len(results)
<1>1. n \in Nat /\ DOMAIN results = 1..n
  OBVIOUS
<1>2. {0} \cup others \subseteq 0..n /\ 0 \in {0} \cup others
  BY <1>1
<1>3. n \in {0} \cup others
  <2>1. CASE results = <<>>
    BY <2>1
  <2>2. CASE results # <<>>
    <3>1. n \in 1..n
      BY <1>1, <2>2
    <3> QED BY <1>1, <2>2, <3>1
  <2> QED BY <2>1, <2>2
<1> DEFINE m == Ledger!Max({0} \cup others)
<1>4. m \in 0..n /\ m >= n
  BY <1>1, <1>2, <1>3, GreatestNumber
<1>5. Ledger!InARow(results, s) = n - m
  BY DEF Ledger!InARow
<1> HIDE DEF m, n
<1> QED BY <1>1, <1>4, <1>5

\* A result more is counted, and none is lost.
LEMMA OftenGrows ==
    ASSUME NEW results \in Seq(Result), NEW r \in Result
    PROVE  /\ \A s : Often(results, s) \in Nat /\ Often(Append(results, r), s) >= Often(results, s)
           /\ Often(Append(results, r), r) = Often(results, r) + 1
<1> DEFINE more == Append(results, r)
           n == Len(results)
           Is(s) == {i \in DOMAIN results : results[i] = s}
           IsMore(s) == {i \in DOMAIN more : more[i] = s}
<1>1. n \in Nat /\ DOMAIN results = 1..n /\ Len(more) = n + 1 /\ DOMAIN more = 1..(n + 1)
      /\ (\A i \in 1..n : more[i] = results[i]) /\ more[n + 1] = r
  OBVIOUS
<1>2. IsFiniteSet(1..n) /\ IsFiniteSet(1..(n + 1))
  BY <1>1, FS_Interval
<1>3. ASSUME NEW s
      PROVE  /\ IsFiniteSet(Is(s)) /\ IsFiniteSet(IsMore(s))
             /\ Cardinality(Is(s)) \in Nat /\ Cardinality(IsMore(s)) \in Nat
             /\ Cardinality(IsMore(s)) >= Cardinality(Is(s))
  <2>1. Is(s) \subseteq 1..n /\ IsMore(s) \subseteq 1..(n + 1) /\ Is(s) \subseteq IsMore(s)
    BY <1>1
  <2>2. IsFiniteSet(Is(s)) /\ IsFiniteSet(IsMore(s))
    BY <1>2, <2>1, FS_Subset
  <2> QED BY <2>1, <2>2, FS_Subset, FS_CardinalityType
<1>4. IsMore(r) = Is(r) \cup {n + 1} /\ n + 1 \notin Is(r)
  BY <1>1
<1>5. Cardinality(IsMore(r)) = Cardinality(Is(r)) + 1
  <2>1. IsFiniteSet(Is(r))
    BY <1>3
  <2> HIDE DEF Is, IsMore, n
  <2> QED BY <1>4, <2>1, FS_AddElement
<1> QED BY <1>3, <1>5 DEF Often

-----------------------------------------------------------------------------
(* The steps of the ledger *)

LEMMA LedgerBegins ==
    ASSUME Ledger!LedgerAssumption, Ledger!Init
    PROVE  LedgerInv
<1>1. FileInit /\ runs = [t \in Task |-> <<>>] /\ mishap = {}
  BY LedgerSame DEF Ledger!Init, Ledger!NoRuns, FileInit
<1>2. LedgerTypes
  BY <1>1, FileBegins DEF LedgerTypes
<1>3. SoloInv /\ AllIdle /\ Ledger!Ledger = Ledger!EmptyLedger
  BY <1>1, SoloBegins, LedgerSame DEF Ledger!Ledger
<1>4. ExactInv
  BY <1>1, <1>3 DEF ExactInv, Exact, Busy, AllIdle, Ledger!EmptyLedger
<1> QED BY <1>2, <1>3, <1>4 DEF LedgerInv

\* What is loaded is a fair ledger.
LEMMA LedgerType ==
    ASSUME LedgerTypes
    PROVE  Ledger!Ledger \in FairLedgers
<1>1. Ledger!NoEntry \in Ledger!Entry /\ Ledger!NoEntry.count = 0
  BY DEF Ledger!NoEntry, Ledger!Entry
<1>2. \A t \in Task : 0 <= Often(runs[t], Ledger!NoEntry.signature)
  <2>1. ASSUME NEW t \in Task PROVE Often(runs[t], Ledger!NoEntry.signature) \in Nat
    BY OftenGrows DEF LedgerTypes, Result
  <2> QED BY <2>1
<1>3. Ledger!EmptyLedger \in FairLedgers
  BY <1>1, <1>2 DEF FairLedgers, Ledger!EmptyLedger
<1> QED BY <1>3, ContentsType, LedgerSame DEF LedgerTypes, Ledger!Ledger

\* A result more of a task: what was fair still is.
LEMMA FairGrows ==
    ASSUME LedgerTypes, NEW t \in Task, NEW r \in Result, runs' = [runs EXCEPT ![t] = Append(@, r)]
    PROVE  /\ runs' \in [Task -> Seq(Result)] /\ FairLedgers \subseteq FairLedgers'
           /\ Often(runs'[t], r) = Often(runs[t], r) + 1
           /\ \A u \in Task : \A s : Often(runs'[u], s) \in Nat /\ Often(runs'[u], s) >= Often(runs[u], s)
<1>1. runs \in [Task -> Seq(Result)]
  BY DEF LedgerTypes
<1>2. \A u \in Task : runs'[u] = IF u = t THEN Append(runs[t], r) ELSE runs[u]
  BY <1>1
<1>3. runs' \in [Task -> Seq(Result)]
  <2>1. runs[t] \in Seq(Result) /\ Append(runs[t], r) \in Seq(Result)
    BY <1>1, AppendProperties
  <2> QED BY <1>1, <2>1
<1>4. ASSUME NEW u \in Task, NEW s
      PROVE  /\ Often(runs[u], s) \in Nat /\ Often(runs'[u], s) \in Nat
             /\ Often(runs'[u], s) >= Often(runs[u], s)
  <2>1. runs[u] \in Seq(Result) /\ runs'[u] \in Seq(Result)
    BY <1>1, <1>3
  <2>2. Often(runs[u], s) \in Nat /\ Often(runs'[u], s) \in Nat
    BY <2>1, OftenGrows
  <2>3. CASE u = t
    <3>1. Often(Append(runs[t], r), s) >= Often(runs[t], s)
      BY <2>1, <2>3, OftenGrows
    <3> QED BY <1>2, <2>2, <2>3, <3>1
  <2>4. CASE u # t
    BY <1>2, <2>2, <2>4
  <2> QED BY <2>2, <2>3, <2>4
<1>5. FairLedgers \subseteq FairLedgers'
  <2> SUFFICES ASSUME NEW l \in FairLedgers PROVE l \in FairLedgers'
    OBVIOUS
  <2>1. l \in [Task -> Ledger!Entry] /\ \A u \in Task : l[u].count \in Nat
    BY DEF FairLedgers, Ledger!Entry
  <2>2. \A u \in Task : l[u].count <= Often(runs[u], l[u].signature)
    BY DEF FairLedgers
  <2>3. ASSUME NEW u \in Task PROVE l[u].count <= Often(runs'[u], l[u].signature)
    <3>1. PICK s : s = l[u].signature
      OBVIOUS
    <3>2. l[u].count \in Nat /\ l[u].count <= Often(runs[u], s)
      BY <2>1, <2>2, <3>1
    <3>3. /\ Often(runs[u], s) \in Nat /\ Often(runs'[u], s) \in Nat
          /\ Often(runs'[u], s) >= Often(runs[u], s)
      BY <1>4
    <3> QED BY <3>1, <3>2, <3>3
  <2> QED BY <2>1, <2>3 DEF FairLedgers, Ledger!Entry
<1>6. Often(runs'[t], r) = Often(runs[t], r) + 1
  BY <1>1, <1>2, OftenGrows
<1> QED BY <1>3, <1>4, <1>5, <1>6

\* A call that is told of a result: the ledger it will save is fair.
LEMMA LedgerCallTypes ==
    ASSUME LedgerTypes, NEW c \in Client, NEW t \in Task, NEW r \in Result,
           runs' = [runs EXCEPT ![t] = Append(@, r)],
           NEW call \in LedgerCall, NEW data \in FairLedgers', BeginSave(c, call, data)
    PROVE  LedgerTypes'
<1>1. PICK D : D = FairLedgers'
  OBVIOUS
<1>2. FairLedgers \subseteq D /\ runs' \in [Task -> Seq(Result)] /\ data \in D
  BY <1>1, FairGrows
<1>3. FileTypes(D, LedgerCall)
  BY <1>2, FileGrows DEF LedgerTypes
<1>4. FileTypes(D, LedgerCall)'
  BY <1>2, <1>3, FileCall
<1>5. LedgerCall' = LedgerCall
  BY DEF LedgerCall
<1> QED BY <1>1, <1>2, <1>4, <1>5 DEF LedgerTypes, FileTypes, DiskTypes, OpTypes, NodeText, Op

\* A call that begins alone: what it will save is exact if it puts the entry
\* the results call for in place of the task's, and its answer is right.
LEMMA LedgerCallKeeps ==
    ASSUME LedgerInv, LedgerTypes', NEW c \in Client, NEW t \in Task, NEW r \in Result,
           runs' = [runs EXCEPT ![t] = Append(@, r)],
           NEW call \in LedgerCall, NEW entry,
           BeginSave(c, call, [Ledger!Ledger EXCEPT ![t] = entry]),
           mishap' = {} => call.task = t /\ Exact(entry, runs'[t]) /\ Right(call)'
    PROVE  LedgerInv'
<1> DEFINE data == [Ledger!Ledger EXCEPT ![t] = entry]
<1>1. runs \in [Task -> Seq(Result)] /\ Ledger!Ledger \in FairLedgers
  BY LedgerType DEF LedgerInv, LedgerTypes
<1>2. /\ \A u \in Task \ {t} : data[u] = Ledger!Ledger[u] /\ runs'[u] = runs[u]
      /\ data[t] = entry
  BY <1>1 DEF FairLedgers
<1> HIDE DEF data
<1>3. BeginSave(c, call, data)
  BY DEF data
<1>4. ASSUME "overlap" \notin mishap'
      PROVE  SoloInv' /\ (mishap' = {} => ExactInv')
  <2>1. "overlap" \notin mishap
    BY <1>3, <1>4 DEF BeginSave, Load
  <2>2. /\ AllIdle /\ mishap' = mishap /\ SoloInv' /\ \A d \in Client : op'[d].at # "idle" => d = c
        /\ op'[c].at = "save" /\ op'[c].call = call /\ op'[c].data = data
    BY <1>3, <1>4, <2>1, BeginSolo DEF LedgerInv, LedgerTypes
  <2>3. ASSUME mishap' = {} PROVE ExactInv'
    <3>1. \A u \in Task : Exact(Ledger!Ledger[u], runs[u])
      BY <2>2, <2>3 DEF LedgerInv, ExactInv
    <3>2. \A u \in Task : Exact(data[u], runs'[u])
      BY <1>2, <2>3, <3>1
    <3>3. ~AllIdle'
      BY <2>2 DEF AllIdle
    <3>4. ASSUME NEW d \in Client, Busy(d)'
          PROVE  Right(op[d].call)' /\ \A u \in Task : Exact(op[d].data[u], runs[u])'
      <4>1. d = c
        BY <2>2, <3>4 DEF Busy
      <4>2. Right(op[d].call)'
        BY <2>2, <2>3, <4>1 DEF Right
      <4>3. \A u \in Task : Exact(op[d].data[u], runs[u])'
        BY <2>2, <3>2, <4>1 DEF Exact
      <4> QED BY <4>2, <4>3
    <3> QED BY <3>3, <3>4 DEF ExactInv
  <2> QED BY <2>2, <2>3
<1> QED BY <1>4 DEF LedgerInv

LEMMA FailureKeeps ==
    ASSUME Ledger!LedgerAssumption, LedgerInv, NEW c \in Client, NEW t \in Task, NEW s \in Signature,
           Ledger!RecordFailure(c, t, s)
    PROVE  LedgerInv'
<1> DEFINE held == Ledger!Ledger[t]
           count == Ledger!Count(held, s)
           entry == [signature |-> s, count |-> count]
           call == [task |-> t, broken |-> count >= MaxIdentical]
           data == [Ledger!Ledger EXCEPT ![t] = entry]
<1>1. /\ BeginSave(c, call, data)
      /\ runs' = [runs EXCEPT ![t] = Append(@, s)]
  BY LedgerSame DEF Ledger!RecordFailure
<1>2. LedgerTypes /\ runs \in [Task -> Seq(Result)] /\ s \in Result /\ s # None
  BY LedgerAssumed DEF LedgerInv, LedgerTypes, Result
<1>3. Ledger!Ledger \in FairLedgers
  BY <1>2, LedgerType
<1>4. held \in Ledger!Entry /\ held.count <= Often(runs[t], held.signature)
  BY <1>3 DEF FairLedgers
<1>5. count = IF held.signature = s THEN held.count + 1 ELSE 1
  BY DEF Ledger!Count
<1>6. runs'[t] = Append(runs[t], s)
  BY <1>1, <1>2
<1> HIDE DEF held
<1>7. count \in Nat /\ count <= Often(runs'[t], s)
  <2>1. /\ Often(runs'[t], s) = Often(runs[t], s) + 1
        /\ Often(runs[t], s) \in Nat
    BY <1>1, <1>2, FairGrows, OftenGrows
  <2>2. held.count \in Nat
    BY <1>4 DEF Ledger!Entry
  <2> QED BY <1>4, <1>5, <2>1, <2>2
<1> HIDE DEF count
<1>8. data \in FairLedgers'
  <2>1. Ledger!Ledger \in FairLedgers'
    BY <1>1, <1>2, <1>3, FairGrows
  <2>2. entry \in Ledger!Entry /\ entry.count = count /\ entry.signature = s
    BY <1>7 DEF Ledger!Entry
  <2> HIDE DEF entry
  <2>3. \A u \in Task : data[u] = IF u = t THEN entry ELSE Ledger!Ledger[u]
    BY <2>1 DEF FairLedgers
  <2>4. data \in [Task -> Ledger!Entry]
    BY <2>1, <2>2 DEF FairLedgers, Ledger!Entry
  <2> HIDE DEF data
  <2>5. \A u \in Task : data[u].count <= Often(runs'[u], data[u].signature)
    BY <1>7, <2>1, <2>2, <2>3 DEF FairLedgers
  <2> QED BY <2>4, <2>5 DEF FairLedgers, Ledger!Entry
<1>9. call \in LedgerCall /\ call.task = t /\ call.broken = (count >= MaxIdentical)
  BY DEF LedgerCall
<1>10. LedgerTypes'
  BY <1>1, <1>2, <1>8, <1>9, LedgerCallTypes
<1> PICK k, e : k = call /\ e = entry
  OBVIOUS
<1>11. ASSUME mishap' = {} PROVE Exact(e, runs'[t]) /\ Right(k)'
  <2>1. mishap = {} /\ AllIdle
    BY <1>1, <1>11 DEF BeginSave, Load, AllIdle
  <2>2. Exact(held, runs[t])
    BY <2>1 DEF LedgerInv, ExactInv, held
  <2>3. runs[t] \in Seq(Result)
    BY <1>2
  <2> DEFINE r == runs[t]
             n == Len(runs[t])
             more == Append(runs[t], s)
  <2>4. n \in Nat /\ more # <<>> /\ Len(more) = n + 1 /\ more[n + 1] = s
    BY <2>3
  <2>5. Ledger!InARow(more, s) = Ledger!InARow(r, s) + 1 /\ Ledger!InARow(r, s) \in Nat
    BY <1>2, <2>3, InARowGrows
  <2>6. held.signature # s => r = <<>> \/ r[n] # s
    BY <1>2, <2>2 DEF Exact
  <2>7. held.signature = s => r # <<>> /\ r[n] = s /\ held.count = Ledger!InARow(r, s)
    <3>1. ASSUME held.signature = s PROVE ~(r = <<>> \/ r[n] = None)
      BY <1>2, <2>2, <3>1 DEF Exact, Ledger!NoEntry
    <3> QED BY <2>2, <3>1 DEF Exact
  <2>8. held.signature # s => Ledger!InARow(r, s) = 0
    BY <2>3, <2>6, InARowBroken
  <2> HIDE DEF r
  <2>9. count = Ledger!InARow(more, s)
    BY <1>5, <2>5, <2>7, <2>8
  <2> HIDE DEF more, n
  <2>10. runs'[t] = more /\ runs'[t] # <<>> /\ runs'[t][Len(runs'[t])] = s
    BY <1>6, <2>4 DEF more
  <2>11. Exact(e, runs'[t])
    BY <1>2, <2>9, <2>10 DEF Exact
  <2>12. k.task = t /\ (k.broken <=> count >= MaxIdentical)
    BY <1>9
  <2>13. Right(k)'
    BY <1>2, <2>9, <2>10, <2>12 DEF Right
  <2> QED BY <2>11, <2>13
<1>12. BeginSave(c, k, [Ledger!Ledger EXCEPT ![t] = e]) /\ k \in LedgerCall /\ k.task = t
  BY <1>1, <1>9
<1> HIDE DEF entry, call
<1> QED BY <1>1, <1>2, <1>10, <1>11, <1>12, LedgerCallKeeps

LEMMA SuccessKeeps ==
    ASSUME Ledger!LedgerAssumption, LedgerInv, NEW c \in Client, NEW t \in Task,
           Ledger!RecordSuccess(c, t)
    PROVE  LedgerInv'
<1> DEFINE call == [task |-> t, broken |-> FALSE]
           data == [Ledger!Ledger EXCEPT ![t] = Ledger!NoEntry]
<1>1. /\ IF Ledger!Ledger[t] = Ledger!NoEntry THEN Load(c) /\ UNCHANGED op
         ELSE BeginSave(c, call, data)
      /\ runs' = [runs EXCEPT ![t] = Append(@, None)]
  BY LedgerSame DEF Ledger!RecordSuccess
<1>2. LedgerTypes /\ runs \in [Task -> Seq(Result)] /\ None \in Result
  BY DEF LedgerInv, LedgerTypes, Result
<1>3. Ledger!Ledger \in FairLedgers
  BY <1>2, LedgerType
<1>4. /\ runs'[t] = Append(runs[t], None)
      /\ \A u \in Task \ {t} : runs'[u] = runs[u]
  BY <1>1, <1>2
<1>5. runs'[t] # <<>> /\ runs'[t][Len(runs'[t])] = None
  <2>1. runs[t] \in Seq(Result)
    BY <1>2
  <2> QED BY <1>4, <2>1
<1>6. Exact(Ledger!NoEntry, runs'[t])
  BY <1>5 DEF Exact
<1>7. CASE Ledger!Ledger[t] = Ledger!NoEntry
  <2>1. UNCHANGED <<disk, real, tmp, op>> /\ mishap' \subseteq {"overlap", "death"}
        /\ (mishap' = {} => AllIdle /\ mishap = {})
        /\ ("overlap" \notin mishap' => "overlap" \notin mishap)
    BY <1>1, <1>2, <1>7 DEF Load, LedgerTypes, FileTypes, AllIdle
  <2>2. LedgerTypes'
    <3>1. PICK D : D = FairLedgers'
      OBVIOUS
    <3>2. FairLedgers \subseteq D /\ runs' \in [Task -> Seq(Result)]
      BY <1>1, <1>2, <3>1, FairGrows
    <3>3. FileTypes(D, LedgerCall)
      BY <1>2, <3>2, FileGrows DEF LedgerTypes
    <3>4. FileTypes(D, LedgerCall)'
      BY <2>1, <3>3 DEF FileTypes, DiskTypes, OpTypes
    <3>5. LedgerCall' = LedgerCall
      BY DEF LedgerCall
    <3> QED BY <3>1, <3>2, <3>4, <3>5
          DEF LedgerTypes, FileTypes, DiskTypes, OpTypes, NodeText, Op
  <2>3. ASSUME "overlap" \notin mishap' PROVE SoloInv'
    BY <2>1, <2>3 DEF LedgerInv, SoloInv, Busy
  <2>4. ASSUME mishap' = {} PROVE ExactInv'
    <3>1. Ledger!Ledger' = Ledger!Ledger
      BY <2>1, LedgerSame
        DEF Ledger!Ledger, Ledger!Contents, Ledger!EmptyLedger, Ledger!NoEntry
    <3>2. \A u \in Task : Exact(Ledger!Ledger[u], runs[u])
      BY <2>1, <2>4 DEF LedgerInv, ExactInv
    <3>3. \A u \in Task : Exact(Ledger!Ledger[u], runs'[u])
      BY <1>4, <1>6, <1>7, <3>2
    <3>4. \A u \in Task : Exact(Ledger!Ledger[u], runs[u])'
      BY <3>1, <3>3 DEF Exact
    <3> QED BY <2>1, <2>4, <3>4 DEF ExactInv, AllIdle, Busy
  <2> QED BY <2>2, <2>3, <2>4 DEF LedgerInv
<1>8. CASE Ledger!Ledger[t] # Ledger!NoEntry
  <2>1. BeginSave(c, call, data)
    BY <1>1, <1>8
  <2>2. call \in LedgerCall /\ call.task = t /\ call.broken = FALSE
    BY DEF LedgerCall
  <2>3. data \in FairLedgers'
    <3>1. Ledger!Ledger \in FairLedgers'
      BY <1>1, <1>2, <1>3, FairGrows
    <3>2. Ledger!NoEntry \in Ledger!Entry /\ Ledger!NoEntry.count = 0
          /\ Ledger!NoEntry.signature = None
      BY DEF Ledger!Entry, Ledger!NoEntry
    <3>3. \A u \in Task : data[u] = IF u = t THEN Ledger!NoEntry ELSE Ledger!Ledger[u]
      BY <3>1 DEF FairLedgers
    <3>4. data \in [Task -> Ledger!Entry]
      BY <3>1, <3>2 DEF FairLedgers, Ledger!Entry
    <3>5. 0 <= Often(runs'[t], None)
      <4>1. Often(runs'[t], None) \in Nat
        BY <1>1, <1>2, FairGrows
      <4> QED BY <4>1
    <3> HIDE DEF data
    <3>6. \A u \in Task : data[u].count <= Often(runs'[u], data[u].signature)
      BY <3>1, <3>2, <3>3, <3>5 DEF FairLedgers
    <3> QED BY <3>4, <3>6 DEF FairLedgers, Ledger!Entry
  <2>4. LedgerTypes'
    BY <1>1, <1>2, <2>1, <2>2, <2>3, LedgerCallTypes
  <2>5. Right(call)'
    BY <1>5, <2>2 DEF Right
  <2> HIDE DEF call
  <2> QED BY <1>1, <1>2, <1>6, <2>1, <2>2, <2>4, <2>5, LedgerCallKeeps
<1> QED BY <1>7, <1>8

LEMMA LedgerSaveKeeps ==
    ASSUME Ledger!LedgerAssumption, LedgerInv, NEW c \in Client,
           SaveStep(c) \/ ReplaceFails(c) \/ Return(c) \/ Die(c), UNCHANGED runs
    PROVE  LedgerInv'
<1>1. PICK D : D = FairLedgers
  OBVIOUS
<1>2. D = FairLedgers' /\ LedgerCall' = LedgerCall
  BY <1>1 DEF FairLedgers, LedgerCall, Often
<1>3. FileTypes(D, LedgerCall) /\ runs \in [Task -> Seq(Result)]
  BY <1>1 DEF LedgerInv, LedgerTypes
<1>4. FileTypes(D, LedgerCall)'
  BY <1>3, FileStep, LedgerAssumed
<1>5. LedgerTypes'
  BY <1>2, <1>3, <1>4 DEF LedgerTypes, FileTypes, DiskTypes, OpTypes, NodeText, Op
<1>6. "overlap" \notin mishap' => "overlap" \notin mishap
  BY DEF SaveStep, OpenTmp, WriteTmp, ReplaceFile, ReplaceFails, Return, Die
<1>7. ASSUME "overlap" \notin mishap, Return(c)
      PROVE  SoloInv' /\ (mishap' = {} => ExactInv')
  <2>1. SoloInv /\ op \in [Client -> Op(D, LedgerCall)]
    BY <1>3, <1>7 DEF LedgerInv, FileTypes, OpTypes
  <2>2. /\ UNCHANGED <<disk, real, tmp, mishap>> /\ op[c].at = "saved"
        /\ op' = [op EXCEPT ![c] = Idle]
    BY <1>7 DEF Return
  <2>3. \A d \in Client : op'[d].at = "idle"
    BY <2>1, <2>2 DEF SoloInv, Busy, Idle
  <2>4. SoloInv'
    BY <2>1, <2>2, <2>3 DEF SoloInv, Busy
  <2>5. ASSUME mishap' = {} PROVE ExactInv'
    <3>1. Ledger!Ledger = op[c].data
      BY <2>1, <2>2, SavedContents, LedgerSame DEF Ledger!Ledger
    <3>2. Ledger!Ledger' = Ledger!Ledger
      BY <2>2 DEF Ledger!Ledger, Ledger!Contents, Ledger!EmptyLedger, Ledger!NoEntry
    <3>3. \A t \in Task : Exact(op[c].data[t], runs[t])
      BY <2>2, <2>5 DEF LedgerInv, ExactInv, Busy
    <3>4. \A t \in Task : Exact(Ledger!Ledger[t], runs[t])'
      BY <3>1, <3>2, <3>3 DEF Exact
    <3> QED BY <2>3, <3>4 DEF ExactInv, Busy
  <2> QED BY <2>4, <2>5
<1>8. ASSUME "overlap" \notin mishap, SaveStep(c) \/ ReplaceFails(c) \/ Die(c)
      PROVE  SoloInv' /\ (mishap' = {} => ExactInv')
  <2>1. SoloInv
    BY <1>8 DEF LedgerInv
  <2>2. SoloInv' /\ Advance(c, Ledger!EmptyLedger)
    BY <1>3, <1>8, <2>1, SaveSolo, LedgerAssumed
  <2>3. ASSUME mishap' = {} PROVE ExactInv'
    <3>1. /\ mishap = {} /\ Busy(c) /\ op'[c].at # "idle" /\ op'[c].call = op[c].call
          /\ op'[c].data = op[c].data
          /\ \A d \in Client : d # c => op'[d] = op[d] /\ op[d].at = "idle"
      BY <2>2, <2>3 DEF Advance
    <3>2. Right(op[c].call) /\ \A t \in Task : Exact(op[c].data[t], runs[t])
      BY <3>1 DEF LedgerInv, ExactInv
    <3>3. ~AllIdle'
      BY <3>1 DEF AllIdle
    <3>4. ASSUME NEW d \in Client, Busy(d)'
          PROVE  Right(op[d].call)' /\ \A t \in Task : Exact(op[d].data[t], runs[t])'
      <4>1. d = c
        BY <3>1, <3>4 DEF Busy
      <4>2. Right(op[d].call)'
        BY <3>1, <3>2, <4>1 DEF Right
      <4>3. \A t \in Task : Exact(op[d].data[t], runs[t])'
        BY <3>1, <3>2, <4>1 DEF Exact
      <4> QED BY <4>2, <4>3
    <3> QED BY <3>3, <3>4 DEF ExactInv
  <2> QED BY <2>2, <2>3
<1>9. "overlap" \notin mishap' => SoloInv'
  BY <1>6, <1>7, <1>8
<1>10. mishap' = {} => ExactInv'
  BY <1>6, <1>7, <1>8
<1> QED BY <1>5, <1>9, <1>10 DEF LedgerInv

LEMMA LedgerStep ==
    ASSUME Ledger!LedgerAssumption, LedgerInv, [Ledger!Next]_(Ledger!vars)
    PROVE  LedgerInv'
<1>1. CASE UNCHANGED Ledger!vars
  <2>1. UNCHANGED filevars /\ runs' = runs
    BY <1>1 DEF Ledger!vars, Ledger!filevars, filevars
  <2>2. FairLedgers' = FairLedgers /\ LedgerCall' = LedgerCall
        /\ Ledger!Ledger' = Ledger!Ledger
    BY <2>1 DEF FairLedgers, LedgerCall, Often, filevars, Ledger!Ledger, Ledger!Contents,
      Ledger!EmptyLedger, Ledger!NoEntry
  <2>3. LedgerTypes'
    BY <2>1, <2>2
      DEF LedgerInv, LedgerTypes, FileTypes, DiskTypes, OpTypes, NodeText, Op, filevars
  <2>4. SoloInv' <=> SoloInv
    BY <2>1, SoloStays
  <2>5. ExactInv' <=> ExactInv
    BY <2>1, <2>2 DEF ExactInv, Exact, Right, AllIdle, Busy, filevars
  <2> QED BY <2>1, <2>3, <2>4, <2>5 DEF LedgerInv, filevars
<1>2. CASE Ledger!Next
  <2>1. PICK c \in Client :
           \/ \E t \in Task : Ledger!RecordSuccess(c, t) \/ \E s \in Signature : Ledger!RecordFailure(c, t, s)
           \/ (SaveStep(c) \/ ReplaceFails(c) \/ Return(c) \/ Die(c)) /\ UNCHANGED runs
    BY <1>2, LedgerSame DEF Ledger!Next
  <2> QED BY <2>1, FailureKeeps, SuccessKeeps, LedgerSaveKeeps
<1> QED BY <1>1, <1>2

LEMMA LedgerImplies ==
    ASSUME Ledger!LedgerAssumption, LedgerInv
    PROVE  Ledger!TypeOK /\ Ledger!AnswerExact
<1>1. Ledger!TypeOK
  <2>1. FairLedgers \subseteq [Task -> Ledger!Entry]
    BY DEF FairLedgers
  <2>2. FileTypeOK([Task -> Ledger!Entry])
    BY <2>1, FileGrows, FileTyped DEF LedgerInv, LedgerTypes
  <2> QED BY <2>2, LedgerSame DEF LedgerInv, LedgerTypes, Result, Ledger!TypeOK
<1>2. WholeUnlessOverlap
  BY DEF LedgerInv, SoloInv, WholeUnlessOverlap
<1>3. \A t \in Task : Ledger!Ledger[t].count <=
          Ledger!Cardinality({i \in DOMAIN runs[t] : runs[t][i] = Ledger!Ledger[t].signature})
  <2>1. Ledger!Ledger \in FairLedgers
    BY LedgerType DEF LedgerInv
  <2>2. \A S : Ledger!Cardinality(S) = Cardinality(S)
    BY DEF Ledger!Cardinality, Cardinality
  <2> QED BY <2>1, <2>2 DEF FairLedgers, Often
<1>4. ASSUME NEW c \in Client, op[c].at = "saved", mishap = {}
      PROVE  LET t == op[c].call.task IN
             op[c].call.broken <=> /\ Ledger!Last(runs[t]) # None
                                   /\ Ledger!InARow(runs[t], Ledger!Last(runs[t])) >= MaxIdentical
  BY <1>4 DEF LedgerInv, ExactInv, Right, Busy, Ledger!Last
<1> QED BY <1>1, <1>2, <1>3, <1>4, LedgerSame DEF Ledger!AnswerExact

\* core/verify/ledger.py: whatever overlaps or dies, no agent is stopped by a
\* failure that came less often than the ledger says; where calls neither overlap
\* nor die the answer is exact; and the file is whole unless saves overlap.  For
\* any number of processes, tasks, signatures and runs of the gate.
THEOREM LedgerIsExact ==
    ASSUME Ledger!LedgerAssumption
    PROVE  Ledger!Spec => [](Ledger!TypeOK /\ Ledger!AnswerExact)
<1>1. Ledger!Init => LedgerInv
  BY LedgerBegins
<1>2. LedgerInv /\ [Ledger!Next]_(Ledger!vars) => LedgerInv'
  BY LedgerStep
<1>3. LedgerInv => Ledger!TypeOK /\ Ledger!AnswerExact
  BY LedgerImplies
<1> QED BY <1>1, <1>2, <1>3, PTL DEF Ledger!Spec

-----------------------------------------------------------------------------
(* The undo buffer: it leads back if each entry holds the project as it was *)
(* before, and the next one, or the project, differs from that only in the  *)
(* file of the entry                                                        *)

LEMMA UndoSame ==
    /\ Undo!FileInit <=> FileInit
    /\ \A nothing : Undo!Contents(nothing) = Contents(nothing)
    /\ \A c \in Client :
          /\ Undo!Load(c) <=> Load(c)
          /\ \A call, data : Undo!BeginSave(c, call, data) <=> BeginSave(c, call, data)
          /\ Undo!SaveStep(c) <=> SaveStep(c)
          /\ Undo!ReplaceFails(c) <=> ReplaceFails(c)
          /\ Undo!Return(c) <=> Return(c)
          /\ Undo!Die(c) <=> Die(c)
    /\ \A D : Undo!FileTypeOK(D) <=> FileTypeOK(D)
    /\ Undo!WholeUnlessOverlap <=> WholeUnlessOverlap
<1>1. \A S : Undo!Cardinality(S) = Cardinality(S)
  BY DEF Undo!Cardinality, Cardinality
<1>2. Undo!Node = Node
  BY <1>1 DEF Undo!Node, Node
<1>3. Undo!Blank = Blank /\ Undo!Idle = Idle /\ Undo!Unused = Unused
  BY <1>2 DEF Undo!Blank, Blank, Undo!Idle, Idle, Undo!Unused, Unused
<1>4. Undo!FileInit <=> FileInit
  BY <1>2, <1>3 DEF Undo!FileInit, FileInit
<1>5. \A nothing : Undo!Contents(nothing) = Contents(nothing)
  BY DEF Undo!Contents, Contents
<1>6. \A c \in Client : Undo!Load(c) <=> Load(c)
  BY DEF Undo!Load, Load
<1>7. \A c \in Client : \A call, data : Undo!BeginSave(c, call, data) <=> BeginSave(c, call, data)
  BY <1>6 DEF Undo!BeginSave, BeginSave
<1>8. ASSUME NEW c \in Client
      PROVE  /\ Undo!OpenTmp(c) <=> OpenTmp(c)
             /\ Undo!WriteTmp(c) <=> WriteTmp(c)
             /\ Undo!ReplaceFile(c) <=> ReplaceFile(c)
             /\ Undo!ReplaceFails(c) <=> ReplaceFails(c)
             /\ Undo!Return(c) <=> Return(c)
             /\ Undo!Die(c) <=> Die(c)
  <2>1. Undo!OpenTmp(c) <=> OpenTmp(c)
    BY <1>3 DEF Undo!OpenTmp, OpenTmp
  <2>2. Undo!WriteTmp(c) <=> WriteTmp(c)
    BY DEF Undo!WriteTmp, WriteTmp
  <2>3. Undo!ReplaceFile(c) <=> ReplaceFile(c)
    BY <1>2, <1>3 DEF Undo!ReplaceFile, ReplaceFile
  <2>4. Undo!ReplaceFails(c) <=> ReplaceFails(c)
    BY <1>3 DEF Undo!ReplaceFails, ReplaceFails
  <2>5. Undo!Return(c) <=> Return(c)
    BY <1>3 DEF Undo!Return, Return
  <2>6. Undo!Die(c) <=> Die(c)
    BY <1>3 DEF Undo!Die, Die
  <2> QED BY <2>1, <2>2, <2>3, <2>4, <2>5, <2>6
<1>9. \A c \in Client : Undo!SaveStep(c) <=> SaveStep(c)
  BY <1>8 DEF Undo!SaveStep, SaveStep
<1>10. \A D : Undo!FileTypeOK(D) <=> FileTypeOK(D)
  BY <1>2 DEF Undo!FileTypeOK, FileTypeOK
<1>11. Undo!WholeUnlessOverlap <=> WholeUnlessOverlap
  BY DEF Undo!WholeUnlessOverlap, WholeUnlessOverlap
<1> QED BY <1>4, <1>5, <1>6, <1>7, <1>8, <1>9, <1>10, <1>11

LEMMA UndoAssumed ==
    ASSUME Undo!UndoAssumption
    PROVE  FileAssumption /\ MaxUndo \in Nat /\ MaxWrites \in Nat
<1>1. Undo!Cardinality(Client) = Cardinality(Client) /\ (Undo!IsFiniteSet(Client) <=> IsFiniteSet(Client))
  BY DEF Undo!Cardinality, Cardinality, Undo!IsFiniteSet, IsFiniteSet
<1> QED BY <1>1 DEF Undo!UndoAssumption, Undo!FileAssumption, FileAssumption, Undo!Node, Node

Content == Text \cup {"part", None}

Buffers == {b \in Seq(Undo!UndoEntry) : Len(b) <= MaxUndo}

UndoCall == [do: {"write", "undo"}, path: Path, text: Content]

\* Undoing leads back from these files, through the buffer.
Leads(buffer, files) ==
    \A i \in 1..Len(buffer), q \in Path :
        buffer[i].before[q] =
            IF q = buffer[i].path THEN buffer[i].previous
            ELSE IF i = Len(buffer) THEN files[q] ELSE buffer[i + 1].before[q]

\* The files as the undo of this call will leave them; a write may still leave
\* them in any way, as far as its own file goes.
Aim(call) ==
    [q \in Path |-> IF call.do = "undo" /\ q = call.path THEN call.text ELSE project[q]]

\* The calls that are saving or have saved their change of the buffer and have not
\* come to the end of their change of the project.
AtWork(c) == op[c].at \in {"save", "open", "written", "saved", "opened"}

LeadsInv ==
    /\ (\A c \in Client : ~Undo!HalfUndone(c)) => Leads(Undo!Buffer, project)
    /\ \A c \in Client : AtWork(c) =>
          /\ Leads(op[c].data, Aim(op[c].call))
          /\ op[c].call.do = "write" /\ op[c].data # <<>> =>
                op[c].data[Len(op[c].data)].path = op[c].call.path

Writing(c) == AtWork(c) /\ op[c].call.do = "write"

\* The writes that have not come to their file, or to their record, are counted.
Counted ==
    /\ written \in [calls: 0..MaxWrites, files: Nat, records: Nat]
    /\ written.files + Cardinality({c \in Client : Writing(c)}) <= written.calls
    /\ written.records + Cardinality({c \in Client : op[c].at = "done"}) <= written.files

UndoTypes == project \in [Path -> Content] /\ broken \in BOOLEAN /\ FileTypes(Buffers, UndoCall)

UndoInv ==
    /\ UndoTypes
    /\ Counted
    /\ "overlap" \notin mishap => SoloInv
    /\ "overlap" \notin mishap /\ ~broken => LeadsInv


\* What is kept of a buffer is its newest part.
LEMMA TrimmedIs ==
    ASSUME Undo!UndoAssumption, NEW b \in Seq(Undo!UndoEntry)
    PROVE  /\ Undo!Trimmed(b) \in Buffers
           /\ Len(Undo!Trimmed(b)) <= Len(b)
           /\ \A i \in 1..Len(Undo!Trimmed(b)) :
                 LET j == i + (Len(b) - Len(Undo!Trimmed(b))) IN
                 j \in 1..Len(b) /\ Undo!Trimmed(b)[i] = b[j]
<1> DEFINE n == Len(b)
           lo == IF n > MaxUndo THEN n - MaxUndo + 1 ELSE 1
           t == SubSeq(b, lo, n)
<1>1. n \in Nat /\ MaxUndo \in Nat
  BY UndoAssumed
<1>2. lo \in 1..(n + 1) /\ n - lo + 1 \in Nat /\ n - lo + 1 <= MaxUndo /\ n - lo + 1 <= n
  BY <1>1
<1>3. Undo!Trimmed(b) = t
  BY DEF Undo!Trimmed
<1> HIDE DEF lo, n
<1>4. t \in Seq(Undo!UndoEntry) /\ Len(t) = n - lo + 1
      /\ \A i \in 1..(n - lo + 1) : t[i] = b[lo + i - 1]
  BY <1>1, <1>2, SubSeqProperties DEF n
<1> HIDE DEF t
<1>5. \A i \in 1..(n - lo + 1) : i + (n - (n - lo + 1)) = lo + i - 1 /\ lo + i - 1 \in 1..n
  BY <1>1, <1>2
<1> QED BY <1>2, <1>3, <1>4, <1>5 DEF Buffers, n

\* The files may differ where the newest entry puts them back.
LEMMA LeadsElsewhere ==
    ASSUME NEW b, NEW f, NEW g, Leads(b, f), NEW p,
           \A q \in Path : q # p => f[q] = g[q],
           b = <<>> \/ b[Len(b)].path = p \/ f[p] = g[p]
    PROVE  Leads(b, g)
<1>1. ASSUME b = <<>> PROVE Leads(b, g)
  BY <1>1 DEF Leads
<1>2. ASSUME b[Len(b)].path = p \/ f[p] = g[p] PROVE Leads(b, g)
  BY <1>2 DEF Leads
<1> QED BY <1>1, <1>2

LEMMA LeadsTrimmed ==
    ASSUME Undo!UndoAssumption, NEW b \in Seq(Undo!UndoEntry), NEW f, Leads(b, f)
    PROVE  /\ Leads(Undo!Trimmed(b), f)
           /\ Undo!Trimmed(b) # <<>> => Undo!Trimmed(b)[Len(Undo!Trimmed(b))] = b[Len(b)]
<1> DEFINE t == Undo!Trimmed(b)
           d == Len(b) - Len(t)
<1>1. /\ t \in Seq(Undo!UndoEntry) /\ Len(t) <= Len(b)
      /\ \A i \in 1..Len(t) : i + d \in 1..Len(b) /\ t[i] = b[i + d]
  BY TrimmedIs DEF Buffers
<1> HIDE DEF t
<1>2. Len(t) \in Nat /\ Len(b) \in Nat /\ d \in Nat /\ Len(t) + d = Len(b)
  BY <1>1
<1>2a. \A i \in 1..Len(t) : i # Len(t) => i + 1 \in 1..Len(t)
  BY <1>2
<1> HIDE DEF d
<1>3. ASSUME NEW i \in 1..Len(t), NEW q \in Path
      PROVE  t[i].before[q] = IF q = t[i].path THEN t[i].previous
                              ELSE IF i = Len(t) THEN f[q] ELSE t[i + 1].before[q]
  <2>1. PICK j \in 1..Len(b) : j = i + d
    BY <1>1
  <2>2. t[i] = b[j]
    BY <1>1, <2>1
  <2>3. (i # Len(t) => i + 1 \in 1..Len(t)) /\ (i + 1) + d = j + 1
    BY <1>2, <1>2a, <2>1
  <2>4. i # Len(t) => t[i + 1] = b[j + 1]
    BY <1>1, <2>3
  <2>5. i = Len(t) <=> j = Len(b)
    BY <1>2, <2>1
  <2>6. b[j].before[q] = IF q = b[j].path THEN b[j].previous
                         ELSE IF j = Len(b) THEN f[q] ELSE b[j + 1].before[q]
    BY DEF Leads
  <2> QED BY <2>2, <2>4, <2>5, <2>6
<1>4. t # <<>> => t[Len(t)] = b[Len(b)]
  <2>1. t # <<>> => Len(t) \in 1..Len(t)
    BY <1>1, <1>2
  <2>2. t # <<>> => t[Len(t)] = b[Len(t) + d]
    BY <1>1, <2>1
  <2> QED BY <1>2, <2>2
<1> QED BY <1>3, <1>4 DEF Leads, t

\* The entry of a write.
LEMMA LeadsAppend ==
    ASSUME Undo!UndoAssumption, NEW b \in Seq(Undo!UndoEntry), NEW f, Leads(b, f),
           NEW e \in Undo!UndoEntry,
           e.before = f, e.previous = f[e.path], NEW g, \A q \in Path : q # e.path => g[q] = f[q]
    PROVE  Leads(Append(b, e), g) /\ Append(b, e)[Len(Append(b, e))] = e
<1> DEFINE n == Len(b)
           more == Append(b, e)
<1>1. n \in Nat /\ Len(more) = n + 1 /\ more[n + 1] = e /\ \A i \in 1..n : more[i] = b[i]
  OBVIOUS
<1>2. ASSUME NEW i \in 1..(n + 1), NEW q \in Path
      PROVE  more[i].before[q] = IF q = more[i].path THEN more[i].previous
                                 ELSE IF i = n + 1 THEN g[q] ELSE more[i + 1].before[q]
  <2>1. CASE i = n + 1
    BY <1>1, <2>1
  <2>2. CASE i # n + 1
    <3>1. i \in 1..n /\ more[i] = b[i] /\ i + 1 \in 1..(n + 1)
      BY <1>1, <2>2
    <3>2. b[i].before[q] = IF q = b[i].path THEN b[i].previous
                           ELSE IF i = n THEN f[q] ELSE b[i + 1].before[q]
      BY <3>1 DEF Leads, n
    <3>3. i = n => more[i + 1].before[q] = f[q]
      BY <1>1
    <3>4. i # n => more[i + 1] = b[i + 1]
      BY <1>1, <3>1
    <3> HIDE DEF n, more
    <3> QED BY <2>2, <3>1, <3>2, <3>3, <3>4
  <2> QED BY <2>1, <2>2
<1> HIDE DEF more, n
<1>3. Leads(more, g)
  BY <1>1, <1>2 DEF Leads
<1> QED BY <1>1, <1>3 DEF more

\* The newest entry taken out, and its file put back.
LEMMA LeadsFront ==
    ASSUME NEW b \in Seq(Undo!UndoEntry), b # <<>>, NEW f, Leads(b, f), NEW g,
           \A q \in Path : g[q] = IF q = b[Len(b)].path THEN b[Len(b)].previous ELSE f[q]
    PROVE  Undo!Front(b) \in Seq(Undo!UndoEntry) /\ Leads(Undo!Front(b), g)
<1> DEFINE n == Len(b)
           less == Undo!Front(b)
<1>1. n \in Nat /\ n >= 1 /\ less = SubSeq(b, 1, n - 1)
  BY DEF Undo!Front
<1>2. n - 1 \in Nat /\ n - 1 <= n /\ 1 \in 1..n /\ (n - 1) - 1 + 1 = n - 1 /\ n - 1 \in 0..n
  BY <1>1
<1>3. less \in Seq(Undo!UndoEntry) /\ Len(less) = n - 1 /\ \A i \in 1..(n - 1) : less[i] = b[i]
  BY <1>1, <1>2
<1> HIDE DEF less
<1>4. ASSUME NEW i \in 1..(n - 1), NEW q \in Path
      PROVE  less[i].before[q] = IF q = less[i].path THEN less[i].previous
                                 ELSE IF i = n - 1 THEN g[q] ELSE less[i + 1].before[q]
  <2>1. i \in 1..n /\ i # n /\ (i # n - 1 => i + 1 \in 1..(n - 1))
    BY <1>1
  <2>2. b[i].before[q] = IF q = b[i].path THEN b[i].previous ELSE b[i + 1].before[q]
    BY <2>1 DEF Leads
  <2>3. i = n - 1 => b[i + 1].before[q] = g[q]
    <3>1. n \in 1..n /\ b[n].before[q] = IF q = b[n].path THEN b[n].previous ELSE f[q]
      BY <1>1 DEF Leads
    <3>2. i = n - 1 => i + 1 = n
      BY <1>1
    <3> QED BY <3>1, <3>2
  <2>4. less[i] = b[i] /\ (i # n - 1 => less[i + 1] = b[i + 1])
    BY <1>3, <2>1
  <2> QED BY <2>2, <2>3, <2>4
<1> HIDE DEF n
<1> QED BY <1>3, <1>4 DEF Leads, less

-----------------------------------------------------------------------------
(* The steps of the undo buffer *)

UndoBusy == {"saved", "opened", "done"}

LEMMA UndoBegins ==
    ASSUME Undo!UndoAssumption, Undo!Init
    PROVE  UndoInv
<1>1. FileInit /\ mishap = {} /\ project \in [Path -> Content] /\ broken = FALSE
      /\ written = [calls |-> 0, files |-> 0, records |-> 0]
  BY UndoSame DEF Undo!Init, Undo!Projects, Content, FileInit, Undo!NoWrites
<1>2. UndoTypes
  BY <1>1, FileBegins DEF UndoTypes
<1>3. SoloInv /\ AllIdle /\ Undo!Buffer = <<>>
  BY <1>1, SoloBegins, UndoSame DEF Undo!Buffer
<1>4. LeadsInv
  BY <1>3 DEF LeadsInv, Leads, AtWork, AllIdle
<1>5. {c \in Client : Writing(c)} = {} /\ {c \in Client : op[c].at = "done"} = {}
  BY <1>3 DEF AllIdle, Writing, AtWork
<1>6. Counted
  <2>1. Cardinality({}) = 0
    BY FS_EmptySet
  <2>2. /\ written \in [calls: 0..MaxWrites, files: Nat, records: Nat]
        /\ written.calls = 0 /\ written.files = 0 /\ written.records = 0
    BY <1>1, UndoAssumed
  <2> DEFINE W == {c \in Client : Writing(c)}
             E == {c \in Client : op[c].at = "done"}
  <2>3. Cardinality(W) = 0 /\ Cardinality(E) = 0
    BY <1>5, <2>1
  <2> HIDE DEF W, E
  <2>4. written.files + Cardinality(W) <= written.calls
        /\ written.records + Cardinality(E) <= written.files
    BY <2>2, <2>3
  <2> QED BY <2>2, <2>4 DEF Counted, W, E
<1> QED BY <1>2, <1>3, <1>4, <1>6 DEF UndoInv

LEMMA BufferIs ==
    Undo!Buffer = Contents(<<>>) /\ Undo!Buffer' = Contents(<<>>)'
BY DEF Undo!Buffer, Undo!Contents, Contents

LEMMA BufferType ==
    ASSUME Undo!UndoAssumption, UndoTypes
    PROVE  Undo!Buffer \in Buffers /\ Undo!Buffer \in Seq(Undo!UndoEntry)
<1>1. <<>> \in Buffers
  BY UndoAssumed DEF Buffers
<1> QED BY <1>1, ContentsType, UndoSame DEF UndoTypes, Undo!Buffer, Buffers

\* Sets of clients that gain or lose one.
LEMMA ClientSets ==
    ASSUME IsFiniteSet(Client), NEW S, NEW T, S \subseteq Client, T \subseteq Client, NEW c
    PROVE  /\ Cardinality(S) \in Nat /\ Cardinality(T) \in Nat
           /\ T \subseteq S => Cardinality(T) <= Cardinality(S)
           /\ T \subseteq S \cup {c} => Cardinality(T) <= Cardinality(S) + 1
           /\ c \in S /\ T \subseteq S \ {c} => Cardinality(T) <= Cardinality(S) - 1
<1>1. IsFiniteSet(S) /\ IsFiniteSet(T) /\ Cardinality(S) \in Nat /\ Cardinality(T) \in Nat
  BY FS_Subset, FS_CardinalityType
<1>2. ASSUME T \subseteq S PROVE Cardinality(T) <= Cardinality(S)
  BY <1>1, <1>2, FS_Subset
<1>3. ASSUME T \subseteq S \cup {c} PROVE Cardinality(T) <= Cardinality(S) + 1
  <2>1. IsFiniteSet(S \cup {c}) /\ Cardinality(S \cup {c}) <= Cardinality(S) + 1
        /\ Cardinality(S \cup {c}) \in Nat
    <3>1. IsFiniteSet(S \cup {c})
          /\ Cardinality(S \cup {c}) = IF c \in S THEN Cardinality(S) ELSE Cardinality(S) + 1
      BY <1>1, FS_AddElement
    <3> QED BY <1>1, <3>1
  <2>2. Cardinality(T) <= Cardinality(S \cup {c})
    BY <1>3, <2>1, FS_Subset
  <2> QED BY <1>1, <2>1, <2>2
<1>4. ASSUME c \in S, T \subseteq S \ {c} PROVE Cardinality(T) <= Cardinality(S) - 1
  <2>1. IsFiniteSet(S \ {c}) /\ Cardinality(S \ {c}) = Cardinality(S) - 1
    BY <1>1, <1>4, FS_RemoveElement
  <2>2. Cardinality(T) <= Cardinality(S \ {c})
    BY <1>4, <2>1, FS_Subset
  <2> QED BY <2>1, <2>2
<1> QED BY <1>1, <1>2, <1>3, <1>4

\* Calls may leave the counted ones, and what is written stays as it is.
LEMMA CountedStays ==
    ASSUME Undo!UndoAssumption, Counted, written' = written,
           {c \in Client : Writing(c)'} \subseteq {c \in Client : Writing(c)},
           {c \in Client : op'[c].at = "done"} \subseteq {c \in Client : op[c].at = "done"}
    PROVE  Counted'
<1> DEFINE W == {c \in Client : Writing(c)}
           V == {c \in Client : Writing(c)'}
           E == {c \in Client : op[c].at = "done"}
           F == {c \in Client : op'[c].at = "done"}
<1>1. /\ Cardinality(W) \in Nat /\ Cardinality(V) \in Nat /\ Cardinality(V) <= Cardinality(W)
      /\ Cardinality(E) \in Nat /\ Cardinality(F) \in Nat /\ Cardinality(F) <= Cardinality(E)
  BY ClientSets, UndoAssumed DEF FileAssumption
<1>2. /\ written \in [calls: 0..MaxWrites, files: Nat, records: Nat]
      /\ written.files + Cardinality(W) <= written.calls
      /\ written.records + Cardinality(E) <= written.files
  BY DEF Counted
<1> HIDE DEF W, V, E, F
<1>3. /\ written'.files + Cardinality(V) <= written'.calls
      /\ written'.records + Cardinality(F) <= written'.files
  BY <1>1, <1>2
<1> QED BY <1>2, <1>3 DEF Counted, V, F

\* A call that begins alone with a buffer that leads back.
LEMMA UndoCallKeeps ==
    ASSUME Undo!UndoAssumption, UndoInv, Counted', NEW c \in Client, NEW call \in UndoCall,
           NEW data \in Buffers, BeginSave(c, call, data), UNCHANGED <<project, broken>>,
           Leads(Undo!Buffer, project) =>
              /\ Leads(data, Aim(call))
              /\ call.do = "write" /\ data # <<>> => data[Len(data)].path = call.path
    PROVE  UndoInv'
<1>1. PICK D, C : D = Buffers /\ C = UndoCall
  OBVIOUS
<1>2. D = Buffers' /\ C = UndoCall'
  BY <1>1 DEF Buffers, UndoCall, Undo!UndoEntry, Content
<1>3. FileTypes(D, C)'
  BY <1>1, FileCall DEF UndoInv, UndoTypes
<1>4. UndoTypes'
  BY <1>2, <1>3
    DEF UndoInv, UndoTypes, FileTypes, DiskTypes, OpTypes, NodeText, Op, Content
<1>5. ASSUME "overlap" \notin mishap'
      PROVE  SoloInv' /\ (~broken' => LeadsInv')
  <2>1. "overlap" \notin mishap
    BY <1>5 DEF BeginSave, Load
  <2>2. /\ AllIdle /\ SoloInv' /\ Undo!Buffer' = Undo!Buffer
        /\ \A d \in Client : op'[d].at # "idle" => d = c
        /\ op'[c].at = "save" /\ op'[c].call = call /\ op'[c].data = data
    BY <1>5, <2>1, BeginSolo, BufferIs DEF UndoInv, UndoTypes
  <2>3. ASSUME ~broken' PROVE LeadsInv'
    <3>1. Leads(Undo!Buffer, project)
      BY <2>1, <2>2, <2>3 DEF UndoInv, LeadsInv, Undo!HalfUndone, AllIdle
    <3>2. Leads(Undo!Buffer, project)'
      BY <2>2, <3>1 DEF Leads
    <3>3. Aim(call)' = Aim(call)
      BY DEF Aim
    <3>4. ASSUME NEW d \in Client, AtWork(d)'
          PROVE  /\ Leads(op[d].data, Aim(op[d].call))'
                 /\ op'[d].call.do = "write" /\ op'[d].data # <<>> =>
                       op'[d].data[Len(op'[d].data)].path = op'[d].call.path
      <4>1. d = c
        BY <2>2, <3>4 DEF AtWork
      <4>2. op'[d].data = data /\ op'[d].call = call
        BY <2>2, <4>1
      <4>3. Leads(op[d].data, Aim(op[d].call))' <=> Leads(data, Aim(call)')
        BY <4>2 DEF Leads, Aim
      <4> QED BY <3>1, <3>3, <4>2, <4>3
    <3> QED BY <3>2, <3>4 DEF LeadsInv
  <2> QED BY <2>2, <2>3
<1> QED BY <1>4, <1>5 DEF UndoInv

LEMMA FsWriteKeeps ==
    ASSUME Undo!UndoAssumption, UndoInv, NEW c \in Client, NEW p \in Path, NEW t \in Text,
           Undo!FsWrite(c, p, t)
    PROVE  UndoInv'
<1> DEFINE e == [path |-> p, previous |-> project[p], before |-> project]
           call == [do |-> "write", path |-> p, text |-> t]
           more == Append(Undo!Buffer, e)
<1>1. /\ BeginSave(c, call, Undo!Trimmed(more)) /\ written.calls < MaxWrites
      /\ written' = [written EXCEPT !.calls = @ + 1] /\ UNCHANGED <<project, broken>>
  BY UndoSame DEF Undo!FsWrite
<1>2. UndoTypes /\ Counted
  BY DEF UndoInv
<1>3. e \in Undo!UndoEntry /\ e.before = project /\ e.previous = project[p] /\ e.path = p
  BY <1>2 DEF UndoTypes, Undo!UndoEntry, Content
<1>4. call \in UndoCall /\ call.do = "write" /\ call.path = p
  BY DEF UndoCall, Content
<1>5. Undo!Buffer \in Seq(Undo!UndoEntry)
  BY <1>2, BufferType
<1> HIDE DEF e, call
<1>6. more \in Seq(Undo!UndoEntry)
  BY <1>3, <1>5
<1>7. Undo!Trimmed(more) \in Buffers
  BY <1>6, TrimmedIs
<1>8. ASSUME Leads(Undo!Buffer, project)
      PROVE  /\ Leads(Undo!Trimmed(more), Aim(call))
             /\ Undo!Trimmed(more) # <<>> =>
                   Undo!Trimmed(more)[Len(Undo!Trimmed(more))].path = p
  <2>1. \A q \in Path : Aim(call)[q] = project[q]
    BY <1>4 DEF Aim
  <2>2. Leads(more, Aim(call)) /\ more[Len(more)] = e
    BY <1>3, <1>5, <1>8, <2>1, LeadsAppend
  <2> HIDE DEF more
  <2> QED BY <1>3, <1>6, <2>2, LeadsTrimmed
<1>9. Counted'
  <2> DEFINE W == {d \in Client : Writing(d)}
             V == {d \in Client : Writing(d)'}
             E == {d \in Client : op[d].at = "done"}
             F == {d \in Client : op'[d].at = "done"}
  <2>1. /\ \A d \in Client : d # c => op'[d] = op[d]
        /\ op'[c].at = "save"
    BY <1>1, <1>2 DEF BeginSave, UndoTypes, FileTypes, OpTypes
  <2>2. V \subseteq W \cup {c} /\ F \subseteq E
    BY <2>1 DEF Writing, AtWork
  <2>3. /\ Cardinality(W) \in Nat /\ Cardinality(V) \in Nat /\ Cardinality(V) <= Cardinality(W) + 1
        /\ Cardinality(E) \in Nat /\ Cardinality(F) \in Nat /\ Cardinality(F) <= Cardinality(E)
    BY <2>2, ClientSets, UndoAssumed DEF FileAssumption
  <2>4. /\ written \in [calls: 0..MaxWrites, files: Nat, records: Nat]
        /\ written.files + Cardinality(W) <= written.calls
        /\ written.records + Cardinality(E) <= written.files
    BY <1>2 DEF Counted
  <2> HIDE DEF W, V, E, F
  <2>5. /\ written'.calls = written.calls + 1 /\ written'.files = written.files
        /\ written'.records = written.records
        /\ written' \in [calls: 0..MaxWrites, files: Nat, records: Nat]
    BY <1>1, <2>4, UndoAssumed
  <2>6. /\ written'.files + Cardinality(V) <= written'.calls
        /\ written'.records + Cardinality(F) <= written'.files
    BY <2>3, <2>4, <2>5
  <2> QED BY <2>5, <2>6 DEF Counted, V, F
<1> HIDE DEF more
<1>10. PICK data : data = Undo!Trimmed(more)
  OBVIOUS
<1>11. PICK k : k = call
  OBVIOUS
<1> QED BY <1>1, <1>4, <1>7, <1>8, <1>9, <1>10, <1>11, UndoCallKeeps

LEMMA UndoLastKeeps ==
    ASSUME Undo!UndoAssumption, UndoInv, NEW c \in Client, Undo!UndoLast(c)
    PROVE  UndoInv'
<1> DEFINE b == Undo!Buffer
           e == b[Len(b)]
           less == Undo!Front(b)
           call == [do |-> "undo", path |-> e.path, text |-> e.previous]
<1>1. /\ b # <<>> /\ BeginSave(c, call, Undo!Trimmed(less))
      /\ UNCHANGED <<project, written, broken>>
  BY UndoSame DEF Undo!UndoLast, Undo!undovars, Undo!Last
<1>2. UndoTypes /\ Counted
  BY DEF UndoInv
<1>3. b \in Seq(Undo!UndoEntry)
  BY <1>2, BufferType
<1> HIDE DEF b
<1>4. e \in Undo!UndoEntry
  BY <1>1, <1>3
<1> HIDE DEF e
<1>5. call \in UndoCall /\ call.do = "undo" /\ call.path = e.path /\ call.text = e.previous
  BY <1>4 DEF Undo!UndoEntry, UndoCall, Content
<1> HIDE DEF call
<1>6. \A q \in Path : Aim(call)[q] = IF q = e.path THEN e.previous ELSE project[q]
  BY <1>5 DEF Aim
<1>7. less \in Seq(Undo!UndoEntry)
  <2>1. Undo!Front(b) = SubSeq(b, 1, Len(b) - 1) /\ Len(b) \in Nat
    BY <1>3 DEF Undo!Front
  <2> QED BY <1>3, <2>1
<1>8. ASSUME Leads(b, project) PROVE Leads(Undo!Trimmed(less), Aim(call))
  <2>1. Leads(less, Aim(call))
    BY <1>1, <1>3, <1>6, <1>8, LeadsFront DEF e
  <2> HIDE DEF less
  <2> QED BY <1>7, <2>1, LeadsTrimmed
<1> HIDE DEF less
<1>9. Undo!Trimmed(less) \in Buffers
  BY <1>7, TrimmedIs
<1>10. Counted'
  <2>1. /\ \A d \in Client : d # c => op'[d] = op[d]
        /\ op'[c].at = "save" /\ op'[c].call = call
    BY <1>1, <1>2 DEF BeginSave, UndoTypes, FileTypes, OpTypes
  <2>2. /\ \A d \in Client : Writing(d)' => Writing(d)
        /\ \A d \in Client : op'[d].at = "done" => op[d].at = "done"
    BY <1>5, <2>1 DEF Writing, AtWork
  <2> QED BY <1>1, <1>2, <2>2, CountedStays
<1>11. PICK data : data = Undo!Trimmed(less)
  OBVIOUS
<1>12. PICK k : k = call
  OBVIOUS
<1> QED BY <1>1, <1>5, <1>8, <1>9, <1>10, <1>11, <1>12, UndoCallKeeps DEF b

\* A step of a save, or its end: the project stays as it is.
LEMMA UndoSaveKeeps ==
    ASSUME Undo!UndoAssumption, UndoInv, NEW c \in Client,
           SaveStep(c) \/ ReplaceFails(c) \/ Die(c), UNCHANGED <<project, written>>,
           broken' \in BOOLEAN, ~broken' => ~broken,
           Die(c) /\ ~broken' => ~Undo!HalfUndone(c)
    PROVE  UndoInv'
<1>1. PICK D, C : D = Buffers /\ C = UndoCall
  OBVIOUS
<1>2. D = Buffers' /\ C = UndoCall'
  BY <1>1 DEF Buffers, UndoCall, Undo!UndoEntry, Content
<1>3. FileTypes(D, C) /\ project \in [Path -> Content] /\ Counted
  BY <1>1 DEF UndoInv, UndoTypes
<1>4. FileTypes(D, C)'
  BY <1>3, FileStep, UndoAssumed
<1>5. UndoTypes'
  BY <1>2, <1>3, <1>4 DEF UndoTypes, FileTypes, DiskTypes, OpTypes, NodeText, Op, Content
<1>6. op \in [Client -> Op(D, C)]
  BY <1>3 DEF FileTypes, OpTypes
<1>7. /\ \A d \in Client : d # c => op'[d] = op[d]
      /\ \/ op'[c].at = "idle"
         \/ /\ op[c].at \in {"save", "open", "written"} /\ op'[c].at \in {"open", "written", "saved"}
            /\ op'[c].call = op[c].call
  <2>1. CASE OpenTmp(c)
    BY <1>6, <2>1 DEF OpenTmp, Op
  <2>2. CASE WriteTmp(c)
    BY <1>6, <2>2 DEF WriteTmp, Op
  <2>3. CASE ReplaceFile(c)
    BY <1>6, <2>3 DEF ReplaceFile, Op
  <2>4. CASE ReplaceFails(c) \/ Die(c)
    BY <1>6, <2>4 DEF ReplaceFails, Die, Idle
  <2> QED BY <2>1, <2>2, <2>3, <2>4 DEF SaveStep
<1>8. Counted'
  <2>1. /\ \A d \in Client : Writing(d)' => Writing(d)
        /\ \A d \in Client : op'[d].at = "done" => op[d].at = "done"
    BY <1>7 DEF Writing, AtWork
  <2> QED BY <1>3, <2>1, CountedStays
<1>9. "overlap" \notin mishap' => "overlap" \notin mishap
  BY DEF SaveStep, OpenTmp, WriteTmp, ReplaceFile, ReplaceFails, Die
<1>10. SaveStep(c) \/ ReplaceFails(c) => op[c].at \in {"save", "open", "written"}
  BY DEF SaveStep, OpenTmp, WriteTmp, ReplaceFile, ReplaceFails
<1>11. ASSUME "overlap" \notin mishap PROVE SoloInv' /\ Advance(c, <<>>)
  BY <1>3, <1>11, SaveSolo, UndoAssumed DEF UndoInv
<1>12. ASSUME "overlap" \notin mishap', ~broken' PROVE LeadsInv'
  <2>1. "overlap" \notin mishap /\ LeadsInv
    BY <1>9, <1>12 DEF UndoInv
  <2>2. Advance(c, <<>>)
    BY <1>11, <2>1
  <2>3. \A d \in Client : d # c => op'[d] = op[d] /\ op[d].at = "idle"
    BY <2>2 DEF Advance
  <2>4. CASE op'[c].at = "idle"
    <3>1. Undo!Buffer' = Undo!Buffer
      BY <2>2, <2>4, BufferIs DEF Advance
    <3>2. \A d \in Client : ~Undo!HalfUndone(d)
      BY <1>10, <1>12, <2>3 DEF Undo!HalfUndone
    <3>3. Leads(Undo!Buffer, project)'
      BY <2>1, <3>1, <3>2 DEF LeadsInv, Leads
    <3> QED BY <2>3, <2>4, <3>3 DEF LeadsInv, AtWork
  <2>5. CASE op'[c].at # "idle"
    <3>1. /\ op[c].at \in {"save", "open", "written"} /\ op'[c].at \in {"open", "written", "saved"}
          /\ op'[c].call = op[c].call /\ op'[c].data = op[c].data
          /\ Undo!Buffer' = IF op'[c].at = "saved" THEN op[c].data ELSE Undo!Buffer
      BY <2>2, <2>5, BufferIs DEF Advance
    <3>2. PICK call, data : call = op[c].call /\ data = op[c].data
      OBVIOUS
    <3>3. /\ Leads(data, Aim(call)) /\ Aim(call)' = Aim(call)
          /\ call.do = "write" /\ data # <<>> => data[Len(data)].path = call.path
      BY <2>1, <3>1, <3>2 DEF LeadsInv, AtWork, Aim
    <3>4. ASSUME NEW d \in Client, AtWork(d)'
          PROVE  /\ Leads(op[d].data, Aim(op[d].call))'
                 /\ op'[d].call.do = "write" /\ op'[d].data # <<>> =>
                       op'[d].data[Len(op'[d].data)].path = op'[d].call.path
      <4>1. d = c
        BY <2>3, <3>4 DEF AtWork
      <4>2. op'[d].data = data /\ op'[d].call = call
        BY <3>1, <3>2, <4>1
      <4>3. Leads(op[d].data, Aim(op[d].call))' <=> Leads(data, Aim(call)')
        BY <4>2 DEF Leads, Aim
      <4> QED BY <3>3, <4>2, <4>3
    <3>5. ASSUME \A d \in Client : ~Undo!HalfUndone(d)' PROVE Leads(Undo!Buffer, project)'
      <4>1. CASE op'[c].at = "saved"
        <5>1. call.do # "undo"
          BY <3>1, <3>2, <3>5, <4>1 DEF Undo!HalfUndone
        <5>2. \A q \in Path : Aim(call)[q] = project[q]
          BY <5>1 DEF Aim
        <5>3. Leads(data, project)
          BY <3>3, <5>2 DEF Leads
        <5>4. Undo!Buffer' = data
          BY <3>1, <3>2, <4>1
        <5> QED BY <5>3, <5>4 DEF Leads
      <4>2. CASE op'[c].at # "saved"
        <5>1. \A d \in Client : ~Undo!HalfUndone(d)
          BY <2>3, <3>1 DEF Undo!HalfUndone
        <5>2. Leads(Undo!Buffer, project) /\ Undo!Buffer' = Undo!Buffer
          BY <2>1, <3>1, <4>2, <5>1 DEF LeadsInv
        <5> QED BY <5>2 DEF Leads
      <4> QED BY <4>1, <4>2
    <3> QED BY <3>4, <3>5 DEF LeadsInv
  <2> QED BY <2>4, <2>5
<1> QED BY <1>5, <1>8, <1>9, <1>11, <1>12 DEF UndoInv

\* A step on the project, from k1 to k2 of a call that has saved its entry.
LEMMA UndoMoves ==
    ASSUME Undo!UndoAssumption, UndoInv, NEW c \in Client, op[c].at \in UndoBusy,
           UNCHANGED <<disk, real, tmp, mishap, broken>>, project' \in [Path -> Content],
           NEW k, op' = [op EXCEPT ![c] = k],
           k = Idle \/ (/\ k \in Op(Buffers, UndoCall) /\ k.at \in UndoBusy
                        /\ k.call = op[c].call /\ k.data = op[c].data)
    PROVE  /\ UndoTypes'
           /\ "overlap" \notin mishap => SoloInv' /\ op[c].data = Undo!Buffer
           /\ Undo!Buffer' = Undo!Buffer
           /\ \A d \in Client : d # c => op'[d] = op[d]
           /\ op'[c] = k
           /\ "overlap" \notin mishap => \A d \in Client : d # c => op[d].at = "idle"
<1>1. PICK D, C : D = Buffers /\ C = UndoCall
  OBVIOUS
<1>2. D = Buffers' /\ C = UndoCall'
  BY <1>1 DEF Buffers, UndoCall, Undo!UndoEntry, Content
<1>3. FileTypes(D, C) /\ OpTypes(D, C) /\ broken \in BOOLEAN
  BY <1>1 DEF UndoInv, UndoTypes, FileTypes
<1>4. /\ k \in Op(D, C) /\ (k.at # "idle" => k.call \in C /\ k.data \in D)
      /\ k.at \in UndoBusy \cup {"idle"}
  <2>1. op[c].at # "idle" => op[c].call \in C /\ op[c].data \in D
    BY <1>3 DEF OpTypes
  <2>2. CASE k = Idle
    BY <2>2 DEF Idle, Op
  <2>3. CASE k # Idle
    BY <1>1, <2>1, <2>3 DEF UndoBusy
  <2> QED BY <2>2, <2>3
<1>5. OpTypes(D, C)'
  BY <1>3, <1>4, OneOp DEF UndoBusy
<1>6. FileTypes(D, C)'
  BY <1>3, <1>5 DEF FileTypes, DiskTypes
<1>7. UndoTypes'
  BY <1>2, <1>3, <1>6 DEF UndoTypes, FileTypes, DiskTypes, OpTypes, NodeText, Op, Content
<1>8. op'[c] = k /\ \A d \in Client : d # c => op'[d] = op[d]
  BY <1>3 DEF OpTypes
<1>9. Undo!Buffer' = Undo!Buffer
  BY DEF Undo!Buffer, Undo!Contents
<1>10. ASSUME "overlap" \notin mishap
       PROVE  /\ SoloInv' /\ op[c].data = Undo!Buffer
              /\ \A d \in Client : d # c => op[d].at = "idle"
  <2>1. SoloInv
    BY <1>10 DEF UndoInv
  <2>2. \A d \in Client : d # c => op[d].at = "idle"
    BY <2>1 DEF SoloInv, Busy, UndoBusy
  <2>3. op[c].data = Undo!Buffer /\ real # None /\ disk[real].data = op[c].data
    BY <2>1, SavedContents, BufferIs DEF UndoBusy, SoloInv
  <2>4. k.at # "idle" => k.data = op[c].data
    BY DEF Idle
  <2>5. SoloInv'
    BY <1>4, <1>8, <2>1, <2>2, <2>3, <2>4 DEF SoloInv, Busy, UndoBusy
  <2> QED BY <2>2, <2>3, <2>5
<1> QED BY <1>7, <1>8, <1>9, <1>10

\* How a change of the file of the call leads on.
LEMMA FileMoves ==
    ASSUME Undo!UndoAssumption, UndoInv, "overlap" \notin mishap, ~broken, NEW c \in Client,
           op[c].at \in {"saved", "opened"}, op[c].data = Undo!Buffer,
           NEW x, project' = [project EXCEPT ![op[c].call.path] = x],
           NEW call, call = op[c].call
    PROVE  /\ Leads(Undo!Buffer, Aim(call)')
           /\ call.do # "undo" => Leads(Undo!Buffer, project')
           /\ x = call.text => Leads(Undo!Buffer, project')
<1> DEFINE b == Undo!Buffer
           p == call.path
<1>1. LeadsInv /\ project \in [Path -> Content] /\ call \in UndoCall
  BY DEF UndoInv, UndoTypes, FileTypes, OpTypes
<1>2. /\ Leads(b, Aim(call))
      /\ call.do = "write" /\ b # <<>> => b[Len(b)].path = p
  BY <1>1 DEF LeadsInv, AtWork
<1>3. /\ p \in Path /\ call.do \in {"write", "undo"}
      /\ \A q \in Path : project'[q] = IF q = p THEN x ELSE project[q]
  BY <1>1 DEF UndoCall
<1> HIDE DEF b
<1>4. \A q \in Path : q # p => Aim(call)[q] = Aim(call)'[q] /\ Aim(call)[q] = project'[q]
  BY <1>3 DEF Aim
<1>5. call.do = "undo" => Aim(call)[p] = call.text /\ Aim(call)'[p] = call.text
  BY <1>3 DEF Aim
<1>6. Leads(b, Aim(call)')
  <2>1. PICK f, g : f = Aim(call) /\ g = Aim(call)'
    OBVIOUS
  <2>2. b = <<>> \/ b[Len(b)].path = p \/ f[p] = g[p]
    BY <1>2, <1>3, <1>5, <2>1
  <2>3. Leads(b, f) /\ \A q \in Path : q # p => f[q] = g[q]
    BY <1>2, <1>4, <2>1
  <2>4. Leads(b, g)
    BY <2>2, <2>3, LeadsElsewhere
  <2> QED BY <2>1, <2>4
<1>7. ASSUME call.do # "undo" \/ x = call.text PROVE Leads(b, project')
  <2>1. PICK f : f = project'
    OBVIOUS
  <2>2. f[p] = x
    BY <1>3, <2>1
  <2>3. PICK g : g = Aim(call)
    OBVIOUS
  <2>4. b = <<>> \/ b[Len(b)].path = p \/ g[p] = f[p]
    BY <1>2, <1>3, <1>5, <1>7, <2>2, <2>3
  <2>5. Leads(b, g) /\ \A q \in Path : q # p => g[q] = f[q]
    BY <1>2, <1>4, <2>1, <2>3
  <2>6. Leads(b, f)
    BY <2>4, <2>5, LeadsElsewhere
  <2> QED BY <2>1, <2>6
<1> QED BY <1>6, <1>7 DEF b

LEMMA OpenFileKeeps ==
    ASSUME Undo!UndoAssumption, UndoInv, NEW c \in Client, Undo!OpenFile(c)
    PROVE  UndoInv'
<1> DEFINE k == [op[c] EXCEPT !.at = "opened"]
<1>1. /\ op[c].at = "saved" /\ project' = [project EXCEPT ![op[c].call.path] = "part"]
      /\ UNCHANGED <<disk, real, tmp, mishap, written, broken>>
  BY DEF Undo!OpenFile
<1>2. project \in [Path -> Content] /\ op \in [Client -> Op(Buffers, UndoCall)] /\ Counted
  BY DEF UndoInv, UndoTypes, FileTypes, OpTypes
<1>3. op' = [op EXCEPT ![c] = k]
  BY <1>2 DEF Undo!OpenFile, Op
<1>4. k \in Op(Buffers, UndoCall) /\ k.at = "opened" /\ k.call = op[c].call /\ k.data = op[c].data
  BY <1>2 DEF Op
<1> HIDE DEF k
<1>5. project' \in [Path -> Content]
  BY <1>1, <1>2 DEF Content
<1>6. /\ UndoTypes' /\ op'[c] = k /\ \A d \in Client : d # c => op'[d] = op[d]
      /\ Undo!Buffer' = Undo!Buffer
      /\ "overlap" \notin mishap => /\ SoloInv' /\ op[c].data = Undo!Buffer
                                    /\ \A d \in Client : d # c => op[d].at = "idle"
  BY <1>1, <1>3, <1>4, <1>5, UndoMoves DEF UndoBusy
<1>7. Counted'
  <2>1. /\ \A d \in Client : Writing(d)' => Writing(d)
        /\ \A d \in Client : op'[d].at = "done" => op[d].at = "done"
    BY <1>1, <1>4, <1>6 DEF Writing, AtWork
  <2> QED BY <1>1, <1>2, <2>1, CountedStays
<1>8. ASSUME "overlap" \notin mishap, ~broken PROVE LeadsInv'
  <2>1. PICK call, b : call = op[c].call /\ b = Undo!Buffer
    OBVIOUS
  <2>2. Leads(b, Aim(call)') /\ (call.do # "undo" => Leads(b, project'))
    BY <1>1, <1>6, <1>8, <2>1, FileMoves
  <2>3. call.do = "write" /\ b # <<>> => b[Len(b)].path = call.path
    BY <1>1, <1>6, <1>8, <2>1 DEF UndoInv, LeadsInv, AtWork
  <2>4. ASSUME NEW d \in Client, AtWork(d)'
        PROVE  /\ Leads(op[d].data, Aim(op[d].call))'
               /\ op'[d].call.do = "write" /\ op'[d].data # <<>> =>
                     op'[d].data[Len(op'[d].data)].path = op'[d].call.path
    <3>1. d = c
      BY <1>6, <1>8, <2>4 DEF AtWork
    <3>2. op'[d].data = b /\ op'[d].call = call
      BY <1>4, <1>6, <1>8, <2>1, <3>1
    <3>3. Leads(op[d].data, Aim(op[d].call))' <=> Leads(b, Aim(call)')
      BY <3>2 DEF Leads, Aim
    <3> QED BY <2>2, <2>3, <3>2, <3>3
  <2>5. ASSUME \A d \in Client : ~Undo!HalfUndone(d)' PROVE Leads(Undo!Buffer, project)'
    <3>1. call.do # "undo"
      BY <1>4, <1>6, <2>1, <2>5 DEF Undo!HalfUndone
    <3> QED BY <1>6, <2>1, <2>2, <3>1 DEF Leads
  <2> QED BY <2>4, <2>5 DEF LeadsInv
<1> QED BY <1>1, <1>6, <1>7, <1>8 DEF UndoInv

\* A call that has come to the end of its change of the project.
LEMMA ProjectEnds ==
    ASSUME UndoInv, UndoTypes', Counted', NEW c \in Client, op'[c].at \in {"idle", "done"},
           mishap' = mishap, broken' = broken, Undo!Buffer' = Undo!Buffer,
           "overlap" \notin mishap => SoloInv' /\ \A d \in Client : d # c => op'[d].at = "idle",
           "overlap" \notin mishap /\ ~broken => Leads(Undo!Buffer, project')
    PROVE  UndoInv'
<1>1. ASSUME "overlap" \notin mishap, ~broken PROVE LeadsInv'
  <2>1. \A d \in Client : ~AtWork(d)'
    BY <1>1 DEF AtWork
  <2>2. Leads(Undo!Buffer, project)'
    BY <1>1 DEF Leads
  <2> QED BY <2>1, <2>2 DEF LeadsInv
<1> QED BY <1>1 DEF UndoInv

LEMMA WriteFileKeeps ==
    ASSUME Undo!UndoAssumption, UndoInv, NEW c \in Client, Undo!WriteFile(c)
    PROVE  UndoInv'
<1> DEFINE k == IF op[c].call.do = "write" THEN [op[c] EXCEPT !.at = "done"] ELSE Idle
<1>1. /\ op[c].at = "opened" /\ project' = [project EXCEPT ![op[c].call.path] = op[c].call.text]
      /\ UNCHANGED <<disk, real, tmp, mishap, broken>>
      /\ op[c].call.do = "write" => written' = [written EXCEPT !.files = @ + 1]
      /\ op[c].call.do # "write" => written' = written
  BY DEF Undo!WriteFile
<1>2. project \in [Path -> Content] /\ op \in [Client -> Op(Buffers, UndoCall)] /\ Counted
      /\ op[c].call \in UndoCall
  BY <1>1 DEF UndoInv, UndoTypes, FileTypes, OpTypes
<1>3. op' = [op EXCEPT ![c] = k]
  BY <1>2, UndoSame DEF Undo!WriteFile, Op, Undo!Idle, Idle
<1>4. k = Idle \/ (/\ k \in Op(Buffers, UndoCall) /\ k.at = "done"
                   /\ k.call = op[c].call /\ k.data = op[c].data)
  BY <1>2 DEF Op
<1>5. k.at \in {"idle", "done"} /\ (k.at = "done" => op[c].call.do = "write")
  BY <1>2 DEF Op, Idle
<1> HIDE DEF k
<1>6. project' \in [Path -> Content]
  BY <1>1, <1>2 DEF UndoCall
<1>7. /\ UndoTypes' /\ op'[c] = k /\ \A d \in Client : d # c => op'[d] = op[d]
      /\ Undo!Buffer' = Undo!Buffer
      /\ "overlap" \notin mishap => /\ SoloInv' /\ op[c].data = Undo!Buffer
                                    /\ \A d \in Client : d # c => op[d].at = "idle"
  BY <1>1, <1>3, <1>4, <1>6, UndoMoves DEF UndoBusy
<1>8. Counted'
  <2>1. CASE op[c].call.do # "write"
    <3>1. /\ \A d \in Client : Writing(d)' => Writing(d)
          /\ \A d \in Client : op'[d].at = "done" => op[d].at = "done"
      BY <1>5, <1>7, <2>1 DEF Writing, AtWork
    <3> QED BY <1>1, <1>2, <2>1, <3>1, CountedStays
  <2>2. CASE op[c].call.do = "write"
    <3> DEFINE W == {d \in Client : Writing(d)}
               V == {d \in Client : Writing(d)'}
               E == {d \in Client : op[d].at = "done"}
               F == {d \in Client : op'[d].at = "done"}
    <3>1. c \in W /\ V \subseteq W \ {c} /\ F \subseteq E \cup {c}
      BY <1>1, <1>5, <1>7, <2>2 DEF Writing, AtWork
    <3>2. /\ Cardinality(W) \in Nat /\ Cardinality(V) \in Nat
          /\ Cardinality(V) <= Cardinality(W) - 1
          /\ Cardinality(E) \in Nat /\ Cardinality(F) \in Nat
          /\ Cardinality(F) <= Cardinality(E) + 1
      BY <3>1, ClientSets, UndoAssumed DEF FileAssumption
    <3>3. /\ written \in [calls: 0..MaxWrites, files: Nat, records: Nat]
          /\ written.files + Cardinality(W) <= written.calls
          /\ written.records + Cardinality(E) <= written.files
      BY <1>2 DEF Counted
    <3> HIDE DEF W, V, E, F
    <3>4. /\ written'.calls = written.calls /\ written'.files = written.files + 1
          /\ written'.records = written.records
          /\ written' \in [calls: 0..MaxWrites, files: Nat, records: Nat]
      BY <1>1, <2>2, <3>3
    <3>5. /\ written'.files + Cardinality(V) <= written'.calls
          /\ written'.records + Cardinality(F) <= written'.files
      BY <3>2, <3>3, <3>4
    <3> QED BY <3>4, <3>5 DEF Counted, V, F
  <2> QED BY <2>1, <2>2
<1>9. "overlap" \notin mishap /\ ~broken => Leads(Undo!Buffer, project')
  <2>1. PICK call : call = op[c].call
    OBVIOUS
  <2> QED BY <1>1, <1>7, <2>1, FileMoves
<1>10. "overlap" \notin mishap => \A d \in Client : d # c => op'[d].at = "idle"
  BY <1>7
<1> QED BY <1>1, <1>5, <1>7, <1>8, <1>9, <1>10, ProjectEnds

LEMMA RemoveFileKeeps ==
    ASSUME Undo!UndoAssumption, UndoInv, NEW c \in Client, Undo!RemoveFile(c)
    PROVE  UndoInv'
<1>1. /\ op[c].at = "saved" /\ op[c].call.text = None
      /\ project' = [project EXCEPT ![op[c].call.path] = None]
      /\ op' = [op EXCEPT ![c] = Idle]
      /\ UNCHANGED <<disk, real, tmp, mishap, written, broken>>
  BY DEF Undo!RemoveFile, Undo!Idle, Idle
<1>2. project \in [Path -> Content] /\ Counted
  BY DEF UndoInv, UndoTypes
<1>3. project' \in [Path -> Content]
  BY <1>1, <1>2 DEF Content
<1>4. /\ UndoTypes' /\ op'[c] = Idle /\ \A d \in Client : d # c => op'[d] = op[d]
      /\ Undo!Buffer' = Undo!Buffer
      /\ "overlap" \notin mishap => /\ SoloInv' /\ op[c].data = Undo!Buffer
                                    /\ \A d \in Client : d # c => op[d].at = "idle"
  BY <1>1, <1>3, UndoMoves DEF UndoBusy
<1>5. Counted'
  <2>1. /\ \A d \in Client : Writing(d)' => Writing(d)
        /\ \A d \in Client : op'[d].at = "done" => op[d].at = "done"
    BY <1>4 DEF Writing, AtWork, Idle
  <2> QED BY <1>1, <1>2, <2>1, CountedStays
<1>6. "overlap" \notin mishap /\ ~broken => Leads(Undo!Buffer, project')
  <2>1. PICK call : call = op[c].call
    OBVIOUS
  <2> QED BY <1>1, <1>4, <2>1, FileMoves
<1>7. "overlap" \notin mishap => SoloInv' /\ \A d \in Client : d # c => op'[d].at = "idle"
  BY <1>4
<1>8. op'[c].at \in {"idle", "done"} /\ mishap' = mishap /\ broken' = broken
  BY <1>1, <1>4 DEF Idle
<1> QED BY <1>4, <1>5, <1>6, <1>7, <1>8, ProjectEnds

LEMMA RecordWriteKeeps ==
    ASSUME Undo!UndoAssumption, UndoInv, NEW c \in Client, Undo!RecordWrite(c)
    PROVE  UndoInv'
<1>1. /\ op[c].at = "done" /\ op' = [op EXCEPT ![c] = Idle]
      /\ UNCHANGED <<disk, real, tmp, mishap, project, broken>>
      /\ written' = [written EXCEPT !.records = @ + 1] \/ written' = written
  BY DEF Undo!RecordWrite, Undo!Idle, Idle
<1>2. project' \in [Path -> Content] /\ Counted
  BY <1>1 DEF UndoInv, UndoTypes, Content
<1>3. /\ UndoTypes' /\ op'[c] = Idle /\ \A d \in Client : d # c => op'[d] = op[d]
      /\ Undo!Buffer' = Undo!Buffer
      /\ "overlap" \notin mishap => /\ SoloInv' /\ op[c].data = Undo!Buffer
                                    /\ \A d \in Client : d # c => op[d].at = "idle"
  BY <1>1, <1>2, UndoMoves DEF UndoBusy
<1>4. Counted'
  <2> DEFINE W == {d \in Client : Writing(d)}
             V == {d \in Client : Writing(d)'}
             E == {d \in Client : op[d].at = "done"}
             F == {d \in Client : op'[d].at = "done"}
  <2>1. V \subseteq W /\ c \in E /\ F \subseteq E \ {c}
    BY <1>1, <1>3 DEF Writing, AtWork, Idle
  <2>2. /\ Cardinality(W) \in Nat /\ Cardinality(V) \in Nat /\ Cardinality(V) <= Cardinality(W)
        /\ Cardinality(E) \in Nat /\ Cardinality(F) \in Nat
        /\ Cardinality(F) <= Cardinality(E) - 1
    BY <2>1, ClientSets, UndoAssumed DEF FileAssumption
  <2>3. /\ written \in [calls: 0..MaxWrites, files: Nat, records: Nat]
        /\ written.files + Cardinality(W) <= written.calls
        /\ written.records + Cardinality(E) <= written.files
    BY <1>2 DEF Counted
  <2> HIDE DEF W, V, E, F
  <2>4. /\ written'.calls = written.calls /\ written'.files = written.files
        /\ written'.records \in {written.records, written.records + 1}
        /\ written' \in [calls: 0..MaxWrites, files: Nat, records: Nat]
    BY <1>1, <2>3
  <2>5. /\ written'.files + Cardinality(V) <= written'.calls
        /\ written'.records + Cardinality(F) <= written'.files
    BY <2>2, <2>3, <2>4
  <2> QED BY <2>4, <2>5 DEF Counted, V, F
<1>5. ASSUME "overlap" \notin mishap, ~broken PROVE Leads(Undo!Buffer, project')
  <2>1. \A d \in Client : ~Undo!HalfUndone(d)
    BY <1>1, <1>3, <1>5 DEF Undo!HalfUndone
  <2> QED BY <1>1, <1>5, <2>1 DEF UndoInv, LeadsInv
<1>6. "overlap" \notin mishap => \A d \in Client : d # c => op'[d].at = "idle"
  BY <1>3
<1> QED BY <1>1, <1>3, <1>4, <1>5, <1>6, ProjectEnds DEF Idle

LEMMA UndoStep ==
    ASSUME Undo!UndoAssumption, UndoInv, [Undo!Next]_(Undo!vars)
    PROVE  UndoInv'
<1>1. CASE UNCHANGED Undo!vars
  <2>1. UNCHANGED <<filevars, project, written, broken>>
    BY <1>1 DEF Undo!vars, Undo!filevars, Undo!undovars, filevars
  <2>2. UndoTypes'
    BY <2>1
      DEF UndoInv, UndoTypes, FileTypes, DiskTypes, OpTypes, NodeText, Op, filevars, Content,
        Buffers, UndoCall, Undo!UndoEntry
  <2>3. SoloInv' <=> SoloInv
    BY <2>1, SoloStays
  <2>4. Counted'
    BY <2>1 DEF UndoInv, Counted, Writing, AtWork, filevars
  <2>5. Undo!Buffer' = Undo!Buffer
    BY <2>1 DEF Undo!Buffer, Undo!Contents, filevars
  <2>6. LeadsInv' <=> LeadsInv
    BY <2>1, <2>5 DEF LeadsInv, Leads, Aim, AtWork, Undo!HalfUndone, filevars
  <2> QED BY <2>1, <2>2, <2>3, <2>4, <2>6 DEF UndoInv, filevars
<1>2. CASE Undo!Next
  <2>1. PICK c \in Client :
           \/ \E p \in Path, t \in Text : Undo!FsWrite(c, p, t)
           \/ Undo!UndoLast(c)
           \/ Undo!OpenFile(c) \/ Undo!WriteFile(c) \/ Undo!RecordWrite(c) \/ Undo!RemoveFile(c)
           \/ Undo!DieInAction(c)
           \/ (SaveStep(c) \/ ReplaceFails(c)) /\ UNCHANGED <<project, written, broken>>
    BY <1>2, UndoSame DEF Undo!Next, Undo!undovars
  <2>2. broken \in BOOLEAN
    BY DEF UndoInv, UndoTypes
  <2>3. ASSUME Undo!DieInAction(c) PROVE UndoInv'
    <3>1. /\ Die(c) /\ UNCHANGED <<project, written>>
          /\ broken' = (broken \/ Undo!HalfUndone(c))
      BY <2>3, UndoSame DEF Undo!DieInAction
    <3>2. /\ broken' \in BOOLEAN /\ (~broken' => ~broken)
          /\ Die(c) /\ ~broken' => ~Undo!HalfUndone(c)
      BY <2>2, <3>1
    <3> QED BY <3>1, <3>2, UndoSaveKeeps
  <2>4. ASSUME SaveStep(c) \/ ReplaceFails(c), UNCHANGED <<project, written, broken>>
        PROVE  UndoInv'
    <3>1. ~Undo!HalfUndone(c)
      BY <2>4 DEF Undo!HalfUndone, SaveStep, OpenTmp, WriteTmp, ReplaceFile, ReplaceFails
    <3> QED BY <2>2, <2>4, <3>1, UndoSaveKeeps
  <2> QED BY <2>1, <2>3, <2>4, FsWriteKeeps, UndoLastKeeps, OpenFileKeeps, WriteFileKeeps,
        RecordWriteKeeps, RemoveFileKeeps
<1> QED BY <1>1, <1>2

-----------------------------------------------------------------------------
(* What the undo buffer promises *)

\* From before the entry lo, a file is carried on unchanged up to the next entry
\* of its own, or to the files as they are.
LEMMA Carried ==
    ASSUME NEW b \in Seq(Undo!UndoEntry), NEW f, Leads(b, f), NEW lo \in 1..Len(b),
           NEW p \in Path, NEW j \in lo..(Len(b) + 1), \A i \in lo..(j - 1) : b[i].path # p
    PROVE  b[lo].before[p] = IF j = Len(b) + 1 THEN f[p] ELSE b[j].before[p]
<1> DEFINE n == Len(b)
           At(i) == IF i = n + 1 THEN f[p] ELSE b[i].before[p]
           T == {i \in Nat : i \in lo..j /\ b[lo].before[p] # At(i)}
<1>1. n \in Nat /\ lo \in 1..n
  OBVIOUS
<1>2. ASSUME b[lo].before[p] # At(j) PROVE FALSE
  <2>1. j \in T
    BY <1>1, <1>2
  <2>2. PICK m \in T : \A i \in T : m <= i
    BY <2>1, LeastNumber
  <2>3. m \in lo..j /\ b[lo].before[p] # At(m) /\ m \in Nat
    BY <2>2
  <2>4. m # lo
    BY <1>1, <2>3
  <2>5. m - 1 \in lo..(j - 1) /\ m - 1 \in 1..n /\ (m - 1) + 1 = m /\ ~(m <= m - 1)
        /\ m - 1 \in Nat /\ m - 1 # n + 1 /\ m - 1 \in lo..j
    BY <1>1, <2>3, <2>4
  <2>6. b[lo].before[p] = At(m - 1)
    <3> HIDE DEF At
    <3>1. m - 1 \in T => m <= m - 1
      BY <2>2
    <3> QED BY <2>5, <3>1
  <2>7. b[m - 1].before[p] = IF m - 1 = n THEN f[p] ELSE b[m].before[p]
    <3>1. b[m - 1].path # p
      BY <2>5
    <3>2. b[m - 1].before[p] = IF m - 1 = n THEN f[p] ELSE b[(m - 1) + 1].before[p]
      BY <2>5, <3>1 DEF Leads
    <3> QED BY <2>5, <3>2
  <2>8. m - 1 = n <=> m = n + 1
    BY <1>1, <2>3
  <2>9. At(m - 1) = b[m - 1].before[p] /\ At(m) = b[m - 1].before[p]
    BY <2>5, <2>7, <2>8
  <2> HIDE DEF At
  <2> QED BY <2>3, <2>6, <2>9
<1> QED BY <1>2

LEMMA UnwoundIs ==
    ASSUME Undo!UndoAssumption, UndoInv, Leads(Undo!Buffer, project), NEW k \in 1..Len(Undo!Buffer)
    PROVE  Undo!Unwound(k) = Undo!Buffer[Len(Undo!Buffer) - k + 1].before
<1> DEFINE b == Undo!Buffer
           n == Len(b)
           lo == n - k + 1
           mine(p) == {i \in lo..n : b[i].path = p}
<1>1. b \in Seq(Undo!UndoEntry)
  BY BufferType DEF UndoInv
<1>2. n \in Nat /\ k \in Nat /\ lo \in 1..n
  BY <1>1
<1>3. b[lo].before \in [Path -> Content]
  <2>1. b[lo] \in Undo!UndoEntry
    BY <1>1, <1>2
  <2> QED BY <2>1 DEF Undo!UndoEntry, Content
<1>4. Undo!Unwound(k) =
         [p \in Path |-> IF mine(p) = {} THEN project[p]
                         ELSE b[CHOOSE i \in mine(p) : \A j \in mine(p) : i <= j].previous]
  BY DEF Undo!Unwound
<1>5. Leads(b, project)
  OBVIOUS
<1> HIDE DEF b, n, lo
<1>6. ASSUME NEW p \in Path, mine(p) = {}
      PROVE  b[lo].before[p] = project[p]
  <2>1. n + 1 \in lo..(n + 1) /\ (n + 1) - 1 = n
    BY <1>2
  <2>2. \A i \in lo..((n + 1) - 1) : b[i].path # p
    BY <1>6, <2>1
  <2> QED BY <1>1, <1>2, <1>5, <2>1, <2>2, Carried DEF n
<1>7. ASSUME NEW p \in Path, mine(p) # {}
      PROVE  b[lo].before[p] = b[CHOOSE i \in mine(p) : \A j \in mine(p) : i <= j].previous
  <2>1. mine(p) \subseteq Nat
    BY <1>2
  <2>2. \E i \in mine(p) : \A j \in mine(p) : i <= j
    BY <1>7, <2>1, LeastNumber
  <2>3. PICK m \in mine(p) : /\ m = CHOOSE i \in mine(p) : \A j \in mine(p) : i <= j
                             /\ \A j \in mine(p) : m <= j
    BY <2>2
  <2>4. m \in lo..n /\ b[m].path = p /\ m \in 1..n /\ m \in lo..(n + 1) /\ m # n + 1
    BY <1>2, <2>3
  <2>5. \A i \in lo..(m - 1) : b[i].path # p
    <3> SUFFICES ASSUME NEW i \in lo..(m - 1), b[i].path = p PROVE FALSE
      OBVIOUS
    <3>1. i \in lo..n /\ ~(m <= i)
      BY <1>2, <2>4
    <3> QED BY <2>3, <3>1
  <2>6. b[lo].before[p] = b[m].before[p]
    BY <1>1, <1>2, <1>5, <2>4, <2>5, Carried DEF n
  <2>7. b[m].before[p] = b[m].previous
    BY <1>5, <2>4 DEF Leads, n
  <2> QED BY <2>3, <2>6, <2>7
<1>8. \A p \in Path : b[lo].before[p] =
         IF mine(p) = {} THEN project[p]
         ELSE b[CHOOSE i \in mine(p) : \A j \in mine(p) : i <= j].previous
  BY <1>6, <1>7
<1> HIDE DEF mine
<1>9. Undo!Unwound(k) = b[lo].before
  BY <1>3, <1>4, <1>8
<1> QED BY <1>9 DEF b, n, lo

LEMMA UndoImplies ==
    ASSUME Undo!UndoAssumption, UndoInv
    PROVE  Undo!TypeOK /\ Undo!UndoLeadsBack
<1>1. Undo!TypeOK
  <2>1. Buffers \subseteq Seq(Undo!UndoEntry)
    BY DEF Buffers
  <2>2. FileTypeOK(Seq(Undo!UndoEntry))
    BY <2>1, FileGrows, FileTyped DEF UndoInv, UndoTypes
  <2>3. written \in [calls: 0..MaxWrites, files: 0..MaxWrites, records: 0..MaxWrites]
    <3> DEFINE W == {c \in Client : Writing(c)}
               E == {c \in Client : op[c].at = "done"}
    <3>1. Cardinality(W) \in Nat /\ Cardinality(E) \in Nat
      BY ClientSets, UndoAssumed DEF FileAssumption
    <3>2. /\ written \in [calls: 0..MaxWrites, files: Nat, records: Nat]
          /\ written.files + Cardinality(W) <= written.calls
          /\ written.records + Cardinality(E) <= written.files
      BY DEF UndoInv, Counted
    <3> HIDE DEF W, E
    <3>3. written.files \in 0..MaxWrites /\ written.records \in 0..MaxWrites
      BY <3>1, <3>2, UndoAssumed
    <3> QED BY <3>2, <3>3
  <2>4. Len(Undo!Buffer) <= MaxUndo
    BY BufferType DEF UndoInv, Buffers
  <2> QED BY <2>2, <2>3, <2>4, UndoSame DEF UndoInv, UndoTypes, Content, Undo!TypeOK
<1>2. Undo!UndoLeadsBack
  <2> SUFFICES ASSUME ~broken, "overlap" \notin mishap, ~\E c \in Client : Undo!HalfUndone(c)
               PROVE  \A k \in 1..Len(Undo!Buffer) :
                         Undo!Unwound(k) = Undo!Buffer[Len(Undo!Buffer) - k + 1].before
    BY DEF Undo!UndoLeadsBack
  <2>1. Leads(Undo!Buffer, project)
    BY DEF UndoInv, LeadsInv
  <2> QED BY <2>1, UnwoundIs
<1> QED BY <1>1, <1>2

\* core/actions/fs.py: undoing leads back, write by write, through the states the
\* project was in, unless calls overlap or an undo dies half done.  For any number
\* of processes, files and texts, and any length of the buffer.
THEOREM UndoingLeadsBack ==
    ASSUME Undo!UndoAssumption
    PROVE  Undo!Spec => [](Undo!TypeOK /\ Undo!UndoLeadsBack)
<1>1. Undo!Init => UndoInv
  BY UndoBegins
<1>2. UndoInv /\ [Undo!Next]_(Undo!vars) => UndoInv'
  BY UndoStep
<1>3. UndoInv => Undo!TypeOK /\ Undo!UndoLeadsBack
  BY UndoImplies
<1> QED BY <1>1, <1>2, <1>3, PTL DEF Undo!Spec
=============================================================================
