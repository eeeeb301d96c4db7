----------------------------- MODULE StateFile ------------------------------
(***************************************************************************)
(* The way the small JSON files of the governance layer are changed: the   *)
(* failure ledger (core/verify/ledger.py), the JIT grants                  *)
(* (core/policy/jit.py) and the undo buffer (core/actions/fs.py).  Each    *)
(* call loads the whole file, changes what it loaded, writes all of it to  *)
(* a temporary file beside it and puts that in its place.  There is no     *)
(* lock, and the name of the temporary file is the same for every call.    *)
(*                                                                         *)
(* A file is a name that leads to a node of the disk: a writer keeps its   *)
(* node when the name is moved away under it.                              *)
(***************************************************************************)
EXTENDS Integers, Sequences, FiniteSets

CONSTANTS
    Client,         \* processes and threads that use the file
    None            \* no node, no call

VARIABLES
    disk,           \* what each node holds
    real,           \* the node of the file, or None
    tmp,            \* the node of the temporary file, or None
    op,             \* the save of each client
    mishap          \* history: saves overlapped, a client died in one

filevars == <<disk, real, tmp, op, mishap>>

-----------------------------------------------------------------------------
Node == 1 .. 2 * Cardinality(Client) + 2

\* For the proofs: there are enough nodes, and none of them is None.
FileAssumption == IsFiniteSet(Client) /\ None \notin Node

Blank == [text |-> "part", data |-> None]

Idle == [at |-> "idle", call |-> None, data |-> None, node |-> None]

FileInit ==
    /\ disk = [n \in Node |-> Blank]
    /\ real = None /\ tmp = None
    /\ op = [c \in Client |-> Idle]
    /\ mishap = {}

\* load: what the file holds, or nothing if it is missing or does not parse.
Contents(nothing) ==
    IF real # None /\ disk[real].text = "whole" THEN disk[real].data ELSE nothing

\* c loads the file; others may be busy with it.
Load(c) ==
    /\ op[c].at = "idle"
    /\ mishap' = IF \E d \in Client : op[d].at # "idle"
                 THEN mishap \cup {"overlap"} ELSE mishap
    /\ UNCHANGED <<disk, real, tmp>>

\* A call that has loaded the file and is about to save data.
BeginSave(c, call, data) ==
    /\ Load(c)
    /\ op' = [op EXCEPT ![c] = [at |-> "save", call |-> call, data |-> data, node |-> None]]

\* A node no name and no call leads to.
Unused == CHOOSE n \in Node : n \notin {real, tmp} /\ \A c \in Client : op[c].node # n

\* open("w") of the temporary file: a new node, or the one that has the name.
OpenTmp(c) ==
    /\ op[c].at = "save"
    /\ LET n == IF tmp = None THEN Unused ELSE tmp IN
          /\ tmp' = n
          /\ disk' = [disk EXCEPT ![n] = Blank]
          /\ op' = [op EXCEPT ![c].at = "open", ![c].node = n]
    /\ UNCHANGED <<real, mishap>>

\* json.dump and the end of the with block.  Where another call wrote into the
\* same node since it was opened, the longer text shows behind the shorter one.
WriteTmp(c) ==
    /\ op[c].at = "open"
    /\ LET n == op[c].node IN
       \E text \in IF disk[n].text = "part" THEN {"whole"} ELSE {"whole", "torn"} :
          disk' = [disk EXCEPT ![n] = [text |-> text, data |-> op[c].data]]
    /\ op' = [op EXCEPT ![c].at = "written"]
    /\ UNCHANGED <<real, tmp, mishap>>

\* The temporary file takes the place of the file.
ReplaceFile(c) ==
    /\ op[c].at = "written"
    /\ tmp # None
    /\ real' = tmp
    /\ tmp' = None
    /\ disk' = [n \in Node |-> IF n = real THEN Blank ELSE disk[n]]
    /\ op' = [op EXCEPT ![c].at = "saved", ![c].node = None]
    /\ UNCHANGED mishap

\* Another call has moved it away already: FileNotFoundError.
ReplaceFails(c) ==
    /\ op[c].at = "written"
    /\ tmp = None
    /\ op' = [op EXCEPT ![c] = Idle]
    /\ UNCHANGED <<disk, real, tmp, mishap>>

Return(c) ==
    /\ op[c].at = "saved"
    /\ op' = [op EXCEPT ![c] = Idle]
    /\ UNCHANGED <<disk, real, tmp, mishap>>

\* The process dies.
Die(c) ==
    /\ op[c].at # "idle"
    /\ op' = [op EXCEPT ![c] = Idle]
    /\ mishap' = mishap \cup {"death"}
    /\ UNCHANGED <<disk, real, tmp>>

SaveStep(c) == OpenTmp(c) \/ WriteTmp(c) \/ ReplaceFile(c)

-----------------------------------------------------------------------------
FileTypeOK(Data) ==
    /\ disk \in [Node -> [text: {"part", "whole", "torn"}, data: Data \cup {None}]]
    /\ real \in Node \cup {None} /\ tmp \in Node \cup {None}
    /\ \A c \in Client : /\ op[c].at \in {"idle", "save", "open", "written", "saved", "opened", "done"}
                         /\ op[c].data \in Data \cup {None}
                         /\ op[c].node \in Node \cup {None}
    /\ mishap \subseteq {"overlap", "death"}

\* core/verify/ledger.py:49, "a process killed mid-write can never leave a
\* torn/corrupt ledger file behind": so it is while saves do not overlap,
\* wherever a client dies and whoever saves after it.
WholeUnlessOverlap ==
    \/ "overlap" \in mishap
    \/ real # None => disk[real].text = "whole"

AllIdle == \A c \in Client : op[c].at = "idle"
=============================================================================
