----------------------------- MODULE UndoBuffer -----------------------------
(***************************************************************************)
(* fs_write and undo_last (core/actions/fs.py): the one governed action on *)
(* files.  The undo entry of a write is saved, the file is written and the *)
(* write is recorded; undo_last takes the newest entry out of the buffer   *)
(* and then puts the file back.  A write the policy denies changes nothing *)
(* here and is left out.                                                   *)
(***************************************************************************)
EXTENDS StateFile, SequencesExt

CONSTANTS
    Path,           \* files of the project
    Text,           \* what may be written into them
    MaxUndo,        \* actions.undo_buffer_max (50)
    MaxWrites       \* bound: calls of fs_write

VARIABLES
    project,        \* the files: a text, "part" of one, or None if there is no file
    written,        \* history: writes that reached their file, and their records
    broken          \* history: an undo took its entry and did not put the file back

undovars == <<project, written, broken>>
vars == <<filevars, undovars>>

\* For the proofs.
UndoAssumption == FileAssumption /\ MaxUndo \in Nat /\ MaxWrites \in Nat

\* before: history, the project when the entry was made.
UndoEntry == [path: Path, previous: Text \cup {"part", None},
              before: [Path -> Text \cup {"part", None}]]

Projects == [Path -> Text \cup {None}]

NoWrites == [calls |-> 0, files |-> 0, records |-> 0]

Init ==
    /\ FileInit
    /\ project \in Projects
    /\ written = NoWrites
    /\ broken = FALSE

Buffer == Contents(<<>>)

\* Mutant: buffer[-0:] keeps everything.
Untrimmed(buffer) == buffer

\* Mutant: the oldest entries are kept.
TrimmedOldest(buffer) ==
    SubSeq(buffer, 1, IF Len(buffer) > MaxUndo THEN MaxUndo ELSE Len(buffer))

\* _save_undo_buffer keeps the newest MaxUndo entries.
Trimmed(buffer) ==
    SubSeq(buffer, (IF Len(buffer) > MaxUndo THEN Len(buffer) - MaxUndo + 1 ELSE 1), Len(buffer))

-----------------------------------------------------------------------------
(* fs_write *)

FsWrite(c, p, t) ==
    /\ written.calls < MaxWrites
    /\ LET entry == [path |-> p, previous |-> project[p], before |-> project] IN
       BeginSave(c, [do |-> "write", path |-> p, text |-> t], Trimmed(Append(Buffer, entry)))
    /\ written' = [written EXCEPT !.calls = @ + 1]
    /\ UNCHANGED <<project, broken>>

\* write_text opens the file, which empties it, and then writes it.
OpenFile(c) ==
    /\ op[c].at = "saved" /\ op[c].call.text # None
    /\ project' = [project EXCEPT ![op[c].call.path] = "part"]
    /\ op' = [op EXCEPT ![c].at = "opened"]
    /\ UNCHANGED <<disk, real, tmp, mishap, written, broken>>

WriteFile(c) ==
    /\ op[c].at = "opened"
    /\ project' = [project EXCEPT ![op[c].call.path] = op[c].call.text]
    /\ IF op[c].call.do = "write"
       THEN /\ op' = [op EXCEPT ![c].at = "done"]
            /\ written' = [written EXCEPT !.files = @ + 1]
       ELSE op' = [op EXCEPT ![c] = Idle] /\ UNCHANGED written
    /\ UNCHANGED <<disk, real, tmp, mishap, broken>>

\* The record comes last; if it cannot be written, fs_write raises.
RecordWrite(c) ==
    /\ op[c].at = "done"
    /\ op' = [op EXCEPT ![c] = Idle]
    /\ \/ written' = [written EXCEPT !.records = @ + 1]
       \/ UNCHANGED written
    /\ UNCHANGED <<disk, real, tmp, mishap, project, broken>>

-----------------------------------------------------------------------------
(* undo_last *)

UndoLast(c) ==
    /\ Buffer # <<>>
    /\ BeginSave(c, [do |-> "undo", path |-> Last(Buffer).path, text |-> Last(Buffer).previous],
                 Trimmed(Front(Buffer)))
    /\ UNCHANGED undovars

\* There was no file: unlink.
RemoveFile(c) ==
    /\ op[c].at = "saved" /\ op[c].call.text = None
    /\ project' = [project EXCEPT ![op[c].call.path] = None]
    /\ op' = [op EXCEPT ![c] = Idle]
    /\ UNCHANGED <<disk, real, tmp, mishap, written, broken>>

\* An undo that has given up its entry and not yet put the file back.
HalfUndone(c) == op[c].at \in {"saved", "opened"} /\ op[c].call.do = "undo"

DieInAction(c) ==
    /\ Die(c)
    /\ broken' = (broken \/ HalfUndone(c))
    /\ UNCHANGED <<project, written>>

-----------------------------------------------------------------------------
Next ==
    \E c \in Client :
        \/ \E p \in Path, t \in Text : FsWrite(c, p, t)
        \/ UndoLast(c)
        \/ OpenFile(c) \/ WriteFile(c) \/ RecordWrite(c) \/ RemoveFile(c) \/ DieInAction(c)
        \/ (SaveStep(c) \/ ReplaceFails(c)) /\ UNCHANGED undovars

Spec == Init /\ [][Next]_vars

-----------------------------------------------------------------------------
(* Properties *)

TypeOK ==
    /\ FileTypeOK(Seq(UndoEntry))
    /\ project \in [Path -> Text \cup {"part", None}]
    /\ written \in [calls: 0..MaxWrites, files: 0..MaxWrites, records: 0..MaxWrites]
    /\ broken \in BOOLEAN
    /\ Len(Buffer) <= MaxUndo

\* The project after the newest k entries of the buffer were undone.
Unwound(k) ==
    [p \in Path |->
        LET mine == {i \in Len(Buffer) - k + 1 .. Len(Buffer) : Buffer[i].path = p} IN
        IF mine = {} THEN project[p]
        ELSE Buffer[CHOOSE i \in mine : \A j \in mine : i <= j].previous]

\* Undoing leads back, write by write, through the states the project was in,
\* as far as the buffer reaches, although a write or an undo may die between
\* its steps: an entry without its write undoes nothing, a file half written is
\* put back.  Only an undo that dies half done breaks it, or calls that overlap.
UndoLeadsBack ==
    \/ broken \/ "overlap" \in mishap
    \/ \E c \in Client : HalfUndone(c)
    \/ \A k \in 1..Len(Buffer) : Unwound(k) = Buffer[Len(Buffer) - k + 1].before
=============================================================================
