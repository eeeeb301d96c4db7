------------------------------ MODULE AuditLog ------------------------------
(***************************************************************************)
(* The hash-chained audit log: core/audit/log.py.  The log is one file,    *)
(* appended to by the processes and threads that record what they do, and  *)
(* checked while they do by chain_status, which keeps what it verified.    *)
(*                                                                         *)
(* A record is written in two steps no lock joins: the hash of the last    *)
(* line is read, then a line that names it is appended.  The append itself *)
(* may be cut short by a crash or a full disk, and the file may be edited  *)
(* by anyone who can write it.                                             *)
(*                                                                         *)
(* sha256 is modelled by giving every record written a new number: no two  *)
(* records share a hash, and a record whose text was changed does not have *)
(* the hash it claims.                                                     *)
(***************************************************************************)
EXTENDS Integers, Sequences, SequencesExt

CONSTANTS
    Writer,         \* concurrent callers of record_audit
    None,           \* no such thing
    MaxRecords,     \* bound: records the writers start
    MaxEdits        \* bound: edits of the file by others

\* text: "sound" if the record has the hash it claims, "edited" if it does not,
\* "malformed" if the line is not a record at all.
Line == [hash: Nat, prev: Nat, text: {"sound", "edited", "malformed"}]

ASSUME AuditAssumption ==
    /\ MaxRecords \in Nat
    /\ MaxEdits \in Nat
    /\ None \notin Writer \cup Line

VARIABLES
    file,           \* the complete lines of the log
    tail,           \* what follows the last newline: None, or a line without its own
    writer,         \* what each caller of record_audit is doing
    appender,       \* the writer whose write() is half done (the file's lock is its)
    cache,          \* chain_status: the lines it verified (_VERIFIED), or None
    status,         \* the call of chain_status in progress, or how the last one ended
    hashes,         \* history: records hashed so far
    returned,       \* history: records record_audit returned
    glued,          \* history: a record was appended to one that lacked only its newline
    edits           \* history: edits of the file by others

filevars == <<file, tail>>
statusvars == <<cache, status>>
history == <<hashes, returned, glued, edits>>
vars == <<filevars, writer, appender, statusvars, history>>

-----------------------------------------------------------------------------
GENESIS_HASH == 0

Malformed == [hash |-> GENESIS_HASH, prev |-> GENESIS_HASH, text |-> "malformed"]

IdleWriter == [at |-> "idle", hash |-> GENESIS_HASH, prev |-> GENESIS_HASH]

\* The checks of verify_chain and _verify_from on one line of a log.
Intact(lines, i) ==
    /\ lines[i].text = "sound"
    /\ lines[i].prev = IF i = 1 THEN GENESIS_HASH ELSE lines[i - 1].hash

Chains(lines) == \A i \in 1..Len(lines) : Intact(lines, i)

\* Mutant: the last line that is intact.
LastIntact(lines) ==
    (CHOOSE i \in 0..(Len(lines) - 1) :
        /\ ~Intact(lines, i + 1)
        /\ \A j \in 1..i : Intact(lines, j)) - 1

\* verify_chain's answer for these lines: the index (from 0) of the first break.
FirstBreak(lines) ==
    CHOOSE i \in 0..(Len(lines) - 1) :
        /\ ~Intact(lines, i + 1)
        /\ \A j \in 1..i : Intact(lines, j)

Init ==
    /\ file = <<>>
    /\ tail = None
    /\ writer = [w \in Writer |-> IdleWriter]
    /\ appender = None
    /\ cache = None
    /\ status = [at |-> "idle", scan |-> <<>>, ok |-> TRUE, break |-> 0,
                 length |-> 0, edits |-> 0]
    /\ hashes = 0 /\ returned = {} /\ glued = FALSE /\ edits = 0

-----------------------------------------------------------------------------
(* record_audit *)

\* Mutant: only whole lines are looked at.
LastLineComplete == IF file = <<>> THEN None ELSE Last(file)

\* What _last_hash finds behind the last newline that has something behind it.
LastLine ==
    CASE tail # None                -> tail
      [] tail = None /\ file = <<>> -> None
      [] OTHER                      -> Last(file)

\* _last_hash; json.loads raises on a malformed last line, and so does every
\* record_audit from then on.
ReadTip(w) ==
    /\ writer[w].at = "idle"
    /\ hashes < MaxRecords
    /\ LastLine # None => LastLine.text # "malformed"
    /\ hashes' = hashes + 1
    /\ writer' = [writer EXCEPT ![w] =
          [at |-> "append", hash |-> hashes + 1,
           prev |-> IF LastLine = None THEN GENESIS_HASH ELSE LastLine.hash]]
    /\ UNCHANGED <<filevars, appender, statusvars, returned, glued, edits>>

\* The record of w, as it lands in the file: behind a line without its newline
\* the two make one malformed line.
Landed(w) ==
    IF tail = None
    THEN [hash |-> writer[w].hash, prev |-> writer[w].prev, text |-> "sound"]
    ELSE Malformed

Unterminated == tail # None /\ tail.text = "sound"

AppendWhole(w) ==
    /\ writer[w].at = "append"
    /\ appender = None
    /\ file' = Append(file, Landed(w))
    /\ tail' = None
    /\ returned' = returned \cup {writer[w].hash}
    /\ glued' = (glued \/ Unterminated)
    /\ writer' = [writer EXCEPT ![w] = IdleWriter]
    /\ UNCHANGED <<appender, statusvars, hashes, edits>>

\* The same write() seen half done: readers find a line cut somewhere, or all
\* of it but the newline.
AppendPart(w) ==
    /\ writer[w].at = "append"
    /\ appender = None
    /\ tail' \in {Malformed, Landed(w)}
    /\ glued' = (glued \/ Unterminated)
    /\ writer' = [writer EXCEPT ![w].at = IF tail = None THEN "rest" ELSE "glued_rest"]
    /\ appender' = w
    /\ UNCHANGED <<file, statusvars, hashes, returned, edits>>

AppendRest(w) ==
    /\ appender = w
    /\ file' = Append(file, IF writer[w].at = "glued_rest" THEN Malformed
                            ELSE [hash |-> writer[w].hash, prev |-> writer[w].prev,
                                  text |-> "sound"])
    /\ tail' = None
    /\ returned' = returned \cup {writer[w].hash}
    /\ writer' = [writer EXCEPT ![w] = IdleWriter]
    /\ appender' = None
    /\ UNCHANGED <<statusvars, hashes, glued, edits>>

\* The writer dies, or its disk is full: what was written stays.
Crash(w) ==
    /\ writer[w].at # "idle"
    /\ writer' = [writer EXCEPT ![w] = IdleWriter]
    /\ appender' = IF appender = w THEN None ELSE appender
    /\ UNCHANGED <<filevars, statusvars, history>>

-----------------------------------------------------------------------------
(* chain_status: under _VERIFIED_LOCK, so one call at a time, but the file  *)
(* moves on between two reads of it.                                        *)

\* Mutant: the verified prefix is compared by its length.
PrefixMatchesLength == cache # None /\ Len(cache) <= Len(file)

\* _prefix_matches: the digest of the file's first bytes is that of the lines
\* verified before.
PrefixMatches == cache # None /\ IsPrefix(cache, file)

StatusOpen ==
    /\ status.at = "idle"
    /\ status' = [at |-> "read", scan |-> IF PrefixMatches THEN cache ELSE <<>>,
                  ok |-> TRUE, break |-> 0, length |-> Len(file), edits |-> edits]
    /\ UNCHANGED <<filevars, writer, appender, cache, history>>

\* _verify_from: a chunk of complete lines is read and checked; the first line
\* that does not follow ends the call and drops the cache.
StatusRead ==
    /\ status.at = "read"
    /\ \E k \in Len(status.scan) + 1 .. Len(file) :
          LET lines == status.scan \o SubSeq(file, Len(status.scan) + 1, k) IN
          IF Chains(lines)
          THEN status' = [status EXCEPT !.scan = lines] /\ UNCHANGED cache
          ELSE /\ status' = [status EXCEPT !.at = "idle", !.scan = <<>>, !.ok = FALSE,
                                           !.break = FirstBreak(lines)]
               /\ cache' = None
    /\ UNCHANGED <<filevars, writer, appender, history>>

\* Nothing more to read; a line without its newline is left for the next call.
StatusEnd ==
    /\ status.at = "read"
    /\ Len(file) <= Len(status.scan)
    /\ cache' = status.scan
    /\ status' = [status EXCEPT !.at = "idle", !.length = Len(status.scan)]
    /\ UNCHANGED <<filevars, writer, appender, history>>

-----------------------------------------------------------------------------
(* Anyone who can write the file: the hash chain is there to tell. *)

EditLine(i) ==
    /\ edits < MaxEdits
    /\ file[i].text # "edited"
    /\ \/ file' = [file EXCEPT ![i].text = "edited"] /\ UNCHANGED hashes
       \/ /\ file' = [file EXCEPT ![i].hash = hashes + 1, ![i].text = "sound"]
          /\ hashes' = hashes + 1
    /\ edits' = edits + 1
    /\ UNCHANGED <<tail, writer, appender, statusvars, returned, glued>>

\* The end of the file is cut off.
Truncate(n) ==
    /\ edits < MaxEdits
    /\ appender = None
    /\ file' = SubSeq(file, 1, n)
    /\ tail' = None
    /\ edits' = edits + 1
    /\ UNCHANGED <<writer, appender, statusvars, hashes, returned, glued>>

Next ==
    \/ \E w \in Writer : \/ ReadTip(w) \/ AppendWhole(w) \/ AppendPart(w)
                         \/ AppendRest(w) \/ Crash(w)
    \/ StatusOpen \/ StatusRead \/ StatusEnd
    \/ \E i \in 1..Len(file) : EditLine(i)
    \/ \E n \in 0 .. (Len(file) - 1) : Truncate(n)

Spec == Init /\ [][Next]_vars

-----------------------------------------------------------------------------
(* Properties *)

TypeOK ==
    /\ file \in Seq(Line)
    /\ tail \in Line \cup {None}
    /\ writer \in [Writer -> [at: {"idle", "append", "rest", "glued_rest"},
                              hash: Nat, prev: Nat]]
    /\ appender \in Writer \cup {None}
    /\ cache \in Seq(Line) \cup {None}
    /\ status \in [at: {"idle", "read"}, scan: Seq(Line), ok: BOOLEAN, break: Nat,
                   length: Nat, edits: Nat]
    /\ hashes \in Nat /\ edits \in Nat
    /\ returned \subseteq Nat
    /\ glued \in BOOLEAN

\* With one writer at a time the log chains whatever crashes in the middle of a
\* line, as long as nobody edits it: a line cut short stops every later record
\* (_last_hash raises), and only a line that lacks nothing but its newline lets
\* the next record be glued to it.  Under the same conditions a record that
\* record_audit returned is in the log, whole and readable.
OneWriterChains ==
    edits = 0 /\ ~glued =>
        /\ Chains(file)
        /\ \A h \in returned : \E i \in 1..Len(file) :
            file[i].hash = h /\ file[i].text = "sound"

\* chain_status tells what verify_chain would: if nobody edited the file since
\* the call began, its verdict on the lines it covered is the one of a walk from
\* the first line, whatever was appended meanwhile and whatever was edited before.
StatusAgrees ==
    status.at = "idle" /\ edits = status.edits =>
        IF status.ok
        THEN status.length <= Len(file) /\ Chains(SubSeq(file, 1, status.length))
        ELSE status.break < Len(file) /\ FirstBreak(file) = status.break

\* core/audit/log.py:5: each record's hash covers the previous record's hash.
\* Two writers that read the same last line name the same predecessor.
EachCoversPrevious == edits = 0 => Chains(file)
=============================================================================
