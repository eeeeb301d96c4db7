----------------------------- MODULE AuditFeed ------------------------------
(***************************************************************************)
(* The live view of the audit log: the cursors of core/audit/read.py, the  *)
(* event streams of gateway/api/v1.py (audit_events, _bounded, events) and *)
(* the page that follows them (streamAudit of dashboard/src/api/sse.ts,    *)
(* started by AuditView.tsx).                                              *)
(*                                                                         *)
(* The log is read by byte offsets.  A byte is modelled by a cell: a       *)
(* record is a line of two cells, a line that is no record one of any      *)
(* number of them, and a line ends with the cell that holds its newline.   *)
(* So a line may be there in part, and a cursor may point into one.        *)
(*                                                                         *)
(* A connection is a client's wire, which the server fills, and a stream,  *)
(* which holds one of the MaxStreams places until the server knows that    *)
(* its client is gone.                                                     *)
(***************************************************************************)
EXTENDS Integers, Sequences, FiniteSets, SequencesExt, FiniteSetsExt

CONSTANTS
    Client,         \* pages that show the log
    None,           \* no stream, no client, no id
    MaxStreams,     \* MAX_STREAMS (16)
    PageLimit,      \* records of one read of a stream (100)
    MaxRead,        \* MAX_READ_BYTES, in cells
    TailChunk,      \* TAIL_CHUNK, in cells
    TailRows,       \* TAIL_ROWS (200)
    MaxRows,        \* MAX_ROWS (500)
    SeenLimit,      \* SEEN_LIMIT (2000)
    JunkLines,      \* bound: lengths of the lines that are no records
    MaxRecords,     \* bound: records written
    MaxJunk,        \* bound: lines written that are no records
    MaxReplaced,    \* bound: times the log is replaced
    MaxFaults,      \* bound: connections and requests that fail
    MaxAbandoned    \* bound: streams given up before their first byte

ASSUME FeedAssumption ==
    /\ {MaxStreams, PageLimit, TailRows, MaxRows} \subseteq Nat \ {0}
    /\ MaxRead \in Nat /\ MaxRead >= 2      \* a record fits into one read
    /\ TailChunk \in Nat \ {0} /\ MaxRead % TailChunk = 0
    /\ SeenLimit \in Nat /\ SeenLimit >= PageLimit
    /\ MaxRows >= TailRows
    /\ JunkLines \subseteq Nat \ {0}
    /\ {MaxRecords, MaxJunk, MaxReplaced, MaxFaults, MaxAbandoned} \subseteq Nat
    /\ None \notin Client \cup Nat

VARIABLES
    file,           \* the cells of the log
    pending,        \* what the writer has still to write of its line
    active,         \* _active_streams
    stream,         \* the streams of the server
    client,         \* streamAudit of each page
    rows,           \* what each page shows, oldest first
    given,          \* history: records shown since the page began or was reset
    writes          \* history: what the bounds count

logvars == <<file, pending>>
servervars == <<active, stream>>
clientvars == <<client, rows, given>>
vars == <<logvars, servervars, clientvars, writes>>

-----------------------------------------------------------------------------
(* Cells, lines and the two reads of core/audit/read.py *)

JUNK == 0

Cell == [of: Nat, ends: BOOLEAN]

RecordLine(r) == <<[of |-> r, ends |-> FALSE], [of |-> r, ends |-> TRUE]>>

JunkLine(n) == [i \in 1..n |-> [of |-> JUNK, ends |-> i = n]]

\* The newlines among cells from+1..upto.
Newlines(from, upto) == {i \in from + 1 .. upto : file[i].ends}

\* Those that end a line which is a record (_parse), both its cells in the window.
RecordEnds(from, upto) ==
    {i \in Newlines(from, upto) :
        /\ file[i].of # JUNK
        /\ i > from + 1
        /\ file[i - 1] = [of |-> file[i].of, ends |-> FALSE]
        /\ i = from + 2 \/ file[i - 2].ends}

\* Some positions of the file, in order.
Ascending(S) ==
    LET First[k \in 0..Len(file)] ==
            IF k = 0 THEN <<>>
            ELSE IF k \in S THEN Append(First[k - 1], k) ELSE First[k - 1]
    IN First[Len(file)]

Records(from, upto) ==
    LET ends == Ascending(RecordEnds(from, upto)) IN
    [k \in DOMAIN ends |-> file[ends[k]].of]

\* Mutant: an oversized line is never got past.
SkipNothing(upto) == upto - MaxRead

\* _skip_oversized_line: past the newline of a line that fills the whole read,
\* or to the end of the file if it has none yet.
SkipOversized(upto) ==
    IF Newlines(upto, Len(file)) # {} THEN Min(Newlines(upto, Len(file))) ELSE Len(file)

\* read_audit from a cursor that is inside the file, or was when its size was
\* read: up to PageLimit records of one read, and the cursor behind the last line
\* it used.
Window(after) ==
    LET upto == Min({Len(file), after + MaxRead})
        all  == Ascending(RecordEnds(after, upto))
        ends == SubSeq(all, 1, Min({Len(all), PageLimit})) IN
    [records |-> [k \in DOMAIN ends |-> file[ends[k]].of],
     next    |->
        CASE Len(ends) = PageLimit            -> Last(ends)
          [] Newlines(after, upto) # {} /\ Len(ends) < PageLimit
                                              -> Max(Newlines(after, upto))
          [] Newlines(after, upto) = {} /\ upto - after >= MaxRead
                                              -> SkipOversized(upto)
          [] OTHER                            -> after]

\* read_audit_tail looks back over MaxRead cells, and the line that they begin in
\* is cut: the records it finds.
Scanned ==
    LET from == Max({0, Len(file) - MaxRead}) IN
    {i \in RecordEnds(0, Len(file)) : from = 0 \/ i > from + 2}

\* The newest of them, and the end of the last complete line.
TailPage ==
    LET all == Records(0, Len(file))
        n   == Min({TailRows, Cardinality(Scanned)}) IN
    [records |-> SubSeq(all, Len(all) - n + 1, Len(all)),
     next    |-> Max(Newlines(0, Len(file)) \cup {0})]

\* It fails if the last chunk, of several, has no newline: there is no line left to
\* carry to the next one.
TailRaises == Len(file) > TailChunk /\ Newlines(Len(file) - TailChunk, Len(file)) = {}

Stream == 1..MaxStreams

FreeStream == [at |-> "free", cursor |-> 0, after |-> 0, peer |-> None, idle |-> FALSE]

ClosedPage == [at |-> "load", lastId |-> 0, conn |-> None, wire |-> <<>>, seen |-> <<>>]

Init ==
    /\ file = <<>> /\ pending = <<>>
    /\ active = 0
    /\ stream = [s \in Stream |-> FreeStream]
    /\ client = [c \in Client |-> ClosedPage]
    /\ rows = [c \in Client |-> <<>>]
    /\ given = [c \in Client |-> <<>>]
    /\ writes = [records |-> 0, junk |-> 0, replaced |-> 0, faults |-> 0, abandoned |-> 0]

-----------------------------------------------------------------------------
(* The log *)

\* record_audit opens the file to append a line.
BeginRecord ==
    /\ pending = <<>>
    /\ writes.records < MaxRecords
    /\ pending' = RecordLine(writes.records + 1)
    /\ writes' = [writes EXCEPT !.records = @ + 1]
    /\ UNCHANGED <<file, servervars, clientvars>>

\* A line that is no record.
BeginJunk ==
    /\ pending = <<>>
    /\ writes.junk < MaxJunk
    /\ \E n \in JunkLines : pending' = JunkLine(n)
    /\ writes' = [writes EXCEPT !.junk = @ + 1]
    /\ UNCHANGED <<file, servervars, clientvars>>

\* The line reaches the file in any number of pieces.
WriteCell ==
    /\ pending # <<>>
    /\ file' = Append(file, Head(pending))
    /\ pending' = Tail(pending)
    /\ UNCHANGED <<servervars, clientvars, writes>>

\* The log is replaced by an empty one; a line being written lands in the new
\* file or is lost with the old one.
Replace ==
    /\ writes.replaced < MaxReplaced
    /\ file # <<>>
    /\ file' = <<>>
    /\ pending' \in {pending, <<>>}
    /\ writes' = [writes EXCEPT !.replaced = @ + 1]
    /\ UNCHANGED <<servervars, clientvars>>

-----------------------------------------------------------------------------
(* The server: events, _bounded and audit_events *)

\* Mutant: the place is not given back when the client has gone.
EndStreamLeaks(s) ==
    /\ stream' = [stream EXCEPT ![s] = FreeStream]
    /\ active' = IF stream[s].peer = None THEN active ELSE active - 1

\* Mutant: a client that has gone gives its place back twice.
EndStreamTwice(s) ==
    /\ stream' = [stream EXCEPT ![s] = FreeStream]
    /\ active' = IF stream[s].peer = None THEN active - 2 ELSE active - 1

\* The end of _bounded.
EndStream(s) ==
    /\ stream' = [stream EXCEPT ![s] = FreeStream]
    /\ active' = active - 1

\* Events that reach the client, if it is still there.
Send(s, events) ==
    LET c == stream[s].peer IN
    IF c = None THEN UNCHANGED client
    ELSE client' = [client EXCEPT ![c].wire = @ \o events]

\* The body of the response begins.
Begin(s) ==
    /\ stream[s].at = "accepted"
    /\ stream' = [stream EXCEPT ![s].at = "check"]
    /\ UNCHANGED <<logvars, active, client, rows, given, writes>>

\* The client is gone before the body begins, and it never does: the place
\* counted for it is not given back.
Abandon(s) ==
    /\ stream[s].at = "accepted" /\ stream[s].peer = None
    /\ writes.abandoned < MaxAbandoned
    /\ stream' = [stream EXCEPT ![s] = FreeStream]
    /\ writes' = [writes EXCEPT !.abandoned = @ + 1]
    /\ UNCHANGED <<logvars, active, clientvars>>

\* The first thing of a pass: a log shorter than the cursor was replaced.
CheckSize(s) ==
    /\ stream[s].at = "check"
    /\ IF stream[s].cursor > Len(file)
       THEN /\ stream' = [stream EXCEPT ![s].cursor = 0, ![s].at = "stat"]
            /\ Send(s, <<[event |-> "reset", of |-> JUNK, id |-> 0]>>)
       ELSE /\ stream' = [stream EXCEPT ![s].at = "stat"]
            /\ UNCHANGED client
    /\ UNCHANGED <<logvars, active, rows, given, writes>>

\* read_audit looks at the size once more, and starts over without a word.
StatLog(s) ==
    /\ stream[s].at = "stat"
    /\ stream' = [stream EXCEPT
          ![s].after = IF stream[s].cursor > Len(file) THEN 0 ELSE stream[s].cursor,
          ![s].at = "read"]
    /\ UNCHANGED <<logvars, active, clientvars, writes>>

\* Mutant: every event of a page carries the cursor behind the page.
PageEventsAllIds(p) ==
    [k \in DOMAIN p.records |-> [event |-> "audit", of |-> p.records[k], id |-> p.next]]

\* The events of a page: the last one carries the cursor behind the page.
PageEvents(p) ==
    [k \in DOMAIN p.records |->
        [event |-> "audit", of |-> p.records[k],
         id |-> IF k = Len(p.records) THEN p.next ELSE None]]

\* read_audit reads, and what it found is sent if the cursor moved.
ReadLog(s) ==
    /\ stream[s].at = "read"
    /\ LET p == Window(stream[s].after) IN
       IF p.next # stream[s].cursor
       THEN /\ Send(s, PageEvents(p))
            /\ stream' = [stream EXCEPT ![s].cursor = p.next, ![s].after = 0,
                                        ![s].at = "check"]
       ELSE /\ UNCHANGED client
            /\ stream' = [stream EXCEPT ![s].after = 0, ![s].at = "check",
                                        ![s].idle = TRUE]
    /\ UNCHANGED <<logvars, active, rows, given, writes>>

\* max_seconds are over: the client reads what is on its way and then the end.
\* That this comes before a stream has caught up with the log counts as a fault.
Deadline(s) ==
    /\ stream[s].at = "check"
    /\ stream[s].peer # None
    /\ \/ stream[s].idle /\ UNCHANGED writes
       \/ /\ ~stream[s].idle /\ writes.faults < MaxFaults
          /\ writes' = [writes EXCEPT !.faults = @ + 1]
    /\ client' = [client EXCEPT ![stream[s].peer].conn = None]
    /\ EndStream(s)
    /\ UNCHANGED <<logvars, rows, given>>

\* The server learns that the client is gone, wherever the stream is.
Disconnected(s) ==
    /\ stream[s].at \in {"check", "stat", "read"}
    /\ stream[s].peer = None
    /\ EndStream(s)
    /\ UNCHANGED <<logvars, clientvars, writes>>

-----------------------------------------------------------------------------
(* The page: AuditView and streamAudit *)

Load(c) ==
    /\ client[c].at = "load"
    /\ ~TailRaises
    /\ client' = [client EXCEPT ![c].at = "connect", ![c].lastId = TailPage.next]
    /\ rows' = [rows EXCEPT ![c] = TailPage.records]
    /\ given' = [given EXCEPT ![c] = TailPage.records]
    /\ UNCHANGED <<logvars, servervars, writes>>

\* The page cannot load, and does not try again.
LoadRaises(c) ==
    /\ client[c].at = "load"
    /\ TailRaises
    /\ client' = [client EXCEPT ![c].at = "stopped"]
    /\ UNCHANGED <<logvars, servervars, rows, given, writes>>

\* The page cannot load, or its credential is refused: it does not try again.
Stop(c) ==
    /\ client[c].at \in {"load", "connect"}
    /\ writes.faults < MaxFaults
    /\ client' = [client EXCEPT ![c].at = "stopped"]
    /\ writes' = [writes EXCEPT !.faults = @ + 1]
    /\ UNCHANGED <<logvars, servervars, rows, given>>

PlaceLeft == active < MaxStreams

\* A request that is refused (429, 503) or lost changes nothing but the delay of
\* the next.
Connect(c) ==
    /\ client[c].at = "connect"
    /\ PlaceLeft
    /\ \E s \in Stream :
          /\ stream[s].at = "free"
          /\ stream' = [stream EXCEPT ![s] =
                [FreeStream EXCEPT !.at = "accepted", !.cursor = client[c].lastId,
                                   !.peer = c]]
          /\ client' = [client EXCEPT ![c].at = "live", ![c].conn = s]
    /\ active' = active + 1
    /\ UNCHANGED <<logvars, rows, given, writes>>

\* Mutant: the newest makes room for itself.
RememberOldest(seen, r) == IF Len(seen) >= SeenLimit THEN seen ELSE Append(seen, r)

\* The set of ids seen, oldest first; the oldest makes room.
Remember(seen, r) ==
    IF Len(seen) >= SeenLimit THEN Append(Tail(seen), r) ELSE Append(seen, r)

NewestRows(c, r) ==
    LET all == IF Contains(rows[c], r) THEN rows[c] ELSE Append(rows[c], r) IN
    SubSeq(all, Max({1, Len(all) - MaxRows + 1}), Len(all))

ReceiveReset(c) ==
    /\ client[c].at = "live" /\ client[c].wire # <<>>
    /\ LET e == Head(client[c].wire) IN
       /\ e.event = "reset"
       /\ client' = [client EXCEPT ![c].lastId = e.id, ![c].seen = <<>>,
                                   ![c].wire = Tail(@)]
    /\ rows' = [rows EXCEPT ![c] = <<>>]
    /\ given' = [given EXCEPT ![c] = <<>>]
    /\ UNCHANGED <<logvars, servervars, writes>>

ReceiveRecord(c) ==
    /\ client[c].at = "live" /\ client[c].wire # <<>>
    /\ LET e == Head(client[c].wire)
           new == ~Contains(client[c].seen, e.of) IN
       /\ e.event = "audit"
       /\ client' = [client EXCEPT
             ![c].lastId = IF e.id = None THEN @ ELSE e.id,
             ![c].seen = IF new THEN Remember(@, e.of) ELSE @,
             ![c].wire = Tail(@)]
       /\ IF new
          THEN /\ rows' = [rows EXCEPT ![c] = NewestRows(c, e.of)]
               /\ given' = [given EXCEPT ![c] = Append(@, e.of)]
          ELSE UNCHANGED <<rows, given>>
    /\ UNCHANGED <<logvars, servervars, writes>>

\* Everything the stream sent is read, and its end.
StreamEnds(c) ==
    /\ client[c].at = "live" /\ client[c].conn = None
    /\ client[c].wire = <<>>
    /\ client' = [client EXCEPT ![c].at = "connect"]
    /\ UNCHANGED <<logvars, servervars, rows, given, writes>>

\* The connection breaks: what is on its way is lost, and the server is yet to
\* learn of it.
Drop(c) ==
    /\ client[c].at = "live"
    /\ writes.faults < MaxFaults
    /\ client' = [client EXCEPT ![c].at = "connect", ![c].conn = None, ![c].wire = <<>>]
    /\ stream' = [s \in Stream |->
          IF s = client[c].conn THEN [stream[s] EXCEPT !.peer = None] ELSE stream[s]]
    /\ writes' = [writes EXCEPT !.faults = @ + 1]
    /\ UNCHANGED <<logvars, active, rows, given>>

-----------------------------------------------------------------------------
ServerStep(s) == Begin(s) \/ CheckSize(s) \/ StatLog(s) \/ ReadLog(s)

PageStep(c) ==
    \/ Load(c) \/ LoadRaises(c) \/ Connect(c)
    \/ ReceiveReset(c) \/ ReceiveRecord(c) \/ StreamEnds(c)

Next ==
    \/ BeginRecord \/ BeginJunk \/ WriteCell \/ Replace
    \/ \E s \in Stream : ServerStep(s) \/ Abandon(s) \/ Deadline(s) \/ Disconnected(s)
    \/ \E c \in Client : PageStep(c) \/ Stop(c) \/ Drop(c)

Spec == Init /\ [][Next]_vars

\* The loops of the server and of a page go on, and the server learns of a client
\* that has gone; nothing is assumed of the writer, of faults or of the end of a
\* stream.
FairSpec ==
    /\ Spec
    /\ \A s \in Stream : WF_vars(ServerStep(s)) /\ WF_vars(Disconnected(s))
    /\ \A c \in Client : WF_vars(PageStep(c))

-----------------------------------------------------------------------------
(* Properties *)

Event == [event: {"audit", "reset"}, of: Nat, id: Nat \cup {None}]

TypeOK ==
    /\ file \in Seq(Cell) /\ pending \in Seq(Cell)
    /\ active \in 0..MaxStreams
    /\ stream \in [Stream -> [at: {"free", "accepted", "check", "stat", "read"},
                              cursor: Nat, after: Nat, peer: Client \cup {None},
                              idle: BOOLEAN]]
    /\ client \in [Client -> [at: {"load", "connect", "live", "stopped"}, lastId: Nat,
                              conn: Stream \cup {None}, wire: Seq(Event),
                              seen: Seq(Nat)]]
    /\ rows \in [Client -> Seq(Nat)] /\ given \in [Client -> Seq(Nat)]
    /\ writes \in [records: Nat, junk: Nat, replaced: Nat, faults: Nat, abandoned: Nat]

\* A page is told of a record once, however often streams break in the middle of
\* a page of records and are resumed at the cursor before it, and though it keeps
\* only the newest ids: no resume goes back further than it remembers.  Of a log
\* with lines that are no records this is so until it is replaced: a cursor that
\* such a line moved without a word may point past records of the new log, which
\* a page that resumes from its older cursor is told of after later ones, and
\* that is how it forgets some and is told of them again.
ToldOnce ==
    writes.replaced = 0 \/ writes.junk = 0 => \A c \in Client : IsInjective(given[c])

\* Every place taken is a stream that is still served, or one that was given up
\* before its body began; the streams are never more than MaxStreams.
PlacesAccounted ==
    /\ active = Cardinality({s \in Stream : stream[s].at # "free"}) + writes.abandoned
    /\ active <= MaxStreams

\* The newest record of the first n cells, 0 if there is none.
NewestOf(n) == IF Records(0, n) = <<>> THEN 0 ELSE Last(Records(0, n))

\* The newest record a page is past: it was told of it, or was opened behind it.
Past(c) == IF rows[c] # <<>> THEN Last(rows[c]) ELSE NewestOf(Min({client[c].lastId, Len(file)}))

\* dashboard-6b-ui-shell.md:24: "reconnect with Last-Event-ID, no duplicate rows,
\* no gap": while nobody replaces the log, a page is a LiveView.
View == INSTANCE LiveView WITH
    records <- Records(0, Len(file)),
    long    <- Len(file) > MaxRead,
    page    <- [c \in Client |->
                  [at |-> CASE client[c].at = "load"    -> "loading"
                            [] client[c].at = "stopped" -> "closed"
                            [] OTHER                    -> "open",
                   rows |-> rows[c],
                   past |-> Past(c)]]

NoGapNoDuplicate ==
    View!Init /\ [][View!Next \/ writes'.replaced > 0]_(View!vars)

\* A record that is in the log is sooner or later shown on every page that was
\* opened before it and not told to stop, whatever breaks in between, if nobody
\* replaces the log and a place is left that was not given up.
EveryRecordShown ==
    \A c \in Client : \A r \in 1..MaxRecords :
        Contains(Records(0, Len(file)), r)
            ~> \/ client[c].at = "stopped" \/ writes.replaced > 0
               \/ writes.abandoned >= MaxStreams
               \/ Past(c) >= r

\* A stream starts over only after it told its client to drop what it shows.
RestartAnnounced ==
    [][\A s \in Stream :
          stream'[s].cursor < stream[s].cursor /\ stream'[s].at # "free"
              => stream[s].at = "check"]_vars
=============================================================================
