------------------------------ MODULE CodeIndex ------------------------------
(***************************************************************************)
(* query_code_index (core/index/query.py) over its table (store.py): walk  *)
(* the tree, parse again what has another mtime than the one stored, drop  *)
(* what was not seen, answer from the table.  Several queries share the    *)
(* table, and files are edited, moved away, locked and restored as they    *)
(* run.  The symbols of a file are its content, and its content is the     *)
(* edit that made it; the mtime of a file is that edit too, so that no two *)
(* contents of a file have one mtime.                                      *)
(***************************************************************************)
EXTENDS Naturals, FiniteSets

CONSTANTS
    Client,
    File,
    Dirs,           \* directories: a partition of File
    None,           \* no row, no symbols, no file
    MaxEdits        \* bound: changes of the tree

VARIABLES
    source,         \* each file: the edit it holds, and whether it can be read
    shut,           \* directories that cannot be listed
    clock,          \* the last change of the tree
    stored,         \* the table: for each file the mtime, and the content its symbols are of
    query,          \* each client's query
    restored        \* history: a file has got back an mtime older than the last edit

treevars == <<source, shut, clock, restored>>
indexvars == <<treevars, stored, query>>

Version == 0..MaxEdits

\* What is stored of a file; raced is history: it got another content after the
\* query had looked at its mtime and before it parsed it.
Row == [mtime: Version, content: Version \cup {None}, raced: BOOLEAN]

\* For the proofs: every file is in a directory, and None is neither a file, a row nor
\* a version.
IndexAssumption ==
    /\ UNION Dirs = File
    /\ MaxEdits \in Nat
    /\ None \notin File \cup Row \cup Version

NoQuery == [at |-> "idle", dirs |-> {}, todo |-> {}, seen |-> {}, stale |-> {},
            file |-> None, mtime |-> 0, content |-> None, raced |-> FALSE, alone |-> TRUE]

IndexInit ==
    /\ source \in [File -> [version: {0}, state: {"there", "locked", "gone"}]]
    /\ shut \in SUBSET Dirs
    /\ clock = 0
    /\ restored = FALSE
    /\ stored = [f \in File |-> None]
    /\ query = [c \in Client |-> NoQuery]

Running(c) == query[c].at # "idle"

\* What a query learns is as old as the moment it looked: its steps, in order.
Ask(c) ==
    /\ ~Running(c)
    /\ query' = [d \in Client |->
          IF d = c THEN [NoQuery EXCEPT !.at = "walk", !.dirs = Dirs,
                                        !.alone = \A e \in Client : ~Running(e)]
          ELSE IF Running(d) THEN [query[d] EXCEPT !.alone = FALSE] ELSE query[d]]
    /\ UNCHANGED <<treevars, stored>>

\* os.walk lists a directory when it gets there, and passes over one that cannot
\* be listed: its files are not seen.
ListDirectory(c) ==
    /\ query[c].at = "walk" /\ query[c].todo = {}
    /\ \E d \in query[c].dirs :
          query' = [query EXCEPT ![c].dirs = @ \ {d},
                                 ![c].todo = IF d \in shut THEN {}
                                              ELSE {f \in d : source[f].state # "gone"}]
    /\ UNCHANGED <<treevars, stored>>

\* A file that is gone by now is passed over; one whose mtime is stored is not
\* parsed again. (The mtime stored is looked up at once after the stat.)
StatFile(c) ==
    /\ query[c].at = "walk"
    /\ \E f \in query[c].todo :
          LET seen == [query[c] EXCEPT !.todo = @ \ {f}, !.seen = @ \cup {f}] IN
          query' = [query EXCEPT ![c] =
             IF source[f].state = "gone" \/ (stored[f] # None /\ stored[f].mtime = source[f].version)
             THEN seen
             ELSE [seen EXCEPT !.at = "parse", !.file = f, !.mtime = source[f].version]]
    /\ UNCHANGED <<treevars, stored>>

\* parse_file: no symbols if the file cannot be read.
ParseFile(c) ==
    /\ query[c].at = "parse"
    /\ LET s == source[query[c].file] IN
       query' = [query EXCEPT ![c].at = "store",
                              ![c].content = IF s.state = "there" THEN s.version ELSE None]
    /\ UNCHANGED <<treevars, stored>>

\* Mutant: the mtime is taken when the rows are written.
ReplaceWithLateMtime(c) ==
    /\ query[c].at = "store"
    /\ stored' = [stored EXCEPT ![query[c].file] =
          [mtime |-> source[query[c].file].version, content |-> query[c].content,
           raced |-> query[c].raced]]
    /\ query' = [query EXCEPT ![c].at = "walk", ![c].file = None, ![c].mtime = 0,
                              ![c].content = None, ![c].raced = FALSE]
    /\ UNCHANGED treevars

\* replace_file_rows, one transaction.
ReplaceFileRows(c) ==
    /\ query[c].at = "store"
    /\ stored' = [stored EXCEPT ![query[c].file] =
          [mtime |-> query[c].mtime, content |-> query[c].content, raced |-> query[c].raced]]
    /\ query' = [query EXCEPT ![c].at = "walk", ![c].file = None, ![c].mtime = 0,
                              ![c].content = None, ![c].raced = FALSE]
    /\ UNCHANGED treevars

\* What the table knows and the walk has not seen.
FindStale(c) ==
    /\ query[c].at = "walk" /\ query[c].dirs = {} /\ query[c].todo = {}
    /\ query' = [query EXCEPT ![c].at = "sweep",
                              ![c].stale = {f \in File : stored[f] # None} \ query[c].seen]
    /\ UNCHANGED <<treevars, stored>>

\* delete_file_rows, one transaction for each.
DeleteFileRows(c) ==
    /\ query[c].at = "sweep"
    /\ \E f \in query[c].stale :
          /\ stored' = [stored EXCEPT ![f] = None]
          /\ query' = [query EXCEPT ![c].stale = @ \ {f}]
    /\ UNCHANGED treevars

\* query_symbol reads the table, and the query is over.
QuerySymbol(c) ==
    /\ query[c].at = "sweep" /\ query[c].stale = {}
    /\ query' = [query EXCEPT ![c] = NoQuery]
    /\ UNCHANGED <<treevars, stored>>

\* A query fails or its process dies.
QueryDies(c) ==
    /\ Running(c)
    /\ query' = [query EXCEPT ![c] = NoQuery]
    /\ UNCHANGED <<treevars, stored>>

\* Nobody is alone with the tree any more, and a query that has yet to parse the
\* file is about to store what it will find under the mtime it has found.
Disturbed(f) ==
    [c \in Client |->
        IF Running(c)
        THEN [query[c] EXCEPT !.alone = FALSE,
                              !.raced = @ \/ (query[c].at = "parse" /\ query[c].file = f)]
        ELSE query[c]]

\* Time passes from one change of the tree to the next.
Tick == clock < MaxEdits /\ clock' = clock + 1

\* A new content.
EditFile(f) ==
    /\ Tick
    /\ source' = [source EXCEPT ![f] = [version |-> clock + 1, state |-> "there"]]
    /\ query' = Disturbed(f)
    /\ UNCHANGED <<shut, restored, stored>>

\* An older one with its own mtime (a backup moved or copied back).
RestoreFile(f) ==
    /\ Tick
    /\ \E v \in 0..clock :
          /\ v # source[f].version
          /\ source' = [source EXCEPT ![f] = [version |-> v, state |-> "there"]]
    /\ restored' = TRUE
    /\ query' = Disturbed(f)
    /\ UNCHANGED <<shut, stored>>

\* The same one moved away, locked, or back.
MoveFile(f) ==
    /\ Tick
    /\ \E s \in {"there", "locked", "gone"} \ {source[f].state} :
          source' = [source EXCEPT ![f].state = s]
    /\ query' = Disturbed(None)
    /\ UNCHANGED <<shut, restored, stored>>

ShutDirectories ==
    /\ Tick
    /\ \E ds \in SUBSET Dirs : ds # shut /\ shut' = ds
    /\ query' = Disturbed(None)
    /\ UNCHANGED <<source, restored, stored>>

IndexNext ==
    \/ \E c \in Client :
          \/ Ask(c) \/ ListDirectory(c) \/ StatFile(c) \/ ParseFile(c) \/ ReplaceFileRows(c)
          \/ FindStale(c) \/ DeleteFileRows(c) \/ QuerySymbol(c) \/ QueryDies(c)
    \/ \E f \in File : EditFile(f) \/ RestoreFile(f) \/ MoveFile(f)
    \/ ShutDirectories

-----------------------------------------------------------------------------
IndexTypeOK ==
    /\ source \in [File -> [version: Version, state: {"there", "locked", "gone"}]]
    /\ shut \subseteq Dirs
    /\ clock \in Version
    /\ restored \in BOOLEAN
    /\ stored \in [File -> Row \cup {None}]
    /\ query \in [Client -> [at: {"idle", "walk", "parse", "store", "sweep"}, dirs: SUBSET Dirs,
          todo: SUBSET File, seen: SUBSET File, stale: SUBSET File,
          file: File \cup {None}, mtime: Version, content: Version \cup {None},
          raced: BOOLEAN, alone: BOOLEAN]]

\* store.py:3-4, rows are consistent with the mtime they are stored with, as far as
\* query.py:79-87 makes it so with queries that overtake each other: a row holds the
\* content of its mtime, or none of a file that could not be read, unless the file
\* got another content between the query's stat and its parse.
RowsOfTheirMtime ==
    \A f \in File :
        stored[f] # None /\ ~stored[f].raced => stored[f].content \in {stored[f].mtime, None}

\* A row that was raced is not taken for current: its mtime is not that of the file
\* any more, so the next query parses the file again, as long as nobody gives the
\* file that older mtime back.
RacedRowsGo ==
    ~restored => \A f \in File :
        stored[f] # None /\ stored[f].mtime = source[f].version =>
            stored[f].content \in {source[f].version, None}

\* query.py:3-5: a query that nobody disturbs, by work on the tree or by another
\* query, answers from rows of the mtime of each file that is there, and of no file
\* that is gone or in a directory that cannot be listed.
AnswersAreCurrent ==
    \A c \in Client :
        query[c].at = "sweep" /\ query[c].stale = {} /\ query[c].alone =>
            \A f \in File :
                LET listed == \E d \in Dirs \ shut : f \in d IN
                /\ source[f].state = "there" /\ listed =>
                      stored[f] # None /\ stored[f].mtime = source[f].version
                /\ source[f].state = "gone" \/ ~listed => stored[f] = None

\* What a query answers from is the tree, but for the files that were edited under
\* an earlier one, or that it could not read.
AnswerIsTheTree == RowsOfTheirMtime /\ RacedRowsGo /\ AnswersAreCurrent
=============================================================================
