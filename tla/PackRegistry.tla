---------------------------- MODULE PackRegistry ----------------------------
(***************************************************************************)
(* install_pack and remove_pack (core/packs/registry.py) on the directory  *)
(* of installed packs, step by step: what is checked first, the copy       *)
(* beside, the old directory taken away, the rename. Processes call them   *)
(* at the same time and may die in them. Nothing is kept but directories.  *)
(***************************************************************************)
EXTENDS Naturals, FiniteSets

CONSTANTS
    Client,
    Pack,
    None,           \* no manifest, no directory
    Manifests,      \* what the registry offers over time: packs and their versions
    MaxLeft         \* bound: temporary directories left behind

VARIABLES
    installed,      \* each pack's directory: its manifest, if it can be read, and whether all files are there
    leftover,       \* the same of temporary directories that no call works on
    job,            \* each client's call
    disturbed,      \* history: two calls ran at once, or one died or failed half-way
    had             \* history: packs installed since their last removal began

packvars == <<installed, leftover, job, disturbed, had>>

\* For the proofs: manifests are of packs and name packs, and None is neither a
\* manifest nor a directory.
PackAssumption ==
    /\ \A m \in Manifests : m.name \in Pack /\ \A n \in m.needs : n.on \in Pack
    /\ None \notin Manifests \cup [manifest: Manifests \cup {None}, whole: BOOLEAN]

NoJob == [at |-> "idle", pack |-> None, manifest |-> None]

PackInit ==
    /\ installed = [p \in Pack |-> None]
    /\ leftover = {}
    /\ job = [c \in Client |-> NoJob]
    /\ disturbed = FALSE
    /\ had = {}

Dir(m, whole) == [manifest |-> m, whole |-> whole]

Removing(p) == \E c \in Client : job[c].pack = p /\ job[c].at \in {"remove", "removing"}

-----------------------------------------------------------------------------
Holds(v, op, bound) ==
    CASE op = ">=" -> v >= bound
      [] op = "<=" -> v <= bound
      [] op = ">"  -> v > bound
      [] op = "<"  -> v < bound
      [] op = "==" -> v = bound

\* satisfies: every clause of a range. Versions are ordered: numbers stand for them.
Satisfies(v, range) == \A k \in range : Holds(v, k.op, k.bound)

\* A dependency without a range asks for a directory, one with a range for a
\* manifest that can be read.
NeedMet(n) ==
    /\ installed[n.on] # None
    /\ n.range # {} =>
          /\ installed[n.on].manifest # None
          /\ Satisfies(installed[n.on].manifest.version, n.range)

\* remove_pack's dependents.
Needs(m, p) == m.name # p /\ \E n \in m.needs : n.on = p

\* list_installed_packs reads every directory, the temporary ones too; those with a
\* copy in progress may hold pack.yaml or not, and are left out here.
Listed ==
    LET Temp == {c \in Client : job[c].at \in {"swap", "take", "taking", "rename"}} IN
    ({installed[p].manifest : p \in {q \in Pack : installed[q] # None}}
        \cup {d.manifest : d \in leftover} \cup {job[c].manifest : c \in Temp}) \ {None}

Begin(c, at, p, m) ==
    /\ job' = [job EXCEPT ![c] = [at |-> at, pack |-> p, manifest |-> m]]
    /\ disturbed' = (disturbed \/ \E d \in Client : job[d].at # "idle")

Goto(c, at) == job' = [job EXCEPT ![c].at = at]

End(c) == job' = [job EXCEPT ![c] = NoJob]

-----------------------------------------------------------------------------
\* What install_pack checks before it copies anything.
InstallPack(c) ==
    /\ job[c].at = "idle"
    /\ \E m \in Manifests :
          /\ \A n \in m.needs : n.on # m.name /\ NeedMet(n)
          /\ Begin(c, "copy", m.name, m)
    /\ UNCHANGED <<installed, leftover, had>>

\* Mutant: the old directory is taken away and the new one copied in its place.
CopyInPlace(c) ==
    /\ job[c].at = "copy"
    /\ installed' = [installed EXCEPT ![job[c].pack] = None]
    /\ Goto(c, "rename") \/ End(c)
    /\ UNCHANGED <<leftover, disturbed, had>>

\* copytree ends, or fails and its temporary directory is taken away.
CopyTree(c) ==
    /\ job[c].at = "copy"
    /\ Goto(c, "swap") \/ End(c)
    /\ UNCHANGED <<installed, leftover, disturbed, had>>

LookAtDest(c) ==
    /\ job[c].at = "swap"
    /\ Goto(c, IF installed[job[c].pack] = None THEN "rename" ELSE "take")
    /\ UNCHANGED <<installed, leftover, disturbed, had>>

RemovePack(c) ==
    /\ job[c].at = "idle"
    /\ \E p \in Pack :
          /\ installed[p] # None
          /\ \A m \in Listed : ~Needs(m, p)
          /\ Begin(c, "remove", p, None)
          /\ had' = had \ {p}
    /\ UNCHANGED <<installed, leftover>>

\* rmtree takes file after file, pack.yaml among the first or the last; where it goes
\* by paths it may come to files that another call has put there since.
TakeSome(c) ==
    /\ job[c].at \in {"take", "taking", "remove", "removing"}
    /\ LET d == installed[job[c].pack] IN
       /\ d # None
       /\ \E m \in {d.manifest, None} :
             installed' = [installed EXCEPT ![job[c].pack] = Dir(m, FALSE)]
    /\ Goto(c, IF job[c].at \in {"take", "taking"} THEN "taking" ELSE "removing")
    /\ UNCHANGED <<leftover, disturbed, had>>

TakeRest(c) ==
    /\ job[c].at \in {"taking", "removing"}
    /\ installed[job[c].pack] # None
    /\ installed' = [installed EXCEPT ![job[c].pack] = None]
    /\ IF job[c].at = "taking" THEN Goto(c, "rename") ELSE End(c)
    /\ UNCHANGED <<leftover, disturbed, had>>

RenameIntoPlace(c) ==
    /\ job[c].at = "rename"
    /\ installed[job[c].pack] = None
    /\ installed' = [installed EXCEPT ![job[c].pack] = Dir(job[c].manifest, TRUE)]
    /\ had' = IF Removing(job[c].pack) THEN had ELSE had \cup {job[c].pack}
    /\ End(c)
    /\ UNCHANGED <<leftover, disturbed>>

\* A call fails, as when another one was there first, or its process dies; its
\* temporary directory stays.
FailHalfway(c) ==
    /\ job[c].at # "idle"
    /\ IF job[c].at \in {"remove", "removing"} THEN UNCHANGED leftover
       ELSE /\ Cardinality(leftover) < MaxLeft
            /\ \E d \in IF job[c].at = "copy" THEN {Dir(job[c].manifest, FALSE), Dir(None, FALSE)}
                        ELSE {Dir(job[c].manifest, TRUE)} :
                  leftover' = leftover \cup {d}
    /\ disturbed' = TRUE
    /\ End(c)
    /\ UNCHANGED <<installed, had>>

PackNext ==
    \E c \in Client :
        \/ InstallPack(c) \/ CopyTree(c) \/ LookAtDest(c) \/ RemovePack(c)
        \/ TakeSome(c) \/ TakeRest(c) \/ RenameIntoPlace(c) \/ FailHalfway(c)

-----------------------------------------------------------------------------
PackTypeOK ==
    LET Kept == [manifest: Manifests \cup {None}, whole: BOOLEAN] IN
    /\ installed \in [Pack -> Kept \cup {None}]
    /\ leftover \subseteq Kept
    /\ job \in [Client -> [at: {"idle", "copy", "swap", "take", "taking", "rename", "remove", "removing"},
                           pack: Pack \cup {None}, manifest: Manifests \cup {None}]]
    /\ disturbed \in BOOLEAN /\ had \subseteq Pack

\* ARCHITECTURE.md:91: what an installed pack depends on is installed, or just being
\* replaced, through installs, upgrades and removals in any order, as long as calls
\* neither overlap nor fail half-way; and until a pack is removed a complete copy of it is on the disk, in
\* its place or beside it, whoever replaces it at the same time and whoever dies
\* (registry.py:117).
PacksStay ==
    /\ ~disturbed =>
          \A p \in Pack : installed[p] # None /\ installed[p].manifest # None =>
              \A n \in installed[p].manifest.needs :
                  \/ installed[n.on] # None
                  \/ \E c \in Client : job[c].pack = n.on /\ job[c].at = "rename"
    /\ \A p \in had :
          \/ installed[p] # None /\ installed[p].whole
          \/ \E d \in leftover : d.whole /\ d.manifest.name = p
          \/ \E c \in Client : job[c].pack = p /\ job[c].at \in {"swap", "take", "taking", "rename"}
=============================================================================
