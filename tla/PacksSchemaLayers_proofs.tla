--------------------- MODULE PacksSchemaLayers_proofs ----------------------
(***************************************************************************)
(* Theorems about the behaviours of MCParts: of the packs, of the schema   *)
(* of the database and of the layers of the configuration; and the types   *)
(* of the health checks.                                                   *)
(***************************************************************************)
EXTENDS MCParts, TLAPS

-----------------------------------------------------------------------------
(* The packs *)

Kept == [manifest: Manifests \cup {None}, whole: BOOLEAN]

\* What an install does before its rename.
Installing == {"copy", "swap", "take", "taking", "rename"}

\* A complete copy of it is in its place, left over, or beside it.
Safe(p) ==
    \/ installed[p] # None /\ installed[p].whole
    \/ \E d \in leftover : d.whole /\ d.manifest.name = p
    \/ \E c \in Client : job[c].pack = p /\ job[c].at \in Installing \ {"copy"}

\* A directory that can be read is that of its pack, which does not need itself.
DirsFit ==
    \A p \in Pack : installed[p] # None /\ installed[p].manifest # None =>
        /\ installed[p].manifest.name = p
        /\ \A n \in installed[p].manifest.needs : n.on # p

\* What a call works on.
JobFits(j) ==
    /\ j \in [at: {"idle", "remove", "removing"} \cup Installing, pack: Pack \cup {None},
              manifest: Manifests \cup {None}]
    /\ j.at \in Installing => /\ j.manifest \in Manifests /\ j.pack = j.manifest.name
                              /\ \A n \in j.manifest.needs : n.on # j.pack
    /\ j.at # "idle" => j.pack \in Pack

Present(q) == installed[q] # None \/ \E c \in Client : job[c].pack = q /\ job[c].at = "rename"

\* Where no two calls met and none failed: what an installed pack needs is there,
\* what a pack in the making needs is installed, and what is being removed is not
\* needed.
NeedsMet ==
    /\ \A c, d \in Client : job[c].at # "idle" /\ job[d].at # "idle" => c = d
    /\ \A p \in Pack : installed[p] # None /\ installed[p].manifest # None =>
          \A n \in installed[p].manifest.needs : Present(n.on)
    /\ \A c \in Client :
          /\ job[c].at \in Installing => \A n \in job[c].manifest.needs : installed[n.on] # None
          /\ job[c].at \in {"remove", "removing"} =>
                \A p \in Pack : installed[p] # None /\ installed[p].manifest # None =>
                    \A n \in installed[p].manifest.needs : n.on # job[c].pack

PackInv ==
    /\ installed \in [Pack -> Kept \cup {None}]
    /\ leftover \subseteq Kept
    /\ job = [c \in Client |-> job[c]]
    /\ \A c \in Client : JobFits(job[c])
    /\ DirsFit
    /\ \A p \in had : Safe(p) /\ ~Packs!Removing(p)
    /\ ~disturbed => NeedsMet

LEMMA PackBegins ==
    ASSUME Packs!PackInit
    PROVE  PackInv
<1>1. job = [c \in Client |-> job[c]] /\ \A c \in Client : job[c] = Packs!NoJob
  BY DEF Packs!PackInit
<1>2. JobFits(Packs!NoJob) /\ Packs!NoJob.at = "idle"
  BY DEF JobFits, Packs!NoJob, Installing
<1>3. NeedsMet
  BY <1>1, <1>2 DEF NeedsMet, Installing, Packs!PackInit
<1> QED BY <1>1, <1>2, <1>3 DEF PackInv, DirsFit, Packs!PackInit

\* A step of one call that leaves the packs' directories alone.
LEMMA PackGoesOn ==
    ASSUME PackInv, NEW c \in Client, NEW j, job' = [job EXCEPT ![c] = j], JobFits(j),
           installed' = installed, leftover \subseteq leftover', leftover' \subseteq Kept,
           had' \subseteq had,
           job[c].at \in Installing \ {"copy"} =>
               \/ j.at \in Installing \ {"copy"} /\ j.pack = job[c].pack
               \/ \E d \in leftover' : d.whole /\ d.manifest.name = job[c].pack,
           j.at \in {"remove", "removing"} => j.pack \notin had',
           ~disturbed' => NeedsMet'
    PROVE  PackInv'
<1>1. \A d \in Client : job'[d] = IF d = c THEN j ELSE job[d]
  BY DEF PackInv
<1>2. job' = [d \in Client |-> job'[d]] /\ \A d \in Client : JobFits(job'[d])
  BY <1>1 DEF PackInv
<1>3. \A d \in Client : JobFits(job[d])'
  BY <1>2 DEF JobFits
<1>4. DirsFit'
  BY DEF PackInv, DirsFit
<1>5. ASSUME NEW p \in had' PROVE Safe(p)' /\ ~Packs!Removing(p)'
  <2>1. Safe(p) /\ ~Packs!Removing(p)
    BY <1>5 DEF PackInv
  <2>2. Safe(p)'
    BY <1>1, <2>1 DEF Safe
  <2>3. ~Packs!Removing(p)'
    BY <1>1, <1>5, <2>1 DEF Packs!Removing
  <2> QED BY <2>2, <2>3
<1> QED BY <1>2, <1>3, <1>4, <1>5 DEF PackInv

\* A step of one call on the directory of its pack.
LEMMA PackChanges ==
    ASSUME PackInv, NEW c \in Client, NEW j, job' = [job EXCEPT ![c] = j], JobFits(j),
           NEW p \in Pack, p = job[c].pack,
           NEW d \in Kept \cup {None}, installed' = [installed EXCEPT ![p] = d],
           d # None /\ d.manifest # None =>
               d.manifest.name = p /\ \A n \in d.manifest.needs : n.on # p,
           UNCHANGED <<leftover, disturbed>>,
           had' = IF d # None /\ d.whole /\ ~Packs!Removing(p) THEN had \cup {p} ELSE had,
           d # None /\ d.whole => job[c].at \in Installing,
           ~(d # None /\ d.whole) => \/ Packs!Removing(p)
                                     \/ j.at \in Installing \ {"copy"} /\ j.pack = p,
           j.at \in {"remove", "removing"} => j.pack = p /\ Packs!Removing(p),
           ~disturbed => NeedsMet'
    PROVE  PackInv'
<1>1. \A b \in Client : job'[b] = IF b = c THEN j ELSE job[b]
  BY DEF PackInv
<1>2. job' = [b \in Client |-> job'[b]] /\ \A b \in Client : JobFits(job'[b])
  BY <1>1 DEF PackInv
<1>3. \A b \in Client : JobFits(job[b])'
  BY <1>2 DEF JobFits
<1>4. \A q \in Pack : installed'[q] = IF q = p THEN d ELSE installed[q]
  BY DEF PackInv
<1>5. installed' \in [Pack -> Kept \cup {None}]
  BY DEF PackInv
<1>6. DirsFit'
  BY <1>4 DEF PackInv, DirsFit
<1>7. ASSUME NEW q \in had, q # p PROVE Safe(q)' /\ ~Packs!Removing(q)'
  <2>1. Safe(q) /\ ~Packs!Removing(q)
    BY <1>7 DEF PackInv
  <2>2. installed'[q] = installed[q]
    BY <1>7 DEF PackInv
  <2>3. Safe(q)'
    BY <1>1, <1>7, <2>1, <2>2 DEF Safe
  <2>4. ~Packs!Removing(q)'
    BY <1>1, <1>7, <2>1 DEF Packs!Removing
  <2> QED BY <2>3, <2>4
<1>8. ASSUME p \in had' PROVE Safe(p)' /\ ~Packs!Removing(p)'
  <2>1. ~Packs!Removing(p)
    BY <1>8 DEF PackInv
  <2>2. ~Packs!Removing(p)'
    BY <1>1, <2>1 DEF Packs!Removing
  <2>3. installed'[p] = d /\ job'[c] = j
    BY <1>1, <1>4
  <2>4. \/ installed'[p] # None /\ installed'[p].whole
        \/ job'[c].pack = p /\ job'[c].at \in Installing \ {"copy"}
    BY <2>1, <2>3
  <2>5. Safe(p)'
    BY <2>4 DEF Safe, Installing
  <2> QED BY <2>2, <2>5
<1>9. \A q \in had' : Safe(q)' /\ ~Packs!Removing(q)'
  BY <1>7, <1>8
<1> QED BY <1>2, <1>3, <1>5, <1>6, <1>9 DEF PackInv

\* Needs are met after the step of a call that is the only one.
LEMMA LoneCallMeets ==
    ASSUME PackInv, NEW c \in Client, NEW j, job' = [job EXCEPT ![c] = j],
           \A b \in Client : b # c => job[b].at = "idle",
           \A p \in Pack : installed'[p] # None /\ installed'[p].manifest # None =>
               \A n \in installed'[p].manifest.needs :
                   \/ installed'[n.on] # None
                   \/ j.pack = n.on /\ j.at = "rename",
           j.at \in Installing => \A n \in j.manifest.needs : installed'[n.on] # None,
           j.at \in {"remove", "removing"} =>
               \A p \in Pack : installed'[p] # None /\ installed'[p].manifest # None =>
                   \A n \in installed'[p].manifest.needs : n.on # j.pack
    PROVE  NeedsMet'
<1>1. job'[c] = j /\ \A b \in Client : b # c => job'[b].at = "idle"
  BY DEF PackInv
<1>2. \A a, b \in Client : job'[a].at # "idle" /\ job'[b].at # "idle" => a = b
  BY <1>1
<1>3. \A q : installed'[q] # None \/ (j.pack = q /\ j.at = "rename") => Present(q)'
  BY <1>1 DEF Present
<1>4. \A p \in Pack : installed'[p] # None /\ installed'[p].manifest # None =>
        \A n \in installed'[p].manifest.needs : Present(n.on)'
  BY <1>3
<1>5. ASSUME NEW b \in Client, job'[b].at \in Installing
      PROVE  \A n \in job'[b].manifest.needs : installed'[n.on] # None
  BY <1>1, <1>5 DEF Installing
<1>6. ASSUME NEW b \in Client, job'[b].at \in {"remove", "removing"}, NEW p \in Pack,
             installed'[p] # None, installed'[p].manifest # None
      PROVE  \A n \in installed'[p].manifest.needs : n.on # job'[b].pack
  BY <1>1, <1>6
<1> QED BY <1>2, <1>4, <1>5, <1>6 DEF NeedsMet

\* A call at work is the only one, where no two met.
LEMMA LoneCall ==
    ASSUME PackInv, NEW c \in Client, job[c].at # "idle", ~disturbed
    PROVE  /\ \A b \in Client : b # c => job[b].at = "idle"
           /\ \A p \in Pack : installed[p] # None /\ installed[p].manifest # None =>
                 \A n \in installed[p].manifest.needs :
                     \/ installed[n.on] # None
                     \/ job[c].pack = n.on /\ job[c].at = "rename"
           /\ job[c].at \in Installing => \A n \in job[c].manifest.needs : installed[n.on] # None
           /\ job[c].at \in {"remove", "removing"} =>
                 \A p \in Pack : installed[p] # None /\ installed[p].manifest # None =>
                     \A n \in installed[p].manifest.needs : n.on # job[c].pack
<1>1. NeedsMet
  BY DEF PackInv
<1>2. \A b \in Client : job[b].at # "idle" => b = c
  BY <1>1 DEF NeedsMet
<1>3. \A q : Present(q) => installed[q] # None \/ (job[c].pack = q /\ job[c].at = "rename")
  BY <1>2 DEF Present
<1> QED BY <1>1, <1>2, <1>3 DEF NeedsMet

\* A call begins: install_pack when what it needs is met, remove_pack when nothing
\* needs what it removes.
LEMMA PackCallBegins ==
    ASSUME Packs!PackAssumption, PackInv, NEW c \in Client,
           Packs!InstallPack(c) \/ Packs!RemovePack(c)
    PROVE  PackInv'
<1>1. job[c].at = "idle" /\ installed' = installed /\ leftover' = leftover
  BY DEF Packs!InstallPack, Packs!RemovePack
<1>2. ASSUME ~disturbed', disturbed' = (disturbed \/ \E d \in Client : job[d].at # "idle")
      PROVE  /\ \A b \in Client : job[b].at = "idle"
             /\ \A p \in Pack : installed[p] # None /\ installed[p].manifest # None =>
                   \A n \in installed[p].manifest.needs : installed[n.on] # None
  <2>1. \A b \in Client : job[b].at = "idle"
    BY <1>2
  <2>2. \A q : Present(q) => installed[q] # None
    BY <2>1 DEF Present
  <2> QED BY <1>2, <2>1, <2>2 DEF PackInv, NeedsMet
<1>3. CASE Packs!InstallPack(c)
  <2>1. PICK m \in Manifests :
          /\ \A n \in m.needs : n.on # m.name /\ Packs!NeedMet(n)
          /\ Packs!Begin(c, "copy", m.name, m)
    BY <1>3 DEF Packs!InstallPack
  <2>2. PICK j : j = [at |-> "copy", pack |-> m.name, manifest |-> m]
    OBVIOUS
  <2>3. job' = [job EXCEPT ![c] = j]
        /\ disturbed' = (disturbed \/ \E d \in Client : job[d].at # "idle")
    BY <2>1, <2>2 DEF Packs!Begin
  <2>4. JobFits(j) /\ j.at = "copy" /\ j.manifest = m
    BY <2>1, <2>2 DEF JobFits, Installing, Packs!PackAssumption
  <2>5. \A n \in m.needs : installed[n.on] # None
    BY <2>1 DEF Packs!NeedMet
  <2>6. ~disturbed' => NeedsMet'
    BY <1>1, <1>2, <2>3, <2>4, <2>5, LoneCallMeets
  <2>7. had' = had /\ job[c].at \notin Installing
    BY <1>1, <1>3 DEF Packs!InstallPack, Installing
  <2> QED BY <1>1, <2>3, <2>4, <2>6, <2>7, PackGoesOn DEF PackInv
<1>4. CASE Packs!RemovePack(c)
  <2>1. PICK p \in Pack :
          /\ installed[p] # None
          /\ \A m \in Packs!Listed : ~Packs!Needs(m, p)
          /\ Packs!Begin(c, "remove", p, None)
          /\ had' = had \ {p}
    BY <1>4 DEF Packs!RemovePack
  <2>2. PICK j : j = [at |-> "remove", pack |-> p, manifest |-> None]
    OBVIOUS
  <2>3. job' = [job EXCEPT ![c] = j]
        /\ disturbed' = (disturbed \/ \E d \in Client : job[d].at # "idle")
    BY <2>1, <2>2 DEF Packs!Begin
  <2>4. JobFits(j) /\ j.at = "remove" /\ j.pack = p /\ j.at \notin Installing
    BY <2>2 DEF JobFits, Installing
  <2>5. ASSUME NEW q \in Pack, installed[q] # None, installed[q].manifest # None
        PROVE  \A n \in installed[q].manifest.needs : n.on # p
    <3>1. installed[q].manifest \in Packs!Listed
      BY <2>5 DEF Packs!Listed
    <3>2. ~Packs!Needs(installed[q].manifest, p)
      BY <2>1, <3>1
    <3>3. installed[q].manifest.name = q
          /\ \A n \in installed[q].manifest.needs : n.on # q
      BY <2>5 DEF PackInv, DirsFit
    <3> QED BY <3>2, <3>3 DEF Packs!Needs
  <2>6. ~disturbed' => NeedsMet'
    BY <1>1, <1>2, <2>3, <2>4, <2>5, LoneCallMeets
  <2>7. p \notin had' /\ had' \subseteq had /\ job[c].at \notin Installing
    BY <1>1, <2>1 DEF Installing
  <2> QED BY <1>1, <2>3, <2>4, <2>6, <2>7, PackGoesOn DEF PackInv
<1> QED BY <1>3, <1>4

\* A call ends, or goes on with the same pack.
LEMMA JobGoesOn ==
    ASSUME NEW was, JobFits(was), NEW stage,
           \/ was.at \in Installing /\ stage \in Installing
           \/ was.at \in {"remove", "removing"} /\ stage = "removing"
    PROVE  \E j : /\ j = [was EXCEPT !.at = stage] /\ JobFits(j)
                  /\ j.at = stage /\ j.pack = was.pack /\ j.manifest = was.manifest
<1>1. PICK j : j = [was EXCEPT !.at = stage]
  OBVIOUS
<1>2. j.at = stage /\ j.pack = was.pack /\ j.manifest = was.manifest
      /\ j \in [at: {"idle", "remove", "removing"} \cup Installing, pack: Pack \cup {None},
                manifest: Manifests \cup {None}]
  BY <1>1 DEF JobFits
<1>3. JobFits(j)
  BY <1>2 DEF JobFits, Installing
<1> QED BY <1>1, <1>2, <1>3

LEMMA JobEnds == JobFits(Packs!NoJob) /\ Packs!NoJob.at = "idle"
BY DEF JobFits, Packs!NoJob, Installing

\* copytree, and the look at what is in the place.
LEMMA PackCallPrepares ==
    ASSUME PackInv, NEW c \in Client, Packs!CopyTree(c) \/ Packs!LookAtDest(c)
    PROVE  PackInv'
<1>1. /\ job[c].at \in {"copy", "swap"} /\ JobFits(job[c])
      /\ UNCHANGED <<installed, leftover, disturbed, had>>
  BY DEF PackInv, Packs!CopyTree, Packs!LookAtDest
<1>2. \/ job' = [job EXCEPT ![c] = Packs!NoJob] /\ job[c].at = "copy"
      \/ \E stage \in {"swap", "rename", "take"} : job' = [job EXCEPT ![c].at = stage]
  <2>1. CASE Packs!CopyTree(c)
    BY <2>1 DEF Packs!CopyTree, Packs!Goto, Packs!End
  <2>2. CASE Packs!LookAtDest(c)
    <3>1. PICK stage \in {"rename", "take"} :
             stage = IF installed[job[c].pack] = None THEN "rename" ELSE "take"
      OBVIOUS
    <3> QED BY <2>2, <3>1 DEF Packs!LookAtDest, Packs!Goto
  <2> QED BY <2>1, <2>2
<1>3. PICK j : /\ job' = [job EXCEPT ![c] = j] /\ JobFits(j)
               /\ \/ j.at = "idle" /\ job[c].at = "copy"
                  \/ /\ j.at \in Installing \ {"copy"}
                     /\ j.pack = job[c].pack /\ j.manifest = job[c].manifest
  <2>1. CASE job' = [job EXCEPT ![c] = Packs!NoJob] /\ job[c].at = "copy"
    BY <2>1, JobEnds
  <2>2. CASE \E stage \in {"swap", "rename", "take"} : job' = [job EXCEPT ![c].at = stage]
    <3>1. PICK stage \in {"swap", "rename", "take"} : job' = [job EXCEPT ![c].at = stage]
      BY <2>2
    <3>2. PICK j : /\ j = [job[c] EXCEPT !.at = stage] /\ JobFits(j)
                   /\ j.at = stage /\ j.pack = job[c].pack /\ j.manifest = job[c].manifest
      BY <1>1, JobGoesOn DEF Installing
    <3>3. job' = [job EXCEPT ![c] = j]
      BY <3>1, <3>2
    <3> QED BY <3>2, <3>3 DEF Installing
  <2> QED BY <1>2, <2>1, <2>2
<1>4. ASSUME ~disturbed' PROVE NeedsMet'
  <2>1. job[c].at # "idle" /\ ~disturbed /\ job[c].at \in Installing /\ job[c].at # "rename"
    BY <1>1, <1>4 DEF Installing
  <2>2. j.at \notin {"remove", "removing"}
        /\ (j.at \in Installing => j.manifest = job[c].manifest)
    BY <1>3 DEF Installing
  <2> QED BY <1>1, <1>3, <2>1, <2>2, LoneCall, LoneCallMeets
<1>5. job[c].at \in Installing \ {"copy"} =>
          j.at \in Installing \ {"copy"} /\ j.pack = job[c].pack
  BY <1>3 DEF Installing
<1>6. j.at \notin {"remove", "removing"} /\ leftover' \subseteq Kept
  BY <1>1, <1>3 DEF Installing, PackInv
<1> QED BY <1>1, <1>3, <1>4, <1>5, <1>6, PackGoesOn

\* rmtree takes some of the files, or the rest of them.
LEMMA PackTaken ==
    ASSUME Packs!PackAssumption, PackInv, NEW c \in Client, Packs!TakeSome(c) \/ Packs!TakeRest(c)
    PROVE  PackInv'
<1>1. /\ job[c].at \in {"take", "taking", "remove", "removing"} /\ JobFits(job[c])
      /\ UNCHANGED <<leftover, disturbed, had>>
  BY DEF PackInv, Packs!TakeSome, Packs!TakeRest
<1>2. PICK p \in Pack : p = job[c].pack
  BY <1>1 DEF JobFits
<1>3. installed[p] \in Kept /\ installed[p] # None
  BY <1>2 DEF PackInv, Packs!TakeSome, Packs!TakeRest
<1>4. PICK d \in Kept \cup {None} :
         /\ installed' = [installed EXCEPT ![p] = d]
         /\ d # None => ~d.whole /\ d.manifest \in {installed[p].manifest, None}
         /\ \/ d # None /\ Packs!TakeSome(c)
            \/ d = None /\ Packs!TakeRest(c)
  <2>1. CASE Packs!TakeSome(c)
    <3>1. PICK m \in {installed[p].manifest, None} :
             installed' = [installed EXCEPT ![p] = Packs!Dir(m, FALSE)]
      BY <1>2, <2>1 DEF Packs!TakeSome
    <3>2. PICK d : d = [manifest |-> m, whole |-> FALSE]
      OBVIOUS
    <3>3. d \in Kept /\ d.whole = FALSE /\ d.manifest = m
      BY <1>3, <3>1, <3>2 DEF Kept
    <3>4. d # None
      BY <3>3 DEF Packs!PackAssumption, Kept
    <3>5. installed' = [installed EXCEPT ![p] = d]
      BY <3>1, <3>2 DEF Packs!Dir
    <3> QED BY <2>1, <3>1, <3>3, <3>4, <3>5
  <2>2. CASE Packs!TakeRest(c)
    BY <1>2, <2>2 DEF Packs!TakeRest
  <2> QED BY <2>1, <2>2
<1>5. PICK j : /\ job' = [job EXCEPT ![c] = j] /\ JobFits(j)
               /\ \/ /\ job[c].at \in {"take", "taking"}
                     /\ j.at = IF d = None THEN "rename" ELSE "taking"
                     /\ j.pack = job[c].pack /\ j.manifest = job[c].manifest
                  \/ /\ job[c].at \in {"remove", "removing"} /\ d # None
                     /\ j.at = "removing" /\ j.pack = job[c].pack
                  \/ job[c].at = "removing" /\ d = None /\ j.at = "idle"
  <2>1. \/ /\ job[c].at \in {"take", "taking"}
           /\ job' = [job EXCEPT ![c].at = IF d = None THEN "rename" ELSE "taking"]
        \/ /\ job[c].at \in {"remove", "removing"} /\ d # None
           /\ job' = [job EXCEPT ![c].at = "removing"]
        \/ /\ job[c].at = "removing" /\ d = None
           /\ job' = [job EXCEPT ![c] = Packs!NoJob]
    BY <1>1, <1>4 DEF Packs!TakeSome, Packs!TakeRest, Packs!Goto, Packs!End
  <2>2. CASE job[c].at \in {"take", "taking"}
             /\ job' = [job EXCEPT ![c].at = IF d = None THEN "rename" ELSE "taking"]
    <3>1. PICK stage \in {"rename", "taking"} : stage = IF d = None THEN "rename" ELSE "taking"
      OBVIOUS
    <3>2. PICK j : /\ j = [job[c] EXCEPT !.at = stage] /\ JobFits(j)
                   /\ j.at = stage /\ j.pack = job[c].pack /\ j.manifest = job[c].manifest
      BY <1>1, <2>2, JobGoesOn DEF Installing
    <3>3. job' = [job EXCEPT ![c] = j]
      BY <2>2, <3>1, <3>2
    <3> QED BY <2>2, <3>1, <3>2, <3>3
  <2>3. CASE job[c].at \in {"remove", "removing"} /\ d # None
             /\ job' = [job EXCEPT ![c].at = "removing"]
    <3>1. PICK j : /\ j = [job[c] EXCEPT !.at = "removing"] /\ JobFits(j)
                   /\ j.at = "removing" /\ j.pack = job[c].pack /\ j.manifest = job[c].manifest
      BY <1>1, <2>3, JobGoesOn
    <3>2. job' = [job EXCEPT ![c] = j]
      BY <2>3, <3>1
    <3> QED BY <2>3, <3>1, <3>2
  <2>4. CASE job[c].at = "removing" /\ d = None /\ job' = [job EXCEPT ![c] = Packs!NoJob]
    BY <2>4, JobEnds
  <2> QED BY <2>1, <2>2, <2>3, <2>4
<1>6. d # None /\ d.manifest # None =>
          /\ installed[p].manifest # None /\ d.manifest = installed[p].manifest
          /\ d.manifest.name = p /\ \A n \in d.manifest.needs : n.on # p
  BY <1>2, <1>3, <1>4 DEF PackInv, DirsFit
<1>7. \A q \in Pack : installed'[q] = IF q = p THEN d ELSE installed[q]
  BY <1>4 DEF PackInv
<1>8. ASSUME ~disturbed PROVE NeedsMet'
  <2>1. job[c].at # "idle" /\ job[c].at # "rename"
    BY <1>1
  <2>2. \A q \in Pack : installed'[q] # None /\ installed'[q].manifest # None =>
            /\ installed[q] # None /\ installed[q].manifest # None
            /\ installed'[q].manifest = installed[q].manifest
    BY <1>3, <1>6, <1>7
  <2>3. \A q \in Pack : installed[q] # None /\ installed[q].manifest # None =>
            /\ \A n \in installed[q].manifest.needs : n.on \in Pack
            /\ \A n \in installed[q].manifest.needs : installed[n.on] # None
    <3>1. \A q \in Pack : installed[q] # None /\ installed[q].manifest # None =>
              installed[q].manifest \in Manifests
      BY DEF PackInv, Kept
    <3> QED BY <1>8, <2>1, <3>1, LoneCall DEF Packs!PackAssumption
  <2>4. \A q \in Pack : installed'[q] # None /\ installed'[q].manifest # None =>
            \A n \in installed'[q].manifest.needs :
                \/ installed'[n.on] # None
                \/ j.pack = n.on /\ j.at = "rename"
    <3> SUFFICES ASSUME NEW q \in Pack, installed'[q] # None, installed'[q].manifest # None,
                        NEW n \in installed'[q].manifest.needs, installed'[n.on] = None
                 PROVE  j.pack = n.on /\ j.at = "rename"
      OBVIOUS
    <3>1. n \in installed[q].manifest.needs /\ n.on \in Pack /\ installed[n.on] # None
          /\ installed[q] # None /\ installed[q].manifest # None
      BY <2>2, <2>3
    <3>2. n.on = p /\ d = None
      BY <1>7, <3>1
    <3>3. job[c].at \notin {"remove", "removing"}
      BY <1>2, <1>8, <2>1, <3>1, <3>2, LoneCall
    <3> QED BY <1>1, <1>2, <1>5, <3>2, <3>3
  <2>5. j.at \in Installing => \A n \in j.manifest.needs : installed'[n.on] # None
    <3> SUFFICES ASSUME j.at \in Installing, NEW n \in j.manifest.needs PROVE installed'[n.on] # None
      OBVIOUS
    <3>1. job[c].at \in {"take", "taking"} /\ j.manifest = job[c].manifest
      BY <1>5 DEF Installing
    <3>2. installed[n.on] # None
      BY <1>8, <2>1, <3>1, LoneCall DEF Installing
    <3>3. n.on # p /\ n.on \in Pack
      BY <1>1, <1>2, <3>1 DEF JobFits, Installing, Packs!PackAssumption
    <3> QED BY <1>7, <3>2, <3>3
  <2>6. j.at \in {"remove", "removing"} =>
            \A q \in Pack : installed'[q] # None /\ installed'[q].manifest # None =>
                \A n \in installed'[q].manifest.needs : n.on # j.pack
    <3>1. j.at \in {"remove", "removing"} =>
              job[c].at \in {"remove", "removing"} /\ j.pack = job[c].pack
      BY <1>5
    <3> QED BY <1>8, <2>1, <2>2, <3>1, LoneCall
  <2> QED BY <1>5, <1>8, <2>1, <2>4, <2>5, <2>6, LoneCall, LoneCallMeets
<1>9. job[c].at \in {"remove", "removing"} => Packs!Removing(p)
  BY <1>2 DEF Packs!Removing
<1>10. \/ Packs!Removing(p)
       \/ j.at \in Installing \ {"copy"} /\ j.pack = p
  BY <1>1, <1>2, <1>5, <1>9 DEF Installing
<1>11. j.at \in {"remove", "removing"} => j.pack = p /\ Packs!Removing(p)
  BY <1>2, <1>5, <1>9
<1>12. ~(d # None /\ d.whole) /\ had' = had
  BY <1>1, <1>4
<1> QED BY <1>1, <1>2, <1>4, <1>5, <1>6, <1>8, <1>10, <1>11, <1>12, PackChanges

\* The rename ends an install.
LEMMA PackRenamed ==
    ASSUME Packs!PackAssumption, PackInv, NEW c \in Client, Packs!RenameIntoPlace(c)
    PROVE  PackInv'
<1>1. /\ job[c].at = "rename" /\ JobFits(job[c]) /\ UNCHANGED <<leftover, disturbed>>
      /\ job' = [job EXCEPT ![c] = Packs!NoJob]
  BY DEF PackInv, Packs!RenameIntoPlace, Packs!End
<1>2. PICK p \in Pack : p = job[c].pack
  BY <1>1 DEF JobFits
<1>3. PICK m \in Manifests : m = job[c].manifest /\ m.name = p /\ \A n \in m.needs : n.on # p
  BY <1>1, <1>2 DEF JobFits, Installing
<1>4. PICK d : d = [manifest |-> m, whole |-> TRUE]
  OBVIOUS
<1>5. d \in Kept /\ d.whole = TRUE /\ d.manifest = m /\ d # None
  <2>1. d \in Kept /\ d.whole = TRUE /\ d.manifest = m
    BY <1>4 DEF Kept
  <2>2. d # None
    BY <2>1 DEF Kept, Packs!PackAssumption
  <2> QED BY <2>1, <2>2
<1>6. installed' = [installed EXCEPT ![p] = d] /\ installed[p] = None
      /\ had' = IF Packs!Removing(p) THEN had ELSE had \cup {p}
  BY <1>2, <1>3, <1>4 DEF Packs!RenameIntoPlace, Packs!Dir
<1>7. \A q \in Pack : installed'[q] = IF q = p THEN d ELSE installed[q]
  BY <1>6 DEF PackInv
<1>8. PICK j : j = Packs!NoJob /\ JobFits(j) /\ j.at = "idle"
  BY JobEnds
<1>9. ASSUME ~disturbed PROVE NeedsMet'
  <2>1. \A n \in m.needs : installed[n.on] # None
    BY <1>1, <1>3, <1>9, LoneCall DEF Installing
  <2>2. \A q \in Pack : installed[q] # None /\ installed[q].manifest # None =>
            installed[q].manifest \in Manifests
    BY DEF PackInv, Kept
  <2>3. \A q \in Pack : installed[q] # None => installed'[q] # None
    BY <1>5, <1>7
  <2>4. ASSUME NEW q \in Pack, installed'[q] # None, installed'[q].manifest # None,
               NEW n \in installed'[q].manifest.needs
        PROVE  installed'[n.on] # None
    <3>1. CASE q = p
      <4>1. n \in m.needs /\ n.on \in Pack
        BY <1>5, <1>7, <2>4, <3>1 DEF Packs!PackAssumption
      <4> QED BY <2>1, <2>3, <4>1
    <3>2. CASE q # p
      <4>1. installed'[q] = installed[q]
        BY <1>7, <3>2
      <4>2. n.on \in Pack
        BY <2>2, <2>4, <4>1 DEF Packs!PackAssumption
      <4>3. installed[n.on] # None \/ n.on = p
        BY <1>1, <1>2, <1>9, <2>4, <4>1, LoneCall
      <4> QED BY <1>5, <1>7, <2>3, <4>2, <4>3
    <3> QED BY <3>1, <3>2
  <2>5. \A b \in Client : b # c => job[b].at = "idle"
    BY <1>1, <1>9, LoneCall
  <2>6. j.at \notin Installing \cup {"remove", "removing"}
    BY <1>8 DEF Installing
  <2> QED BY <1>1, <1>8, <2>4, <2>5, <2>6, LoneCallMeets
<1>10. job[c].at \in Installing
  BY <1>1 DEF Installing
<1> QED BY <1>1, <1>2, <1>3, <1>5, <1>6, <1>8, <1>9, <1>10, PackChanges

\* A call fails, and its copy stays.
LEMMA PackCallFails ==
    ASSUME PackInv, NEW c \in Client, Packs!FailHalfway(c)
    PROVE  PackInv'
<1>1. /\ job' = [job EXCEPT ![c] = Packs!NoJob] /\ disturbed' = TRUE
      /\ UNCHANGED <<installed, had>> /\ JobFits(job[c]) /\ job[c].at # "idle"
  BY DEF PackInv, Packs!FailHalfway, Packs!End
<1>2. leftover \subseteq leftover' /\ leftover' \subseteq Kept
  <2>1. CASE job[c].at \in {"remove", "removing"}
    BY <2>1 DEF Packs!FailHalfway, PackInv
  <2>2. CASE job[c].at \notin {"remove", "removing"}
    <3>1. PICK d \in {Packs!Dir(job[c].manifest, FALSE), Packs!Dir(None, FALSE),
                      Packs!Dir(job[c].manifest, TRUE)} : leftover' = leftover \cup {d}
      BY <2>2 DEF Packs!FailHalfway
    <3>2. PICK m \in Manifests \cup {None} : m = job[c].manifest
      BY <1>1 DEF JobFits
    <3>2a. \A x \in Manifests \cup {None}, b \in BOOLEAN : Packs!Dir(x, b) \in Kept
      BY DEF Packs!Dir, Kept
    <3>2b. /\ Packs!Dir(m, FALSE) \in Kept /\ Packs!Dir(None, FALSE) \in Kept
           /\ Packs!Dir(m, TRUE) \in Kept
      BY <3>2a
    <3>3. d \in Kept
      BY <3>1, <3>2, <3>2b
    <3> QED BY <3>1, <3>3 DEF PackInv
  <2> QED BY <2>1, <2>2
<1>3. ASSUME job[c].at \in Installing \ {"copy"}
      PROVE  \E d \in leftover' : d.whole /\ d.manifest.name = job[c].pack
  <2>1. leftover' = leftover \cup {Packs!Dir(job[c].manifest, TRUE)}
    BY <1>3 DEF Packs!FailHalfway, Installing
  <2>2. job[c].manifest.name = job[c].pack
    BY <1>1, <1>3 DEF JobFits
  <2>3. PICK d : d = Packs!Dir(job[c].manifest, TRUE)
    OBVIOUS
  <2>4. d.whole /\ d.manifest = job[c].manifest
    BY <2>3 DEF Packs!Dir
  <2> QED BY <2>1, <2>2, <2>3, <2>4
<1>4. PICK j : j = Packs!NoJob /\ JobFits(j) /\ j.at = "idle"
  BY JobEnds
<1> QED BY <1>1, <1>2, <1>3, <1>4, PackGoesOn DEF Installing

LEMMA PackStep ==
    ASSUME Packs!PackAssumption, PackInv, [Packs!PackNext]_packvars
    PROVE  PackInv'
<1>1. CASE UNCHANGED packvars
  BY <1>1 DEF packvars, PackInv, JobFits, DirsFit, Safe, Packs!Removing, NeedsMet, Present
<1>2. CASE Packs!PackNext
  BY <1>2, PackCallBegins, PackCallPrepares, PackTaken, PackRenamed, PackCallFails
    DEF Packs!PackNext
<1> QED BY <1>1, <1>2

LEMMA PackAlways == Spec => [](part = "packs" => PackInv)
<1> DEFINE Inv == part = "packs" => PackInv
<1>1. Init => Inv
  BY PackBegins DEF Init
<1>2. Inv /\ [Next]_<<part, statevars, answervars>> => Inv'
  <2> SUFFICES ASSUME Inv, [Next]_<<part, statevars, answervars>>, part' = "packs"
               PROVE  PackInv'
    OBVIOUS
  <2>1. part = "packs" /\ PackInv
    BY DEF Next
  <2>2. [Packs!PackNext]_packvars
    BY <2>1 DEF Next, statevars
  <2> QED BY <2>1, <2>2, PackStep, PartsAssumption DEF PartsAssumption
<1> QED BY <1>1, <1>2, PTL DEF Spec

\* Until a pack is removed a complete copy of it is on the disk, and where calls
\* neither meet nor fail what an installed pack depends on is there.  For any calls and,
\* as the proof asks no more of the manifests than PackAssumption, for any manifests.
THEOREM InstalledPacksStay == Spec => []PacksStay
<1> DEFINE Inv == part = "packs" => PackInv
<1>1. Inv => PacksStay
  <2> SUFFICES ASSUME PackInv PROVE Packs!PacksStay
    BY DEF PacksStay
  <2> QED BY DEF PackInv, NeedsMet, Present, Safe, Installing, Packs!PacksStay
<1> QED BY <1>1, PackAlways, PTL

\* What else the types of the packs say.
PackTypes == disturbed \in BOOLEAN /\ had \subseteq Pack

\* Each part's types: the packs.
LEMMA PackTyped == Spec => [](part = "packs" => Packs!PackTypeOK)
<1> DEFINE Inv == part = "packs" => PackInv
           Types == part = "packs" => PackTypes
<1>1. Init => Types
  BY DEF Init, PackTypes, Packs!PackInit
<1>2. Inv /\ Types /\ [Next]_<<part, statevars, answervars>> => Types'
  <2> SUFFICES ASSUME Inv, Types, [Next]_<<part, statevars, answervars>>, part' = "packs"
               PROVE  PackTypes'
    OBVIOUS
  <2>1. part = "packs" /\ PackInv /\ PackTypes
    BY DEF Next
  <2>2. CASE UNCHANGED packvars
    BY <2>1, <2>2 DEF packvars, PackTypes
  <2>3. CASE Packs!PackNext
    <3>1. PICK c \in Client :
             \/ Packs!InstallPack(c) \/ Packs!CopyTree(c) \/ Packs!LookAtDest(c) \/ Packs!RemovePack(c)
             \/ Packs!TakeSome(c) \/ Packs!TakeRest(c) \/ Packs!RenameIntoPlace(c) \/ Packs!FailHalfway(c)
      BY <2>3 DEF Packs!PackNext
    <3>2. had' \subseteq Pack
      <4>1. CASE Packs!RenameIntoPlace(c)
        <5>1. job[c].pack \in Pack
          BY <2>1, <4>1 DEF PackInv, JobFits, Packs!RenameIntoPlace
        <5> QED
          BY <2>1, <4>1, <5>1 DEF Packs!RenameIntoPlace, PackTypes
      <4>2. CASE Packs!RemovePack(c)
        BY <2>1, <4>2 DEF Packs!RemovePack, PackTypes
      <4> QED
        BY <2>1, <3>1, <4>1, <4>2
        DEF PackTypes, Packs!InstallPack, Packs!CopyTree, Packs!LookAtDest, Packs!TakeSome,
          Packs!TakeRest, Packs!FailHalfway
    <3>3. disturbed' \in BOOLEAN
      BY <2>1, <3>1
      DEF PackTypes, Packs!InstallPack, Packs!CopyTree, Packs!LookAtDest, Packs!RemovePack, Packs!TakeSome,
        Packs!TakeRest, Packs!RenameIntoPlace, Packs!FailHalfway, Packs!Begin
    <3> QED
      BY <3>2, <3>3 DEF PackTypes
  <2>4. [Packs!PackNext]_packvars
    BY <2>1 DEF Next, statevars
  <2> QED
    BY <2>2, <2>3, <2>4
<1>3. Inv /\ Types => (part = "packs" => Packs!PackTypeOK)
  <2> SUFFICES ASSUME PackInv, PackTypes PROVE Packs!PackTypeOK
    OBVIOUS
  <2>1. job \in [Client -> [at: {"idle", "copy", "swap", "take", "taking", "rename", "remove", "removing"},
                           pack: Pack \cup {None}, manifest: Manifests \cup {None}]]
    BY DEF PackInv, JobFits, Installing
  <2> QED
    BY <2>1 DEF PackInv, PackTypes, Packs!PackTypeOK, Kept
<1> QED
  BY <1>1, <1>2, <1>3, PackAlways, PTL DEF Spec

-----------------------------------------------------------------------------
(* The schema *)

\* What the revisions make, one after the other: ten objects, and how many of them
\* are made through revision r.
Object(i) ==
    IF i <= 6 THEN Upgrade!SpecTables[i]
    ELSE IF i <= 8 THEN Upgrade!BaselineColumns[i - 6] ELSE Upgrade!UsageLedger[i - 8]

Made(k) == {Object(i) : i \in 1..k}

Through(r) == IF r < 2 THEN 0 ELSE 2 * r + 2

\* What each revision makes comes after what the ones before it make.
LEMMA RevisionsInOrder ==
    /\ Upgrade!HeadRevision = 4
    /\ \A r \in 1..4 : /\ Len(Upgrade!Makes[r]) = Through(r) - Through(r - 1)
                       /\ \A d \in 0..Len(Upgrade!Makes[r]) - 1 :
                             Upgrade!Makes[r][d + 1] = Object(Through(r - 1) + d + 1)
<1>1. /\ Upgrade!HeadRevision = 4 /\ Upgrade!Makes[1] = <<>>
      /\ Upgrade!Makes[2] = Upgrade!SpecTables /\ Upgrade!Makes[3] = Upgrade!BaselineColumns
      /\ Upgrade!Makes[4] = Upgrade!UsageLedger
  BY DEF Upgrade!HeadRevision, Upgrade!Makes
<1>2. Len(Upgrade!SpecTables) = 6 /\ Len(Upgrade!BaselineColumns) = 2
      /\ Len(Upgrade!UsageLedger) = 2
  BY DEF Upgrade!SpecTables, Upgrade!BaselineColumns, Upgrade!UsageLedger
<1>3. ASSUME NEW r \in 1..4
      PROVE  /\ Len(Upgrade!Makes[r]) = Through(r) - Through(r - 1)
             /\ \A d \in 0..Len(Upgrade!Makes[r]) - 1 :
                   Upgrade!Makes[r][d + 1] = Object(Through(r - 1) + d + 1)
  <2>1. CASE r = 1
    BY <1>1, <2>1 DEF Through
  <2>2. CASE r = 2
    BY <1>1, <1>2, <2>2 DEF Through, Object
  <2>3. CASE r = 3
    BY <1>1, <1>2, <2>3 DEF Through, Object
  <2>4. CASE r = 4
    BY <1>1, <1>2, <2>4 DEF Through, Object
  <2> QED BY <2>1, <2>2, <2>3, <2>4
<1> QED BY <1>1, <1>3

\* No object is made twice.
LEMMA ObjectsDiffer ==
    ASSUME NEW i \in 1..10, NEW k \in 1..10, Object(i) = Object(k)
    PROVE  i = k
<1>1. /\ Object(1) = "spec" /\ Object(2) = "spec_requirement" /\ Object(3) = "plan"
      /\ Object(4) = "spec_stage" /\ Object(5) = "task" /\ Object(6) = "acceptance_check"
      /\ Object(7) = "expect_baseline" /\ Object(8) = "baseline"
      /\ Object(9) = "usage_event" /\ Object(10) = "ix_usage_event_ts"
  BY DEF Object, Upgrade!SpecTables, Upgrade!BaselineColumns, Upgrade!UsageLedger
<1>2. \A n \in 1..10 : n = 1 \/ n = 2 \/ n = 3 \/ n = 4 \/ n = 5
                       \/ n = 6 \/ n = 7 \/ n = 8 \/ n = 9 \/ n = 10
  OBVIOUS
<1> QED BY <1>1, <1>2

LEMMA MadeInOrder ==
    ASSUME NEW i \in 0..10, NEW k \in 0..10
    PROVE  /\ Made(i) \subseteq Made(k) <=> i <= k
           /\ i < 10 => (Object(i + 1) \in Made(k) <=> i < k)
           /\ k < 10 => Made(k) \cup {Object(k + 1)} = Made(k + 1)
           /\ Made(0) = {}
<1>1. ASSUME i < 10 PROVE Object(i + 1) \in Made(k) <=> i < k
  <2>1. ASSUME Object(i + 1) \in Made(k) PROVE i < k
    <3>1. PICK n \in 1..k : Object(i + 1) = Object(n)
      BY <2>1 DEF Made
    <3>2. i + 1 = n
      BY <1>1, <3>1, ObjectsDiffer
    <3> QED BY <3>1, <3>2
  <2>2. ASSUME i < k PROVE Object(i + 1) \in Made(k)
    <3>1. i + 1 \in 1..k
      BY <2>2
    <3> QED BY <3>1 DEF Made
  <2> QED BY <2>1, <2>2
<1>2. i <= k => Made(i) \subseteq Made(k)
  BY DEF Made
<1>3. ASSUME k < i PROVE ~(Made(i) \subseteq Made(k))
  <2>1. i \in 1..i /\ i \in 1..10
    BY <1>3
  <2>2. Object(i) \in Made(i)
    BY <2>1 DEF Made
  <2>3. ASSUME Object(i) \in Made(k) PROVE FALSE
    <3>1. PICK n \in 1..k : Object(i) = Object(n)
      BY <2>3 DEF Made
    <3> QED BY <1>3, <2>1, <3>1, ObjectsDiffer
  <2> QED BY <2>2, <2>3
<1>4. k < 10 => Made(k) \cup {Object(k + 1)} = Made(k + 1)
  <2>1. 1..(k + 1) = 1..k \cup {k + 1}
    OBVIOUS
  <2> QED BY <2>1 DEF Made
<1>5. Made(0) = {}
  BY DEF Made
<1> QED BY <1>1, <1>2, <1>3, <1>4, <1>5

\* What the revisions through r make.
LEMMA MadeByRevisions ==
    ASSUME NEW r \in 0..4
    PROVE  Upgrade!MadeBy(r) = Made(Through(r))
<1> DEFINE Set(q) == {Upgrade!Makes[q][i] : i \in DOMAIN Upgrade!Makes[q]}
           Span(q) == {Object(i) : i \in Through(q - 1) + 1..Through(q)}
<1>1. Upgrade!MadeBy(r) = UNION {Set(q) : q \in 1..r}
  BY DEF Upgrade!MadeBy, Upgrade!ToSet
<1>2. ASSUME NEW q \in 1..4 PROVE Set(q) = Span(q)
  <2>1. DOMAIN Upgrade!Makes[q] = 1..Len(Upgrade!Makes[q])
    <3>1. q = 1 \/ q = 2 \/ q = 3 \/ q = 4
      OBVIOUS
    <3>2. /\ Upgrade!Makes[1] = <<>> /\ Upgrade!Makes[2] = Upgrade!SpecTables
          /\ Upgrade!Makes[3] = Upgrade!BaselineColumns /\ Upgrade!Makes[4] = Upgrade!UsageLedger
      BY DEF Upgrade!Makes
    <3>3. /\ DOMAIN Upgrade!SpecTables = 1..Len(Upgrade!SpecTables)
          /\ DOMAIN Upgrade!BaselineColumns = 1..Len(Upgrade!BaselineColumns)
          /\ DOMAIN Upgrade!UsageLedger = 1..Len(Upgrade!UsageLedger)
      BY DEF Upgrade!SpecTables, Upgrade!BaselineColumns, Upgrade!UsageLedger
    <3> QED BY <3>1, <3>2, <3>3
  <2>2. DOMAIN Upgrade!Makes[q] = 1..(Through(q) - Through(q - 1))
        /\ Through(q) \in Nat /\ Through(q - 1) \in Nat
    <3>1. Through(q) \in Nat /\ Through(q - 1) \in Nat
      BY DEF Through
    <3>2. Len(Upgrade!Makes[q]) = Through(q) - Through(q - 1)
      BY RevisionsInOrder
    <3> QED BY <2>1, <3>1, <3>2
  <2>3. \A i \in DOMAIN Upgrade!Makes[q] : Upgrade!Makes[q][i] = Object(Through(q - 1) + i)
    <3> SUFFICES ASSUME NEW i \in DOMAIN Upgrade!Makes[q]
                 PROVE  Upgrade!Makes[q][i] = Object(Through(q - 1) + i)
      OBVIOUS
    <3> DEFINE d == i - 1
    <3>0. Len(Upgrade!Makes[q]) = Through(q) - Through(q - 1)
      BY RevisionsInOrder
    <3>1. d \in 0..Len(Upgrade!Makes[q]) - 1 /\ d + 1 = i
          /\ Through(q - 1) + d + 1 = Through(q - 1) + i
      BY <2>2, <3>0
    <3>2. Upgrade!Makes[q][d + 1] = Object(Through(q - 1) + d + 1)
      BY <3>1, RevisionsInOrder
    <3> QED BY <3>1, <3>2
  <2>4. Set(q) \subseteq Span(q)
    <3> SUFFICES ASSUME NEW i \in DOMAIN Upgrade!Makes[q]
                 PROVE  Upgrade!Makes[q][i] \in Span(q)
      OBVIOUS
    <3>1. Through(q - 1) + i \in Through(q - 1) + 1..Through(q)
      BY <2>2
    <3> QED BY <2>3, <3>1
  <2>5. Span(q) \subseteq Set(q)
    <3> SUFFICES ASSUME NEW n \in Through(q - 1) + 1..Through(q) PROVE Object(n) \in Set(q)
      OBVIOUS
    <3>1. n - Through(q - 1) \in DOMAIN Upgrade!Makes[q]
          /\ Through(q - 1) + (n - Through(q - 1)) = n
      BY <2>2
    <3> QED BY <2>3, <3>1
  <2> QED BY <2>4, <2>5
<1>3. UNION {Span(q) : q \in 1..r} = Made(Through(r))
  <2>1. \A q \in 1..r : Span(q) \subseteq Made(Through(r))
    <3> SUFFICES ASSUME NEW q \in 1..r, NEW n \in Through(q - 1) + 1..Through(q)
                 PROVE  n \in 1..Through(r)
      BY DEF Made
    <3> QED BY DEF Through
  <2>2. ASSUME NEW n \in 1..Through(r)
        PROVE  \E q \in 1..r : n \in Through(q - 1) + 1..Through(q)
    <3>1. CASE n <= 6
      <4>1. 2 \in 1..r /\ n \in Through(2 - 1) + 1..Through(2)
        BY <2>2, <3>1 DEF Through
      <4> QED BY <4>1
    <3>2. CASE n \in 7..8
      <4>1. 3 \in 1..r /\ n \in Through(3 - 1) + 1..Through(3)
        BY <2>2, <3>2 DEF Through
      <4> QED BY <4>1
    <3>3. CASE n > 8
      <4>1. 4 \in 1..r /\ n \in Through(4 - 1) + 1..Through(4)
        BY <2>2, <3>3 DEF Through
      <4> QED BY <4>1
    <3> QED BY <3>1, <3>2, <3>3
  <2>3. Made(Through(r)) \subseteq UNION {Span(q) : q \in 1..r}
    BY <2>2 DEF Made
  <2> QED BY <2>1, <2>3
<1> HIDE DEF Set, Span
<1> QED BY <1>1, <1>2, <1>3

LEMMA LatestRevision ==
    ASSUME NEW V \in SUBSET (1..5), V # {}
    PROVE  Upgrade!Max(V) \in V /\ \A v \in V : v <= Upgrade!Max(V)
<1>1. \E x \in V : \A y \in V : x >= y
  <2>1. CASE 5 \in V
    BY <2>1
  <2>2. CASE 5 \notin V /\ 4 \in V
    BY <2>2
  <2>3. CASE V \subseteq 1..3 /\ 3 \in V
    BY <2>3
  <2>4. CASE V \subseteq 1..2 /\ 2 \in V
    BY <2>4
  <2>5. CASE V \subseteq {1} /\ 1 \in V
    BY <2>5
  <2>6. \A v \in V : v = 1 \/ v = 2 \/ v = 3 \/ v = 4 \/ v = 5
    OBVIOUS
  <2>7. 1 \in V \/ 2 \in V \/ 3 \in V \/ 4 \in V \/ 5 \in V
    BY <2>6
  <2> QED BY <2>1, <2>2, <2>3, <2>4, <2>5, <2>6, <2>7
<1>2. PICK m : m = Upgrade!Max(V)
  OBVIOUS
<1>3. m \in V /\ \A y \in V : m >= y
  BY <1>1, <1>2 DEF Upgrade!Max
<1>4. \A y \in V : y \in Int /\ m \in Int
  BY <1>3
<1> QED BY <1>2, <1>3, <1>4

Known(r) == IF r <= 4 THEN r ELSE 4

LEMMA KnownRevision ==
    ASSUME NEW r \in 0..5
    PROVE  Upgrade!Min({r, Upgrade!HeadRevision}) = Known(r)
<1>1. Upgrade!HeadRevision = 4
  BY RevisionsInOrder
<1>2. \A x \in {r, 4} : (\A y \in {r, 4} : x <= y) <=> x = Known(r)
  BY DEF Known
<1>3. Known(r) \in {r, 4}
  BY DEF Known
<1> QED BY <1>1, <1>2, <1>3 DEF Upgrade!Min

\* How many objects are made when a process is where it is.
Place(q) == Through(q.next - 1) + q.done

ProcessFits(q) ==
    /\ q \in [at: {"idle", "heads", "create", "run"}, next: 0..4, done: 0..6]
    /\ q.at = "run" => q.next \in 1..4 /\ q.done <= Through(q.next) - Through(q.next - 1)
    /\ q.at = "create" => q.next = 1
    /\ q.at # "run" => q.done = 0

\* The process goes on from where all that is made ends: unless it fails, it is not
\* stopped by what is there already.
Leads(q, k) ==
    \/ /\ q.at = "heads"
       /\ \E r \in 0..3 : /\ r \in versions \cup {0} /\ k = Through(r)
                          /\ \A v \in versions : v <= r
    \/ q.at = "create" /\ versions = {} /\ ~table /\ k = 0
    \/ /\ q.at = "run" /\ Place(q) = k
       /\ IF q.next = 1 THEN 1 \notin versions ELSE q.next - 1 \in versions

\* What is there before any upgrade has found something to do.
AtRest(k) ==
    \/ versions = {} /\ ~table /\ k = 0
    \/ \E r \in 1..5 : versions = {r} /\ k = Through(Known(r))

SchemaAt(k) ==
    /\ objects = Made(k) /\ versions \subseteq 1..5
    /\ process = [p \in Client |-> process[p]]
    /\ \A p \in Client : ProcessFits(process[p])
    /\ \A p \in Client : process[p].at = "run" =>
          /\ Place(process[p]) <= k
          /\ Place(process[p]) = k /\ process[p].next > 1 => process[p].next - 1 \in versions
    /\ \A p, q \in Client :
          process[p].at = "run" /\ process[q].at = "run" /\ process[p].next = process[q].next
          /\ process[p].done > 0 /\ process[q].done > 0 => p = q
    /\ \A r \in versions : Through(Known(r)) <= k
    /\ upgraded => 4 \in versions
    /\ \A p \in Client : process[p].at # "idle" => begun
    /\ IF begun THEN 5 \notin versions ELSE AtRest(k)
    /\ begun /\ ~failed /\ 4 \notin versions => \E p \in Client : Leads(process[p], k)

SchemaInv == \E k \in 0..10 : SchemaAt(k)

LEMMA ProcessRests == ProcessFits(Upgrade!Resting) /\ Upgrade!Resting.at = "idle"
BY DEF ProcessFits, Upgrade!Resting

LEMMA SchemaBegins ==
    ASSUME Upgrade!MigrateInit
    PROVE  SchemaInv
<1>0. 0..Upgrade!HeadRevision + 1 = 0..5
  BY RevisionsInOrder
<1>1. PICK r \in 0..5 : /\ table = (r > 0) /\ versions = {r} \ {0}
                        /\ objects = Upgrade!MadeBy(Upgrade!Min({r, Upgrade!HeadRevision}))
  BY <1>0 DEF Upgrade!MigrateInit
<1>2. Known(r) \in 0..4 /\ Through(Known(r)) \in 0..10
  BY DEF Known, Through
<1>3. objects = Made(Through(Known(r)))
  BY <1>1, <1>2, KnownRevision, MadeByRevisions
<1>4. /\ process = [p \in Client |-> process[p]] /\ \A p \in Client : process[p] = Upgrade!Resting
      /\ ~begun /\ ~upgraded
  BY DEF Upgrade!MigrateInit
<1>5. AtRest(Through(Known(r)))
  <2>1. CASE r = 0
    <3>0. ~(r > 0)
      BY <2>1
    <3>1a. ~table
      BY <1>1, <3>0
    <3>1. versions = {} /\ ~table
      BY <1>1, <2>1, <3>1a
    <3>2. Through(Known(r)) = 0
      BY <2>1 DEF Known, Through
    <3> QED BY <3>1, <3>2 DEF AtRest
  <2>2. CASE r > 0
    BY <1>1, <2>2 DEF AtRest
  <2> QED BY <2>1, <2>2
<1>6. versions \subseteq 1..5 /\ \A v \in versions : Through(Known(v)) <= Through(Known(r))
  BY <1>1, <1>2
<1>7. \A p \in Client : ProcessFits(process[p]) /\ process[p].at = "idle"
  BY <1>4, ProcessRests
<1> QED BY <1>2, <1>3, <1>4, <1>5, <1>6, <1>7 DEF SchemaInv, SchemaAt

\* A step of one process that neither makes nor notes anything.
LEMMA SchemaStays ==
    ASSUME NEW k \in 0..10, SchemaAt(k), NEW p \in Client, NEW j,
           process' = [process EXCEPT ![p] = j], ProcessFits(j), j.done = 0,
           UNCHANGED <<versions, objects>>,
           j.at = "run" => /\ Place(j) <= k
                           /\ Place(j) = k /\ j.next > 1 => j.next - 1 \in versions,
           upgraded' => 4 \in versions,
           begun => begun', j.at # "idle" => begun',
           IF begun' THEN 5 \notin versions ELSE table' = table,
           begun' /\ ~failed' /\ 4 \notin versions => \E q \in Client : Leads(process[q], k)'
    PROVE  SchemaInv'
<1>1. \A q \in Client : process'[q] = IF q = p THEN j ELSE process[q]
  BY DEF SchemaAt
<1>2. process' = [q \in Client |-> process'[q]] /\ \A q \in Client : ProcessFits(process'[q])
  BY <1>1 DEF SchemaAt
<1>3. \A q \in Client : ProcessFits(process[q])'
  BY <1>2 DEF ProcessFits
<1>4. \A q \in Client : process'[q].at = "run" =>
          /\ Place(process'[q]) <= k
          /\ Place(process'[q]) = k /\ process'[q].next > 1 => process'[q].next - 1 \in versions
  BY <1>1 DEF SchemaAt
<1>5. \A a, b \in Client :
          process'[a].at = "run" /\ process'[b].at = "run" /\ process'[a].next = process'[b].next
          /\ process'[a].done > 0 /\ process'[b].done > 0 => a = b
  BY <1>1 DEF SchemaAt
<1>6. \A q \in Client : process'[q].at # "idle" => begun'
  BY <1>1 DEF SchemaAt
<1>7. IF begun' THEN 5 \notin versions ELSE AtRest(k)'
  BY DEF SchemaAt, AtRest
<1>8. \A q \in Client : (process[q].at = "run" =>
          /\ Place(process[q]) <= k
          /\ Place(process[q]) = k /\ process[q].next > 1 => process[q].next - 1 \in versions)'
  BY <1>4 DEF Place
<1>9. objects' = Made(k)' /\ (versions \subseteq 1..5)' /\ \A v \in versions' : Through(Known(v)) <= k
  BY DEF SchemaAt, Made
<1>10. SchemaAt(k)'
  BY <1>2, <1>3, <1>5, <1>6, <1>7, <1>8, <1>9 DEF SchemaAt
<1> QED BY <1>10 DEF SchemaInv

\* Who leads goes on leading while another process moves.
LEMMA LeaderStays ==
    ASSUME NEW k \in 0..10, SchemaAt(k), NEW p \in Client, NEW j,
           process' = [process EXCEPT ![p] = j], versions' = versions, ~table => ~table',
           begun, ~failed, 4 \notin versions, Leads(process[p], k) => Leads(j, k)
    PROVE  \E q \in Client : Leads(process[q], k)'
<1>1. PICK q \in Client : Leads(process[q], k)
  BY DEF SchemaAt
<1>2. \A a \in Client : process'[a] = IF a = p THEN j ELSE process[a]
  BY DEF SchemaAt
<1>3. Leads(process'[q], k)
  BY <1>1, <1>2
<1>4. Leads(process[q], k)'
  BY <1>3 DEF Leads
<1> QED BY <1>4

\* A call begins: it has something to do, or nothing, or gives up.
LEMMA SchemaCallBegins ==
    ASSUME SchemaInv, NEW p \in Client, Upgrade!MigrateToHead(p)
    PROVE  SchemaInv'
<1>1. PICK k \in 0..10 : SchemaAt(k)
  BY DEF SchemaInv
<1>2. process[p].at = "idle" /\ UNCHANGED <<table, versions, objects, failed>>
      /\ ProcessFits(process[p])
  BY <1>1 DEF Upgrade!MigrateToHead, SchemaAt
<1>3. ~Leads(process[p], k)
  BY <1>2 DEF Leads
<1>4. CASE process' = [process EXCEPT ![p] = Upgrade!Resting] /\ begun' = begun
           /\ (upgraded' => upgraded \/ 4 \in versions)
  <2>1. PICK j : j = Upgrade!Resting /\ ProcessFits(j) /\ j.at = "idle" /\ j.done = 0
    BY ProcessRests DEF Upgrade!Resting
  <2>2. begun' /\ ~failed' /\ 4 \notin versions => \E q \in Client : Leads(process[q], k)'
    BY <1>1, <1>2, <1>3, <1>4, <2>1, LeaderStays
  <2>3. IF begun' THEN 5 \notin versions ELSE table' = table
    BY <1>1, <1>2, <1>4 DEF SchemaAt
  <2>4. upgraded' => 4 \in versions
    BY <1>1, <1>4 DEF SchemaAt
  <2>5. (begun => begun') /\ UNCHANGED <<versions, objects>>
    BY <1>2, <1>4
  <2>6. j.at # "run" /\ process' = [process EXCEPT ![p] = j]
    BY <1>4, <2>1
  <2> QED BY <1>1, <2>1, <2>2, <2>3, <2>4, <2>5, <2>6, SchemaStays
<1>5. CASE /\ versions \in {{}} \cup {{r} : r \in 1..3}
           /\ process' = [process EXCEPT ![p].at = "heads"]
           /\ begun' = TRUE /\ upgraded' = upgraded
  <2>1. PICK j : j = [process[p] EXCEPT !.at = "heads"]
    OBVIOUS
  <2>2. ProcessFits(j) /\ j.at = "heads" /\ j.done = 0
    BY <1>2, <2>1 DEF ProcessFits
  <2>3. process' = [process EXCEPT ![p] = j]
    BY <1>5, <2>1
  <2>4. 5 \notin versions
    BY <1>5
  <2>5. begun' /\ ~failed' /\ 4 \notin versions => \E q \in Client : Leads(process[q], k)'
    <3>1. ASSUME begun, ~failed', 4 \notin versions
          PROVE  \E q \in Client : Leads(process[q], k)'
      <4>1. ~failed /\ versions' = versions /\ table' = table
        BY <1>2, <3>1
      <4> QED BY <1>1, <1>3, <2>3, <3>1, <4>1, LeaderStays
    <3>2. CASE ~begun
      <4>1. \E r \in 0..3 : /\ r \in versions \cup {0} /\ k = Through(r)
                            /\ \A v \in versions : v <= r
        <5>1. AtRest(k)
          BY <1>1, <3>2 DEF SchemaAt
        <5>2. CASE versions = {} /\ k = 0
          BY <5>2 DEF Through
        <5>3. CASE \E r \in 1..5 : versions = {r} /\ k = Through(Known(r))
          <6>1. PICK r \in 1..5 : versions = {r} /\ k = Through(Known(r))
            BY <5>3
          <6>2. r \in 0..3 /\ Known(r) = r
            BY <1>5, <6>1 DEF Known
          <6> QED BY <6>1, <6>2
        <5> QED BY <5>1, <5>2, <5>3 DEF AtRest
      <4>2. Leads(j, k)
        BY <2>2, <4>1 DEF Leads
      <4>3. process'[p] = j
        BY <1>1, <2>3 DEF SchemaAt
      <4>4. Leads(process[p], k)'
        BY <1>2, <4>2, <4>3 DEF Leads
      <4> QED BY <4>4
    <3> QED BY <3>1, <3>2
  <2>6. upgraded' => 4 \in versions
    BY <1>1, <1>5 DEF SchemaAt
  <2>7. begun' /\ UNCHANGED <<versions, objects>> /\ j.at # "run"
    BY <1>2, <1>5, <2>2
  <2> QED BY <1>1, <2>2, <2>3, <2>4, <2>5, <2>6, <2>7, SchemaStays
<1>6. Upgrade!HeadRevision = 4 /\ 1..Upgrade!HeadRevision - 1 = 1..3
  BY RevisionsInOrder
<1>7. \/ /\ versions = {4} /\ process' = [process EXCEPT ![p] = Upgrade!Resting]
         /\ begun' = begun
      \/ /\ process' = [process EXCEPT ![p] = Upgrade!Resting]
         /\ begun' = begun /\ upgraded' = upgraded
      \/ /\ versions \in {{}} \cup {{r} : r \in 1..3}
         /\ process' = [process EXCEPT ![p].at = "heads"]
         /\ begun' = TRUE /\ upgraded' = upgraded
  BY <1>6 DEF Upgrade!MigrateToHead, Upgrade!Reached, Upgrade!Raise
<1> QED BY <1>4, <1>5, <1>7

\* A call gives up, or is done: unless it failed, it was not the one that leads.
LEMMA SchemaCallEnds ==
    ASSUME NEW k \in 0..10, SchemaAt(k), NEW p \in Client, process[p].at # "idle",
           process' = [process EXCEPT ![p] = Upgrade!Resting],
           UNCHANGED <<versions, objects, begun>>, ~table => ~table',
           upgraded' => upgraded \/ 4 \in versions,
           ~failed' /\ 4 \notin versions => ~failed /\ ~Leads(process[p], k)
    PROVE  SchemaInv'
<1>1. begun /\ 5 \notin versions
  BY DEF SchemaAt
<1>2. begun'
  BY <1>1
<1>3. PICK j : j = Upgrade!Resting /\ ProcessFits(j) /\ j.at = "idle" /\ j.done = 0
  BY ProcessRests DEF Upgrade!Resting
<1>4. upgraded' => 4 \in versions
  BY DEF SchemaAt
<1>5. ASSUME ~failed', 4 \notin versions PROVE \E q \in Client : Leads(process[q], k)'
  BY <1>1, <1>3, <1>5, LeaderStays
<1>6. j.at # "run" /\ process' = [process EXCEPT ![p] = j]
  BY <1>3
<1> QED BY <1>1, <1>2, <1>3, <1>4, <1>5, <1>6, SchemaStays

\* A call finds where to go on.
LEMMA SchemaHeadsRead ==
    ASSUME SchemaInv, NEW p \in Client, Upgrade!ReadHeads(p)
    PROVE  SchemaInv'
<1>1. PICK k \in 0..10 : SchemaAt(k)
  BY DEF SchemaInv
<1>2. /\ process[p].at = "heads" /\ UNCHANGED <<table, versions, objects, begun, failed>>
      /\ begun /\ 5 \notin versions /\ versions \subseteq 1..5
  BY <1>1 DEF Upgrade!ReadHeads, SchemaAt
<1>3. \/ /\ versions = {} /\ table /\ upgraded' = upgraded
         /\ process' = [process EXCEPT ![p] = [at |-> "run", next |-> 1, done |-> 0]]
      \/ /\ versions = {} /\ ~table /\ upgraded' = upgraded
         /\ process' = [process EXCEPT ![p] = [at |-> "create", next |-> 1, done |-> 0]]
      \/ \E r \in 1..3 :
            /\ r \in versions /\ \A v \in versions : v <= r
            /\ process' = [process EXCEPT ![p] = [at |-> "run", next |-> r + 1, done |-> 0]]
            /\ upgraded' = upgraded
      \/ 4 \in versions /\ process' = [process EXCEPT ![p] = Upgrade!Resting]
  <2>1. CASE versions = {}
    <3>1. process' = [process EXCEPT ![p] = [at |-> IF table THEN "run" ELSE "create",
                                             next |-> 1, done |-> 0]] /\ upgraded' = upgraded
      BY <2>1 DEF Upgrade!ReadHeads
    <3> QED BY <2>1, <3>1
  <2>2. CASE versions # {}
    <3>1. PICK m \in versions : m = Upgrade!Max(versions) /\ \A v \in versions : v <= m
      BY <1>2, <2>2, LatestRevision
    <3>2. \/ /\ m < 4 /\ upgraded' = upgraded
             /\ process' = [process EXCEPT ![p] = [at |-> "run", next |-> m + 1, done |-> 0]]
          \/ m = 4 /\ process' = [process EXCEPT ![p] = Upgrade!Resting]
      BY <2>2, <3>1, RevisionsInOrder DEF Upgrade!ReadHeads, Upgrade!Reached, Upgrade!Raise
    <3>3. m \in 1..5
      BY <1>2, <3>1
    <3> QED BY <3>1, <3>2, <3>3
  <2> QED BY <2>1, <2>2
<1>4. ASSUME NEW stage \in {"run", "create"}, NEW n \in 1..4,
             process' = [process EXCEPT ![p] = [at |-> stage, next |-> n, done |-> 0]],
             upgraded' = upgraded, stage = "create" => n = 1 /\ versions = {} /\ ~table,
             IF n = 1 THEN versions = {} ELSE n - 1 \in versions /\ \A v \in versions : v <= n - 1
      PROVE  SchemaInv'
  <2>1. PICK j : j = [at |-> stage, next |-> n, done |-> 0]
    OBVIOUS
  <2>2. j.at = stage /\ j.next = n /\ j.done = 0 /\ ProcessFits(j) /\ j.at # "idle"
    BY <1>4, <2>1 DEF ProcessFits, Through
  <2>3. Place(j) = Through(n - 1) /\ Through(n - 1) \in 0..10 /\ (n < 3 => Through(n - 1) = 0)
    BY <2>2 DEF Place, Through
  <2>4. Place(j) <= k
    <3>1. CASE n = 1
      BY <2>3, <3>1
    <3>2. CASE n # 1
      <4>1. n - 1 \in versions /\ Known(n - 1) = n - 1
        BY <1>4, <3>2 DEF Known
      <4> QED BY <1>1, <2>3, <4>1 DEF SchemaAt
    <3> QED BY <3>1, <3>2
  <2>5. ASSUME Leads(process[p], k) PROVE Leads(j, k)
    <3>1. PICK r \in 0..3 : /\ r \in versions \cup {0} /\ k = Through(r)
                            /\ \A v \in versions : v <= r
      <4>1. process[p].at = "heads"
        BY <1>2
      <4> QED BY <2>5, <4>1 DEF Leads
    <3>2. r = n - 1
      BY <1>2, <1>4, <3>1
    <3>3. k = Place(j)
      BY <2>3, <3>1, <3>2
    <3>4. IF n = 1 THEN 1 \notin versions ELSE n - 1 \in versions
      BY <1>4
    <3>5. stage = "create" => k = 0
      BY <1>4, <2>3, <3>3
    <3> QED BY <1>4, <2>2, <3>3, <3>4, <3>5 DEF Leads
  <2>6. process' = [process EXCEPT ![p] = j]
    BY <1>4, <2>1
  <2>7. begun' /\ upgraded' => 4 \in versions
    BY <1>1, <1>4 DEF SchemaAt
  <2>8. ASSUME ~failed', 4 \notin versions PROVE \E q \in Client : Leads(process[q], k)'
    <3>1. ~failed /\ (~table => ~table') /\ versions' = versions
      BY <1>2, <2>8
    <3> QED BY <1>1, <1>2, <2>5, <2>6, <2>8, <3>1, LeaderStays
  <2>9. begun' /\ UNCHANGED <<versions, objects>>
    BY <1>2
  <2>10. j.next > 1 => j.next - 1 \in versions
    BY <1>4, <2>2
  <2>11. upgraded' => 4 \in versions
    BY <1>1, <1>4 DEF SchemaAt
  <2> QED BY <1>1, <1>2, <2>2, <2>4, <2>6, <2>8, <2>9, <2>10, <2>11, SchemaStays
<1>5. CASE 4 \in versions /\ process' = [process EXCEPT ![p] = Upgrade!Resting]
  BY <1>1, <1>2, <1>5, SchemaCallEnds
<1>6. ASSUME NEW r \in 1..3, r \in versions, \A v \in versions : v <= r, upgraded' = upgraded,
             process' = [process EXCEPT ![p] = [at |-> "run", next |-> r + 1, done |-> 0]]
      PROVE  SchemaInv'
  <2>1. PICK n \in 1..4 : n = r + 1 /\ n - 1 = r /\ n # 1
    OBVIOUS
  <2> QED BY <1>4, <1>6, <2>1
<1> QED BY <1>3, <1>4, <1>5, <1>6

\* The table of versions is made: by two of them, once.
LEMMA SchemaTableMade ==
    ASSUME SchemaInv, NEW p \in Client, Upgrade!CreateVersionTable(p)
    PROVE  SchemaInv'
<1>1. PICK k \in 0..10 : SchemaAt(k)
  BY DEF SchemaInv
<1>2. /\ process[p].at = "create" /\ UNCHANGED <<versions, objects, begun, failed, upgraded>>
      /\ begun /\ 5 \notin versions /\ ProcessFits(process[p])
  BY <1>1 DEF Upgrade!CreateVersionTable, SchemaAt
<1>3. CASE table
  <2>1. process' = [process EXCEPT ![p] = Upgrade!Resting]
    BY <1>3 DEF Upgrade!CreateVersionTable, Upgrade!Raise
  <2>2. ~Leads(process[p], k)
    BY <1>2, <1>3 DEF Leads
  <2>3. ~failed' => ~failed
    BY <1>2
  <2>4. (upgraded' => upgraded) /\ (~table => ~table') /\ process[p].at # "idle"
        /\ UNCHANGED <<versions, objects, begun>>
    BY <1>2, <1>3
  <2> QED BY <1>1, <2>1, <2>2, <2>3, <2>4, SchemaCallEnds
<1>4. CASE ~table
  <2>1. process' = [process EXCEPT ![p].at = "run"]
    BY <1>4 DEF Upgrade!CreateVersionTable
  <2>2. PICK j : j = [process[p] EXCEPT !.at = "run"]
    OBVIOUS
  <2>3. j.at = "run" /\ j.next = 1 /\ j.done = 0 /\ ProcessFits(j) /\ Place(j) = 0
    BY <1>2, <2>2 DEF ProcessFits, Place, Through
  <2>4. process' = [process EXCEPT ![p] = j] /\ process'[p] = j
        /\ \A q \in Client : q # p => process'[q] = process[q]
    BY <1>1, <2>1, <2>2 DEF SchemaAt
  <2>5. ASSUME ~failed', 4 \notin versions PROVE \E q \in Client : Leads(process[q], k)'
    <3>1. ~failed
      BY <1>2, <2>5
    <3>2. PICK q \in Client : Leads(process[q], k)
      BY <1>1, <1>2, <2>5, <3>1 DEF SchemaAt
    <3>3. CASE process[q].at = "create"
      <4>1. versions = {} /\ k = 0
        BY <3>2, <3>3 DEF Leads
      <4>2. Leads(process[p], k)'
        BY <1>2, <2>3, <2>4, <4>1 DEF Leads, Place
      <4> QED BY <4>2
    <3>4. CASE process[q].at # "create"
      <4>1. process'[q] = process[q]
        BY <1>2, <2>4, <3>4
      <4>2. Leads(process[q], k)'
        BY <1>2, <3>2, <3>4, <4>1 DEF Leads, Place
      <4> QED BY <4>2
    <3> QED BY <3>3, <3>4
  <2>6. upgraded' => 4 \in versions
    BY <1>1, <1>2 DEF SchemaAt
  <2>7. begun' /\ UNCHANGED <<versions, objects>>
    BY <1>2
  <2>8. Place(j) <= k /\ ~(j.next > 1) /\ j.at # "idle"
    BY <2>3
  <2> QED BY <1>1, <1>2, <2>3, <2>4, <2>5, <2>6, <2>7, <2>8, SchemaStays
<1> QED BY <1>3, <1>4

LEMMA SchemaCallFails ==
    ASSUME SchemaInv, NEW p \in Client, Upgrade!FailBetween(p)
    PROVE  SchemaInv'
<1>1. PICK k \in 0..10 : SchemaAt(k)
  BY DEF SchemaInv
<1>2. /\ process[p].at # "idle" /\ UNCHANGED <<table, versions, objects, begun>>
      /\ process' = [process EXCEPT ![p] = Upgrade!Resting] /\ failed' = TRUE
      /\ upgraded' => upgraded
  BY DEF Upgrade!FailBetween, Upgrade!Raise
<1> QED BY <1>1, <1>2, SchemaCallEnds

\* One more object is made: by the process that is where all that is made ends.
LEMMA SchemaObjectMade ==
    ASSUME SchemaInv, NEW p \in Client, Upgrade!Execute(p)
    PROVE  SchemaInv'
<1>1. PICK k \in 0..10 : SchemaAt(k)
  BY DEF SchemaInv
<1>2. /\ process[p].at = "run" /\ UNCHANGED <<table, versions, begun, failed, upgraded>>
      /\ begun /\ 5 \notin versions /\ ProcessFits(process[p]) /\ objects = Made(k)
      /\ \A q \in Client : process[q].at = "run" => ProcessFits(process[q]) /\ Place(process[q]) <= k
  BY <1>1 DEF Upgrade!Execute, SchemaAt
<1>3. PICK n \in 1..4, d \in 0..6 : n = process[p].next /\ d = process[p].done
  BY <1>2 DEF ProcessFits
<1>4. d < Through(n) - Through(n - 1)
  BY <1>3, RevisionsInOrder DEF Upgrade!Execute
<1>5. n > 1 /\ Place(process[p]) = Through(n - 1) + d /\ Place(process[p]) \in 0..9
  <2>1. Place(process[p]) = Through(n - 1) + d
    BY <1>3 DEF Place
  <2>2. n > 1 /\ Through(n - 1) + d \in 0..9
    BY <1>4 DEF Through
  <2> QED BY <2>1, <2>2
<1>6. PICK i \in 0..9 : i = Place(process[p]) /\ i <= k
  BY <1>2, <1>5
<1>7. Upgrade!Makes[n][d + 1] = Object(i + 1)
  <2>1. Len(Upgrade!Makes[n]) = Through(n) - Through(n - 1)
    BY RevisionsInOrder
  <2>2. d \in 0..Len(Upgrade!Makes[n]) - 1
    BY <1>4, <2>1 DEF Through
  <2>3. Upgrade!Makes[n][d + 1] = Object(Through(n - 1) + d + 1)
    BY <2>2, RevisionsInOrder
  <2>4. Through(n - 1) + d + 1 = i + 1
    BY <1>5, <1>6 DEF Through
  <2> QED BY <2>3, <2>4
<1>8. /\ objects' = objects \cup {Object(i + 1)}
      /\ process' = IF Object(i + 1) \in objects THEN [process EXCEPT ![p] = Upgrade!Resting]
                    ELSE [process EXCEPT ![p].done = @ + 1]
  BY <1>3, <1>7 DEF Upgrade!Execute, Upgrade!Raise
<1>9. CASE Object(i + 1) \in objects
  <2>1. objects' = objects /\ process' = [process EXCEPT ![p] = Upgrade!Resting]
    BY <1>8, <1>9
  <2>2. i # k
    BY <1>2, <1>9, MadeInOrder
  <2>3. ~Leads(process[p], k)
    BY <1>2, <1>6, <2>2 DEF Leads
  <2>4. /\ UNCHANGED <<versions, begun>> /\ (upgraded' => upgraded) /\ (~failed' => ~failed)
        /\ (~table => ~table') /\ process[p].at # "idle"
    BY <1>2
  <2> QED BY <1>1, <2>1, <2>3, <2>4, SchemaCallEnds
<1>10. CASE Object(i + 1) \notin objects
  <2>1. i = k
    <3>1. ~(i < k)
      BY <1>2, <1>10, MadeInOrder
    <3> QED BY <1>6, <3>1
  <2>2. PICK m \in 0..10 : m = k + 1 /\ objects' = Made(m)
    BY <1>2, <1>8, <2>1, MadeInOrder
  <2>3. PICK j : j = [process[p] EXCEPT !.done = d + 1]
    OBVIOUS
  <2>4. d + 1 \in 0..6
    BY <1>4 DEF Through
  <2>5a. d + 1 <= Through(n) - Through(n - 1)
    BY <1>4 DEF Through
  <2>5b. j.at = "run" /\ j.next = n /\ j.done = d + 1
         /\ j \in [at: {"idle", "heads", "create", "run"}, next: 0..4, done: 0..6]
    BY <1>2, <1>3, <2>3, <2>4 DEF ProcessFits
  <2>5. j.at = "run" /\ j.next = n /\ j.done = d + 1 /\ ProcessFits(j)
    BY <2>5a, <2>5b DEF ProcessFits
  <2>6. Place(j) = m
    BY <1>5, <1>6, <2>1, <2>2, <2>5 DEF Place, Through
  <2>7. process' = [process EXCEPT ![p] = j] /\ process'[p] = j
        /\ \A q \in Client : q # p => process'[q] = process[q]
    BY <1>1, <1>3, <1>8, <1>10, <2>3 DEF SchemaAt
  <2>8. n - 1 \in versions
    BY <1>1, <1>2, <1>3, <1>5, <1>6, <2>1 DEF SchemaAt
  <2>9. \A q \in Client : process'[q].at = "run" =>
            /\ Place(process'[q]) <= m
            /\ Place(process'[q]) = m /\ process'[q].next > 1 => process'[q].next - 1 \in versions
    <3>1. ASSUME NEW q \in Client, q # p, process[q].at = "run" PROVE Place(process[q]) < m
      <4>1. Place(process[q]) <= k /\ Place(process[q]) \in Int
        BY <1>2, <3>1 DEF ProcessFits, Place, Through
      <4> QED BY <2>2, <4>1
    <3>2. \A q \in Client : q # p /\ process[q].at = "run" =>
              Place(process[q]) <= m /\ Place(process[q]) # m
      <4>1. \A q \in Client : process[q].at = "run" => Place(process[q]) \in Int
        BY <1>2 DEF ProcessFits, Place, Through
      <4> QED BY <2>2, <3>1, <4>1
    <3> QED BY <2>5, <2>6, <2>7, <2>8, <3>2
  <2>10. ASSUME NEW a \in Client, NEW b \in Client, process'[a].at = "run", process'[b].at = "run",
                process'[a].next = process'[b].next, process'[a].done > 0, process'[b].done > 0
         PROVE  a = b
    <3>1. ASSUME NEW q \in Client, q # p, process[q].at = "run", process[q].next = n,
                 process[q].done > 0
          PROVE  FALSE
      <4>1. process[q].done \in 0..6 /\ Through(n - 1) + process[q].done <= k
        BY <1>2, <3>1 DEF ProcessFits, Place
      <4>2. d > 0
        BY <1>5, <1>6, <2>1, <3>1, <4>1 DEF Through
      <4> QED BY <1>1, <1>2, <1>3, <3>1, <4>2 DEF SchemaAt
    <3>2. CASE a # p /\ b # p
      BY <1>1, <2>7, <2>10, <3>2 DEF SchemaAt
    <3> QED BY <2>5, <2>7, <2>10, <3>1, <3>2
  <2>11. \A r \in versions : Through(Known(r)) <= m
    <3>1. \A r \in versions : Through(Known(r)) <= k /\ Through(Known(r)) \in Int
      BY <1>1 DEF SchemaAt, Through, Known
    <3> QED BY <2>2, <3>1
  <2>12. Leads(process[p], m)'
    BY <1>2, <1>5, <2>5, <2>6, <2>7, <2>8 DEF Leads, Place
  <2>13. /\ process' = [q \in Client |-> process'[q]]
         /\ \A q \in Client : ProcessFits(process'[q])
         /\ \A q \in Client : process'[q].at # "idle" => begun
         /\ versions \subseteq 1..5 /\ (upgraded => 4 \in versions)
    BY <1>1, <1>2, <2>5, <2>7 DEF SchemaAt
  <2>14. \A q \in Client : (process[q].at = "run" =>
            /\ Place(process[q]) <= m
            /\ Place(process[q]) = m /\ process[q].next > 1 => process[q].next - 1 \in versions)'
    BY <1>2, <2>9 DEF Place
  <2>15. \A q \in Client : ProcessFits(process[q])'
    BY <2>13 DEF ProcessFits
  <2>16. SchemaAt(m)'
    BY <1>2, <2>2, <2>10, <2>11, <2>12, <2>13, <2>14, <2>15 DEF SchemaAt, Made
  <2> QED BY <2>16 DEF SchemaInv
<1> QED BY <1>9, <1>10

\* A revision that is made is noted in the place of the one before.
LEMMA SchemaRevisionNoted ==
    ASSUME SchemaInv, NEW p \in Client, Upgrade!NoteRevision(p)
    PROVE  SchemaInv'
<1>1. PICK k \in 0..10 : SchemaAt(k)
  BY DEF SchemaInv
<1>2. /\ process[p].at = "run" /\ UNCHANGED <<table, objects, begun, failed>>
      /\ begun /\ 5 \notin versions /\ versions \subseteq 1..5 /\ ProcessFits(process[p])
      /\ \A q \in Client : process[q].at = "run" => ProcessFits(process[q]) /\ Place(process[q]) <= k
  BY <1>1 DEF Upgrade!NoteRevision, SchemaAt
<1>3. PICK n \in 1..4, d \in 0..6 : n = process[p].next /\ d = process[p].done
  BY <1>2 DEF ProcessFits
<1>4. d = Through(n) - Through(n - 1)
  BY <1>3, RevisionsInOrder DEF Upgrade!NoteRevision, Upgrade!AllMade
<1>5. Place(process[p]) = Through(n) /\ Through(n) <= k /\ Through(n) \in 0..10 /\ (n > 1 => d > 0)
  <2>1. Place(process[p]) = Through(n - 1) + d
    BY <1>3 DEF Place
  <2>2. Through(n) \in 0..10 /\ Through(n - 1) \in 0..10
    BY DEF Through
  <2>3. Place(process[p]) = Through(n)
    BY <1>4, <2>1, <2>2
  <2>4. n > 1 => d > 0
    BY <1>4 DEF Through
  <2>5. Place(process[p]) <= k
    BY <1>2
  <2> QED BY <2>2, <2>3, <2>4, <2>5
<1>6. CASE /\ IF n = 1 THEN 1 \in versions ELSE n - 1 \notin versions
           /\ process' = [process EXCEPT ![p] = Upgrade!Resting]
           /\ versions' = versions /\ upgraded' = upgraded
  <2>1. ~Leads(process[p], k)
    BY <1>2, <1>3, <1>6 DEF Leads
  <2>2. /\ UNCHANGED <<versions, objects, begun>> /\ (upgraded' => upgraded)
        /\ (~failed' => ~failed) /\ (~table => ~table') /\ process[p].at # "idle"
    BY <1>2, <1>6
  <2> QED BY <1>1, <1>6, <2>1, <2>2, SchemaCallEnds
<1>7. ASSUME IF n = 1 THEN 1 \notin versions ELSE n - 1 \in versions,
             versions' = (versions \ {n - 1}) \cup {n}, NEW j, ProcessFits(j), j.done = 0,
             process' = [process EXCEPT ![p] = j],
             (n = 4 /\ j.at = "idle") \/ (n < 4 /\ j.at = "run" /\ j.next = n + 1),
             upgraded' => upgraded \/ n = 4
      PROVE  SchemaInv'
  <2>1. process'[p] = j /\ \A q \in Client : q # p => process'[q] = process[q]
    BY <1>1, <1>7 DEF SchemaAt
  <2>2. versions' \subseteq 1..5 /\ 5 \notin versions' /\ n \in versions'
    BY <1>2, <1>7
  <2>3. (4 \in versions => 4 \in versions') /\ (n = 4 => 4 \in versions')
    BY <1>7
  <2>4. \A r \in versions' : Through(Known(r)) <= k
    <3>1. Through(Known(n)) <= k
      BY <1>5 DEF Known
    <3> QED BY <1>1, <1>7, <3>1 DEF SchemaAt
  <2>5. j.at = "run" => Place(j) = Through(n) /\ j.next - 1 = n
    BY <1>7 DEF Place, Through
  <2>6. ASSUME NEW q \in Client, q # p, process[q].at = "run", Place(process[q]) = k,
               process[q].next = n, n > 1
        PROVE  FALSE
    <3>1. process[q].done <= Through(n) - Through(n - 1) /\ Through(n - 1) + process[q].done = k
          /\ process[q].done \in 0..6
      BY <1>2, <2>6 DEF ProcessFits, Place
    <3>2. process[q].done > 0
      BY <1>4, <1>5, <2>6, <3>1 DEF Through
    <3> QED BY <1>1, <1>2, <1>3, <1>5, <2>6, <3>2 DEF SchemaAt
  <2>7. ASSUME NEW q \in Client, q # p, process[q].at = "run", Place(process[q]) = k,
               process[q].next > 1
        PROVE  process[q].next - 1 \in versions'
    <3>1. process[q].next - 1 \in versions
      BY <1>1, <2>7 DEF SchemaAt
    <3>2. process[q].next \in 1..4
      BY <1>2, <2>7 DEF ProcessFits
    <3>3. process[q].next # n
      BY <2>6, <2>7
    <3> QED BY <1>7, <3>1, <3>2, <3>3
  <2>8. \A q \in Client : (process[q].at = "run" =>
            /\ Place(process[q]) <= k
            /\ Place(process[q]) = k /\ process[q].next > 1 => process[q].next - 1 \in versions)'
    <3>1. ASSUME NEW q \in Client, process'[q].at = "run"
          PROVE  /\ Place(process'[q]) <= k
                 /\ Place(process'[q]) = k /\ process'[q].next > 1 =>
                        process'[q].next - 1 \in versions'
      <4>1. CASE q = p
        BY <1>5, <2>1, <2>2, <2>5, <3>1, <4>1
      <4>2. CASE q # p
        BY <1>2, <2>1, <2>7, <3>1, <4>2
      <4> QED BY <4>1, <4>2
    <3> QED BY <3>1 DEF Place
  <2>9. \A a, b \in Client :
            process'[a].at = "run" /\ process'[b].at = "run" /\ process'[a].next = process'[b].next
            /\ process'[a].done > 0 /\ process'[b].done > 0 => a = b
    BY <1>1, <1>7, <2>1 DEF SchemaAt
  <2>10. ASSUME ~failed', 4 \notin versions' PROVE \E q \in Client : Leads(process[q], k)'
    <3>1. n < 4 /\ 4 \notin versions /\ ~failed /\ j.at = "run" /\ j.next = n + 1
      BY <1>2, <1>7, <2>3, <2>10
    <3>2. CASE Through(n) = k
      <4>1. Place(process'[p]) = k /\ process'[p].at = "run" /\ process'[p].next # 1
            /\ process'[p].next - 1 \in versions'
        BY <2>1, <2>2, <2>5, <3>1, <3>2
      <4>2. Leads(process[p], k)'
        BY <4>1 DEF Leads, Place
      <4> QED BY <4>2
    <3>3. CASE Through(n) # k
      <4>1. PICK q \in Client : Leads(process[q], k)
        BY <1>1, <1>2, <3>1 DEF SchemaAt
      <4>2. CASE process[q].at = "heads"
        <5>1. PICK r \in 0..3 : /\ r \in versions \cup {0} /\ k = Through(r)
                                /\ \A v \in versions : v <= r
          BY <4>1, <4>2 DEF Leads
        <5>2. n <= r /\ r > 0
          BY <1>5, <3>3, <5>1 DEF Through
        <5>3. r \in versions' /\ \A v \in versions' : v <= r
          BY <1>7, <5>1, <5>2
        <5>4. process'[q] = process[q]
          BY <1>2, <2>1, <4>2
        <5>5. Leads(process[q], k)'
          BY <4>2, <5>1, <5>3, <5>4 DEF Leads
        <5> QED BY <5>5
      <4>3. CASE process[q].at = "create"
        <5>1. versions = {} /\ k = 0
          BY <4>1, <4>3 DEF Leads
        <5> QED BY <1>5, <3>3, <5>1
      <4>4. CASE process[q].at = "run"
        <5>1. Place(process[q]) = k
              /\ IF process[q].next = 1 THEN 1 \notin versions ELSE process[q].next - 1 \in versions
          BY <4>1, <4>4 DEF Leads
        <5>2. q # p
          BY <1>5, <3>3, <5>1
        <5>3. process'[q] = process[q] /\ process[q].next \in 1..4
          BY <1>2, <2>1, <4>4, <5>2 DEF ProcessFits
        <5>4. process[q].next = 1 => 1 \notin versions'
          <6>1. ASSUME process[q].next = 1, n = 1 PROVE FALSE
            <7>1. k = 0
              BY <1>2, <4>4, <5>1, <6>1 DEF ProcessFits, Place, Through
            <7> QED BY <1>5, <3>3, <7>1
          <6> QED BY <1>7, <5>1, <6>1
        <5>5. process[q].next # 1 => process[q].next - 1 \in versions'
          BY <2>7, <4>4, <5>1, <5>2, <5>3
        <5>6. Leads(process[q], k)'
          BY <4>4, <5>1, <5>3, <5>4, <5>5 DEF Leads, Place
        <5> QED BY <5>6
      <4>5. process[q].at \in {"heads", "create", "run"}
        BY <4>1 DEF Leads
      <4> QED BY <4>2, <4>3, <4>4, <4>5
    <3> QED BY <3>2, <3>3
  <2>11. /\ process' = [q \in Client |-> process'[q]]
         /\ \A q \in Client : ProcessFits(process'[q])
    BY <1>1, <1>7, <2>1 DEF SchemaAt
  <2>12. \A q \in Client : ProcessFits(process[q])'
    BY <2>11 DEF ProcessFits
  <2>13. begun' /\ (upgraded' => 4 \in versions')
    BY <1>1, <1>2, <1>7, <2>3 DEF SchemaAt
  <2>14. objects' = Made(k)'
    BY <1>1, <1>2 DEF SchemaAt, Made
  <2>15. SchemaAt(k)'
    BY <2>2, <2>4, <2>8, <2>9, <2>10, <2>11, <2>12, <2>13, <2>14 DEF SchemaAt
  <2> QED BY <2>15 DEF SchemaInv
<1>8. CASE /\ IF n = 1 THEN 1 \notin versions ELSE n - 1 \in versions
           /\ versions' = (versions \ {n - 1}) \cup {n}
           /\ IF n = 4 THEN process' = [process EXCEPT ![p] = Upgrade!Resting]
              ELSE /\ process' = [process EXCEPT ![p].next = n + 1, ![p].done = 0]
                   /\ upgraded' = upgraded
  <2>1. CASE n = 4
    <3>1. PICK j : j = Upgrade!Resting /\ ProcessFits(j) /\ j.at = "idle" /\ j.done = 0
      BY ProcessRests DEF Upgrade!Resting
    <3>2. process' = [process EXCEPT ![p] = j]
      BY <1>8, <2>1, <3>1
    <3>3. IF n = 1 THEN 1 \notin versions ELSE n - 1 \in versions
      BY <1>8
    <3>4. versions' = (versions \ {n - 1}) \cup {n}
      BY <1>8
    <3>5. upgraded' => upgraded \/ n = 4
      BY <2>1
    <3> QED BY <1>7, <2>1, <3>1, <3>2, <3>3, <3>4, <3>5
  <2>2. CASE n < 4
    <3>1. PICK j : j = [process[p] EXCEPT !.next = n + 1, !.done = 0]
      OBVIOUS
    <3>2. j.at = "run" /\ j.next = n + 1 /\ j.done = 0
          /\ j \in [at: {"idle", "heads", "create", "run"}, next: 0..4, done: 0..6]
      <4>1. PICK w \in [at: {"idle", "heads", "create", "run"}, next: 0..4, done: 0..6] :
                w = process[p] /\ w.at = "run"
        BY <1>2 DEF ProcessFits
      <4>2. j = [w EXCEPT !.next = n + 1, !.done = 0]
        BY <3>1, <4>1
      <4>3. n + 1 \in 0..4 /\ 0 \in 0..6
        BY <2>2
      <4> QED BY <4>1, <4>2, <4>3
    <3>3. 0 <= Through(n + 1) - Through(n + 1 - 1) /\ n + 1 \in 1..4
      BY <2>2 DEF Through
    <3>4. ProcessFits(j)
      BY <3>2, <3>3 DEF ProcessFits
    <3>5. process' = [process EXCEPT ![p] = j] /\ (upgraded' => upgraded)
      <4>1. process' = [process EXCEPT ![p].next = n + 1, ![p].done = 0] /\ upgraded' = upgraded
        BY <1>8, <2>2
      <4>2. PICK f : f = [process EXCEPT ![p].next = n + 1]
        OBVIOUS
      <4>3. f = [process EXCEPT ![p] = [process[p] EXCEPT !.next = n + 1]]
        BY <4>2
      <4>4. DOMAIN process = Client
        BY <1>1 DEF SchemaAt
      <4>5. process' = [f EXCEPT ![p] = [f[p] EXCEPT !.done = 0]]
        BY <4>1, <4>2
      <4>6. f[p] = [process[p] EXCEPT !.next = n + 1]
        BY <4>3, <4>4
      <4>7. [f[p] EXCEPT !.done = 0] = j
        BY <3>1, <4>6
      <4> QED BY <4>1, <4>3, <4>4, <4>5, <4>7
    <3>6. IF n = 1 THEN 1 \notin versions ELSE n - 1 \in versions
      BY <1>8
    <3>7. versions' = (versions \ {n - 1}) \cup {n}
      BY <1>8
    <3> QED BY <1>7, <2>2, <3>2, <3>4, <3>5, <3>6, <3>7
  <2> QED BY <2>1, <2>2
<1>9. \/ /\ IF n = 1 THEN 1 \in versions ELSE n - 1 \notin versions
         /\ process' = [process EXCEPT ![p] = Upgrade!Resting]
         /\ versions' = versions /\ upgraded' = upgraded
      \/ /\ IF n = 1 THEN 1 \notin versions ELSE n - 1 \in versions
         /\ versions' = (versions \ {n - 1}) \cup {n}
         /\ IF n = 4 THEN process' = [process EXCEPT ![p] = Upgrade!Resting]
            ELSE /\ process' = [process EXCEPT ![p].next = n + 1, ![p].done = 0]
                 /\ upgraded' = upgraded
  BY <1>3, RevisionsInOrder DEF Upgrade!NoteRevision, Upgrade!Reached, Upgrade!Raise
<1> QED BY <1>6, <1>8, <1>9

LEMMA SchemaStep ==
    ASSUME SchemaInv, [Upgrade!MigrateNext]_migratevars
    PROVE  SchemaInv'
<1>1. CASE UNCHANGED migratevars
  <2>1. UNCHANGED <<table, versions, objects, process, begun, upgraded, failed>>
    BY <1>1 DEF migratevars
  <2>2. PICK k \in 0..10 : SchemaAt(k)
    BY DEF SchemaInv
  <2>3. AtRest(k) => AtRest(k)'
    BY <2>1 DEF AtRest
  <2>4. \A q \in Client : ProcessFits(process[q])'
    BY <2>1, <2>2 DEF SchemaAt, ProcessFits
  <2>5. \A q \in Client : Leads(process[q], k) => Leads(process[q], k)'
    BY <2>1 DEF Leads, Place
  <2>6. \A q \in Client : (process[q].at = "run" =>
            /\ Place(process[q]) <= k
            /\ Place(process[q]) = k /\ process[q].next > 1 => process[q].next - 1 \in versions)'
    BY <2>1, <2>2 DEF SchemaAt, Place
  <2>7. objects' = Made(k)'
    BY <2>1, <2>2 DEF SchemaAt, Made
  <2>8. IF begun' THEN 5 \notin versions' ELSE AtRest(k)'
    BY <2>1, <2>2, <2>3 DEF SchemaAt
  <2>9. begun' /\ ~failed' /\ 4 \notin versions' => \E q \in Client : Leads(process[q], k)'
    BY <2>1, <2>2, <2>5 DEF SchemaAt
  <2>10. \A a, b \in Client :
            process'[a].at = "run" /\ process'[b].at = "run" /\ process'[a].next = process'[b].next
            /\ process'[a].done > 0 /\ process'[b].done > 0 => a = b
    BY <2>1, <2>2 DEF SchemaAt
  <2>11. /\ process' = [q \in Client |-> process'[q]] /\ versions' \subseteq 1..5
         /\ \A q \in Client : process'[q].at # "idle" => begun'
         /\ upgraded' => 4 \in versions'
         /\ \A r \in versions' : Through(Known(r)) <= k
    BY <2>1, <2>2 DEF SchemaAt
  <2>12. SchemaAt(k)'
    BY <2>4, <2>6, <2>7, <2>8, <2>9, <2>10, <2>11 DEF SchemaAt
  <2> QED BY <2>12 DEF SchemaInv
<1>2. CASE Upgrade!MigrateNext
  BY <1>2, SchemaCallBegins, SchemaHeadsRead, SchemaTableMade, SchemaObjectMade,
    SchemaRevisionNoted, SchemaCallFails DEF Upgrade!MigrateNext
<1> QED BY <1>1, <1>2

LEMMA SchemaAlways == Spec => [](part = "migrate" => SchemaInv)
<1> DEFINE Inv == part = "migrate" => SchemaInv
<1>1. Init => Inv
  BY SchemaBegins DEF Init
<1>2. Inv /\ [Next]_<<part, statevars, answervars>> => Inv'
  <2> SUFFICES ASSUME Inv, [Next]_<<part, statevars, answervars>>, part' = "migrate"
               PROVE  SchemaInv'
    OBVIOUS
  <2>1. part = "migrate" /\ SchemaInv
    BY DEF Next
  <2>2. [Upgrade!MigrateNext]_migratevars
    BY <2>1 DEF Next, answervars
  <2> QED BY <2>1, <2>2, SchemaStep
<1> QED BY <1>1, <1>2, PTL DEF Spec

\* Upgrades of any number of processes at once, some of them broken off: a revision
\* that is noted is made with all before it, a call that returned has left the head,
\* and unless one failed one of those that raced has reached it.
THEOREM UpgradesAreWhole == Spec => []UpgradeIsWhole
<1> DEFINE Inv == part = "migrate" => SchemaInv
<1>1. Inv => UpgradeIsWhole
  <2> SUFFICES ASSUME SchemaInv PROVE Upgrade!UpgradeIsWhole
    BY DEF UpgradeIsWhole
  <2>1. PICK k \in 0..10 : SchemaAt(k)
    BY DEF SchemaInv
  <2>2. ASSUME NEW r \in versions
        PROVE  Upgrade!MadeBy(Upgrade!Min({r, Upgrade!HeadRevision})) \subseteq objects
    <3>1. r \in 1..5 /\ Known(r) \in 0..4 /\ Through(Known(r)) \in 0..10 /\ Through(Known(r)) <= k
      BY <2>1 DEF SchemaAt, Known, Through
    <3>2. Upgrade!MadeBy(Upgrade!Min({r, Upgrade!HeadRevision})) = Made(Through(Known(r)))
      BY <3>1, KnownRevision, MadeByRevisions
    <3>3. Made(Through(Known(r))) \subseteq Made(k)
      BY <3>1, MadeInOrder
    <3> QED BY <2>1, <3>2, <3>3 DEF SchemaAt
  <2>3. upgraded => Upgrade!HeadRevision \in versions
    BY <2>1, RevisionsInOrder DEF SchemaAt
  <2>4. ASSUME begun, ~failed, \A p \in Client : process[p].at = "idle"
        PROVE  Upgrade!HeadRevision \in versions
    <3>1. \A p \in Client : ~Leads(process[p], k)
      BY <2>4 DEF Leads
    <3> QED BY <2>1, <2>4, <3>1, RevisionsInOrder DEF SchemaAt
  <2> QED BY <2>2, <2>3, <2>4 DEF Upgrade!UpgradeIsWhole
<1> QED BY <1>1, SchemaAlways, PTL

\* What else the types of the schema say.
SchemaTypes == table \in BOOLEAN /\ begun \in BOOLEAN /\ upgraded \in BOOLEAN /\ failed \in BOOLEAN

\* Each part's types: the schema.
LEMMA SchemaTyped == Spec => [](part = "migrate" => Upgrade!MigrateTypeOK)
<1> DEFINE Inv == part = "migrate" => SchemaInv
           Types == part = "migrate" => SchemaTypes
<1>1. Init => Types
  <2> SUFFICES ASSUME Init, part = "migrate" PROVE SchemaTypes
    OBVIOUS
  <2>1. Upgrade!MigrateInit
    BY DEF Init
  <2>2. table \in BOOLEAN
    <3>1. PICK r \in 0..5 : table = (r > 0)
      BY <2>1, RevisionsInOrder DEF Upgrade!MigrateInit
    <3> QED
      BY <3>1
  <2> QED
    BY <2>1, <2>2 DEF SchemaTypes, Upgrade!MigrateInit
<1>2. Types /\ [Next]_<<part, statevars, answervars>> => Types'
  <2> SUFFICES ASSUME Types, [Next]_<<part, statevars, answervars>>, part' = "migrate"
               PROVE  SchemaTypes'
    OBVIOUS
  <2>1. part = "migrate" /\ SchemaTypes
    BY DEF Next
  <2>2. CASE UNCHANGED migratevars
    BY <2>1, <2>2 DEF migratevars, SchemaTypes
  <2>3. ASSUME NEW p \in Client,
               \/ Upgrade!MigrateToHead(p) \/ Upgrade!ReadHeads(p) \/ Upgrade!CreateVersionTable(p)
               \/ Upgrade!Execute(p) \/ Upgrade!NoteRevision(p) \/ Upgrade!FailBetween(p)
        PROVE  SchemaTypes'
    <3>1. table' = TRUE \/ table' = table
      BY <2>3
      DEF Upgrade!MigrateToHead, Upgrade!ReadHeads, Upgrade!CreateVersionTable,
        Upgrade!Execute, Upgrade!NoteRevision, Upgrade!FailBetween
    <3>2. begun' = TRUE \/ begun' = begun
      BY <2>3
      DEF Upgrade!MigrateToHead, Upgrade!ReadHeads, Upgrade!CreateVersionTable,
        Upgrade!Execute, Upgrade!NoteRevision, Upgrade!FailBetween
    <3>3. upgraded' = TRUE \/ upgraded' = upgraded
      BY <2>3
      DEF Upgrade!MigrateToHead, Upgrade!ReadHeads, Upgrade!CreateVersionTable,
        Upgrade!Execute, Upgrade!NoteRevision, Upgrade!FailBetween, Upgrade!Reached
    <3>4. failed' = TRUE \/ failed' = failed
      BY <2>3
      DEF Upgrade!MigrateToHead, Upgrade!ReadHeads, Upgrade!CreateVersionTable,
        Upgrade!Execute, Upgrade!NoteRevision, Upgrade!FailBetween
    <3> QED
      BY <2>1, <3>1, <3>2, <3>3, <3>4 DEF SchemaTypes
  <2>4. [Upgrade!MigrateNext]_migratevars
    BY <2>1 DEF Next, answervars
  <2> QED
    BY <2>2, <2>3, <2>4 DEF Upgrade!MigrateNext
<1>3. Inv /\ Types => (part = "migrate" => Upgrade!MigrateTypeOK)
  <2> SUFFICES ASSUME SchemaInv, SchemaTypes PROVE Upgrade!MigrateTypeOK
    OBVIOUS
  <2>1. PICK k \in 0..10 : SchemaAt(k)
    BY DEF SchemaInv
  <2>2. Upgrade!HeadRevision = 4
    BY RevisionsInOrder
  <2>3. objects \subseteq Upgrade!MadeBy(4)
    <3>1. Upgrade!MadeBy(4) = Made(10)
      BY MadeByRevisions DEF Through
    <3>2. Made(k) \subseteq Made(10)
      BY DEF Made
    <3> QED
      BY <2>1, <3>1, <3>2 DEF SchemaAt
  <2>4. process \in [Client -> [at: {"idle", "heads", "create", "run"}, next: 0..4, done: 0..6]]
    BY <2>1 DEF SchemaAt, ProcessFits
  <2> QED
    BY <2>1, <2>2, <2>3, <2>4 DEF SchemaAt, SchemaTypes, Upgrade!MigrateTypeOK
<1> QED
  BY <1>1, <1>2, <1>3, SchemaAlways, PTL DEF Spec

-----------------------------------------------------------------------------
(* The layers *)

\* A leaf is told from a section by its one field.
LEMMA LeafDomain == \A v : Conf!IsLeaf(Conf!Leaf(v)) /\ Conf!Leaf(v).value = v
  BY DEF Conf!IsLeaf, Conf!Leaf

\* A value of merged trees is that of one of them, or there is none.
LEMMA MergedValue ==
    ASSUME NEW a, NEW b, NEW s, NEW k
    PROVE  Conf!Get(Conf!Merge(a, b), s, k) \in {Conf!Get(a, s, k), Conf!Get(b, s, k), {}}
<1> DEFINE m == Conf!Merge(a, b)
<1>1. /\ DOMAIN m = DOMAIN a \cup DOMAIN b
      /\ s \in DOMAIN a \ DOMAIN b => m[s] = a[s]
      /\ s \in DOMAIN b \ DOMAIN a => m[s] = b[s]
      /\ s \in DOMAIN a \cap DOMAIN b =>
            m[s] = IF ~Conf!IsLeaf(a[s]) /\ ~Conf!IsLeaf(b[s]) THEN Conf!Overlay(a[s], b[s]) ELSE b[s]
  BY DEF Conf!Merge
<1>2. /\ DOMAIN Conf!Overlay(a[s], b[s]) = DOMAIN a[s] \cup DOMAIN b[s]
      /\ k \in DOMAIN b[s] => Conf!Overlay(a[s], b[s])[k] = b[s][k]
      /\ k \in DOMAIN a[s] \ DOMAIN b[s] => Conf!Overlay(a[s], b[s])[k] = a[s][k]
  BY DEF Conf!Overlay
<1> HIDE DEF m
<1>3. Conf!Get(m, s, k) \in {Conf!Get(a, s, k), Conf!Get(b, s, k), {}}
  <2>1. CASE s \notin DOMAIN b
    BY <1>1, <2>1 DEF Conf!Get
  <2>2. CASE s \in DOMAIN b /\ s \notin DOMAIN a
    BY <1>1, <2>2 DEF Conf!Get
  <2>3. CASE s \in DOMAIN a \cap DOMAIN b /\ (Conf!IsLeaf(a[s]) \/ Conf!IsLeaf(b[s]))
    <3>1. m[s] = b[s]
      BY <1>1, <2>3
    <3> QED
      BY <1>1, <2>3, <3>1 DEF Conf!Get
  <2>4. CASE s \in DOMAIN a \cap DOMAIN b /\ ~Conf!IsLeaf(a[s]) /\ ~Conf!IsLeaf(b[s])
    <3>1. m[s] = Conf!Overlay(a[s], b[s])
      BY <1>1, <2>4
    <3>2. CASE k \in DOMAIN b[s]
      BY <1>1, <1>2, <2>4, <3>1, <3>2 DEF Conf!Get
    <3>3. CASE k \notin DOMAIN b[s]
      BY <1>1, <1>2, <2>4, <3>1, <3>3 DEF Conf!Get
    <3> QED
      BY <3>2, <3>3
  <2> QED
    BY <2>1, <2>2, <2>3, <2>4
<1> QED
  BY <1>3 DEF m

\* Setting a value sets that one and no other.
LEMMA ValueSet ==
    ASSUME NEW tree, NEW s, NEW k, NEW v, k # "value", NEW s2, NEW k2
    PROVE  Conf!Get(Conf!Set(tree, s, k, v), s2, k2) =
               IF s2 = s /\ k2 = k THEN v ELSE Conf!Get(tree, s2, k2)
<1> DEFINE section == IF s \in DOMAIN tree /\ ~Conf!IsLeaf(tree[s]) THEN tree[s] ELSE <<>>
           one == [i \in {k} |-> Conf!Leaf(v)]
           new == Conf!Merge(section, one)
           t == Conf!Set(tree, s, k, v)
<1>1. /\ DOMAIN t = DOMAIN tree \cup {s}
      /\ t[s] = new
      /\ s2 # s /\ s2 \in DOMAIN tree => t[s2] = tree[s2]
  BY DEF Conf!Set
<1>2. /\ DOMAIN one = {k} /\ one[k] = Conf!Leaf(v)
      /\ Conf!IsLeaf(one[k]) /\ one[k].value = v
  BY LeafDomain
<1> HIDE DEF one
<1>3. /\ DOMAIN new = DOMAIN section \cup {k}
      /\ new[k] = Conf!Leaf(v)
      /\ k2 # k /\ k2 \in DOMAIN section => new[k2] = section[k2]
  BY <1>2 DEF Conf!Merge
<1>4. ~Conf!IsLeaf(new)
  BY <1>3 DEF Conf!IsLeaf
<1>5. DOMAIN <<>> = {}
  OBVIOUS
<1>6. /\ s \in DOMAIN tree /\ ~Conf!IsLeaf(tree[s]) => section = tree[s]
      /\ ~(s \in DOMAIN tree /\ ~Conf!IsLeaf(tree[s])) => DOMAIN section = {}
  BY <1>5
<1> HIDE DEF section, new, t
<1>7. Conf!Get(t, s2, k2) = IF s2 = s /\ k2 = k THEN v ELSE Conf!Get(tree, s2, k2)
  <2>1. CASE s2 # s
    BY <1>1, <2>1 DEF Conf!Get
  <2>2. CASE s2 = s /\ k2 = k
    BY <1>1, <1>2, <1>3, <1>4, <2>2 DEF Conf!Get
  <2>3. CASE s2 = s /\ k2 # k
    BY <1>1, <1>3, <1>4, <1>6, <2>3 DEF Conf!Get
  <2> QED
    BY <2>1, <2>2, <2>3
<1> QED
  BY <1>7 DEF t

\* The recursive definition of what variables make, for as many as there are.
LEMMA OverridesMade ==
    ASSUME NEW v, Len(v) \in Nat, NEW w,
           w = [n \in 0..Len(v) |-> IF n = 0 THEN <<>> ELSE Conf!Override(w[n - 1], v[n])]
    PROVE  \E upto : /\ Conf!EnvOverrides(v) = upto[Len(v)]
                     /\ upto = [n \in 0..Len(v) |-> IF n = 0 THEN <<>> ELSE Conf!Override(upto[n - 1], v[n])]
<1> DEFINE Fits(f) == f = [n \in 0..Len(v) |-> IF n = 0 THEN <<>> ELSE Conf!Override(f[n - 1], v[n])]
           upto == CHOOSE f : Fits(f)
<1>1. Fits(w)
  OBVIOUS
<1>2. Conf!EnvOverrides(v) = upto[Len(v)]
  BY DEF Conf!EnvOverrides
<1> HIDE DEF Fits
<1>3. Fits(upto)
  BY <1>1
<1> QED
  BY <1>2, <1>3 DEF Fits

LEMMA NoVariables == Conf!EnvOverrides(<<>>) = <<>>
<1> DEFINE w == [n \in 0..0 |-> <<>>]
<1>1. w = [n \in 0..Len(<<>>) |-> IF n = 0 THEN <<>> ELSE Conf!Override(w[n - 1], <<>>[n])]
  OBVIOUS
<1>2. PICK upto : /\ Conf!EnvOverrides(<<>>) = upto[Len(<<>>)]
                  /\ upto = [n \in 0..Len(<<>>) |-> IF n = 0 THEN <<>> ELSE Conf!Override(upto[n - 1], <<>>[n])]
  BY <1>1, OverridesMade
<1> QED
  BY <1>2

LEMMA OneVariable == ASSUME NEW p PROVE Conf!EnvOverrides(<<p>>) = Conf!Override(<<>>, p)
<1> DEFINE v == <<p>>
           a == Conf!Override(<<>>, p)
           w == [n \in 0..1 |-> IF n = 0 THEN <<>> ELSE a]
<1>1. Len(v) = 1 /\ v[1] = p
  OBVIOUS
<1> HIDE DEF v
<1>2. w[0] = <<>>
  OBVIOUS
<1>3. \A n \in 0..1 : w[n] = IF n = 0 THEN <<>> ELSE Conf!Override(w[n - 1], v[n])
  BY <1>1, <1>2
<1>4. w = [n \in 0..Len(v) |-> IF n = 0 THEN <<>> ELSE Conf!Override(w[n - 1], v[n])]
  BY <1>1, <1>3
<1> HIDE DEF w
<1>5. PICK upto : /\ Conf!EnvOverrides(v) = upto[Len(v)]
                  /\ upto = [n \in 0..Len(v) |-> IF n = 0 THEN <<>> ELSE Conf!Override(upto[n - 1], v[n])]
  BY <1>1, <1>4, OverridesMade
<1>6. upto[0] = <<>> /\ upto[1] = Conf!Override(upto[0], v[1])
  BY <1>1, <1>5
<1> QED
  BY <1>1, <1>5, <1>6 DEF v

LEMMA TwoVariables ==
    ASSUME NEW p, NEW q
    PROVE  Conf!EnvOverrides(<<p, q>>) = Conf!Override(Conf!Override(<<>>, p), q)
<1> DEFINE v == <<p, q>>
           a == Conf!Override(<<>>, p)
           b == Conf!Override(a, q)
           w == [n \in 0..2 |-> IF n = 0 THEN <<>> ELSE IF n = 1 THEN a ELSE b]
<1>1. Len(v) = 2 /\ v[1] = p /\ v[2] = q
  OBVIOUS
<1> HIDE DEF v
<1>2. w[0] = <<>> /\ w[1] = a
  OBVIOUS
<1>3. \A n \in 0..2 : w[n] = IF n = 0 THEN <<>> ELSE Conf!Override(w[n - 1], v[n])
  BY <1>1, <1>2
<1>4. w = [n \in 0..Len(v) |-> IF n = 0 THEN <<>> ELSE Conf!Override(w[n - 1], v[n])]
  BY <1>1, <1>3
<1>0. Len(v) \in Nat
  BY <1>1
<1> HIDE DEF w, a, b
<1>5. PICK upto : /\ Conf!EnvOverrides(v) = upto[Len(v)]
                  /\ upto = [n \in 0..Len(v) |-> IF n = 0 THEN <<>> ELSE Conf!Override(upto[n - 1], v[n])]
  BY <1>0, <1>4, OverridesMade
<1>6. /\ upto[0] = <<>>
      /\ upto[1] = Conf!Override(upto[0], v[1])
      /\ upto[2] = Conf!Override(upto[1], v[2])
  BY <1>1, <1>5
<1> QED
  BY <1>1, <1>5, <1>6 DEF v, a, b

\* What a file with one section says.
LEMMA SectionValue ==
    ASSUME NEW l, NEW s, NEW keys, NEW t \in Conf!Sections(l, s, keys), NEW s2, NEW k2
    PROVE  /\ Conf!Get(t, s2, k2) \in {{}, {l}}
           /\ DOMAIN t \subseteq {s}
           /\ s # "value" => t # Conf!Broken
<1> DEFINE leaf == [j \in {s} |-> Conf!Leaf({l})]
           section(ks) == [j \in {s} |-> [k \in ks |-> Conf!Leaf({l})]]
<1>1. \/ t = <<>>
      \/ t = leaf
      \/ \E ks \in SUBSET keys : t = section(ks)
  BY DEF Conf!Sections
<1>2. DOMAIN <<>> = {}
  OBVIOUS
<1>3. CASE t = <<>>
  BY <1>2, <1>3 DEF Conf!Get, Conf!Broken, Conf!Leaf
<1>4. CASE t = leaf
  <2>1. DOMAIN t = {s} /\ Conf!IsLeaf(t[s])
    BY <1>4, LeafDomain
  <2> QED
    BY <2>1, LeafDomain DEF Conf!Get, Conf!IsLeaf, Conf!Broken
<1>5. CASE \E ks \in SUBSET keys : t = section(ks)
  <2>1. PICK ks \in SUBSET keys : t = section(ks)
    BY <1>5
  <2>2. DOMAIN t = {s} /\ DOMAIN t[s] = ks /\ \A k \in ks : t[s][k] = Conf!Leaf({l})
    BY <2>1
  <2>3. Conf!Leaf({l}).value = {l}
    BY LeafDomain
  <2> QED
    BY <2>2, <2>3, LeafDomain DEF Conf!Get, Conf!IsLeaf, Conf!Broken
<1> QED
  BY <1>1, <1>3, <1>4, <1>5

LEMMA ListValue ==
    ASSUME NEW v
    PROVE  /\ Conf!Get(Conf!List(v), "state", "path") = {}
           /\ DOMAIN Conf!List(v) = {"gateway"}
  BY DEF Conf!List, Conf!Get

LEMMA DefaultsHere ==
    /\ Conf!Get(Conf!DefaultsFile, "state", "path") = {Conf!Defaults}
    /\ DOMAIN Conf!DefaultsFile = {"verify", "state", "gateway"}
    /\ ~Conf!IsLeaf(Conf!DefaultsFile.verify)
    /\ DOMAIN Conf!DefaultsFile.verify = {"command", "limit"}
<1>1. DOMAIN [path |-> Conf!Leaf({Conf!Defaults})] = {"path"}
  OBVIOUS
<1>2. /\ DOMAIN Conf!DefaultsFile = {"verify", "state", "gateway"}
      /\ Conf!DefaultsFile["state"] = [path |-> Conf!Leaf({Conf!Defaults})]
      /\ Conf!DefaultsFile.verify = [command |-> Conf!Leaf({Conf!Defaults}), limit |-> Conf!Leaf({Conf!Defaults})]
  BY DEF Conf!DefaultsFile
<1>3. DOMAIN Conf!DefaultsFile.verify = {"command", "limit"}
  BY <1>2
<1>4. Conf!DefaultsFile["state"]["path"] = Conf!Leaf({Conf!Defaults}) /\ ~Conf!IsLeaf(Conf!DefaultsFile["state"])
      /\ "path" \in DOMAIN Conf!DefaultsFile["state"]
  BY <1>1, <1>2 DEF Conf!IsLeaf
<1>5. Conf!Get(Conf!DefaultsFile, "state", "path") = {Conf!Defaults}
  BY <1>2, <1>4, LeafDomain DEF Conf!Get
<1> QED
  BY <1>2, <1>3, <1>5 DEF Conf!IsLeaf

\* The variables of a gateway.
LEMMA OperatorVariables ==
    ASSUME NEW env \in Conf!OperatorEnvironments
    PROVE  \/ env = <<>>
           \/ \E p \in Conf!Variables \cup {<<"gateway", "allowed">>} : env = <<p>>
<1>1. \A e \in Conf!Variables \X Conf!Variables : Len(e) = 2
  OBVIOUS
<1> QED
  BY <1>1 DEF Conf!OperatorEnvironments, Conf!Environments

\* Variables give their own value to what they name.
LEMMA OverrideValue ==
    ASSUME NEW tree, NEW names, NEW s, s \notin {"value", "gateway"}, NEW k
    PROVE  Conf!Get(Conf!Override(tree, names), s, k) \in {Conf!Get(tree, s, k), {Conf!Env}, {}}
<1> DEFINE n == names[1]
           less == [j \in DOMAIN tree \ {n} |-> tree[j]]
           leaf == [j \in {n} |-> Conf!Leaf({Conf!Env})]
           inner == [j \in {names[2]} |-> Conf!Leaf(Conf!AsString(names))]
           section == [j \in {n} |-> inner]
<1>1. Conf!Override(tree, names) \in {Conf!Broken, Conf!Merge(less, leaf), Conf!Merge(tree, section)}
  BY DEF Conf!Override
<1>2. Conf!Get(Conf!Broken, s, k) = {}
  BY DEF Conf!Broken, Conf!Leaf, Conf!Get
<1>3. Conf!Get(less, s, k) \in {Conf!Get(tree, s, k), {}}
  BY DEF Conf!Get
<1>4. Conf!Get(leaf, s, k) = {}
  BY LeafDomain DEF Conf!Get
<1>5. Conf!Get(section, s, k) \in {{}, {Conf!Env}}
  <2>1. DOMAIN section = {n} /\ section[n] = inner
    OBVIOUS
  <2>2. DOMAIN inner = {names[2]} /\ inner[names[2]].value = Conf!AsString(names)
    BY LeafDomain
  <2>3. n # "gateway" => Conf!AsString(names) = {Conf!Env}
    BY DEF Conf!AsString
  <2> HIDE DEF section, inner, n
  <2>4. CASE s # n
    BY <2>1, <2>4 DEF Conf!Get
  <2>5. CASE s = n
    BY <2>1, <2>2, <2>3, <2>5 DEF Conf!Get
  <2> QED
    BY <2>4, <2>5
<1> HIDE DEF less, leaf, section
<1> QED
  BY <1>1, <1>2, <1>3, <1>4, <1>5, MergedValue

\* The operator's own layers never give the value of a project to a state file.
LEMMA OperatorState ==
    ASSUME NEW file \in Conf!OperatorFiles, NEW env \in Conf!OperatorEnvironments
    PROVE  Conf!Get(Conf!OperatorConfig(file, env), "state", "path") # {Conf!Project}
<1> DEFINE Own == {{}, {Conf!Defaults}, {Conf!Env}, {Conf!OperatorFile}}
           Value(t) == Conf!Get(t, "state", "path")
<1>1. {Conf!Project} \notin Own
  BY DEF Conf!Project, Conf!Defaults, Conf!Env, Conf!OperatorFile
<1>2. \A a, b : Value(a) \in Own /\ Value(b) \in Own => Value(Conf!Merge(a, b)) \in Own
  <2> SUFFICES ASSUME NEW a, NEW b, Value(a) \in Own, Value(b) \in Own
               PROVE  Value(Conf!Merge(a, b)) \in Own
    OBVIOUS
  <2>1. Value(Conf!Merge(a, b)) \in {Value(a), Value(b), {}}
    BY MergedValue
  <2> QED
    BY <2>1
<1>3. Value(<<>>) \in Own
  <2>1. DOMAIN <<>> = {}
    OBVIOUS
  <2> QED
    BY <2>1 DEF Conf!Get
<1>4. Value(Conf!DefaultsFile) \in Own
  BY DefaultsHere
<1>5. Value(Conf!Broken) \in Own
  BY DEF Conf!Broken, Conf!Leaf, Conf!Get
<1>6. Value(file) \in Own
  <2>1. PICK a \in Conf!Sections(Conf!OperatorFile, "verify", {"command"}),
             b \in Conf!Sections(Conf!OperatorFile, "state", {"path"}),
             c \in {<<>>, Conf!List({Conf!OperatorFile}), Conf!List({Conf!Project, Conf!Env})} :
                 file = Conf!Merge(Conf!Merge(a, b), c)
    <3> DEFINE As == Conf!Sections(Conf!OperatorFile, "verify", {"command"})
               Bs == Conf!Sections(Conf!OperatorFile, "state", {"path"})
               Cs == {<<>>, Conf!List({Conf!OperatorFile}), Conf!List({Conf!Project, Conf!Env})}
    <3>1. \E f \in As \X Bs \X Cs : file = Conf!Merge(Conf!Merge(f[1], f[2]), f[3])
      BY DEF Conf!OperatorFiles, Conf!Full
    <3> HIDE DEF As, Bs, Cs
    <3>2. \E a \in As, b \in Bs, c \in Cs : file = Conf!Merge(Conf!Merge(a, b), c)
      BY <3>1
    <3> QED
      BY <3>2 DEF As, Bs, Cs
  <2>2. Value(a) \in Own
    <3>1. Value(a) \in {{}, {Conf!OperatorFile}}
      BY SectionValue
    <3> QED
      BY <3>1
  <2>3. Value(b) \in Own
    BY SectionValue
  <2>4. Value(c) \in Own
    BY <1>3, ListValue
  <2> QED
    BY <1>2, <2>1, <2>2, <2>3, <2>4
<1>7. Value(Conf!EnvOverrides(env)) \in Own
  <2>1. env = <<>> \/ \E p : env = <<p>>
    BY OperatorVariables
  <2>2. CASE env = <<>>
    BY <1>3, <2>2, NoVariables
  <2>3. CASE \E p : env = <<p>>
    <3>1. PICK p : env = <<p>>
      BY <2>3
    <3>2. Value(Conf!Override(<<>>, p)) \in {Value(<<>>), {Conf!Env}, {}}
      BY OverrideValue
    <3> QED
      BY <1>3, <3>1, <3>2, OneVariable
  <2> QED
    BY <2>1, <2>2, <2>3
<1> HIDE DEF Own, Value
<1>8. Value(Conf!OperatorConfig(file, env)) \in Own
  BY <1>2, <1>3, <1>4, <1>5, <1>6, <1>7 DEF Conf!OperatorConfig, Conf!Resolve
<1> QED
  BY <1>1, <1>8 DEF Value

\* What a project contributes to what a call runs on.
LEMMA ProjectContributes ==
    ASSUME NEW operator, NEW other, Conf!Get(operator, "state", "path") # {Conf!Project}
    PROVE  LET call == Conf!Effective(operator, other)
               pinned == Conf!PinStatePaths(operator, operator)
               Same(t, s, k) == Conf!Get(t, s, k) = Conf!Get(operator, s, k) IN
           /\ Same(call, "gateway", "allowed") /\ Same(pinned, "gateway", "allowed")
           /\ Same(call, "verify", "limit") /\ Same(pinned, "verify", "limit")
           /\ Conf!Get(call, "state", "path") \notin {{}, {Conf!Project}}
           /\ Conf!Get(pinned, "state", "path") \notin {{}, {Conf!Project}}
           /\ Same(pinned, "verify", "command")
           /\ \/ Same(call, "verify", "command")
              \/ Conf!Get(call, "verify", "command") \subseteq Conf!Get(operator, "gateway", "allowed")
<1> DEFINE Get(t, s, k) == Conf!Get(t, s, k)
           Pinned == IF Get(operator, "state", "path") = {} THEN {Conf!Defaults} ELSE Get(operator, "state", "path")
           command == Get(other, "verify", "command")
<1>1. Pinned \notin {{}, {Conf!Project}}
  BY DEF Conf!Defaults, Conf!Project
<1>2. \A t : Conf!PinStatePaths(t, operator) = Conf!Set(t, "state", "path", Pinned)
  BY DEF Conf!PinStatePaths
<1> HIDE DEF Pinned, command
<1>3. ASSUME NEW t
      PROVE  LET pinned == Conf!PinStatePaths(t, operator) IN
             /\ Get(pinned, "gateway", "allowed") = Get(t, "gateway", "allowed")
             /\ Get(pinned, "verify", "limit") = Get(t, "verify", "limit")
             /\ Get(pinned, "verify", "command") = Get(t, "verify", "command")
             /\ Get(pinned, "state", "path") = Pinned
  BY <1>2, ValueSet
<1> DEFINE with == Conf!Set(operator, "verify", "command", command)
<1>4. /\ Get(with, "gateway", "allowed") = Get(operator, "gateway", "allowed")
      /\ Get(with, "verify", "limit") = Get(operator, "verify", "limit")
      /\ Get(with, "verify", "command") = command
  BY ValueSet
<1>5. CASE Conf!Approved(operator, other)
  <2>1. command \subseteq Get(operator, "gateway", "allowed")
    BY <1>5 DEF command, Conf!Approved
  <2>2. Conf!Effective(operator, other) = Conf!PinStatePaths(with, operator)
    BY <1>5 DEF Conf!Effective, command
  <2> HIDE DEF with, Get
  <2> QED
    BY <1>1, <1>3, <1>4, <2>1, <2>2 DEF Get
<1>6. CASE ~Conf!Approved(operator, other)
  <2>1. Conf!Effective(operator, other) = Conf!PinStatePaths(operator, operator)
    BY <1>6 DEF Conf!Effective
  <2> HIDE DEF with, Get
  <2> QED
    BY <1>1, <1>3, <2>1 DEF Get
<1> QED
  BY <1>5, <1>6

\* What was asked, and what it was answered.
ConfigInv ==
    \/ asked = Conf!NoCall /\ config = <<>>
    \/ \E org \in Conf!OrgFiles, mine \in Conf!ProjectFiles, local \in Conf!LocalFiles, env \in Conf!Environments :
          /\ asked = [kind |-> "resolve", layers |-> <<org, mine, local>>, env |-> env]
          /\ config = Conf!Resolve(org, mine, local, env)
    \/ \E file \in Conf!OperatorFiles, mine \in Conf!WholeProjects, env \in Conf!OperatorEnvironments :
          /\ asked = [kind |-> "effective", layers |-> <<file, mine>>, env |-> env]
          /\ config = Conf!Effective(Conf!OperatorConfig(file, env), Conf!Resolve(<<>>, mine, <<>>, env))
    \/ \E file \in Conf!OperatorFiles, env \in Conf!OperatorEnvironments :
          /\ asked = [kind |-> "pinned", layers |-> <<file>>, env |-> env]
          /\ config = Conf!PinStatePaths(Conf!OperatorConfig(file, env), Conf!OperatorConfig(file, env))

LEMMA ConfigBegins == Conf!ConfigInit => ConfigInv
  BY DEF Conf!ConfigInit, ConfigInv

LEMMA ConfigStep == Conf!ConfigNext => ConfigInv'
<1>1. ASSUME Conf!ResolveConfig PROVE ConfigInv'
  BY <1>1 DEF Conf!ResolveConfig, ConfigInv
<1>2. ASSUME Conf!EffectiveConfig PROVE ConfigInv'
  BY <1>2 DEF Conf!EffectiveConfig, ConfigInv
<1>3. ASSUME Conf!PinnedConfig PROVE ConfigInv'
  BY <1>3 DEF Conf!PinnedConfig, ConfigInv
<1>4. ASSUME Conf!NextCall PROVE ConfigInv'
  BY <1>4 DEF Conf!NextCall, ConfigInv
<1> QED
  BY <1>1, <1>2, <1>3, <1>4 DEF Conf!ConfigNext

LEMMA ConfigAlways == Spec => [](part = "config" => ConfigInv)
<1>1. Init => (part = "config" => ConfigInv)
  BY ConfigBegins DEF Init
<1>2. (part = "config" => ConfigInv) /\ [Next]_<<part, statevars, answervars>>
         => (part = "config" => ConfigInv)'
  <2> SUFFICES ASSUME part = "config" => ConfigInv, [Next]_<<part, statevars, answervars>>, (part = "config")'
               PROVE  ConfigInv'
    OBVIOUS
  <2>1. part = "config"
    BY DEF Next
  <2>2. Conf!ConfigNext \/ UNCHANGED configvars
    BY <2>1 DEF Next, answervars
  <2>3. CASE UNCHANGED configvars
    BY <2>1, <2>3 DEF configvars, ConfigInv
  <2> QED
    BY <2>2, <2>3, ConfigStep
<1> QED
  BY <1>1, <1>2, PTL DEF Spec

LEMMA OperatorDecided == ConfigInv => Conf!OperatorDecides
<1> SUFFICES ASSUME ConfigInv, asked.kind \in {"effective", "pinned"} PROVE Conf!OperatorDecides
  BY DEF Conf!OperatorDecides
<1> DEFINE operator == Conf!OperatorConfig(asked.layers[1], asked.env)
           Same(s, k) == Conf!Get(config, s, k) = Conf!Get(operator, s, k)
<1>1. \/ \E file \in Conf!OperatorFiles, mine \in Conf!WholeProjects, env \in Conf!OperatorEnvironments :
            /\ asked = [kind |-> "effective", layers |-> <<file, mine>>, env |-> env]
            /\ config = Conf!Effective(Conf!OperatorConfig(file, env), Conf!Resolve(<<>>, mine, <<>>, env))
      \/ \E file \in Conf!OperatorFiles, env \in Conf!OperatorEnvironments :
            /\ asked = [kind |-> "pinned", layers |-> <<file>>, env |-> env]
            /\ config = Conf!PinStatePaths(Conf!OperatorConfig(file, env), Conf!OperatorConfig(file, env))
  BY DEF ConfigInv, Conf!NoCall
<1>2. /\ Same("gateway", "allowed")
      /\ Same("verify", "limit")
      /\ Conf!Get(config, "state", "path") \notin {{}, {Conf!Project}}
      /\ \/ Same("verify", "command")
         \/ /\ asked.kind = "effective"
            /\ Conf!Get(config, "verify", "command") \subseteq Conf!Get(operator, "gateway", "allowed")
  <2>1. CASE \E file \in Conf!OperatorFiles, mine \in Conf!WholeProjects, env \in Conf!OperatorEnvironments :
            /\ asked = [kind |-> "effective", layers |-> <<file, mine>>, env |-> env]
            /\ config = Conf!Effective(Conf!OperatorConfig(file, env), Conf!Resolve(<<>>, mine, <<>>, env))
    <3>1. PICK file \in Conf!OperatorFiles, mine \in Conf!WholeProjects, env \in Conf!OperatorEnvironments :
            /\ asked = [kind |-> "effective", layers |-> <<file, mine>>, env |-> env]
            /\ config = Conf!Effective(Conf!OperatorConfig(file, env), Conf!Resolve(<<>>, mine, <<>>, env))
      BY <2>1
    <3>2. operator = Conf!OperatorConfig(file, env) /\ asked.kind = "effective"
      BY <3>1
    <3>3. PICK other : other = Conf!Resolve(<<>>, mine, <<>>, env)
      OBVIOUS
    <3>4. config = Conf!Effective(operator, other)
      BY <3>1, <3>2, <3>3
    <3>5. Conf!Get(operator, "state", "path") # {Conf!Project}
      BY <3>2, OperatorState
    <3> HIDE DEF operator
    <3> QED
      BY <3>2, <3>4, <3>5, ProjectContributes
  <2>2. CASE \E file \in Conf!OperatorFiles, env \in Conf!OperatorEnvironments :
            /\ asked = [kind |-> "pinned", layers |-> <<file>>, env |-> env]
            /\ config = Conf!PinStatePaths(Conf!OperatorConfig(file, env), Conf!OperatorConfig(file, env))
    <3>1. PICK file \in Conf!OperatorFiles, env \in Conf!OperatorEnvironments :
            /\ asked = [kind |-> "pinned", layers |-> <<file>>, env |-> env]
            /\ config = Conf!PinStatePaths(Conf!OperatorConfig(file, env), Conf!OperatorConfig(file, env))
      BY <2>2
    <3>2. operator = Conf!OperatorConfig(file, env)
      BY <3>1
    <3>3. config = Conf!PinStatePaths(operator, operator)
      BY <3>1, <3>2
    <3>4. Conf!Get(operator, "state", "path") # {Conf!Project}
      BY <3>2, OperatorState
    <3> HIDE DEF operator
    <3> QED
      BY <3>3, <3>4, ProjectContributes
  <2> QED
    BY <1>1, <2>1, <2>2
<1> HIDE DEF operator
<1> QED
  BY <1>2 DEF Conf!OperatorDecides, operator

\* OperatorDecides: the verify command of a project is used when the operator's list
\* has it, and nothing else of its files is (effective_config, mcp_guard.py).
THEOREM OperatorAlwaysDecides == Spec => []OperatorDecides
<1>1. (part = "config" => ConfigInv) => OperatorDecides
  BY OperatorDecided DEF OperatorDecides
<1> QED
  BY <1>1, ConfigAlways, PTL

\* Of the first n layers: those with the section, those that have a scalar in its
\* place, and those whose value of k none of these removes.
Naming(all, n) == {i \in 1..n : "verify" \in DOMAIN all[i]}
Scalars(all, n) == {i \in Naming(all, n) : Conf!IsLeaf(all[i].verify)}
Holding(all, n, k) ==
    {i \in Naming(all, n) \ Scalars(all, n) : /\ k \in DOMAIN all[i].verify
                                              /\ \A j \in Scalars(all, n) : j < i}

Latest(S, m) == m \in S /\ \A i \in S : i <= m

\* A tree has the section as the first n layers have it.
SectionFits(t, all, n) ==
    /\ "verify" \in DOMAIN t
    /\ \E m \in Naming(all, n) :
        /\ Latest(Naming(all, n), m)
        /\ IF Conf!IsLeaf(all[m].verify) THEN t.verify = all[m].verify
           ELSE /\ ~Conf!IsLeaf(t.verify)
                /\ \A k : IF Holding(all, n, k) = {} THEN k \notin DOMAIN t.verify
                          ELSE /\ k \in DOMAIN t.verify
                               /\ \E h : /\ Latest(Holding(all, n, k), h)
                                         /\ t.verify[k] = all[h].verify[k]

LEMMA LatestIsMax ==
    ASSUME NEW S \in SUBSET Nat, NEW m, Latest(S, m)
    PROVE  Conf!Max(S) = m
<1>1. m \in S /\ \A y \in S : m >= y
  BY DEF Latest
<1>2. \A x \in S : (\A y \in S : x >= y) => x = m
  BY <1>1
<1> QED
  BY <1>1, <1>2 DEF Conf!Max

LEMMA SectionMerged ==
    ASSUME NEW all, NEW n \in Nat, NEW t, SectionFits(t, all, n)
    PROVE  SectionFits(Conf!Merge(t, all[n + 1]), all, n + 1)
<1> DEFINE u == all[n + 1]
           r == Conf!Merge(t, u)
<1>1. PICK m \in Naming(all, n) :
        /\ Latest(Naming(all, n), m)
        /\ IF Conf!IsLeaf(all[m].verify) THEN t.verify = all[m].verify
           ELSE /\ ~Conf!IsLeaf(t.verify)
                /\ \A k : IF Holding(all, n, k) = {} THEN k \notin DOMAIN t.verify
                          ELSE /\ k \in DOMAIN t.verify
                               /\ \E h : /\ Latest(Holding(all, n, k), h)
                                         /\ t.verify[k] = all[h].verify[k]
  BY DEF SectionFits
<1>2. "verify" \in DOMAIN t
  BY DEF SectionFits
<1>3. /\ DOMAIN r = DOMAIN t \cup DOMAIN u
      /\ "verify" \notin DOMAIN u => r.verify = t.verify
      /\ "verify" \in DOMAIN u =>
            r.verify = IF ~Conf!IsLeaf(t.verify) /\ ~Conf!IsLeaf(u.verify)
                       THEN Conf!Overlay(t.verify, u.verify) ELSE u.verify
  BY <1>2 DEF Conf!Merge
<1> HIDE DEF r
<1>4. 1..(n + 1) = 1..n \cup {n + 1}
  OBVIOUS
<1>5. m \in 1..n /\ \A i \in Naming(all, n) : i \in 1..n /\ i <= m
  BY <1>1 DEF Naming, Latest
<1>8. \A i \in Naming(all, n) : i < n + 1 /\ i <= n + 1
  BY <1>5
<1>6. CASE "verify" \notin DOMAIN u
  <2>1. Naming(all, n + 1) = Naming(all, n)
    BY <1>4, <1>6 DEF Naming
  <2>2. Scalars(all, n + 1) = Scalars(all, n)
    BY <2>1 DEF Scalars
  <2>3. \A k : Holding(all, n + 1, k) = Holding(all, n, k)
    BY <2>1, <2>2 DEF Holding
  <2>4. "verify" \in DOMAIN r /\ r.verify = t.verify
    BY <1>2, <1>3, <1>6
  <2> QED
    BY <1>1, <2>1, <2>3, <2>4 DEF SectionFits, r
<1>7. CASE "verify" \in DOMAIN u
  <2>1. Naming(all, n + 1) = Naming(all, n) \cup {n + 1}
    BY <1>4, <1>7 DEF Naming
  <2>2. Latest(Naming(all, n + 1), n + 1)
    BY <1>5, <2>1 DEF Latest
  <2>3. "verify" \in DOMAIN r
    BY <1>3, <1>7
  <2>4. CASE Conf!IsLeaf(u.verify)
    <3>1. r.verify = u.verify
      BY <1>3, <1>7, <2>4
    <3> QED
      BY <2>1, <2>2, <2>3, <2>4, <3>1 DEF SectionFits, r
  <2>5. CASE ~Conf!IsLeaf(u.verify) /\ Conf!IsLeaf(t.verify)
    <3>1. Conf!IsLeaf(all[m].verify)
      BY <1>1, <2>5
    <3>2. m \in Scalars(all, n + 1)
      BY <1>5, <2>1, <3>1 DEF Scalars
    <3>3. \A i \in Scalars(all, n + 1) : i \in Naming(all, n)
      BY <2>1, <2>5 DEF Scalars
    <3>4. ASSUME NEW k
          PROVE  Holding(all, n + 1, k) = IF k \in DOMAIN u.verify THEN {n + 1} ELSE {}
      <4>1. \A i \in Naming(all, n) : i \notin Holding(all, n + 1, k)
        BY <1>5, <3>2 DEF Holding
      <4>2. \A j \in Scalars(all, n + 1) : j < n + 1
        BY <1>8, <3>3
      <4>3. n + 1 \in Holding(all, n + 1, k) <=> k \in DOMAIN u.verify
        BY <2>1, <2>5, <4>2 DEF Holding, Scalars
      <4>4. Holding(all, n + 1, k) \subseteq Naming(all, n + 1)
        BY DEF Holding
      <4> QED
        BY <2>1, <4>1, <4>3, <4>4
    <3>5. r.verify = u.verify
      BY <1>3, <1>7, <2>5
    <3>6. ASSUME NEW k
          PROVE  IF Holding(all, n + 1, k) = {} THEN k \notin DOMAIN r.verify
                 ELSE /\ k \in DOMAIN r.verify
                      /\ \E h : Latest(Holding(all, n + 1, k), h) /\ r.verify[k] = all[h].verify[k]
      <4>1. Latest({n + 1}, n + 1)
        BY DEF Latest
      <4> QED
        BY <3>4, <3>5, <4>1
    <3> QED
      BY <2>1, <2>2, <2>3, <2>5, <3>5, <3>6 DEF SectionFits, r
  <2>6. CASE ~Conf!IsLeaf(u.verify) /\ ~Conf!IsLeaf(t.verify)
    <3>1. r.verify = Conf!Overlay(t.verify, u.verify)
      BY <1>3, <1>7, <2>6
    <3>2. ~Conf!IsLeaf(all[m].verify)
      BY <1>1, <2>6
    <3>3. Scalars(all, n + 1) = Scalars(all, n)
      BY <2>1, <2>6 DEF Scalars
    <3>4. \A j \in Scalars(all, n) : j < n + 1
      BY <1>5 DEF Scalars
    <3>5. ASSUME NEW k
          PROVE  Holding(all, n + 1, k) = IF k \in DOMAIN u.verify THEN Holding(all, n, k) \cup {n + 1}
                                          ELSE Holding(all, n, k)
      <4>1. n + 1 \in Holding(all, n + 1, k) <=> k \in DOMAIN u.verify
        BY <2>1, <2>6, <3>3, <3>4 DEF Holding, Scalars
      <4>2. \A i \in Naming(all, n) : i \in Holding(all, n + 1, k) <=> i \in Holding(all, n, k)
        BY <2>1, <3>3 DEF Holding
      <4>3. /\ Holding(all, n + 1, k) \subseteq Naming(all, n + 1)
            /\ Holding(all, n, k) \subseteq Naming(all, n)
        BY DEF Holding
      <4>4. n + 1 \notin Naming(all, n)
        BY DEF Naming
      <4> QED
        BY <2>1, <4>1, <4>2, <4>3, <4>4
    <3>6. ASSUME NEW k
          PROVE  IF Holding(all, n + 1, k) = {} THEN k \notin DOMAIN r.verify
                 ELSE /\ k \in DOMAIN r.verify
                      /\ \E h : Latest(Holding(all, n + 1, k), h) /\ r.verify[k] = all[h].verify[k]
      <4>1. /\ DOMAIN r.verify = DOMAIN t.verify \cup DOMAIN u.verify
            /\ k \in DOMAIN u.verify => r.verify[k] = u.verify[k]
            /\ k \in DOMAIN t.verify \ DOMAIN u.verify => r.verify[k] = t.verify[k]
        BY <3>1 DEF Conf!Overlay
      <4>2. Holding(all, n, k) \subseteq Naming(all, n)
        BY DEF Holding
      <4>3. CASE k \in DOMAIN u.verify
        <5>1. Latest(Holding(all, n + 1, k), n + 1)
          <6>1. Holding(all, n + 1, k) = Holding(all, n, k) \cup {n + 1}
            BY <3>5, <4>3
          <6>2. \A i \in Holding(all, n, k) : i <= n + 1
            BY <1>8, <4>2
          <6> QED
            BY <6>1, <6>2 DEF Latest
        <5> QED
          BY <3>5, <4>1, <4>3, <5>1
      <4>4. CASE k \notin DOMAIN u.verify
        <5>1. Holding(all, n + 1, k) = Holding(all, n, k)
          BY <3>5, <4>4
        <5> QED
          BY <1>1, <3>2, <4>1, <4>4, <5>1
      <4> QED
        BY <4>3, <4>4
    <3>7. ~Conf!IsLeaf(r.verify)
      <4>1. DOMAIN t.verify # {"value"} /\ DOMAIN u.verify # {"value"}
        BY <2>6 DEF Conf!IsLeaf
      <4>2. DOMAIN t.verify \cup DOMAIN u.verify # {"value"}
        BY <4>1
      <4>3. DOMAIN r.verify = DOMAIN t.verify \cup DOMAIN u.verify
        BY <3>1 DEF Conf!Overlay
      <4> QED
        BY <4>2, <4>3 DEF Conf!IsLeaf
    <3> QED
      BY <2>1, <2>2, <2>3, <2>6, <3>6, <3>7 DEF SectionFits, r
  <2> QED
    BY <2>4, <2>5, <2>6
<1> QED
  BY <1>6, <1>7

\* One variable of the section.
LEMMA SectionOverride ==
    ASSUME NEW tree, NEW x, tree # Conf!Broken, "verify" \in DOMAIN tree => ~Conf!IsLeaf(tree.verify),
           x # "value"
    PROVE  LET r == Conf!Override(tree, <<"verify", x>>) IN
           /\ DOMAIN r = DOMAIN tree \cup {"verify"}
           /\ ~Conf!IsLeaf(r.verify)
           /\ x \in DOMAIN r.verify /\ r.verify[x] = Conf!Leaf({Conf!Env})
           /\ "verify" \in DOMAIN tree =>
                 \A k \in DOMAIN tree.verify \ {x} : k \in DOMAIN r.verify /\ r.verify[k] = tree.verify[k]
<1> DEFINE p == <<"verify", x>>
           inner == [j \in {x} |-> Conf!Leaf({Conf!Env})]
           section == [j \in {"verify"} |-> inner]
           r == Conf!Override(tree, p)
<1>1. Len(p) = 2 /\ p[1] = "verify" /\ p[2] = x
  OBVIOUS
<1> HIDE DEF p
<1>2. r = Conf!Merge(tree, section)
  <2>1. Conf!AsString(p) = {Conf!Env}
    BY <1>1 DEF Conf!AsString
  <2> QED
    BY <1>1, <2>1 DEF Conf!Override
<1>3. DOMAIN inner = {x} /\ inner[x] = Conf!Leaf({Conf!Env}) /\ ~Conf!IsLeaf(inner)
  BY DEF Conf!IsLeaf
<1>4. DOMAIN section = {"verify"} /\ section.verify = inner
  OBVIOUS
<1> HIDE DEF r, section, inner
<1>5. DOMAIN r = DOMAIN tree \cup {"verify"}
  BY <1>2, <1>4 DEF Conf!Merge
<1>6. CASE "verify" \notin DOMAIN tree
  <2>1. r.verify = inner
    BY <1>2, <1>4, <1>6 DEF Conf!Merge
  <2> QED
    BY <1>3, <1>5, <1>6, <2>1 DEF r, p
<1>7. CASE "verify" \in DOMAIN tree
  <2>1. r.verify = Conf!Overlay(tree.verify, inner)
    BY <1>2, <1>3, <1>4, <1>7 DEF Conf!Merge
  <2>2. /\ DOMAIN r.verify = DOMAIN tree.verify \cup {x}
        /\ r.verify[x] = Conf!Leaf({Conf!Env})
        /\ \A k \in DOMAIN tree.verify \ {x} : r.verify[k] = tree.verify[k]
    BY <1>3, <2>1 DEF Conf!Overlay
  <2>3. ~Conf!IsLeaf(r.verify)
    BY <2>2 DEF Conf!IsLeaf
  <2> QED
    BY <1>5, <2>2, <2>3 DEF r, p
<1> QED
  BY <1>6, <1>7

LEMMA FirstOverride ==
    ASSUME NEW x, x # "value"
    PROVE  LET r == Conf!Override(<<>>, <<"verify", x>>) IN
           /\ DOMAIN r = {"verify"}
           /\ ~Conf!IsLeaf(r.verify)
           /\ x \in DOMAIN r.verify /\ r.verify[x] = Conf!Leaf({Conf!Env})
<1>1. PICK tree : tree = <<>>
  OBVIOUS
<1>2. DOMAIN tree = {}
  BY <1>1
<1>3. tree # Conf!Broken
  BY <1>2 DEF Conf!Broken, Conf!Leaf
<1>4. /\ DOMAIN Conf!Override(tree, <<"verify", x>>) = DOMAIN tree \cup {"verify"}
      /\ ~Conf!IsLeaf(Conf!Override(tree, <<"verify", x>>).verify)
      /\ x \in DOMAIN Conf!Override(tree, <<"verify", x>>).verify
      /\ Conf!Override(tree, <<"verify", x>>).verify[x] = Conf!Leaf({Conf!Env})
  BY <1>2, <1>3, SectionOverride
<1> QED
  BY <1>1, <1>2, <1>4

\* The variables of the section set what they name, whichever comes first.
LEMMA VariablesSet ==
    ASSUME NEW env \in Conf!Environments, NEW k \in {"command", "limit"},
           <<"verify", k>> \in Conf!ToSet(env), <<"verify">> \notin Conf!ToSet(env)
    PROVE  LET e == Conf!EnvOverrides(env) IN
           /\ "verify" \in DOMAIN e /\ ~Conf!IsLeaf(e.verify)
           /\ k \in DOMAIN e.verify /\ e.verify[k] = Conf!Leaf({Conf!Env})
<1> DEFINE e == Conf!EnvOverrides(env)
           Two(x) == <<"verify", x>>
<1>1. DOMAIN <<>> = {}
  OBVIOUS
<1>3. \A p \in Conf!Variables : p = <<"verify">> \/ \E x \in {"command", "limit"} : p = Two(x)
  BY DEF Conf!Variables
<1>4. \A x, y : Two(x) = Two(y) => x = y
  OBVIOUS
<1>5. \/ env = <<>>
      \/ \E p \in Conf!Variables : env = <<p>>
      \/ \E p, q \in Conf!Variables : env = <<p, q>>
  <2>1. \A f \in Conf!Variables \X Conf!Variables : f = <<f[1], f[2]>> /\ f[1] \in Conf!Variables /\ f[2] \in Conf!Variables
    OBVIOUS
  <2> QED
    BY <2>1 DEF Conf!Environments
<1> HIDE DEF Two
<1>6. CASE env = <<>>
  <2>1. Conf!ToSet(env) = {}
    BY <1>1, <1>6 DEF Conf!ToSet
  <2> QED
    BY <2>1
<1>7. CASE \E p \in Conf!Variables : env = <<p>>
  <2>1. PICK p \in Conf!Variables : env = <<p>>
    BY <1>7
  <2>2. Conf!ToSet(env) = {p}
    BY <2>1 DEF Conf!ToSet
  <2>3. p = <<"verify", k>>
    BY <2>2
  <2>4. e = Conf!Override(<<>>, <<"verify", k>>)
    BY <2>1, <2>3, OneVariable
  <2> HIDE DEF e
  <2>5. "verify" \in DOMAIN e /\ ~Conf!IsLeaf(e.verify) /\ k \in DOMAIN e.verify /\ e.verify[k] = Conf!Leaf({Conf!Env})
    BY <2>4, FirstOverride
  <2> QED
    BY <2>5 DEF e
<1>8. CASE \E p, q \in Conf!Variables : env = <<p, q>>
  <2>1. PICK p \in Conf!Variables, q \in Conf!Variables : env = <<p, q>>
    BY <1>8
  <2>2. Conf!ToSet(env) = {p, q}
    BY <2>1 DEF Conf!ToSet
  <2>3. PICK x \in {"command", "limit"} : p = Two(x)
    BY <1>3, <2>2
  <2>4. PICK y \in {"command", "limit"} : q = Two(y)
    BY <1>3, <2>2
  <2>5. k \in {x, y}
    <3>1. Two(k) \in {Two(x), Two(y)}
      BY <2>2, <2>3, <2>4 DEF Two
    <3> QED
      BY <1>4, <3>1
  <2> DEFINE t == Conf!Override(<<>>, <<"verify", x>>)
  <2>6. e = Conf!Override(t, <<"verify", y>>)
    BY <2>1, <2>3, <2>4, TwoVariables DEF Two
  <2> HIDE DEF e
  <2>7. /\ DOMAIN t = {"verify"} /\ ~Conf!IsLeaf(t.verify)
        /\ x \in DOMAIN t.verify /\ t.verify[x] = Conf!Leaf({Conf!Env})
    BY FirstOverride
  <2> HIDE DEF t
  <2>8. t # Conf!Broken
    BY <2>7 DEF Conf!Broken, Conf!Leaf
  <2>9. /\ DOMAIN e = DOMAIN t \cup {"verify"}
        /\ ~Conf!IsLeaf(e.verify)
        /\ y \in DOMAIN e.verify /\ e.verify[y] = Conf!Leaf({Conf!Env})
        /\ "verify" \in DOMAIN t =>
              \A j \in DOMAIN t.verify \ {y} : j \in DOMAIN e.verify /\ e.verify[j] = t.verify[j]
    BY <2>6, <2>7, <2>8, SectionOverride
  <2>10. "verify" \in DOMAIN e /\ ~Conf!IsLeaf(e.verify) /\ k \in DOMAIN e.verify /\ e.verify[k] = Conf!Leaf({Conf!Env})
    BY <2>5, <2>7, <2>9
  <2> QED
    BY <2>10 DEF e
<1> QED
  BY <1>5, <1>6, <1>7, <1>8

LEMMA FirstLayer ==
    ASSUME NEW all, all[1] = Conf!DefaultsFile
    PROVE  SectionFits(all[1], all, 1)
<1>1. /\ "verify" \in DOMAIN all[1] /\ ~Conf!IsLeaf(all[1].verify)
  BY DefaultsHere
<1>2. Naming(all, 1) = {1}
  BY <1>1 DEF Naming
<1>3. Scalars(all, 1) = {}
  BY <1>1, <1>2 DEF Scalars
<1>4. \A k : Holding(all, 1, k) = IF k \in DOMAIN all[1].verify THEN {1} ELSE {}
  BY <1>2, <1>3 DEF Holding
<1>5. Latest({1}, 1)
  BY DEF Latest
<1> QED
  BY <1>1, <1>2, <1>4, <1>5 DEF SectionFits

\* The whole of what is resolved has the section as its layers have it.
LEMMA LayersFit ==
    ASSUME NEW org, NEW mine, NEW local, NEW env,
           Conf!Resolve(org, mine, local, env) # Conf!Broken,
           NEW all, all = <<Conf!DefaultsFile, org, mine, local, Conf!EnvOverrides(env)>>
    PROVE  SectionFits(Conf!Resolve(org, mine, local, env), all, 5)
<1> DEFINE t1 == Conf!DefaultsFile
           t2 == Conf!Merge(t1, org)
           t3 == Conf!Merge(t2, mine)
           t4 == Conf!Merge(t3, local)
           e == Conf!EnvOverrides(env)
<1>1. /\ all[1] = t1 /\ all[2] = org /\ all[3] = mine /\ all[4] = local /\ all[5] = e
  OBVIOUS
<1>2. Conf!Resolve(org, mine, local, env) = Conf!Merge(t4, e)
  BY DEF Conf!Resolve
<1> HIDE DEF e
<1>3. 1 + 1 = 2 /\ 2 + 1 = 3 /\ 3 + 1 = 4 /\ 4 + 1 = 5 /\ 1 \in Nat /\ 2 \in Nat /\ 3 \in Nat /\ 4 \in Nat
  OBVIOUS
<1>4. SectionFits(t1, all, 1)
  BY <1>1, FirstLayer
<1> HIDE DEF t1
<1>5. SectionFits(t2, all, 2)
  BY <1>1, <1>3, <1>4, SectionMerged
<1> HIDE DEF t2
<1>6. SectionFits(t3, all, 3)
  BY <1>1, <1>3, <1>5, SectionMerged
<1> HIDE DEF t3
<1>7. SectionFits(t4, all, 4)
  BY <1>1, <1>3, <1>6, SectionMerged
<1> HIDE DEF t4
<1>8. SectionFits(Conf!Merge(t4, e), all, 5)
  BY <1>1, <1>3, <1>7, SectionMerged
<1> QED
  BY <1>2, <1>8

\* What the environment sets is what is resolved.
LEMMA EnvironmentWins ==
    ASSUME NEW org, NEW mine, NEW local, NEW env \in Conf!Environments, NEW k \in {"command", "limit"},
           Conf!Resolve(org, mine, local, env) # Conf!Broken,
           <<"verify", k>> \in Conf!ToSet(env), <<"verify">> \notin Conf!ToSet(env)
    PROVE  Conf!Get(Conf!Resolve(org, mine, local, env), "verify", k) = {Conf!Env}
<1> DEFINE t == Conf!Merge(Conf!Merge(Conf!Merge(Conf!DefaultsFile, org), mine), local)
           e == Conf!EnvOverrides(env)
           r == Conf!Merge(t, e)
<1>1. Conf!Resolve(org, mine, local, env) = r
  BY DEF Conf!Resolve
<1>2. /\ "verify" \in DOMAIN e /\ ~Conf!IsLeaf(e.verify)
      /\ k \in DOMAIN e.verify /\ e.verify[k] = Conf!Leaf({Conf!Env})
  BY VariablesSet
<1> HIDE DEF t, e
<1>3. /\ "verify" \in DOMAIN r
      /\ r.verify = e.verify \/ r.verify = Conf!Overlay(t.verify, e.verify)
  BY <1>2 DEF Conf!Merge
<1>4. k \in DOMAIN r.verify /\ r.verify[k] = Conf!Leaf({Conf!Env})
  BY <1>2, <1>3 DEF Conf!Overlay
<1>5. ~Conf!IsLeaf(r.verify)
  BY <1>4 DEF Conf!IsLeaf
<1> HIDE DEF r
<1> QED
  BY <1>1, <1>3, <1>4, <1>5, LeafDomain DEF Conf!Get

\* Where the elements of joined sequences are.
LEMMA Joined ==
    ASSUME NEW T, NEW a \in Seq(T), NEW b \in Seq(T)
    PROVE  /\ a \o b \in Seq(T)
           /\ Len(a \o b) = Len(a) + Len(b)
           /\ \A i \in 1..Len(a) : (a \o b)[i] = a[i]
           /\ \A i \in 1..Len(b) : (a \o b)[Len(a) + i] = b[i]
  OBVIOUS

\* The five layers in a row.
LEMMA FiveInARow ==
    ASSUME NEW d, NEW x, NEW y, NEW z, NEW e
    PROVE  <<d>> \o <<x, y, z>> \o <<e>> = <<d, x, y, z, e>>
<1> DEFINE T == {d, x, y, z, e}
           a == <<d>>
           s == <<x, y, z>>
           b == <<e>>
           r == a \o s
           q == r \o b
<1>1. a \in Seq(T) /\ s \in Seq(T) /\ b \in Seq(T)
  OBVIOUS
<1>2. Len(s) = 3 /\ s[1] = x /\ s[2] = y /\ s[3] = z
  OBVIOUS
<1>3. Len(a) = 1 /\ a[1] = d /\ Len(b) = 1 /\ b[1] = e
  OBVIOUS
<1> HIDE DEF T, a, s, b
<1>4. /\ r \in Seq(T) /\ Len(r) = Len(a) + Len(s)
      /\ \A i \in 1..Len(a) : r[i] = a[i]
      /\ \A i \in 1..Len(s) : r[Len(a) + i] = s[i]
  BY <1>1, Joined
<1> HIDE DEF r
<1>5. Len(r) = 4 /\ r[1] = d /\ r[2] = x /\ r[3] = y /\ r[4] = z
  BY <1>2, <1>3, <1>4
<1>6. r \in Seq(T)
  BY <1>4
<1>7. /\ q \in Seq(T) /\ Len(q) = Len(r) + Len(b)
      /\ \A i \in 1..Len(r) : q[i] = r[i]
      /\ \A i \in 1..Len(b) : q[Len(r) + i] = b[i]
  BY <1>1, <1>6, Joined
<1> HIDE DEF q
<1>8. Len(q) = 5 /\ q[1] = d /\ q[2] = x /\ q[3] = y /\ q[4] = z /\ q[5] = e
  BY <1>3, <1>5, <1>7
<1>9. q = [i \in 1..5 |-> q[i]]
  <2>1. q \in Seq(T) /\ Len(q) = 5
    BY <1>7, <1>8
  <2> QED BY <2>1
<1>10. q = <<d, x, y, z, e>>
  BY <1>8, <1>9
<1> QED
  BY <1>10 DEF q, r, a, s, b

LEMMA LayersWin == ConfigInv => Conf!LaterLayerWins
<1> SUFFICES ASSUME ConfigInv, asked.kind = "resolve", config # Conf!Broken PROVE Conf!LaterLayerWins
  BY DEF Conf!LaterLayerWins
<1> DEFINE all == <<Conf!DefaultsFile>> \o asked.layers \o <<Conf!EnvOverrides(asked.env)>>
           N == {i \in DOMAIN all : "verify" \in DOMAIN all[i]}
           S == {i \in N : Conf!IsLeaf(all[i].verify)}
           H(k) == {i \in N \ S : k \in DOMAIN all[i].verify /\ \A j \in S : j < i}
<1>1. PICK org \in Conf!OrgFiles, mine \in Conf!ProjectFiles, local \in Conf!LocalFiles, env \in Conf!Environments :
          /\ asked = [kind |-> "resolve", layers |-> <<org, mine, local>>, env |-> env]
          /\ config = Conf!Resolve(org, mine, local, env)
  BY DEF ConfigInv, Conf!NoCall
<1>2. asked.layers = <<org, mine, local>> /\ asked.env = env
  BY <1>1
<1>3. all = <<Conf!DefaultsFile, org, mine, local, Conf!EnvOverrides(env)>>
  BY <1>2, FiveInARow
<1> HIDE DEF all
<1>4. DOMAIN all = 1..5
  BY <1>3
<1>5. SectionFits(config, all, 5)
  BY <1>1, <1>3, LayersFit
<1>6. N = Naming(all, 5) /\ S = Scalars(all, 5) /\ \A k : H(k) = Holding(all, 5, k)
  BY <1>4 DEF Naming, Scalars, Holding
<1>7. N \in SUBSET Nat /\ \A k : H(k) \in SUBSET Nat
  BY <1>4
<1> HIDE DEF N, S, H
<1>8. PICK m \in N :
        /\ Latest(N, m)
        /\ IF Conf!IsLeaf(all[m].verify) THEN config.verify = all[m].verify
           ELSE /\ ~Conf!IsLeaf(config.verify)
                /\ \A k : IF H(k) = {} THEN k \notin DOMAIN config.verify
                          ELSE /\ k \in DOMAIN config.verify
                               /\ \E h : Latest(H(k), h) /\ config.verify[k] = all[h].verify[k]
  BY <1>5, <1>6 DEF SectionFits
<1>9. Conf!Max(N) = m
  BY <1>7, <1>8, LatestIsMax
<1>10. m \in S <=> Conf!IsLeaf(all[m].verify)
  BY <1>8 DEF S
<1>11. m \in S => config.verify = all[m].verify
  BY <1>8, <1>10
<1>12. ASSUME m \notin S, NEW k
       PROVE  Conf!Get(config, "verify", k) = IF H(k) = {} THEN {} ELSE all[Conf!Max(H(k))].verify[k].value
  <2>1. "verify" \in DOMAIN config /\ ~Conf!IsLeaf(config.verify)
    BY <1>5, <1>8, <1>10, <1>12 DEF SectionFits
  <2>2. CASE H(k) = {}
    <3>1. k \notin DOMAIN config.verify
      BY <1>8, <1>10, <1>12, <2>2
    <3> QED
      BY <2>1, <2>2, <3>1 DEF Conf!Get
  <2>3. CASE H(k) # {}
    <3>1. PICK h : Latest(H(k), h) /\ config.verify[k] = all[h].verify[k] /\ k \in DOMAIN config.verify
      BY <1>8, <1>10, <1>12, <2>3
    <3>2. Conf!Max(H(k)) = h
      BY <1>7, <3>1, LatestIsMax
    <3> QED
      BY <2>1, <2>3, <3>1, <3>2 DEF Conf!Get
  <2> QED
    BY <2>2, <2>3
<1>13. \A k \in {"command", "limit"} :
          <<"verify", k>> \in Conf!ToSet(asked.env) /\ <<"verify">> \notin Conf!ToSet(asked.env)
             => Conf!Get(config, "verify", k) = {Conf!Env}
  BY <1>1, <1>2, EnvironmentWins
<1>14. IF Conf!Max(N) \in S THEN config.verify = all[Conf!Max(N)].verify
       ELSE /\ \A k \in {"command", "limit"} :
                  Conf!Get(config, "verify", k) = IF H(k) = {} THEN {} ELSE all[Conf!Max(H(k))].verify[k].value
            /\ \A k \in {"command", "limit"} :
                  <<"verify", k>> \in Conf!ToSet(asked.env) /\ <<"verify">> \notin Conf!ToSet(asked.env)
                     => Conf!Get(config, "verify", k) = {Conf!Env}
  BY <1>9, <1>11, <1>12, <1>13
<1> QED
  BY <1>14 DEF Conf!LaterLayerWins, all, N, S, H

\* LaterLayerWins: later layers win, a section against a section key by key
\* (_deep_merge, resolve_config of resolve.py).
THEOREM LaterLayersWin == Spec => []LaterLayerWins
<1>1. (part = "config" => ConfigInv) => LaterLayerWins
  BY LayersWin DEF LaterLayerWins
<1> QED
  BY <1>1, ConfigAlways, PTL

\* Whatever is asked, it is answered with the sections there are.
Sectioned(t) == DOMAIN t \subseteq {"verify", "state", "gateway"}

LEMMA SectionedTrees ==
    /\ \A t : Sectioned(t) => t # Conf!Broken
    /\ \A a, b : Sectioned(a) /\ Sectioned(b) => Sectioned(Conf!Merge(a, b))
    /\ Sectioned(<<>>) /\ Sectioned(Conf!DefaultsFile)
    /\ \A l : \A t \in Conf!Verify(l) : Sectioned(t)
    /\ \A t \in Conf!OperatorFiles : Sectioned(t)
<1>1. ASSUME NEW t, Sectioned(t) PROVE t # Conf!Broken
  <2>1. "value" \notin DOMAIN t
    BY <1>1 DEF Sectioned
  <2> QED
    BY <2>1 DEF Conf!Broken, Conf!Leaf
<1>2. ASSUME NEW a, NEW b, Sectioned(a), Sectioned(b) PROVE Sectioned(Conf!Merge(a, b))
  BY <1>2 DEF Sectioned, Conf!Merge
<1>3. Sectioned(<<>>)
  <2>1. DOMAIN <<>> = {}
    OBVIOUS
  <2> QED
    BY <2>1 DEF Sectioned
<1>4. Sectioned(Conf!DefaultsFile)
  BY DefaultsHere DEF Sectioned
<1>5. ASSUME NEW l, NEW s \in {"verify", "state", "gateway"}, NEW keys, NEW t \in Conf!Sections(l, s, keys)
      PROVE  Sectioned(t)
  <2>1. DOMAIN t \subseteq {s}
    BY <1>5, SectionValue
  <2> QED
    BY <1>5, <2>1 DEF Sectioned
<1>6. ASSUME NEW l, NEW t \in Conf!Verify(l) PROVE Sectioned(t)
  BY <1>5, <1>6 DEF Conf!Verify
<1>7. ASSUME NEW t \in Conf!OperatorFiles PROVE Sectioned(t)
  <2> DEFINE As == Conf!Sections(Conf!OperatorFile, "verify", {"command"})
             Bs == Conf!Sections(Conf!OperatorFile, "state", {"path"})
             Cs == {<<>>, Conf!List({Conf!OperatorFile}), Conf!List({Conf!Project, Conf!Env})}
  <2>1. \E f \in As \X Bs \X Cs : t = Conf!Merge(Conf!Merge(f[1], f[2]), f[3])
    BY DEF Conf!OperatorFiles, Conf!Full
  <2> HIDE DEF As, Bs, Cs
  <2>2. PICK a \in As, b \in Bs, c \in Cs : t = Conf!Merge(Conf!Merge(a, b), c)
    BY <2>1
  <2>3. Sectioned(a)
    BY <1>5 DEF As
  <2>4. Sectioned(b)
    BY <1>5 DEF Bs
  <2>5. Sectioned(c)
    <3>1. \A v : Sectioned(Conf!List(v))
      BY ListValue DEF Sectioned
    <3> QED
      BY <1>3, <3>1 DEF Cs
  <2> QED
    BY <1>2, <2>2, <2>3, <2>4, <2>5
<1> QED
  BY <1>1, <1>2, <1>3, <1>4, <1>6, <1>7

LEMMA SectionedOverrides ==
    ASSUME NEW tree, tree = Conf!Broken \/ Sectioned(tree),
           NEW p \in Conf!Variables \cup {<<"gateway", "allowed">>}
    PROVE  /\ Conf!Override(tree, p) = Conf!Broken \/ Sectioned(Conf!Override(tree, p))
           /\ DOMAIN tree = {} => Sectioned(Conf!Override(tree, p))
<1> DEFINE less == [j \in DOMAIN tree \ {p[1]} |-> tree[j]]
           leaf == [j \in {p[1]} |-> Conf!Leaf({Conf!Env})]
           section == [j \in {p[1]} |-> [k \in {p[2]} |-> Conf!Leaf(Conf!AsString(p))]]
<1>1. p[1] \in {"verify", "gateway"}
  BY DEF Conf!Variables
<1>2. /\ Conf!Override(tree, p) \in {Conf!Broken, Conf!Merge(less, leaf), Conf!Merge(tree, section)}
      /\ tree # Conf!Broken /\ p[1] \notin DOMAIN tree
            => Conf!Override(tree, p) \in {Conf!Merge(less, leaf), Conf!Merge(tree, section)}
      /\ tree = Conf!Broken => Conf!Override(tree, p) = Conf!Broken
  BY DEF Conf!Override
<1>3. Sectioned(leaf) /\ Sectioned(section) /\ (Sectioned(tree) => Sectioned(less))
  BY <1>1 DEF Sectioned
<1>4. DOMAIN tree = {} => tree # Conf!Broken
  BY DEF Conf!Broken, Conf!Leaf
<1> HIDE DEF less, leaf, section
<1> QED
  BY <1>2, <1>3, <1>4, SectionedTrees

LEMMA EnvironmentSectioned ==
    ASSUME NEW env \in Conf!Environments \cup Conf!OperatorEnvironments
    PROVE  /\ Conf!EnvOverrides(env) = Conf!Broken \/ Sectioned(Conf!EnvOverrides(env))
           /\ env \in Conf!OperatorEnvironments => Sectioned(Conf!EnvOverrides(env))
<1>1. DOMAIN <<>> = {}
  OBVIOUS
<1>2. \A f \in Conf!Variables \X Conf!Variables :
         f = <<f[1], f[2]>> /\ f[1] \in Conf!Variables /\ f[2] \in Conf!Variables
  OBVIOUS
<1>3. \/ env = <<>>
      \/ \E p \in Conf!Variables \cup {<<"gateway", "allowed">>} : env = <<p>>
      \/ env \notin Conf!OperatorEnvironments /\ \E p, q \in Conf!Variables : env = <<p, q>>
  <2>1. CASE env \in Conf!OperatorEnvironments
    BY <2>1, OperatorVariables
  <2>2. CASE env \in Conf!Environments /\ env \notin Conf!OperatorEnvironments
    <3>1. env \in {<<>>} \cup {<<p>> : p \in Conf!Variables}
             \/ env \in Conf!Variables \X Conf!Variables
      BY <2>2 DEF Conf!Environments
    <3> QED
      BY <1>2, <2>2, <3>1
  <2> QED
    BY <2>1, <2>2
<1>4. CASE env = <<>>
  BY <1>4, NoVariables, SectionedTrees
<1>5. PICK first : first = <<>>
  OBVIOUS
<1>6. ASSUME NEW p \in Conf!Variables \cup {<<"gateway", "allowed">>}
      PROVE  Sectioned(Conf!Override(<<>>, p))
  <2>1. Sectioned(first) /\ DOMAIN first = {}
    BY <1>1, <1>5 DEF Sectioned
  <2>2. Sectioned(Conf!Override(first, p))
    BY <2>1, SectionedOverrides
  <2> QED
    BY <1>5, <2>2
<1>7. CASE \E p \in Conf!Variables \cup {<<"gateway", "allowed">>} : env = <<p>>
  BY <1>6, <1>7, OneVariable
<1>8. CASE env \notin Conf!OperatorEnvironments /\ \E p, q \in Conf!Variables : env = <<p, q>>
  <2>1. PICK p \in Conf!Variables, q \in Conf!Variables : env = <<p, q>>
    BY <1>8
  <2> DEFINE t == Conf!Override(<<>>, p)
  <2>2. Sectioned(t)
    BY <1>6
  <2>3. Conf!EnvOverrides(env) = Conf!Override(t, q)
    BY <2>1, TwoVariables
  <2> HIDE DEF t
  <2>4. Conf!Override(t, q) = Conf!Broken \/ Sectioned(Conf!Override(t, q))
    BY <2>2, SectionedOverrides
  <2> QED
    BY <1>8, <2>3, <2>4
<1> QED
  BY <1>3, <1>4, <1>7, <1>8

LEMMA ResolvedSectioned ==
    ASSUME NEW org, NEW mine, NEW local,
           NEW env \in Conf!Environments \cup Conf!OperatorEnvironments, Sectioned(org), mine = Conf!Broken \/ Sectioned(mine), Sectioned(local)
    PROVE  /\ Conf!Resolve(org, mine, local, env) = Conf!Broken \/ Sectioned(Conf!Resolve(org, mine, local, env))
           /\ env \in Conf!OperatorEnvironments /\ Sectioned(mine) => Sectioned(Conf!Resolve(org, mine, local, env))
<1> DEFINE e == Conf!EnvOverrides(env)
           r == Conf!Merge(Conf!Merge(Conf!Merge(Conf!Merge(Conf!DefaultsFile, org), mine), local), e)
<1>1. Sectioned(mine) /\ Sectioned(e) => Sectioned(r)
  <2> SUFFICES ASSUME Sectioned(mine), Sectioned(e) PROVE Sectioned(r)
    OBVIOUS
  <2> HIDE DEF e
  <2> QED
    BY SectionedTrees
<1>2. /\ e = Conf!Broken \/ Sectioned(e)
      /\ env \in Conf!OperatorEnvironments => Sectioned(e)
  BY EnvironmentSectioned
<1>3. Conf!Resolve(org, mine, local, env) = IF Conf!Broken \in {org, mine, local, e} THEN Conf!Broken ELSE r
  BY DEF Conf!Resolve
<1>4. \A t : Sectioned(t) => t # Conf!Broken
  BY SectionedTrees
<1> HIDE DEF e, r
<1> QED
  BY <1>1, <1>2, <1>3, <1>4

LEMMA SetSectioned ==
    ASSUME NEW t, Sectioned(t), NEW s \in {"verify", "state", "gateway"}, NEW k, NEW v
    PROVE  Sectioned(Conf!Set(t, s, k, v))
<1>1. DOMAIN Conf!Set(t, s, k, v) = DOMAIN t \cup {s}
  BY DEF Conf!Set
<1> QED
  BY <1>1 DEF Sectioned

LEMMA ConfigTyped == ConfigInv => Conf!ConfigTypeOK
<1> SUFFICES ASSUME ConfigInv PROVE Conf!ConfigTypeOK
  OBVIOUS
<1>1. \A env \in Conf!OperatorEnvironments : env \in Conf!Environments \cup Conf!OperatorEnvironments
  OBVIOUS
<1>2. /\ \A t : Sectioned(t) => t # Conf!Broken
      /\ Sectioned(<<>>)
      /\ \A t \in Conf!OrgFiles \cup Conf!LocalFiles : Sectioned(t)
      /\ \A t \in Conf!ProjectFiles : t = Conf!Broken \/ Sectioned(t)
      /\ \A t \in Conf!OperatorFiles : Sectioned(t)
  BY SectionedTrees DEF Conf!OrgFiles, Conf!LocalFiles, Conf!ProjectFiles
<1>3. ASSUME NEW file \in Conf!OperatorFiles, NEW env \in Conf!OperatorEnvironments
      PROVE  Sectioned(Conf!OperatorConfig(file, env))
  <2>1. Sectioned(file) /\ env \in Conf!Environments \cup Conf!OperatorEnvironments
    BY <1>1, <1>2
  <2> QED
    BY <1>2, <2>1, ResolvedSectioned DEF Conf!OperatorConfig
<1>4. ASSUME NEW t, NEW operator, Sectioned(t) PROVE Sectioned(Conf!PinStatePaths(t, operator))
  BY <1>4, SetSectioned DEF Conf!PinStatePaths
<1>5. ASSUME NEW operator, NEW other, Sectioned(operator) PROVE Sectioned(Conf!Effective(operator, other))
  <2>1. Sectioned(Conf!Set(operator, "verify", "command", Conf!Get(other, "verify", "command")))
    BY <1>5, SetSectioned
  <2> QED
    BY <1>4, <1>5, <2>1 DEF Conf!Effective
<1>6. CASE asked = Conf!NoCall /\ config = <<>>
  <2>1. <<>> \in Conf!Environments
    BY DEF Conf!Environments
  <2>2. Sectioned(config)
    BY <1>2, <1>6
  <2> QED
    BY <1>6, <2>1, <2>2 DEF Conf!ConfigTypeOK, Conf!NoCall, Sectioned
<1>7. CASE \E org \in Conf!OrgFiles, mine \in Conf!ProjectFiles, local \in Conf!LocalFiles, env \in Conf!Environments :
          /\ asked = [kind |-> "resolve", layers |-> <<org, mine, local>>, env |-> env]
          /\ config = Conf!Resolve(org, mine, local, env)
  <2>1. PICK org \in Conf!OrgFiles, mine \in Conf!ProjectFiles, local \in Conf!LocalFiles, env \in Conf!Environments :
          /\ asked = [kind |-> "resolve", layers |-> <<org, mine, local>>, env |-> env]
          /\ config = Conf!Resolve(org, mine, local, env)
    BY <1>7
  <2>2. Sectioned(org) /\ Sectioned(local) /\ (mine = Conf!Broken \/ Sectioned(mine))
    BY <1>2
  <2>3. config = Conf!Broken \/ Sectioned(config)
    BY <2>1, <2>2, ResolvedSectioned
  <2> QED
    BY <2>1, <2>3 DEF Conf!ConfigTypeOK, Sectioned
<1>8. CASE \E file \in Conf!OperatorFiles, mine \in Conf!WholeProjects, env \in Conf!OperatorEnvironments :
          /\ asked = [kind |-> "effective", layers |-> <<file, mine>>, env |-> env]
          /\ config = Conf!Effective(Conf!OperatorConfig(file, env), Conf!Resolve(<<>>, mine, <<>>, env))
  <2>1. PICK file \in Conf!OperatorFiles, mine \in Conf!WholeProjects, env \in Conf!OperatorEnvironments :
          /\ asked = [kind |-> "effective", layers |-> <<file, mine>>, env |-> env]
          /\ config = Conf!Effective(Conf!OperatorConfig(file, env), Conf!Resolve(<<>>, mine, <<>>, env))
    BY <1>8
  <2>2. Sectioned(config)
    BY <1>3, <1>5, <2>1
  <2> QED
    BY <1>1, <2>1, <2>2 DEF Conf!ConfigTypeOK, Sectioned
<1>9. CASE \E file \in Conf!OperatorFiles, env \in Conf!OperatorEnvironments :
          /\ asked = [kind |-> "pinned", layers |-> <<file>>, env |-> env]
          /\ config = Conf!PinStatePaths(Conf!OperatorConfig(file, env), Conf!OperatorConfig(file, env))
  <2>1. PICK file \in Conf!OperatorFiles, env \in Conf!OperatorEnvironments :
          /\ asked = [kind |-> "pinned", layers |-> <<file>>, env |-> env]
          /\ config = Conf!PinStatePaths(Conf!OperatorConfig(file, env), Conf!OperatorConfig(file, env))
    BY <1>9
  <2>2. Sectioned(config)
    BY <1>3, <1>4, <2>1
  <2> QED
    BY <1>1, <2>1, <2>2 DEF Conf!ConfigTypeOK, Sectioned
<1> QED
  BY <1>6, <1>7, <1>8, <1>9 DEF ConfigInv

\* Each part's types: the layers.
LEMMA LayersTyped == Spec => [](part = "config" => Conf!ConfigTypeOK)
<1>1. (part = "config" => ConfigInv) => (part = "config" => Conf!ConfigTypeOK)
  BY ConfigTyped
<1> QED
  BY <1>1, ConfigAlways, PTL

-----------------------------------------------------------------------------
(* The health checks *)

Status == {"PASS", "WARN", "FAIL"}

\* The types, and the fields of a run.
DoctorInv ==
    /\ Doc!DoctorTypeOK
    /\ doctor \in [at: {"idle", "check", "done", "raised"}, settings: {"whole", "odd", "broken", None},
                   report: Seq(Status), exit: {0, 1, None}]

LEMMA DoctorBegins == Doc!DoctorInit => DoctorInv
<1>1. <<>> \in Seq(Status) /\ Len(<<>>) = 0
  OBVIOUS
<1> QED
  BY <1>1 DEF Doc!DoctorInit, DoctorInv, Doc!DoctorTypeOK, Doc!Rest, Status

LEMMA DoctorStep ==
    ASSUME DoctorInv, [Doc!DoctorNext]_doctorvars, Doc!DoctorAssumption
    PROVE  DoctorInv'
<1>1. CASE UNCHANGED doctorvars
  BY <1>1 DEF doctorvars, DoctorInv, Doc!DoctorTypeOK
<1>2. ASSUME NEW s \in Status, doctor.at = "check", Len(doctor.report) < 11, Doc!Judge(s), UNCHANGED <<layers, trail>>
      PROVE  DoctorInv'
  <2> DEFINE r == Append(doctor.report, s)
  <2>0. r \in Seq(Status)
    BY DEF DoctorInv
  <2> HIDE DEF r
  <2>1. /\ doctor' \in [at: {"idle", "check", "done", "raised"}, settings: {"whole", "odd", "broken", None},
                        report: Seq(Status), exit: {0, 1, None}]
        /\ doctor'.at = doctor.at /\ doctor'.exit = doctor.exit
        /\ doctor'.report = r
    <3>1. doctor' = [doctor EXCEPT !.report = r]
      BY <1>2 DEF Doc!Judge, r
    <3> QED
      BY <2>0, <3>1 DEF DoctorInv
  <2>2. doctor.report \in Seq(Status) /\ Len(doctor.report) \in Nat
    BY DEF DoctorInv
  <2>3. doctor'.report \in Seq(Status) /\ Len(doctor'.report) = Len(doctor.report) + 1
    BY <2>1, <2>2 DEF r
  <2>4. Len(doctor'.report) <= 11
    BY <1>2, <2>2, <2>3
  <2>5. doctor'.exit \in {0, 1, None} /\ (doctor'.exit # None <=> doctor'.at = "done")
        /\ doctor'.at \in {"idle", "check", "done", "raised"}
    BY <2>1 DEF DoctorInv, Doc!DoctorTypeOK
  <2>6. layers' \in {"whole", "odd", "broken"} /\ trail' \in {"whole", "edited", "torn"}
    BY <1>2 DEF DoctorInv, Doc!DoctorTypeOK
  <2> QED
    BY <2>1, <2>3, <2>4, <2>5, <2>6 DEF DoctorInv, Doc!DoctorTypeOK, Status
<1>3. ASSUME doctor.at = "check", Doc!Raise, UNCHANGED <<layers, trail>> PROVE DoctorInv'
  BY <1>3 DEF DoctorInv, Doc!Raise, Doc!DoctorTypeOK
<1>4. ASSUME Doc!RunDiagnostics PROVE DoctorInv'
  <2>1. <<>> \in Seq(Status) /\ Len(<<>>) = 0
    OBVIOUS
  <2>2. doctor'.report = <<>> /\ doctor'.exit = None /\ doctor'.settings = layers
        /\ doctor'.at \in {"raised", "check"} /\ UNCHANGED <<layers, trail>>
        /\ doctor' = [at |-> doctor'.at, settings |-> layers, report |-> <<>>, exit |-> None]
    BY <1>4 DEF Doc!RunDiagnostics, Doc!Rest
  <2>3. layers \in {"whole", "odd", "broken"} /\ trail \in {"whole", "edited", "torn"}
    BY DEF DoctorInv, Doc!DoctorTypeOK
  <2>4. doctor' \in [at: {"idle", "check", "done", "raised"}, settings: {"whole", "odd", "broken", None},
                     report: Seq(Status), exit: {0, 1, None}]
    BY <2>1, <2>2, <2>3
  <2> QED
    BY <2>1, <2>2, <2>3, <2>4 DEF DoctorInv, Doc!DoctorTypeOK, Status
<1>5. ASSUME Doc!CheckConfigResolve PROVE DoctorInv'
  BY <1>2, <1>5 DEF Doc!CheckConfigResolve, Doc!Number, Status
<1>6. ASSUME Doc!CheckAuditChain PROVE DoctorInv'
  BY <1>2, <1>3, <1>6 DEF Doc!CheckAuditChain, Doc!Number, Status
<1>7. ASSUME Doc!CheckDependencies PROVE DoctorInv'
  <2>1. PICK e \in Doc!Environments : Doc!Judge(Doc!Dependencies(e))
    BY <1>7 DEF Doc!CheckDependencies
  <2>2. Doc!Dependencies(e) \in Status
    BY DEF Doc!Dependencies, Status
  <2> QED
    BY <1>2, <1>7, <2>1, <2>2 DEF Doc!CheckDependencies, Doc!Number
<1>8. ASSUME Doc!OtherCheck PROVE DoctorInv'
  <2>1. ASSUME NEW n \in 1..11, NEW probe, Doc!Simple(n, probe), \A f \in probe : f[2] \in Status
        PROVE  DoctorInv'
    BY <1>2, <1>8, <2>1 DEF Doc!OtherCheck, Doc!Simple, Doc!Number
  <2>2. /\ \A f \in Doc!Ram : f[2] \in Status
        /\ \A f \in Doc!PacksIntegrity : f[2] \in Status
        /\ \A f \in Doc!Ollama : f[2] \in Status
        /\ \A f \in Doc!Qdrant : f[2] \in Status
        /\ \A f \in Doc!PolicyLoad : f[2] \in Status
        /\ \A f \in Doc!Gateway : f[2] \in Status
        /\ \A f \in Doc!DbSchema : f[2] \in Status
        /\ \A f \in Doc!Exposure : f[2] \in Status
    BY DEF Doc!Ram, Doc!PacksIntegrity, Doc!Ollama, Doc!Qdrant, Doc!PolicyLoad, Doc!Gateway,
           Doc!DbSchema, Doc!Exposure, Status
  <2>3. Doc!Raise => DoctorInv'
    BY <1>3, <1>8 DEF Doc!OtherCheck
  <2> QED
    BY <1>8, <2>1, <2>2, <2>3 DEF Doc!OtherCheck, Doc!OfSection
<1>9. ASSUME Doc!DoctorExits PROVE DoctorInv'
  BY <1>9 DEF Doc!DoctorAssumption, Doc!DoctorExits, DoctorInv, Doc!DoctorTypeOK
<1>10. ASSUME Doc!DoctorAgain PROVE DoctorInv'
  <2>1. <<>> \in Seq(Status) /\ Len(<<>>) = 0
    OBVIOUS
  <2> QED
    BY <1>10, <2>1 DEF Doc!DoctorAgain, DoctorInv, Doc!DoctorTypeOK, Doc!Rest, Status
<1>11. ASSUME Doc!EditConfig \/ Doc!AppendRecord PROVE DoctorInv'
  BY <1>11 DEF Doc!EditConfig, Doc!AppendRecord, DoctorInv, Doc!DoctorTypeOK
<1> QED
  BY <1>1, <1>4, <1>5, <1>6, <1>7, <1>8, <1>9, <1>10, <1>11 DEF Doc!DoctorNext

\* Each part's types: the health checks.
LEMMA DoctorTyped == Spec => [](part = "doctor" => Doc!DoctorTypeOK)
<1>1. Init => (part = "doctor" => DoctorInv)
  BY DoctorBegins DEF Init
<1>2. (part = "doctor" => DoctorInv) /\ [Next]_<<part, statevars, answervars>>
         => (part = "doctor" => DoctorInv)'
  <2> SUFFICES ASSUME part = "doctor" => DoctorInv, [Next]_<<part, statevars, answervars>>, (part = "doctor")'
               PROVE  DoctorInv'
    OBVIOUS
  <2>1. part = "doctor"
    BY DEF Next
  <2>2. [Doc!DoctorNext]_doctorvars
    BY <2>1 DEF Next, answervars
  <2> QED
    BY <2>1, <2>2, DoctorStep, PartsAssumption DEF PartsAssumption
<1>3. (part = "doctor" => DoctorInv) => (part = "doctor" => Doc!DoctorTypeOK)
  BY DEF DoctorInv
<1> QED
  BY <1>1, <1>2, <1>3, PTL DEF Spec
=============================================================================
