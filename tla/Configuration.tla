--------------------------- MODULE Configuration ----------------------------
(***************************************************************************)
(* Configuration in layers: core/config/resolve.py, and the configuration  *)
(* a governed call runs on: operator_config, effective_config and          *)
(* pinned_config of gateway/mcp_guard.py.  Each call is one step that      *)
(* changes nothing; the question is who decided what it answers.           *)
(*                                                                         *)
(* A tree maps keys to trees, and a leaf holds a set: a scalar is the set  *)
(* of the layer it is from, a list the set of what it lists.  Two levels   *)
(* and a few keys stand for all of them.                                   *)
(***************************************************************************)
EXTENDS Integers, Sequences, FiniteSetsExt, SequencesExt

VARIABLES
    asked,          \* the layers of the last call, and what kind of call it was
    config          \* what it answered, or Broken

configvars == <<asked, config>>

Leaf(v) == [value |-> v]
IsLeaf(t) == DOMAIN t = {"value"}

\* A file that is no mapping, or an environment that cannot be one: raises.
Broken == Leaf({})

\* The layers in their order, and the file of the gateway's operator.
Defaults == 0  Org == 1  Project == 2  Local == 3  Env == 4  OperatorFile == 5

NoCall == [kind |-> "none", layers |-> <<>>, env |-> <<>>]

ConfigInit == asked = NoCall /\ config = <<>>

-----------------------------------------------------------------------------
(* core/config/resolve.py *)

\* Leaves over leaves: the later one wins.
Overlay(base, over) ==
    [k \in DOMAIN base \cup DOMAIN over |-> IF k \in DOMAIN over THEN over[k] ELSE base[k]]

\* _deep_merge: what is a section in both is merged in its turn.  In trees of two
\* levels a section holds leaves.  (Mutant: Overlay, where a section takes the
\* place of the one before.)
Merge(base, over) ==
    [k \in DOMAIN base \cup DOMAIN over |->
        IF k \notin DOMAIN over THEN base[k]
        ELSE IF k \in DOMAIN base /\ ~IsLeaf(base[k]) /\ ~IsLeaf(over[k])
             THEN Overlay(base[k], over[k])
        ELSE over[k]]

\* A variable holds one string.  Where a list is wanted, that string is all there is,
\* and "in" it is whatever it contains (mcp_guard.py): here an operator's command,
\* and in it one of the project's.
AsString(path) == IF path[1] = "gateway" THEN {Env, Project} ELSE {Env}

\* _env_overrides: variables one after the other, each a path; one that leads
\* through a scalar raises.
Override(tree, path) ==
    LET s == path[1] IN
    IF tree = Broken THEN Broken
    ELSE IF Len(path) = 1 THEN Merge([k \in DOMAIN tree \ {s} |-> tree[k]], [k \in {s} |-> Leaf({Env})])
    ELSE IF s \in DOMAIN tree /\ IsLeaf(tree[s]) THEN Broken
    ELSE Merge(tree, [k \in {s} |-> [j \in {path[2]} |-> Leaf(AsString(path))]])

EnvOverrides(variables) ==
    LET Made[n \in 0..Len(variables)] ==
            IF n = 0 THEN <<>> ELSE Override(Made[n - 1], variables[n]) IN
    Made[Len(variables)]

DefaultsFile == [verify |-> [command |-> Leaf({Defaults}), limit |-> Leaf({Defaults})],
                 state |-> [path |-> Leaf({Defaults})],
                 gateway |-> [allowed |-> Leaf({})]]

\* resolve_config: files that are absent are empty trees.
Resolve(org, project, local, variables) ==
    LET env == EnvOverrides(variables) IN
    IF Broken \in {org, project, local, env} THEN Broken
    ELSE Merge(Merge(Merge(Merge(DefaultsFile, org), project), local), env)

-----------------------------------------------------------------------------
(* gateway/mcp_guard.py *)

Get(tree, s, k) ==
    IF s \in DOMAIN tree /\ ~IsLeaf(tree[s]) /\ k \in DOMAIN tree[s] THEN tree[s][k].value ELSE {}

\* _set: a scalar in the way gives way.
Set(tree, s, k, v) ==
    LET section == IF s \in DOMAIN tree /\ ~IsLeaf(tree[s]) THEN tree[s] ELSE <<>> IN
    [j \in DOMAIN tree \cup {s} |-> IF j = s THEN Merge(section, [i \in {k} |-> Leaf(v)]) ELSE tree[j]]

\* Its file is in the place of the organization's, and there is no other.
OperatorConfig(file, variables) == Resolve(file, <<>>, <<>>, variables)

\* The path of a state file is the operator's, or the default one.
PinStatePaths(tree, operator) ==
    Set(tree, "state", "path",
        IF Get(operator, "state", "path") = {} THEN {Defaults} ELSE Get(operator, "state", "path"))

\* Mutant: the project says what is approved.
ApprovedByProject(operator, project) ==
    /\ Get(project, "verify", "command") # {}
    /\ Get(project, "verify", "command") \subseteq Get(project, "gateway", "allowed")

\* A command of the project that the operator's list holds, or that the operator's
\* string contains.
Approved(operator, project) ==
    /\ Get(project, "verify", "command") # {}
    /\ Get(project, "verify", "command") \subseteq Get(operator, "gateway", "allowed")

Effective(operator, project) ==
    PinStatePaths(IF Approved(operator, project)
                  THEN Set(operator, "verify", "command", Get(project, "verify", "command"))
                  ELSE operator, operator)

-----------------------------------------------------------------------------
(* Calls *)

Sections(l, s, keys) ==
    {<<>>, [j \in {s} |-> Leaf({l})]} \cup
    {[j \in {s} |-> [k \in ks |-> Leaf({l})]] : ks \in SUBSET keys}

Verify(l) == Sections(l, "verify", {"command", "limit"})
OrgFiles == Verify(Org)
ProjectFiles == Verify(Project) \cup {Broken}
LocalFiles == Verify(Local)

Full(verify, states, lists) == {Merge(Merge(f[1], f[2]), f[3]) : f \in verify \X states \X lists}
List(v) == [gateway |-> [allowed |-> Leaf(v)]]
OperatorFiles == Full(Sections(OperatorFile, "verify", {"command"}), Sections(OperatorFile, "state", {"path"}),
                      {<<>>, List({OperatorFile}), List({Project, Env})})
WholeProjects == Full(Verify(Project), {<<>>, [state |-> [path |-> Leaf({Project})]]},
                      {<<>>, List({Project})})

Variables == {<<"verify">>, <<"verify", "command">>, <<"verify", "limit">>}
Environments == {<<>>} \cup {<<p>> : p \in Variables}
                \cup {e \in Variables \X Variables : e[1] # e[2]}

\* The variables of a gateway: its operator's list may be one of them.
OperatorEnvironments == {e \in Environments : Len(e) < 2} \cup {<< <<"gateway", "allowed">> >>}

ResolveConfig ==
    \E org \in OrgFiles, project \in ProjectFiles, local \in LocalFiles, env \in Environments :
        /\ asked = NoCall
        /\ asked' = [kind |-> "resolve", layers |-> <<org, project, local>>, env |-> env]
        /\ config' = Resolve(org, project, local, env)

\* The project's files are read at the root it names.
EffectiveConfig ==
    \E file \in OperatorFiles, project \in WholeProjects, env \in OperatorEnvironments :
        /\ asked = NoCall
        /\ asked' = [kind |-> "effective", layers |-> <<file, project>>, env |-> env]
        /\ config' = Effective(OperatorConfig(file, env), Resolve(<<>>, project, <<>>, env))

\* What the routes of the dashboard read: of no project.
PinnedConfig ==
    \E file \in OperatorFiles, env \in OperatorEnvironments :
        /\ asked = NoCall
        /\ asked' = [kind |-> "pinned", layers |-> <<file>>, env |-> env]
        /\ config' = PinStatePaths(OperatorConfig(file, env), OperatorConfig(file, env))

NextCall == asked # NoCall /\ asked' = NoCall /\ config' = <<>>

ConfigNext == ResolveConfig \/ EffectiveConfig \/ PinnedConfig \/ NextCall

ConfigSpec == ConfigInit /\ [][ConfigNext]_configvars

-----------------------------------------------------------------------------
(* Properties *)

ConfigTypeOK ==
    /\ asked.kind \in {"none", "resolve", "effective", "pinned"}
    /\ asked.env \in Environments \cup OperatorEnvironments
    /\ config = Broken \/ \A s \in DOMAIN config : s \in {"verify", "state", "gateway"}

\* resolve.py:4, "later wins": said without merging, the value at a path is that of
\* the last layer that names it, unless a later one has a scalar in the place of
\* its section; a section is a scalar if the last layer to name it says so; and a
\* value of the environment beats every file's, whatever order its variables
\* have, if they resolve at all.
LaterLayerWins ==
    asked.kind = "resolve" /\ config # Broken =>
        LET all == <<DefaultsFile>> \o asked.layers \o <<EnvOverrides(asked.env)>>
            Naming == {i \in DOMAIN all : "verify" \in DOMAIN all[i]}
            Scalars == {i \in Naming : IsLeaf(all[i].verify)}
            Holding(k) == {i \in Naming \ Scalars : /\ k \in DOMAIN all[i].verify
                                                    /\ \A j \in Scalars : j < i} IN
        IF Max(Naming) \in Scalars THEN config.verify = all[Max(Naming)].verify
        ELSE /\ \A k \in {"command", "limit"} :
                   Get(config, "verify", k) =
                       IF Holding(k) = {} THEN {} ELSE all[Max(Holding(k))].verify[k].value
             /\ \A k \in {"command", "limit"} :
                   <<"verify", k>> \in ToSet(asked.env) /\ <<"verify">> \notin ToSet(asked.env)
                       => Get(config, "verify", k) = {Env}

\* mcp_guard.py:12-20, "a project may contribute exactly two things": what a
\* governed call runs on is the operator's at every path, but for a verify command
\* that the operator's own list has, or that its string contains, whatever the
\* project's files say, a list of their own included; the state files are never
\* theirs.
OperatorDecides ==
    asked.kind \in {"effective", "pinned"} =>
        LET operator == OperatorConfig(asked.layers[1], asked.env) IN
        /\ Get(config, "gateway", "allowed") = Get(operator, "gateway", "allowed")
        /\ Get(config, "verify", "limit") = Get(operator, "verify", "limit")
        /\ Get(config, "state", "path") \notin {{}, {Project}}
        /\ Get(config, "verify", "command") # Get(operator, "verify", "command") =>
              /\ asked.kind = "effective"
              /\ Get(config, "verify", "command") \subseteq Get(operator, "gateway", "allowed")
=============================================================================
