---------------------------- MODULE GovernedCall ----------------------------
(***************************************************************************)
(* A call of the verb verify_output through the governed boundary, from    *)
(* run_governed (gateway/mcp_guard.py) and guard_tool                      *)
(* (core/policy/tool_pins.py) through the gate (core/verify/gate.py) and   *)
(* each command it runs (shell_exec, core/actions/shell.py) to the verdict *)
(* of the policy (core/policy/engine.py) on that command; beside it        *)
(* pin-tools (write_pins), the operator's edits of the registry and of the *)
(* policy files, and a log that cannot be written at times.                *)
(***************************************************************************)
EXTENDS Integers, Sequences, FiniteSets, SequencesExt

CONSTANTS
    Call,           \* calls of the verb
    None,           \* no entry, no pin, no answer
    Hash,           \* descriptions of the tool, by their hash
    Rules,          \* what a policy file may hold: sequences of rules
    NumFiles,       \* policy files, read in the order of their names
    Configs,        \* configurations of the operator
    MaxEdits        \* bound: edits of the registry and of policy files

Governed == {"tests", "lint", "mutation"}       \* run by shell_exec
Scanner == {"semgrep", "gitleaks"}
Steps == <<"tests", "lint", "semgrep", "gitleaks", "mutation">>
Tool == Range(Steps)

Entry == [enabled: BOOLEAN, pin: Hash \cup {None}]

Rule == [match: SUBSET Governed, effect: {"allow", "deny"}]

ASSUME CallAssumption ==
    /\ NumFiles \in Nat \ {0} /\ MaxEdits \in Nat
    /\ Rules \subseteq Seq(Rule)
    /\ Configs \subseteq [configured: SUBSET Governed, lintBlocks: BOOLEAN,
                          enforce: BOOLEAN, requirePins: BOOLEAN, default: {"allow", "deny"}]
    /\ None \notin Hash \cup Entry
    /\ None \notin {"passed", "blocked", "error", "denied", "unavailable", "result", "warned"}

VARIABLES
    config,         \* the operator's configuration
    registry,       \* the tool's entry in tool_registry.yaml, None if there is none
    live,           \* the description that is served
    pins,           \* pin-tools, while it runs
    policy,         \* the rules of each policy file
    writable,       \* whether the audit log can be written
    log,            \* the records: call, what it is about, phase
    call,           \* each call of the verb
    ran,            \* history: commands that ran, by call
    moments,        \* history: the policy's verdicts, one by one, while a call reads it
    edits           \* history: what the bound counts, and the operator's last word on the switch

operatorvars == <<config, registry, live, pins, policy, edits>>
vars == <<operatorvars, writable, log, call, ran, moments>>

-----------------------------------------------------------------------------
NotRun == [t \in Tool |-> "none"]

NewCall == [at |-> "new", step |-> 1, rules |-> <<>>, files |-> 0,
            results |-> NotRun, outcome |-> None, answer |-> None]

Init ==
    /\ config \in Configs
    /\ live \in Hash
    /\ registry \in {[enabled |-> TRUE, pin |-> p] : p \in Hash \cup {None}}
    /\ pins = [at |-> "idle", entry |-> None]
    /\ policy \in [1..NumFiles -> Rules]
    /\ writable = TRUE
    /\ log = {} /\ ran = {}
    /\ call = [c \in Call |-> NewCall]
    /\ moments = [c \in Call |-> <<>>]
    /\ edits = [count |-> 0, switch |-> TRUE, raced |-> FALSE]

Goto(c, at) == call' = [call EXCEPT ![c].at = at]

\* _safe_audit: whether the record was written.
Record(c, what, phase) == log' = IF writable THEN log \cup {<<c, what, phase>>} ELSE log

-----------------------------------------------------------------------------
(* run_governed *)

\* guard_tool.
Guard ==
    CASE registry = None                                  -> "unregistered"
      [] registry # None /\ ~registry.enabled             -> "disabled"
      [] registry # None /\ registry.enabled /\ registry.pin = None
                                                          -> IF config.requirePins THEN "unpinned" ELSE "ok"
      [] OTHER -> IF registry.pin # live THEN "mismatch" ELSE "ok"

GuardTool(c) ==
    /\ call[c].at = "new"
    /\ Goto(c, CASE Guard = "ok" -> "confine" [] Guard = "mismatch" -> "mismatch" [] OTHER -> "deny")
    /\ UNCHANGED <<operatorvars, writable, log, ran, moments>>

\* The record of a mismatch is written by guard_tool itself, which raises if it
\* cannot be.
RecordMismatch(c) ==
    /\ call[c].at = "mismatch"
    /\ Record(c, "pin", "deny")
    /\ Goto(c, IF writable THEN "deny" ELSE "raised")
    /\ UNCHANGED <<operatorvars, writable, ran, moments>>

Refuse(c, answer) == call' = [call EXCEPT ![c].at = "answered", ![c].answer = answer]

Deny(c) ==
    /\ call[c].at = "deny"
    /\ Record(c, "verb", "deny")
    /\ Refuse(c, "denied")
    /\ UNCHANGED <<operatorvars, writable, ran, moments>>

\* The path arguments are inside the allowed roots, or not.
Confine(c) ==
    /\ call[c].at = "confine"
    /\ \/ Goto(c, "announce") /\ UNCHANGED log
       \/ Refuse(c, "denied") /\ Record(c, "verb", "deny")
    /\ UNCHANGED <<operatorvars, writable, ran, moments>>

\* Fail closed: no record, no run.
Announce(c) ==
    /\ call[c].at = "announce"
    /\ Record(c, "verb", "start")
    /\ IF writable THEN Goto(c, "gate") ELSE Refuse(c, "unavailable")
    /\ UNCHANGED <<operatorvars, writable, ran, moments>>

\* The verb raises: the call goes on to its completion record.
VerbRaises(c) ==
    /\ call[c].at \in {"gate", "policy", "run", "verdict"}
    /\ call' = [call EXCEPT ![c].at = "done", ![c].outcome = "error"]
    /\ UNCHANGED <<operatorvars, writable, log, ran, moments>>

\* The completion record; an answer without it carries a warning.
Complete(c) ==
    /\ call[c].at = "done"
    /\ Record(c, "verb", "done")
    /\ call' = [call EXCEPT ![c].at = "answered",
                            ![c].answer = IF writable THEN "result" ELSE "warned"]
    /\ UNCHANGED <<operatorvars, writable, ran, moments>>

-----------------------------------------------------------------------------
(* The gate and the commands it runs *)

Step(c) == Steps[call[c].step]

\* Mutant: the gate goes on behind its last step.
ResultAndOn(c, r) ==
    call' = [call EXCEPT ![c].results[Step(c)] = r, ![c].rules = <<>>, ![c].files = 0,
                         ![c].at = IF call[c].step = Len(Steps) THEN "verdict" ELSE "gate",
                         ![c].step = @ + 1]

\* The step's result is known; the gate goes on to the next.
Result(c, r) ==
    call' = [call EXCEPT ![c].results[Step(c)] = r, ![c].rules = <<>>, ![c].files = 0,
                         ![c].at = IF call[c].step = Len(Steps) THEN "verdict" ELSE "gate",
                         ![c].step = IF call[c].step = Len(Steps) THEN 1 ELSE @ + 1]

\* A command that is not configured is skipped, and so are mutations of a change
\* whose tests fail.
Skip(c) ==
    /\ call[c].at = "gate" /\ Step(c) \in Governed
    /\ \/ Step(c) \notin config.configured
       \/ Step(c) = "mutation" /\ call[c].results["tests"] \notin {"passed", "skipped"}
    /\ Result(c, "skipped")
    /\ UNCHANGED <<operatorvars, writable, log, ran, moments>>

\* A scanner blocks, or it finds nothing or is not installed, which passes.
Scan(c) ==
    /\ call[c].at = "gate" /\ Step(c) \in Scanner
    /\ \E r \in {"passed", "failed"} : Result(c, r)
    /\ UNCHANGED <<operatorvars, writable, log, ran, moments>>

\* The rules a policy means for a command: of all files in their order, the first
\* that matches decides (docs/ARCHITECTURE.md, Policy engine).
Permits(files, t) ==
    LET At == UNION {{<<f, i>> : i \in {j \in DOMAIN files[f] : t \in files[f][j].match}} :
                     f \in 1..NumFiles} IN
    IF At = {} THEN config.default = "allow"
    ELSE \E p \in At :
            /\ files[p[1]][p[2]].effect = "allow"
            /\ \A q \in At : p[1] < q[1] \/ (p[1] = q[1] /\ p[2] <= q[2])

RunConfigured(c) ==
    /\ call[c].at = "gate" /\ Step(c) \in config.configured
    /\ Step(c) = "mutation" => call[c].results["tests"] \in {"passed", "skipped"}
    /\ Goto(c, IF config.enforce THEN "policy" ELSE "shell")
    /\ moments' = [moments EXCEPT ![c] = IF config.enforce THEN <<Permits(policy, Step(c))>> ELSE <<>>]
    /\ UNCHANGED <<operatorvars, writable, log, ran>>

\* load_policy reads one file after the other.
ReadPolicy(c) ==
    /\ call[c].at = "policy" /\ call[c].files < NumFiles
    /\ call' = [call EXCEPT ![c].files = @ + 1, ![c].rules = @ \o policy[call[c].files + 1]]
    /\ UNCHANGED <<operatorvars, writable, log, ran, moments>>

\* Mutant: the last rule that matches decides.
AllowsLast(rules, t) ==
    LET hits == {i \in DOMAIN rules : t \in rules[i].match} IN
    IF hits = {} THEN config.default = "allow"
    ELSE \E i \in hits : rules[i].effect = "allow" /\ \A j \in hits : j <= i

\* check_policy: the first rule that matches, or the default.
Allows(rules, t) ==
    LET hits == {i \in DOMAIN rules : t \in rules[i].match} IN
    IF hits = {} THEN config.default = "allow"
    ELSE \E i \in hits : rules[i].effect = "allow" /\ \A j \in hits : i <= j

CheckPolicy(c) ==
    /\ call[c].at = "policy" /\ call[c].files = NumFiles
    /\ IF Allows(call[c].rules, Step(c))
       THEN Goto(c, "shell") /\ UNCHANGED log
       ELSE Result(c, "denied") /\ Record(c, Step(c), "deny")
    /\ moments' = [moments EXCEPT ![c] = <<>>]
    /\ UNCHANGED <<operatorvars, writable, ran>>

\* Mutant: the command runs whether or not its record was written.
ShellStartAnyway(c) ==
    /\ call[c].at = "shell"
    /\ Record(c, Step(c), "start")
    /\ Goto(c, "run")
    /\ UNCHANGED <<operatorvars, writable, ran, moments>>

ShellStart(c) ==
    /\ call[c].at = "shell"
    /\ Record(c, Step(c), "start")
    /\ IF writable THEN Goto(c, "run") ELSE Result(c, "unaudited")
    /\ UNCHANGED <<operatorvars, writable, ran, moments>>

\* The command runs, and its end is recorded if it can be.
ShellRun(c) ==
    /\ call[c].at = "run"
    /\ ran' = ran \cup {<<c, Step(c)>>}
    /\ Goto(c, "end")
    /\ UNCHANGED <<operatorvars, writable, log, moments>>

ShellEnd(c) ==
    /\ call[c].at = "end"
    /\ \E r \in {"passed", "failed"} : Result(c, r)
    /\ Record(c, Step(c), "end")
    /\ UNCHANGED <<operatorvars, writable, ran, moments>>

\* Mutant: a command that was stopped looks like one that is not configured.
BlockedByResults(r) ==
    \/ r["tests"] \notin {"passed", "skipped"}
    \/ config.lintBlocks /\ r["lint"] \notin {"passed", "skipped"}
    \/ \E t \in Scanner : r[t] = "failed"
    \/ r["mutation"] = "failed"

\* verify_output's blocking failures.
Blocked(r) ==
    \/ r["tests"] \notin {"passed", "skipped"}
    \/ config.lintBlocks /\ r["lint"] \notin {"passed", "skipped"}
    \/ \E t \in Scanner : r[t] = "failed"
    \/ r["mutation"] = "failed"
    \/ \E t \in Governed : r[t] \in {"denied", "unaudited"}

\* The verdict; the failure ledger is told of it (FailureLedger).
VerifyOutput(c) ==
    /\ call[c].at = "verdict"
    /\ call' = [call EXCEPT ![c].at = "done",
                            ![c].outcome = IF Blocked(call[c].results) THEN "blocked" ELSE "passed"]
    /\ UNCHANGED <<operatorvars, writable, log, ran, moments>>

-----------------------------------------------------------------------------
(* pin-tools, the operator, the log, the process *)

pinvars == <<config, live, policy, writable, log, call, ran, moments>>

\* write_pins reads the registry and puts the live hash into each entry.
PinRead ==
    /\ pins.at = "idle" /\ edits.count < MaxEdits
    /\ pins' = [at |-> "read",
                entry |-> IF registry = None THEN None ELSE [registry EXCEPT !.pin = live]]
    /\ edits' = [edits EXCEPT !.count = @ + 1]
    /\ UNCHANGED <<registry, pinvars>>

\* write_text empties the file before it writes it.
PinOpen ==
    /\ pins.at = "read"
    /\ pins' = [pins EXCEPT !.at = "open"]
    /\ registry' = None
    /\ UNCHANGED <<edits, pinvars>>

\* Mutant: the entry is rebuilt and takes its default.
PinWriteEnables ==
    /\ pins.at = "open"
    /\ registry' = IF pins.entry = None THEN None ELSE [pins.entry EXCEPT !.enabled = TRUE]
    /\ pins' = [at |-> "idle", entry |-> None]
    /\ UNCHANGED <<edits, pinvars>>

PinWrite ==
    /\ pins.at = "open"
    /\ registry' = pins.entry
    /\ pins' = [at |-> "idle", entry |-> None]
    /\ UNCHANGED <<edits, pinvars>>

\* The operator flips the kill switch.
FlipSwitch ==
    /\ registry # None /\ edits.count < MaxEdits
    /\ registry' = [registry EXCEPT !.enabled = ~@]
    /\ edits' = [count |-> edits.count + 1, switch |-> ~registry.enabled,
                 raced |-> edits.raced \/ pins.at # "idle"]
    /\ UNCHANGED <<pins, pinvars>>

\* The server comes to serve another description.
ChangeDescription ==
    /\ edits.count < MaxEdits
    /\ \E h \in Hash \ {live} : live' = h
    /\ edits' = [edits EXCEPT !.count = @ + 1]
    /\ UNCHANGED <<config, registry, pins, policy, writable, log, call, ran, moments>>

\* The operator changes one policy file.
EditPolicy ==
    /\ edits.count < MaxEdits
    /\ \E f \in 1..NumFiles : \E r \in Rules \ {policy[f]} :
          LET new == [policy EXCEPT ![f] = r] IN
          /\ policy' = new
          /\ moments' = [c \in Call |->
                IF call[c].at = "policy" THEN Append(moments[c], Permits(new, Step(c)))
                ELSE moments[c]]
    /\ edits' = [edits EXCEPT !.count = @ + 1]
    /\ UNCHANGED <<config, registry, live, pins, writable, log, call, ran>>

LogFails ==
    /\ writable' = ~writable
    /\ UNCHANGED <<operatorvars, log, call, ran, moments>>

\* The gateway dies with every call in it.
Die ==
    /\ \E c \in Call : call[c].at \notin {"new", "answered", "raised", "died"}
    /\ call' = [c \in Call |->
          IF call[c].at \in {"new", "answered", "raised"} THEN call[c]
          ELSE [call[c] EXCEPT !.at = "died"]]
    /\ UNCHANGED <<operatorvars, writable, log, ran, moments>>

-----------------------------------------------------------------------------
CallStep(c) ==
    \/ GuardTool(c) \/ RecordMismatch(c) \/ Deny(c) \/ Confine(c) \/ Announce(c)
    \/ Skip(c) \/ Scan(c) \/ RunConfigured(c) \/ ReadPolicy(c) \/ CheckPolicy(c)
    \/ ShellStart(c) \/ ShellRun(c) \/ ShellEnd(c) \/ VerifyOutput(c)
    \/ VerbRaises(c) \/ Complete(c)

Next ==
    \/ \E c \in Call : CallStep(c)
    \/ PinRead \/ PinOpen \/ PinWrite
    \/ FlipSwitch \/ ChangeDescription \/ EditPolicy \/ LogFails \/ Die

Spec == Init /\ [][Next]_vars

-----------------------------------------------------------------------------
(* Properties *)

TypeOK ==
    /\ config \in Configs /\ registry \in Entry \cup {None} /\ live \in Hash
    /\ pins \in [at: {"idle", "read", "open"}, entry: Entry \cup {None}]
    /\ policy \in [1..NumFiles -> Rules] /\ writable \in BOOLEAN
    /\ log \subseteq Call \X (Tool \cup {"verb", "pin"}) \X {"start", "end", "done", "deny"}
    /\ ran \subseteq Call \X Governed
    /\ edits \in [count: 0..MaxEdits, switch: BOOLEAN, raced: BOOLEAN]
    /\ moments \in [Call -> Seq(BOOLEAN)]
    /\ call \in [Call ->
          [at: {"new", "mismatch", "deny", "confine", "announce", "gate", "policy", "shell",
                "run", "end", "verdict", "done", "answered", "raised", "died"},
           step: 1..Len(Steps), rules: Seq(Rule), files: 0..NumFiles,
           results: [Tool -> {"none", "skipped", "passed", "failed", "denied", "unaudited"}],
           outcome: {None, "passed", "blocked", "error"},
           answer: {None, "denied", "unavailable", "result", "warned"}]]

\* Whatever becomes of the log and of the call, a command that ran was announced,
\* and so was the call it ran in (mcp_guard.py:8, shell.py:4-5).  The answer tells
\* the caller what became of the records: a result without a warning has both of
\* its own, and a refused or failed call ran nothing.
NothingUnrecorded ==
    \A c \in Call :
        /\ \A t \in Governed :
              <<c, t>> \in ran => {<<c, "verb", "start">>, <<c, t, "start">>} \subseteq log
        /\ call[c].answer = "result" =>
              {<<c, "verb", "start">>, <<c, "verb", "done">>} \subseteq log
        /\ call[c].answer \in {"denied", "unavailable"} \/ call[c].at = "raised" =>
              \A t \in Governed : <<c, t>> \notin ran

\* gate.py:76: a change passes only if every command that is configured ran and,
\* but for a lint that does not block, passed; a command that the policy or the
\* log stopped is never taken for one that is not configured.
PassMeansRun ==
    \A c \in Call : call[c].outcome = "passed" =>
        \A t \in config.configured :
            /\ <<c, t>> \in ran
            /\ t # "lint" \/ config.lintBlocks => call[c].results[t] = "passed"

\* Policy files are read one after the other. With one edit at most while they
\* are, the verdict is the one the policy had at some moment of the reading.
VerdictOfAMoment ==
    \A c \in Call :
        call[c].at = "policy" /\ call[c].files = NumFiles /\ Len(moments[c]) <= 2 =>
            Allows(call[c].rules, Step(c)) \in Range(moments[c])

\* tool_pins.py:66, "pinning never registers or enables anything": the switch is
\* where the operator left it, unless it was flipped while pin-tools ran.
SwitchHolds ==
    registry # None /\ ~edits.raced => registry.enabled = edits.switch
=============================================================================
