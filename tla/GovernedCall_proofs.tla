------------------------ MODULE GovernedCall_proofs ------------------------
(***************************************************************************)
(* Proofs about GovernedCall, for any number of calls, policy files, rules *)
(* and configurations.                                                     *)
(***************************************************************************)
EXTENDS GovernedCall, TLAPS

-----------------------------------------------------------------------------
(* The steps of the gate, and what a step does to the state of a call. *)

At == {"new", "mismatch", "deny", "confine", "announce", "gate", "policy", "shell",
       "run", "end", "verdict", "done", "answered", "raised", "died"}

ResultOf == {"none", "skipped", "passed", "failed", "denied", "unaudited"}

CallState ==
    [at: At, step: 1..Len(Steps), rules: Seq(Rule), files: 0..NumFiles,
     results: [Tool -> ResultOf], outcome: {None, "passed", "blocked", "error"},
     answer: {None, "denied", "unavailable", "result", "warned"}]

\* The five steps are different, and they are the tools.
LEMMA StepsAreTools ==
    /\ Len(Steps) = 5
    /\ Steps[1] = "tests" /\ Steps[2] = "lint" /\ Steps[3] = "semgrep"
    /\ Steps[4] = "gitleaks" /\ Steps[5] = "mutation"
    /\ Tool = {"tests", "lint", "semgrep", "gitleaks", "mutation"}
<1>1. Steps = [i \in 1..5 |-> Steps[i]] /\ DOMAIN Steps = 1..5 /\ Len(Steps) = 5
  BY DEF Steps
<1>2. /\ Steps[1] = "tests" /\ Steps[2] = "lint" /\ Steps[3] = "semgrep"
      /\ Steps[4] = "gitleaks" /\ Steps[5] = "mutation"
  BY DEF Steps
<1>3. Tool = {Steps[1], Steps[2], Steps[3], Steps[4], Steps[5]}
  <2>1. 1..5 = {1, 2, 3, 4, 5}
    OBVIOUS
  <2> QED BY <1>1, <2>1 DEF Tool, Range
<1> QED BY <1>1, <1>2, <1>3

\* The call at a step is at one of the tools.
LEMMA StepIsTool ==
    ASSUME TypeOK, NEW c \in Call
    PROVE  /\ call[c].step \in 1..5
           /\ Step(c) \in Tool
           /\ \A i \in 1..5 : Steps[i] = Step(c) => i = call[c].step
<1>1. call[c].step \in 1..5
  BY StepsAreTools DEF TypeOK
<1>2. call[c].step \in {1, 2, 3, 4, 5}
  BY <1>1
<1> QED BY <1>1, <1>2, StepsAreTools DEF Step

\* The other calls are as they were.
Others(c) ==
    /\ call' \in [Call -> CallState]
    /\ \A d \in Call : d # c => call'[d] = call[d]

\* A step of one call gives it another state.
LEMMA OneMoves ==
    ASSUME call \in [Call -> CallState], NEW c \in Call, NEW k \in CallState,
           call' = [call EXCEPT ![c] = k]
    PROVE  Others(c) /\ call'[c] = k
BY DEF Others

\* A call that goes on keeps all it has.
LEMMA GotoMoves ==
    ASSUME TypeOK, NEW c \in Call, NEW at \in At, Goto(c, at)
    PROVE  /\ Others(c)
           /\ call'[c].at = at
           /\ call'[c].step = call[c].step
           /\ call'[c].rules = call[c].rules
           /\ call'[c].files = call[c].files
           /\ call'[c].results = call[c].results
           /\ call'[c].outcome = call[c].outcome
           /\ call'[c].answer = call[c].answer
<1>1. call \in [Call -> CallState]
  BY DEF TypeOK, CallState, At, ResultOf
<1>2. PICK w \in CallState : w = call[c]
  BY <1>1
<1>3. PICK k : k = [w EXCEPT !.at = at]
  OBVIOUS
<1>4. /\ k \in CallState /\ k.at = at /\ k.step = w.step /\ k.rules = w.rules
      /\ k.files = w.files /\ k.results = w.results /\ k.outcome = w.outcome
      /\ k.answer = w.answer
  BY <1>3 DEF CallState
<1>5. call' = [call EXCEPT ![c] = k]
  BY <1>2, <1>3 DEF Goto
<1> QED BY <1>1, <1>2, <1>4, <1>5, OneMoves

\* A call that is refused is over.
LEMMA RefuseMoves ==
    ASSUME TypeOK, NEW c \in Call, NEW a \in {"denied", "unavailable"}, Refuse(c, a)
    PROVE  /\ Others(c)
           /\ call'[c].at = "answered" /\ call'[c].answer = a
           /\ call'[c].step = call[c].step
           /\ call'[c].results = call[c].results
           /\ call'[c].outcome = call[c].outcome
<1>1. call \in [Call -> CallState]
  BY DEF TypeOK, CallState, At, ResultOf
<1>2. "answered" \in At /\ a \in {None, "denied", "unavailable", "result", "warned"}
  BY DEF At
<1>3. call' = [call EXCEPT ![c].at = "answered", ![c].answer = a]
  BY DEF Refuse
<1>4. PICK w \in CallState : w = call[c]
  BY <1>1
<1>5. PICK k : k = [w EXCEPT !.at = "answered", !.answer = a]
  OBVIOUS
<1>6. /\ k \in CallState /\ k.at = "answered" /\ k.answer = a /\ k.step = w.step
      /\ k.results = w.results /\ k.outcome = w.outcome
  BY <1>2, <1>5 DEF CallState
<1>7. call' = [call EXCEPT ![c] = k]
  BY <1>1, <1>3, <1>4, <1>5
<1> QED BY <1>1, <1>4, <1>6, <1>7, OneMoves

\* The result of a step is one result more, and the gate is at the next step or
\* at its verdict.
LEMMA ResultMoves ==
    ASSUME TypeOK, NEW c \in Call, NEW r \in ResultOf, Result(c, r)
    PROVE  /\ Others(c)
           /\ call'[c].results = [call[c].results EXCEPT ![Step(c)] = r]
           /\ call'[c].outcome = call[c].outcome
           /\ call'[c].answer = call[c].answer
           /\ call'[c].rules = <<>> /\ call'[c].files = 0
           /\ \/ call[c].step = 5 /\ call'[c].at = "verdict" /\ call'[c].step = 1
              \/ /\ call[c].step \in 1..4 /\ call'[c].at = "gate"
                 /\ call'[c].step = call[c].step + 1
<1>1. call \in [Call -> CallState]
  BY DEF TypeOK, CallState, At, ResultOf
<1> DEFINE at == IF call[c].step = 5 THEN "verdict" ELSE "gate"
           step == IF call[c].step = 5 THEN 1 ELSE call[c].step + 1
           results == [call[c].results EXCEPT ![Step(c)] = r]
<1>2. /\ call[c].step \in 1..5 /\ at \in At /\ step \in 1..Len(Steps)
      /\ results \in [Tool -> ResultOf]
  BY <1>1, StepIsTool, StepsAreTools DEF At, CallState
<1>3. <<>> \in Seq(Rule) /\ 0 \in 0..NumFiles
  BY CallAssumption
<1>4. call' = [call EXCEPT ![c].results[Step(c)] = r, ![c].rules = <<>>, ![c].files = 0,
                           ![c].at = at,
                           ![c].step = IF call[c].step = 5 THEN 1 ELSE @ + 1]
  BY StepsAreTools DEF Result
<1> DEFINE k == [call[c] EXCEPT !.results = results, !.rules = <<>>, !.files = 0,
                                !.at = at, !.step = step]
<1>5. call' = [call EXCEPT ![c] = k]
  <2>1. DOMAIN call' = Call /\ \A d \in Call : d # c => call'[d] = call[d]
    BY <1>1, <1>4
  <2>2. call'[c] = k
    BY <1>1, <1>4, Zenon DEF CallState
  <2> QED BY <1>1, <2>1, <2>2, <1>4
<1> HIDE DEF at, step, results
<1>6. /\ Others(c) /\ call'[c].results = results /\ call'[c].at = at
      /\ call'[c].step = step /\ call'[c].outcome = call[c].outcome
      /\ call'[c].answer = call[c].answer
      /\ call'[c].rules = <<>> /\ call'[c].files = 0
  BY <1>1, <1>2, <1>3, <1>5 DEF Others, CallState
<1> QED BY <1>2, <1>6 DEF at, step, results

\* One more file is read.
LEMMA ReadMoves ==
    ASSUME TypeOK, NEW c \in Call, ReadPolicy(c)
    PROVE  /\ call[c].files + 1 \in 1..NumFiles /\ policy[call[c].files + 1] \in Seq(Rule)
           /\ Others(c)
           /\ call'[c].at = "policy" /\ call'[c].step = call[c].step
           /\ call'[c].files = call[c].files + 1
           /\ call'[c].rules = call[c].rules \o policy[call[c].files + 1]
           /\ call'[c].results = call[c].results
           /\ call'[c].outcome = call[c].outcome
           /\ call'[c].answer = call[c].answer
<1> DEFINE files == call[c].files + 1
           rules == call[c].rules \o policy[call[c].files + 1]
<1>0. call \in [Call -> CallState]
  BY DEF TypeOK, CallState, At, ResultOf
<1>1. files \in 1..NumFiles /\ policy[files] \in Seq(Rule)
  <2>1. call[c].files \in 0..NumFiles /\ call[c].files < NumFiles /\ NumFiles \in Nat
    BY <1>0, CallAssumption DEF ReadPolicy, CallState
  <2>2. files \in 1..NumFiles
    BY <2>1
  <2>3. policy[files] \in Rules
    BY <2>2 DEF TypeOK
  <2> QED BY <2>2, <2>3, CallAssumption
<1>2. rules \in Seq(Rule) /\ files \in 0..NumFiles
  BY <1>0, <1>1, CallAssumption DEF CallState
<1>3. call' = [call EXCEPT ![c].files = files, ![c].rules = rules] /\ call[c].at = "policy"
  BY <1>0 DEF ReadPolicy, CallState
<1>4. policy[files] \in Seq(Rule) /\ files = call[c].files + 1
      /\ rules = call[c].rules \o policy[call[c].files + 1]
  BY <1>1
<1> HIDE DEF files, rules
<1>5. /\ Others(c) /\ call'[c].at = "policy" /\ call'[c].step = call[c].step
      /\ call'[c].files = files /\ call'[c].rules = rules
      /\ call'[c].results = call[c].results /\ call'[c].outcome = call[c].outcome
      /\ call'[c].answer = call[c].answer
  <2>1. PICK w \in CallState : w = call[c]
    BY <1>0
  <2>2. PICK k : k = [w EXCEPT !.files = files, !.rules = rules]
    OBVIOUS
  <2>3. /\ k \in CallState /\ k.at = w.at /\ k.step = w.step /\ k.files = files
        /\ k.rules = rules /\ k.results = w.results /\ k.outcome = w.outcome
        /\ k.answer = w.answer
    BY <1>2, <2>2 DEF CallState
  <2>4. call' = [call EXCEPT ![c] = k]
    BY <1>0, <1>3, <2>1, <2>2
  <2> QED BY <1>0, <1>3, <2>1, <2>3, <2>4, OneMoves
<1> QED BY <1>1, <1>4, <1>5

\* The verdict on the results.
LEMMA VerdictMoves ==
    ASSUME TypeOK, NEW c \in Call, VerifyOutput(c)
    PROVE  /\ Others(c)
           /\ call'[c].at = "done" /\ call'[c].step = call[c].step
           /\ call'[c].results = call[c].results
           /\ call'[c].outcome = IF Blocked(call[c].results) THEN "blocked" ELSE "passed"
           /\ call'[c].answer = call[c].answer
<1> DEFINE o == IF Blocked(call[c].results) THEN "blocked" ELSE "passed"
<1>0. call \in [Call -> CallState]
  BY DEF TypeOK, CallState, At, ResultOf
<1>1. o \in {None, "passed", "blocked", "error"} /\ "done" \in At
  BY DEF At
<1>2. call' = [call EXCEPT ![c].at = "done", ![c].outcome = o]
  BY DEF VerifyOutput
<1> HIDE DEF o
<1>3. /\ Others(c) /\ call'[c].at = "done" /\ call'[c].step = call[c].step
      /\ call'[c].results = call[c].results /\ call'[c].outcome = o
      /\ call'[c].answer = call[c].answer
  <2>1. PICK w \in CallState : w = call[c]
    BY <1>0
  <2>2. PICK k : k = [w EXCEPT !.at = "done", !.outcome = o]
    OBVIOUS
  <2>3. /\ k \in CallState /\ k.at = "done" /\ k.outcome = o /\ k.step = w.step
        /\ k.results = w.results /\ k.answer = w.answer
    BY <1>1, <2>2 DEF CallState
  <2>4. call' = [call EXCEPT ![c] = k]
    BY <1>0, <1>2, <2>1, <2>2
  <2> QED BY <1>0, <2>1, <2>3, <2>4, OneMoves
<1> QED BY <1>3 DEF o

LEMMA RaiseMoves ==
    ASSUME TypeOK, NEW c \in Call, VerbRaises(c)
    PROVE  /\ Others(c)
           /\ call'[c].at = "done" /\ call'[c].outcome = "error"
           /\ call'[c].step = call[c].step /\ call'[c].results = call[c].results
           /\ call'[c].answer = call[c].answer
<1>0. call \in [Call -> CallState]
  BY DEF TypeOK, CallState, At, ResultOf
<1>1. /\ call' = [call EXCEPT ![c].at = "done", ![c].outcome = "error"]
      /\ "done" \in At /\ "error" \in {None, "passed", "blocked", "error"}
  BY DEF VerbRaises, At
<1>2. PICK w \in CallState : w = call[c]
  BY <1>0
<1>3. PICK k : k = [w EXCEPT !.at = "done", !.outcome = "error"]
  OBVIOUS
<1>4. /\ k \in CallState /\ k.at = "done" /\ k.outcome = "error" /\ k.step = w.step
      /\ k.results = w.results /\ k.answer = w.answer
  BY <1>1, <1>3 DEF CallState
<1>5. call' = [call EXCEPT ![c] = k]
  BY <1>0, <1>1, <1>2, <1>3
<1> QED BY <1>0, <1>2, <1>4, <1>5, OneMoves

LEMMA CompleteMoves ==
    ASSUME TypeOK, NEW c \in Call, Complete(c)
    PROVE  /\ Others(c)
           /\ call'[c].at = "answered"
           /\ call'[c].answer = IF writable THEN "result" ELSE "warned"
           /\ call'[c].step = call[c].step /\ call'[c].results = call[c].results
           /\ call'[c].outcome = call[c].outcome
<1> DEFINE a == IF writable THEN "result" ELSE "warned"
<1>0. call \in [Call -> CallState]
  BY DEF TypeOK, CallState, At, ResultOf
<1>1. a \in {None, "denied", "unavailable", "result", "warned"} /\ "answered" \in At
  BY DEF At
<1>2. call' = [call EXCEPT ![c].at = "answered", ![c].answer = a]
  BY DEF Complete
<1> HIDE DEF a
<1>3. /\ Others(c) /\ call'[c].at = "answered" /\ call'[c].answer = a
      /\ call'[c].step = call[c].step /\ call'[c].results = call[c].results
      /\ call'[c].outcome = call[c].outcome
  <2>1. PICK w \in CallState : w = call[c]
    BY <1>0
  <2>2. PICK k : k = [w EXCEPT !.at = "answered", !.answer = a]
    OBVIOUS
  <2>3. /\ k \in CallState /\ k.at = "answered" /\ k.answer = a /\ k.step = w.step
        /\ k.results = w.results /\ k.outcome = w.outcome
    BY <1>1, <2>2 DEF CallState
  <2>4. call' = [call EXCEPT ![c] = k]
    BY <1>0, <1>2, <2>1, <2>2
  <2> QED BY <1>0, <2>1, <2>3, <2>4, OneMoves
<1> QED BY <1>3 DEF a

-----------------------------------------------------------------------------
(* Types *)

\* Only a command that is configured comes before the policy and the shell.
GateRuns ==
    \A c \in Call : call[c].at \in {"policy", "shell", "run", "end"} =>
        Step(c) \in config.configured

TypeInv == TypeOK /\ GateRuns

LEMMA CallsTyped == TypeOK <=>
    /\ config \in Configs /\ registry \in Entry \cup {None} /\ live \in Hash
    /\ pins \in [at: {"idle", "read", "open"}, entry: Entry \cup {None}]
    /\ policy \in [1..NumFiles -> Rules] /\ writable \in BOOLEAN
    /\ log \subseteq Call \X (Tool \cup {"verb", "pin"}) \X {"start", "end", "done", "deny"}
    /\ ran \subseteq Call \X Governed
    /\ edits \in [count: 0..MaxEdits, switch: BOOLEAN, raced: BOOLEAN]
    /\ moments \in [Call -> Seq(BOOLEAN)]
    /\ call \in [Call -> CallState]
BY DEF TypeOK, CallState, At, ResultOf

\* What can be configured can be run.
LEMMA ConfiguredIsGoverned == TypeOK => config.configured \subseteq Governed
BY CallAssumption DEF TypeOK

LEMMA RecordTyped ==
    ASSUME TypeOK, NEW c \in Call, NEW what \in Tool \cup {"verb", "pin"},
           NEW phase \in {"start", "end", "done", "deny"}, Record(c, what, phase)
    PROVE  /\ log' \subseteq Call \X (Tool \cup {"verb", "pin"}) \X {"start", "end", "done", "deny"}
           /\ log \subseteq log'
           /\ writable => <<c, what, phase>> \in log'
BY DEF Record, TypeOK

LEMMA PermitsTyped == \A files, t : Permits(files, t) \in BOOLEAN
BY DEF Permits

LEMMA SequencesTyped ==
    ASSUME NEW S, NEW x \in S, NEW s \in Seq(S)
    PROVE  <<x>> \in Seq(S) /\ <<>> \in Seq(S) /\ Append(s, x) \in Seq(S)
OBVIOUS

\* One edit more.
LEMMA EditCounted ==
    ASSUME TypeOK, edits.count < MaxEdits
    PROVE  [edits EXCEPT !.count = @ + 1] \in [count: 0..MaxEdits, switch: BOOLEAN, raced: BOOLEAN]
<1> DEFINE n == edits.count + 1
<1>1. edits \in [count: 0..MaxEdits, switch: BOOLEAN, raced: BOOLEAN]
  BY DEF TypeOK
<1>2. n \in 0..MaxEdits
  BY <1>1, CallAssumption
<1> HIDE DEF n
<1>3. [edits EXCEPT !.count = n] \in [count: 0..MaxEdits, switch: BOOLEAN, raced: BOOLEAN]
  BY <1>1, <1>2
<1> QED BY <1>3 DEF n

LEMMA TypeInit == Init => TypeInv
<1> SUFFICES ASSUME Init PROVE TypeInv
  OBVIOUS
<1>1. NewCall \in CallState /\ NewCall.at = "new"
  BY StepsAreTools, CallAssumption DEF NewCall, CallState, At, NotRun, ResultOf
<1>2. call = [c \in Call |-> NewCall]
  BY DEF Init
<1>3. registry \in Entry \cup {None}
  <2>1. PICK p \in Hash \cup {None} : registry = [enabled |-> TRUE, pin |-> p]
    BY DEF Init
  <2> QED BY <2>1 DEF Entry
<1>4. edits \in [count: 0..MaxEdits, switch: BOOLEAN, raced: BOOLEAN]
  BY CallAssumption DEF Init
<1>5. pins \in [at: {"idle", "read", "open"}, entry: Entry \cup {None}]
  BY DEF Init
<1>6. /\ config \in Configs /\ live \in Hash /\ policy \in [1..NumFiles -> Rules]
      /\ writable \in BOOLEAN /\ log = {} /\ ran = {} /\ moments \in [Call -> Seq(BOOLEAN)]
  BY DEF Init
<1>7. TypeOK
  BY <1>1, <1>2, <1>3, <1>4, <1>5, <1>6, CallsTyped
<1> QED BY <1>1, <1>2, <1>7 DEF TypeInv, GateRuns

\* A step of a call whose effects on the call are known keeps the types.
LEMMA CallStepTyped ==
    ASSUME TypeInv, NEW c \in Call, Others(c), UNCHANGED <<operatorvars, writable>>,
           call'[c].at \in {"policy", "shell", "run", "end"} =>
               call'[c].step = call[c].step /\ Step(c) \in config.configured,
           log' \subseteq Call \X (Tool \cup {"verb", "pin"}) \X {"start", "end", "done", "deny"},
           ran' \subseteq Call \X Governed,
           moments' \in [Call -> Seq(BOOLEAN)]
    PROVE  TypeInv'
<1>1. TypeOK'
  BY DEF TypeInv, TypeOK, CallState, At, ResultOf, operatorvars, Others
<1>2. ASSUME NEW d \in Call, call'[d].at \in {"policy", "shell", "run", "end"}
      PROVE  Step(d)' \in config'.configured
  <2>1. CASE d = c
    BY <1>2, <2>1 DEF Step, operatorvars
  <2>2. CASE d # c
    BY <1>2, <2>2 DEF Others, TypeInv, GateRuns, Step, operatorvars
  <2> QED BY <2>1, <2>2
<1> QED BY <1>1, <1>2 DEF TypeInv, GateRuns

\* What the operator, pin-tools and the log do leaves the calls alone.
LEMMA CallsUntouchedTyped ==
    ASSUME TypeInv, UNCHANGED <<config, call, ran, log>>, TypeOK'
    PROVE  TypeInv'
BY DEF TypeInv, GateRuns, Step

LEMMA TypeStep == TypeInv /\ [Next]_vars => TypeInv'
<1> SUFFICES ASSUME TypeInv, [Next]_vars PROVE TypeInv'
  OBVIOUS
<1> USE DEF TypeInv
<1>1. ASSUME NEW c \in Call, CallStep(c) PROVE TypeInv'
  <2> USE StepIsTool, ConfiguredIsGoverned, CallStepTyped
  <2> DEFINE Same == UNCHANGED <<operatorvars, writable>>
             Still == log' = log /\ ran' = ran /\ moments' = moments
             SameLog == ran' = ran /\ moments' = moments
  <2>0. /\ log \subseteq Call \X (Tool \cup {"verb", "pin"}) \X {"start", "end", "done", "deny"}
        /\ ran \subseteq Call \X Governed /\ moments \in [Call -> Seq(BOOLEAN)]
        /\ call \in [Call -> CallState] /\ writable \in BOOLEAN
    BY CallsTyped
  <2>1. CASE GuardTool(c)
    <3> DEFINE at == CASE Guard = "ok" -> "confine" [] Guard = "mismatch" -> "mismatch"
                       [] OTHER -> "deny"
    <3>1. at \in {"confine", "mismatch", "deny"} /\ at \in At
      BY DEF At
    <3>2. Goto(c, at)
      BY <2>1 DEF GuardTool
    <3> HIDE DEF at
    <3>3. Others(c) /\ call'[c].at \in {"confine", "mismatch", "deny"}
      BY <3>1, <3>2, GotoMoves
    <3> QED BY <2>0, <2>1, <3>3 DEF GuardTool
  <2>2. CASE RecordMismatch(c)
    <3> DEFINE at == IF writable THEN "deny" ELSE "raised"
    <3>1. at \in {"deny", "raised"} /\ at \in At
      BY DEF At
    <3>2. Goto(c, at) /\ Record(c, "pin", "deny")
      BY <2>2 DEF RecordMismatch
    <3> HIDE DEF at
    <3>3. Others(c) /\ call'[c].at \in {"deny", "raised"}
      BY <3>1, <3>2, GotoMoves
    <3> QED BY <2>0, <2>2, <3>2, <3>3, RecordTyped DEF RecordMismatch
  <2>3. CASE Deny(c)
    BY <2>0, <2>3, RefuseMoves, RecordTyped DEF Deny
  <2>4. CASE Confine(c)
    <3>1. CASE Goto(c, "announce") /\ UNCHANGED log
      BY <2>0, <2>4, <3>1, GotoMoves DEF Confine, At
    <3>2. CASE Refuse(c, "denied") /\ Record(c, "verb", "deny")
      BY <2>0, <2>4, <3>2, RefuseMoves, RecordTyped DEF Confine
    <3> QED BY <2>4, <3>1, <3>2 DEF Confine
  <2>5. CASE Announce(c)
    <3>1. Record(c, "verb", "start")
      BY <2>5 DEF Announce
    <3>2. CASE writable
      BY <2>0, <2>5, <3>1, <3>2, GotoMoves, RecordTyped DEF Announce, At
    <3>3. CASE ~writable
      BY <2>0, <2>5, <3>1, <3>3, RefuseMoves, RecordTyped DEF Announce
    <3> QED BY <3>2, <3>3
  <2>6. CASE Skip(c)
    BY <2>0, <2>6, ResultMoves DEF Skip, ResultOf
  <2>7. CASE Scan(c)
    <3>1. PICK r \in {"passed", "failed"} : Result(c, r)
      BY <2>7 DEF Scan
    <3> QED BY <2>0, <2>7, <3>1, ResultMoves DEF Scan, ResultOf
  <2>8. CASE RunConfigured(c)
    <3> DEFINE at == IF config.enforce THEN "policy" ELSE "shell"
    <3>1. at \in {"policy", "shell"} /\ at \in At
      BY DEF At
    <3>2. Goto(c, at) /\ Step(c) \in config.configured
      BY <2>8 DEF RunConfigured
    <3> HIDE DEF at
    <3>3. Others(c) /\ call'[c].step = call[c].step
      BY <3>1, <3>2, GotoMoves
    <3>4. moments' \in [Call -> Seq(BOOLEAN)]
      <4> DEFINE m == IF config.enforce THEN <<Permits(policy, Step(c))>> ELSE <<>>
      <4>1. m \in Seq(BOOLEAN)
        <5>1. Permits(policy, Step(c)) \in BOOLEAN
          BY PermitsTyped
        <5> QED BY <2>0, <5>1, SequencesTyped
      <4>2. moments' = [moments EXCEPT ![c] = m]
        BY <2>8 DEF RunConfigured
      <4> HIDE DEF m
      <4> QED BY <2>0, <4>1, <4>2
    <3> QED BY <2>0, <2>8, <3>2, <3>3, <3>4 DEF RunConfigured
  <2>9. CASE ReadPolicy(c)
    BY <2>0, <2>9, ReadMoves DEF ReadPolicy, GateRuns
  <2>10. CASE CheckPolicy(c)
    <3>1. moments' \in [Call -> Seq(BOOLEAN)]
      BY <2>0, <2>10 DEF CheckPolicy
    <3>2. CASE Goto(c, "shell") /\ UNCHANGED log
      BY <2>0, <2>10, <3>1, <3>2, GotoMoves DEF CheckPolicy, At, GateRuns
    <3>3. CASE Result(c, "denied") /\ Record(c, Step(c), "deny")
      BY <2>0, <2>10, <3>1, <3>3, ResultMoves, RecordTyped DEF CheckPolicy, ResultOf
    <3> QED BY <2>10, <3>2, <3>3 DEF CheckPolicy
  <2>11. CASE ShellStart(c)
    <3>1. Record(c, Step(c), "start")
      BY <2>11 DEF ShellStart
    <3>2. CASE writable
      BY <2>0, <2>11, <3>1, <3>2, GotoMoves, RecordTyped DEF ShellStart, At, GateRuns
    <3>3. CASE ~writable
      BY <2>0, <2>11, <3>1, <3>3, ResultMoves, RecordTyped DEF ShellStart, ResultOf
    <3> QED BY <3>2, <3>3
  <2>12. CASE ShellRun(c)
    <3>1. Step(c) \in config.configured /\ Step(c) \in Governed
      BY <2>12 DEF ShellRun, GateRuns
    <3> QED BY <2>0, <2>12, <3>1, GotoMoves DEF ShellRun, At
  <2>13. CASE ShellEnd(c)
    <3>1. PICK r \in {"passed", "failed"} : Result(c, r)
      BY <2>13 DEF ShellEnd
    <3> QED BY <2>0, <2>13, <3>1, ResultMoves, RecordTyped DEF ShellEnd, ResultOf
  <2>14. CASE VerifyOutput(c)
    BY <2>0, <2>14, VerdictMoves DEF VerifyOutput
  <2>15. CASE VerbRaises(c)
    BY <2>0, <2>15, RaiseMoves DEF VerbRaises
  <2>16. CASE Complete(c)
    BY <2>0, <2>16, CompleteMoves, RecordTyped DEF Complete
  <2> QED BY <1>1, <2>1, <2>2, <2>3, <2>4, <2>5, <2>6, <2>7, <2>8, <2>9, <2>10,
             <2>11, <2>12, <2>13, <2>14, <2>15, <2>16 DEF CallStep
<1>2. CASE PinRead
  <2>1. pins' \in [at: {"idle", "read", "open"}, entry: Entry \cup {None}]
    BY <1>2 DEF PinRead, TypeOK, Entry
  <2>2. edits' \in [count: 0..MaxEdits, switch: BOOLEAN, raced: BOOLEAN]
    BY <1>2, EditCounted DEF PinRead
  <2>3. TypeOK'
    BY <1>2, <2>1, <2>2 DEF PinRead, pinvars, TypeOK
  <2> QED BY <1>2, <2>3, CallsUntouchedTyped DEF PinRead, pinvars
<1>3. CASE PinOpen
  <2>1. pins' \in [at: {"idle", "read", "open"}, entry: Entry \cup {None}]
    BY <1>3 DEF PinOpen, TypeOK
  <2>2. TypeOK'
    BY <1>3, <2>1 DEF PinOpen, pinvars, TypeOK
  <2> QED BY <1>3, <2>2, CallsUntouchedTyped DEF PinOpen, pinvars
<1>4. CASE PinWrite
  <2>1. registry' \in Entry \cup {None}
        /\ pins' \in [at: {"idle", "read", "open"}, entry: Entry \cup {None}]
    BY <1>4 DEF PinWrite, TypeOK
  <2>2. TypeOK'
    BY <1>4, <2>1 DEF PinWrite, pinvars, TypeOK
  <2> QED BY <1>4, <2>2, CallsUntouchedTyped DEF PinWrite, pinvars
<1>5. CASE FlipSwitch
  <2>1. registry \in Entry
    BY <1>5 DEF FlipSwitch, TypeOK
  <2>2. registry' \in Entry
    BY <1>5, <2>1 DEF FlipSwitch, Entry
  <2>3. edits' \in [count: 0..MaxEdits, switch: BOOLEAN, raced: BOOLEAN]
    BY <1>5, <2>1, CallAssumption DEF FlipSwitch, TypeOK, Entry
  <2>4. TypeOK'
    BY <1>5, <2>2, <2>3 DEF FlipSwitch, pinvars, TypeOK
  <2> QED BY <1>5, <2>4, CallsUntouchedTyped DEF FlipSwitch, pinvars
<1>6. CASE ChangeDescription
  <2>1. edits' \in [count: 0..MaxEdits, switch: BOOLEAN, raced: BOOLEAN]
    BY <1>6, EditCounted DEF ChangeDescription
  <2>2. TypeOK'
    BY <1>6, <2>1 DEF ChangeDescription, TypeOK
  <2> QED BY <1>6, <2>2, CallsUntouchedTyped DEF ChangeDescription
<1>7. CASE EditPolicy
  <2>1. edits' \in [count: 0..MaxEdits, switch: BOOLEAN, raced: BOOLEAN]
    BY <1>7, EditCounted DEF EditPolicy
  <2>2. PICK f \in 1..NumFiles, r \in Rules :
           LET new == [policy EXCEPT ![f] = r] IN
           /\ policy' = new
           /\ moments' = [d \in Call |->
                 IF call[d].at = "policy" THEN Append(moments[d], Permits(new, Step(d)))
                 ELSE moments[d]]
    BY <1>7 DEF EditPolicy
  <2>3. policy' \in [1..NumFiles -> Rules]
    BY <2>2 DEF TypeOK
  <2>4. moments' \in [Call -> Seq(BOOLEAN)]
    <3> DEFINE new == [policy EXCEPT ![f] = r]
    <3>1. ASSUME NEW d \in Call PROVE Append(moments[d], Permits(new, Step(d))) \in Seq(BOOLEAN)
      <4>1. Permits(new, Step(d)) \in BOOLEAN /\ moments[d] \in Seq(BOOLEAN)
        BY PermitsTyped DEF TypeOK
      <4> QED BY <4>1, SequencesTyped
    <3> QED BY <2>2, <3>1 DEF TypeOK
  <2>5. TypeOK'
    BY <1>7, <2>1, <2>3, <2>4 DEF EditPolicy, TypeOK
  <2> QED BY <1>7, <2>5, CallsUntouchedTyped DEF EditPolicy
<1>8. CASE LogFails
  <2>1. TypeOK'
    BY <1>8 DEF LogFails, TypeOK, operatorvars
  <2> QED BY <1>8, <2>1, CallsUntouchedTyped DEF LogFails, operatorvars
<1>9. CASE Die
  <2>1. call' \in [Call -> CallState]
    <3>1. \A c \in Call : [call[c] EXCEPT !.at = "died"] \in CallState
      <4>1. call \in [Call -> CallState] /\ "died" \in At
        BY CallsTyped DEF At
      <4> QED BY <4>1 DEF CallState
    <3> QED BY <1>9, <3>1, CallsTyped DEF Die
  <2>2. TypeOK'
    BY <1>9, <2>1 DEF Die, TypeOK, operatorvars, CallState, At, ResultOf
  <2>3. \A c \in Call : call'[c].at \in {"policy", "shell", "run", "end"} => FALSE
    BY <1>9, CallsTyped DEF Die, CallState, At
  <2> QED BY <2>2, <2>3 DEF GateRuns
<1>10. CASE UNCHANGED vars
  BY <1>10 DEF vars, operatorvars, TypeOK, GateRuns, Step
<1> QED BY <1>1, <1>2, <1>3, <1>4, <1>5, <1>6, <1>7, <1>8, <1>9, <1>10 DEF Next

\* Every variable has its type in every state, and only a command that is
\* configured comes before the policy and the shell (gate.py, shell.py).
THEOREM TypeCorrect == Spec => [](TypeOK /\ GateRuns)
<1>1. Spec => []TypeInv
  BY TypeInit, TypeStep, PTL DEF Spec
<1> QED BY <1>1, PTL DEF TypeInv

-----------------------------------------------------------------------------
(* Records *)

\* A call that has been let in, and one that has not.
Inside == {"gate", "policy", "shell", "run", "end", "verdict", "done"}
Outside == {"new", "mismatch", "deny", "confine", "announce", "raised"}

RecordsOf(c) ==
    /\ \A t \in Governed :
          <<c, t>> \in ran => {<<c, "verb", "start">>, <<c, t, "start">>} \subseteq log
    /\ call[c].at \in Inside => <<c, "verb", "start">> \in log
    /\ call[c].at = "run" => <<c, Step(c), "start">> \in log
    /\ call[c].at \in Outside \/ call[c].answer \in {"denied", "unavailable"} =>
          \A t \in Governed : <<c, t>> \notin ran
    /\ call[c].answer # None => call[c].at = "answered"
    /\ call[c].answer = "result" =>
          {<<c, "verb", "start">>, <<c, "verb", "done">>} \subseteq log

RecordInv == \A c \in Call : RecordsOf(c)

\* A call that moves leaves the records of the others alone.
LEMMA OthersRecorded ==
    ASSUME RecordInv, NEW c \in Call, Others(c), log \subseteq log', RecordsOf(c)',
           \A d \in Call : d # c => \A t \in Governed : <<d, t>> \in ran' => <<d, t>> \in ran
    PROVE  RecordInv'
<1> SUFFICES ASSUME NEW d \in Call PROVE RecordsOf(d)'
  BY DEF RecordInv
<1>1. CASE d = c
  BY <1>1
<1>2. CASE d # c
  <2>1. call'[d] = call[d] /\ RecordsOf(d) /\ Step(d)' = Step(d)
    BY <1>2 DEF Others, RecordInv, Step
  <2> QED BY <1>2, <2>1 DEF RecordsOf
<1> QED BY <1>1, <1>2

LEMMA RecordInit == Init => RecordInv
BY CallAssumption DEF Init, RecordInv, RecordsOf, NewCall, Outside, Inside

LEMMA RecordStep == TypeInv /\ RecordInv /\ [Next]_vars => RecordInv'
<1> SUFFICES ASSUME TypeInv, RecordInv, [Next]_vars PROVE RecordInv'
  OBVIOUS
<1> USE DEF TypeInv
<1>1. ASSUME NEW c \in Call, CallStep(c) PROVE RecordInv'
  <2>0. RecordsOf(c) /\ call[c] \in CallState /\ writable \in BOOLEAN
    BY CallsTyped DEF RecordInv
  <2>a. Step(c) \in Tool
    BY StepIsTool
  <2>1. CASE GuardTool(c)
    <3> DEFINE at == CASE Guard = "ok" -> "confine" [] Guard = "mismatch" -> "mismatch"
                       [] OTHER -> "deny"
    <3>1. at \in {"confine", "mismatch", "deny"} /\ at \in At
      BY DEF At
    <3>2. Goto(c, at) /\ call[c].at = "new" /\ log' = log /\ ran' = ran
      BY <2>1 DEF GuardTool
    <3> HIDE DEF at
    <3>3. Others(c) /\ call'[c].at \in {"confine", "mismatch", "deny"}
          /\ call'[c].answer = call[c].answer
      BY <3>1, <3>2, GotoMoves
    <3>4. RecordsOf(c)'
      BY <2>0, <3>2, <3>3 DEF RecordsOf, Inside, Outside
    <3> QED BY <3>2, <3>3, <3>4, OthersRecorded
  <2>2. CASE RecordMismatch(c)
    <3> DEFINE at == IF writable THEN "deny" ELSE "raised"
    <3>1. at \in {"deny", "raised"} /\ at \in At
      BY DEF At
    <3>2. Goto(c, at) /\ Record(c, "pin", "deny") /\ call[c].at = "mismatch" /\ ran' = ran
      BY <2>2 DEF RecordMismatch
    <3> HIDE DEF at
    <3>3. Others(c) /\ call'[c].at \in {"deny", "raised"} /\ call'[c].answer = call[c].answer
      BY <3>1, <3>2, GotoMoves
    <3>4. log \subseteq log'
      BY <3>2, RecordTyped
    <3>5. RecordsOf(c)'
      BY <2>0, <3>2, <3>3, <3>4 DEF RecordsOf, Inside, Outside
    <3> QED BY <3>2, <3>3, <3>4, <3>5, OthersRecorded
  <2>3. CASE Deny(c)
    <3>1. log \subseteq log' /\ ran' = ran /\ call[c].at = "deny"
      BY <2>3, RecordTyped DEF Deny
    <3>2. Others(c) /\ call'[c].at = "answered" /\ call'[c].answer = "denied"
      BY <2>3, RefuseMoves DEF Deny
    <3>3. RecordsOf(c)'
      BY <2>0, <3>1, <3>2, CallAssumption DEF RecordsOf, Inside, Outside
    <3> QED BY <3>1, <3>2, <3>3, OthersRecorded
  <2>4. CASE Confine(c)
    <3>1. CASE Goto(c, "announce") /\ UNCHANGED log
      <4>1. ran' = ran /\ call[c].at = "confine" /\ "announce" \in At
        BY <2>4 DEF Confine, At
      <4>2. Others(c) /\ call'[c].at = "announce" /\ call'[c].answer = call[c].answer
        BY <3>1, <4>1, GotoMoves
      <4>3. RecordsOf(c)'
        BY <2>0, <3>1, <4>1, <4>2 DEF RecordsOf, Inside, Outside
      <4> QED BY <3>1, <4>1, <4>2, <4>3, OthersRecorded
    <3>2. CASE Refuse(c, "denied") /\ Record(c, "verb", "deny")
      <4>1. log \subseteq log' /\ ran' = ran /\ call[c].at = "confine"
        BY <2>4, <3>2, RecordTyped DEF Confine
      <4>2. Others(c) /\ call'[c].at = "answered" /\ call'[c].answer = "denied"
        BY <3>2, RefuseMoves
      <4>3. RecordsOf(c)'
        BY <2>0, <4>1, <4>2, CallAssumption DEF RecordsOf, Inside, Outside
      <4> QED BY <4>1, <4>2, <4>3, OthersRecorded
    <3> QED BY <2>4, <3>1, <3>2 DEF Confine
  <2>5. CASE Announce(c)
    <3>1. /\ Record(c, "verb", "start") /\ ran' = ran /\ call[c].at = "announce"
          /\ log \subseteq log'
          /\ writable => <<c, "verb", "start">> \in log'
      BY <2>5, RecordTyped DEF Announce
    <3>2. CASE writable
      <4>1. Others(c) /\ call'[c].at = "gate" /\ call'[c].answer = call[c].answer
        BY <2>5, <3>2, GotoMoves DEF Announce, At
      <4>a. <<c, "verb", "start">> \in log'
        BY <3>1, <3>2, Zenon
      <4>2. RecordsOf(c)'
        BY <2>0, <3>1, <4>1, <4>a DEF RecordsOf, Inside, Outside
      <4> QED BY <3>1, <4>1, <4>2, OthersRecorded
    <3>3. CASE ~writable
      <4>1. Others(c) /\ call'[c].at = "answered" /\ call'[c].answer = "unavailable"
        BY <2>5, <3>3, RefuseMoves DEF Announce
      <4>2. RecordsOf(c)'
        BY <2>0, <3>1, <4>1, CallAssumption DEF RecordsOf, Inside, Outside
      <4> QED BY <3>1, <4>1, <4>2, OthersRecorded
    <3> QED BY <3>2, <3>3
  <2>b. ASSUME NEW r \in ResultOf, Result(c, r), call[c].at \in Inside, ran' = ran,
               log \subseteq log'
        PROVE  RecordInv'
    <3>1. /\ Others(c) /\ call'[c].at \in {"gate", "verdict"}
          /\ call'[c].answer = call[c].answer
      BY <2>b, ResultMoves
    <3>2. RecordsOf(c)'
      BY <2>0, <2>b, <3>1 DEF RecordsOf, Inside, Outside
    <3> QED BY <2>b, <3>1, <3>2, OthersRecorded
  <2>6. CASE Skip(c)
    BY <2>6, <2>b DEF Skip, ResultOf, Inside
  <2>7. CASE Scan(c)
    <3>1. PICK r \in {"passed", "failed"} : Result(c, r)
      BY <2>7 DEF Scan
    <3> QED BY <2>7, <2>b, <3>1 DEF Scan, ResultOf, Inside
  <2>8. CASE RunConfigured(c)
    <3> DEFINE at == IF config.enforce THEN "policy" ELSE "shell"
    <3>1. at \in {"policy", "shell"} /\ at \in At
      BY DEF At
    <3>2. Goto(c, at) /\ call[c].at = "gate" /\ log' = log /\ ran' = ran
      BY <2>8 DEF RunConfigured
    <3> HIDE DEF at
    <3>3. Others(c) /\ call'[c].at \in {"policy", "shell"} /\ call'[c].answer = call[c].answer
      BY <3>1, <3>2, GotoMoves
    <3>4. RecordsOf(c)'
      BY <2>0, <3>2, <3>3 DEF RecordsOf, Inside, Outside
    <3> QED BY <3>2, <3>3, <3>4, OthersRecorded
  <2>9. CASE ReadPolicy(c)
    <3>1. /\ call[c].at = "policy" /\ log' = log /\ ran' = ran
          /\ Others(c) /\ call'[c].at = "policy" /\ call'[c].answer = call[c].answer
      BY <2>9, ReadMoves DEF ReadPolicy
    <3>2. RecordsOf(c)'
      BY <2>0, <3>1 DEF RecordsOf, Inside, Outside
    <3> QED BY <3>1, <3>2, OthersRecorded
  <2>10. CASE CheckPolicy(c)
    <3>1. CASE Goto(c, "shell") /\ UNCHANGED log
      <4>1. ran' = ran /\ call[c].at = "policy" /\ "shell" \in At
        BY <2>10 DEF CheckPolicy, At
      <4>2. Others(c) /\ call'[c].at = "shell" /\ call'[c].answer = call[c].answer
        BY <3>1, <4>1, GotoMoves
      <4>3. RecordsOf(c)'
        BY <2>0, <3>1, <4>1, <4>2 DEF RecordsOf, Inside, Outside
      <4> QED BY <3>1, <4>1, <4>2, <4>3, OthersRecorded
    <3>2. CASE Result(c, "denied") /\ Record(c, Step(c), "deny")
      BY <2>10, <2>a, <2>b, <3>2, RecordTyped DEF CheckPolicy, ResultOf, Inside
    <3> QED BY <2>10, <3>1, <3>2 DEF CheckPolicy
  <2>11. CASE ShellStart(c)
    <3>1. /\ Record(c, Step(c), "start") /\ ran' = ran /\ call[c].at = "shell"
          /\ log \subseteq log'
          /\ writable => <<c, Step(c), "start">> \in log'
      BY <2>11, <2>a, RecordTyped DEF ShellStart
    <3>2. CASE writable
      <4>1. /\ Others(c) /\ call'[c].at = "run" /\ call'[c].answer = call[c].answer
            /\ call'[c].step = call[c].step
        BY <2>11, <3>2, GotoMoves DEF ShellStart, At
      <4>a. <<c, Step(c), "start">> \in log'
        BY <3>1, <3>2, Zenon
      <4>2. RecordsOf(c)'
        BY <2>0, <3>1, <4>1, <4>a DEF Step, RecordsOf, Inside, Outside
      <4> QED BY <3>1, <4>1, <4>2, OthersRecorded
    <3>3. CASE ~writable
      <4>1. Result(c, "unaudited")
        BY <2>11, <3>3, Zenon DEF ShellStart
      <4> QED BY <2>b, <3>1, <4>1 DEF ShellStart, ResultOf, Inside
    <3> QED BY <3>2, <3>3
  <2>12. CASE ShellRun(c)
    <3>1. /\ call[c].at = "run" /\ ran' = ran \cup {<<c, Step(c)>>} /\ log' = log
          /\ Others(c) /\ call'[c].at = "end" /\ call'[c].answer = call[c].answer
      BY <2>12, GotoMoves DEF ShellRun, At
    <3>a. \A t \in Governed : <<c, t>> \in ran' => <<c, t>> \in ran \/ t = Step(c)
      BY <3>1
    <3>b. {<<c, "verb", "start">>, <<c, Step(c), "start">>} \subseteq log
      BY <2>0, <3>1 DEF RecordsOf, Inside
    <3>c. \A t \in Governed :
             <<c, t>> \in ran' => {<<c, "verb", "start">>, <<c, t, "start">>} \subseteq log'
      BY <2>0, <3>1, <3>a, <3>b DEF RecordsOf
    <3>d. call[c].answer = None
      BY <2>0, <3>1 DEF RecordsOf
    <3>2. RecordsOf(c)'
      BY <3>1, <3>b, <3>c, <3>d, CallAssumption DEF RecordsOf, Inside, Outside
    <3>3. \A d \in Call : d # c => \A t \in Governed : <<d, t>> \in ran' => <<d, t>> \in ran
      BY <3>1
    <3>4. Others(c) /\ log \subseteq log'
      BY <3>1
    <3> QED BY <3>2, <3>3, <3>4, OthersRecorded
  <2>13. CASE ShellEnd(c)
    <3>1. PICK r \in {"passed", "failed"} : Result(c, r)
      BY <2>13 DEF ShellEnd
    <3>2. Record(c, Step(c), "end")
      BY <2>13 DEF ShellEnd
    <3>3. log \subseteq log'
      BY <2>a, <3>2, RecordTyped
    <3> QED BY <2>13, <2>b, <3>1, <3>3 DEF ShellEnd, ResultOf, Inside
  <2>14. CASE VerifyOutput(c)
    <3>1. /\ call[c].at = "verdict" /\ log' = log /\ ran' = ran
          /\ Others(c) /\ call'[c].at = "done" /\ call'[c].answer = call[c].answer
      BY <2>14, VerdictMoves DEF VerifyOutput
    <3>2. RecordsOf(c)'
      BY <2>0, <3>1 DEF RecordsOf, Inside, Outside
    <3> QED BY <3>1, <3>2, OthersRecorded
  <2>15. CASE VerbRaises(c)
    <3>1. /\ call[c].at \in {"gate", "policy", "run", "verdict"} /\ log' = log /\ ran' = ran
          /\ Others(c) /\ call'[c].at = "done" /\ call'[c].answer = call[c].answer
      BY <2>15, RaiseMoves DEF VerbRaises
    <3>2. RecordsOf(c)'
      BY <2>0, <3>1 DEF RecordsOf, Inside, Outside
    <3> QED BY <3>1, <3>2, OthersRecorded
  <2>16. CASE Complete(c)
    <3>1. /\ call[c].at = "done" /\ ran' = ran /\ log \subseteq log'
          /\ writable => <<c, "verb", "done">> \in log'
      BY <2>16, RecordTyped DEF Complete
    <3>2. /\ Others(c) /\ call'[c].at = "answered"
          /\ call'[c].answer = IF writable THEN "result" ELSE "warned"
      BY <2>16, CompleteMoves
    <3>3. RecordsOf(c)'
      BY <2>0, <3>1, <3>2 DEF RecordsOf, Inside, Outside
    <3> QED BY <3>1, <3>2, <3>3, OthersRecorded
  <2> QED BY <1>1, <2>1, <2>2, <2>3, <2>4, <2>5, <2>6, <2>7, <2>8, <2>9, <2>10,
             <2>11, <2>12, <2>13, <2>14, <2>15, <2>16 DEF CallStep
<1>2. CASE Die
  <2>1. /\ log' = log /\ ran' = ran
        /\ \A c \in Call : \/ call'[c] = call[c]
                          \/ /\ call[c].at \notin {"new", "answered", "raised"}
                             /\ call'[c].at = "died" /\ call'[c].answer = call[c].answer
    BY <1>2, CallsTyped DEF Die, CallState
  <2>2. ASSUME NEW c \in Call PROVE RecordsOf(c)'
    <3>1. RecordsOf(c)
      BY DEF RecordInv
    <3> QED BY <2>1, <3>1 DEF RecordsOf, Inside, Outside, Step
  <2> QED BY <2>2 DEF RecordInv
<1>3. CASE UNCHANGED <<log, ran, call>>
  BY <1>3 DEF RecordInv, RecordsOf, Step
<1> QED BY <1>1, <1>2, <1>3 DEF Next, PinRead, PinOpen, PinWrite, FlipSwitch, pinvars,
           ChangeDescription, EditPolicy, LogFails, vars

\* Whatever becomes of the log and of the call, a command that ran was announced and
\* so was its call, and an answer without a warning has both its records
\* (mcp_guard.py:8, shell.py:4-5).
THEOREM CommandsRecorded == Spec => []NothingUnrecorded
<1>1. Spec => []RecordInv
  <2>1. Spec => []TypeInv
    BY TypeInit, TypeStep, PTL DEF Spec
  <2> QED BY <2>1, RecordInit, RecordStep, PTL DEF Spec
<1>2. RecordInv => NothingUnrecorded
  BY DEF RecordInv, RecordsOf, NothingUnrecorded, Outside
<1> QED BY <1>1, <1>2, PTL

-----------------------------------------------------------------------------
(* Verdicts *)

\* The steps whose results a call has.
Past(c) == IF call[c].at = "verdict" THEN 1..5 ELSE 1..(call[c].step - 1)

\* The result of a command that is configured tells whether it ran; only mutations
\* are skipped, behind tests that fail.
Judged(c, t) ==
    t \in config.configured =>
        \/ call[c].results[t] \in {"passed", "failed"} /\ <<c, t>> \in ran
        \/ call[c].results[t] \in {"denied", "unaudited"}
        \/ /\ call[c].results[t] = "skipped" /\ t = "mutation"
           /\ call[c].results["tests"] \notin {"passed", "skipped"}

VerdictOf(c) ==
    /\ call[c].at \in {"gate", "policy", "shell", "run", "end", "verdict"} =>
          \A i \in Past(c) : Judged(c, Steps[i])
    /\ call[c].at = "end" => <<c, Step(c)>> \in ran
    /\ call[c].at \in {"new", "confine", "announce"} => call[c].step = 1
    /\ call[c].outcome # None => call[c].at \in {"done", "answered", "died"}
    /\ call[c].outcome = "passed" =>
          \A t \in config.configured :
              /\ <<c, t>> \in ran
              /\ t # "lint" \/ config.lintBlocks => call[c].results[t] = "passed"

VerdictInv == \A c \in Call : VerdictOf(c)

LEMMA OthersJudged ==
    ASSUME VerdictInv, NEW c \in Call, Others(c), config' = config, ran \subseteq ran',
           VerdictOf(c)'
    PROVE  VerdictInv'
<1> SUFFICES ASSUME NEW d \in Call PROVE VerdictOf(d)'
  BY DEF VerdictInv
<1>1. CASE d = c
  BY <1>1
<1>2. CASE d # c
  <2>1. call'[d] = call[d] /\ VerdictOf(d)
    BY <1>2 DEF Others, VerdictInv
  <2>2. Step(d)' = Step(d) /\ Past(d)' = Past(d) /\ \A t : Judged(d, t) => Judged(d, t)'
    BY <2>1 DEF Step, Past, Judged
  <2> QED BY <2>1, <2>2 DEF VerdictOf
<1> QED BY <1>1, <1>2

Running == {"gate", "policy", "shell", "run", "end"}
Entering == {"new", "confine", "announce"}

\* A call that moves on without a result.
LEMMA MovesOnJudged ==
    ASSUME TypeInv, VerdictInv, NEW c \in Call, Others(c), config' = config, ran \subseteq ran',
           call'[c].results = call[c].results, call'[c].step = call[c].step,
           call'[c].outcome = call[c].outcome, call'[c].at # "verdict",
           call'[c].at \in Running => call[c].at \in Running \cup {"announce"},
           call'[c].at \in Entering => call[c].at \in Entering,
           call'[c].at = "end" => <<c, Step(c)>> \in ran',
           call[c].outcome # None => call'[c].at \in {"done", "answered", "died"}
    PROVE  VerdictInv'
<1>1. VerdictOf(c) /\ call[c].step \in 1..5
  BY StepIsTool DEF VerdictInv, TypeInv
<1>2. Step(c)' = Step(c) /\ \A t : Judged(c, t) => Judged(c, t)'
  BY DEF Step, Judged
<1>3. call'[c].at \in Running => \A i \in Past(c)' : Judged(c, Steps[i])'
  <2> SUFFICES ASSUME call'[c].at \in Running, NEW i \in Past(c)' PROVE Judged(c, Steps[i])'
    OBVIOUS
  <2>1. i \in 1..(call[c].step - 1)
    BY DEF Past
  <2>2. CASE call[c].at = "announce"
    <3>1. call[c].step = 1
      BY <1>1, <2>2 DEF VerdictOf
    <3> QED BY <2>1, <3>1
  <2>3. CASE call[c].at \in Running
    <3>1. i \in Past(c)
      BY <2>1, <2>3 DEF Past, Running
    <3> QED BY <1>1, <1>2, <2>3, <3>1 DEF VerdictOf, Running
  <2> QED BY <2>2, <2>3
<1>4. VerdictOf(c)'
  BY <1>1, <1>2, <1>3 DEF VerdictOf, Running, Entering
<1> QED BY <1>4, OthersJudged

\* A call whose step has a result that tells whether its command ran.
LEMMA ResultJudged ==
    ASSUME TypeInv, VerdictInv, NEW c \in Call, NEW r \in ResultOf, Result(c, r),
           config' = config, ran' = ran, call[c].at \in Running,
           Step(c) \in config.configured =>
              \/ r \in {"passed", "failed"} /\ <<c, Step(c)>> \in ran
              \/ r \in {"denied", "unaudited"}
              \/ /\ r = "skipped" /\ Step(c) = "mutation"
                 /\ call[c].results["tests"] \notin {"passed", "skipped"}
    PROVE  VerdictInv'
<1>0. /\ Others(c) /\ call'[c].results = [call[c].results EXCEPT ![Step(c)] = r]
      /\ call'[c].outcome = call[c].outcome
      /\ \/ call[c].step = 5 /\ call'[c].at = "verdict" /\ call'[c].step = 1
         \/ /\ call[c].step \in 1..4 /\ call'[c].at = "gate"
            /\ call'[c].step = call[c].step + 1
  BY ResultMoves DEF TypeInv
<1>1. /\ VerdictOf(c) /\ Step(c) \in Tool /\ call[c].results \in [Tool -> ResultOf]
      /\ \A i \in 1..5 : Steps[i] \in Tool /\ (Steps[i] = Step(c) => i = call[c].step)
  <2>1. call[c] \in CallState
    BY CallsTyped DEF TypeInv
  <2>2. \A i \in 1..5 : i \in {1, 2, 3, 4, 5}
    OBVIOUS
  <2>3. \A i \in 1..5 : Steps[i] \in Tool
    BY <2>2, StepsAreTools
  <2> QED BY <2>1, <2>3, StepIsTool DEF CallState, VerdictInv, TypeInv
<1>2. call'[c].results[Step(c)] = r
      /\ \A t \in Tool : t # Step(c) => call'[c].results[t] = call[c].results[t]
  BY <1>0, <1>1
<1>3. ASSUME NEW t \in Tool, t = Step(c) PROVE Judged(c, t)'
  <2>1. ASSUME t = "mutation" PROVE call'[c].results["tests"] = call[c].results["tests"]
    BY <1>2, <1>3, <2>1, StepsAreTools
  <2>2. /\ call'[c].results[t] = r /\ ran' = ran /\ config' = config
        /\ r = "skipped" /\ t = "mutation" =>
              call'[c].results["tests"] = call[c].results["tests"]
    BY <1>2, <1>3, <2>1
  <2> QED BY <1>3, <2>2 DEF Judged
<1>4. ASSUME NEW i \in 1..(call[c].step - 1) PROVE Judged(c, Steps[i])'
  <2>1. i \in 1..5 /\ i # call[c].step /\ call[c].step # 1 /\ i \in Past(c)
    BY <1>0 DEF Past, Running
  <2>2. Judged(c, Steps[i])
    BY <1>1, <2>1 DEF VerdictOf, Running
  <2>3. Steps[i] \in Tool /\ call'[c].results[Steps[i]] = call[c].results[Steps[i]]
    BY <1>1, <1>2, <2>1
  <2>4. call'[c].results["tests"] = call[c].results["tests"]
    <3>1. Step(c) # "tests"
      BY <1>1, <2>1, StepsAreTools
    <3> QED BY <1>2, <3>1, StepsAreTools
  <2> QED BY <2>2, <2>3, <2>4 DEF Judged
<1>5. ASSUME NEW i \in Past(c)' PROVE Judged(c, Steps[i])'
  <2>1. i = call[c].step \/ i \in 1..(call[c].step - 1)
    BY <1>0 DEF Past
  <2> QED BY <1>1, <1>3, <1>4, <2>1 DEF Step
<1>6. call[c].outcome = None
  BY <1>1 DEF VerdictOf, Running
<1>7. VerdictOf(c)'
  BY <1>0, <1>5, <1>6, CallAssumption DEF VerdictOf
<1> QED BY <1>0, <1>7, OthersJudged

\* A change passes when its results, which tell of each command that is configured
\* whether it ran, do not block.
LEMMA PassedRan ==
    ASSUME TypeInv, NEW c \in Call, VerdictOf(c), call[c].at = "verdict",
           ~Blocked(call[c].results), NEW t \in config.configured
    PROVE  <<c, t>> \in ran /\ (t # "lint" \/ config.lintBlocks => call[c].results[t] = "passed")
<1>1. t \in Governed /\ "tests" \in Tool
  BY ConfiguredIsGoverned, StepsAreTools DEF TypeInv
<1>2. Judged(c, t)
  <2>1. \E i \in 1..5 : Steps[i] = t
    BY <1>1, StepsAreTools DEF Governed
  <2> QED BY <2>1 DEF VerdictOf, Past
<1>3. /\ call[c].results["tests"] \in {"passed", "skipped"}
      /\ config.lintBlocks => call[c].results["lint"] \in {"passed", "skipped"}
      /\ call[c].results["mutation"] # "failed"
      /\ call[c].results[t] \notin {"denied", "unaudited"}
  BY <1>1 DEF Blocked
<1>4. call[c].results[t] \in {"passed", "failed"} /\ <<c, t>> \in ran
  BY <1>2, <1>3 DEF Judged
<1> QED BY <1>1, <1>3, <1>4 DEF Governed

LEMMA VerdictInit == Init => VerdictInv
<1> SUFFICES ASSUME Init, NEW c \in Call PROVE VerdictOf(c)
  BY DEF VerdictInv
<1>1. call[c] = NewCall
  BY DEF Init
<1> QED BY <1>1, CallAssumption DEF VerdictOf, NewCall

LEMMA VerdictStep == TypeInv /\ VerdictInv /\ [Next]_vars => VerdictInv'
<1> SUFFICES ASSUME TypeInv, VerdictInv, [Next]_vars PROVE VerdictInv'
  OBVIOUS
<1>1. ASSUME NEW c \in Call, CallStep(c) PROVE VerdictInv'
  <2>0. /\ TypeOK /\ VerdictOf(c) /\ call[c] \in CallState
        /\ Step(c) \in Tool /\ call[c].step \in 1..5
    BY CallsTyped, StepIsTool DEF TypeInv, VerdictInv
  <2>01. /\ call[c].outcome # None => call[c].at \in {"done", "answered", "died"}
         /\ call[c].at = "end" => <<c, Step(c)>> \in ran
    BY <2>0 DEF VerdictOf
  <2>a. ASSUME NEW at \in At, Goto(c, at), config' = config, ran' = ran,
               \/ call[c].at \in Entering /\ at \in {"confine", "announce", "mismatch", "deny"}
               \/ call[c].at = "mismatch" /\ at \in {"deny", "raised"}
               \/ call[c].at \in Running \cup {"announce"} /\ at \in {"gate", "policy", "shell", "run"}
        PROVE  VerdictInv'
    <3>1. /\ Others(c) /\ call'[c].at = at /\ call'[c].step = call[c].step
          /\ call'[c].results = call[c].results /\ call'[c].outcome = call[c].outcome
      BY <2>0, <2>a, GotoMoves
    <3>2. call'[c].at # "verdict" /\ call'[c].at # "end"
      BY <2>a, <3>1
    <3>3. call'[c].at \in Running => call[c].at \in Running \cup {"announce"}
      BY <2>a, <3>1 DEF Running, Entering
    <3>4. call'[c].at \in Entering => call[c].at \in Entering
      BY <2>a, <3>1 DEF Running, Entering
    <3>5. call[c].outcome = None
      BY <2>a, <2>01 DEF Running, Entering
    <3> QED BY <2>a, <3>1, <3>2, <3>3, <3>4, <3>5, MovesOnJudged
  <2>b. ASSUME NEW a \in {"denied", "unavailable"}, Refuse(c, a), config' = config, ran' = ran
        PROVE  VerdictInv'
    <3>1. /\ Others(c) /\ call'[c].at = "answered" /\ call'[c].step = call[c].step
          /\ call'[c].results = call[c].results /\ call'[c].outcome = call[c].outcome
      BY <2>0, <2>b, RefuseMoves
    <3> QED BY <2>b, <3>1, MovesOnJudged DEF Running, Entering
  <2>1. CASE GuardTool(c)
    <3> DEFINE at == CASE Guard = "ok" -> "confine" [] Guard = "mismatch" -> "mismatch"
                       [] OTHER -> "deny"
    <3>1. at \in {"confine", "mismatch", "deny"} /\ at \in At
      BY DEF At
    <3>2. Goto(c, at) /\ call[c].at = "new" /\ config' = config /\ ran' = ran
      BY <2>1 DEF GuardTool, operatorvars
    <3> HIDE DEF at
    <3> QED BY <2>a, <3>1, <3>2 DEF Entering
  <2>2. CASE RecordMismatch(c)
    <3> DEFINE at == IF writable THEN "deny" ELSE "raised"
    <3>1. at \in {"deny", "raised"} /\ at \in At
      BY DEF At
    <3>2. Goto(c, at) /\ call[c].at = "mismatch" /\ config' = config /\ ran' = ran
      BY <2>2 DEF RecordMismatch, operatorvars
    <3> HIDE DEF at
    <3> QED BY <2>a, <3>1, <3>2
  <2>3. CASE Deny(c)
    BY <2>3, <2>b DEF Deny, operatorvars
  <2>4. CASE Confine(c)
    <3>1. call[c].at = "confine" /\ config' = config /\ ran' = ran /\ "announce" \in At
      BY <2>4 DEF Confine, operatorvars, At
    <3>2. Goto(c, "announce") \/ Refuse(c, "denied")
      BY <2>4 DEF Confine
    <3> QED BY <2>a, <2>b, <3>1, <3>2 DEF Entering
  <2>5. CASE Announce(c)
    <3>1. call[c].at = "announce" /\ config' = config /\ ran' = ran /\ "gate" \in At
      BY <2>5 DEF Announce, operatorvars, At
    <3>2. Goto(c, "gate") \/ Refuse(c, "unavailable")
      BY <2>5 DEF Announce
    <3> QED BY <2>a, <2>b, <3>1, <3>2
  <2>6. CASE Skip(c)
    <3>1. /\ call[c].at \in Running /\ config' = config /\ ran' = ran
          /\ Result(c, "skipped") /\ "skipped" \in ResultOf
          /\ Step(c) \in config.configured => /\ Step(c) = "mutation"
                                           /\ call[c].results["tests"] \notin {"passed", "skipped"}
      BY <2>6 DEF Skip, operatorvars, Running, ResultOf
    <3> QED BY <3>1, ResultJudged
  <2>7. CASE Scan(c)
    <3>1. PICK r \in {"passed", "failed"} : Result(c, r)
      BY <2>7 DEF Scan
    <3>2. /\ call[c].at \in Running /\ config' = config /\ ran' = ran /\ r \in ResultOf
          /\ Step(c) \in Scanner
      BY <2>7 DEF Scan, operatorvars, Running, ResultOf
    <3>3. Step(c) \notin config.configured
      BY <2>0, <3>2, ConfiguredIsGoverned DEF Scanner, Governed
    <3> QED BY <3>1, <3>2, <3>3, ResultJudged
  <2>8. CASE RunConfigured(c)
    <3> DEFINE at == IF config.enforce THEN "policy" ELSE "shell"
    <3>1. at \in {"policy", "shell"} /\ at \in At
      BY DEF At
    <3>2. Goto(c, at) /\ call[c].at = "gate" /\ config' = config /\ ran' = ran
      BY <2>8 DEF RunConfigured, operatorvars
    <3> HIDE DEF at
    <3> QED BY <2>a, <3>1, <3>2 DEF Running
  <2>9. CASE ReadPolicy(c)
    <3>1. /\ Others(c) /\ call'[c].at = "policy" /\ call[c].at = "policy"
          /\ call'[c].step = call[c].step /\ call'[c].results = call[c].results
          /\ call'[c].outcome = call[c].outcome /\ config' = config /\ ran' = ran
      BY <2>0, <2>9, ReadMoves DEF ReadPolicy, operatorvars
    <3> QED BY <2>01, <3>1, MovesOnJudged DEF Running, Entering
  <2>10. CASE CheckPolicy(c)
    <3>1. /\ call[c].at \in Running /\ config' = config /\ ran' = ran
          /\ "denied" \in ResultOf /\ "shell" \in At
      BY <2>10 DEF CheckPolicy, operatorvars, Running, ResultOf, At
    <3>2. Goto(c, "shell") \/ Result(c, "denied")
      BY <2>10 DEF CheckPolicy
    <3>3. CASE Goto(c, "shell")
      BY <2>a, <3>1, <3>3
    <3>4. CASE Result(c, "denied")
      BY <3>1, <3>4, ResultJudged
    <3> QED BY <3>2, <3>3, <3>4
  <2>11. CASE ShellStart(c)
    <3>1. /\ call[c].at \in Running /\ config' = config /\ ran' = ran
          /\ "unaudited" \in ResultOf /\ "run" \in At
      BY <2>11 DEF ShellStart, operatorvars, Running, ResultOf, At
    <3>2. Goto(c, "run") \/ Result(c, "unaudited")
      BY <2>11 DEF ShellStart
    <3>3. CASE Goto(c, "run")
      BY <2>a, <3>1, <3>3
    <3>4. CASE Result(c, "unaudited")
      BY <3>1, <3>4, ResultJudged
    <3> QED BY <3>2, <3>3, <3>4
  <2>12. CASE ShellRun(c)
    <3>1. /\ Others(c) /\ call'[c].at = "end" /\ call[c].at = "run"
          /\ call'[c].step = call[c].step /\ call'[c].results = call[c].results
          /\ call'[c].outcome = call[c].outcome /\ config' = config
          /\ ran' = ran \cup {<<c, Step(c)>>}
      BY <2>0, <2>12, GotoMoves DEF ShellRun, operatorvars, At
    <3>2. ran \subseteq ran' /\ <<c, Step(c)>> \in ran'
      BY <3>1
    <3> QED BY <2>01, <3>1, <3>2, MovesOnJudged DEF Running, Entering
  <2>13. CASE ShellEnd(c)
    <3>1. PICK r \in {"passed", "failed"} : Result(c, r)
      BY <2>13 DEF ShellEnd
    <3>2. /\ call[c].at = "end" /\ call[c].at \in Running /\ config' = config /\ ran' = ran
          /\ r \in ResultOf
      BY <2>13 DEF ShellEnd, operatorvars, Running, ResultOf
    <3> QED BY <2>01, <3>1, <3>2, ResultJudged
  <2>14. CASE VerifyOutput(c)
    <3>1. /\ Others(c) /\ call'[c].at = "done" /\ call[c].at = "verdict"
          /\ call'[c].results = call[c].results /\ config' = config /\ ran' = ran
          /\ call'[c].outcome = IF Blocked(call[c].results) THEN "blocked" ELSE "passed"
      BY <2>0, <2>14, VerdictMoves DEF VerifyOutput, operatorvars
    <3>2. call'[c].outcome = "passed" => ~Blocked(call[c].results)
      BY <3>1
    <3>3. VerdictOf(c)'
      BY <2>0, <3>1, <3>2, PassedRan DEF VerdictOf
    <3> QED BY <3>1, <3>3, OthersJudged
  <2>15. CASE VerbRaises(c)
    <3>1. /\ Others(c) /\ call'[c].at = "done" /\ call'[c].outcome = "error"
          /\ config' = config /\ ran' = ran
      BY <2>0, <2>15, RaiseMoves DEF VerbRaises, operatorvars
    <3>2. VerdictOf(c)'
      BY <3>1 DEF VerdictOf
    <3> QED BY <3>1, <3>2, OthersJudged
  <2>16. CASE Complete(c)
    <3>1. /\ Others(c) /\ call'[c].at = "answered" /\ call'[c].step = call[c].step
          /\ call'[c].results = call[c].results /\ call'[c].outcome = call[c].outcome
          /\ config' = config /\ ran' = ran
      BY <2>0, <2>16, CompleteMoves DEF Complete, operatorvars
    <3> QED BY <3>1, MovesOnJudged DEF Running, Entering
  <2> QED BY <1>1, <2>1, <2>2, <2>3, <2>4, <2>5, <2>6, <2>7, <2>8, <2>9, <2>10,
             <2>11, <2>12, <2>13, <2>14, <2>15, <2>16 DEF CallStep
<1>2. CASE Die
  <2>1. /\ config' = config /\ ran' = ran
        /\ \A c \in Call : \/ call'[c] = call[c]
                          \/ /\ call'[c].at = "died" /\ call'[c].outcome = call[c].outcome
                             /\ call'[c].results = call[c].results
    BY <1>2, CallsTyped DEF Die, CallState, operatorvars, TypeInv
  <2>2. ASSUME NEW c \in Call PROVE VerdictOf(c)'
    <3>1. VerdictOf(c)
      BY DEF VerdictInv
    <3>2. CASE call'[c] = call[c]
      <4>1. Step(c)' = Step(c) /\ Past(c)' = Past(c) /\ \A t : Judged(c, t) => Judged(c, t)'
        BY <2>1, <3>2 DEF Step, Past, Judged
      <4> QED BY <2>1, <3>1, <3>2, <4>1 DEF VerdictOf
    <3>3. CASE call'[c] # call[c]
      BY <2>1, <3>1, <3>3 DEF VerdictOf
    <3> QED BY <3>2, <3>3
  <2> QED BY <2>2 DEF VerdictInv
<1>3. CASE UNCHANGED <<config, ran, call>>
  BY <1>3 DEF VerdictInv, VerdictOf, Step, Past, Judged
<1> QED BY <1>1, <1>2, <1>3 DEF Next, PinRead, PinOpen, PinWrite, FlipSwitch, pinvars,
           ChangeDescription, EditPolicy, LogFails, vars, operatorvars

\* A change passes only if every command that is configured ran and, but for a lint
\* that does not block, passed (gate.py:76), whatever the policy and the log do.
THEOREM PassedChangesRan == Spec => []PassMeansRun
<1>1. Spec => []VerdictInv
  <2>1. Spec => []TypeInv
    BY TypeInit, TypeStep, PTL DEF Spec
  <2> QED BY <2>1, VerdictInit, VerdictStep, PTL DEF Spec
<1>2. VerdictInv => PassMeansRun
  BY DEF VerdictInv, VerdictOf, PassMeansRun
<1> QED BY <1>1, <1>2, PTL

-----------------------------------------------------------------------------
(* The kill switch *)

\* What pin-tools has read says of the switch what the operator last said.
SwitchInv ==
    /\ SwitchHolds
    /\ pins.at # "idle" /\ pins.entry # None /\ ~edits.raced =>
          pins.entry.enabled = edits.switch
    /\ pins.at = "idle" => pins.entry = None

LEMMA SwitchInit == Init => SwitchInv
<1> SUFFICES ASSUME Init PROVE SwitchInv
  OBVIOUS
<1>1. PICK p \in Hash \cup {None} : registry = [enabled |-> TRUE, pin |-> p]
  BY DEF Init
<1> QED BY <1>1 DEF Init, SwitchInv, SwitchHolds

LEMMA SwitchStep == TypeInv /\ SwitchInv /\ [Next]_vars => SwitchInv'
<1> SUFFICES ASSUME TypeInv, SwitchInv, [Next]_vars PROVE SwitchInv'
  OBVIOUS
<1>0. /\ registry \in Entry \cup {None} /\ None \notin Entry
      /\ pins \in [at: {"idle", "read", "open"}, entry: Entry \cup {None}]
      /\ edits \in [count: 0..MaxEdits, switch: BOOLEAN, raced: BOOLEAN]
  BY CallAssumption DEF TypeInv, TypeOK
<1>1. CASE PinRead
  <2>1. /\ registry' = registry /\ edits'.switch = edits.switch /\ edits'.raced = edits.raced
        /\ pins'.at = "read"
        /\ pins'.entry = IF registry = None THEN None ELSE [registry EXCEPT !.pin = live]
    BY <1>0, <1>1 DEF PinRead
  <2>2. pins'.entry # None => registry # None /\ pins'.entry.enabled = registry.enabled
    BY <1>0, <2>1 DEF Entry
  <2> QED BY <2>1, <2>2 DEF SwitchInv, SwitchHolds
<1>2. CASE PinOpen
  <2>1. registry' = None /\ edits' = edits /\ pins'.at = "open" /\ pins'.entry = pins.entry
        /\ pins.at = "read"
    BY <1>0, <1>2 DEF PinOpen
  <2> QED BY <2>1 DEF SwitchInv, SwitchHolds
<1>3. CASE PinWrite
  <2>1. registry' = pins.entry /\ edits' = edits /\ pins'.at = "idle" /\ pins'.entry = None
        /\ pins.at = "open"
    BY <1>3 DEF PinWrite
  <2> QED BY <2>1 DEF SwitchInv, SwitchHolds
<1>4. CASE FlipSwitch
  <2>1. /\ pins' = pins /\ edits'.switch = ~registry.enabled
        /\ edits'.raced = (edits.raced \/ pins.at # "idle")
    BY <1>4 DEF FlipSwitch
  <2>2. registry'.enabled = ~registry.enabled
    BY <1>0, <1>4 DEF FlipSwitch, Entry
  <2>3. ~edits'.raced => pins.at = "idle"
    BY <2>1
  <2> QED BY <2>1, <2>2, <2>3 DEF SwitchInv, SwitchHolds
<1>5. CASE ChangeDescription
  <2>1. /\ registry' = registry /\ pins' = pins
        /\ edits'.switch = edits.switch /\ edits'.raced = edits.raced
    BY <1>0, <1>5 DEF ChangeDescription
  <2> QED BY <2>1 DEF SwitchInv, SwitchHolds
<1>6. CASE EditPolicy
  <2>1. /\ registry' = registry /\ pins' = pins
        /\ edits'.switch = edits.switch /\ edits'.raced = edits.raced
    BY <1>0, <1>6 DEF EditPolicy
  <2> QED BY <2>1 DEF SwitchInv, SwitchHolds
<1>7. CASE UNCHANGED <<registry, pins, edits>>
  BY <1>7 DEF SwitchInv, SwitchHolds
<1> QED BY <1>1, <1>2, <1>3, <1>4, <1>5, <1>6, <1>7
        DEF Next, CallStep, GuardTool, RecordMismatch, Deny, Confine, Announce, Skip, Scan,
            RunConfigured, ReadPolicy, CheckPolicy, ShellStart, ShellRun, ShellEnd,
            VerifyOutput, VerbRaises, Complete, LogFails, Die, vars, operatorvars

\* pin-tools never turns a tool on or off (tool_pins.py:66): what it writes back says
\* of the switch what the operator last said, unless it was flipped meanwhile.
THEOREM PinningKeepsSwitch == Spec => []SwitchHolds
<1>1. Spec => []SwitchInv
  <2>1. Spec => []TypeInv
    BY TypeInit, TypeStep, PTL DEF Spec
  <2> QED BY <2>1, SwitchInit, SwitchStep, PTL DEF Spec
<1>2. SwitchInv => SwitchHolds
  BY DEF SwitchInv
<1> QED BY <1>1, <1>2, PTL

-----------------------------------------------------------------------------
(* The policy *)

\* Of rules, and of the first n of some files, the first that matches t has effect e.
FirstOf(rules, t, e) ==
    \E i \in DOMAIN rules :
        /\ t \in rules[i].match /\ rules[i].effect = e
        /\ \A j \in DOMAIN rules : t \in rules[j].match => i <= j

FirstIn(files, n, t, e) ==
    \E f \in 1..n : \E i \in DOMAIN files[f] :
        /\ t \in files[f][i].match /\ files[f][i].effect = e
        /\ \A g \in 1..n : \A j \in DOMAIN files[g] :
              t \in files[g][j].match => f < g \/ (f = g /\ i <= j)

Matches(rules, t) == \E i \in DOMAIN rules : t \in rules[i].match

\* The rules a call has read are to the command what the first of these files are.
ReadsAs(c, files) ==
    /\ Matches(call[c].rules, Step(c)) <=>
          \E f \in 1..call[c].files : Matches(files[f], Step(c))
    /\ FirstOf(call[c].rules, Step(c), "allow") <=>
          FirstIn(files, call[c].files, Step(c), "allow")

\* With one edit at most, the call is reading the files as they were at a moment of
\* its reading: the ones it has still to read are so now.
ReadAtOneMoment(c) ==
    /\ Len(moments[c]) # 0
    /\ \E files \in [1..NumFiles -> Rules] :
          /\ ReadsAs(c, files)
          /\ Permits(files, Step(c)) \in Range(moments[c])
          /\ \A f \in call[c].files + 1 .. NumFiles : files[f] = policy[f]
          /\ Len(moments[c]) = 1 => files = policy

MomentOf(c) ==
    /\ call[c].at \in {"new", "confine", "announce", "gate"} =>
          call[c].rules = <<>> /\ call[c].files = 0
    /\ call[c].at = "policy" /\ Len(moments[c]) <= 2 => ReadAtOneMoment(c)

MomentInv == \A c \in Call : MomentOf(c)

\* Of some rules and some more, the first that matches is the first of these or, if
\* none of them does, the first of those.
LEMMA FirstOfConcat ==
    ASSUME NEW rules \in Seq(Rule), NEW more \in Seq(Rule), NEW t, NEW e
    PROVE  /\ Matches(rules \o more, t) <=> Matches(rules, t) \/ Matches(more, t)
           /\ FirstOf(rules \o more, t, e) <=>
                 FirstOf(rules, t, e) \/ (~Matches(rules, t) /\ FirstOf(more, t, e))
<1> DEFINE n == Len(rules)
           both == rules \o more
<1>1. /\ n \in Nat /\ Len(more) \in Nat /\ DOMAIN rules = 1..n /\ DOMAIN more = 1..Len(more)
      /\ DOMAIN both = 1..(n + Len(more))
      /\ \A i \in 1..n : both[i] = rules[i]
      /\ \A i \in 1..Len(more) : both[n + i] = more[i]
  OBVIOUS
<1> HIDE DEF n, both
<1>2. \A i \in 1..(n + Len(more)) : i \in 1..n \/ \E j \in 1..Len(more) : i = n + j
  <2> SUFFICES ASSUME NEW i \in 1..(n + Len(more)), i \notin 1..n
               PROVE  \E j \in 1..Len(more) : i = n + j
    OBVIOUS
  <2>1. i - n \in 1..Len(more) /\ i = n + (i - n)
    BY <1>1
  <2> QED BY <2>1
<1>3. \A i \in 1..n : i \in 1..(n + Len(more))
  BY <1>1
<1>4. \A i \in 1..Len(more) : n + i \in 1..(n + Len(more)) /\ n + i \notin 1..n
  BY <1>1
<1>5. Matches(both, t) <=> Matches(rules, t) \/ Matches(more, t)
  <2>1. ASSUME Matches(both, t) PROVE Matches(rules, t) \/ Matches(more, t)
    <3>1. PICK i \in 1..(n + Len(more)) : t \in both[i].match
      BY <1>1, <2>1 DEF Matches
    <3>2. CASE i \in 1..n
      BY <1>1, <3>1, <3>2 DEF Matches
    <3>3. CASE i \notin 1..n
      <4>1. PICK j \in 1..Len(more) : i = n + j
        BY <1>2, <3>3
      <4> QED BY <1>1, <3>1, <4>1 DEF Matches
    <3> QED BY <3>2, <3>3
  <2>2. ASSUME Matches(rules, t) PROVE Matches(both, t)
    BY <1>1, <1>3, <2>2 DEF Matches
  <2>3. ASSUME Matches(more, t) PROVE Matches(both, t)
    BY <1>1, <1>4, <2>3 DEF Matches
  <2> QED BY <2>1, <2>2, <2>3
<1>6. ASSUME FirstOf(both, t, e)
      PROVE  FirstOf(rules, t, e) \/ (~Matches(rules, t) /\ FirstOf(more, t, e))
  <2>1. PICK i \in 1..(n + Len(more)) :
            /\ t \in both[i].match /\ both[i].effect = e
            /\ \A j \in 1..(n + Len(more)) : t \in both[j].match => i <= j
    BY <1>1, <1>6 DEF FirstOf
  <2>2. CASE i \in 1..n
    <3>1. \A j \in 1..n : t \in rules[j].match => i <= j
      BY <1>1, <1>3, <2>1
    <3> QED BY <1>1, <2>1, <2>2, <3>1 DEF FirstOf
  <2>3. CASE i \notin 1..n
    <3>1. PICK k \in 1..Len(more) : i = n + k
      BY <1>2, <2>3
    <3>2. ~Matches(rules, t)
      <4> SUFFICES ASSUME NEW j \in 1..n, t \in rules[j].match PROVE FALSE
        BY <1>1 DEF Matches
      <4>1. i <= j
        BY <1>1, <1>3, <2>1
      <4> QED BY <1>1, <3>1, <4>1
    <3>3. t \in more[k].match /\ more[k].effect = e
      BY <1>1, <2>1, <3>1
    <3>4. ASSUME NEW j \in 1..Len(more), t \in more[j].match PROVE k <= j
      <4>1. i <= n + j
        BY <1>1, <1>4, <2>1, <3>4
      <4> QED BY <1>1, <3>1, <4>1
    <3>5. FirstOf(more, t, e)
      BY <1>1, <3>3, <3>4 DEF FirstOf
    <3> QED BY <3>2, <3>5
  <2> QED BY <2>2, <2>3
<1>7. ASSUME FirstOf(rules, t, e) PROVE FirstOf(both, t, e)
  <2>1. PICK i \in 1..n : /\ t \in rules[i].match /\ rules[i].effect = e
                          /\ \A j \in 1..n : t \in rules[j].match => i <= j
    BY <1>1, <1>7 DEF FirstOf
  <2>2. ASSUME NEW j \in 1..(n + Len(more)), t \in both[j].match PROVE i <= j
    <3>1. CASE j \in 1..n
      BY <1>1, <2>1, <2>2, <3>1
    <3>2. CASE j \notin 1..n
      BY <1>1, <3>2
    <3> QED BY <3>1, <3>2
  <2> QED BY <1>1, <1>3, <2>1, <2>2 DEF FirstOf
<1>8. ASSUME ~Matches(rules, t), FirstOf(more, t, e) PROVE FirstOf(both, t, e)
  <2>1. PICK i \in 1..Len(more) :
            /\ t \in more[i].match /\ more[i].effect = e
            /\ \A j \in 1..Len(more) : t \in more[j].match => i <= j
    BY <1>1, <1>8 DEF FirstOf
  <2>2. ASSUME NEW j \in 1..(n + Len(more)), t \in both[j].match PROVE n + i <= j
    <3>1. j \notin 1..n
      BY <1>1, <1>8, <2>2 DEF Matches
    <3>2. PICK k \in 1..Len(more) : j = n + k
      BY <1>2, <3>1
    <3>3. i <= k
      BY <1>1, <2>1, <2>2, <3>2
    <3> QED BY <1>1, <3>2, <3>3
  <2>3. n + i \in 1..(n + Len(more)) /\ both[n + i] = more[i]
    BY <1>1, <1>4
  <2> QED BY <1>1, <2>1, <2>2, <2>3 DEF FirstOf
<1> QED BY <1>5, <1>6, <1>7, <1>8 DEF both

\* The same of files, read one after the other.
LEMMA FirstInExtends ==
    ASSUME NEW files, NEW n \in Nat, NEW t, NEW e, \A f \in 1..(n + 1) : files[f] \in Seq(Rule)
    PROVE  FirstIn(files, n + 1, t, e) <=>
              \/ FirstIn(files, n, t, e)
              \/ /\ ~\E f \in 1..n : Matches(files[f], t)
                 /\ FirstOf(files[n + 1], t, e)
<1>1. /\ \A f \in 1..(n + 1) : f \in 1..n \/ f = n + 1
      /\ n + 1 \in 1..(n + 1) /\ \A f \in 1..n : f \in 1..(n + 1) /\ f < n + 1 /\ ~(n + 1 < f) /\ f # n + 1
  OBVIOUS
<1>2. ASSUME FirstIn(files, n + 1, t, e)
      PROVE  \/ FirstIn(files, n, t, e)
             \/ ~(\E f \in 1..n : Matches(files[f], t)) /\ FirstOf(files[n + 1], t, e)
  <2>01. PICK f \in 1..(n + 1) : \E i \in DOMAIN files[f] :
            /\ t \in files[f][i].match /\ files[f][i].effect = e
            /\ \A g \in 1..(n + 1) : \A j \in DOMAIN files[g] :
                  t \in files[g][j].match => f < g \/ (f = g /\ i <= j)
    BY <1>2 DEF FirstIn
  <2>1. PICK i \in DOMAIN files[f] :
            /\ t \in files[f][i].match /\ files[f][i].effect = e
            /\ \A g \in 1..(n + 1) : \A j \in DOMAIN files[g] :
                  t \in files[g][j].match => f < g \/ (f = g /\ i <= j)
    BY <2>01
  <2>2. CASE f \in 1..n
    BY <1>1, <2>1, <2>2 DEF FirstIn
  <2>3. CASE f = n + 1
    <3>1. ~(\E g \in 1..n : Matches(files[g], t))
      BY <1>1, <2>1, <2>3 DEF Matches
    <3>2. \A j \in DOMAIN files[n + 1] : t \in files[n + 1][j].match => i <= j
      <4>1. ~(n + 1 < n + 1)
        OBVIOUS
      <4> QED BY <1>1, <2>1, <2>3, <4>1
    <3>3. FirstOf(files[n + 1], t, e)
      BY <2>1, <2>3, <3>2 DEF FirstOf
    <3> QED BY <3>1, <3>3
  <2> QED BY <1>1, <2>2, <2>3
<1>3. ASSUME FirstIn(files, n, t, e) PROVE FirstIn(files, n + 1, t, e)
  <2>01. PICK f \in 1..n : \E i \in DOMAIN files[f] :
            /\ t \in files[f][i].match /\ files[f][i].effect = e
            /\ \A g \in 1..n : \A j \in DOMAIN files[g] :
                  t \in files[g][j].match => f < g \/ (f = g /\ i <= j)
    BY <1>3 DEF FirstIn
  <2>1. PICK i \in DOMAIN files[f] :
            /\ t \in files[f][i].match /\ files[f][i].effect = e
            /\ \A g \in 1..n : \A j \in DOMAIN files[g] :
                  t \in files[g][j].match => f < g \/ (f = g /\ i <= j)
    BY <2>01
  <2>2. \A g \in 1..(n + 1) : \A j \in DOMAIN files[g] :
            t \in files[g][j].match => f < g \/ (f = g /\ i <= j)
    BY <1>1, <2>1
  <2> QED BY <1>1, <2>1, <2>2 DEF FirstIn
<1>4. ASSUME ~(\E f \in 1..n : Matches(files[f], t)), FirstOf(files[n + 1], t, e)
      PROVE  FirstIn(files, n + 1, t, e)
  <2>1. PICK i \in DOMAIN files[n + 1] :
            /\ t \in files[n + 1][i].match /\ files[n + 1][i].effect = e
            /\ \A j \in DOMAIN files[n + 1] : t \in files[n + 1][j].match => i <= j
    BY <1>4 DEF FirstOf
  <2>2. \A g \in 1..(n + 1) : \A j \in DOMAIN files[g] :
            t \in files[g][j].match => g = n + 1 /\ i <= j
    BY <1>1, <1>4, <2>1 DEF Matches
  <2> QED BY <1>1, <2>1, <2>2 DEF FirstIn
<1> QED BY <1>2, <1>3, <1>4

\* Files that are the same up to n are the same to a reader of n.
LEMMA FirstInSame ==
    ASSUME NEW files, NEW others, NEW n, NEW t, NEW e, \A f \in 1..n : files[f] = others[f]
    PROVE  FirstIn(files, n, t, e) <=> FirstIn(others, n, t, e)
<1>1. ASSUME NEW fs, NEW gs, \A f \in 1..n : fs[f] = gs[f], FirstIn(fs, n, t, e)
      PROVE  FirstIn(gs, n, t, e)
  BY <1>1 DEF FirstIn
<1>2. FirstIn(files, n, t, e) => FirstIn(others, n, t, e)
  BY <1>1
<1>3. FirstIn(others, n, t, e) => FirstIn(files, n, t, e)
  BY <1>1
<1> QED BY <1>2, <1>3

\* The policy and the call's check of it decide by the first match.
LEMMA VerdictByFirst ==
    ASSUME NEW files, NEW rules, NEW t
    PROVE  /\ Permits(files, t) =
                 IF \E f \in 1..NumFiles : Matches(files[f], t)
                 THEN FirstIn(files, NumFiles, t, "allow") ELSE config.default = "allow"
           /\ Allows(rules, t) =
                 IF Matches(rules, t) THEN FirstOf(rules, t, "allow") ELSE config.default = "allow"
<1>1. Allows(rules, t) =
         IF Matches(rules, t) THEN FirstOf(rules, t, "allow") ELSE config.default = "allow"
  <2> DEFINE hits == {i \in DOMAIN rules : t \in rules[i].match}
  <2>1. Matches(rules, t) <=> hits # {}
    BY DEF Matches
  <2>2. FirstOf(rules, t, "allow") <=>
           \E i \in hits : rules[i].effect = "allow" /\ \A j \in hits : i <= j
    BY DEF FirstOf
  <2>3. Allows(rules, t) =
           IF hits = {} THEN config.default = "allow"
           ELSE \E i \in hits : rules[i].effect = "allow" /\ \A j \in hits : i <= j
    BY DEF Allows
  <2> HIDE DEF hits
  <2>4. FirstOf(rules, t, "allow") =
           \E i \in hits : rules[i].effect = "allow" /\ \A j \in hits : i <= j
    BY <2>2 DEF FirstOf
  <2> QED BY <2>1, <2>3, <2>4
<1>2. Permits(files, t) =
         IF \E f \in 1..NumFiles : Matches(files[f], t)
         THEN FirstIn(files, NumFiles, t, "allow") ELSE config.default = "allow"
  <2> DEFINE hits == UNION {{<<f, i>> : i \in {j \in DOMAIN files[f] : t \in files[f][j].match}} :
                           f \in 1..NumFiles}
             first == \E p \in hits :
                         /\ files[p[1]][p[2]].effect = "allow"
                         /\ \A q \in hits : p[1] < q[1] \/ (p[1] = q[1] /\ p[2] <= q[2])
  <2>1. \A f \in 1..NumFiles : \A i \in DOMAIN files[f] :
           t \in files[f][i].match => <<f, i>> \in hits
    OBVIOUS
  <2>2. \A p \in hits : \E f \in 1..NumFiles : \E i \in DOMAIN files[f] :
           p = <<f, i>> /\ p[1] = f /\ p[2] = i /\ t \in files[f][i].match
    OBVIOUS
  <2>3. Permits(files, t) = IF hits = {} THEN config.default = "allow" ELSE first
    BY DEF Permits
  <2> HIDE DEF hits
  <2>4. (\E f \in 1..NumFiles : Matches(files[f], t)) <=> hits # {}
    BY <2>1, <2>2 DEF Matches
  <2>5. ASSUME first PROVE FirstIn(files, NumFiles, t, "allow")
    <3>1. PICK p \in hits : /\ files[p[1]][p[2]].effect = "allow"
                            /\ \A q \in hits : p[1] < q[1] \/ (p[1] = q[1] /\ p[2] <= q[2])
      BY <2>5
    <3>02. PICK f \in 1..NumFiles : \E i \in DOMAIN files[f] :
              p[1] = f /\ p[2] = i /\ t \in files[f][i].match
      BY <2>2
    <3>2. PICK i \in DOMAIN files[f] :
              p[1] = f /\ p[2] = i /\ t \in files[f][i].match
      BY <3>02
    <3>3. ASSUME NEW g \in 1..NumFiles, NEW j \in DOMAIN files[g], t \in files[g][j].match
          PROVE  f < g \/ (f = g /\ i <= j)
      <4>1. <<g, j>> \in hits /\ <<g, j>>[1] = g /\ <<g, j>>[2] = j
        BY <2>1, <3>3
      <4> QED BY <3>1, <3>2, <4>1
    <3> QED BY <3>1, <3>2, <3>3 DEF FirstIn
  <2>6. ASSUME FirstIn(files, NumFiles, t, "allow") PROVE first
    <3>01. PICK f \in 1..NumFiles : \E i \in DOMAIN files[f] :
              /\ t \in files[f][i].match /\ files[f][i].effect = "allow"
              /\ \A g \in 1..NumFiles : \A j \in DOMAIN files[g] :
                    t \in files[g][j].match => f < g \/ (f = g /\ i <= j)
      BY <2>6 DEF FirstIn
    <3>1. PICK i \in DOMAIN files[f] :
              /\ t \in files[f][i].match /\ files[f][i].effect = "allow"
              /\ \A g \in 1..NumFiles : \A j \in DOMAIN files[g] :
                    t \in files[g][j].match => f < g \/ (f = g /\ i <= j)
      BY <3>01
    <3> DEFINE p == <<f, i>>
    <3>2. p \in hits /\ p[1] = f /\ p[2] = i
      BY <2>1, <3>1
    <3>3. \A q \in hits : f < q[1] \/ (f = q[1] /\ i <= q[2])
      BY <2>2, <3>1
    <3> QED BY <3>1, <3>2, <3>3
  <2>7. first <=> FirstIn(files, NumFiles, t, "allow")
    BY <2>5, <2>6
  <2> HIDE DEF first
  <2>8. first = FirstIn(files, NumFiles, t, "allow")
    BY <2>7 DEF FirstIn, first
  <2> QED BY <2>3, <2>4, <2>8
<1> QED BY <1>1, <1>2

\* Reading one file more keeps the reading, when the file is the witness's.
LEMMA ReadsOneMore ==
    ASSUME TypeOK, NEW c \in Call, NEW files \in [1..NumFiles -> Rules],
           ReadsAs(c, files), Step(c)' = Step(c),
           call[c].files + 1 \in 1..NumFiles,
           call'[c].files = call[c].files + 1,
           call'[c].rules = call[c].rules \o files[call[c].files + 1]
    PROVE  ReadsAs(c, files)'
<1> DEFINE n == call[c].files
           rules == call[c].rules
           more == files[n + 1]
           t == Step(c)
<1>1. n \in Nat /\ rules \in Seq(Rule)
  <2>1. call[c] \in CallState
    BY CallsTyped
  <2> QED BY <2>1, CallAssumption DEF CallState
<1>2. \A f \in 1..NumFiles : files[f] \in Seq(Rule)
  BY CallAssumption
<1>3. more \in Seq(Rule) /\ \A f \in 1..(n + 1) : files[f] \in Seq(Rule)
  BY <1>1, <1>2, CallAssumption
<1>4. /\ Matches(rules \o more, t) <=> Matches(rules, t) \/ Matches(more, t)
      /\ FirstOf(rules \o more, t, "allow") <=>
            FirstOf(rules, t, "allow") \/ (~Matches(rules, t) /\ FirstOf(more, t, "allow"))
  BY <1>1, <1>3, FirstOfConcat
<1>5. FirstIn(files, n + 1, t, "allow") <=>
         \/ FirstIn(files, n, t, "allow")
         \/ /\ ~\E f \in 1..n : Matches(files[f], t)
            /\ FirstOf(more, t, "allow")
  BY <1>1, <1>3, FirstInExtends
<1>6. /\ Matches(rules, t) <=> \E f \in 1..n : Matches(files[f], t)
      /\ FirstOf(rules, t, "allow") <=> FirstIn(files, n, t, "allow")
  BY DEF ReadsAs
<1>7. (\E f \in 1..(n + 1) : Matches(files[f], t)) <=>
         (\E f \in 1..n : Matches(files[f], t)) \/ Matches(more, t)
  <2>1. \A f \in 1..(n + 1) : f \in 1..n \/ f = n + 1
    BY <1>1
  <2>2. n + 1 \in 1..(n + 1) /\ \A f \in 1..n : f \in 1..(n + 1)
    BY <1>1
  <2> QED BY <2>1, <2>2
<1>8. call'[c].rules = rules \o more /\ call'[c].files = n + 1 /\ t = Step(c) /\ Step(c)' = t
  OBVIOUS
<1> HIDE DEF n, rules, more, t
<1>9. /\ Matches(rules \o more, t) <=> \E f \in 1..(n + 1) : Matches(files[f], t)
      /\ FirstOf(rules \o more, t, "allow") <=> FirstIn(files, n + 1, t, "allow")
  BY <1>4, <1>5, <1>6, <1>7
<1>10. /\ Matches(call'[c].rules, t) <=> \E f \in 1..call'[c].files : Matches(files[f], t)
       /\ FirstOf(call'[c].rules, t, "allow") <=> FirstIn(files, call'[c].files, t, "allow")
  BY <1>8, <1>9
<1>11. /\ Matches(call'[c].rules, Step(c)') <=>
             \E f \in 1..call'[c].files : Matches(files[f], Step(c)')
       /\ FirstOf(call'[c].rules, Step(c)', "allow") <=>
             FirstIn(files, call'[c].files, Step(c)', "allow")
  BY <1>8, <1>10
<1> QED BY <1>11 DEF ReadsAs, Matches, FirstOf, FirstIn

LEMMA OthersAtTheirMoment ==
    ASSUME TypeInv, MomentInv, NEW c \in Call, Others(c), config' = config, policy' = policy,
           \A d \in Call : d # c => moments'[d] = moments[d], MomentOf(c)'
    PROVE  MomentInv'
<1> SUFFICES ASSUME NEW d \in Call PROVE MomentOf(d)'
  BY DEF MomentInv
<1>1. CASE d = c
  BY <1>1
<1>2. CASE d # c
  <2>1. call'[d] = call[d] /\ moments'[d] = moments[d] /\ MomentOf(d) /\ Step(d)' = Step(d)
    BY <1>2 DEF Others, MomentInv, Step
  <2>2. \A files : /\ ReadsAs(d, files)' <=> ReadsAs(d, files)
                   /\ Permits(files, Step(d))' = Permits(files, Step(d))
    BY <2>1 DEF ReadsAs, Permits, Matches, FirstOf, FirstIn
  <2>3. ReadAtOneMoment(d) => ReadAtOneMoment(d)'
    BY <2>1, <2>2 DEF ReadAtOneMoment
  <2> QED BY <2>1, <2>3 DEF MomentOf
<1> QED BY <1>1, <1>2

\* A call that is not at the policy.
LEMMA ElsewhereMoves ==
    ASSUME TypeInv, MomentInv, NEW c \in Call, Others(c), config' = config, policy' = policy,
           \A d \in Call : d # c => moments'[d] = moments[d],
           call'[c].at # "policy",
           call'[c].at \in {"new", "confine", "announce", "gate"} =>
              \/ call'[c].rules = <<>> /\ call'[c].files = 0
              \/ /\ call[c].at \in {"new", "confine", "announce", "gate"}
                 /\ call'[c].rules = call[c].rules /\ call'[c].files = call[c].files
    PROVE  MomentInv'
<1>1. MomentOf(c)'
  BY DEF MomentInv, MomentOf
<1> QED BY <1>1, OthersAtTheirMoment

LEMMA MomentInit == Init => MomentInv
BY DEF Init, MomentInv, MomentOf, NewCall

LEMMA MomentStep == TypeInv /\ MomentInv /\ [Next]_vars => MomentInv'
<1> SUFFICES ASSUME TypeInv, MomentInv, [Next]_vars PROVE MomentInv'
  OBVIOUS
<1>1. ASSUME NEW c \in Call, CallStep(c) PROVE MomentInv'
  <2>0. /\ TypeOK /\ MomentOf(c) /\ call[c] \in CallState /\ moments \in [Call -> Seq(BOOLEAN)]
        /\ policy \in [1..NumFiles -> Rules]
    BY CallsTyped DEF TypeInv, MomentInv
  <2> DEFINE Same == config' = config /\ policy' = policy
             Elsewhere == \A d \in Call : d # c => moments'[d] = moments[d]
  <2>a. ASSUME NEW at \in At, Goto(c, at), Same, Elsewhere,
               \/ at \notin {"policy", "new", "confine", "announce", "gate"}
               \/ /\ call[c].at \in {"new", "confine", "announce"}
                  /\ at \in {"confine", "announce", "gate"}
        PROVE  MomentInv'
    <3>1. /\ Others(c) /\ call'[c].at = at /\ call'[c].rules = call[c].rules
          /\ call'[c].files = call[c].files
      BY <2>0, <2>a, GotoMoves
    <3>2. call'[c].at # "policy"
      BY <2>a, <3>1
    <3> HIDE DEF Elsewhere
    <3>3. call'[c].at \in {"new", "confine", "announce", "gate"} =>
              /\ call[c].at \in {"new", "confine", "announce", "gate"}
              /\ call'[c].rules = call[c].rules /\ call'[c].files = call[c].files
      BY <2>a, <3>1
    <3> USE DEF Elsewhere
    <3> QED BY <2>a, <3>1, <3>2, <3>3, ElsewhereMoves
  <2>b. ASSUME NEW a \in {"denied", "unavailable"}, Refuse(c, a), Same, Elsewhere
        PROVE  MomentInv'
    <3>1. Others(c) /\ call'[c].at = "answered"
      BY <2>0, <2>b, RefuseMoves
    <3> QED BY <2>b, <3>1, ElsewhereMoves
  <2>c. ASSUME NEW r \in ResultOf, Result(c, r), Same, Elsewhere
        PROVE  MomentInv'
    <3>1. /\ Others(c) /\ call'[c].at \in {"gate", "verdict"}
          /\ call'[c].rules = <<>> /\ call'[c].files = 0
      BY <2>0, <2>c, ResultMoves
    <3> QED BY <2>c, <3>1, ElsewhereMoves
  <2>1. CASE GuardTool(c)
    <3> DEFINE at == CASE Guard = "ok" -> "confine" [] Guard = "mismatch" -> "mismatch"
                       [] OTHER -> "deny"
    <3>1. at \in {"confine", "mismatch", "deny"} /\ at \in At
      BY DEF At
    <3>2. Goto(c, at) /\ call[c].at = "new" /\ Same /\ Elsewhere
      BY <2>1 DEF GuardTool, operatorvars
    <3> HIDE DEF at, Same, Elsewhere
    <3> QED BY <2>a, <3>1, <3>2
  <2>2. CASE RecordMismatch(c)
    <3> DEFINE at == IF writable THEN "deny" ELSE "raised"
    <3>1. at \in {"deny", "raised"} /\ at \in At
      BY DEF At
    <3>2. Goto(c, at) /\ Same /\ Elsewhere
      BY <2>2 DEF RecordMismatch, operatorvars
    <3> HIDE DEF at, Same, Elsewhere
    <3> QED BY <2>a, <3>1, <3>2
  <2>3. CASE Deny(c)
    BY <2>3, <2>b DEF Deny, operatorvars
  <2>4. CASE Confine(c)
    <3>1. call[c].at = "confine" /\ Same /\ Elsewhere /\ "announce" \in At
      BY <2>4 DEF Confine, operatorvars, At
    <3>2. Goto(c, "announce") \/ Refuse(c, "denied")
      BY <2>4 DEF Confine
    <3> HIDE DEF Same, Elsewhere
    <3> QED BY <2>a, <2>b, <3>1, <3>2
  <2>5. CASE Announce(c)
    <3>1. call[c].at = "announce" /\ Same /\ Elsewhere /\ "gate" \in At
      BY <2>5 DEF Announce, operatorvars, At
    <3>2. Goto(c, "gate") \/ Refuse(c, "unavailable")
      BY <2>5 DEF Announce
    <3> HIDE DEF Same, Elsewhere
    <3> QED BY <2>a, <2>b, <3>1, <3>2
  <2>6. CASE Skip(c)
    BY <2>6, <2>c DEF Skip, ResultOf, operatorvars
  <2>7. CASE Scan(c)
    BY <2>7, <2>c DEF Scan, ResultOf, operatorvars
  <2>8. CASE RunConfigured(c)
    <3>1. /\ call[c].at = "gate" /\ Same /\ Elsewhere
          /\ moments'[c] = IF config.enforce THEN <<Permits(policy, Step(c))>> ELSE <<>>
      BY <2>0, <2>8 DEF RunConfigured, operatorvars
    <3>2. CASE ~config.enforce
      <4>1. Goto(c, "shell") /\ "shell" \in At
        BY <2>8, <3>2 DEF RunConfigured, At
      <4> HIDE DEF Same, Elsewhere
      <4> QED BY <2>a, <3>1, <4>1
    <3>3. CASE config.enforce
      <4>1. Goto(c, "policy") /\ "policy" \in At
        BY <2>8, <3>3 DEF RunConfigured, At
      <4>2. /\ Others(c) /\ call'[c].at = "policy" /\ call'[c].step = call[c].step
            /\ call'[c].rules = <<>> /\ call'[c].files = 0 /\ Step(c)' = Step(c)
        BY <2>0, <3>1, <4>1, GotoMoves DEF MomentOf, Step
      <4>3. ReadsAs(c, policy)'
        BY <4>2 DEF ReadsAs, Matches, FirstOf, FirstIn
      <4>4. Permits(policy, Step(c))' \in Range(moments'[c])
        <5>1. Permits(policy, Step(c))' = Permits(policy, Step(c))
          BY <3>1, <4>2 DEF Permits
        <5> DEFINE m == Permits(policy, Step(c))
        <5>2. moments'[c] = <<m>>
          BY <3>1, <3>3
        <5> HIDE DEF m
        <5>3. m \in Range(<<m>>)
          <6>1. <<m>>[1] = m /\ 1 \in DOMAIN <<m>>
            OBVIOUS
          <6> QED BY <6>1 DEF Range
        <5> QED BY <5>1, <5>2, <5>3 DEF m
      <4>5. Len(moments'[c]) # 0
        BY <3>1, <3>3
      <4>6. ReadAtOneMoment(c)'
        BY <2>0, <3>1, <4>3, <4>4, <4>5 DEF ReadAtOneMoment
      <4>7. MomentOf(c)'
        BY <4>2, <4>6 DEF MomentOf
      <4> QED BY <3>1, <4>2, <4>7, OthersAtTheirMoment
    <3> QED BY <3>2, <3>3
  <2>9. CASE ReadPolicy(c)
    <3>1. /\ Same /\ moments' = moments /\ call[c].at = "policy"
          /\ Others(c) /\ call'[c].at = "policy" /\ Step(c)' = Step(c)
          /\ call[c].files + 1 \in 1..NumFiles
          /\ call'[c].files = call[c].files + 1
          /\ call'[c].rules = call[c].rules \o policy[call[c].files + 1]
      BY <2>0, <2>9, ReadMoves DEF ReadPolicy, operatorvars, Step
    <3>2. ASSUME Len(moments[c]) <= 2 PROVE ReadAtOneMoment(c)'
      <4>1. /\ Len(moments[c]) # 0
            /\ \E files \in [1..NumFiles -> Rules] :
                  /\ ReadsAs(c, files)
                  /\ Permits(files, Step(c)) \in Range(moments[c])
                  /\ \A f \in call[c].files + 1 .. NumFiles : files[f] = policy[f]
                  /\ Len(moments[c]) = 1 => files = policy
        BY <2>0, <3>1, <3>2 DEF MomentOf, ReadAtOneMoment
      <4>2. PICK files \in [1..NumFiles -> Rules] :
                  /\ ReadsAs(c, files)
                  /\ Permits(files, Step(c)) \in Range(moments[c])
                  /\ \A f \in call[c].files + 1 .. NumFiles : files[f] = policy[f]
                  /\ Len(moments[c]) = 1 => files = policy
        BY <4>1
      <4>3. /\ call[c].files \in Nat /\ NumFiles \in Nat
            /\ files[call[c].files + 1] = policy[call[c].files + 1]
        <5>1. call[c].files \in Nat /\ NumFiles \in Nat
          BY <2>0, CallAssumption DEF CallState
        <5>2. call[c].files + 1 \in call[c].files + 1 .. NumFiles
          BY <3>1, <5>1
        <5> QED BY <4>2, <5>1, <5>2
      <4>4. ReadsAs(c, files)'
        BY <2>0, <3>1, <4>2, <4>3, ReadsOneMore
      <4>5. Permits(files, Step(c))' = Permits(files, Step(c))
        BY <3>1 DEF Permits
      <4>6. \A f \in call'[c].files + 1 .. NumFiles : files[f] = policy'[f]
        BY <3>1, <4>2, <4>3
      <4> QED BY <3>1, <4>1, <4>2, <4>4, <4>5, <4>6 DEF ReadAtOneMoment
    <3>3. MomentOf(c)'
      BY <3>1, <3>2 DEF MomentOf
    <3> QED BY <3>1, <3>3, OthersAtTheirMoment
  <2>10. CASE CheckPolicy(c)
    <3>1. Same /\ Elsewhere /\ "denied" \in ResultOf /\ "shell" \in At
      BY <2>0, <2>10 DEF CheckPolicy, operatorvars, ResultOf, At
    <3>2. Goto(c, "shell") \/ Result(c, "denied")
      BY <2>10 DEF CheckPolicy
    <3> HIDE DEF Same, Elsewhere
    <3> QED BY <2>a, <2>c, <3>1, <3>2
  <2>11. CASE ShellStart(c)
    <3>1. Same /\ Elsewhere /\ "unaudited" \in ResultOf /\ "run" \in At
      BY <2>11 DEF ShellStart, operatorvars, ResultOf, At
    <3>2. Goto(c, "run") \/ Result(c, "unaudited")
      BY <2>11 DEF ShellStart
    <3> HIDE DEF Same, Elsewhere
    <3> QED BY <2>a, <2>c, <3>1, <3>2
  <2>12. CASE ShellRun(c)
    BY <2>12, <2>a DEF ShellRun, operatorvars, At
  <2>13. CASE ShellEnd(c)
    BY <2>13, <2>c DEF ShellEnd, ResultOf, operatorvars
  <2>14. CASE VerifyOutput(c)
    BY <2>0, <2>14, VerdictMoves, ElsewhereMoves DEF VerifyOutput, operatorvars
  <2>15. CASE VerbRaises(c)
    BY <2>0, <2>15, RaiseMoves, ElsewhereMoves DEF VerbRaises, operatorvars
  <2>16. CASE Complete(c)
    BY <2>0, <2>16, CompleteMoves, ElsewhereMoves DEF Complete, operatorvars
  <2> QED BY <1>1, <2>1, <2>2, <2>3, <2>4, <2>5, <2>6, <2>7, <2>8, <2>9, <2>10,
             <2>11, <2>12, <2>13, <2>14, <2>15, <2>16 DEF CallStep
<1>2. CASE EditPolicy
  <2>0. /\ TypeOK /\ call \in [Call -> CallState] /\ moments \in [Call -> Seq(BOOLEAN)]
        /\ policy \in [1..NumFiles -> Rules] /\ NumFiles \in Nat
    BY CallsTyped, CallAssumption DEF TypeInv
  <2>1. PICK f \in 1..NumFiles, r \in Rules :
           LET new == [policy EXCEPT ![f] = r] IN
           /\ policy' = new
           /\ moments' = [d \in Call |->
                 IF call[d].at = "policy" THEN Append(moments[d], Permits(new, Step(d)))
                 ELSE moments[d]]
    BY <1>2 DEF EditPolicy
  <2>2. /\ policy' \in [1..NumFiles -> Rules] /\ call' = call /\ config' = config
        /\ \A g \in 1..NumFiles : g # f => policy'[g] = policy[g]
        /\ \A d \in Call : moments'[d] = IF call[d].at = "policy"
                                       THEN Append(moments[d], Permits(policy', Step(d)))
                                       ELSE moments[d]
    BY <1>2, <2>0, <2>1 DEF EditPolicy
  <2>3. ASSUME NEW c \in Call, call[c].at = "policy", Len(moments'[c]) <= 2
        PROVE  ReadAtOneMoment(c)'
    <3> DEFINE m == Permits(policy', Step(c))
    <3>1. moments[c] \in Seq(BOOLEAN) /\ m \in BOOLEAN /\ moments'[c] = Append(moments[c], m)
      BY <2>0, <2>2, <2>3, PermitsTyped
    <3>2. Step(c)' = Step(c) /\ \A files : Permits(files, Step(c))' = Permits(files, Step(c))
                             /\ (ReadsAs(c, files)' <=> ReadsAs(c, files))
      BY <2>2 DEF Step, Permits, ReadsAs, Matches, FirstOf, FirstIn
    <3> HIDE DEF m
    <3>3. /\ Len(moments'[c]) = Len(moments[c]) + 1 /\ Len(moments[c]) \in Nat
          /\ moments'[c][Len(moments[c]) + 1] = m
          /\ \A i \in 1..Len(moments[c]) : moments'[c][i] = moments[c][i]
          /\ DOMAIN moments[c] = 1..Len(moments[c])
          /\ DOMAIN moments'[c] = 1..(Len(moments[c]) + 1)
      BY <3>1
    <3>4. m \in Range(moments'[c]) /\ Range(moments[c]) \subseteq Range(moments'[c])
      <4>1. Len(moments[c]) + 1 \in DOMAIN moments'[c]
            /\ \A i \in DOMAIN moments[c] : i \in DOMAIN moments'[c]
        BY <3>3
      <4> QED BY <3>3, <4>1 DEF Range
    <3>5. Len(moments[c]) = 1
      <4>1. MomentOf(c)
        BY DEF MomentInv
      <4>2. Len(moments[c]) # 0
        BY <2>3, <3>3, <4>1 DEF MomentOf, ReadAtOneMoment
      <4> DEFINE n == Len(moments[c])
      <4>3. n \in Nat /\ n # 0 /\ n + 1 <= 2
        BY <2>3, <3>3, <4>2
      <4> HIDE DEF n
      <4>4. n = 1
        BY <4>3
      <4> QED BY <4>4 DEF n
    <3>6. ReadsAs(c, policy) /\ Permits(policy, Step(c)) \in Range(moments[c])
      <4>1. MomentOf(c)
        BY DEF MomentInv
      <4> QED BY <2>3, <3>5, <4>1 DEF MomentOf, ReadAtOneMoment
    <3>7. call[c].files \in Nat
      BY <2>0 DEF CallState
    <3>8. ASSUME NEW files \in [1..NumFiles -> Rules], ReadsAs(c, files),
                 Permits(files, Step(c)) \in Range(moments'[c]),
                 \A g \in call[c].files + 1 .. NumFiles : files[g] = policy'[g]
          PROVE  ReadAtOneMoment(c)'
      <4>1. ReadsAs(c, files)' /\ Permits(files, Step(c))' \in Range(moments'[c])
        BY <3>2, <3>8
      <4>2. \A g \in call'[c].files + 1 .. NumFiles : files[g] = policy'[g]
        BY <2>2, <3>8
      <4>3. Len(moments'[c]) = 2
        BY <3>3, <3>5
      <4>4. Len(moments'[c]) # 0 /\ (Len(moments'[c]) = 1 => files = policy')
        BY <4>3
      <4> QED BY <4>1, <4>2, <4>4 DEF ReadAtOneMoment
    <3>9. CASE f <= call[c].files
      <4>1. \A g \in call[c].files + 1 .. NumFiles : policy[g] = policy'[g]
        BY <2>2, <3>7, <3>9
      <4> QED BY <2>0, <3>4, <3>6, <3>8, <4>1
    <3>10. CASE ~(f <= call[c].files)
      <4>1. \A g \in 1..call[c].files : policy[g] = policy'[g]
        <5>1. call[c].files \in 0..NumFiles
          BY <2>0 DEF CallState
        <5> QED BY <2>0, <2>2, <3>7, <3>10, <5>1
      <4>2. ReadsAs(c, policy')
        <5>1. FirstIn(policy, call[c].files, Step(c), "allow") <=>
                 FirstIn(policy', call[c].files, Step(c), "allow")
          BY <4>1, FirstInSame
        <5> QED BY <3>6, <4>1, <5>1 DEF ReadsAs
      <4>3. Permits(policy', Step(c)) \in Range(moments'[c])
        BY <3>4 DEF m
      <4> QED BY <2>2, <3>8, <4>2, <4>3
    <3> QED BY <3>9, <3>10
  <2> QED BY <2>2, <2>3 DEF MomentInv, MomentOf
<1>3. CASE Die
  <2>1. /\ policy' = policy /\ config' = config /\ moments' = moments
        /\ \A c \in Call : call'[c] = call[c] \/ call'[c].at = "died"
    BY <1>3, CallsTyped DEF Die, CallState, operatorvars, TypeInv
  <2>2. ASSUME NEW c \in Call PROVE MomentOf(c)'
    <3>0. MomentOf(c)
      BY DEF MomentInv
    <3>1. CASE call'[c] = call[c]
      <4>1. Step(c)' = Step(c)
        BY <3>1 DEF Step
      <4>2. \A files : /\ ReadsAs(c, files)' <=> ReadsAs(c, files)
                       /\ Permits(files, Step(c))' = Permits(files, Step(c))
        BY <2>1, <3>1, <4>1 DEF ReadsAs, Permits, Matches, FirstOf, FirstIn
      <4>3. ReadAtOneMoment(c) => ReadAtOneMoment(c)'
        BY <2>1, <3>1, <4>1, <4>2 DEF ReadAtOneMoment
      <4> QED BY <2>1, <3>0, <3>1, <4>3 DEF MomentOf
    <3>2. CASE call'[c].at = "died"
      BY <3>2 DEF MomentOf
    <3> QED BY <2>1, <3>1, <3>2
  <2> QED BY <2>2 DEF MomentInv
<1>4. CASE UNCHANGED <<config, policy, call, moments>>
  <2>1. ASSUME NEW c \in Call PROVE MomentOf(c)'
    <3>1. Step(c)' = Step(c) /\ MomentOf(c)
      BY <1>4 DEF Step, MomentInv
    <3>2. \A files : /\ ReadsAs(c, files)' <=> ReadsAs(c, files)
                     /\ Permits(files, Step(c))' = Permits(files, Step(c))
      BY <1>4, <3>1 DEF ReadsAs, Permits, Matches, FirstOf, FirstIn
    <3>3. ReadAtOneMoment(c) => ReadAtOneMoment(c)'
      BY <1>4, <3>1, <3>2 DEF ReadAtOneMoment
    <3> QED BY <1>4, <3>1, <3>3 DEF MomentOf
  <2> QED BY <2>1 DEF MomentInv
<1> QED BY <1>1, <1>2, <1>3, <1>4 DEF Next, PinRead, PinOpen, PinWrite, FlipSwitch, pinvars,
           ChangeDescription, LogFails, vars, operatorvars

\* With one edit at most while its files are read, the verdict of the policy on a
\* command is the one it had at some moment of the reading (policy/engine.py).
THEOREM VerdictHadAMoment == Spec => []VerdictOfAMoment
<1>1. Spec => [](TypeInv /\ MomentInv)
  BY TypeInit, TypeStep, MomentInit, MomentStep, PTL DEF Spec
<1>2. TypeInv /\ MomentInv => VerdictOfAMoment
  <2> SUFFICES ASSUME TypeInv, MomentInv, NEW c \in Call,
                      call[c].at = "policy", call[c].files = NumFiles, Len(moments[c]) <= 2
               PROVE  Allows(call[c].rules, Step(c)) \in Range(moments[c])
    BY DEF VerdictOfAMoment
  <2>1. PICK files \in [1..NumFiles -> Rules] :
            ReadsAs(c, files) /\ Permits(files, Step(c)) \in Range(moments[c])
    BY DEF MomentInv, MomentOf, ReadAtOneMoment
  <2> DEFINE t == Step(c)
             rules == call[c].rules
  <2>2. /\ Permits(files, t) =
              IF \E f \in 1..NumFiles : Matches(files[f], t)
              THEN FirstIn(files, NumFiles, t, "allow") ELSE config.default = "allow"
        /\ Allows(rules, t) =
              IF Matches(rules, t) THEN FirstOf(rules, t, "allow") ELSE config.default = "allow"
    BY VerdictByFirst
  <2>3. /\ Matches(rules, t) <=> \E f \in 1..NumFiles : Matches(files[f], t)
        /\ FirstOf(rules, t, "allow") <=> FirstIn(files, NumFiles, t, "allow")
    BY <2>1 DEF ReadsAs
  <2>4. FirstOf(rules, t, "allow") = FirstIn(files, NumFiles, t, "allow")
    BY <2>3 DEF FirstOf, FirstIn
  <2> HIDE DEF t, rules
  <2>5. Allows(rules, t) = Permits(files, t)
    BY <2>2, <2>3, <2>4
  <2> QED BY <2>1, <2>5 DEF t, rules
<1> QED BY <1>1, <1>2, PTL
=============================================================================
