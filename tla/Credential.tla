----------------------------- MODULE Credential -----------------------------
(***************************************************************************)
(* The credential of the HTTP surface: load_or_create_token of             *)
(* gateway/auth.py.  Every request reads the file; the first ones create   *)
(* it, in threads of one gateway or in several gateways, and the operator  *)
(* replaces or removes it at any time.                                     *)
(*                                                                         *)
(* A file is a node: who has it open writes to the node, whatever the path *)
(* names by then.  What is written is a new random value each time.        *)
(***************************************************************************)
EXTENDS Integers, FiniteSets

CONSTANTS
    Client,         \* requests at work
    None,           \* no node
    MaxNodes,       \* bound: files the path names one after the other
    MaxCalls        \* bound: credentials made

\* For the proofs: nodes and credentials are numbers.
CredAssumption ==
    MaxNodes \in Nat \ {0} /\ MaxCalls \in Nat \ {0} /\ None \notin 1..MaxNodes

\* What a file holds: nothing yet, too little, or the credential of a number.
Empty == 0
Short == -1

VARIABLES
    path,           \* the node the path names, or None
    text,           \* what each node holds
    made,           \* credentials made so far
    caller,         \* what each request is doing
    answered,       \* the credentials answered since the operator changed the file
    overtaken       \* an empty file was emptied again after it had got a credential,
                    \* or while another request had it open
credvars == <<path, text, made, caller, answered, overtaken>>

IdleCaller == [at |-> "idle", exists |-> FALSE, node |-> None]

Held == IF path = None THEN Empty ELSE text[path]

Fresh == {n \in 1..MaxNodes : n \notin DOMAIN text}

\* The file the operator provided, which may be too short or empty, or none yet.
CredInit ==
    /\ path \in {None, 1}
    /\ text \in IF path = None THEN {<<>>} ELSE [{1} -> {Empty, Short, 1}]
    /\ made = 1
    /\ caller = [c \in Client |-> IdleCaller]
    /\ answered = {} /\ overtaken = FALSE

-----------------------------------------------------------------------------
(* load_or_create_token *)

\* The second read, and the first unless nothing was found: fewer characters than
\* a credential has are 503, and the others are the answer.
Answer(c) ==
    /\ answered' = IF Held > 0 THEN answered \cup {Held} ELSE answered
    /\ caller' = [caller EXCEPT ![c] = IdleCaller]

ReadCredential(c) ==
    /\ caller[c].at = "idle"
    /\ IF Held # Empty THEN Answer(c)
       ELSE caller' = [caller EXCEPT ![c].at = "look"] /\ UNCHANGED answered
    /\ UNCHANGED <<path, text, made, overtaken>>

\* path.exists() decides the flags of the open that follows.
LookForFile(c) ==
    /\ caller[c].at = "look"
    /\ caller' = [caller EXCEPT ![c].at = "open", ![c].exists = path # None]
    /\ UNCHANGED <<path, text, made, answered, overtaken>>

\* Mutant: created without O_EXCL.
ExclusiveNever(c) == FALSE

Exclusive(c) == ~caller[c].exists

OpenedByOther(c) == \E d \in Client \ {c} : caller[d].node = path

\* O_EXCL on a file that is there: the other one's is used.
OpenCredential(c) ==
    /\ caller[c].at = "open"
    /\ \/ /\ path # None /\ Exclusive(c)
          /\ caller' = [caller EXCEPT ![c].at = "again"]
          /\ UNCHANGED <<path, text, overtaken>>
       \/ /\ path # None /\ ~Exclusive(c)
          /\ overtaken' = (overtaken \/ (caller[c].exists /\ (Held # Empty \/ OpenedByOther(c))))
          /\ text' = [text EXCEPT ![path] = Empty]
          /\ caller' = [caller EXCEPT ![c].at = "write", ![c].node = path]
          /\ UNCHANGED path
       \/ /\ path = None
          /\ \E n \in Fresh :
                /\ path' = n
                /\ text' = [m \in DOMAIN text \cup {n} |-> IF m = n THEN Empty ELSE text[m]]
                /\ caller' = [caller EXCEPT ![c].at = "write", ![c].node = n]
          /\ UNCHANGED overtaken
    /\ UNCHANGED <<made, answered>>

WriteCredential(c) ==
    /\ caller[c].at = "write"
    /\ made < MaxCalls
    /\ made' = made + 1
    /\ text' = [text EXCEPT ![caller[c].node] = made + 1]
    /\ caller' = [caller EXCEPT ![c].at = "again", ![c].node = None]
    /\ UNCHANGED <<path, answered, overtaken>>

ReadAgain(c) ==
    /\ caller[c].at = "again"
    /\ Answer(c)
    /\ UNCHANGED <<path, text, made, overtaken>>

\* The gateway is killed, or the call raises (503): an empty file may remain.
CallEnds(c) ==
    /\ caller[c].at # "idle"
    /\ caller' = [caller EXCEPT ![c] = IdleCaller]
    /\ UNCHANGED <<path, text, made, answered, overtaken>>

\* The operator puts another file in its place, or removes it ("replace the file
\* to rotate"): what was answered before counts no more.
OperatorChanges ==
    /\ \/ path' = None /\ path # None /\ UNCHANGED <<text, made>>
       \/ \E n \in Fresh :
             /\ path' = n
             /\ \/ /\ made < MaxCalls /\ made' = made + 1
                   /\ text' = [m \in DOMAIN text \cup {n} |-> IF m = n THEN made' ELSE text[m]]
                \/ /\ text' = [m \in DOMAIN text \cup {n} |-> IF m = n THEN Short ELSE text[m]]
                   /\ UNCHANGED made
    /\ answered' = {}
    /\ UNCHANGED <<caller, overtaken>>

CredNext ==
    \/ \E c \in Client : \/ ReadCredential(c) \/ LookForFile(c) \/ OpenCredential(c)
                         \/ WriteCredential(c) \/ ReadAgain(c) \/ CallEnds(c)
    \/ OperatorChanges

CredSpec == CredInit /\ [][CredNext]_credvars

-----------------------------------------------------------------------------
(* Properties *)

CredTypeOK ==
    /\ path \in DOMAIN text \cup {None} /\ DOMAIN text \subseteq 1..MaxNodes
    /\ \A n \in DOMAIN text : text[n] \in -1..MaxCalls
    /\ made \in 1..MaxCalls /\ answered \subseteq 1..MaxCalls /\ overtaken \in BOOLEAN
    /\ caller \in [Client -> [at: {"idle", "look", "open", "write", "again"},
                              exists: BOOLEAN, node: 1..MaxNodes \cup {None}]]

\* auth.py:75-78, "absent: exclusive create" and "lost a creation race: use the
\* winner's value": the credential a request was checked against stays the one of
\* all requests until the operator changes the file, however many found none and
\* create it, die while they do or find the operator's after all.  What the two
\* comments leave open is excepted: a request that saw a file before it emptied it
\* may empty one that has got its credential meanwhile.
OneCredential ==
    ~overtaken => answered \subseteq {Held}
=============================================================================
