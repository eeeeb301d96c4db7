--------------------------- MODULE MCParts_proofs ---------------------------
(***************************************************************************)
(* The theorems about the parts, for the behaviours of MCParts: each of    *)
(* them is of one part, and leaves the others alone.                       *)
(***************************************************************************)
EXTENDS PacksSchemaLayers_proofs

-----------------------------------------------------------------------------
(* The credential *)

\* OneCredential alone is not inductive: a request that has the file open will
\* write to it.  CredInv says that what it writes to is still empty, and that no
\* other request has the same file open; both hold unless a request has emptied a
\* file it had seen before.

\* A request has a node open exactly while it is about to write, and every node
\* holds something.
Opened ==
    /\ text \in [DOMAIN text -> -1..MaxCalls]
    /\ \A c \in Client : /\ caller[c].at # "write" => caller[c].node = None
                         /\ caller[c].at = "write" => caller[c].node \in DOMAIN text

\* The file the path names is empty while a request has it open, and one request
\* at most has.
OneWriter ==
    /\ path # None => \A c \in Client : caller[c].node = path => text[path] = Cred!Empty
    /\ path # None => \A c, d \in Client : caller[c].node = path /\ caller[d].node = path => c = d

CredInv ==
    /\ Cred!CredTypeOK
    /\ Opened
    /\ ~overtaken => OneWriter /\ answered \subseteq {Cred!Held}

\* A request that has no node open.
Unopened == [at: {"idle", "look", "open", "again"}, exists: BOOLEAN, node: {None}]

\* The operator's file, or none, and nobody has asked.
LEMMA CredBegins ==
    ASSUME Cred!CredAssumption, Cred!CredInit
    PROVE  CredInv
<1>1. caller = [c \in Client |-> [at |-> "idle", exists |-> FALSE, node |-> None]]
      /\ made = 1 /\ answered = {} /\ overtaken = FALSE
  BY DEF Cred!CredInit, Cred!IdleCaller
<1>2. /\ path \in DOMAIN text \cup {None} /\ DOMAIN text \subseteq 1..MaxNodes
      /\ text \in [DOMAIN text -> -1..MaxCalls]
  <2>1. CASE path = None
    BY <2>1 DEF Cred!CredInit
  <2>2. CASE path # None
    BY <2>2 DEF Cred!CredInit, Cred!CredAssumption, Cred!Empty, Cred!Short
  <2> QED BY <2>1, <2>2
<1>3. Cred!CredTypeOK
  <2>1. caller \in [Client -> [at: {"idle", "look", "open", "write", "again"},
                              exists: BOOLEAN, node: 1..MaxNodes \cup {None}]]
    BY <1>1
  <2>2. made \in 1..MaxCalls
    BY <1>1 DEF Cred!CredAssumption
  <2>3. answered \subseteq 1..MaxCalls /\ overtaken \in BOOLEAN
    BY <1>1
  <2> QED BY <1>2, <2>1, <2>2, <2>3 DEF Cred!CredTypeOK
<1>4. Opened /\ OneWriter
  BY <1>1, <1>2 DEF Opened, OneWriter
<1> QED BY <1>1, <1>3, <1>4 DEF CredInv

\* What a step that leaves the files alone does to the requests, and to what was
\* answered.
LEMMA CallerStep ==
    ASSUME Cred!CredAssumption, CredInv, NEW c \in Client,
           UNCHANGED <<path, text, made, overtaken>>,
           NEW k \in Unopened,
           caller' = [caller EXCEPT ![c] = k],
           answered' = answered \/ (Cred!Held > 0 /\ answered' = answered \cup {Cred!Held})
    PROVE  CredInv'
<1>1. \A d \in Client : caller'[d] = IF d = c THEN k ELSE caller[d]
  BY DEF CredInv, Cred!CredTypeOK
<1>2. Cred!Held \in -1..MaxCalls
  BY DEF Cred!Held, CredInv, Cred!CredTypeOK, Opened, Cred!Empty, Cred!CredAssumption
<1>3. Cred!CredTypeOK'
  <2>1. caller' \in [Client -> [at: {"idle", "look", "open", "write", "again"},
                               exists: BOOLEAN, node: 1..MaxNodes \cup {None}]]
    BY DEF CredInv, Cred!CredTypeOK, Unopened
  <2>2. answered \subseteq 1..MaxCalls /\ MaxCalls \in Nat
    BY DEF CredInv, Cred!CredTypeOK, Cred!CredAssumption
  <2>3. Cred!Held > 0 => Cred!Held \in 1..MaxCalls
    BY <1>2, <2>2
  <2>4. answered' \subseteq 1..MaxCalls
    BY <2>2, <2>3
  <2> QED BY <2>1, <2>4 DEF CredInv, Cred!CredTypeOK
<1>4. Opened'
  BY <1>1 DEF CredInv, Opened, Unopened
<1>5. OneWriter => OneWriter'
  <2>1. \A d \in Client : path # None /\ caller'[d].node = path => caller[d].node = path
    BY <1>1 DEF Unopened
  <2> QED BY <2>1 DEF OneWriter
<1>6. Cred!Held' = Cred!Held
  BY DEF Cred!Held
<1> QED BY <1>3, <1>4, <1>5, <1>6 DEF CredInv

\* The steps of the requests that leave the files alone.
LEMMA QuietStep ==
    ASSUME Cred!CredAssumption, CredInv, NEW c \in Client,
           Cred!ReadCredential(c) \/ Cred!LookForFile(c) \/ Cred!ReadAgain(c) \/ Cred!CallEnds(c)
    PROVE  CredInv'
<1>1. Cred!IdleCaller \in Unopened
  BY DEF Cred!IdleCaller, Unopened
<1>2. caller \in [Client -> [at: {"idle", "look", "open", "write", "again"},
                             exists: BOOLEAN, node: 1..MaxNodes \cup {None}]]
  BY DEF CredInv, Cred!CredTypeOK
<1>3. caller[c].at # "write" => caller[c].node = None
  BY DEF CredInv, Opened
<1>4. CASE (Cred!ReadCredential(c) /\ Cred!Held # Cred!Empty) \/ Cred!ReadAgain(c)
  <2>1. UNCHANGED <<path, text, made, overtaken>> /\ Cred!Answer(c)
    BY <1>4 DEF Cred!ReadCredential, Cred!ReadAgain
  <2> QED BY <1>1, <2>1, CallerStep DEF Cred!Answer
<1>5. CASE Cred!ReadCredential(c) /\ Cred!Held = Cred!Empty
  <2> DEFINE k == [caller[c] EXCEPT !.at = "look"]
  <2>1. k \in Unopened
    BY <1>2, <1>3, <1>5 DEF Unopened, Cred!ReadCredential
  <2>2. caller' = [caller EXCEPT ![c] = k] /\ UNCHANGED <<path, text, made, answered, overtaken>>
    BY <1>5 DEF Cred!ReadCredential
  <2> HIDE DEF k
  <2> QED BY <2>1, <2>2, CallerStep
<1>6. CASE Cred!LookForFile(c)
  <2> DEFINE k == [caller[c] EXCEPT !.at = "open", !.exists = (path # None)]
  <2>1. k \in Unopened
    BY <1>2, <1>3, <1>6 DEF Unopened, Cred!LookForFile
  <2>2. UNCHANGED <<path, text, made, answered, overtaken>>
    BY <1>6 DEF Cred!LookForFile
  <2>3. caller' = [caller EXCEPT ![c].at = "open", ![c].exists = path # None]
    BY <1>6 DEF Cred!LookForFile
  <2>4. caller' = [caller EXCEPT ![c] = k]
    BY <1>2, <2>3
  <2> HIDE DEF k
  <2> QED BY <2>1, <2>2, <2>4, CallerStep
<1>7. CASE Cred!CallEnds(c)
  BY <1>1, <1>7, CallerStep DEF Cred!CallEnds
<1> QED BY <1>4, <1>5, <1>6, <1>7

CallerState == [at: {"idle", "look", "open", "write", "again"},
                exists: BOOLEAN, node: 1..MaxNodes \cup {None}]

Callers == [Client -> [at: {"idle", "look", "open", "write", "again"},
                       exists: BOOLEAN, node: 1..MaxNodes \cup {None}]]

\* The file that is opened: a new one, or the one the path names, which is emptied.
LEMMA OpenStep ==
    ASSUME Cred!CredAssumption, CredInv, NEW c \in Client, Cred!OpenCredential(c)
    PROVE  CredInv'
<1>1. /\ path \in DOMAIN text \cup {None} /\ DOMAIN text \subseteq 1..MaxNodes
      /\ text \in [DOMAIN text -> -1..MaxCalls] /\ MaxCalls \in Nat
      /\ made \in 1..MaxCalls /\ answered \subseteq 1..MaxCalls
      /\ caller \in Callers /\ None \notin 1..MaxNodes
  BY DEF CredInv, Cred!CredTypeOK, Opened, Callers, Cred!CredAssumption
<1>1a. overtaken \in BOOLEAN
  BY DEF CredInv, Cred!CredTypeOK
<1>2. \A d \in Client : caller[d].node # None => caller[d].node \in DOMAIN text
  BY DEF CredInv, Opened
<1>3. caller[c].at = "open" /\ caller[c].node = None /\ UNCHANGED <<made, answered>>
  BY DEF Cred!OpenCredential, CredInv, Opened
<1>4. CASE path # None /\ Cred!Exclusive(c) /\ caller' = [caller EXCEPT ![c].at = "again"]
           /\ UNCHANGED <<path, text, overtaken>>
  <2> DEFINE k == [caller[c] EXCEPT !.at = "again"]
  <2>1. k \in Unopened /\ caller' = [caller EXCEPT ![c] = k]
    BY <1>1, <1>3, <1>4 DEF Callers, Unopened
  <2> HIDE DEF k
  <2> QED BY <1>3, <1>4, <2>1, CallerStep
<1>5. ASSUME NEW n \in 1..MaxNodes,
             \A d \in Client : caller[d].node = n => overtaken',
             caller' = [caller EXCEPT ![c].at = "write", ![c].node = n],
             path' = n, DOMAIN text' = DOMAIN text \cup {n},
             text' = [m \in DOMAIN text \cup {n} |-> IF m = n THEN Cred!Empty ELSE text[m]],
             overtaken' \in BOOLEAN, ~overtaken' => answered = {}
      PROVE  CredInv'
  <2>1. \A d \in Client : /\ d # c => caller'[d] = caller[d]
                          /\ d = c => caller'[d].at = "write" /\ caller'[d].node = n
    BY <1>1, <1>5 DEF Callers
  <2>2. caller' \in Callers
    <3>1. PICK r : r = [caller[c] EXCEPT !.at = "write", !.node = n]
      OBVIOUS
    <3>2. r \in CallerState
      BY <1>1, <3>1 DEF Callers, CallerState
    <3>3. caller' = [caller EXCEPT ![c] = r]
      BY <1>1, <1>5, <3>1 DEF Callers
    <3> QED BY <1>1, <3>2, <3>3 DEF Callers, CallerState
  <2>3. Opened'
    <3>1. text' \in [DOMAIN text' -> -1..MaxCalls]
      BY <1>1, <1>5 DEF Cred!Empty
    <3>2. ASSUME NEW d \in Client
          PROVE  /\ caller'[d].at # "write" => caller'[d].node = None
                 /\ caller'[d].at = "write" => caller'[d].node \in DOMAIN text'
      BY <1>5, <2>1 DEF CredInv, Opened
    <3> QED BY <3>1, <3>2 DEF Opened
  <2>4. Cred!CredTypeOK'
    <3>1. \A m \in DOMAIN text' : text'[m] \in -1..MaxCalls
      BY <2>3 DEF Opened
    <3>2. path' \in DOMAIN text' \cup {None} /\ DOMAIN text' \subseteq 1..MaxNodes
      BY <1>1, <1>5
    <3> QED BY <1>1, <1>3, <1>5, <2>2, <3>1, <3>2 DEF Cred!CredTypeOK, Callers
  <2>5. text'[path'] = Cred!Empty /\ path' # None
    BY <1>1, <1>5
  <2>6. ~overtaken' => OneWriter'
    BY <1>5, <2>1, <2>5 DEF OneWriter
  <2> QED BY <1>3, <1>5, <2>3, <2>4, <2>6 DEF CredInv
<1>6. CASE /\ path # None /\ ~Cred!Exclusive(c)
           /\ overtaken' = (overtaken \/ (caller[c].exists
                                        /\ (Cred!Held # Cred!Empty \/ Cred!OpenedByOther(c))))
           /\ text' = [text EXCEPT ![path] = Cred!Empty]
           /\ caller' = [caller EXCEPT ![c].at = "write", ![c].node = path]
           /\ UNCHANGED path
  <2>1. caller[c].exists
    BY <1>6 DEF Cred!Exclusive
  <2>2. overtaken' <=> overtaken \/ Cred!Held # Cred!Empty \/ Cred!OpenedByOther(c)
    BY <1>6, <2>1
  <2>3. \A d \in Client : caller[d].node = path => overtaken'
    BY <1>3, <1>6, <2>2 DEF Cred!OpenedByOther
  <2>4. ~overtaken' => answered = {}
    <3>1. ~overtaken' => answered \subseteq {Cred!Empty}
      BY <2>2 DEF CredInv
    <3> QED BY <1>1, <3>1 DEF Cred!Empty
  <2>5. path \in DOMAIN text /\ path \in 1..MaxNodes
    BY <1>1, <1>6
  <2>6. /\ DOMAIN text' = DOMAIN text \cup {path}
        /\ text' = [m \in DOMAIN text \cup {path} |-> IF m = path THEN Cred!Empty ELSE text[m]]
    BY <1>1, <1>6, <2>5
  <2>7. overtaken' \in BOOLEAN
    BY <1>6
  <2> QED BY <1>5, <1>6, <2>3, <2>4, <2>5, <2>6, <2>7
<1>7. CASE /\ path = None
           /\ \E n \in Cred!Fresh :
                 /\ path' = n
                 /\ text' = [m \in DOMAIN text \cup {n} |-> IF m = n THEN Cred!Empty ELSE text[m]]
                 /\ caller' = [caller EXCEPT ![c].at = "write", ![c].node = n]
           /\ UNCHANGED overtaken
  <2>1. PICK n \in Cred!Fresh :
           /\ path' = n
           /\ text' = [m \in DOMAIN text \cup {n} |-> IF m = n THEN Cred!Empty ELSE text[m]]
           /\ caller' = [caller EXCEPT ![c].at = "write", ![c].node = n]
    BY <1>7
  <2>2. n \in 1..MaxNodes /\ n \notin DOMAIN text
    BY DEF Cred!Fresh
  <2>3. \A d \in Client : caller[d].node # n
    BY <1>1, <1>2, <2>2
  <2>4. ~overtaken' => answered = {}
    <3>1. ~overtaken => answered \subseteq {Cred!Empty}
      BY <1>7 DEF CredInv, Cred!Held
    <3> QED BY <1>1, <1>7, <3>1 DEF Cred!Empty
  <2>5. DOMAIN text' = DOMAIN text \cup {n}
    BY <2>1
  <2>6. overtaken' \in BOOLEAN
    BY <1>1a, <1>7
  <2> QED BY <1>5, <2>1, <2>2, <2>3, <2>4, <2>5, <2>6
<1> QED BY <1>4, <1>6, <1>7 DEF Cred!OpenCredential

\* Into a file that is still empty, or that the path no longer names.
LEMMA WriteStep ==
    ASSUME Cred!CredAssumption, CredInv, NEW c \in Client, Cred!WriteCredential(c)
    PROVE  CredInv'
<1> DEFINE n == caller[c].node
           v == made + 1
<1>1. /\ path \in DOMAIN text \cup {None} /\ DOMAIN text \subseteq 1..MaxNodes
      /\ text \in [DOMAIN text -> -1..MaxCalls] /\ MaxCalls \in Nat
      /\ made \in 1..MaxCalls /\ answered \subseteq 1..MaxCalls
      /\ caller \in Callers /\ None \notin 1..MaxNodes
  BY DEF CredInv, Cred!CredTypeOK, Opened, Callers, Cred!CredAssumption
<1>2. n \in DOMAIN text /\ n # None
  BY <1>1 DEF CredInv, Opened, Cred!WriteCredential
<1>3. v \in 1..MaxCalls /\ made' = v /\ v # Cred!Empty
  BY <1>1 DEF Cred!WriteCredential, Cred!Empty
<1>4. text' = [text EXCEPT ![n] = v] /\ UNCHANGED <<path, answered, overtaken>>
      /\ caller' = [caller EXCEPT ![c].at = "again", ![c].node = None]
  BY DEF Cred!WriteCredential
<1> HIDE DEF n, v
<1>5. \A d \in Client : /\ d # c => caller'[d] = caller[d]
                        /\ d = c => caller'[d].at = "again" /\ caller'[d].node = None
  BY <1>1, <1>4 DEF Callers
<1>6. /\ DOMAIN text' = DOMAIN text
      /\ text' \in [DOMAIN text' -> -1..MaxCalls]
  <2>1. v \in -1..MaxCalls
    BY <1>1, <1>3
  <2> QED BY <1>1, <1>2, <1>4, <2>1
<1>7. Opened'
  BY <1>5, <1>6 DEF CredInv, Opened
<1>8. Cred!CredTypeOK'
  <2>1. caller' \in Callers
    <3>1. PICK r : r = [caller[c] EXCEPT !.at = "again", !.node = None]
      OBVIOUS
    <3>2. r \in CallerState
      BY <1>1, <3>1 DEF Callers, CallerState
    <3>3. caller' = [caller EXCEPT ![c] = r]
      BY <1>1, <1>4, <3>1 DEF Callers
    <3> QED BY <1>1, <3>2, <3>3 DEF Callers, CallerState
  <2>2. \A m \in DOMAIN text' : text'[m] \in -1..MaxCalls
    BY <1>6
  <2>3. overtaken' \in BOOLEAN
    BY <1>4 DEF CredInv, Cred!CredTypeOK
  <2> QED BY <1>1, <1>3, <1>4, <1>6, <2>1, <2>2, <2>3 DEF Cred!CredTypeOK, Callers
<1>9. ASSUME ~overtaken PROVE OneWriter' /\ answered' \subseteq {Cred!Held'}
  <2>1. OneWriter /\ answered \subseteq {Cred!Held}
    BY <1>9 DEF CredInv
  <2>2. CASE n = path
    <3>1. \A d \in Client : caller'[d].node # path
      BY <1>2, <1>5, <2>1, <2>2 DEF OneWriter, n
    <3>2. answered = {}
      <4>1. Cred!Held = Cred!Empty
        BY <1>2, <2>1, <2>2 DEF OneWriter, Cred!Held, n
      <4> QED BY <1>1, <2>1, <4>1 DEF Cred!Empty
    <3> QED BY <1>4, <3>1, <3>2 DEF OneWriter
  <2>3. CASE n # path
    <3>1. path # None => text'[path] = text[path]
      BY <1>1, <1>2, <1>4, <2>3
    <3>2. Cred!Held' = Cred!Held
      BY <1>4, <3>1 DEF Cred!Held
    <3>3. OneWriter'
      <4>1. path' = path
        BY <1>4
      <4>2. \A d \in Client : path # None /\ caller'[d].node = path => caller[d].node = path
        BY <1>5
      <4> QED BY <2>1, <3>1, <4>1, <4>2 DEF OneWriter
    <3>4. answered' = answered
      BY <1>4
    <3> QED BY <2>1, <3>2, <3>3, <3>4
  <2> QED BY <2>2, <2>3
<1> QED BY <1>4, <1>7, <1>8, <1>9 DEF CredInv

\* The operator's file is one that no request has open.
LEMMA OperatorStep ==
    ASSUME Cred!CredAssumption, CredInv, Cred!OperatorChanges
    PROVE  CredInv'
<1>1. /\ path \in DOMAIN text \cup {None} /\ DOMAIN text \subseteq 1..MaxNodes
      /\ text \in [DOMAIN text -> -1..MaxCalls] /\ MaxCalls \in Nat
      /\ made \in 1..MaxCalls /\ None \notin 1..MaxNodes
      /\ caller \in Callers
  BY DEF CredInv, Cred!CredTypeOK, Opened, Callers, Cred!CredAssumption
<1>2. answered' = {} /\ UNCHANGED <<caller, overtaken>>
  BY DEF Cred!OperatorChanges
<1>3. \A d \in Client : caller[d].node # None => caller[d].node \in DOMAIN text
  BY DEF CredInv, Opened
<1>4. CASE path' = None /\ UNCHANGED <<text, made>>
  <2>1. Opened' /\ OneWriter'
    BY <1>2, <1>4 DEF CredInv, Opened, OneWriter
  <2>2. Cred!CredTypeOK'
    BY <1>2, <1>4 DEF CredInv, Cred!CredTypeOK
  <2> QED BY <1>2, <2>1, <2>2 DEF CredInv
<1>5. ASSUME NEW n \in Cred!Fresh, NEW v \in -1..MaxCalls, path' = n, made' \in 1..MaxCalls,
             text' = [m \in DOMAIN text \cup {n} |-> IF m = n THEN v ELSE text[m]]
      PROVE  CredInv'
  <2>1. n \in 1..MaxNodes /\ n \notin DOMAIN text
    BY DEF Cred!Fresh
  <2>2. DOMAIN text' = DOMAIN text \cup {n} /\ text' \in [DOMAIN text' -> -1..MaxCalls]
    BY <1>1, <1>5
  <2>3. Opened'
    BY <1>2, <2>2 DEF CredInv, Opened
  <2>4. Cred!CredTypeOK'
    <3>1. \A m \in DOMAIN text' : text'[m] \in -1..MaxCalls
      BY <2>2
    <3>2. overtaken' \in BOOLEAN
      BY <1>2 DEF CredInv, Cred!CredTypeOK
    <3> QED BY <1>1, <1>2, <1>5, <2>1, <2>2, <3>1, <3>2 DEF Cred!CredTypeOK, Callers
  <2>5. OneWriter'
    <3>1. \A d \in Client : caller'[d].node # path'
      BY <1>1, <1>2, <1>3, <1>5, <2>1
    <3> QED BY <3>1 DEF OneWriter
  <2> QED BY <1>2, <2>3, <2>4, <2>5 DEF CredInv
<1>6. CASE \E n \in Cred!Fresh :
             /\ path' = n
             /\ \/ /\ made < MaxCalls /\ made' = made + 1
                   /\ text' = [m \in DOMAIN text \cup {n} |-> IF m = n THEN made' ELSE text[m]]
                \/ /\ text' = [m \in DOMAIN text \cup {n} |-> IF m = n THEN Cred!Short ELSE text[m]]
                   /\ UNCHANGED made
  <2>1. PICK n \in Cred!Fresh :
           /\ path' = n
           /\ \/ /\ made < MaxCalls /\ made' = made + 1
                 /\ text' = [m \in DOMAIN text \cup {n} |-> IF m = n THEN made' ELSE text[m]]
              \/ /\ text' = [m \in DOMAIN text \cup {n} |-> IF m = n THEN Cred!Short ELSE text[m]]
                 /\ UNCHANGED made
    BY <1>6
  <2>2. CASE made' = made + 1 /\ made < MaxCalls
             /\ text' = [m \in DOMAIN text \cup {n} |-> IF m = n THEN made' ELSE text[m]]
    <3> DEFINE v == made + 1
    <3>1. v \in -1..MaxCalls /\ v \in 1..MaxCalls
      BY <1>1, <2>2
    <3>2. made' = v /\ text' = [m \in DOMAIN text \cup {n} |-> IF m = n THEN v ELSE text[m]]
      BY <2>2
    <3> HIDE DEF v
    <3> QED BY <1>5, <2>1, <3>1, <3>2
  <2>3. CASE made' = made
             /\ text' = [m \in DOMAIN text \cup {n} |-> IF m = n THEN Cred!Short ELSE text[m]]
    <3>1. Cred!Short \in -1..MaxCalls
      BY <1>1 DEF Cred!Short
    <3> QED BY <1>1, <1>5, <2>1, <2>3, <3>1
  <2> QED BY <2>1, <2>2, <2>3
<1> QED BY <1>4, <1>6 DEF Cred!OperatorChanges

LEMMA CredStep ==
    ASSUME Cred!CredAssumption, CredInv, [Cred!CredNext]_credvars
    PROVE  CredInv'
<1>1. CASE UNCHANGED credvars
  BY <1>1 DEF credvars, CredInv, Cred!CredTypeOK, Opened, OneWriter, Cred!Held
<1> QED BY <1>1, QuietStep, OpenStep, WriteStep, OperatorStep DEF Cred!CredNext

LEMMA CredAlways == Spec => [](part = "credential" => CredInv)
<1> DEFINE Inv == part = "credential" => CredInv
<1>1. Init => Inv
  <2> SUFFICES ASSUME Init, part = "credential" PROVE CredInv
    OBVIOUS
  <2>1. Cred!CredInit
    BY DEF Init
  <2> QED BY <2>1, CredBegins, PartsAssumption DEF PartsAssumption
<1>2. Inv /\ [Next]_<<part, statevars, answervars>> => Inv'
  <2> SUFFICES ASSUME Inv, [Next]_<<part, statevars, answervars>>, part' = "credential"
               PROVE  CredInv'
    OBVIOUS
  <2>1. part = "credential" /\ CredInv
    BY DEF Next
  <2>2. [Cred!CredNext]_credvars
    BY <2>1 DEF Next, answervars
  <2> QED BY <2>1, <2>2, CredStep, PartsAssumption DEF PartsAssumption
<1> QED BY <1>1, <1>2, PTL DEF Spec

\* gateway/auth.py: the credential a request was checked against stays the one of
\* all requests until the operator changes the file, however many of them create
\* it at the same time, as long as none empties a file it had seen before.
THEOREM CredentialLasts == Spec => []OneCredential
<1> DEFINE Inv == part = "credential" => CredInv
<1>1. Inv => OneCredential
  BY DEF OneCredential, CredInv, Cred!OneCredential
<1> QED BY <1>1, CredAlways, PTL

\* Each part's types: the credential.
LEMMA CredTyped == Spec => [](part = "credential" => Cred!CredTypeOK)
<1>1. (part = "credential" => CredInv) => (part = "credential" => Cred!CredTypeOK)
  BY DEF CredInv
<1> QED BY <1>1, CredAlways, PTL

-----------------------------------------------------------------------------
(* The dashboard's tab *)

\* A request for the data of a view was sent with the credential that is stored,
\* and so was the one that got each view's data.
Answers == [{"check", "view", "chain"} -> Token \cup {None}]

TabInv ==
    /\ asking \in Answers
    /\ cached \in [View -> Token \cup {None}]
    /\ accepted \in Token \cup {None} /\ held \in Token \cup {None}
    /\ Tab!SessionsApart

LEMMA TabBegins ==
    ASSUME Tab!TabInit
    PROVE  TabInv
BY DEF Tab!TabInit, TabInv, Tab!SessionsApart, Answers, Tab!NoRequests, Tab!NoData

\* Asking for a view gives up what it asked for before.
LEMMA AsksType ==
    ASSUME asking \in Answers, NEW kind \in {"check", "view", "chain"},
           NEW c \in Token \cup {None}, Tab!Asks(kind, c)
    PROVE  /\ asking' \in Answers
           /\ kind = "view" => asking'["view"] = c
           /\ kind # "view" => asking'["view"] = asking["view"]
BY DEF Answers, Tab!Asks

LEMMA TabOpens ==
    ASSUME TabInv, NEW v \in View, Tab!Open(v), UNCHANGED <<accepted, held, cached>>,
           gate = "in" \/ cached = Tab!NoData
    PROVE  TabInv'
<1>1. asking' \in Answers /\ asking'["view"] \in {held, None}
  BY AsksType DEF Tab!Open, TabInv
<1>2. gate' \in {"in", "out"}
  BY DEF Tab!Open
<1> QED BY <1>1, <1>2 DEF TabInv, Tab!SessionsApart

LEMMA TabLeaves ==
    ASSUME TabInv, Tab!Leave
    PROVE  TabInv'
<1>1. asking' \in Answers /\ asking'["view"] = None
  BY AsksType DEF Tab!Leave, Tab!Forget, TabInv
<1>2. Tab!NoData \in [View -> Token \cup {None}]
  BY DEF Tab!NoData
<1> QED BY <1>1, <1>2 DEF Tab!Leave, Tab!Forget, TabInv, Tab!SessionsApart

LEMMA TabStep ==
    ASSUME TabInv, [Tab!TabNext]_tabvars
    PROVE  TabInv'
<1>1. CASE UNCHANGED tabvars
  BY <1>1 DEF tabvars, TabInv, Tab!SessionsApart, Tab!NoData
<1>2. CASE Tab!SignOut
  BY <1>2, TabLeaves DEF Tab!SignOut
<1>3. CASE Tab!Submit
  <2>1. PICK c \in Token : held' = c /\ Tab!Asks("check", c)
    BY <1>3 DEF Tab!Submit
  <2>2. asking' \in Answers /\ asking'["view"] = asking["view"]
    BY <2>1, AsksType DEF TabInv
  <2> QED BY <1>3, <2>1, <2>2 DEF Tab!Submit, TabInv, Tab!SessionsApart, Tab!NoData
<1>4. CASE Tab!CheckAccepted
  BY <1>4, TabOpens DEF Tab!CheckAccepted, TabInv, Tab!SessionsApart
<1>5. CASE Tab!CheckFails
  <2>1. asking' \in Answers /\ asking'["view"] = asking["view"]
    BY <1>5, AsksType DEF Tab!CheckFails, TabInv
  <2> QED BY <1>5, <2>1 DEF Tab!CheckFails, TabInv, Tab!SessionsApart, Tab!NoData
<1>6. CASE Tab!OpenView
  BY <1>6, TabOpens DEF Tab!OpenView
<1>7. CASE Tab!ViewAnswered
  <2>1. asking' \in Answers /\ asking'["view"] = None
    BY <1>7, AsksType DEF Tab!ViewAnswered, TabInv
  <2>1a. asking["view"] # None
    BY <1>7 DEF Tab!ViewAnswered
  <2>2. gate \notin {"ask", "checking"} /\ gate' \notin {"ask", "checking"}
    BY <1>7, <2>1a DEF Tab!ViewAnswered, TabInv, Tab!SessionsApart
  <2>3. CASE asking["view"] = accepted /\ cached' = [cached EXCEPT ![view] = accepted]
             /\ UNCHANGED <<held, gate, accepted>>
    <3>1. held # None => accepted = held
      BY <2>1a, <2>3 DEF TabInv, Tab!SessionsApart
    <3>2. \A v \in View : cached'[v] \in {cached[v], accepted}
      BY <2>3 DEF TabInv
    <3>3. cached' \in [View -> Token \cup {None}]
      BY <2>3 DEF TabInv
    <3>4. held # None => \A v \in View : cached'[v] \in {held, None}
      BY <3>1, <3>2 DEF TabInv, Tab!SessionsApart
    <3> QED BY <2>1, <2>2, <2>3, <3>3, <3>4 DEF TabInv, Tab!SessionsApart
  <2>4. CASE held' \in {held, None} /\ UNCHANGED <<cached, accepted>>
    BY <2>1, <2>2, <2>4 DEF TabInv, Tab!SessionsApart
  <2> QED BY <1>7, <2>3, <2>4 DEF Tab!ViewAnswered
<1>8. CASE Tab!AskForChain
  <2>1. CASE Tab!Leave
    BY <2>1, TabLeaves
  <2>2. CASE asking' = [asking EXCEPT !["chain"] = held]
             /\ UNCHANGED <<accepted, held, gate, view, cached>>
    <3>1. asking' \in Answers /\ asking'["view"] = asking["view"]
      BY <2>2 DEF TabInv, Answers
    <3> QED BY <2>2, <3>1 DEF TabInv, Tab!SessionsApart, Tab!NoData
  <2> QED BY <1>8, <2>1, <2>2 DEF Tab!AskForChain
<1>9. CASE Tab!ChainAnswered
  <2>1. CASE asking' = [asking EXCEPT !["chain"] = None] /\ held' \in {held, None}
             /\ UNCHANGED <<accepted, gate, view, cached>>
    <3>1. asking' \in Answers /\ asking'["view"] = asking["view"]
      BY <2>1 DEF TabInv, Answers
    <3> QED BY <2>1, <3>1 DEF TabInv, Tab!SessionsApart, Tab!NoData
  <2>2. CASE /\ held' = None /\ accepted' = accepted /\ view' = None
             /\ cached' = Tab!NoData /\ asking' = Tab!NoRequests
    BY <2>2 DEF TabInv, Tab!SessionsApart, Tab!NoData, Tab!NoRequests, Answers
  <2> QED BY <1>9, <2>1, <2>2 DEF Tab!ChainAnswered
<1>10. CASE Tab!Rotate
  BY <1>10 DEF Tab!Rotate, TabInv, Tab!SessionsApart, Tab!NoData
<1>11. CASE Tab!Reload
  <2>1. asking' \in Answers /\ asking'["view"] = held
    BY <1>11 DEF Tab!Reload, TabInv, Tab!NoRequests, Answers
  <2>2. held = None => view' = None
    BY <1>11 DEF Tab!Reload
  <2> QED BY <1>11, <2>1, <2>2 DEF Tab!Reload, TabInv, Tab!SessionsApart, Tab!NoData
<1> QED BY <1>1, <1>2, <1>3, <1>4, <1>5, <1>6, <1>7, <1>8, <1>9, <1>10, <1>11 DEF Tab!TabNext

LEMMA TabAlways == Spec => [](part = "tab" => TabInv)
<1> DEFINE Inv == part = "tab" => TabInv
<1>1. Init => Inv
  BY TabBegins DEF Init
<1>2. Inv /\ [Next]_<<part, statevars, answervars>> => Inv'
  <2> SUFFICES ASSUME Inv, [Next]_<<part, statevars, answervars>>, part' = "tab"
               PROVE  TabInv'
    OBVIOUS
  <2>1. part = "tab" /\ TabInv
    BY DEF Next
  <2>2. [Tab!TabNext]_tabvars
    BY <2>1 DEF Next, answervars
  <2> QED BY <2>1, <2>2, TabStep
<1> QED BY <1>1, <1>2, PTL DEF Spec

\* Outside of the gate there is no data, and inside all of it was got with the
\* credential that is stored, for any credentials and views.
THEOREM SessionsAreApart == Spec => []SessionsApart
<1> DEFINE Inv == part = "tab" => TabInv
<1>1. Inv => SessionsApart
  BY DEF TabInv, SessionsApart
<1> QED BY <1>1, TabAlways, PTL

\* What else the types of the tab say.
TabTypes == gate \in {"ask", "checking", "in", "out"} /\ view \in View \cup {None}

LEMMA TabTypesStep ==
    ASSUME TabTypes, [Tab!TabNext]_tabvars
    PROVE  TabTypes'
<1>1. CASE UNCHANGED tabvars
  BY <1>1 DEF tabvars, TabTypes
<1>2. CASE \/ Tab!SignOut \/ Tab!Submit \/ Tab!CheckFails \/ Tab!ViewAnswered \/ Tab!AskForChain
           \/ Tab!ChainAnswered \/ Tab!Rotate \/ Tab!Reload
  BY <1>2
    DEF TabTypes, Tab!SignOut, Tab!Leave, Tab!Submit, Tab!CheckFails, Tab!ViewAnswered, Tab!AskForChain,
      Tab!ChainAnswered, Tab!Rotate, Tab!Reload
<1>3. CASE Tab!CheckAccepted \/ Tab!OpenView
  BY <1>3 DEF TabTypes, Tab!CheckAccepted, Tab!OpenView, Tab!Open
<1> QED BY <1>1, <1>2, <1>3 DEF Tab!TabNext

\* Each part's types: the tab.
LEMMA TabTyped == Spec => [](part = "tab" => Tab!TabTypeOK)
<1> DEFINE Inv == part = "tab" => TabInv
           Types == part = "tab" => TabTypes
<1>1. Init => Types
  BY DEF Init, TabTypes, Tab!TabInit
<1>2. Types /\ [Next]_<<part, statevars, answervars>> => Types'
  <2> SUFFICES ASSUME Types, [Next]_<<part, statevars, answervars>>, part' = "tab"
               PROVE  TabTypes'
    OBVIOUS
  <2>1. part = "tab" /\ TabTypes
    BY DEF Next
  <2>2. [Tab!TabNext]_tabvars
    BY <2>1 DEF Next, answervars
  <2> QED BY <2>1, <2>2, TabTypesStep
<1>3. Inv /\ Types => (part = "tab" => Tab!TabTypeOK)
  BY DEF TabInv, TabTypes, Tab!TabTypeOK, Answers
<1> QED BY <1>1, <1>2, <1>3, TabAlways, PTL DEF Spec

-----------------------------------------------------------------------------
(* The usage ledger: what of its types has nothing to do with the count *)

UsageTypes ==
    /\ writing \in Client \cup {None}
    /\ report.at \in {"idle", "tasks", "cost", "tiers", "agents", "done"}
    /\ DOMAIN report = DOMAIN Usage!NoReport

LEMMA UsageTypesBegin == Usage!UsageInit => UsageTypes
BY DEF Usage!UsageInit, UsageTypes, Usage!NoReport

LEMMA UsageTypesStep ==
    ASSUME UsageTypes, [Usage!UsageNext]_usagevars
    PROVE  UsageTypes'
<1>1. CASE UNCHANGED usagevars
  BY <1>1 DEF usagevars, UsageTypes
<1>2. ASSUME NEW c \in Client,
             \/ Usage!RecordUsage(c) \/ Usage!CountRecent(c) \/ Usage!InsertEvent(c)
             \/ Usage!CommitEvent(c) \/ Usage!AuditEvent(c) \/ Usage!RecordFails(c)
      PROVE  UsageTypes'
  BY <1>2
    DEF UsageTypes, Usage!RecordUsage, Usage!CountRecent, Usage!InsertEvent, Usage!CommitEvent,
      Usage!AuditEvent, Usage!RecordFails
<1>3. CASE Usage!HourPasses
  BY <1>3 DEF UsageTypes, Usage!HourPasses
<1>4. "at" \in DOMAIN Usage!NoReport /\ Usage!NoReport.at = "idle"
  BY DEF Usage!NoReport
<1>5. CASE Usage!UsageReport
  BY <1>4, <1>5 DEF UsageTypes, Usage!UsageReport
<1>6. CASE Usage!ReadTasks
  BY <1>4, <1>6 DEF UsageTypes, Usage!ReadTasks
<1>7. CASE Usage!ReadTaskCost
  BY <1>4, <1>7 DEF UsageTypes, Usage!ReadTaskCost
<1>8. CASE Usage!ReadTiers
  BY <1>4, <1>8 DEF UsageTypes, Usage!ReadTiers
<1>9. CASE Usage!ReadAgents
  BY <1>4, <1>9 DEF UsageTypes, Usage!ReadAgents
<1>10. CASE Usage!AnswerReport
  BY <1>4, <1>10 DEF UsageTypes, Usage!AnswerReport
<1> QED BY <1>1, <1>2, <1>3, <1>5, <1>6, <1>7, <1>8, <1>9, <1>10 DEF Usage!UsageNext

LEMMA UsageTypesAlways == Spec => [](part = "usage" => UsageTypes)
<1> DEFINE Types == part = "usage" => UsageTypes
<1>1. Init => Types
  BY UsageTypesBegin DEF Init
<1>2. Types /\ [Next]_<<part, statevars, answervars>> => Types'
  <2> SUFFICES ASSUME Types, [Next]_<<part, statevars, answervars>>, part' = "usage"
               PROVE  UsageTypes'
    OBVIOUS
  <2>1. part = "usage" /\ UsageTypes
    BY DEF Next
  <2>2. [Usage!UsageNext]_usagevars
    BY <2>1 DEF Next, answervars
  <2> QED BY <2>1, <2>2, UsageTypesStep
<1> QED BY <1>1, <1>2, PTL DEF Spec

-----------------------------------------------------------------------------
(* The usage ledger *)

CoreProof == INSTANCE CoreParts_proofs
    WITH Event <- Reports, OtherAgents <- 0, Gigabytes <- {1, 2}, Root <- {One}, Label <- Labels

\* The module of the proofs says the same of the usage ledger as MCParts does.
LEMMA UsageCardinality ==
    /\ \A S : Usage!IsFiniteSet(S) <=> CoreProof!IsFiniteSet(S)
    /\ \A S : Usage!Cardinality(S) = CoreProof!Cardinality(S)
BY DEF Usage!IsFiniteSet, CoreProof!IsFiniteSet, Usage!Cardinality, CoreProof!Cardinality

LEMMA UsageSame ==
    /\ Usage!UsageInit => CoreProof!UsageInit
    /\ Usage!UsageAssumption => CoreProof!UsageAssumption
    /\ CoreProof!LimitAlmostHolds => Usage!LimitAlmostHolds
<1>1. Usage!UsageInit => CoreProof!UsageInit
  BY DEF Usage!UsageInit, CoreProof!UsageInit, Usage!IdleReporter, CoreProof!IdleReporter,
    Usage!NoReport, CoreProof!NoReport, Usage!Nothing, CoreProof!Nothing
<1> QED BY <1>1, UsageCardinality
    DEF Usage!UsageAssumption, CoreProof!UsageAssumption, Usage!LimitAlmostHolds,
      CoreProof!LimitAlmostHolds

\* A step is one that records or leaves the rows alone.
LEMMA UsageMoves ==
    ASSUME [Next]_<<part, statevars, answervars>>, part = "usage"
    PROVE  CoreProof!Recording
<1>1. CASE UNCHANGED <<part, statevars, answervars>>
  BY <1>1 DEF answervars, usagevars, CoreProof!Recording
<1>2. CASE Usage!UsageNext
  <2>1. CASE UNCHANGED <<rows, fresh, writing, reporter>>
    BY <2>1 DEF CoreProof!Recording
  <2>2. ASSUME NEW c \in Client, Usage!CountRecent(c) PROVE CoreProof!CountRecent(c)
    BY <2>2, UsageCardinality DEF Usage!CountRecent, CoreProof!CountRecent, Usage!UnderLimit,
      CoreProof!UnderLimit, Usage!IdleReporter, CoreProof!IdleReporter
  <2>3. ASSUME NEW c \in Client
        PROVE  /\ Usage!RecordUsage(c) => CoreProof!RecordUsage(c)
               /\ Usage!InsertEvent(c) => CoreProof!InsertEvent(c)
               /\ Usage!CommitEvent(c) => CoreProof!CommitEvent(c)
               /\ Usage!AuditEvent(c) => CoreProof!AuditEvent(c)
               /\ Usage!RecordFails(c) => CoreProof!RecordFails(c)
    BY DEF Usage!RecordUsage, CoreProof!RecordUsage, Usage!InsertEvent,
      CoreProof!InsertEvent, Usage!CommitEvent, CoreProof!CommitEvent, Usage!AuditEvent,
      CoreProof!AuditEvent, Usage!RecordFails, CoreProof!RecordFails,
      Usage!IdleReporter, CoreProof!IdleReporter
  <2>4. Usage!HourPasses => CoreProof!HourPasses
    BY DEF Usage!HourPasses, CoreProof!HourPasses, Usage!Min, CoreProof!Min
  <2>5. CASE Usage!UsageReport \/ Usage!ReadTasks \/ Usage!ReadTaskCost \/ Usage!ReadTiers
             \/ Usage!ReadAgents \/ Usage!AnswerReport
    BY <2>1, <2>5 DEF Usage!UsageReport, Usage!ReadTasks, Usage!ReadTaskCost,
      Usage!ReadTiers, Usage!ReadAgents, Usage!AnswerReport
  <2> QED BY <1>2, <2>2, <2>3, <2>4, <2>5 DEF Usage!UsageNext, CoreProof!Recording
<1> QED BY <1>1, <1>2 DEF Next

LEMMA CountAlways == Spec => [](part = "usage" => CoreProof!CountInv)
<1> DEFINE Inv == part = "usage" => CoreProof!CountInv
<1>1. Init => Inv
  <2> SUFFICES ASSUME Init, part = "usage" PROVE CoreProof!CountInv
    OBVIOUS
  <2>1. Usage!UsageInit
    BY DEF Init
  <2> QED BY <2>1, UsageSame, CoreProof!CountBegins, PartsAssumption DEF PartsAssumption
<1>2. Inv /\ [Next]_<<part, statevars, answervars>> => Inv'
  <2> SUFFICES ASSUME Inv, [Next]_<<part, statevars, answervars>>, part' = "usage"
               PROVE  CoreProof!CountInv'
    OBVIOUS
  <2>1. part = "usage"
    BY DEF Next
  <2>2. CoreProof!CountInv /\ CoreProof!Recording
    BY <2>1, UsageMoves
  <2> QED BY <2>2, UsageSame, CoreProof!CountStep, PartsAssumption
<1> QED BY <1>1, <1>2, PTL DEF Spec

\* The limit of the usage ledger is passed by at most one report of every other
\* concurrent caller.
THEOREM UsageLimit == Spec => []LimitAlmostHolds
<1> DEFINE Inv == part = "usage" => CoreProof!CountInv
<1>1. Inv => LimitAlmostHolds
  BY UsageSame, CoreProof!CountLimits, PartsAssumption DEF LimitAlmostHolds
<1> QED BY <1>1, CountAlways, PTL

\* Each part's types: the usage ledger.
LEMMA UsageTyped == Spec => [](part = "usage" => Usage!UsageTypeOK)
<1>1. (part = "usage" => CoreProof!CountInv) /\ (part = "usage" => UsageTypes) => (part = "usage" => Usage!UsageTypeOK)
  BY DEF CoreProof!CountInv, CoreProof!RowTypes, CoreProof!Reporter, UsageTypes, Usage!UsageTypeOK, Usage!Keys
<1> QED BY <1>1, CountAlways, UsageTypesAlways, PTL

-----------------------------------------------------------------------------
(* The code index *)

LEMMA IndexSame ==
    /\ Index!NoQuery = CoreProof!Index!NoQuery
    /\ Index!IndexAssumption => CoreProof!Index!IndexAssumption
    /\ Index!IndexInit => CoreProof!Index!IndexInit
    /\ CoreProof!Index!AnswerIsTheTree => Index!AnswerIsTheTree
<1>1. Index!NoQuery = CoreProof!Index!NoQuery
  BY DEF Index!NoQuery, CoreProof!Index!NoQuery
<1>2. Index!IndexAssumption => CoreProof!Index!IndexAssumption
  BY DEF Index!IndexAssumption, CoreProof!Index!IndexAssumption, Index!Row, CoreProof!Index!Row,
    Index!Version, CoreProof!Index!Version
<1>3. Index!IndexInit => CoreProof!Index!IndexInit
  BY <1>1 DEF Index!IndexInit, CoreProof!Index!IndexInit
<1>4. CoreProof!Index!AnswerIsTheTree => Index!AnswerIsTheTree
  BY DEF Index!AnswerIsTheTree, CoreProof!Index!AnswerIsTheTree, Index!RowsOfTheirMtime,
    CoreProof!Index!RowsOfTheirMtime, Index!RacedRowsGo, CoreProof!Index!RacedRowsGo,
    Index!AnswersAreCurrent, CoreProof!Index!AnswersAreCurrent
<1> QED BY <1>1, <1>2, <1>3, <1>4

LEMMA IndexSteps ==
    ASSUME Index!IndexNext
    PROVE  CoreProof!Index!IndexNext
<1>1. \A c \in Client : Index!Running(c) <=> CoreProof!Index!Running(c)
  BY DEF Index!Running, CoreProof!Index!Running
<1>2. ASSUME NEW c \in Client PROVE Index!Ask(c) => CoreProof!Index!Ask(c)
  BY <1>1, IndexSame DEF Index!Ask, CoreProof!Index!Ask, Index!treevars, CoreProof!Index!treevars
<1>3. ASSUME NEW c \in Client
      PROVE  /\ Index!ListDirectory(c) => CoreProof!Index!ListDirectory(c)
             /\ Index!StatFile(c) => CoreProof!Index!StatFile(c)
             /\ Index!ParseFile(c) => CoreProof!Index!ParseFile(c)
             /\ Index!ReplaceFileRows(c) => CoreProof!Index!ReplaceFileRows(c)
             /\ Index!FindStale(c) => CoreProof!Index!FindStale(c)
             /\ Index!DeleteFileRows(c) => CoreProof!Index!DeleteFileRows(c)
  BY DEF Index!treevars, CoreProof!Index!treevars, Index!ListDirectory, CoreProof!Index!ListDirectory, Index!StatFile,
    CoreProof!Index!StatFile, Index!ParseFile, CoreProof!Index!ParseFile, Index!ReplaceFileRows,
    CoreProof!Index!ReplaceFileRows, Index!FindStale, CoreProof!Index!FindStale,
    Index!DeleteFileRows, CoreProof!Index!DeleteFileRows
<1>4. ASSUME NEW c \in Client
      PROVE  /\ Index!QuerySymbol(c) => CoreProof!Index!QuerySymbol(c)
             /\ Index!QueryDies(c) => CoreProof!Index!QueryDies(c)
  BY <1>1, IndexSame
    DEF Index!QuerySymbol, CoreProof!Index!QuerySymbol, Index!QueryDies, CoreProof!Index!QueryDies,
      Index!treevars, CoreProof!Index!treevars
<1>5. \A f : Index!Disturbed(f) = CoreProof!Index!Disturbed(f)
  BY <1>1, Zenon DEF Index!Disturbed, CoreProof!Index!Disturbed
<1>6. ASSUME NEW f \in File
      PROVE  /\ Index!EditFile(f) => CoreProof!Index!EditFile(f)
             /\ Index!RestoreFile(f) => CoreProof!Index!RestoreFile(f)
             /\ Index!MoveFile(f) => CoreProof!Index!MoveFile(f)
  BY <1>5 DEF Index!EditFile, CoreProof!Index!EditFile, Index!RestoreFile,
    CoreProof!Index!RestoreFile, Index!MoveFile, CoreProof!Index!MoveFile, Index!Tick,
    CoreProof!Index!Tick
<1>7. Index!ShutDirectories => CoreProof!Index!ShutDirectories
  BY <1>5 DEF Index!ShutDirectories, CoreProof!Index!ShutDirectories, Index!Tick,
    CoreProof!Index!Tick
<1> QED BY <1>2, <1>3, <1>4, <1>6, <1>7 DEF Index!IndexNext, CoreProof!Index!IndexNext

LEMMA IndexAlways == Spec => [](part = "index" => CoreProof!IndexInv)
<1> DEFINE Inv == part = "index" => CoreProof!IndexInv
<1>1. Init => Inv
  BY IndexSame, CoreProof!IndexBegins, PartsAssumption DEF Init, PartsAssumption
<1>2. Inv /\ [Next]_<<part, statevars, answervars>> => Inv'
  <2> SUFFICES ASSUME Inv, [Next]_<<part, statevars, answervars>>, part' = "index"
               PROVE  CoreProof!IndexInv'
    OBVIOUS
  <2>1. part = "index" /\ CoreProof!IndexInv
    BY DEF Next
  <2>2. [CoreProof!Index!IndexNext]_(CoreProof!Index!indexvars)
    BY <2>1, IndexSteps DEF Next, statevars, indexvars, CoreProof!Index!indexvars,
      CoreProof!Index!treevars
  <2> QED BY <2>1, <2>2, IndexSame, CoreProof!IndexStep, PartsAssumption DEF PartsAssumption
<1> QED BY <1>1, <1>2, PTL DEF Spec

\* AnswerIsTheTree: rows that no edit overtook between stat and parse have the content
\* of their mtime; those that one did have another mtime than the file, until an old
\* one comes back; and a query that nobody disturbs answers from rows of the mtimes
\* the files have (query_code_index of query.py, store.py).  For any files,
\* directories and queries.
THEOREM IndexIsTheTree == Spec => []AnswerIsTheTree
<1> DEFINE Inv == part = "index" => CoreProof!IndexInv
<1>1. Inv => AnswerIsTheTree
  BY IndexSame, CoreProof!IndexAnswers, PartsAssumption DEF PartsAssumption, AnswerIsTheTree
<1> QED BY <1>1, IndexAlways, PTL

\* Each part's types: the code index.
LEMMA IndexTyped == Spec => [](part = "index" => Index!IndexTypeOK)
<1>1. (part = "index" => CoreProof!IndexInv) => (part = "index" => Index!IndexTypeOK)
  BY DEF CoreProof!IndexInv, CoreProof!TableInv, CoreProof!Query, Index!IndexTypeOK, Index!Row, Index!Version,
    CoreProof!Index!Row, CoreProof!Index!Version
<1> QED BY <1>1, IndexAlways, PTL

-----------------------------------------------------------------------------
(* The orchestrator *)

\* The module of the proofs says the same of the orchestrator as MCParts does.
LEMMA DagNames ==
    /\ Dag!Node = CoreProof!Dag!Node
    /\ \A f : Dag!Range(f) = CoreProof!Dag!Range(f)
    /\ \A f : Dag!IsInjective(f) <=> CoreProof!Dag!IsInjective(f)
    /\ \A S : Dag!Cardinality(S) = CoreProof!Dag!Cardinality(S)
    /\ \A S : Dag!Listed(S) = CoreProof!Dag!Listed(S)
    /\ \A n : Dag!Dependents(n) = CoreProof!Dag!Dependents(n)
    /\ \A n : Dag!Behind(n) = CoreProof!Dag!Behind(n)
<1>1. \A f : Dag!Range(f) = CoreProof!Dag!Range(f)
  BY DEF Dag!Range, CoreProof!Dag!Range
<1>2. Dag!Node = CoreProof!Dag!Node
  BY <1>1 DEF Dag!Node, CoreProof!Dag!Node
<1>3. \A f : Dag!IsInjective(f) <=> CoreProof!Dag!IsInjective(f)
  BY DEF Dag!IsInjective, CoreProof!Dag!IsInjective
<1>4. \A S : Dag!Cardinality(S) = CoreProof!Dag!Cardinality(S)
  BY DEF Dag!Cardinality, CoreProof!Dag!Cardinality, Dag!IsFiniteSet, CoreProof!Dag!IsFiniteSet
<1>5. \A S : Dag!Listed(S) = CoreProof!Dag!Listed(S)
  BY DEF Dag!Listed, CoreProof!Dag!Listed
<1>6. \A n : Dag!Dependents(n) = CoreProof!Dag!Dependents(n)
  BY <1>2 DEF Dag!Dependents, CoreProof!Dag!Dependents
<1>7. \A n : Dag!Behind(n) = CoreProof!Dag!Behind(n)
  <2>1. \A R : Dag!Closed(R) <=> CoreProof!Dag!Closed(R)
    BY <1>2 DEF Dag!Closed, CoreProof!Dag!Closed
  <2> QED BY <1>2, <2>1 DEF Dag!Behind, CoreProof!Dag!Behind
<1> QED BY <1>1, <1>2, <1>3, <1>4, <1>5, <1>6, <1>7

LEMMA DagSame ==
    /\ Dag!DagAssumption => CoreProof!Dag!DagAssumption
    /\ Dag!DagInit => CoreProof!Dag!DagInit
    /\ CoreProof!Dag!DagTypeOK => Dag!DagTypeOK
    /\ CoreProof!Dag!DagIsFollowed => Dag!DagIsFollowed
<1>1. Dag!DagAssumption => CoreProof!Dag!DagAssumption
  BY DagNames DEF Dag!DagAssumption, CoreProof!Dag!DagAssumption
<1>2. Dag!DagInit => CoreProof!Dag!DagInit
  BY DagNames DEF Dag!DagInit, CoreProof!Dag!DagInit
<1>3. CoreProof!Dag!DagTypeOK => Dag!DagTypeOK
  BY DagNames DEF Dag!DagTypeOK, CoreProof!Dag!DagTypeOK
<1>4. CoreProof!Dag!DagIsFollowed => Dag!DagIsFollowed
  <2>1. Dag!Runnable <=> CoreProof!Dag!Runnable
    BY DagNames DEF Dag!Runnable, CoreProof!Dag!Runnable
  <2> QED BY <2>1, DagNames DEF Dag!DagIsFollowed, CoreProof!Dag!DagIsFollowed
<1> QED BY <1>1, <1>2, <1>3, <1>4

LEMMA DagSteps ==
    ASSUME Dag!DagNext
    PROVE  CoreProof!Dag!DagNext
<1>1. Dag!CheckNames => CoreProof!Dag!CheckNames
  BY DagNames DEF Dag!CheckNames, CoreProof!Dag!CheckNames
<1>2. Dag!TakeReady => CoreProof!Dag!TakeReady
  BY DagNames DEF Dag!TakeReady, CoreProof!Dag!TakeReady
<1>3. Dag!N = CoreProof!Dag!N /\ (Dag!DepFailed <=> CoreProof!Dag!DepFailed)
  BY DEF Dag!N, CoreProof!Dag!N, Dag!DepFailed, CoreProof!Dag!DepFailed
<1>4. /\ Dag!Sorted => CoreProof!Dag!Sorted
      /\ Dag!DagReturns => CoreProof!Dag!DagReturns
  BY DEF Dag!Sorted, CoreProof!Dag!Sorted, Dag!DagReturns, CoreProof!Dag!DagReturns
<1>5. Dag!SkipNode => CoreProof!Dag!SkipNode
  BY <1>3 DEF Dag!SkipNode, CoreProof!Dag!SkipNode, Dag!Tell, CoreProof!Dag!Tell
<1>6. /\ Dag!RunNode => CoreProof!Dag!RunNode
      /\ Dag!HandleFailure => CoreProof!Dag!HandleFailure
  BY <1>3 DEF Dag!RunNode, CoreProof!Dag!RunNode, Dag!HandleFailure, CoreProof!Dag!HandleFailure
<1> QED BY <1>1, <1>2, <1>4, <1>5, <1>6 DEF Dag!DagNext, CoreProof!Dag!DagNext

LEMMA DagAlways == Spec => [](part = "dag" => CoreProof!DagInv)
<1> DEFINE Inv == part = "dag" => CoreProof!DagInv
<1>1. Init => Inv
  BY DagSame, CoreProof!DagStarts, PartsAssumption DEF Init, PartsAssumption
<1>2. Inv /\ [Next]_<<part, statevars, answervars>> => Inv'
  <2> SUFFICES ASSUME Inv, [Next]_<<part, statevars, answervars>>, part' = "dag"
               PROVE  CoreProof!DagInv'
    OBVIOUS
  <2>1. part = "dag" /\ CoreProof!DagInv
    BY DEF Next
  <2>2. CoreProof!Dag!DagNext \/ UNCHANGED <<deps, degree, ready, order, turn, at, result, told>>
    BY <2>1, DagSteps DEF Next, statevars, dagvars
  <2> QED BY <2>1, <2>2, DagSame, CoreProof!DagStep, PartsAssumption DEF PartsAssumption
<1> QED BY <1>1, <1>2, PTL DEF Spec

\* A dag without a cycle or an unknown id is run in an order that its depends_on
\* allow, every other is refused before a node runs, and each node has the result
\* and the record that those it depends on leave it.  For any nodes and dags.
THEOREM DagIsKeptTo == Spec => []DagIsFollowed
<1> DEFINE Inv == part = "dag" => CoreProof!DagInv
<1>1. Inv => DagIsFollowed
  BY DagSame, CoreProof!DagFollows, PartsAssumption DEF PartsAssumption, DagIsFollowed
<1> QED BY <1>1, DagAlways, PTL

\* Each part's types: the orchestrator.
LEMMA DagTyped == Spec => [](part = "dag" => Dag!DagTypeOK)
<1>1. (part = "dag" => CoreProof!DagInv) => (part = "dag" => Dag!DagTypeOK)
  BY DagSame DEF CoreProof!DagInv
<1> QED BY <1>1, DagAlways, PTL

-----------------------------------------------------------------------------
(* The choice of a model *)

\* The module of the proofs says the same of the choice of a model as MCParts does.
LEMMA RouteNames ==
    /\ Route!Tiers = CoreProof!Route!Tiers
    /\ Route!Requests = CoreProof!Route!Requests
    /\ Route!NoDecision = CoreProof!Route!NoDecision
    /\ \A S : Route!First(S) = CoreProof!Route!First(S)
    /\ \A local : Route!EligibleTiers(local) = CoreProof!Route!EligibleTiers(local)
<1>1. /\ Route!Tiers = CoreProof!Route!Tiers
      /\ Route!Requests = CoreProof!Route!Requests
      /\ Route!NoDecision = CoreProof!Route!NoDecision
      /\ \A local : Route!EligibleTiers(local) = CoreProof!Route!EligibleTiers(local)
  BY DEF Route!Tiers, CoreProof!Route!Tiers, Route!Requests, CoreProof!Route!Requests,
    Route!NoDecision, CoreProof!Route!NoDecision, Route!EligibleTiers, CoreProof!Route!EligibleTiers
<1>2. \A s, t : Route!TierOrder(s, t) <=> CoreProof!Route!TierOrder(s, t)
  BY DEF Route!TierOrder, CoreProof!Route!TierOrder
<1>3. \A S : Route!First(S) = CoreProof!Route!First(S)
  BY <1>2 DEF Route!First, CoreProof!Route!First
<1> QED BY <1>1, <1>3

LEMMA RouteSame ==
    /\ Route!RouteAssumption => CoreProof!Route!RouteAssumption
    /\ Route!RouteInit => CoreProof!Route!RouteInit
    /\ CoreProof!Route!RouteFits => Route!RouteFits
<1>1. Route!RouteAssumption => CoreProof!Route!RouteAssumption
  BY DEF Route!RouteAssumption, CoreProof!Route!RouteAssumption
<1>2. Route!RouteInit => CoreProof!Route!RouteInit
  BY RouteNames DEF Route!RouteInit, CoreProof!Route!RouteInit
<1>3. CoreProof!Route!RouteFits => Route!RouteFits
  BY DEF Route!RouteFits, CoreProof!Route!RouteFits
<1> QED BY <1>1, <1>2, <1>3

LEMMA RouteSteps ==
    ASSUME Route!RouteNext
    PROVE  CoreProof!Route!RouteNext
<1>1. \A r, E : Route!Target(r, E) = CoreProof!Route!Target(r, E)
  BY RouteNames DEF Route!Target, CoreProof!Route!Target
<1>2. \A r, E : Route!Fallback(r, E) = CoreProof!Route!Fallback(r, E)
  BY RouteNames DEF Route!Fallback, CoreProof!Route!Fallback, Route!Fitting, CoreProof!Route!Fitting
<1>3. Route!RouteRequest => CoreProof!Route!RouteRequest
  <2> SUFFICES ASSUME Route!RouteRequest PROVE CoreProof!Route!RouteRequest
    OBVIOUS
  <2>1. PICK r \in Route!Requests :
           LET eligible == Route!EligibleTiers(r.local)
               target == Route!Target(r, eligible)
               watchdog == r.free # None /\ catalog[target].ram > r.free IN
           /\ decision = Route!NoDecision
           /\ decision' =
                IF eligible = {} THEN [Route!NoDecision EXCEPT !.request = r]
                ELSE [request |-> r, fallback |-> watchdog,
                      tier |-> IF watchdog THEN Route!Fallback(r, eligible) ELSE target,
                      forced |-> /\ r.local /\ r.preferred \in DOMAIN catalog
                                 /\ catalog[r.preferred].cloud]
           /\ UNCHANGED catalog
    BY Zenon DEF Route!RouteRequest
  <2>2. /\ r \in CoreProof!Route!Requests /\ Route!NoDecision = CoreProof!Route!NoDecision
        /\ Route!EligibleTiers(r.local) = CoreProof!Route!EligibleTiers(r.local)
    BY RouteNames
  <2>3. /\ Route!Target(r, Route!EligibleTiers(r.local))
              = CoreProof!Route!Target(r, Route!EligibleTiers(r.local))
        /\ Route!Fallback(r, Route!EligibleTiers(r.local))
              = CoreProof!Route!Fallback(r, Route!EligibleTiers(r.local))
    BY <1>1, <1>2, Zenon
  <2> QED BY <2>1, <2>2, <2>3, Zenon DEF CoreProof!Route!RouteRequest
<1>4. Route!NextRequest => CoreProof!Route!NextRequest
  BY RouteNames DEF Route!NextRequest, CoreProof!Route!NextRequest
<1> QED BY <1>3, <1>4 DEF Route!RouteNext, CoreProof!Route!RouteNext

LEMMA RouteAlways == Spec => [](part = "route" => CoreProof!RouteInv)
<1> DEFINE Inv == part = "route" => CoreProof!RouteInv
<1>1. Init => Inv
  BY RouteSame, CoreProof!RouteBegins, PartsAssumption DEF Init, PartsAssumption
<1>2. Inv /\ [Next]_<<part, statevars, answervars>> => Inv'
  <2> SUFFICES ASSUME Inv, [Next]_<<part, statevars, answervars>>, part' = "route"
               PROVE  CoreProof!RouteInv'
    OBVIOUS
  <2>1. part = "route" /\ CoreProof!RouteInv
    BY DEF Next
  <2>2. CoreProof!Route!RouteNext \/ UNCHANGED <<catalog, decision>>
    BY <2>1, RouteSteps DEF Next, answervars, routevars
  <2> QED BY <2>1, <2>2, RouteSame, CoreProof!RouteStep, PartsAssumption DEF PartsAssumption
<1> QED BY <1>1, <1>2, PTL DEF Spec

\* What a request is answered with may be used, fits if any tier that may be used
\* does, and is the preferred one if that fits.  For any catalog.
THEOREM RoutingFits == Spec => []RouteFits
<1> DEFINE Inv == part = "route" => CoreProof!RouteInv
<1>1. Inv => RouteFits
  BY RouteSame, PartsAssumption DEF CoreProof!RouteInv, PartsAssumption, RouteFits
<1> QED BY <1>1, RouteAlways, PTL

\* Each part's types: the choice of a model.
LEMMA RouteTyped == Spec => [](part = "route" => Route!RouteTypeOK)
<1>1. (part = "route" => CoreProof!RouteInv) => (part = "route" => Route!RouteTypeOK)
  BY RouteNames DEF CoreProof!RouteInv, CoreProof!Route!RouteTypeOK, Route!RouteTypeOK
<1> QED BY <1>1, RouteAlways, PTL

-----------------------------------------------------------------------------
(* The memory *)

\* The module of the proofs says the same of the memory as MCParts does.
LEMMA MemNames ==
    /\ Memory!Roots = CoreProof!Memory!Roots
    /\ Memory!Places = CoreProof!Memory!Places
    /\ Memory!NotKeeping = CoreProof!Memory!NotKeeping
    /\ Memory!NoRecall = CoreProof!Memory!NoRecall
    /\ \A S : Memory!IsFiniteSet(S) <=> CoreProof!Memory!IsFiniteSet(S)
    /\ \A S : Memory!Cardinality(S) = CoreProof!Memory!Cardinality(S)
    /\ \A S : Memory!Ranked(S) = CoreProof!Memory!Ranked(S)
<1>1. \A S : Memory!Cardinality(S) = CoreProof!Memory!Cardinality(S)
  BY DEF Memory!Cardinality, CoreProof!Memory!Cardinality
<1>2. \A S : Memory!IsFiniteSet(S) <=> CoreProof!Memory!IsFiniteSet(S)
  BY DEF Memory!IsFiniteSet, CoreProof!Memory!IsFiniteSet
<1>3. \A S : Memory!Ranked(S) = CoreProof!Memory!Ranked(S)
  BY <1>1, Zenon DEF Memory!Ranked, CoreProof!Memory!Ranked
<1>4. Memory!Roots = CoreProof!Memory!Roots
  BY DEF Memory!Roots, CoreProof!Memory!Roots
<1>5. Memory!Places = CoreProof!Memory!Places
  BY <1>4 DEF Memory!Places, CoreProof!Memory!Places
<1>6. Memory!NotKeeping = CoreProof!Memory!NotKeeping /\ Memory!NoRecall = CoreProof!Memory!NoRecall
  BY DEF Memory!NotKeeping, CoreProof!Memory!NotKeeping, Memory!NoRecall, CoreProof!Memory!NoRecall
<1> QED BY <1>1, <1>2, <1>3, <1>4, <1>5, <1>6

LEMMA MatchNames ==
    /\ \A r : Memory!Ids(r) = CoreProof!Memory!Ids(r)
    /\ \A r, i : Memory!RowOf(r, i) = CoreProof!Memory!RowOf(r, i)
    /\ \A x, r, l : Memory!Fits(x, r, l) <=> CoreProof!Memory!Fits(x, r, l)
    /\ \A r, l, w : Memory!Matching(r, l, w) = CoreProof!Memory!Matching(r, l, w)
    /\ \A s : Memory!In(s) = CoreProof!Memory!In(s)
    /\ \A s : Memory!Cut(s) = CoreProof!Memory!Cut(s)
    /\ \A i : Memory!MayShow(i) <=> CoreProof!Memory!MayShow(i)
    /\ \A i : Memory!Found(i) <=> CoreProof!Memory!Found(i)
    /\ \A S : Memory!Kept(S) = CoreProof!Memory!Kept(S)
    /\ Memory!Searched = CoreProof!Memory!Searched
<1>1. \A r : Memory!Ids(r) = CoreProof!Memory!Ids(r)
  BY DEF Memory!Ids, CoreProof!Memory!Ids
<1>2. \A r, i : Memory!RowOf(r, i) = CoreProof!Memory!RowOf(r, i)
  BY DEF Memory!RowOf, CoreProof!Memory!RowOf
<1>3. \A x, r, l : Memory!Fits(x, r, l) <=> CoreProof!Memory!Fits(x, r, l)
  BY DEF Memory!Fits, CoreProof!Memory!Fits
<1>4. \A r, l, w : Memory!Matching(r, l, w) = CoreProof!Memory!Matching(r, l, w)
  BY <1>1, <1>2, <1>3 DEF Memory!Matching, CoreProof!Memory!Matching
<1>5. \A s : Memory!In(s) = CoreProof!Memory!In(s)
  BY DEF Memory!In, CoreProof!Memory!In
<1>6. \A s : Memory!Cut(s) = CoreProof!Memory!Cut(s)
  BY DEF Memory!Cut, CoreProof!Memory!Cut
<1>7. \A i : Memory!MayShow(i) <=> CoreProof!Memory!MayShow(i)
  BY <1>2 DEF Memory!MayShow, CoreProof!Memory!MayShow
<1>8. \A i : Memory!Found(i) <=> CoreProof!Memory!Found(i)
  BY <1>1, <1>2, <1>3, <1>5 DEF Memory!Found, CoreProof!Memory!Found
<1>9. \A S : Memory!Kept(S) = CoreProof!Memory!Kept(S)
  BY <1>7, <1>8 DEF Memory!Kept, CoreProof!Memory!Kept
<1>10. Memory!Searched = CoreProof!Memory!Searched
  <2>1. {i \in 1..MaxFacts : points[i] # None /\ Memory!Fits(points[i], recall.root, recall.label)}
        = {i \in 1..MaxFacts : points[i] # None /\ CoreProof!Memory!Fits(points[i], recall.root, recall.label)}
    BY <1>3
  <2> QED BY <2>1, MemNames, Zenon DEF Memory!Searched, CoreProof!Memory!Searched
<1> QED BY <1>1, <1>2, <1>3, <1>4, <1>5, <1>6, <1>7, <1>8, <1>9, <1>10

LEMMA FusedNames == \A a, b, S : Memory!Fused(a, b, S) = CoreProof!Memory!Fused(a, b, S)
<1>1. \A s, i : Memory!Rank(s, i) = CoreProof!Memory!Rank(s, i)
  BY DEF Memory!Rank, CoreProof!Memory!Rank
<1>2. \A s, i : Memory!Share(s, i) = CoreProof!Memory!Share(s, i)
  BY <1>1, MatchNames, Zenon DEF Memory!Share, CoreProof!Memory!Share
<1>3. \A a, b, i : Memory!Score(a, b, i) = CoreProof!Memory!Score(a, b, i)
  BY <1>2, Zenon DEF Memory!Score, CoreProof!Memory!Score
<1>4. \A a, b, i, j : Memory!Earlier(a, b, i, j) <=> CoreProof!Memory!Earlier(a, b, i, j)
  BY <1>1, MatchNames, Zenon DEF Memory!Earlier, CoreProof!Memory!Earlier
<1>5. \A a, b, i, j : Memory!Above(a, b, i, j) <=> CoreProof!Memory!Above(a, b, i, j)
  <2> SUFFICES ASSUME NEW a, NEW b, NEW i, NEW j
               PROVE  Memory!Above(a, b, i, j) <=> CoreProof!Memory!Above(a, b, i, j)
    OBVIOUS
  <2>1. PICK x : x = Memory!Score(a, b, i)
    OBVIOUS
  <2>2. PICK y : y = Memory!Score(a, b, j)
    OBVIOUS
  <2>3. x = CoreProof!Memory!Score(a, b, i) /\ y = CoreProof!Memory!Score(a, b, j)
    BY <1>3, <2>1, <2>2
  <2>4. Memory!Above(a, b, i, j)
        <=> x.n * y.d > y.n * x.d \/ (x.n * y.d = y.n * x.d /\ Memory!Earlier(a, b, i, j))
    BY <2>1, <2>2 DEF Memory!Above
  <2>5. CoreProof!Memory!Above(a, b, i, j)
        <=> x.n * y.d > y.n * x.d \/ (x.n * y.d = y.n * x.d /\ CoreProof!Memory!Earlier(a, b, i, j))
    BY <2>3 DEF CoreProof!Memory!Above
  <2> QED BY <1>4, <2>4, <2>5
<1>6. ASSUME NEW a, NEW b, NEW S PROVE Memory!Fused(a, b, S) = CoreProof!Memory!Fused(a, b, S)
  <2>1. Memory!Cardinality(S) = CoreProof!Memory!Cardinality(S)
    BY MemNames
  <2> DEFINE F == [1..Memory!Cardinality(S) -> S]
  <2>2. Memory!Fused(a, b, S)
          = {f \in F : \A k, m \in DOMAIN f : k < m => Memory!Above(a, b, f[k], f[m])}
    BY DEF Memory!Fused
  <2>3. CoreProof!Memory!Fused(a, b, S)
          = {f \in F : \A k, m \in DOMAIN f : k < m => CoreProof!Memory!Above(a, b, f[k], f[m])}
    BY <2>1 DEF CoreProof!Memory!Fused
  <2> HIDE DEF F
  <2> QED BY <1>5, <2>2, <2>3
<1> QED BY <1>6

LEMMA MemSame ==
    /\ Memory!MemAssumption => CoreProof!Memory!MemAssumption
    /\ Memory!MemInit => CoreProof!Memory!MemInit
    /\ CoreProof!Memory!RecallIsRight => Memory!RecallIsRight
<1>1. Memory!MemAssumption => CoreProof!Memory!MemAssumption
  BY MemNames DEF Memory!MemAssumption, CoreProof!Memory!MemAssumption
<1>2. Memory!MemInit => CoreProof!Memory!MemInit
  BY MemNames DEF Memory!MemInit, CoreProof!Memory!MemInit
<1>3. CoreProof!Memory!RecallIsRight => Memory!RecallIsRight
  BY MemNames, MatchNames DEF Memory!RecallIsRight, CoreProof!Memory!RecallIsRight
<1> QED BY <1>1, <1>2, <1>3

LEMMA MemSteps ==
    ASSUME Memory!MemNext
    PROVE  CoreProof!Memory!MemNext
<1>1. ASSUME NEW r, NEW l, NEW pii, NEW w, Memory!SaveFact(r, l, pii, w)
      PROVE  CoreProof!Memory!SaveFact(r, l, pii, w)
  <2>1. Memory!Cardinality(UNION {{q} \X DOMAIN facts[q] : q \in {One}})
          = CoreProof!Memory!Cardinality(UNION {{q} \X DOMAIN facts[q] : q \in {One}})
    BY MemNames
  <2> QED BY <1>1, <2>1, Zenon DEF Memory!SaveFact, CoreProof!Memory!SaveFact
<1>2. ASSUME NEW r, NEW l, NEW pii, NEW w, Memory!RecordMemory(r, l, pii, w)
      PROVE  CoreProof!Memory!RecordMemory(r, l, pii, w)
  BY <1>1, <1>2 DEF Memory!RecordMemory, CoreProof!Memory!RecordMemory
<1>3. ASSUME NEW w, Memory!NextFact(w)
      PROVE  CoreProof!Memory!NextFact(w)
  BY <1>1, <1>3 DEF Memory!NextFact, CoreProof!Memory!NextFact
<1>4. ASSUME NEW pii, NEW w, Memory!SweepGoesOn(pii, w)
      PROVE  CoreProof!Memory!SweepGoesOn(pii, w)
  BY <1>1, <1>4 DEF Memory!SweepGoesOn, CoreProof!Memory!SweepGoesOn
<1>5. ASSUME NEW r, NEW l, NEW w, NEW pii, Memory!QueryMemory(r, l, w, pii)
      PROVE  CoreProof!Memory!QueryMemory(r, l, w, pii)
  BY <1>5, MemNames, MatchNames, Zenon DEF Memory!QueryMemory, CoreProof!Memory!QueryMemory
<1>6. /\ Memory!UpsertFact => CoreProof!Memory!UpsertFact
      /\ Memory!RecordEnds => CoreProof!Memory!RecordEnds
      /\ Memory!KeepingDies => CoreProof!Memory!KeepingDies
      /\ Memory!RecallEnds => CoreProof!Memory!RecallEnds
  BY MemNames DEF Memory!UpsertFact, CoreProof!Memory!UpsertFact, Memory!RecordEnds,
    CoreProof!Memory!RecordEnds, Memory!KeepingDies, CoreProof!Memory!KeepingDies,
    Memory!RecallEnds, CoreProof!Memory!RecallEnds
<1>7. Memory!RecallFacts => CoreProof!Memory!RecallFacts
  BY MatchNames, FusedNames, Zenon DEF Memory!RecallFacts, CoreProof!Memory!RecallFacts
<1> QED BY <1>2, <1>3, <1>4, <1>5, <1>6, <1>7, MemNames DEF Memory!MemNext, CoreProof!Memory!MemNext

LEMMA MemAlways == Spec => [](part = "memory" => CoreProof!MemInv)
<1> DEFINE Inv == part = "memory" => CoreProof!MemInv
<1>1. Init => Inv
  BY MemSame, CoreProof!MemBegins, PartsAssumption DEF Init, PartsAssumption
<1>2. Inv /\ [Next]_<<part, statevars, answervars>> => Inv'
  <2> SUFFICES ASSUME Inv, [Next]_<<part, statevars, answervars>>, part' = "memory"
               PROVE  CoreProof!MemInv'
    OBVIOUS
  <2>1. part = "memory" /\ CoreProof!MemInv
    BY DEF Next
  <2>2. CoreProof!Memory!MemNext \/ UNCHANGED memvars
    BY <2>1, MemSteps DEF Next, statevars, answervars
  <2>3. CoreProof!Memory!MemNext \/ UNCHANGED CoreProof!Memory!memvars
    BY <2>2 DEF memvars, CoreProof!Memory!memvars
  <2> QED BY <2>1, <2>3, MemSame, CoreProof!MemStep, PartsAssumption DEF PartsAssumption
<1> QED BY <1>1, <1>2, PTL DEF Spec

\* A query of the memory returns only what it may, and what matched by words unless
\* the answer is full.  For any number of facts and any limit.
THEOREM RecallingIsRight == Spec => []RecallIsRight
<1> DEFINE Inv == part = "memory" => CoreProof!MemInv
<1>1. Inv => RecallIsRight
  BY MemSame DEF CoreProof!MemInv, RecallIsRight
<1> QED BY <1>1, MemAlways, PTL

\* Each part's types: the memory.
LEMMA MemTyped == Spec => [](part = "memory" => Memory!MemTypeOK)
<1>1. (part = "memory" => CoreProof!MemInv) => (part = "memory" => Memory!MemTypeOK)
  BY MemNames DEF CoreProof!MemInv, CoreProof!Memory!MemTypeOK, Memory!MemTypeOK, CoreProof!Memory!Payload, Memory!Payload
<1> QED BY <1>1, MemAlways, PTL

-----------------------------------------------------------------------------
(* The grants *)

FileProof == INSTANCE StateFile_proofs

LEMMA GrantCardinality ==
    /\ \A S : Grant!IsFiniteSet(S) <=> FileProof!IsFiniteSet(S)
    /\ \A S : Grant!Cardinality(S) = FileProof!Cardinality(S)
BY DEF Grant!IsFiniteSet, FileProof!IsFiniteSet, Grant!Cardinality, FileProof!Cardinality

\* The module of the proofs says the same of the grants as MCParts does.
LEMMA GrantSame ==
    /\ Grant!Node = FileProof!Node
    /\ Grant!Unused = FileProof!Unused
    /\ Grant!Grants = FileProof!Grants
    /\ Grant!GrantAssumption => FileProof!GrantAssumption
    /\ Grant!Init => FileProof!Init
    /\ FileProof!GrantsKept => Grant!GrantsKept
<1>1. Grant!Node = FileProof!Node
  BY GrantCardinality DEF Grant!Node, FileProof!Node
<1>2. Grant!Unused = FileProof!Unused
  BY <1>1 DEF Grant!Unused, FileProof!Unused
<1>3. Grant!Grants = FileProof!Grants
  BY DEF Grant!Grants, FileProof!Grants, Grant!Contents, FileProof!Contents, Grant!NoGrants,
      FileProof!NoGrants, Grant!NoGrant, FileProof!NoGrant
<1>4. Grant!GrantAssumption => FileProof!GrantAssumption
  BY <1>1, GrantCardinality
    DEF Grant!GrantAssumption, FileProof!GrantAssumption, Grant!FileAssumption,
      FileProof!FileAssumption
<1>5. Grant!Init => FileProof!Init
  BY <1>1
    DEF Grant!Init, FileProof!Init, Grant!FileInit, FileProof!FileInit, Grant!Blank,
      FileProof!Blank, Grant!Idle, FileProof!Idle, Grant!NoGrants, FileProof!NoGrants,
      Grant!NoGrant, FileProof!NoGrant
<1>6. FileProof!GrantsKept => Grant!GrantsKept
  BY <1>3
    DEF Grant!GrantsKept, FileProof!GrantsKept, Grant!AllIdle, FileProof!AllIdle,
      Grant!WholeUnlessOverlap, FileProof!WholeUnlessOverlap
<1> QED BY <1>1, <1>2, <1>3, <1>4, <1>5, <1>6

LEMMA GrantSteps ==
    ASSUME Grant!Next
    PROVE  FileProof!Next
<1>1. ASSUME NEW c \in Client, NEW s \in Scope
      PROVE  /\ Grant!GrantJitPermission(c, s) => FileProof!GrantJitPermission(c, s)
             /\ Grant!RevokeJitGrant(c, s) => FileProof!RevokeJitGrant(c, s)
  BY GrantSame
    DEF Grant!GrantJitPermission, FileProof!GrantJitPermission, Grant!RevokeJitGrant,
      FileProof!RevokeJitGrant, Grant!Revoked, FileProof!Revoked, Grant!BeginSave,
      FileProof!BeginSave, Grant!Load, FileProof!Load, Grant!NoGrant, FileProof!NoGrant
<1>2. ASSUME NEW c \in Client PROVE Grant!ReturnGrant(c) => FileProof!ReturnGrant(c)
  BY DEF Grant!ReturnGrant, FileProof!ReturnGrant, Grant!Return, FileProof!Return,
      Grant!InTime, FileProof!InTime, Grant!Idle, FileProof!Idle
<1>3. ASSUME NEW c \in Client
      PROVE  /\ Grant!OpenTmp(c) => FileProof!OpenTmp(c)
             /\ Grant!WriteTmp(c) => FileProof!WriteTmp(c)
             /\ Grant!ReplaceFile(c) => FileProof!ReplaceFile(c)
             /\ Grant!ReplaceFails(c) => FileProof!ReplaceFails(c)
             /\ Grant!Die(c) => FileProof!Die(c)
  BY GrantSame
    DEF Grant!OpenTmp, FileProof!OpenTmp, Grant!WriteTmp, FileProof!WriteTmp,
      Grant!ReplaceFile, FileProof!ReplaceFile, Grant!ReplaceFails, FileProof!ReplaceFails,
      Grant!Die, FileProof!Die, Grant!Blank, FileProof!Blank, Grant!Idle, FileProof!Idle
<1>4. ASSUME NEW g PROVE Grant!Expire(g) => FileProof!Expire(g)
  BY DEF Grant!Expire, FileProof!Expire, Grant!filevars, FileProof!filevars
<1> QED BY <1>1, <1>2, <1>3, <1>4
    DEF Grant!Next, FileProof!Next, Grant!SaveStep, FileProof!SaveStep, Grant!grantvars,
      FileProof!grantvars

LEMMA KeptAlways == Spec => [](part = "grants" => FileProof!KeptInv)
<1> DEFINE Inv == part = "grants" => FileProof!KeptInv
<1>1. Init => Inv
  <2> SUFFICES ASSUME Init, part = "grants" PROVE FileProof!KeptInv
    OBVIOUS
  <2>1. Grant!Init
    BY DEF Init
  <2> QED BY <2>1, GrantSame, FileProof!KeptBegins, PartsAssumption DEF PartsAssumption
<1>2. Inv /\ [Next]_<<part, statevars, answervars>> => Inv'
  <2> SUFFICES ASSUME Inv, [Next]_<<part, statevars, answervars>>, part' = "grants"
               PROVE  FileProof!KeptInv'
    OBVIOUS
  <2>1. part = "grants" /\ FileProof!KeptInv
    BY DEF Next
  <2>2. [FileProof!Next]_(FileProof!vars)
    <3>1. CASE UNCHANGED <<part, statevars, answervars>>
      BY <3>1 DEF statevars, filevars, grantvars, FileProof!vars, FileProof!filevars,
        FileProof!grantvars
    <3>2. CASE Next
      BY <2>1, <3>2, GrantSteps DEF Next
    <3> QED BY <3>1, <3>2
  <2> QED BY <2>1, <2>2, GrantSame, FileProof!KeptStep, PartsAssumption DEF PartsAssumption
<1> QED BY <1>1, <1>2, PTL DEF Spec

\* As long as calls do not overlap the file of the grants is whole, and a grant is
\* used once and stays out; if none dies either, it holds what the calls meant.
THEOREM GrantsLast == Spec => []GrantsKept
<1> DEFINE Inv == part = "grants" => FileProof!KeptInv
<1>1. Inv => GrantsKept
  <2>1. FileProof!KeptInv => FileProof!GrantsKept
    BY GrantSame, FileProof!KeptImplies, PartsAssumption DEF PartsAssumption
  <2> QED BY <2>1, GrantSame DEF GrantsKept
<1> QED BY <1>1, KeptAlways, PTL

\* Each part's types: the grants.
LEMMA GrantTyped == Spec => [](part = "grants" => Grant!TypeOK)
<1>1. (part = "grants" => FileProof!KeptInv) => (part = "grants" => Grant!TypeOK)
  <2>1. FileProof!KeptInv => FileProof!TypeOK
    BY GrantSame, FileProof!KeptImplies, PartsAssumption DEF PartsAssumption
  <2> QED BY <2>1, GrantSame
    DEF Grant!TypeOK, FileProof!TypeOK, Grant!FileTypeOK, FileProof!FileTypeOK
<1> QED BY <1>1, KeptAlways, PTL

-----------------------------------------------------------------------------
(* The ledger of the failures *)

LEMMA LedgerCardinality ==
    /\ \A S : Ledger!IsFiniteSet(S) <=> FileProof!Ledger!IsFiniteSet(S)
    /\ \A S : Ledger!Cardinality(S) = FileProof!Ledger!Cardinality(S)
BY DEF Ledger!IsFiniteSet, FileProof!Ledger!IsFiniteSet, Ledger!Cardinality, FileProof!Ledger!Cardinality

LEMMA LedgerSaveSame ==
    /\ Ledger!Node = FileProof!Ledger!Node
    /\ Ledger!FileAssumption => FileProof!Ledger!FileAssumption
    /\ Ledger!FileInit => FileProof!Ledger!FileInit
    /\ \A nothing : Ledger!Contents(nothing) = FileProof!Ledger!Contents(nothing)
    /\ \A D : FileProof!Ledger!FileTypeOK(D) => Ledger!FileTypeOK(D)
<1>1. Ledger!Node = FileProof!Ledger!Node
  BY LedgerCardinality DEF Ledger!Node, FileProof!Ledger!Node
<1>2. Ledger!FileAssumption => FileProof!Ledger!FileAssumption
  BY <1>1, LedgerCardinality DEF Ledger!FileAssumption, FileProof!Ledger!FileAssumption
<1>3. Ledger!FileInit => FileProof!Ledger!FileInit
  BY <1>1
    DEF Ledger!FileInit, FileProof!Ledger!FileInit, Ledger!Blank, FileProof!Ledger!Blank, Ledger!Idle, FileProof!Ledger!Idle
<1>4. \A nothing : Ledger!Contents(nothing) = FileProof!Ledger!Contents(nothing)
  BY DEF Ledger!Contents, FileProof!Ledger!Contents
<1>5. \A D : FileProof!Ledger!FileTypeOK(D) => Ledger!FileTypeOK(D)
  BY <1>1 DEF Ledger!FileTypeOK, FileProof!Ledger!FileTypeOK
<1> QED BY <1>1, <1>2, <1>3, <1>4, <1>5

LEMMA LedgerSaveSteps ==
    ASSUME NEW c \in Client
    PROVE  /\ Ledger!Load(c) => FileProof!Ledger!Load(c)
           /\ \A call, data : Ledger!BeginSave(c, call, data) => FileProof!Ledger!BeginSave(c, call, data)
           /\ Ledger!SaveStep(c) => FileProof!Ledger!SaveStep(c)
           /\ Ledger!ReplaceFails(c) => FileProof!Ledger!ReplaceFails(c)
           /\ Ledger!Return(c) => FileProof!Ledger!Return(c)
           /\ Ledger!Die(c) => FileProof!Ledger!Die(c)
<1>1. /\ Ledger!Load(c) => FileProof!Ledger!Load(c)
      /\ \A call, data : Ledger!BeginSave(c, call, data) => FileProof!Ledger!BeginSave(c, call, data)
  BY DEF Ledger!Load, FileProof!Ledger!Load, Ledger!BeginSave, FileProof!Ledger!BeginSave
<1>2. Ledger!Blank = FileProof!Ledger!Blank /\ Ledger!Idle = FileProof!Ledger!Idle /\ Ledger!Unused = FileProof!Ledger!Unused
  BY LedgerSaveSame
    DEF Ledger!Blank, FileProof!Ledger!Blank, Ledger!Idle, FileProof!Ledger!Idle, Ledger!Unused, FileProof!Ledger!Unused
<1>3. Ledger!OpenTmp(c) => FileProof!Ledger!OpenTmp(c)
  BY <1>2 DEF Ledger!OpenTmp, FileProof!Ledger!OpenTmp
<1>4. Ledger!WriteTmp(c) => FileProof!Ledger!WriteTmp(c)
  BY DEF Ledger!WriteTmp, FileProof!Ledger!WriteTmp
<1>5. Ledger!ReplaceFile(c) => FileProof!Ledger!ReplaceFile(c)
  BY <1>2, LedgerSaveSame DEF Ledger!ReplaceFile, FileProof!Ledger!ReplaceFile
<1>6. /\ Ledger!ReplaceFails(c) => FileProof!Ledger!ReplaceFails(c)
      /\ Ledger!Return(c) => FileProof!Ledger!Return(c)
      /\ Ledger!Die(c) => FileProof!Ledger!Die(c)
  BY <1>2
    DEF Ledger!ReplaceFails, FileProof!Ledger!ReplaceFails, Ledger!Return, FileProof!Ledger!Return, Ledger!Die, FileProof!Ledger!Die
<1> QED BY <1>1, <1>3, <1>4, <1>5, <1>6 DEF Ledger!SaveStep, FileProof!Ledger!SaveStep

LEMMA LedgerSame ==
    /\ Ledger!LedgerAssumption => FileProof!Ledger!LedgerAssumption
    /\ Ledger!Init => FileProof!Ledger!Init
    /\ Ledger!Ledger = FileProof!Ledger!Ledger
    /\ FileProof!Ledger!TypeOK => Ledger!TypeOK
    /\ FileProof!Ledger!AnswerExact => Ledger!AnswerExact
<1>1. Ledger!LedgerAssumption => FileProof!Ledger!LedgerAssumption
  BY LedgerSaveSame DEF Ledger!LedgerAssumption, FileProof!Ledger!LedgerAssumption
<1>2. Ledger!Init => FileProof!Ledger!Init
  BY LedgerSaveSame DEF Ledger!Init, FileProof!Ledger!Init, Ledger!NoRuns, FileProof!Ledger!NoRuns
<1>3. Ledger!Ledger = FileProof!Ledger!Ledger
  BY LedgerSaveSame
    DEF Ledger!Ledger, FileProof!Ledger!Ledger, Ledger!EmptyLedger, FileProof!Ledger!EmptyLedger,
      Ledger!NoEntry, FileProof!Ledger!NoEntry
<1>4. FileProof!Ledger!TypeOK => Ledger!TypeOK
  BY LedgerSaveSame DEF Ledger!TypeOK, FileProof!Ledger!TypeOK, Ledger!Entry, FileProof!Ledger!Entry
<1>5. \A results, s : Ledger!InARow(results, s) = FileProof!Ledger!InARow(results, s)
  BY DEF Ledger!InARow, FileProof!Ledger!InARow, Ledger!Max, FileProof!Ledger!Max
<1>6. FileProof!Ledger!AnswerExact => Ledger!AnswerExact
  BY <1>3, <1>5, LedgerCardinality
    DEF Ledger!AnswerExact, FileProof!Ledger!AnswerExact, Ledger!Last, FileProof!Ledger!Last,
      Ledger!WholeUnlessOverlap, FileProof!Ledger!WholeUnlessOverlap
<1> QED BY <1>1, <1>2, <1>3, <1>4, <1>6

LEMMA LedgerSteps ==
    ASSUME Ledger!Next
    PROVE  FileProof!Ledger!Next
<1>1. Ledger!RunsLeft <=> FileProof!Ledger!RunsLeft
  BY DEF Ledger!RunsLeft, FileProof!Ledger!RunsLeft, Ledger!FoldSet, FileProof!Ledger!FoldSet,
    Ledger!MapThenFoldSet, FileProof!Ledger!MapThenFoldSet
<1>2. ASSUME NEW c \in Client, NEW t \in Task
      PROVE  Ledger!RecordSuccess(c, t) => FileProof!Ledger!RecordSuccess(c, t)
  <2>1. Ledger!NoEntry = FileProof!Ledger!NoEntry /\ Ledger!Ledger = FileProof!Ledger!Ledger
    BY LedgerSame DEF Ledger!NoEntry, FileProof!Ledger!NoEntry
  <2>2. /\ Ledger!Load(c) => FileProof!Ledger!Load(c)
        /\ \A call, data : Ledger!BeginSave(c, call, data) => FileProof!Ledger!BeginSave(c, call, data)
    BY LedgerSaveSteps
  <2> QED BY <1>1, <2>1, <2>2 DEF Ledger!RecordSuccess, FileProof!Ledger!RecordSuccess
<1>3. ASSUME NEW c \in Client, NEW t \in Task, NEW s \in Signature
      PROVE  Ledger!RecordFailure(c, t, s) => FileProof!Ledger!RecordFailure(c, t, s)
  <2>1. /\ Ledger!Ledger = FileProof!Ledger!Ledger
        /\ \A entry : Ledger!Count(entry, s) = FileProof!Ledger!Count(entry, s)
    BY LedgerSame DEF Ledger!Count, FileProof!Ledger!Count
  <2>2. \A call, data : Ledger!BeginSave(c, call, data) => FileProof!Ledger!BeginSave(c, call, data)
    BY LedgerSaveSteps
  <2> QED BY <1>1, <2>1, <2>2 DEF Ledger!RecordFailure, FileProof!Ledger!RecordFailure
<1>4. ASSUME NEW c \in Client
      PROVE  /\ Ledger!SaveStep(c) => FileProof!Ledger!SaveStep(c)
             /\ Ledger!ReplaceFails(c) => FileProof!Ledger!ReplaceFails(c)
             /\ Ledger!Return(c) => FileProof!Ledger!Return(c)
             /\ Ledger!Die(c) => FileProof!Ledger!Die(c)
  BY LedgerSaveSteps
<1> QED BY <1>2, <1>3, <1>4 DEF Ledger!Next, FileProof!Ledger!Next

LEMMA LedgerAlways == Spec => [](part = "ledger" => FileProof!LedgerInv)
<1> DEFINE Inv == part = "ledger" => FileProof!LedgerInv
<1>1. Init => Inv
  <2> SUFFICES ASSUME Init, part = "ledger" PROVE FileProof!LedgerInv
    OBVIOUS
  <2>1. Ledger!Init
    BY DEF Init
  <2> QED BY <2>1, LedgerSame, FileProof!LedgerBegins, PartsAssumption DEF PartsAssumption
<1>2. Inv /\ [Next]_<<part, statevars, answervars>> => Inv'
  <2> SUFFICES ASSUME Inv, [Next]_<<part, statevars, answervars>>, part' = "ledger"
               PROVE  FileProof!LedgerInv'
    OBVIOUS
  <2>1. part = "ledger" /\ FileProof!LedgerInv
    BY DEF Next
  <2>2. [FileProof!Ledger!Next]_(FileProof!Ledger!vars)
    <3>1. CASE UNCHANGED <<part, statevars, answervars>>
      BY <3>1 DEF statevars, filevars, FileProof!Ledger!vars, FileProof!Ledger!filevars
    <3>2. CASE Next
      BY <2>1, <3>2, LedgerSteps DEF Next
    <3> QED BY <3>1, <3>2
  <2> QED BY <2>1, <2>2, LedgerSame, FileProof!LedgerStep, PartsAssumption DEF PartsAssumption
<1> QED BY <1>1, <1>2, PTL DEF Spec

\* An agent is stopped by as many identical failures in a row as the limit says, and
\* by no others, as far as calls of the ledger neither overlap nor die; by less it is
\* never stopped.
THEOREM LedgerAnswers == Spec => []AnswerExact
<1> DEFINE Inv == part = "ledger" => FileProof!LedgerInv
<1>1. Inv => AnswerExact
  <2>1. FileProof!LedgerInv => FileProof!Ledger!AnswerExact
    BY LedgerSame, FileProof!LedgerImplies, PartsAssumption DEF PartsAssumption
  <2> QED BY <2>1, LedgerSame DEF AnswerExact
<1> QED BY <1>1, LedgerAlways, PTL

\* Each part's types: the ledger.
LEMMA LedgerTyped == Spec => [](part = "ledger" => Ledger!TypeOK)
<1>1. (part = "ledger" => FileProof!LedgerInv) => (part = "ledger" => Ledger!TypeOK)
  <2>1. FileProof!LedgerInv => FileProof!Ledger!TypeOK
    BY LedgerSame, FileProof!LedgerImplies, PartsAssumption DEF PartsAssumption
  <2> QED BY <2>1, LedgerSame
<1> QED BY <1>1, LedgerAlways, PTL

-----------------------------------------------------------------------------
(* The undo buffer *)

\* What is said of the undo buffer is said of calls of One client.
UndoProof == INSTANCE StateFile_proofs WITH Client <- {One}

LEMMA UndoCardinality ==
    /\ \A S : Undo!IsFiniteSet(S) <=> UndoProof!Undo!IsFiniteSet(S)
    /\ \A S : Undo!Cardinality(S) = UndoProof!Undo!Cardinality(S)
BY DEF Undo!IsFiniteSet, UndoProof!Undo!IsFiniteSet, Undo!Cardinality, UndoProof!Undo!Cardinality

LEMMA UndoSaveSame ==
    /\ Undo!Node = UndoProof!Undo!Node
    /\ Undo!FileAssumption => UndoProof!Undo!FileAssumption
    /\ Undo!FileInit => UndoProof!Undo!FileInit
    /\ \A nothing : Undo!Contents(nothing) = UndoProof!Undo!Contents(nothing)
    /\ \A D : UndoProof!Undo!FileTypeOK(D) => Undo!FileTypeOK(D)
<1>1. Undo!Node = UndoProof!Undo!Node
  BY UndoCardinality DEF Undo!Node, UndoProof!Undo!Node
<1>2. Undo!FileAssumption => UndoProof!Undo!FileAssumption
  BY <1>1, UndoCardinality DEF Undo!FileAssumption, UndoProof!Undo!FileAssumption
<1>3. Undo!FileInit => UndoProof!Undo!FileInit
  BY <1>1
    DEF Undo!FileInit, UndoProof!Undo!FileInit, Undo!Blank, UndoProof!Undo!Blank, Undo!Idle, UndoProof!Undo!Idle
<1>4. \A nothing : Undo!Contents(nothing) = UndoProof!Undo!Contents(nothing)
  BY DEF Undo!Contents, UndoProof!Undo!Contents
<1>5. \A D : UndoProof!Undo!FileTypeOK(D) => Undo!FileTypeOK(D)
  BY <1>1 DEF Undo!FileTypeOK, UndoProof!Undo!FileTypeOK
<1> QED BY <1>1, <1>2, <1>3, <1>4, <1>5

LEMMA UndoSaveSteps ==
    ASSUME NEW c \in {One}
    PROVE  /\ Undo!Load(c) => UndoProof!Undo!Load(c)
           /\ \A call, data : Undo!BeginSave(c, call, data) => UndoProof!Undo!BeginSave(c, call, data)
           /\ Undo!SaveStep(c) => UndoProof!Undo!SaveStep(c)
           /\ Undo!ReplaceFails(c) => UndoProof!Undo!ReplaceFails(c)
           /\ Undo!Return(c) => UndoProof!Undo!Return(c)
           /\ Undo!Die(c) => UndoProof!Undo!Die(c)
<1>1. /\ Undo!Load(c) => UndoProof!Undo!Load(c)
      /\ \A call, data : Undo!BeginSave(c, call, data) => UndoProof!Undo!BeginSave(c, call, data)
  BY DEF Undo!Load, UndoProof!Undo!Load, Undo!BeginSave, UndoProof!Undo!BeginSave
<1>2. Undo!Blank = UndoProof!Undo!Blank /\ Undo!Idle = UndoProof!Undo!Idle /\ Undo!Unused = UndoProof!Undo!Unused
  BY UndoSaveSame
    DEF Undo!Blank, UndoProof!Undo!Blank, Undo!Idle, UndoProof!Undo!Idle, Undo!Unused, UndoProof!Undo!Unused
<1>3. Undo!OpenTmp(c) => UndoProof!Undo!OpenTmp(c)
  BY <1>2 DEF Undo!OpenTmp, UndoProof!Undo!OpenTmp
<1>4. Undo!WriteTmp(c) => UndoProof!Undo!WriteTmp(c)
  BY DEF Undo!WriteTmp, UndoProof!Undo!WriteTmp
<1>5. Undo!ReplaceFile(c) => UndoProof!Undo!ReplaceFile(c)
  BY <1>2, UndoSaveSame DEF Undo!ReplaceFile, UndoProof!Undo!ReplaceFile
<1>6. /\ Undo!ReplaceFails(c) => UndoProof!Undo!ReplaceFails(c)
      /\ Undo!Return(c) => UndoProof!Undo!Return(c)
      /\ Undo!Die(c) => UndoProof!Undo!Die(c)
  BY <1>2
    DEF Undo!ReplaceFails, UndoProof!Undo!ReplaceFails, Undo!Return, UndoProof!Undo!Return, Undo!Die, UndoProof!Undo!Die
<1> QED BY <1>1, <1>3, <1>4, <1>5, <1>6 DEF Undo!SaveStep, UndoProof!Undo!SaveStep

LEMMA UndoSame ==
    /\ Undo!UndoAssumption => UndoProof!Undo!UndoAssumption
    /\ Undo!Init => UndoProof!Undo!Init
    /\ Undo!Buffer = UndoProof!Undo!Buffer
    /\ UndoProof!Undo!TypeOK => Undo!TypeOK
    /\ UndoProof!Undo!UndoLeadsBack => Undo!UndoLeadsBack
<1>1. Undo!UndoAssumption => UndoProof!Undo!UndoAssumption
  BY UndoSaveSame DEF Undo!UndoAssumption, UndoProof!Undo!UndoAssumption
<1>2. Undo!Init => UndoProof!Undo!Init
  BY UndoSaveSame
    DEF Undo!Init, UndoProof!Undo!Init, Undo!Projects, UndoProof!Undo!Projects, Undo!NoWrites,
      UndoProof!Undo!NoWrites
<1>3. Undo!Buffer = UndoProof!Undo!Buffer
  BY UndoSaveSame DEF Undo!Buffer, UndoProof!Undo!Buffer
<1>4. UndoProof!Undo!TypeOK => Undo!TypeOK
  BY <1>3, UndoSaveSame
    DEF Undo!TypeOK, UndoProof!Undo!TypeOK, Undo!UndoEntry, UndoProof!Undo!UndoEntry
<1>5. \A k : Undo!Unwound(k) = UndoProof!Undo!Unwound(k)
  BY <1>3 DEF Undo!Unwound, UndoProof!Undo!Unwound
<1>6. UndoProof!Undo!UndoLeadsBack => Undo!UndoLeadsBack
  BY <1>3, <1>5
    DEF Undo!UndoLeadsBack, UndoProof!Undo!UndoLeadsBack, Undo!HalfUndone, UndoProof!Undo!HalfUndone
<1> QED BY <1>1, <1>2, <1>3, <1>4, <1>6

LEMMA UndoSteps ==
    ASSUME Undo!Next
    PROVE  UndoProof!Undo!Next
<1>1. \A buffer : Undo!Trimmed(buffer) = UndoProof!Undo!Trimmed(buffer)
  BY DEF Undo!Trimmed, UndoProof!Undo!Trimmed
<1>2. ASSUME NEW c \in {One}, NEW p \in Path, NEW t \in Text
      PROVE  Undo!FsWrite(c, p, t) => UndoProof!Undo!FsWrite(c, p, t)
  <2>1. Undo!Buffer = UndoProof!Undo!Buffer
    BY UndoSame
  <2>2. \A call, data : Undo!BeginSave(c, call, data) => UndoProof!Undo!BeginSave(c, call, data)
    BY UndoSaveSteps
  <2> QED BY <1>1, <2>1, <2>2 DEF Undo!FsWrite, UndoProof!Undo!FsWrite
<1>3. ASSUME NEW c \in {One} PROVE Undo!UndoLast(c) => UndoProof!Undo!UndoLast(c)
  <2>1. /\ Undo!Buffer = UndoProof!Undo!Buffer
        /\ \A s : Undo!Last(s) = UndoProof!Undo!Last(s) /\ Undo!Front(s) = UndoProof!Undo!Front(s)
    BY UndoSame
      DEF Undo!Last, UndoProof!Undo!Last, Undo!Front, UndoProof!Undo!Front
  <2>2. \A call, data : Undo!BeginSave(c, call, data) => UndoProof!Undo!BeginSave(c, call, data)
    BY UndoSaveSteps
  <2> QED BY <1>1, <2>1, <2>2
        DEF Undo!UndoLast, UndoProof!Undo!UndoLast, Undo!undovars, UndoProof!Undo!undovars
<1>4. ASSUME NEW c \in {One}
      PROVE  /\ Undo!OpenFile(c) => UndoProof!Undo!OpenFile(c)
             /\ Undo!WriteFile(c) => UndoProof!Undo!WriteFile(c)
             /\ Undo!RecordWrite(c) => UndoProof!Undo!RecordWrite(c)
             /\ Undo!RemoveFile(c) => UndoProof!Undo!RemoveFile(c)
  BY DEF Undo!OpenFile, UndoProof!Undo!OpenFile, Undo!WriteFile, UndoProof!Undo!WriteFile,
    Undo!RecordWrite, UndoProof!Undo!RecordWrite, Undo!RemoveFile, UndoProof!Undo!RemoveFile,
    Undo!Idle, UndoProof!Undo!Idle
<1>5. ASSUME NEW c \in {One} PROVE Undo!DieInAction(c) => UndoProof!Undo!DieInAction(c)
  BY UndoSaveSteps
    DEF Undo!DieInAction, UndoProof!Undo!DieInAction, Undo!HalfUndone, UndoProof!Undo!HalfUndone
<1>6. ASSUME NEW c \in {One}
      PROVE  /\ Undo!SaveStep(c) => UndoProof!Undo!SaveStep(c)
             /\ Undo!ReplaceFails(c) => UndoProof!Undo!ReplaceFails(c)
  BY UndoSaveSteps
<1> QED BY <1>2, <1>3, <1>4, <1>5, <1>6
    DEF Undo!Next, UndoProof!Undo!Next, Undo!undovars, UndoProof!Undo!undovars

LEMMA UndoAlways == Spec => [](part = "undo" => UndoProof!UndoInv)
<1> DEFINE Inv == part = "undo" => UndoProof!UndoInv
<1>1. Init => Inv
  <2> SUFFICES ASSUME Init, part = "undo" PROVE UndoProof!UndoInv
    OBVIOUS
  <2>1. Undo!Init
    BY DEF Init
  <2> QED BY <2>1, UndoSame, UndoProof!UndoBegins, PartsAssumption DEF PartsAssumption
<1>2. Inv /\ [Next]_<<part, statevars, answervars>> => Inv'
  <2> SUFFICES ASSUME Inv, [Next]_<<part, statevars, answervars>>, part' = "undo"
               PROVE  UndoProof!UndoInv'
    OBVIOUS
  <2>1. part = "undo" /\ UndoProof!UndoInv
    BY DEF Next
  <2>2. [UndoProof!Undo!Next]_(UndoProof!Undo!vars)
    <3>1. CASE UNCHANGED <<part, statevars, answervars>>
      BY <3>1
        DEF statevars, filevars, undovars, UndoProof!Undo!vars, UndoProof!Undo!filevars,
          UndoProof!Undo!undovars
    <3>2. CASE Next
      BY <2>1, <3>2, UndoSteps DEF Next
    <3> QED BY <3>1, <3>2
  <2> QED BY <2>1, <2>2, UndoSame, UndoProof!UndoStep, PartsAssumption DEF PartsAssumption
<1> QED BY <1>1, <1>2, PTL DEF Spec

\* Undoing leads back, write by write, through the states the project was in, unless an
\* undo dies half done.
THEOREM UndoReturns == Spec => []UndoLeadsBack
<1> DEFINE Inv == part = "undo" => UndoProof!UndoInv
<1>1. Inv => UndoLeadsBack
  <2>1. UndoProof!UndoInv => UndoProof!Undo!UndoLeadsBack
    BY UndoSame, UndoProof!UndoImplies, PartsAssumption DEF PartsAssumption
  <2> QED BY <2>1, UndoSame DEF UndoLeadsBack
<1> QED BY <1>1, UndoAlways, PTL

\* Each part's types: the undo buffer.
LEMMA UndoTyped == Spec => [](part = "undo" => Undo!TypeOK)
<1>1. (part = "undo" => UndoProof!UndoInv) => (part = "undo" => Undo!TypeOK)
  <2>1. UndoProof!UndoInv => UndoProof!Undo!TypeOK
    BY UndoSame, UndoProof!UndoImplies, PartsAssumption DEF PartsAssumption
  <2> QED BY <2>1, UndoSame
<1> QED BY <1>1, UndoAlways, PTL

-----------------------------------------------------------------------------
(* All parts *)

\* A behaviour is of the same part all the time.
LEMMA OnePart == Spec => [](part \in Parts)
<1>1. Init => part \in Parts
  BY DEF Init
<1>2. part \in Parts /\ [Next]_<<part, statevars, answervars>> => (part \in Parts)'
  BY DEF Next
<1> QED BY <1>1, <1>2, PTL DEF Spec

\* The types of the small files of the governance layer.
LEMMA FilesTyped == Spec => [](part \in {"ledger", "undo", "grants"} => TypeOK)
<1>1. (part = "ledger" => Ledger!TypeOK) => (part = "ledger" => TypeOK)
  BY DEF TypeOK
<1>2. (part = "undo" => Undo!TypeOK) => (part = "undo" => TypeOK)
  BY DEF TypeOK
<1>3. (part = "grants" => Grant!TypeOK) => (part = "grants" => TypeOK)
  BY DEF TypeOK
<1>4. part \in {"ledger", "undo", "grants"} <=> part = "ledger" \/ part = "undo" \/ part = "grants"
  OBVIOUS
<1> QED BY <1>1, <1>2, <1>3, <1>4, LedgerTyped, UndoTyped, GrantTyped, PTL

\* The types of what agents work with.
LEMMA WorkTyped == Spec => [](part \in {"index", "dag", "memory"} => TypeOK)
<1>1. (part = "index" => Index!IndexTypeOK) => (part = "index" => TypeOK)
  BY DEF TypeOK
<1>2. (part = "dag" => Dag!DagTypeOK) => (part = "dag" => TypeOK)
  BY DEF TypeOK
<1>3. (part = "memory" => Memory!MemTypeOK) => (part = "memory" => TypeOK)
  BY DEF TypeOK
<1>4. part \in {"index", "dag", "memory"} <=> part = "index" \/ part = "dag" \/ part = "memory"
  OBVIOUS
<1> QED BY <1>1, <1>2, <1>3, <1>4, IndexTyped, DagTyped, MemTyped, PTL

\* The types of the choice of a model and its cost, and the packs.
LEMMA CostsTyped == Spec => [](part \in {"usage", "route", "packs"} => TypeOK)
<1>1. (part = "usage" => Usage!UsageTypeOK) => (part = "usage" => TypeOK)
  BY DEF TypeOK
<1>2. (part = "route" => Route!RouteTypeOK) => (part = "route" => TypeOK)
  BY DEF TypeOK
<1>3. (part = "packs" => Packs!PackTypeOK) => (part = "packs" => TypeOK)
  BY DEF TypeOK
<1>4. part \in {"usage", "route", "packs"} <=> part = "usage" \/ part = "route" \/ part = "packs"
  OBVIOUS
<1> QED BY <1>1, <1>2, <1>3, <1>4, UsageTyped, RouteTyped, PackTyped, PTL

\* The types of what is set up.
LEMMA SetUpTyped == Spec => [](part \in {"migrate", "config", "doctor"} => TypeOK)
<1>1. (part = "migrate" => Upgrade!MigrateTypeOK) => (part = "migrate" => TypeOK)
  BY DEF TypeOK
<1>2. (part = "config" => Conf!ConfigTypeOK) => (part = "config" => TypeOK)
  BY DEF TypeOK
<1>3. (part = "doctor" => Doc!DoctorTypeOK) => (part = "doctor" => TypeOK)
  BY DEF TypeOK
<1>4. part \in {"migrate", "config", "doctor"} <=> part = "migrate" \/ part = "config" \/ part = "doctor"
  OBVIOUS
<1> QED BY <1>1, <1>2, <1>3, <1>4, SchemaTyped, LayersTyped, DoctorTyped, PTL

\* The types of the access.
LEMMA AccessTyped == Spec => [](part \in {"credential", "tab"} => TypeOK)
<1>1. (part = "credential" => Cred!CredTypeOK) => (part = "credential" => TypeOK)
  BY DEF TypeOK
<1>2. (part = "tab" => Tab!TabTypeOK) => (part = "tab" => TypeOK)
  BY DEF TypeOK
<1>3. part \in {"credential", "tab"} <=> part = "credential" \/ part = "tab"
  OBVIOUS
<1> QED BY <1>1, <1>2, <1>3, CredTyped, TabTyped, PTL

\* The types of the parts (TypeOK), for any constants.
THEOREM TypeCorrect == Spec => []TypeOK
<1>1. part \in Parts =>
         \/ part \in {"ledger", "undo", "grants"}
         \/ part \in {"index", "dag", "memory"}
         \/ part \in {"usage", "route", "packs"}
         \/ part \in {"migrate", "config", "doctor"}
         \/ part \in {"credential", "tab"}
  BY PartsAssumption DEF PartsAssumption
<1> QED BY <1>1, OnePart, FilesTyped, WorkTyped, CostsTyped, SetUpTyped, AccessTyped, PTL
=============================================================================
