----------------------------- MODULE Dashboard ------------------------------
(***************************************************************************)
(* One tab of the dashboard: the gate that asks for the credential         *)
(* (dashboard/src/features/auth/TokenGate.tsx), the views behind it, whose *)
(* data the query client keeps, and signing out (App.tsx), by hand or      *)
(* because an answer was 401 (api/client.ts).  A tab does one thing at a   *)
(* time, and every answer comes later.  The query client is external: an   *)
(* answer to a query that was cleared or left is dropped.                  *)
(***************************************************************************)
EXTENDS Integers, FiniteSets

CONSTANTS
    Token,          \* credentials that people have
    View,           \* what can be looked at
    AuditView,      \* the view that asks for the chain time and again
    None            \* no credential, no view

VARIABLES
    accepted,       \* the credential the gateway has, or None: 503
    held,           \* the one in the tab's session storage
    gate,           \* "ask", "checking" what was typed, "in", or "out": in, but a view has
                    \* had a 401 and its effect has not run
    view,           \* what is looked at
    asking,         \* the credential with which each kind of request in flight was sent
    cached          \* the credential with which each view's data was got

tabvars == <<accepted, held, gate, view, asking, cached>>

NoRequests == [kind \in {"check", "view", "chain"} |-> None]
NoData == [v \in View |-> None]

TabInit ==
    /\ accepted \in Token
    /\ held = None /\ gate = "ask" /\ view = None
    /\ asking = NoRequests /\ cached = NoData

Asks(kind, c) == asking' = [asking EXCEPT !["check"] = None, ![kind] = c]

-----------------------------------------------------------------------------
(* Signing out *)

\* Mutant: what was got is kept.
ForgetNothing == Asks("view", None) /\ UNCHANGED cached

\* queryClient.clear(); leaving the view gives up its query too.  A request for
\* the chain is not given up.
Forget == Asks("view", None) /\ cached' = NoData

Leave ==
    /\ held' = None /\ gate' = "ask" /\ view' = None
    /\ Forget
    /\ UNCHANGED accepted

\* The button, or the effect of a view that has had a 401.
SignOut == gate \in {"in", "out"} /\ Leave

-----------------------------------------------------------------------------
(* TokenGate *)

\* The credential is stored before it is checked.
Submit ==
    /\ gate = "ask" /\ gate' = "checking"
    /\ \E c \in Token : held' = c /\ Asks("check", c)
    /\ UNCHANGED <<accepted, view, cached>>

\* A view that opens asks for its data unless what it has is fresh; to have no
\* credential is an error like a 401.
Open(v) ==
    /\ view' = v
    /\ IF held = None THEN gate' = "out" /\ Asks("view", None)
       ELSE /\ gate' = "in"
            /\ Asks("view", held) \/ (cached[v] # None /\ Asks("view", None))

CheckAccepted ==
    /\ gate = "checking" /\ asking["check"] = accepted
    /\ \E v \in View : Open(v)
    /\ UNCHANGED <<accepted, held, cached>>

\* 401, 503 or no answer.
CheckFails ==
    /\ gate = "checking"
    /\ held' = None /\ gate' = "ask" /\ Asks("check", None)
    /\ UNCHANGED <<accepted, view, cached>>

-----------------------------------------------------------------------------
(* The views *)

\* Another view, or the same one again; what the one that is left had asked for is
\* given up.
OpenView ==
    /\ gate = "in"
    /\ \E v \in View : Open(v)
    /\ UNCHANGED <<accepted, held, cached>>

\* checkStatus drops whatever credential is stored; the effect comes later.  An
\* answer that is lost or 503 changes nothing.
ViewAnswered ==
    /\ asking["view"] # None
    /\ Asks("view", None)
    /\ \/ asking["view"] = accepted /\ cached' = [cached EXCEPT ![view] = accepted]
                                  /\ UNCHANGED <<held, gate>>
       \/ asking["view"] # accepted /\ accepted # None /\ held' = None /\ gate' = "out"
                                  /\ UNCHANGED cached
       \/ UNCHANGED <<cached, held, gate>>
    /\ UNCHANGED <<accepted, view>>

\* The audit view asks for the chain every few seconds, without a signal.
AskForChain ==
    /\ view = AuditView /\ asking["chain"] = None
    /\ IF held = None THEN Leave
       ELSE asking' = [asking EXCEPT !["chain"] = held]
            /\ UNCHANGED <<accepted, held, gate, view, cached>>

\* On a 401 it drops the credential and signs out whoever is in by then.
ChainAnswered ==
    /\ asking["chain"] # None
    /\ \/ asking' = [asking EXCEPT !["chain"] = None] /\ UNCHANGED <<held, gate, view, cached>>
       \/ /\ asking["chain"] # accepted /\ accepted # None
          /\ held' = None
          /\ IF gate \in {"in", "out"}
             THEN gate' = "ask" /\ view' = None /\ cached' = NoData /\ asking' = NoRequests
             ELSE asking' = [asking EXCEPT !["chain"] = None] /\ UNCHANGED <<gate, view, cached>>
    /\ UNCHANGED accepted

-----------------------------------------------------------------------------
(* The operator and the tab *)

\* The credential's file is replaced, becomes unusable, or is repaired.
Rotate ==
    /\ accepted' \in (Token \cup {None}) \ {accepted}
    /\ UNCHANGED <<held, gate, view, asking, cached>>

\* The storage outlives the page, and what it holds lets in without a check.
Reload ==
    /\ gate' = IF held = None THEN "ask" ELSE "in"
    /\ \E v \in View : view' = IF held = None THEN None ELSE v
    /\ asking' = [NoRequests EXCEPT !["view"] = held]
    /\ cached' = NoData
    /\ UNCHANGED <<accepted, held>>

TabNext ==
    \/ SignOut \/ Submit \/ CheckAccepted \/ CheckFails
    \/ OpenView \/ ViewAnswered \/ AskForChain \/ ChainAnswered
    \/ Rotate \/ Reload

TabSpec == TabInit /\ [][TabNext]_tabvars

-----------------------------------------------------------------------------
(* Properties *)

TabTypeOK ==
    /\ {accepted, held} \subseteq Token \cup {None}
    /\ gate \in {"ask", "checking", "in", "out"} /\ view \in View \cup {None}
    /\ asking \in [{"check", "view", "chain"} -> Token \cup {None}]
    /\ cached \in [View -> Token \cup {None}]

\* App.tsx:30, "the next person at this tab must not see cached data", and
\* client.ts:14, a 401 drops the credential that is wrong: outside there is no data,
\* inside all of it was got with the credential that is stored, and so was every
\* request sent whose answer still counts, however people, rotations, late
\* answers and reloads interleave.  The request for the chain is excepted: nobody
\* gives it up, and its 401 may drop the next person's credential.
SessionsApart ==
    /\ gate \in {"ask", "checking"} => cached = NoData /\ asking["view"] = None /\ view = None
    /\ held # None => /\ \A v \in View : cached[v] \in {held, None}
                      /\ asking["view"] \in {held, None}
=============================================================================
