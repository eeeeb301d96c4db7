------------------------------- MODULE Router -------------------------------
(***************************************************************************)
(* The choice of a model: core/routing/router.py over the catalog that     *)
(* core/routing/catalog.py loads.  One call reads nothing twice and        *)
(* changes nothing, so it is one step: route_request as the code computes  *)
(* it, beside what its documentation promises of the tier it names.        *)
(***************************************************************************)
EXTENDS Integers, Sequences

CONSTANTS
    None,           \* no tier, no amount of memory
    Gigabytes,      \* amounts of memory: what a tier needs, what is free
    MaxTiers        \* bound: tiers of the catalog

\* For the proofs.
RouteAssumption == Gigabytes \subseteq Nat /\ MaxTiers \in Nat /\ None \notin Nat

VARIABLES
    catalog,        \* the tiers, by their place in the file
    decision        \* the last request and what was answered

routevars == <<catalog, decision>>

Tiers == [cloud: BOOLEAN, ram: Gigabytes, price: {1, 2}]

\* engine.local_only and privacy_sensitive are one wish; free is None where the
\* memory cannot be told.
Requests == [local: BOOLEAN, preferred: (1..MaxTiers + 1) \cup {None},
             default: (1..MaxTiers) \cup {None}, free: Gigabytes \cup {None}]

NoDecision == [request |-> None, tier |-> None, fallback |-> FALSE, forced |-> FALSE]

RouteInit ==
    /\ \E n \in 0..MaxTiers : catalog \in [1..n -> Tiers]
    /\ decision = NoDecision

\* tier_order: on the machine before in the cloud, then smaller, then cheaper;
\* sorted() keeps the order of the file among equals.
TierOrder(s, t) ==
    LET a == catalog[s]
        b == catalog[t] IN
    \/ ~a.cloud /\ b.cloud
    \/ a.cloud = b.cloud /\ a.ram < b.ram
    \/ a.cloud = b.cloud /\ a.ram = b.ram /\ a.price < b.price
    \/ a = b /\ s < t

First(tiers) == CHOOSE t \in tiers : \A u \in tiers \ {t} : TierOrder(t, u)

EligibleTiers(local) == {t \in DOMAIN catalog : ~(local /\ catalog[t].cloud)}

\* Preferred, else configured, else the smallest.
Target(r, eligible) ==
    IF r.preferred \in eligible THEN r.preferred
    ELSE IF r.default \in eligible THEN r.default
    ELSE First(eligible)

Fitting(r, tiers) == {t \in tiers : catalog[t].ram <= r.free}

\* Mutant: the watchdog takes what fits from the whole catalog.
FallbackAnywhere(r, eligible) ==
    First(IF Fitting(r, DOMAIN catalog) # {} THEN Fitting(r, DOMAIN catalog) ELSE eligible)

\* The first eligible tier that fits, else the first.
Fallback(r, eligible) ==
    First(IF Fitting(r, eligible) # {} THEN Fitting(r, eligible) ELSE eligible)

RouteRequest ==
    \E r \in Requests :
        LET eligible == EligibleTiers(r.local)
            target == Target(r, eligible)
            watchdog == r.free # None /\ catalog[target].ram > r.free IN
        /\ decision = NoDecision
        /\ decision' =
             IF eligible = {} THEN [NoDecision EXCEPT !.request = r]     \* ValueError
             ELSE [request |-> r, fallback |-> watchdog,
                   tier |-> IF watchdog THEN Fallback(r, eligible) ELSE target,
                   forced |-> /\ r.local /\ r.preferred \in DOMAIN catalog
                              /\ catalog[r.preferred].cloud]
        /\ UNCHANGED catalog

NextRequest ==
    /\ decision # NoDecision /\ decision' = NoDecision
    /\ UNCHANGED catalog

RouteNext == RouteRequest \/ NextRequest

RouteSpec == RouteInit /\ [][RouteNext]_routevars

-----------------------------------------------------------------------------
(* Properties *)

RouteTypeOK ==
    /\ catalog \in Seq(Tiers)
    /\ decision \in [request: Requests \cup {None}, tier: DOMAIN catalog \cup {None},
                     fallback: BOOLEAN, forced: BOOLEAN]

\* router.py:4-7, "the cheapest/smallest tier that satisfies both the privacy
\* constraint and the RAM budget, falling back gracefully": a local request is
\* never answered with a cloud tier and raises only if there is none else; a tier
\* that does not fit is named only if none that may be used fits; what was
\* preferred is honoured if it may be used and fits; the cloud is named unasked
\* only if nothing on the machine fits; and of tiers nobody asked for none is
\* passed over that is smaller and fits.
RouteFits ==
    decision.request # None =>
        LET r == decision.request
            t == decision.tier
            usable == {u \in DOMAIN catalog : r.local => ~catalog[u].cloud}
            fitting == {u \in usable : r.free = None \/ catalog[u].ram <= r.free} IN
        /\ t = None <=> usable = {}
        /\ usable # {} =>
            /\ t \in usable
            /\ fitting # {} => t \in fitting
            /\ r.preferred \in fitting => t = r.preferred /\ ~decision.fallback
            /\ t \notin {r.preferred, r.default} =>
                  \A u \in fitting : /\ catalog[t].cloud => catalog[u].cloud
                                     /\ catalog[u].cloud = catalog[t].cloud =>
                                            catalog[t].ram <= catalog[u].ram
            /\ decision.forced => r.preferred \notin usable
=============================================================================
