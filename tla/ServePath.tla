----------------------------- MODULE ServePath -----------------------------
(***************************************************************************)
(* One serve request from its session to its answer: list the campaigns,   *)
(* filter them by country and OS, read the exposure counts, walk down the  *)
(* ranking to the first campaign with a servable creative, find the        *)
(* character's line, render.  Every await is a step; meanwhile creatives   *)
(* come and go, counters move, and another request may fill the copy       *)
(* cache.  The request is placed from its headers (RequestFacts).          *)
(*                                                                         *)
(* Scores only order the walk, so the walk takes the candidates in any     *)
(* order; but a capped campaign scores 0 and every other one more, so the  *)
(* capped ones come last.  A campaign stands for its one variant.  Where   *)
(* the list comes from is the subject of CampaignCache, and what becomes   *)
(* of the answer that of Impressions.                                      *)
(***************************************************************************)
EXTENDS RequestFacts, Naturals, FiniteSets

CONSTANTS
    Campaigns,
    GeoTargets,     \* what a campaign's geo_targets can be
    OsTargets,      \* what its os_targets can be
    Callers,        \* the transport of a request: hops, addresses, user agent
    Tasks,          \* serve requests under way at a time
    Faults          \* which failures of the environment may occur

ASSUME TargetsAssumption ==
    /\ GeoTargets \subseteq SUBSET Countries
    /\ OsTargets \subseteq SUBSET (Systems \cup {Unknown})
ASSUME CallerAssumption ==
    LET address == Public \cup Other \cup {NoAddress}
    IN Callers \subseteq [forwarded : Seq(address), real : address, peer : address,
                          family : Families]
ASSUME UnknownSystem == Unknown \notin Systems
ASSUME FaultAssumption == Faults \subseteq {"redis", "mongo", "geoip", "llm", "copycache"}

VARIABLES
    geo,        \* geo_targets of each campaign
    systems,    \* os_targets of each campaign
    servable,   \* campaigns with an active ad set that has an active variant
    tired,      \* campaigns whose exposure count has reached the cap
    copy,       \* copy:variant:<id>: the line cached for a campaign's variant
    pc,         \* where each request is suspended
    record,     \* what GeoIP has on the address of the request
    system,     \* what its user agent resolved to
    listed,     \* the campaigns active_for_serving returned
    left,       \* eligible campaigns the walk has not come to
    capped,     \* those whose fatigue multiplier is zero
    rejected,   \* the decision's lists of campaigns turned down
    chosen,     \* the winner: a set of at most one
    line,       \* where the line of the winner comes from
    steady      \* observer: campaigns servable ever since the request began

vars == <<geo, systems, servable, tired, copy, pc, record, system, listed,
          left, capped, rejected, chosen, line, steady>>

world == <<geo, systems, servable, tired, copy, steady>>

Why == {"geo", "os", "fatigue", "no_variants"}
Answers == {"ad", "noad", "error"}

Init ==
    /\ geo \in [Campaigns -> GeoTargets]
    /\ systems \in [Campaigns -> OsTargets]
    /\ servable = Campaigns
    /\ tired = {}
    /\ copy = [c \in Campaigns |-> "none"]
    /\ pc = [p \in Tasks |-> "idle"]
    /\ record = [p \in Tasks |-> NoRecord]
    /\ system = [p \in Tasks |-> Unknown]
    /\ listed = [p \in Tasks |-> {}]
    /\ left = [p \in Tasks |-> {}]
    /\ capped = [p \in Tasks |-> {}]
    /\ rejected = [p \in Tasks |-> [w \in Why |-> {}]]
    /\ chosen = [p \in Tasks |-> {}]
    /\ line = [p \in Tasks |-> "none"]
    /\ steady = [p \in Tasks |-> {}]

Goto(p, from, to) == pc[p] = from /\ pc' = [pc EXCEPT ![p] = to]

Reject(p, why, c) == rejected' = [rejected EXCEPT ![p][why] = @ \cup {c}]

----------------------------------------------------------------------------
(* Targeting *)

MatchesGeo(c, where) == geo[c] = {} \/ where \in geo[c]

\* Mutant: an OS nobody could place matches a campaign that targets "unknown".
MatchesOsListed(c, os) == systems[c] = {} \/ os \in systems[c]

\* "unknown" is a legal target, and matches nothing.
MatchesOs(c, os) == systems[c] = {} \/ (os # Unknown /\ os \in systems[c])

----------------------------------------------------------------------------
(* serve *)

\* What get_identity makes of the callers.
Identities == {[ip |-> ClientIp(h.forwarded, h.real, h.peer),
                os |-> ParseDevice(h.family)] : h \in Callers}

\* A lookup that raises is logged and taken for an unknown address.
Request(p, who) ==
    /\ Goto(p, "idle", "start")
    /\ \/ record' = [record EXCEPT ![p] = LookUp(who.ip)]
       \/ "geoip" \in Faults /\ record' = [record EXCEPT ![p] = NoRecord]
    /\ system' = [system EXCEPT ![p] = who.os]
    /\ steady' = [steady EXCEPT ![p] = servable]
    /\ UNCHANGED <<geo, systems, servable, tired, copy, listed, left, capped,
                   rejected, chosen, line>>

\* The list arrives and is filtered, geo first: each campaign is turned down
\* for one reason.
Filter(p, docs) ==
    LET here == {c \in docs : MatchesGeo(c, Country(record[p]))}
        fits == {c \in here : MatchesOs(c, system[p])}
    IN /\ pc[p] = "start"
       /\ listed' = [listed EXCEPT ![p] = docs]
       /\ rejected' = [rejected EXCEPT ![p].geo = docs \ here, ![p].os = here \ fits]
       /\ left' = [left EXCEPT ![p] = fits]
       /\ pc' = [pc EXCEPT ![p] = IF fits = {} THEN "noad" ELSE "features"]
       /\ UNCHANGED <<world, record, system, capped, chosen, line>>

\* campaign_stats and fatigue_counts, then the ranking.
Rank(p) ==
    /\ Goto(p, "features", "walk")
    /\ capped' = [capped EXCEPT ![p] = left[p] \cap tired]
    /\ UNCHANGED <<world, record, system, listed, left, rejected, chosen, line>>

\* The order of the walk.
IsNext(p, c) == c \in left[p] /\ (c \in capped[p] => left[p] \subseteq capped[p])

PassCapped(p, c) ==
    /\ pc[p] = "walk" /\ IsNext(p, c) /\ c \in capped[p]
    /\ Reject(p, "fatigue", c)
    /\ left' = [left EXCEPT ![p] = @ \ {c}]
    /\ UNCHANGED <<world, pc, record, system, listed, capped, chosen, line>>

\* Mutant: a candidate without a creative goes unrecorded.
PassEmptySilent(p, c) ==
    /\ pc[p] = "walk" /\ IsNext(p, c) /\ c \notin capped[p]
    /\ c \notin servable
    /\ left' = [left EXCEPT ![p] = @ \ {c}]
    /\ UNCHANGED <<world, pc, record, system, listed, capped, rejected, chosen, line>>

\* _pick_variant found nothing: the next candidate.
PassEmpty(p, c) ==
    /\ pc[p] = "walk" /\ IsNext(p, c) /\ c \notin capped[p]
    /\ c \notin servable
    /\ Reject(p, "no_variants", c)
    /\ left' = [left EXCEPT ![p] = @ \ {c}]
    /\ UNCHANGED <<world, pc, record, system, listed, capped, chosen, line>>

\* Mutant: the cap damps the score and stops nothing.
PickTired(p, c) ==
    /\ IsNext(p, c) /\ c \in servable
    /\ Goto(p, "walk", "copy")
    /\ chosen' = [chosen EXCEPT ![p] = {c}]
    /\ left' = [left EXCEPT ![p] = @ \ {c}]
    /\ UNCHANGED <<world, record, system, listed, capped, rejected, line>>

\* Mutant: the walk does not stop at the winner.
PickOnAndOn(p, c) ==
    /\ IsNext(p, c) /\ c \notin capped[p] /\ c \in servable
    /\ Goto(p, "walk", IF left[p] = {c} THEN "copy" ELSE "walk")
    /\ chosen' = [chosen EXCEPT ![p] = @ \cup {c}]
    /\ left' = [left EXCEPT ![p] = @ \ {c}]
    /\ UNCHANGED <<world, record, system, listed, capped, rejected, line>>

Pick(p, c) ==
    /\ IsNext(p, c) /\ c \notin capped[p] /\ c \in servable
    /\ Goto(p, "walk", "copy")
    /\ chosen' = [chosen EXCEPT ![p] = {c}]
    /\ left' = [left EXCEPT ![p] = @ \ {c}]
    /\ UNCHANGED <<world, record, system, listed, capped, rejected, line>>

\* Mutant: a first candidate without a creative blanks the slot.
NobodyServableGivesUp(p) ==
    /\ left[p] \cap servable = {} \/ \E c \in left[p] : c \notin servable
    /\ Goto(p, "walk", "noad")
    /\ UNCHANGED <<world, record, system, listed, left, capped, rejected, chosen, line>>

NobodyServable(p) ==
    /\ left[p] = {}
    /\ Goto(p, "walk", "noad")
    /\ UNCHANGED <<world, record, system, listed, left, capped, rejected, chosen, line>>

----------------------------------------------------------------------------
(* _get_copy and CopyGenerator.generate *)

\* GET of the cached line; a failing GET is logged and taken for a miss.
LookUpCopy(p) == \E c \in chosen[p] :
    /\ \/ /\ copy[c] # "none"
          /\ Goto(p, "copy", "render")
          /\ line' = [line EXCEPT ![p] = "cache"]
       \/ /\ copy[c] = "none" \/ "copycache" \in Faults
          /\ Goto(p, "copy", "generate")
          /\ line' = line
    /\ UNCHANGED <<world, record, system, listed, left, capped, rejected, chosen>>

\* The model answers in time.
Generate(p) ==
    /\ Goto(p, "generate", "keep")
    /\ line' = [line EXCEPT ![p] = "llm"]
    /\ UNCHANGED <<world, record, system, listed, left, capped, rejected, chosen>>

\* Mutant: the fallback is kept like a generated line.
FallBackKept(p) ==
    /\ "llm" \in Faults
    /\ Goto(p, "generate", "keep")
    /\ line' = [line EXCEPT ![p] = "fallback"]
    /\ UNCHANGED <<world, record, system, listed, left, capped, rejected, chosen>>

\* Mutant: a timeout of the model is raised.
FallBackRaises(p) ==
    /\ "llm" \in Faults
    /\ Goto(p, "generate", "error")
    /\ UNCHANGED <<world, record, system, listed, left, capped, rejected, chosen, line>>

\* Disabled, timeout, refusal, empty output or any exception: the fallback.
FallBack(p) ==
    /\ "llm" \in Faults
    /\ Goto(p, "generate", "render")
    /\ line' = [line EXCEPT ![p] = "fallback"]
    /\ UNCHANGED <<world, record, system, listed, left, capped, rejected, chosen>>

\* SET of a generated line; a failing SET is logged.
KeepCopy(p) == \E c \in chosen[p] :
    /\ Goto(p, "keep", "render")
    /\ \/ copy' = [copy EXCEPT ![c] = line[p]]
       \/ "copycache" \in Faults /\ copy' = copy
    /\ UNCHANGED <<geo, systems, servable, tired, record, system, listed, left,
                   capped, rejected, chosen, line, steady>>

Render(p) ==
    /\ Goto(p, "render", "ad")
    /\ UNCHANGED <<world, record, system, listed, left, capped, rejected, chosen, line>>

\* An unguarded read raises: the list or the exposure counts from Redis, the
\* list or the creatives from Mongo.
ReadFails(p) ==
    /\ \/ "redis" \in Faults /\ pc[p] \in {"start", "features"}
       \/ "mongo" \in Faults /\ pc[p] \in {"start", "walk"}
    /\ pc' = [pc EXCEPT ![p] = "error"]
    /\ UNCHANGED <<world, record, system, listed, left, capped, rejected, chosen, line>>

\* The answer is out, and the locals are gone.
End(p) ==
    /\ pc[p] \in Answers
    /\ pc' = [pc EXCEPT ![p] = "idle"]
    /\ record' = [record EXCEPT ![p] = NoRecord]
    /\ system' = [system EXCEPT ![p] = Unknown]
    /\ listed' = [listed EXCEPT ![p] = {}]
    /\ left' = [left EXCEPT ![p] = {}]
    /\ capped' = [capped EXCEPT ![p] = {}]
    /\ rejected' = [rejected EXCEPT ![p] = [w \in Why |-> {}]]
    /\ chosen' = [chosen EXCEPT ![p] = {}]
    /\ line' = [line EXCEPT ![p] = "none"]
    /\ steady' = [steady EXCEPT ![p] = {}]
    /\ UNCHANGED <<geo, systems, servable, tired, copy>>

----------------------------------------------------------------------------
(* The environment *)

locals == <<pc, record, system, listed, left, capped, rejected, chosen, line>>

\* Ad sets are created, and creatives switched in the database.
Creative(c) ==
    /\ servable' = IF c \in servable THEN servable \ {c} ELSE servable \cup {c}
    /\ steady' = [p \in Tasks |-> steady[p] \cap servable']
    /\ UNCHANGED <<geo, systems, tired, copy, locals>>

\* Other serves bring a count to the cap; its TTL takes it back.
Exposure(c) ==
    /\ tired' = IF c \in tired THEN tired \ {c} ELSE tired \cup {c}
    /\ UNCHANGED <<geo, systems, servable, copy, steady, locals>>

ExpireCopy(c) ==
    /\ copy[c] # "none"
    /\ copy' = [copy EXCEPT ![c] = "none"]
    /\ UNCHANGED <<geo, systems, servable, tired, steady, locals>>

----------------------------------------------------------------------------
Walk(p) ==
    \/ \E c \in Campaigns : PassCapped(p, c) \/ PassEmpty(p, c) \/ Pick(p, c)
    \/ NobodyServable(p)

Copy(p) == LookUpCopy(p) \/ Generate(p) \/ FallBack(p) \/ KeepCopy(p)

Serve(p) ==
    \/ \E docs \in SUBSET Campaigns : Filter(p, docs)
    \/ Rank(p) \/ Walk(p) \/ Copy(p) \/ Render(p) \/ ReadFails(p)

Next ==
    \/ \E p \in Tasks :
         \/ \E who \in Identities : Request(p, who)
         \/ Serve(p)
         \/ End(p)
    \/ \E c \in Campaigns : Creative(c) \/ Exposure(c) \/ ExpireCopy(c)

Spec == Init /\ [][Next]_vars

----------------------------------------------------------------------------
(* Properties *)

TypeOK ==
    /\ geo \in [Campaigns -> GeoTargets]
    /\ systems \in [Campaigns -> OsTargets]
    /\ servable \subseteq Campaigns /\ tired \subseteq Campaigns
    /\ copy \in [Campaigns -> {"none", "llm", "fallback"}]
    /\ pc \in [Tasks -> {"idle", "start", "features", "walk", "copy", "generate",
                         "keep", "render"} \cup Answers]
    /\ record \in [Tasks -> Record]
    /\ system \in [Tasks -> Systems \cup {Unknown}]
    /\ listed \in [Tasks -> SUBSET Campaigns]
    /\ left \in [Tasks -> SUBSET Campaigns]
    /\ capped \in [Tasks -> SUBSET Campaigns]
    /\ rejected \in [Tasks -> [Why -> SUBSET Campaigns]]
    /\ chosen \in [Tasks -> {{}} \cup {{c} : c \in Campaigns}]
    /\ line \in [Tasks -> {"none", "cache", "llm", "fallback"}]
    /\ steady \in [Tasks -> SUBSET Campaigns]

\* "Geo/OS fail closed": an ad never goes to a country or a device its campaign
\* excludes, nor a targeted campaign to a request that could not be placed; and
\* where GeoIP knows the caller's own country, that is the one that counts,
\* whatever the papers of its address say.
TargetingFailsClosed ==
    \A p \in Tasks : \A c \in chosen[p] :
        /\ c \in listed[p]
        /\ geo[c] # {} => Country(record[p]) \in geo[c] \ {Unknown}
        /\ geo[c] # {} /\ record[p].country # Unknown => record[p].country \in geo[c]
        /\ systems[c] # {} => system[p] # Unknown /\ system[p] \in systems[c]

\* A campaign whose exposure count had reached the cap when the request read
\* it is not the one shown, even when nothing else is left.
CapHolds == \A p \in Tasks : chosen[p] \cap capped[p] = {}

\* "A campaign that ranks first but has no servable creative must not blank the
\* slot": a request ends without an ad only if every listed campaign was turned
\* away by targeting or the cap, or lacked a creative at some moment of the
\* request.
SlotNotBlanked ==
    \A p \in Tasks : pc[p] = "noad" =>
        \A c \in listed[p] \cap steady[p] :
            c \in rejected[p].geo \cup rejected[p].os \cup capped[p]

\* The decision accounts for every listed campaign once: it is turned down for
\* one reason, chosen, or a candidate the walk never came to.
TraceAccountsForAll ==
    \A p \in Tasks : pc[p] \in {"ad", "noad"} =>
        LET parts == {rejected[p][w] : w \in Why} \cup {left[p], chosen[p]}
        IN /\ UNION parts = listed[p]
           /\ \A v, w \in Why : v # w => rejected[p][v] \cap rejected[p][w] = {}
           /\ \A w \in Why : rejected[p][w] \cap (left[p] \cup chosen[p]) = {}
           /\ left[p] \cap chosen[p] = {}

\* A fallback line is never cached: one failed generation does not cost the
\* variant its real copy for hours.
CacheHoldsOnlyGenerated == \A c \in Campaigns : copy[c] # "fallback"

\* Whatever the model and the copy cache do, a request that found an ad does
\* not fail any more, and the line it falls back on is nobody else's: the copy
\* can fail for one request, not the request and not the variant.
CopyFailsAlone ==
    /\ \A p \in Tasks : chosen[p] # {} => pc[p] # "error"
    /\ CacheHoldsOnlyGenerated
=============================================================================
