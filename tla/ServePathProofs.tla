--------------------------- MODULE ServePathProofs ---------------------------
(***************************************************************************)
(* The decision of a serve request is sound for any number of campaigns,   *)
(* requests, countries and systems, and whatever creatives and exposure    *)
(* counts do meanwhile; and in the page it is answered with, of any        *)
(* length, every value is escaped for its place.                           *)
(***************************************************************************)
EXTENDS ServePath, Placeholders, WellFoundedInduction, TLAPS

----------------------------------------------------------------------------
(* Types, and what may come to be kept in the copy cache                   *)

\* Only a line of the model is on its way to the cache.
KeepsGenerated == \A p \in Tasks : pc[p] = "keep" => line[p] = "llm"

Typed == TypeOK /\ KeepsGenerated /\ CacheHoldsOnlyGenerated

\* An address GeoIP knows nothing of has a record that says so.
LEMMA LookUpType == NoRecord \in Record /\ \A ip : LookUp(ip) \in Record
BY GeoIpAssumption DEF LookUp, NoRecord, Record

\* Every user agent is one of the targetable systems, or unknown.
LEMMA IdentityType == \A who \in Identities : who.os \in Systems \cup {Unknown}
BY DEF Identities, ParseDevice, Systems

LEMMA TypedInit == Init => Typed
BY TargetsAssumption, LookUpType DEF Init, Typed, TypeOK, Why, Answers, KeepsGenerated, CacheHoldsOnlyGenerated

\* The candidates the walk passes over change one list and what is left.
LEMMA RejectType ==
    ASSUME TypeOK, NEW p \in Tasks, NEW c \in Campaigns, NEW w \in Why,
           Reject(p, w, c)
    PROVE  rejected' \in [Tasks -> [Why -> SUBSET Campaigns]]
<1>1. rejected[p] \in [Why -> SUBSET Campaigns]
  BY DEF TypeOK
<1>2. [rejected[p] EXCEPT ![w] = @ \cup {c}] \in [Why -> SUBSET Campaigns]
  BY <1>1
<1>3. rejected' = [rejected EXCEPT ![p] = [rejected[p] EXCEPT ![w] = @ \cup {c}]]
  BY DEF Reject, TypeOK
<1> QED
  BY <1>2, <1>3 DEF TypeOK

\* Every step preserves the types.
LEMMA TypedNext == Typed /\ [Next]_vars => Typed'
<1> SUFFICES ASSUME Typed, [Next]_vars PROVE Typed'
  OBVIOUS
<1> USE DEF Typed, TypeOK, KeepsGenerated, CacheHoldsOnlyGenerated, world, Answers, Goto
<1>1. ASSUME NEW p \in Tasks, NEW who \in Identities, Request(p, who) PROVE Typed'
  <2>1. LookUp(who.ip) \in Record /\ NoRecord \in Record
        /\ who.os \in Systems \cup {Unknown}
    BY IdentityType, LookUpType
  <2>2. PICK rec \in Record : record' = [record EXCEPT ![p] = rec]
    BY <1>1, <2>1 DEF Request
  <2>3. system' = [system EXCEPT ![p] = who.os]
    BY <1>1 DEF Request
  <2>4. /\ record' \in [Tasks -> Record]
        /\ system' \in [Tasks -> Systems \cup {Unknown}]
    BY <2>1, <2>2, <2>3
  <2> QED BY <1>1, <2>4 DEF Request
<1>2. ASSUME NEW p \in Tasks, NEW docs \in SUBSET Campaigns, Filter(p, docs)
      PROVE  Typed'
  BY <1>2 DEF Filter, Why
<1>3. ASSUME NEW p \in Tasks, Rank(p) PROVE Typed'
  BY <1>3 DEF Rank
<1>4. ASSUME NEW p \in Tasks, NEW c \in Campaigns, PassCapped(p, c) PROVE Typed'
  <2>1. rejected' \in [Tasks -> [Why -> SUBSET Campaigns]]
    BY <1>4, RejectType DEF PassCapped, Why
  <2> QED BY <1>4, <2>1 DEF PassCapped
<1>5. ASSUME NEW p \in Tasks, NEW c \in Campaigns, PassEmpty(p, c) PROVE Typed'
  <2>1. rejected' \in [Tasks -> [Why -> SUBSET Campaigns]]
    BY <1>5, RejectType DEF PassEmpty, Why
  <2> QED BY <1>5, <2>1 DEF PassEmpty
<1>6. ASSUME NEW p \in Tasks, NEW c \in Campaigns, Pick(p, c) PROVE Typed'
  BY <1>6 DEF Pick
<1>7. ASSUME NEW p \in Tasks, NobodyServable(p) PROVE Typed'
  BY <1>7 DEF NobodyServable
<1>8. ASSUME NEW p \in Tasks, Copy(p) PROVE Typed'
  <2>1. CASE LookUpCopy(p)
    BY <2>1 DEF LookUpCopy
  <2>2. CASE Generate(p)
    BY <2>2 DEF Generate
  <2>3. CASE FallBack(p)
    BY <2>3 DEF FallBack
  <2>4. CASE KeepCopy(p)
    <3>1. PICK c \in chosen[p] :
             \/ copy' = [copy EXCEPT ![c] = line[p]]
             \/ copy' = copy
      BY <2>4 DEF KeepCopy
    <3>2. line[p] = "llm"
      BY <2>4 DEF KeepCopy
    <3>3. /\ copy' \in [Campaigns -> {"none", "llm", "fallback"}]
          /\ \A d \in Campaigns : copy'[d] # "fallback"
      BY <3>1, <3>2
    <3> QED BY <2>4, <3>3 DEF KeepCopy
  <2> QED BY <1>8, <2>1, <2>2, <2>3, <2>4 DEF Copy
<1>9. ASSUME NEW p \in Tasks, Render(p) PROVE Typed'
  BY <1>9 DEF Render
<1>10. ASSUME NEW p \in Tasks, ReadFails(p) PROVE Typed'
  BY <1>10 DEF ReadFails
<1>11. ASSUME NEW p \in Tasks, End(p) PROVE Typed'
  BY <1>11, LookUpType DEF End
<1>12. ASSUME NEW c \in Campaigns, Creative(c) \/ Exposure(c) \/ ExpireCopy(c)
      PROVE  Typed'
  <2>1. CASE Creative(c)
    BY <2>1 DEF Creative, locals
  <2>2. CASE Exposure(c)
    BY <2>2 DEF Exposure, locals
  <2>3. CASE ExpireCopy(c)
    BY <2>3 DEF ExpireCopy, locals
  <2> QED BY <1>12, <2>1, <2>2, <2>3
<1>13. CASE UNCHANGED vars
  BY <1>13 DEF vars
<1> QED
  BY <1>1, <1>2, <1>3, <1>4, <1>5, <1>6, <1>7, <1>8, <1>9, <1>10, <1>11, <1>12, <1>13
     DEF Next, Serve, Walk

\* Types, for every value of the constants.
THEOREM TypeCorrect == Spec => []TypeOK
<1>1. Init => Typed
  BY TypedInit
<1>2. Typed /\ [Next]_vars => Typed'
  BY TypedNext
<1>3. Typed => TypeOK
  BY DEF Typed
<1> QED
  BY <1>1, <1>2, <1>3, PTL DEF Spec

----------------------------------------------------------------------------
(* The decision.  What a request has put aside, what it has left and what  *)
(* it has chosen are at every step a partition of the list it was given;   *)
(* the properties of the answer are what remains of it at the end.         *)

Fits(p, c) == MatchesGeo(c, Country(record[p])) /\ MatchesOs(c, system[p])

\* What is still empty at each stage.
Staged(p) ==
    /\ pc[p] \in {"idle", "start"} =>
         /\ listed[p] = {} /\ left[p] = {}
         /\ \A w \in Why : rejected[p][w] = {}
    /\ pc[p] \in {"idle", "start", "features"} => capped[p] = {}
    /\ pc[p] \in {"idle", "start", "features", "walk"} \cup {"noad", "error"} =>
         chosen[p] = {}
    /\ pc[p] = "noad" => left[p] = {}

\* Only candidates that fit are left, and none that is capped is chosen.
Chooses(p) ==
    /\ left[p] \cup chosen[p] \subseteq listed[p]
    /\ \A c \in left[p] \cup chosen[p] : Fits(p, c)
    /\ chosen[p] \cap capped[p] = {}

\* Every listed campaign is in one place.
Partitioned(p) ==
    /\ \A c \in Campaigns :
         c \in listed[p] <=> \/ \E w \in Why : c \in rejected[p][w]
                             \/ c \in left[p]
                             \/ c \in chosen[p]
    /\ \A c \in Campaigns : \A w \in Why : c \in rejected[p][w] =>
         /\ c \notin left[p] /\ c \notin chosen[p]
         /\ \A v \in Why : c \in rejected[p][v] => v = w
    /\ left[p] \cap chosen[p] = {}

\* A campaign servable all along is put aside for its targets or its count.
Covered(p) ==
    /\ steady[p] \subseteq servable
    /\ \A c \in listed[p] \cap steady[p] :
         \/ c \in rejected[p].geo \/ c \in rejected[p].os
         \/ c \in capped[p] \/ c \in left[p] \/ c \in chosen[p]

RequestOK(p) == Staged(p) /\ Chooses(p) /\ Partitioned(p) /\ Covered(p)

DecisionInv == Typed /\ \A p \in Tasks : RequestOK(p)

LEMMA DecisionInit == Init => DecisionInv
<1> SUFFICES ASSUME Init PROVE DecisionInv
  OBVIOUS
<1>1. Typed
  BY TypedInit
<1>2. ASSUME NEW p \in Tasks PROVE RequestOK(p)
  BY DEF Init, RequestOK, Staged, Chooses, Partitioned, Covered, Why
<1> QED BY <1>1, <1>2 DEF DecisionInv

\* A request is untouched by what only takes creatives away from it, or
\* leaves its locals alone.
LEMMA Untouched ==
    ASSUME TypeOK, NEW q \in Tasks, RequestOK(q),
           geo' = geo, systems' = systems,
           pc'[q] = pc[q], record'[q] = record[q], system'[q] = system[q],
           listed'[q] = listed[q], left'[q] = left[q], capped'[q] = capped[q],
           rejected'[q] = rejected[q], chosen'[q] = chosen[q],
           steady'[q] \subseteq steady[q], steady'[q] \subseteq servable'
    PROVE  RequestOK(q)'
<1>1. Staged(q)'
  BY DEF RequestOK, Staged
<1>2. Chooses(q)'
  BY DEF RequestOK, Chooses, Fits, MatchesGeo, MatchesOs
<1>3. Partitioned(q)'
  BY DEF RequestOK, Partitioned
<1>4. Covered(q)'
  BY DEF RequestOK, Covered
<1> QED BY <1>1, <1>2, <1>3, <1>4 DEF RequestOK

\* A step of one request leaves the others alone.
LEMMA OthersUntouched ==
    ASSUME DecisionInv, NEW p \in Tasks, NEW q \in Tasks, q # p,
           \/ \E who \in Identities : Request(p, who)
           \/ Serve(p)
           \/ End(p)
    PROVE  RequestOK(q)'
<1> USE DEF Goto, Reject, world
<1>1. /\ geo' = geo /\ systems' = systems /\ servable' = servable
      /\ pc'[q] = pc[q] /\ record'[q] = record[q] /\ system'[q] = system[q]
      /\ listed'[q] = listed[q] /\ left'[q] = left[q] /\ capped'[q] = capped[q]
      /\ rejected'[q] = rejected[q] /\ chosen'[q] = chosen[q]
      /\ steady'[q] = steady[q]
  <2> USE DEF DecisionInv, Typed, TypeOK
  <2>1. CASE \E who \in Identities : Request(p, who)
    BY <2>1 DEF Request
  <2>2. CASE \E docs \in SUBSET Campaigns : Filter(p, docs)
    BY <2>2 DEF Filter
  <2>3. CASE Rank(p)
    BY <2>3 DEF Rank
  <2>4. CASE Walk(p)
    BY <2>4 DEF Walk, PassCapped, PassEmpty, Pick, NobodyServable
  <2>5. CASE Copy(p)
    BY <2>5 DEF Copy, LookUpCopy, Generate, FallBack, KeepCopy
  <2>6. CASE Render(p)
    BY <2>6 DEF Render
  <2>7. CASE ReadFails(p)
    BY <2>7 DEF ReadFails
  <2>8. CASE End(p)
    BY <2>8 DEF End
  <2> QED BY <2>1, <2>2, <2>3, <2>4, <2>5, <2>6, <2>7, <2>8 DEF Serve
<1>2. steady'[q] \subseteq servable'
  BY <1>1 DEF DecisionInv, RequestOK, Covered
<1> QED
  BY <1>1, <1>2, Untouched DEF DecisionInv, Typed

\* The filter puts aside what does not fit, for one reason each.
LEMMA FilterStep ==
    ASSUME DecisionInv, NEW p \in Tasks, NEW docs \in SUBSET Campaigns,
           Filter(p, docs)
    PROVE  RequestOK(p)'
<1> DEFINE here == {c \in docs : MatchesGeo(c, Country(record[p]))}
           fits == {c \in here : MatchesOs(c, system[p])}
<1> USE DEF DecisionInv, Typed, TypeOK, world
<1>1. /\ pc[p] = "start" /\ listed'[p] = docs /\ left'[p] = fits
      /\ pc'[p] \in {"noad", "features"} /\ (pc'[p] = "noad" => fits = {})
      /\ capped'[p] = capped[p] /\ chosen'[p] = chosen[p]
      /\ record'[p] = record[p] /\ system'[p] = system[p]
      /\ steady'[p] = steady[p] /\ servable' = servable
      /\ geo' = geo /\ systems' = systems
  BY DEF Filter
<1>2. capped[p] = {} /\ chosen[p] = {} /\ \A w \in Why : rejected[p][w] = {}
  BY <1>1 DEF RequestOK, Staged
<1>3. /\ rejected'[p].geo = docs \ here
      /\ rejected'[p].os = here \ fits
      /\ rejected'[p].fatigue = {} /\ rejected'[p].no_variants = {}
  BY <1>2 DEF Filter, Why
<1>4. Staged(p)'
  BY <1>1, <1>2 DEF Staged
<1>5. Chooses(p)'
  BY <1>1, <1>2 DEF Chooses, Fits, MatchesGeo, MatchesOs
<1>6. Partitioned(p)'
  BY <1>1, <1>2, <1>3 DEF Partitioned, Why
<1>7. Covered(p)'
  BY <1>1, <1>3 DEF RequestOK, Covered
<1> QED BY <1>4, <1>5, <1>6, <1>7 DEF RequestOK

\* A candidate passed over goes from what is left to one list; the cap or the
\* lack of a creative is the reason.
LEMMA PassStep ==
    ASSUME DecisionInv, NEW p \in Tasks, NEW c \in Campaigns,
           PassCapped(p, c) \/ PassEmpty(p, c)
    PROVE  RequestOK(p)'
<1> USE DEF DecisionInv, Typed, TypeOK, world
<1>1. /\ pc[p] = "walk" /\ c \in left[p] /\ left'[p] = left[p] \ {c}
      /\ pc' = pc /\ listed' = listed /\ capped' = capped /\ chosen' = chosen
      /\ record' = record /\ system' = system /\ geo' = geo
      /\ systems' = systems /\ steady' = steady /\ servable' = servable
      /\ c \in capped[p] \/ c \notin servable
  BY DEF PassCapped, PassEmpty, IsNext
<1>2. PICK why \in {"fatigue", "no_variants"} : Reject(p, why, c)
  BY DEF PassCapped, PassEmpty
<1>3. /\ rejected'[p][why] = rejected[p][why] \cup {c}
      /\ \A w \in Why \ {why} : rejected'[p][w] = rejected[p][w]
  BY <1>2 DEF Reject, Why
<1>4. rejected'[p].geo = rejected[p].geo /\ rejected'[p].os = rejected[p].os
  BY <1>3 DEF Why
<1>5. Staged(p)'
  BY <1>1 DEF RequestOK, Staged
<1>6. Chooses(p)'
  BY <1>1 DEF RequestOK, Chooses, Fits, MatchesGeo, MatchesOs
<1>7. Partitioned(p)'
  <2>1. why \in Why
    BY <1>2 DEF Why
  <2>2. Partitioned(p)
    BY DEF RequestOK
  <2>3. \A d \in Campaigns : \A w \in Why :
          d \in rejected'[p][w] <=> d \in rejected[p][w] \/ (w = why /\ d = c)
    BY <1>3, <2>1
  <2> QED BY <1>1, <2>1, <2>2, <2>3 DEF Partitioned
<1>8. Covered(p)'
  BY <1>1, <1>4 DEF RequestOK, Covered
<1> QED BY <1>5, <1>6, <1>7, <1>8 DEF RequestOK

\* The winner fits, is not capped, and leaves what is left.
LEMMA PickStep ==
    ASSUME DecisionInv, NEW p \in Tasks, NEW c \in Campaigns, Pick(p, c)
    PROVE  RequestOK(p)'
<1> USE DEF DecisionInv, Typed, TypeOK, world, Goto
<1>1. /\ pc[p] = "walk" /\ pc'[p] = "copy" /\ c \in left[p] /\ c \notin capped[p]
      /\ left'[p] = left[p] \ {c} /\ chosen'[p] = {c}
      /\ listed' = listed /\ capped' = capped /\ rejected' = rejected
      /\ record' = record /\ system' = system /\ geo' = geo
      /\ systems' = systems /\ steady' = steady /\ servable' = servable
  BY DEF Pick, IsNext
<1>2. chosen[p] = {}
  BY <1>1 DEF RequestOK, Staged
<1>3. Staged(p)'
  BY <1>1 DEF RequestOK, Staged
<1>4. Chooses(p)'
  BY <1>1 DEF RequestOK, Chooses, Fits, MatchesGeo, MatchesOs
<1>5. Partitioned(p)'
  BY <1>1, <1>2 DEF RequestOK, Partitioned
<1>6. Covered(p)'
  BY <1>1, <1>2 DEF RequestOK, Covered
<1> QED BY <1>3, <1>4, <1>5, <1>6 DEF RequestOK

\* The other steps of a request only move it on.
LEMMA OwnStep ==
    ASSUME DecisionInv, NEW p \in Tasks,
           \/ \E who \in Identities : Request(p, who)
           \/ Serve(p)
           \/ End(p)
    PROVE  RequestOK(p)'
<1> USE DEF DecisionInv, Typed, TypeOK, world, Goto
<1> DEFINE Moved ==
      /\ geo' = geo /\ systems' = systems /\ servable' = servable
      /\ steady' = steady /\ record' = record /\ system' = system
      /\ listed' = listed /\ left' = left /\ rejected' = rejected
      /\ chosen' = chosen
<1>1. CASE \E who \in Identities : Request(p, who)
  BY <1>1 DEF Request, RequestOK, Staged, Chooses, Partitioned, Covered
<1>2. CASE \E docs \in SUBSET Campaigns : Filter(p, docs)
  BY <1>2, FilterStep
<1>3. CASE Rank(p)
  <2>1. Moved /\ pc[p] = "features" /\ pc'[p] = "walk"
    BY <1>3 DEF Rank
  <2>2. chosen[p] = {} /\ capped[p] = {}
    BY <2>1 DEF RequestOK, Staged
  <2>3. Staged(p)' /\ Partitioned(p)' /\ Covered(p)'
    BY <2>1, <2>2 DEF RequestOK, Staged, Partitioned, Covered
  <2>4. Chooses(p)'
    BY <2>1, <2>2 DEF RequestOK, Chooses, Fits, MatchesGeo, MatchesOs
  <2> QED BY <2>3, <2>4 DEF RequestOK
<1>4. CASE Walk(p)
  <2>1. CASE NobodyServable(p)
    <3>1. Moved /\ capped' = capped /\ pc[p] = "walk" /\ pc'[p] = "noad" /\ left[p] = {}
      BY <2>1 DEF NobodyServable
    <3> QED
      BY <3>1 DEF RequestOK, Staged, Chooses, Partitioned, Covered,
                  Fits, MatchesGeo, MatchesOs
  <2> QED BY <1>4, <2>1, PassStep, PickStep DEF Walk
<1>5. CASE Copy(p) \/ Render(p)
  <2>1. /\ Moved /\ capped' = capped
        /\ pc[p] \in {"copy", "generate", "keep", "render"}
        /\ pc'[p] \in {"generate", "keep", "render", "ad"}
    BY <1>5 DEF Copy, LookUpCopy, Generate, FallBack, KeepCopy, Render
  <2> QED
    BY <2>1 DEF RequestOK, Staged, Chooses, Partitioned, Covered,
                Fits, MatchesGeo, MatchesOs
<1>6. CASE ReadFails(p)
  <2>1. /\ Moved /\ capped' = capped
        /\ pc[p] \in {"start", "features", "walk"} /\ pc'[p] = "error"
    BY <1>6 DEF ReadFails
  <2> QED
    BY <2>1 DEF RequestOK, Staged, Chooses, Partitioned, Covered,
                Fits, MatchesGeo, MatchesOs
<1>7. CASE End(p)
  BY <1>7 DEF End, RequestOK, Staged, Chooses, Partitioned, Covered, Why
<1> QED
  BY <1>1, <1>2, <1>3, <1>4, <1>5, <1>6, <1>7 DEF Serve

LEMMA DecisionNext == DecisionInv /\ [Next]_vars => DecisionInv'
<1> SUFFICES ASSUME DecisionInv, [Next]_vars PROVE DecisionInv'
  OBVIOUS
<1>1. Typed'
  BY TypedNext DEF DecisionInv
<1>2. ASSUME NEW q \in Tasks PROVE RequestOK(q)'
  <2>1. CASE \E p \in Tasks :
               \/ \E who \in Identities : Request(p, who)
               \/ Serve(p)
               \/ End(p)
    BY <2>1, OthersUntouched, OwnStep
  <2>2. CASE \/ \E c \in Campaigns : Creative(c) \/ Exposure(c) \/ ExpireCopy(c)
             \/ UNCHANGED vars
    <3>1. /\ geo' = geo /\ systems' = systems /\ locals' = locals
          /\ steady'[q] \subseteq steady[q] /\ steady'[q] \subseteq servable'
      BY <2>2 DEF Creative, Exposure, ExpireCopy, vars, locals,
                  DecisionInv, RequestOK, Covered
    <3> QED BY <3>1, Untouched DEF locals, DecisionInv, Typed
  <2> QED BY <2>1, <2>2 DEF Next
<1> QED BY <1>1, <1>2 DEF DecisionInv

----------------------------------------------------------------------------
(* What it says of the answer *)

LEMMA DecisionAlways == Spec => []DecisionInv
<1>1. Init => DecisionInv
  BY DecisionInit
<1>2. DecisionInv /\ [Next]_vars => DecisionInv'
  BY DecisionNext
<1> QED
  BY <1>1, <1>2, PTL DEF Spec

\* Targeting fails closed, whatever the list and the request resolved to.
THEOREM TargetingSound == Spec => []TargetingFailsClosed
<1>1. ASSUME DecisionInv, NEW p \in Tasks, NEW c \in chosen[p]
      PROVE  /\ c \in listed[p]
             /\ geo[c] # {} => Country(record[p]) \in geo[c] \ {Unknown}
             /\ geo[c] # {} /\ record[p].country # Unknown =>
                  record[p].country \in geo[c]
             /\ systems[c] # {} => system[p] # Unknown /\ system[p] \in systems[c]
  <2>1. c \in listed[p] /\ Fits(p, c)
    BY <1>1 DEF DecisionInv, RequestOK, Chooses
  <2>2. c \in Campaigns /\ geo[c] \subseteq Countries
    BY <1>1, TargetsAssumption DEF DecisionInv, Typed, TypeOK
  <2>3. record[p].country # Unknown => Country(record[p]) = record[p].country
    BY DEF Country
  <2> QED
    BY <2>1, <2>2, <2>3, UnknownCountry DEF Fits, MatchesGeo, MatchesOs
<1>2. DecisionInv => TargetingFailsClosed
  BY <1>1 DEF TargetingFailsClosed
<1> QED
  BY <1>2, DecisionAlways, PTL

\* No ad is shown that was at its cap when the request read the count.
THEOREM CapRespected == Spec => []CapHolds
<1>1. DecisionInv => CapHolds
  BY DEF DecisionInv, CapHolds, RequestOK, Chooses
<1> QED
  BY <1>1, DecisionAlways, PTL

\* However creatives come and go between the awaits of the walk, a campaign
\* that could be served all along does not go unserved.
THEOREM NoSlotBlanked == Spec => []SlotNotBlanked
<1>1. DecisionInv => SlotNotBlanked
  BY DEF DecisionInv, SlotNotBlanked, RequestOK, Staged, Covered
<1> QED
  BY <1>1, DecisionAlways, PTL

\* The trace of a decision accounts for every listed campaign, once.
THEOREM TraceComplete == Spec => []TraceAccountsForAll
<1>1. DecisionInv => TraceAccountsForAll
  <2> SUFFICES ASSUME DecisionInv, NEW p \in Tasks
               PROVE  /\ UNION ({rejected[p][w] : w \in Why} \cup {left[p], chosen[p]})
                           = listed[p]
                      /\ \A v, w \in Why :
                           v # w => rejected[p][v] \cap rejected[p][w] = {}
                      /\ \A w \in Why : rejected[p][w] \cap (left[p] \cup chosen[p]) = {}
                      /\ left[p] \cap chosen[p] = {}
    BY DEF TraceAccountsForAll
  <2>1. Partitioned(p)
    BY DEF DecisionInv, RequestOK
  <2>2. /\ \A w \in Why : rejected[p][w] \subseteq Campaigns
        /\ left[p] \subseteq Campaigns /\ chosen[p] \subseteq Campaigns
        /\ listed[p] \subseteq Campaigns
    BY DEF DecisionInv, Typed, TypeOK
  <2>3. UNION ({rejected[p][w] : w \in Why} \cup {left[p], chosen[p]}) = listed[p]
    BY <2>1, <2>2 DEF Partitioned
  <2>4. \A v, w \in Why : v # w => rejected[p][v] \cap rejected[p][w] = {}
    BY <2>1, <2>2 DEF Partitioned
  <2>5. \A w \in Why : rejected[p][w] \cap (left[p] \cup chosen[p]) = {}
    BY <2>1, <2>2 DEF Partitioned
  <2> QED BY <2>1, <2>3, <2>4, <2>5 DEF Partitioned
<1> QED
  BY <1>1, DecisionAlways, PTL

\* Neither the model nor the copy cache can fail a request that has its ad,
\* and only what the model wrote is ever kept.
THEOREM CopySound == Spec => []CopyFailsAlone
<1>1. DecisionInv => CopyFailsAlone
  BY DEF DecisionInv, Typed, CopyFailsAlone, RequestOK, Staged
<1> QED
  BY <1>1, DecisionAlways, PTL

----------------------------------------------------------------------------
(* The answer: the places of a page.  Induction over the numbers, for sets *)
(* of them: the least number outside of the set would follow one inside.   *)

Less == {pair \in Nat \X Nat : pair[1] < pair[2]}

LEMMA LessWellFounded == IsWellFoundedOn(Less, Nat)
BY Zenon, NatLessThanWellFounded DEF OpToRel, Less

LEMMA Induction ==
    ASSUME NEW S \in SUBSET Nat, 0 \in S, \A n \in S : n + 1 \in S
    PROVE  S = Nat
<1> SUFFICES ASSUME Nat \ S # {} PROVE FALSE
  OBVIOUS
<1>1. \A m, n \in Nat : m < n => <<m, n>> \in Less
  BY DEF Less
<1>2. PICK n \in Nat \ S : \A m \in Nat \ S : ~(<<m, n>> \in Less)
  BY LessWellFounded, WFMin
<1>3. n - 1 \in Nat \ S /\ n - 1 < n
  <2>1. n # 0
    OBVIOUS
  <2>2. n - 1 \in Nat /\ (n - 1) + 1 = n
    BY <2>1
  <2> QED BY <2>2
<1> QED BY <1>1, <1>2, <1>3

----------------------------------------------------------------------------
(* The parser's places exist for every page *)

\* The places before the first pieces and after them.
FirstPlaces(t, n) ==
    {p \in [1 .. n + 1 -> Escapes] :
        \A i \in 1 .. n + 1 : p[i] = IF i = 1 THEN "text" ELSE After(p[i - 1], t[i - 1].kind)}

LEMMA AfterIsPlace == \A at \in Escapes : \A kind : After(at, kind) \in Escapes
BY DEF After, Escapes

LEMMA FirstPlacesExist ==
    ASSUME NEW t
    PROVE  \A n \in Nat : FirstPlaces(t, n) # {}
<1> DEFINE S == {n \in Nat : FirstPlaces(t, n) # {}}
<1>1. 0 \in S
  <2>1. [i \in 1 .. 1 |-> "text"] \in FirstPlaces(t, 0)
    BY DEF FirstPlaces, Escapes
  <2> QED BY <2>1
<1>2. ASSUME NEW n \in S PROVE n + 1 \in S
  <2>1. PICK p \in FirstPlaces(t, n) : TRUE
    OBVIOUS
  <2> DEFINE next == After(p[n + 1], t[n + 1].kind)
             q == [i \in 1 .. n + 2 |-> IF i = n + 2 THEN next ELSE p[i]]
  <2>2. /\ n \in Nat /\ p \in [1 .. n + 1 -> Escapes]
        /\ \A i \in 1 .. n + 1 : p[i] = IF i = 1 THEN "text" ELSE After(p[i - 1], t[i - 1].kind)
    BY <2>1 DEF FirstPlaces
  <2>3. next \in Escapes
    <3>1. p[n + 1] \in Escapes
      BY <2>2
    <3> QED BY <3>1, AfterIsPlace
  <2>4. q \in [1 .. n + 2 -> Escapes]
    <3> HIDE DEF next
    <3> QED BY <2>2, <2>3
  <2>5. ASSUME NEW i \in 1 .. n + 2
        PROVE  q[i] = IF i = 1 THEN "text" ELSE After(q[i - 1], t[i - 1].kind)
    <3>1. CASE i = n + 2
      <4>1. i # 1 /\ i - 1 = n + 1 /\ n + 1 \in 1 .. n + 2 /\ n + 1 # n + 2
        BY <2>2, <3>1
      <4>2. q[n + 1] = p[n + 1] /\ q[i] = next
        <5> HIDE DEF next
        <5> QED BY <3>1, <4>1
      <4> QED BY <4>1, <4>2
    <3>2. CASE i # n + 2
      <4>1. i \in 1 .. n + 1 /\ q[i] = p[i]
        BY <2>2, <3>2
      <4>2. i # 1 => i - 1 \in 1 .. n + 2 /\ i - 1 # n + 2 /\ q[i - 1] = p[i - 1]
        BY <2>2, <4>1
      <4> HIDE DEF q
      <4> QED BY <2>2, <4>1, <4>2
    <3> QED BY <3>1, <3>2
  <2>6. n + 1 \in Nat /\ (n + 1) + 1 = n + 2
    BY <2>2
  <2>7. q \in FirstPlaces(t, n + 1)
    <3> HIDE DEF q
    <3> QED BY <2>4, <2>5, <2>6 DEF FirstPlaces
  <2> QED BY <2>6, <2>7
<1>3. S = Nat
  <2> HIDE DEF S
  <2>1. S \in SUBSET Nat
    BY DEF S
  <2> QED BY <1>1, <1>2, <2>1, Induction
<1> QED BY <1>3

LEMMA PlacesStep ==
    ASSUME NEW t, Len(t) \in Nat
    PROVE  /\ Places(t) \in [1 .. Len(t) + 1 -> Escapes]
           /\ Places(t)[1] = "text"
           /\ \A i \in 1 .. Len(t) : Places(t)[i + 1] = After(Places(t)[i], t[i].kind)
<1> DEFINE n == Len(t)
           Rule(p) == [i \in 1 .. n + 1 |->
                         IF i = 1 THEN "text" ELSE After(p[i - 1], t[i - 1].kind)]
           place == CHOOSE p : p = Rule(p)
<1>1. PICK p \in FirstPlaces(t, n) : TRUE
  BY FirstPlacesExist
<1>2. p = Rule(p)
  BY <1>1 DEF FirstPlaces
<1>3. place = Rule(place)
  <2> HIDE DEF Rule
  <2> QED BY <1>2
<1>4. Places(t) = place
  BY DEF Places
<1> HIDE DEF place
<1>5. /\ place = [i \in 1 .. n + 1 |-> place[i]]
      /\ place[1] = "text"
      /\ \A i \in 1 .. n : place[i + 1] = After(place[i], t[i].kind)
  <2>1. \A i \in 1 .. n + 1 : place[i] = IF i = 1 THEN "text"
                                         ELSE After(place[i - 1], t[i - 1].kind)
    BY <1>3
  <2>2. place = [i \in 1 .. n + 1 |-> place[i]]
    BY <1>3
  <2>3. ASSUME NEW i \in 1 .. n PROVE place[i + 1] = After(place[i], t[i].kind)
    <3>1. i + 1 \in 1 .. n + 1 /\ i + 1 # 1 /\ (i + 1) - 1 = i
      OBVIOUS
    <3> QED BY <2>1, <3>1
  <2>4. 1 \in 1 .. n + 1
    OBVIOUS
  <2>5. place[1] = "text"
    BY <2>1, <2>4
  <2> QED BY <2>2, <2>3, <2>5
<1> DEFINE S == {k \in Nat : k \in 0 .. n => place[k + 1] \in Escapes}
<1>6. 0 \in S
  BY <1>5 DEF Escapes
<1>7. ASSUME NEW k \in S PROVE k + 1 \in S
  <2>1. SUFFICES ASSUME k + 1 \in 0 .. n PROVE place[(k + 1) + 1] \in Escapes
    OBVIOUS
  <2>2. k + 1 \in 1 .. n /\ place[k + 1] \in Escapes
    BY <2>1
  <2> QED BY <1>5, <2>2, AfterIsPlace
<1>8. S = Nat
  <2> HIDE DEF S
  <2>1. S \in SUBSET Nat
    BY DEF S
  <2> QED BY <1>6, <1>7, <2>1, Induction
<1>9. \A i \in 1 .. n + 1 : place[i] \in Escapes
  <2>1. ASSUME NEW i \in 1 .. n + 1 PROVE place[i] \in Escapes
    <3>1. i - 1 \in Nat /\ i - 1 \in 0 .. n /\ (i - 1) + 1 = i
      OBVIOUS
    <3>2. i - 1 \in S
      <4> HIDE DEF S
      <4> QED BY <1>8, <3>1
    <3> QED BY <3>1, <3>2
  <2> QED BY <2>1
<1> QED BY <1>4, <1>5, <1>9

----------------------------------------------------------------------------
(* The greatest of finitely many positions *)

LEMMA Greatest ==
    ASSUME NEW n \in Nat, NEW X \in SUBSET (0 .. n), X # {}
    PROVE  Max(X) \in X /\ \A y \in X : Max(X) >= y
<1> DEFINE S == {k \in Nat : \A Y \in SUBSET (0 .. k) :
                    Y # {} => \E x \in Y : \A y \in Y : x >= y}
<1>1. 0 \in S
  <2>1. ASSUME NEW Y \in SUBSET (0 .. 0), Y # {} PROVE \E x \in Y : \A y \in Y : x >= y
    <3>1. Y = {0}
      <4>1. 0 .. 0 = {0}
        OBVIOUS
      <4> QED BY <2>1, <4>1
    <3> QED BY <3>1
  <2> QED BY <2>1
<1>2. ASSUME NEW k \in S PROVE k + 1 \in S
  <2>1. SUFFICES ASSUME NEW Y \in SUBSET (0 .. k + 1), Y # {}
                 PROVE  \E x \in Y : \A y \in Y : x >= y
    OBVIOUS
  <2>2. CASE k + 1 \in Y
    BY <2>2
  <2>3. CASE k + 1 \notin Y
    <3>1. Y \in SUBSET (0 .. k)
      BY <2>3
    <3> QED BY <2>1, <3>1
  <2> QED BY <2>2, <2>3
<1>3. S = Nat
  <2> HIDE DEF S
  <2>1. S \in SUBSET Nat
    BY DEF S
  <2> QED BY <1>1, <1>2, <2>1, Induction
<1>4. \E x \in X : \A y \in X : x >= y
  BY <1>3
<1> QED BY <1>4 DEF Max

----------------------------------------------------------------------------
(* The parser, by what it has passed *)

InJs(t, i) ==
    \E s \in 1 .. i - 1 : /\ t[s].kind = "script"
                          /\ \A k \in s .. i - 1 : t[k].kind # "endscript"

InTag(t, i) ==
    \E s \in 1 .. i - 1 : /\ t[s].kind = "lt"
                          /\ \A k \in s + 1 .. i - 1 : t[k].kind \notin {"gt", "script", "endscript"}

\* The parser is in a script when one was opened and not closed, and in a tag
\* when one was; after everything else it is in the text.
PlaceSound(t, i) ==
    /\ Places(t)[i] = "js" <=> InJs(t, i)
    /\ Places(t)[i] = "attr" => InTag(t, i)
    /\ Places(t)[i] = "text" =>
         \A s \in 1 .. i - 1 : t[s].kind \in {"lt", "script", "endscript"} =>
           \E k \in s .. i - 1 : t[k].kind \in {"gt", "script", "endscript"}

LEMMA ParserStep ==
    ASSUME NEW t, Len(t) \in Nat, DOMAIN t = 1 .. Len(t), Legal(t), NEW i \in 1 .. Len(t),
           PlaceSound(t, i)
    PROVE  PlaceSound(t, i + 1)
<1> DEFINE at == Places(t)[i]
           next == Places(t)[i + 1]
           kind == t[i].kind
<1>1. at \in Escapes /\ next = After(at, kind)
  BY PlacesStep
<1>2. /\ at = "attr" => kind \notin {"lt", "script", "endscript"}
      /\ at = "text" => kind # "endscript"
  BY DEF Legal
<1>3. (i + 1) - 1 = i /\ i \in 1 .. i /\ 1 .. i = (1 .. i - 1) \cup {i}
  OBVIOUS
<1>4. \A s \in 1 .. i - 1 : s .. i = (s .. i - 1) \cup {i} /\ s + 1 .. i = (s + 1 .. i - 1) \cup {i}
  OBVIOUS
<1> HIDE DEF at, next, kind
<1>5. InJs(t, i + 1) <=> \/ kind = "script"
                         \/ InJs(t, i) /\ kind # "endscript"
  <2>1. ASSUME InJs(t, i + 1) PROVE kind = "script" \/ (InJs(t, i) /\ kind # "endscript")
    <3>1. PICK s \in 1 .. i : /\ t[s].kind = "script"
                              /\ \A k \in s .. i : t[k].kind # "endscript"
      BY <1>3, <2>1 DEF InJs
    <3>2. CASE s = i
      BY <3>1, <3>2 DEF kind
    <3>3. CASE s # i
      <4>1. s \in 1 .. i - 1 /\ i \in s .. i /\ s .. i = (s .. i - 1) \cup {i}
        BY <3>3
      <4> QED BY <3>1, <4>1 DEF InJs, kind
    <3> QED BY <3>2, <3>3
  <2>2. ASSUME kind = "script" PROVE InJs(t, i + 1)
    <3>1. i .. i = {i}
      OBVIOUS
    <3> QED BY <1>3, <2>2, <3>1 DEF InJs, kind
  <2>3. ASSUME InJs(t, i), kind # "endscript" PROVE InJs(t, i + 1)
    <3>1. PICK s \in 1 .. i - 1 : /\ t[s].kind = "script"
                                  /\ \A k \in s .. i - 1 : t[k].kind # "endscript"
      BY <2>3 DEF InJs
    <3>2. s \in 1 .. i /\ \A k \in s .. i : t[k].kind # "endscript"
      BY <1>4, <2>3, <3>1 DEF kind
    <3> QED BY <1>3, <3>1, <3>2 DEF InJs
  <2> QED BY <2>1, <2>2, <2>3
<1>6. next = "attr" => InTag(t, i + 1)
  <2>1. SUFFICES ASSUME next = "attr" PROVE InTag(t, i + 1)
    OBVIOUS
  <2>2. CASE kind = "lt"
    <3>1. i + 1 .. i = {}
      OBVIOUS
    <3> QED BY <1>3, <2>2, <3>1 DEF InTag, kind
  <2>3. CASE kind # "lt"
    <3>1. at = "attr" /\ kind \notin {"gt", "script", "endscript"}
      BY <1>1, <1>2, <2>1, <2>3 DEF After, Escapes
    <3>2. PICK s \in 1 .. i - 1 :
            /\ t[s].kind = "lt"
            /\ \A k \in s + 1 .. i - 1 : t[k].kind \notin {"gt", "script", "endscript"}
      BY <3>1 DEF PlaceSound, InTag, at
    <3>3. s \in 1 .. i /\ \A k \in s + 1 .. i : t[k].kind \notin {"gt", "script", "endscript"}
      BY <1>4, <3>1, <3>2 DEF kind
    <3> QED BY <1>3, <3>2, <3>3 DEF InTag
  <2> QED BY <2>2, <2>3
<1>7. next = "text" =>
        \A s \in 1 .. i : t[s].kind \in {"lt", "script", "endscript"} =>
          \E k \in s .. i : t[k].kind \in {"gt", "script", "endscript"}
  <2>1. SUFFICES ASSUME next = "text", NEW s \in 1 .. i,
                        t[s].kind \in {"lt", "script", "endscript"}
                 PROVE  \E k \in s .. i : t[k].kind \in {"gt", "script", "endscript"}
    OBVIOUS
  <2>2. i \in s .. i
    OBVIOUS
  <2>3. CASE kind \in {"gt", "script", "endscript"}
    BY <2>2, <2>3 DEF kind
  <2>4. CASE kind \notin {"gt", "script", "endscript"}
    <3>1. at = "text" /\ kind # "lt"
      BY <1>1, <2>1, <2>4 DEF After, Escapes
    <3>2. s # i
      BY <2>1, <2>4, <3>1 DEF kind
    <3>3. s \in 1 .. i - 1
      BY <3>2
    <3>4. PICK k \in s .. i - 1 : t[k].kind \in {"gt", "script", "endscript"}
      BY <2>1, <3>1, <3>3 DEF PlaceSound, at
    <3> QED BY <1>4, <3>3, <3>4
  <2> QED BY <2>3, <2>4
<1>8. next = "js" <=> InJs(t, i + 1)
  <2>1. at = "js" <=> InJs(t, i)
    BY DEF PlaceSound, at
  <2> QED BY <1>1, <1>2, <1>5, <2>1 DEF After, Escapes
<1> QED BY <1>3, <1>6, <1>7, <1>8 DEF PlaceSound, next

LEMMA ParserSound ==
    ASSUME NEW t, Len(t) \in Nat, DOMAIN t = 1 .. Len(t), Legal(t)
    PROVE  \A i \in 1 .. Len(t) + 1 : PlaceSound(t, i)
<1> DEFINE S == {n \in Nat : n \in 0 .. Len(t) => PlaceSound(t, n + 1)}
<1>1. 0 \in S
  <2>1. Places(t)[1] = "text" /\ 1 .. 1 - 1 = {}
    BY PlacesStep
  <2>2. PlaceSound(t, 1)
    BY <2>1 DEF PlaceSound, InJs, InTag
  <2> QED BY <2>2
<1>2. ASSUME NEW n \in S PROVE n + 1 \in S
  <2>1. SUFFICES ASSUME n + 1 \in 0 .. Len(t) PROVE PlaceSound(t, (n + 1) + 1)
    OBVIOUS
  <2>2. n + 1 \in 1 .. Len(t) /\ PlaceSound(t, n + 1)
    BY <2>1
  <2> QED BY <2>2, ParserStep
<1>3. S = Nat
  <2> HIDE DEF S
  <2>1. S \in SUBSET Nat
    BY DEF S
  <2> QED BY <1>1, <1>2, <2>1, Induction
<1> QED
  <2> SUFFICES ASSUME NEW i \in 1 .. Len(t) + 1 PROVE PlaceSound(t, i)
    OBVIOUS
  <2>1. i - 1 \in Nat /\ i - 1 \in 0 .. Len(t) /\ (i - 1) + 1 = i
    OBVIOUS
  <2>2. i - 1 \in S
    <3> HIDE DEF S
    <3> QED BY <1>3, <2>1
  <2> QED BY <2>1, <2>2

\* A script that is open is closed further on, or the page would end in it.
LEMMA ScriptCloses ==
    ASSUME NEW t, Len(t) \in Nat, Places(t)[Len(t) + 1] = "text",
           NEW i \in 1 .. Len(t), Places(t)[i] = "js"
    PROVE  \E e \in i .. Len(t) : t[e].kind = "endscript"
<1> SUFFICES ASSUME \A e \in i .. Len(t) : t[e].kind # "endscript" PROVE FALSE
  OBVIOUS
<1> DEFINE S == {n \in Nat : i + n <= Len(t) + 1 => Places(t)[i + n] = "js"}
<1>1. 0 \in S
  OBVIOUS
<1>2. ASSUME NEW n \in S PROVE n + 1 \in S
  <2>1. SUFFICES ASSUME i + (n + 1) <= Len(t) + 1 PROVE Places(t)[i + (n + 1)] = "js"
    OBVIOUS
  <2>2. /\ i + n \in 1 .. Len(t) /\ i + n \in i .. Len(t)
        /\ (i + n) + 1 = i + (n + 1) /\ Places(t)[i + n] = "js"
    BY <2>1
  <2>3. Places(t)[(i + n) + 1] = After(Places(t)[i + n], t[i + n].kind)
    BY <2>2, PlacesStep
  <2>4. t[i + n].kind # "endscript"
    BY <2>2
  <2> HIDE DEF S
  <2> QED BY <2>2, <2>3, <2>4 DEF After
<1>3. S = Nat
  <2> HIDE DEF S
  <2>1. S \in SUBSET Nat
    BY DEF S
  <2> QED BY <1>1, <1>2, <2>1, Induction
<1>4. (Len(t) + 1) - i \in Nat /\ i + ((Len(t) + 1) - i) = Len(t) + 1
  OBVIOUS
<1>5. (Len(t) + 1) - i \in S
  <2> HIDE DEF S
  <2> QED BY <1>3, <1>4
<1> QED BY <1>4, <1>5

\* What the renderer searches for around a placeholder, by what it has passed.
LEMMA LastIs ==
    ASSUME NEW t, NEW i \in Nat \ {0}, NEW kinds
    PROVE  /\ Last(t, i, kinds) \in 0 .. i - 1
           /\ Last(t, i, kinds) # 0 => t[Last(t, i, kinds)].kind \in kinds
           /\ \A k \in 1 .. i - 1 : t[k].kind \in kinds => Last(t, i, kinds) >= k
<1> DEFINE X == {0} \cup {k \in 1 .. i - 1 : t[k].kind \in kinds}
<1>1. X \in SUBSET (0 .. i - 1) /\ X # {} /\ i - 1 \in Nat
  OBVIOUS
<1>2. Max(X) \in X /\ \A y \in X : Max(X) >= y
  <2> HIDE DEF X
  <2> QED BY <1>1, Greatest
<1>3. Last(t, i, kinds) = Max(X)
  BY DEF Last
<1> QED BY <1>1, <1>2, <1>3

LEMMA ContextIsPlace ==
    ASSUME NEW t, Len(t) \in Nat, DOMAIN t = 1 .. Len(t), WellFormed(t),
           NEW i \in 1 .. Len(t), t[i].kind = "slot"
    PROVE  Context(t, i) = Places(t)[i]
<1> DEFINE at == Places(t)[i]
           openers == {"lt", "script", "endscript"}
           closers == {"gt", "script", "endscript"}
           opened == Last(t, i, openers)
           closed == Last(t, i, closers)
<1>1. at \in Escapes /\ PlaceSound(t, i)
  BY PlacesStep, ParserSound DEF WellFormed
<1>2. InScript(t, i) <=> at = "js"
  <2>1. ASSUME InScript(t, i) PROVE at = "js"
    <3>1. PICK s \in 1 .. i : /\ t[s].kind = "script"
                              /\ \A k \in s .. i - 1 : t[k].kind # "endscript"
      BY <2>1 DEF InScript
    <3>2. s \in 1 .. i - 1
      BY <3>1
    <3> QED BY <1>1, <3>1, <3>2 DEF PlaceSound, InJs
  <2>2. ASSUME at = "js" PROVE InScript(t, i)
    <3>1. PICK s \in 1 .. i - 1 : /\ t[s].kind = "script"
                                  /\ \A k \in s .. i - 1 : t[k].kind # "endscript"
      BY <1>1, <2>2 DEF PlaceSound, InJs
    <3>2. s \in 1 .. i
      OBVIOUS
    <3>3. \E e \in i .. Len(t) : t[e].kind = "endscript"
      BY <2>2, ScriptCloses DEF WellFormed
    <3> QED BY <3>1, <3>2, <3>3 DEF InScript
  <2> QED BY <2>1, <2>2
<1>3. /\ opened \in 0 .. i - 1 /\ closed \in 0 .. i - 1
      /\ opened # 0 => t[opened].kind \in openers
      /\ closed # 0 => t[closed].kind \in closers
      /\ \A k \in 1 .. i - 1 : t[k].kind \in openers => opened >= k
      /\ \A k \in 1 .. i - 1 : t[k].kind \in closers => closed >= k
  <2> HIDE DEF openers, closers
  <2> QED BY LastIs
<1>4. Context(t, i) = IF InScript(t, i) THEN "js" ELSE IF opened > closed THEN "attr" ELSE "text"
  BY DEF Context
<1> HIDE DEF opened, closed
<1>5. ASSUME at = "attr" PROVE opened > closed
  <2>1. PICK s \in 1 .. i - 1 : /\ t[s].kind = "lt"
                                /\ \A k \in s + 1 .. i - 1 : t[k].kind \notin closers
    BY <1>1, <1>5 DEF PlaceSound, InTag
  <2>2. opened >= s
    BY <1>3, <2>1
  <2>3. closed < s
    <3>1. closed \notin s + 1 .. i - 1
      BY <1>3, <2>1
    <3>2. closed # s
      BY <1>3, <2>1
    <3> QED BY <1>3, <3>1, <3>2
  <2> QED BY <1>3, <2>2, <2>3
<1>6. ASSUME at = "text" PROVE ~(opened > closed)
  <2>1. SUFFICES ASSUME opened > closed PROVE FALSE
    OBVIOUS
  <2>2. opened \in 1 .. i - 1 /\ t[opened].kind \in openers
    BY <1>3, <2>1
  <2>3. PICK k \in opened .. i - 1 : t[k].kind \in closers
    BY <1>1, <1>6, <2>2 DEF PlaceSound
  <2>4. k \in 1 .. i - 1 /\ k >= opened
    BY <2>2, <2>3
  <2>5. closed >= k
    BY <1>3, <2>3, <2>4
  <2> QED BY <1>3, <2>1, <2>4, <2>5
<1> HIDE DEF at
<1>7. Context(t, i) = at
  BY <1>1, <1>2, <1>4, <1>5, <1>6 DEF Escapes
<1> QED BY <1>7 DEF at

\* Filling placeholders moves nothing for the parser.
LEMMA FillingMovesNothing ==
    ASSUME NEW t, NEW p, Len(t) \in Nat, Len(p) = Len(t),
           \A i \in 1 .. Len(t) : \/ p[i].kind = t[i].kind
                                  \/ t[i].kind = "slot" /\ p[i].kind \in Escapes
    PROVE  \A i \in 1 .. Len(t) : Places(p)[i] = Places(t)[i]
<1> DEFINE S == {n \in Nat : n + 1 \in 1 .. Len(t) => Places(p)[n + 1] = Places(t)[n + 1]}
<1>1. 0 \in S
  BY PlacesStep
<1>2. ASSUME NEW n \in S PROVE n + 1 \in S
  <2>1. SUFFICES ASSUME (n + 1) + 1 \in 1 .. Len(t)
                 PROVE  Places(p)[(n + 1) + 1] = Places(t)[(n + 1) + 1]
    OBVIOUS
  <2>2. n + 1 \in 1 .. Len(t) /\ Places(p)[n + 1] = Places(t)[n + 1]
    BY <2>1
  <2>3. /\ Places(p)[(n + 1) + 1] = After(Places(p)[n + 1], p[n + 1].kind)
        /\ Places(t)[(n + 1) + 1] = After(Places(t)[n + 1], t[n + 1].kind)
    BY <2>2, PlacesStep
  <2>4. \/ p[n + 1].kind = t[n + 1].kind
        \/ t[n + 1].kind = "slot" /\ p[n + 1].kind \in Escapes
    BY <2>2
  <2> HIDE DEF S
  <2>5. ASSUME t[n + 1].kind = "slot", p[n + 1].kind \in Escapes
        PROVE  After(Places(t)[n + 1], p[n + 1].kind) = After(Places(t)[n + 1], t[n + 1].kind)
    BY <2>5 DEF After, Escapes
  <2> QED BY <2>2, <2>3, <2>4, <2>5
<1>3. S = Nat
  <2> HIDE DEF S
  <2>1. S \in SUBSET Nat
    BY DEF S
  <2> QED BY <1>1, <1>2, <2>1, Induction
<1> SUFFICES ASSUME NEW i \in 1 .. Len(t) PROVE Places(p)[i] = Places(t)[i]
  OBVIOUS
<1>4. i - 1 \in Nat /\ (i - 1) + 1 = i
  OBVIOUS
<1>5. i - 1 \in S
  <2> HIDE DEF S
  <2> QED BY <1>3, <1>4
<1> QED BY <1>4, <1>5

\* "Escaping is per OCCURRENCE, not per placeholder": in every page whose tags
\* and scripts are closed, however long it is, the search for the last brackets
\* and the script spans finds for each placeholder the place at which the HTML
\* parser will meet its value, whatever was filled before it.
THEOREM FilledInPlace ==
    ASSUME NEW Name, NEW known, NEW body \in Seq([kind : TemplateKinds, name : Name]),
           WellFormed(body)
    PROVE  EscapedInPlace(Fill(body, known))
<1> DEFINE p == Fill(body, known)
<1>1. /\ Len(body) \in Nat /\ DOMAIN body = 1 .. Len(body)
      /\ \A i \in 1 .. Len(body) : body[i] \in [kind : TemplateKinds, name : Name]
  <2> DEFINE Piece == [kind : TemplateKinds, name : Name]
  <2>1. body \in Seq(Piece)
    OBVIOUS
  <2> HIDE DEF Piece
  <2>2. /\ Len(body) \in Nat /\ DOMAIN body = 1 .. Len(body)
        /\ \A i \in 1 .. Len(body) : body[i] \in Piece
    BY <2>1
  <2> QED BY <2>2 DEF Piece
<1>2. ASSUME NEW i \in 1 .. Len(body)
      PROVE  \/ p[i] = body[i]
             \/ body[i].kind = "slot" /\ p[i].kind = Places(body)[i] /\ p[i].kind \in Escapes
  <2>1. p[i] = IF body[i].kind = "slot" /\ body[i].name \in known
               THEN [body[i] EXCEPT !.kind = Context(body, i)] ELSE body[i]
    BY <1>1 DEF Fill
  <2>2. CASE body[i].kind = "slot" /\ body[i].name \in known
    <3>1. Context(body, i) = Places(body)[i]
      BY <1>1, <2>2, ContextIsPlace
    <3>2. Places(body)[i] \in Escapes
      BY <1>1, PlacesStep
    <3>3. p[i].kind = Context(body, i)
      BY <1>1, <2>1, <2>2
    <3> QED BY <2>2, <3>1, <3>2, <3>3
  <2> HIDE DEF p
  <2> QED BY <2>1, <2>2
<1>3. DOMAIN p = 1 .. Len(body) /\ Len(p) = Len(body)
  BY <1>1 DEF Fill
<1> HIDE DEF p
<1>4. \A i \in 1 .. Len(body) : Places(p)[i] = Places(body)[i]
  BY <1>1, <1>2, <1>3, FillingMovesNothing
<1>5. ASSUME NEW i \in 1 .. Len(body), p[i].kind \in Escapes PROVE p[i].kind = Places(p)[i]
  <2>1. body[i].kind \notin Escapes
    BY <1>1 DEF TemplateKinds, Escapes
  <2> QED BY <1>2, <1>4, <1>5, <2>1
<1>6. EscapedInPlace(p)
  BY <1>3, <1>5 DEF EscapedInPlace
<1> QED BY <1>6 DEF p
=============================================================================
