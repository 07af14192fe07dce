------------------------------- MODULE AdSets -------------------------------
(***************************************************************************)
(* Ad sets, their variants and the links campaigns have to them.  A POST   *)
(* writes three collections in order, without a transaction: the variants, *)
(* the ad set, the link; then it refreshes the campaign snapshot, whose    *)
(* copy of the links is what the serve path follows.  POST and PATCH of a  *)
(* campaign take a list of links from the client, which nothing checks.    *)
(*                                                                         *)
(* An ad set is its id and its campaign; its variants are none, some of    *)
(* them (an insert that broke off) or all.  Every ad set is active.  A     *)
(* list of links that is null, and the stale writers of the snapshot, are  *)
(* the subject of CampaignCache; the list-to-write window is kept here     *)
(* because links travel through it.                                        *)
(***************************************************************************)
EXTENDS Naturals, FiniteSets

CONSTANTS
    Campaigns,
    AdSetIds,       \* ids new_id("adset") can return, and those of the files
    Seeded,         \* the campaigns of campaigns.json
    SeedActive,     \* those the file has as active
    SeedSets,       \* the ad sets of ad_sets.json, each linked in campaigns.json
    Posts,          \* the ad sets POSTs may create
    Lists,          \* the lists of links clients send
    Tasks,          \* coroutines of the API instances
    Edits,          \* what else happens to campaigns
    Faults          \* which failures of the environment may occur

AdSet == [id : AdSetIds, campaign : Campaigns]

ASSUME SeedAssumption ==
    /\ SeedActive \subseteq Seeded /\ Seeded \subseteq Campaigns
    /\ SeedSets \subseteq [id : AdSetIds, campaign : Seeded]
    /\ \A s, t \in SeedSets : s.id = t.id => s = t
ASSUME ClientAssumption == Posts \subseteq AdSet /\ Lists \subseteq SUBSET AdSetIds
ASSUME EditAssumption == Edits \subseteq {"create", "patch", "delete", "boot"}
ASSUME FaultAssumption == Faults \subseteq {"mongo", "redis", "crash"}

VARIABLES
    alive,      \* the campaigns collection: ids
    active,     \* those of them a refresh lists
    links,      \* native_ad_set_ids of each campaign
    sets,       \* the ad_sets collection
    variants,   \* the ad_variants collection: what each ad set has there
    snapshot,   \* the Redis key: the links of each campaign listed
    born,       \* ids that are taken: new_id returns none of them
    pc,         \* where each coroutine is suspended
    mine,       \* the ad set it creates: a set of at most one
    rows,       \* the snapshot it has listed, or the one a serve request read
    found,      \* the ad sets a serve request chooses from
    answered,   \* observer: ad sets created with campaign_linked, and since
                \* then not dropped from the list by hand nor by a boot
    loose       \* observer: ids a list of links got before they were stored,
                \* and that no POST and no boot has stored since

vars == <<alive, active, links, sets, variants, snapshot, born, pc, mine, rows,
          found, answered, loose>>

campaigns == <<alive, active, links>>
store == <<campaigns, sets, variants>>

Row == [campaign : Campaigns, links : SUBSET AdSetIds]

SeedIds == {s.id : s \in SeedSets}
SeedLinks(c) == {s.id : s \in {t \in SeedSets : t.campaign = c}}

\* Those of ids that lead nowhere, or to an ad set without all its variants.
Unstored(ids) == {i \in ids : variants[i] # "all" \/ \A s \in sets : s.id # i}

Init ==
    /\ alive = {} /\ active = {}
    /\ links = [c \in Campaigns |-> {}]
    /\ sets = {}
    /\ variants = [i \in AdSetIds |-> "none"]
    /\ snapshot = {}
    /\ born = Seeded \cup SeedIds
    /\ pc = [p \in Tasks |-> "idle"]
    /\ mine = [p \in Tasks |-> {}]
    /\ rows = [p \in Tasks |-> {}]
    /\ found = [p \in Tasks |-> {}]
    /\ answered = {} /\ loose = {}

Goto(p, from, to) == pc[p] = from /\ pc' = [pc EXCEPT ![p] = to]

\* The coroutine raises or dies: its locals go, what it stored stays.
Stop(p) ==
    /\ pc' = [pc EXCEPT ![p] = "idle"]
    /\ mine' = [mine EXCEPT ![p] = {}]
    /\ rows' = [rows EXCEPT ![p] = {}]
    /\ found' = [found EXCEPT ![p] = {}]
    /\ UNCHANGED <<snapshot, born, answered>>

----------------------------------------------------------------------------
(* create_ad_set *)

\* The campaign exists, the lists are valid: the ad set gets its id.  A retry
\* is a new request, and its ad set has a new id.
BeginCreate(p, s) ==
    /\ s.campaign \in alive /\ s.id \notin born
    /\ Goto(p, "idle", "variants")
    /\ mine' = [mine EXCEPT ![p] = {s}]
    /\ born' = born \cup {s.id}
    /\ UNCHANGED <<store, snapshot, rows, found, answered, loose>>

\* insert_many of the cartesian product.
InsertVariants(p) == \E s \in mine[p] :
    /\ Goto(p, "variants", "adset")
    /\ variants' = [variants EXCEPT ![s.id] = "all"]
    /\ UNCHANGED <<campaigns, sets, snapshot, born, mine, rows, found, answered, loose>>

\* Mutant: a failed insert of the variants is logged, and the handler goes on.
InsertVariantsIgnored(p) == \E s \in mine[p], left \in {"none", "some", "all"} :
    /\ "mongo" \in Faults
    /\ Goto(p, "variants", "adset")
    /\ variants' = [variants EXCEPT ![s.id] = left]
    /\ UNCHANGED <<campaigns, sets, snapshot, born, mine, rows, found, answered, loose>>

\* insert_many raises, with none, a prefix or all of the variants stored.
InsertVariantsFails(p) == \E s \in mine[p], left \in {"none", "some", "all"} :
    /\ "mongo" \in Faults /\ pc[p] = "variants"
    /\ variants' = [variants EXCEPT ![s.id] = left]
    /\ Stop(p)
    /\ UNCHANGED <<campaigns, sets, loose>>

InsertAdSet(p) ==
    /\ Goto(p, "adset", "link")
    /\ sets' = sets \cup mine[p]
    /\ loose' = loose \ {s.id : s \in mine[p]}
    /\ UNCHANGED <<campaigns, variants, snapshot, born, mine, rows, found, answered>>

\* Mutant: a failed insert of the ad set is logged, and the handler goes on.
InsertAdSetIgnored(p) ==
    /\ "mongo" \in Faults
    /\ Goto(p, "adset", "link")
    /\ UNCHANGED <<store, snapshot, born, mine, rows, found, answered, loose>>

\* insert_one raises, the ad set stored or not.
InsertAdSetFails(p) ==
    /\ "mongo" \in Faults /\ pc[p] = "adset"
    /\ sets' \in {sets, sets \cup mine[p]}
    /\ loose' = loose \ {s.id : s \in sets' \ sets}
    /\ Stop(p)
    /\ UNCHANGED <<campaigns, variants>>

\* Mutant: $set instead of $addToSet.
LinkedOnly(s) ==
    IF s.campaign \in alive THEN [links EXCEPT ![s.campaign] = {s.id}] ELSE links

\* Mutant: the update of the link upserts.
LinkedUpsert(s) == [links EXCEPT ![s.campaign] = @ \cup {s.id}]

\* The links after $addToSet; a campaign deleted meanwhile matches nothing.
Linked(s) ==
    IF s.campaign \in alive
    THEN [links EXCEPT ![s.campaign] = @ \cup {s.id}] ELSE links

Link(p) == \E s \in mine[p] :
    /\ Goto(p, "link", "refresh")
    /\ links' = Linked(s)
    /\ answered' = IF s.campaign \in alive THEN answered \cup {s} ELSE answered
    /\ UNCHANGED <<alive, active, sets, variants, snapshot, born, mine, rows, found, loose>>

LinkFails(p) == \E s \in mine[p] :
    /\ "mongo" \in Faults /\ pc[p] = "link"
    /\ links' \in {links, Linked(s)}
    /\ Stop(p)
    /\ UNCHANGED <<alive, active, sets, variants, loose>>

----------------------------------------------------------------------------
(* refresh_cache, at the end of every change of a campaign *)

ListForRefresh(p) ==
    /\ Goto(p, "refresh", "write")
    /\ rows' = [rows EXCEPT ![p] = {[campaign |-> c, links |-> links[c]] : c \in active}]
    /\ UNCHANGED <<store, snapshot, born, mine, found, answered, loose>>

WriteSnapshot(p) ==
    /\ Goto(p, "write", "idle")
    /\ snapshot' = rows[p]
    /\ rows' = [rows EXCEPT ![p] = {}]
    /\ mine' = [mine EXCEPT ![p] = {}]
    /\ UNCHANGED <<store, born, found, answered, loose>>

RefreshFails(p) ==
    /\ \/ "mongo" \in Faults /\ pc[p] = "refresh"
       \/ "redis" \in Faults /\ pc[p] = "write"
    /\ Stop(p)
    /\ UNCHANGED <<store, loose>>

----------------------------------------------------------------------------
(* Other changes of campaigns: POST, PATCH, DELETE, a boot *)

\* POST /campaigns: a new id, inactive, with the list of links of the body as it
\* is: nothing looks the ids up.
CreateCampaign(p, c, ids) ==
    /\ "create" \in Edits /\ c \notin born
    /\ Goto(p, "idle", "refresh")
    /\ alive' = alive \cup {c}
    /\ links' = [links EXCEPT ![c] = ids]
    /\ born' = born \cup {c} \cup ids
    /\ loose' = loose \cup Unstored(ids)
    /\ UNCHANGED <<active, sets, variants, snapshot, mine, rows, found, answered>>

\* PATCH sets the list of links and active; one of active alone leaves the list.
Patch(p, c, ids, on) ==
    /\ "patch" \in Edits /\ c \in alive
    /\ Goto(p, "idle", "refresh")
    /\ links' = [links EXCEPT ![c] = ids]
    /\ active' = IF on THEN active \cup {c} ELSE active \ {c}
    /\ born' = born \cup ids
    /\ loose' = loose \cup Unstored(ids)
    /\ answered' = {s \in answered : s.campaign # c \/ s.id \in ids}
    /\ UNCHANGED <<alive, sets, variants, snapshot, mine, rows, found>>

\* Ad sets and variants of a deleted campaign stay.  A DELETE or a PATCH that
\* finds no campaign refreshes too.
DeleteCampaign(p, c) ==
    /\ "delete" \in Edits
    /\ Goto(p, "idle", "refresh")
    /\ alive' = alive \ {c} /\ active' = active \ {c}
    /\ links' = [links EXCEPT ![c] = {}]
    /\ answered' = {s \in answered : s.campaign # c}
    /\ UNCHANGED <<sets, variants, snapshot, born, mine, rows, found, loose>>

\* seed_from_dir writes the collections in the order of _FILES: campaigns with
\* their links first, then ad sets, then variants.
SeedCampaigns(p) ==
    /\ "boot" \in Edits
    /\ Goto(p, "idle", "seedsets")
    /\ alive' = alive \cup Seeded
    /\ active' = (active \ Seeded) \cup SeedActive
    /\ links' = [c \in Campaigns |-> IF c \in Seeded THEN SeedLinks(c) ELSE links[c]]
    /\ loose' = loose \cup Unstored(SeedIds)
    /\ answered' = {s \in answered : s.campaign \notin Seeded}
    /\ UNCHANGED <<sets, variants, snapshot, born, mine, rows, found>>

\* Mutant: a failed write of the ad sets is logged, and the boot goes on.
SeedAdSetsIgnored(p) ==
    /\ Goto(p, "seedsets", "seedvariants")
    /\ sets' \in IF "mongo" \in Faults THEN {sets, sets \cup SeedSets}
                 ELSE {sets \cup SeedSets}
    /\ UNCHANGED <<campaigns, variants, snapshot, born, mine, rows, found, answered, loose>>

SeedAdSets(p) ==
    /\ Goto(p, "seedsets", "seedvariants")
    /\ sets' = sets \cup SeedSets
    /\ UNCHANGED <<campaigns, variants, snapshot, born, mine, rows, found, answered, loose>>

SeedVariants(p) ==
    /\ Goto(p, "seedvariants", "refresh")
    /\ variants' = [i \in AdSetIds |-> IF i \in SeedIds THEN "all" ELSE variants[i]]
    /\ loose' = loose \ SeedIds
    /\ UNCHANGED <<campaigns, sets, snapshot, born, mine, rows, found, answered>>

Crash(p) ==
    /\ "crash" \in Faults /\ pc[p] # "idle"
    /\ Stop(p)
    /\ UNCHANGED <<store, loose>>

----------------------------------------------------------------------------
(* serve: the snapshot, then _pick_variant for a campaign of it *)

Fetch(p) ==
    /\ Goto(p, "idle", "picking")
    /\ rows' = [rows EXCEPT ![p] = snapshot]
    /\ UNCHANGED <<store, snapshot, born, mine, found, answered, loose>>

\* The ad sets of the snapshot's links; without links, those that name the
\* campaign.
Candidates(row) ==
    IF row.links # {} THEN {s \in sets : s.id \in row.links}
    ELSE {s \in sets : s.campaign = row.campaign}

FindAdSets(p) == \E row \in rows[p] :
    /\ Goto(p, "picking", "choosing")
    /\ rows' = [rows EXCEPT ![p] = @ \ {row}]
    /\ found' = [found EXCEPT ![p] = Candidates(row)]
    /\ UNCHANGED <<store, snapshot, born, mine, answered, loose>>

\* One of the shuffled ad sets has no active variant, or the campaign has no
\* ad set left: the next one.
Skip(p) ==
    \/ \E s \in found[p] :
         /\ variants[s.id] = "none"
         /\ Goto(p, "choosing", "choosing")
         /\ found' = [found EXCEPT ![p] = @ \ {s}]
         /\ UNCHANGED <<store, snapshot, born, mine, rows, answered, loose>>
    \/ /\ found[p] = {}
       /\ Goto(p, "choosing", "picking")
       /\ UNCHANGED <<store, snapshot, born, mine, rows, found, answered, loose>>

Serve(p, s) ==
    /\ variants[s.id] # "none"
    /\ Goto(p, "choosing", "idle")
    /\ rows' = [rows EXCEPT ![p] = {}]
    /\ found' = [found EXCEPT ![p] = {}]
    /\ UNCHANGED <<store, snapshot, born, mine, answered, loose>>

NoAd(p) ==
    /\ rows[p] = {}
    /\ Goto(p, "picking", "idle")
    /\ UNCHANGED <<store, snapshot, born, mine, rows, found, answered, loose>>

----------------------------------------------------------------------------
CreateStep(p) ==
    \/ \E s \in Posts : BeginCreate(p, s)
    \/ InsertVariants(p) \/ InsertVariantsFails(p)
    \/ InsertAdSet(p) \/ InsertAdSetFails(p)
    \/ Link(p) \/ LinkFails(p)

EditStep(p) ==
    \/ \E c \in Campaigns :
         \/ DeleteCampaign(p, c)
         \/ \E ids \in Lists : CreateCampaign(p, c, ids)
         \/ \E ids \in Lists \cup {links[c]}, on \in BOOLEAN : Patch(p, c, ids, on)
    \/ SeedCampaigns(p) \/ SeedAdSets(p) \/ SeedVariants(p)

ServeStep(p) ==
    \/ Fetch(p) \/ FindAdSets(p) \/ Skip(p)
    \/ \E s \in found[p] : Serve(p, s)
    \/ NoAd(p)

Next == \E p \in Tasks :
    \/ CreateStep(p)
    \/ ListForRefresh(p) \/ WriteSnapshot(p) \/ RefreshFails(p)
    \/ EditStep(p) \/ ServeStep(p)
    \/ Crash(p)

Spec == Init /\ [][Next]_vars

----------------------------------------------------------------------------
(* Properties *)

\* Types; a campaign that is gone has no links: linking never brings one back.
TypeOK ==
    /\ alive \subseteq Campaigns \cap born /\ active \subseteq alive
    /\ links \in [Campaigns -> SUBSET AdSetIds]
    /\ \A c \in Campaigns \ alive : links[c] = {}
    /\ sets \subseteq AdSet
    /\ \A s, t \in sets : s.id = t.id => s = t
    /\ variants \in [AdSetIds -> {"none", "some", "all"}]
    /\ snapshot \subseteq Row
    /\ born \subseteq AdSetIds \cup Campaigns
    /\ pc \in [Tasks -> {"idle", "variants", "adset", "link", "refresh", "write",
                         "seedsets", "seedvariants", "picking", "choosing"}]
    /\ mine \in [Tasks -> SUBSET AdSet] /\ \A p \in Tasks : Cardinality(mine[p]) <= 1
    /\ rows \in [Tasks -> SUBSET Row]
    /\ found \in [Tasks -> SUBSET AdSet]
    /\ answered \subseteq AdSet /\ loose \subseteq AdSetIds

\* An ad set created through the API is complete from the moment it can be
\* seen: however its POST breaks off, no stored ad set lacks variants.
CreatedComplete == \A s \in sets : s.id \in SeedIds \/ variants[s.id] = "all"

\* A link that leads nowhere, in a campaign or in the snapshot, was named by a
\* client before anything was stored under it, or by a boot that has not got to
\* its variants.  A POST never links before it has stored, however its parts are
\* interleaved and break off, and a boot that gets through leaves no link of its
\* files open, whatever an earlier one left half done.
LinksResolve ==
    \A ids \in {links[c] : c \in Campaigns} \cup {r.links : r \in snapshot} :
        Unstored(ids) \subseteq loose

\* Two POSTs to one campaign do not lose each other's link: an ad set answered
\* as linked is linked until somebody puts a list without it, or the campaign
\* goes, or a boot puts the file's list back.
LinksKept == \A s \in answered : s.id \in links[s.campaign]

\* "If step 3 fails the ad set exists but is not linked, so it cannot be
\* served": an answer never comes from an ad set its campaign does not link.
OnlyLinkedServed ==
    [][\A p \in Tasks : \A s \in found[p] :
         Serve(p, s) => s.id \in links[s.campaign]]_vars
=============================================================================
