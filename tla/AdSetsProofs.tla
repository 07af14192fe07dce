---------------------------- MODULE AdSetsProofs ----------------------------
(***************************************************************************)
(* AdSets for any number of campaigns, ad sets, coroutines and failures:   *)
(* types, that what can be seen of a created ad set is complete, which     *)
(* links may lead nowhere, and that a link answered for is kept.           *)
(***************************************************************************)
EXTENDS AdSets, FiniteSetTheorems, TLAPS

----------------------------------------------------------------------------
(* Types *)

Label == {"idle", "variants", "adset", "link", "refresh", "write",
          "seedsets", "seedvariants", "picking", "choosing"}

Types ==
    /\ alive \subseteq Campaigns \cap born /\ active \subseteq alive
    /\ Seeded \subseteq born
    /\ links \in [Campaigns -> SUBSET AdSetIds]
    /\ \A c \in Campaigns \ alive : links[c] = {}
    /\ sets \subseteq AdSet
    /\ variants \in [AdSetIds -> {"none", "some", "all"}]
    /\ snapshot \subseteq Row
    /\ born \subseteq AdSetIds \cup Campaigns
    /\ pc \in [Tasks -> Label]
    /\ mine \in [Tasks -> {{}} \cup {{s} : s \in AdSet}]
    /\ rows \in [Tasks -> SUBSET Row]
    /\ found \in [Tasks -> SUBSET AdSet]
    /\ answered \subseteq AdSet /\ loose \subseteq AdSetIds

LEMMA SeedFacts ==
    /\ SeedIds \subseteq AdSetIds
    /\ \A c \in Campaigns : SeedLinks(c) \subseteq SeedIds
    /\ \A s \in SeedSets : s \in AdSet /\ s.id \in SeedIds /\ s.campaign \in Seeded
    /\ Seeded \subseteq Campaigns /\ SeedActive \subseteq Seeded
BY SeedAssumption DEF SeedIds, SeedLinks, AdSet

\* Whatever list a client sends, and the one a campaign has, is one of ids.
LEMMA EditCases ==
    ASSUME Types, NEW p \in Tasks, EditStep(p)
    PROVE  \/ \E c \in Campaigns :
                \/ DeleteCampaign(p, c)
                \/ \E ids \in SUBSET AdSetIds :
                     CreateCampaign(p, c, ids) \/ \E on \in BOOLEAN : Patch(p, c, ids, on)
           \/ SeedCampaigns(p) \/ SeedAdSets(p) \/ SeedVariants(p)
<1>1. \A c \in Campaigns : \A ids \in Lists \cup {links[c]} : ids \in SUBSET AdSetIds
  BY ClientAssumption DEF Types
<1> QED BY <1>1 DEF EditStep

LEMMA MineFacts ==
    ASSUME Types, NEW p \in Tasks, NEW s \in mine[p]
    PROVE  mine[p] = {s} /\ s \in AdSet /\ s.id \in AdSetIds /\ s.campaign \in Campaigns
BY DEF Types, AdSet

LEMMA GotoFacts ==
    ASSUME Types, NEW p \in Tasks, NEW from, NEW to \in Label, Goto(p, from, to)
    PROVE  /\ pc' \in [Tasks -> Label]
           /\ pc[p] = from /\ pc'[p] = to
           /\ \A q \in Tasks \ {p} : pc'[q] = pc[q]
BY DEF Types, Goto

LEMMA StopFacts ==
    ASSUME Types, NEW p \in Tasks, Stop(p)
    PROVE  /\ pc' \in [Tasks -> Label]
           /\ mine' \in [Tasks -> {{}} \cup {{s} : s \in AdSet}]
           /\ rows' \in [Tasks -> SUBSET Row]
           /\ found' \in [Tasks -> SUBSET AdSet]
           /\ pc'[p] = "idle" /\ mine'[p] = {} /\ rows'[p] = {}
           /\ \A q \in Tasks \ {p} :
                pc'[q] = pc[q] /\ mine'[q] = mine[q] /\ rows'[q] = rows[q]
           /\ UNCHANGED <<snapshot, born, answered>>
<1>1. /\ pc' \in [Tasks -> Label] /\ pc'[p] = "idle"
      /\ \A q \in Tasks \ {p} : pc'[q] = pc[q]
  BY DEF Stop, Types, Label
<1>2. /\ mine' \in [Tasks -> {{}} \cup {{s} : s \in AdSet}] /\ mine'[p] = {}
      /\ \A q \in Tasks \ {p} : mine'[q] = mine[q]
  BY DEF Stop, Types
<1>3. /\ rows' \in [Tasks -> SUBSET Row] /\ rows'[p] = {}
      /\ \A q \in Tasks \ {p} : rows'[q] = rows[q]
      /\ found' \in [Tasks -> SUBSET AdSet]
  BY DEF Stop, Types
<1> QED BY <1>1, <1>2, <1>3 DEF Stop

\* $addToSet adds to the links of a campaign that is there, and to nothing else.
LEMMA LinkedFacts ==
    ASSUME Types, NEW s \in AdSet
    PROVE  /\ Linked(s) \in [Campaigns -> SUBSET AdSetIds]
           /\ \A c \in Campaigns :
                Linked(s)[c] = IF c = s.campaign /\ c \in alive
                               THEN links[c] \cup {s.id} ELSE links[c]
<1>1. links \in [Campaigns -> SUBSET AdSetIds]
  BY DEF Types
<1>2. s.id \in AdSetIds /\ s.campaign \in Campaigns
  BY DEF AdSet
<1> QED BY <1>1, <1>2 DEF Linked

LEMMA VariantsFacts ==
    ASSUME Types, NEW s \in AdSet, NEW left \in {"none", "some", "all"},
           variants' = [variants EXCEPT ![s.id] = left]
    PROVE  /\ variants' \in [AdSetIds -> {"none", "some", "all"}]
           /\ variants'[s.id] = left
           /\ \A i \in AdSetIds \ {s.id} : variants'[i] = variants[i]
BY DEF Types, AdSet

LEMMA RowsListed ==
    ASSUME Types
    PROVE  {[campaign |-> c, links |-> links[c]] : c \in active} \subseteq Row
BY DEF Types, Row

LEMMA TypesInit == Init => Types
BY SeedFacts DEF Init, Types, Label, Row

LEMMA TypesNext == Types /\ [Next]_vars => Types'
<1> SUFFICES ASSUME Types, [Next]_vars PROVE Types'
  OBVIOUS
<1> USE DEF store, campaigns
<1>1. ASSUME NEW p \in Tasks, NEW s \in AdSet, BeginCreate(p, s) PROVE Types'
  <2>1. pc' \in [Tasks -> Label]
    BY <1>1, GotoFacts DEF BeginCreate, Label
  <2>2. s.id \in AdSetIds
    BY DEF AdSet
  <2>3. born' \subseteq AdSetIds \cup Campaigns /\ born \subseteq born'
    BY <1>1, <2>2 DEF BeginCreate, Types
  <2>4. mine' \in [Tasks -> {{}} \cup {{t} : t \in AdSet}]
    BY <1>1 DEF BeginCreate, Types
  <2> QED BY <1>1, <2>1, <2>3, <2>4 DEF BeginCreate, Types
<1>2. ASSUME NEW p \in Tasks, InsertVariants(p) PROVE Types'
  <2>1. pc' \in [Tasks -> Label]
    BY <1>2, GotoFacts DEF InsertVariants, Label
  <2>2. PICK s \in AdSet : variants' = [variants EXCEPT ![s.id] = "all"]
    BY <1>2, MineFacts DEF InsertVariants
  <2>3. variants' \in [AdSetIds -> {"none", "some", "all"}]
    BY <2>2, VariantsFacts
  <2> QED BY <1>2, <2>1, <2>3 DEF InsertVariants, Types
<1>3. ASSUME NEW p \in Tasks, InsertVariantsFails(p) PROVE Types'
  <2>1. PICK s \in AdSet, left \in {"none", "some", "all"} :
          variants' = [variants EXCEPT ![s.id] = left]
    BY <1>3, MineFacts DEF InsertVariantsFails
  <2>2. variants' \in [AdSetIds -> {"none", "some", "all"}]
    BY <2>1, VariantsFacts
  <2>3. Stop(p) /\ UNCHANGED <<campaigns, sets, loose>>
    BY <1>3 DEF InsertVariantsFails
  <2> QED BY <2>2, <2>3, StopFacts DEF Types
<1>4. ASSUME NEW p \in Tasks, InsertAdSet(p) PROVE Types'
  <2>1. pc' \in [Tasks -> Label]
    BY <1>4, GotoFacts DEF InsertAdSet, Label
  <2>2. sets' \subseteq AdSet /\ loose' \subseteq AdSetIds
    BY <1>4 DEF InsertAdSet, Types
  <2> QED BY <1>4, <2>1, <2>2 DEF InsertAdSet, Types
<1>5. ASSUME NEW p \in Tasks, InsertAdSetFails(p) PROVE Types'
  <2>1. sets' \subseteq AdSet /\ loose' \subseteq AdSetIds
    BY <1>5 DEF InsertAdSetFails, Types
  <2>2. Stop(p) /\ UNCHANGED <<campaigns, variants>>
    BY <1>5 DEF InsertAdSetFails
  <2> QED BY <2>1, <2>2, StopFacts DEF Types
<1>6. ASSUME NEW p \in Tasks, Link(p) PROVE Types'
  <2>1. pc' \in [Tasks -> Label]
    BY <1>6, GotoFacts DEF Link, Label
  <2>2. PICK s \in AdSet : /\ links' = Linked(s)
                           /\ answered' \in {answered, answered \cup {s}}
    BY <1>6, MineFacts DEF Link
  <2>3. /\ links' \in [Campaigns -> SUBSET AdSetIds]
        /\ \A c \in Campaigns \ alive : links'[c] = {}
    BY <2>2, LinkedFacts DEF Types
  <2>4. answered' \subseteq AdSet
    BY <2>2 DEF Types
  <2> QED BY <1>6, <2>1, <2>3, <2>4 DEF Link, Types
<1>7. ASSUME NEW p \in Tasks, LinkFails(p) PROVE Types'
  <2>1. PICK s \in AdSet : links' \in {links, Linked(s)}
    BY <1>7, MineFacts DEF LinkFails
  <2>2. /\ links' \in [Campaigns -> SUBSET AdSetIds]
        /\ \A c \in Campaigns \ alive : links'[c] = {}
    <3>1. CASE links' = links
      BY <3>1 DEF Types
    <3>2. CASE links' = Linked(s)
      BY <3>2, LinkedFacts DEF Types
    <3> QED BY <2>1, <3>1, <3>2
  <2>3. Stop(p) /\ UNCHANGED <<alive, active, sets, variants, loose>>
    BY <1>7 DEF LinkFails
  <2> QED BY <2>2, <2>3, StopFacts DEF Types
<1>8. ASSUME NEW p \in Tasks, ListForRefresh(p) PROVE Types'
  <2>1. pc' \in [Tasks -> Label]
    BY <1>8, GotoFacts DEF ListForRefresh, Label
  <2>2. rows' \in [Tasks -> SUBSET Row]
    BY <1>8, RowsListed DEF ListForRefresh, Types
  <2> QED BY <1>8, <2>1, <2>2 DEF ListForRefresh, Types
<1>9. ASSUME NEW p \in Tasks, WriteSnapshot(p) PROVE Types'
  <2>1. pc' \in [Tasks -> Label]
    BY <1>9, GotoFacts DEF WriteSnapshot, Label
  <2>2. /\ snapshot' \subseteq Row /\ rows' \in [Tasks -> SUBSET Row]
        /\ mine' \in [Tasks -> {{}} \cup {{s} : s \in AdSet}]
    BY <1>9 DEF WriteSnapshot, Types
  <2> QED BY <1>9, <2>1, <2>2 DEF WriteSnapshot, Types
<1>10. ASSUME NEW p \in Tasks, RefreshFails(p) \/ Crash(p) PROVE Types'
  <2>1. Stop(p) /\ UNCHANGED <<store, loose>>
    BY <1>10 DEF RefreshFails, Crash
  <2> QED BY <2>1, StopFacts DEF Types
<1>11. ASSUME NEW p \in Tasks, NEW c \in Campaigns, NEW ids \in SUBSET AdSetIds,
              NEW on \in BOOLEAN, Patch(p, c, ids, on)
       PROVE  Types'
  <2>1. pc' \in [Tasks -> Label]
    BY <1>11, GotoFacts DEF Patch, Label
  <2>2. /\ links' \in [Campaigns -> SUBSET AdSetIds]
        /\ \A d \in Campaigns \ alive : links'[d] = {}
    BY <1>11 DEF Patch, Types
  <2>3. alive' = alive /\ active' \subseteq alive /\ born' = born \cup ids
    BY <1>11 DEF Patch, Types
  <2>4. loose' \subseteq AdSetIds /\ answered' \subseteq answered
    BY <1>11 DEF Patch, Types, Unstored
  <2> QED BY <1>11, <2>1, <2>2, <2>3, <2>4 DEF Patch, Types
<1>12. ASSUME NEW p \in Tasks, NEW c \in Campaigns, DeleteCampaign(p, c) PROVE Types'
  <2>1. pc' \in [Tasks -> Label]
    BY <1>12, GotoFacts DEF DeleteCampaign, Label
  <2>2. /\ links' \in [Campaigns -> SUBSET AdSetIds]
        /\ alive' \subseteq alive /\ active' \subseteq alive'
        /\ \A d \in Campaigns \ alive' : links'[d] = {}
    BY <1>12 DEF DeleteCampaign, Types
  <2> QED BY <1>12, <2>1, <2>2 DEF DeleteCampaign, Types
<1>13. ASSUME NEW p \in Tasks, SeedCampaigns(p) PROVE Types'
  <2>1. pc' \in [Tasks -> Label]
    BY <1>13, GotoFacts DEF SeedCampaigns, Label
  <2>2. /\ links' \in [Campaigns -> SUBSET AdSetIds]
        /\ \A d \in Campaigns \ alive' : links'[d] = {}
        /\ answered' \subseteq answered
    BY <1>13, SeedFacts DEF SeedCampaigns, Types
  <2>3. /\ alive' \subseteq Campaigns \cap born /\ active' \subseteq alive'
        /\ loose' \subseteq AdSetIds
    BY <1>13, SeedFacts DEF SeedCampaigns, Types, Unstored
  <2> QED BY <1>13, <2>1, <2>2, <2>3 DEF SeedCampaigns, Types
<1>14. ASSUME NEW p \in Tasks, SeedAdSets(p) PROVE Types'
  <2>1. pc' \in [Tasks -> Label]
    BY <1>14, GotoFacts DEF SeedAdSets, Label
  <2>2. sets' \subseteq AdSet
    BY <1>14, SeedFacts DEF SeedAdSets, Types
  <2> QED BY <1>14, <2>1, <2>2 DEF SeedAdSets, Types
<1>15. ASSUME NEW p \in Tasks, SeedVariants(p) PROVE Types'
  <2>1. pc' \in [Tasks -> Label]
    BY <1>15, GotoFacts DEF SeedVariants, Label
  <2>2. variants' \in [AdSetIds -> {"none", "some", "all"}] /\ loose' \subseteq AdSetIds
    BY <1>15 DEF SeedVariants, Types
  <2> QED BY <1>15, <2>1, <2>2 DEF SeedVariants, Types
<1>16. ASSUME NEW p \in Tasks, ServeStep(p) PROVE Types'
  <2>1. pc' \in [Tasks -> Label]
    BY <1>16, GotoFacts DEF ServeStep, Fetch, FindAdSets, Skip, Serve, NoAd, Label
  <2>2. UNCHANGED <<store, snapshot, born, mine, answered, loose>>
    BY <1>16 DEF ServeStep, Fetch, FindAdSets, Skip, Serve, NoAd
  <2>3. rows' \in [Tasks -> SUBSET Row]
    BY <1>16 DEF ServeStep, Fetch, FindAdSets, Skip, Serve, NoAd, Types
  <2>4. \A row : Candidates(row) \subseteq AdSet
    BY DEF Candidates, Types
  <2>5. found' \in [Tasks -> SUBSET AdSet]
    BY <1>16, <2>4 DEF ServeStep, Fetch, FindAdSets, Skip, Serve, NoAd, Types
  <2> QED BY <2>1, <2>2, <2>3, <2>5 DEF Types
<1>17. CASE UNCHANGED vars
  BY <1>17 DEF vars, Types
<1>18. ASSUME NEW p \in Tasks, NEW c \in Campaigns, NEW ids \in SUBSET AdSetIds,
              CreateCampaign(p, c, ids)
       PROVE  Types'
  <2>1. pc' \in [Tasks -> Label]
    BY <1>18, GotoFacts DEF CreateCampaign, Label
  <2>2. /\ links' \in [Campaigns -> SUBSET AdSetIds]
        /\ alive' = alive \cup {c} /\ born' = born \cup {c} \cup ids
        /\ \A d \in Campaigns \ alive' : links'[d] = {}
    BY <1>18 DEF CreateCampaign, Types
  <2>3. loose' \subseteq AdSetIds
    BY <1>18 DEF CreateCampaign, Types, Unstored
  <2> QED BY <1>18, <2>1, <2>2, <2>3 DEF CreateCampaign, Types
<1>19. ASSUME NEW p \in Tasks, CreateStep(p) PROVE Types'
  BY <1>1, <1>2, <1>3, <1>4, <1>5, <1>6, <1>7, <1>19, ClientAssumption DEF CreateStep
<1>20. ASSUME NEW p \in Tasks, EditStep(p) PROVE Types'
  BY <1>11, <1>12, <1>13, <1>14, <1>15, <1>18, <1>20, EditCases
<1> QED
  BY <1>8, <1>9, <1>10, <1>16, <1>17, <1>19, <1>20 DEF Next

----------------------------------------------------------------------------
(* What is stored of an ad set *)

\* An ad set that is being created has an id of its own, which nothing stored
\* has before the handler stores it, variants first.
Owned ==
    \A p \in Tasks : \A s \in mine[p] :
        /\ pc[p] \in {"variants", "adset", "link", "refresh", "write"}
        /\ s.id \in born \ SeedIds
        /\ pc[p] \in {"adset", "link"} => variants[s.id] = "all"
        /\ pc[p] \in {"variants", "adset"} => \A t \in sets : t.id # s.id
        /\ pc[p] = "link" => s \in sets
        /\ \A q \in Tasks \ {p} : \A t \in mine[q] : t.id # s.id

Stored ==
    /\ SeedIds \subseteq born
    /\ \A s \in sets :
        /\ s.id \in born
        /\ IF s.id \in SeedIds THEN s \in SeedSets ELSE variants[s.id] = "all"
        /\ \A t \in sets : s.id = t.id => s = t

LEMMA StoredInit == Init => Owned /\ Stored
BY DEF Init, Owned, Stored

\* Most steps store nothing: they end requests or carry them on.
LEMMA NothingStored ==
    ASSUME Types, Owned, Stored,
           UNCHANGED sets, born \subseteq born',
           \A i \in AdSetIds : i \in SeedIds \/ variants'[i] = variants[i],
           \A q \in Tasks :
             \/ mine'[q] = {}
             \/ mine'[q] = mine[q] /\ (pc'[q] = pc[q] \/ pc'[q] \in {"refresh", "write"})
    PROVE  Owned' /\ Stored'
<1>1. Stored'
  <2>1. \A s \in sets : s.id \in AdSetIds
    BY DEF Types, AdSet
  <2> QED BY <2>1 DEF Stored
<1>2. ASSUME NEW p \in Tasks, NEW s \in mine'[p]
      PROVE  /\ pc'[p] \in {"variants", "adset", "link", "refresh", "write"}
             /\ s.id \in born' \ SeedIds
             /\ pc'[p] \in {"adset", "link"} => variants'[s.id] = "all"
             /\ pc'[p] \in {"variants", "adset"} => \A t \in sets' : t.id # s.id
             /\ pc'[p] = "link" => s \in sets'
             /\ \A q \in Tasks \ {p} : \A t \in mine'[q] : t.id # s.id
  <2>1. s \in mine[p] /\ (pc'[p] = pc[p] \/ pc'[p] \in {"refresh", "write"})
    BY <1>2
  <2>2. s.id \in AdSetIds /\ s.id \in born \ SeedIds
    BY <2>1, MineFacts DEF Owned
  <2>3. variants'[s.id] = variants[s.id]
    BY <2>2
  <2>4. \A q \in Tasks \ {p} : \A t \in mine'[q] : t.id # s.id
    BY <2>1 DEF Owned
  <2> QED BY <2>1, <2>2, <2>3, <2>4 DEF Owned
<1>3. Owned'
  BY <1>2 DEF Owned
<1> QED BY <1>1, <1>3

\* A request that ends owns nothing.
LEMMA StopStoresNothing ==
    ASSUME Types, Owned, Stored, NEW p \in Tasks, Stop(p), UNCHANGED <<sets, variants>>
    PROVE  Owned' /\ Stored'
<1>1. \A q \in Tasks : mine'[q] = {} \/ (mine'[q] = mine[q] /\ pc'[q] = pc[q])
  BY StopFacts
<1>2. UNCHANGED born
  BY DEF Stop
<1> QED BY <1>1, <1>2, NothingStored

\* A step from where nothing is being created.
LEMMA NothingMine ==
    ASSUME Owned, NEW p \in Tasks,
           pc[p] \in {"idle", "seedsets", "seedvariants", "picking", "choosing"}
    PROVE  mine[p] = {}
BY DEF Owned

LEMMA StoredNext == Types /\ Owned /\ Stored /\ [Next]_vars => Owned' /\ Stored'
<1> SUFFICES ASSUME Types, Owned, Stored, [Next]_vars PROVE Owned' /\ Stored'
  OBVIOUS
<1> USE DEF store, campaigns
<1>1. ASSUME NEW p \in Tasks, NEW s \in AdSet, BeginCreate(p, s) PROVE Owned' /\ Stored'
  <2>1. /\ pc'[p] = "variants" /\ \A q \in Tasks \ {p} : pc'[q] = pc[q]
    BY <1>1, GotoFacts DEF BeginCreate, Label
  <2>2. mine'[p] = {s} /\ \A q \in Tasks \ {p} : mine'[q] = mine[q]
    BY <1>1 DEF BeginCreate, Types
  <2>3. /\ s.id \notin born /\ born' = born \cup {s.id} /\ SeedIds \subseteq born
        /\ UNCHANGED <<sets, variants>>
    BY <1>1 DEF BeginCreate, Stored
  <2>4. Stored'
    BY <2>3 DEF Stored
  <2>5. \A q \in Tasks : \A t \in mine[q] : t.id # s.id
    BY <2>3 DEF Owned
  <2>6. \A t \in sets : t.id # s.id
    BY <2>3 DEF Stored
  <2>7. Owned'
    BY <2>1, <2>2, <2>3, <2>5, <2>6 DEF Owned
  <2> QED BY <2>4, <2>7
<1>2. ASSUME NEW p \in Tasks, InsertVariants(p) PROVE Owned' /\ Stored'
  <2>1. PICK s \in mine[p] : /\ Goto(p, "variants", "adset")
                             /\ variants' = [variants EXCEPT ![s.id] = "all"]
                             /\ UNCHANGED <<sets, born, mine>>
    BY <1>2 DEF InsertVariants
  <2>2. s \in AdSet /\ mine[p] = {s}
    BY MineFacts
  <2>3. /\ variants'[s.id] = "all"
        /\ \A i \in AdSetIds \ {s.id} : variants'[i] = variants[i]
    BY <2>1, <2>2, VariantsFacts
  <2>4. /\ pc[p] = "variants" /\ pc'[p] = "adset"
        /\ \A q \in Tasks \ {p} : pc'[q] = pc[q]
    BY <2>1, GotoFacts DEF Label
  <2>5. \A i \in AdSetIds : variants[i] = "all" => variants'[i] = "all"
    BY <2>3
  <2>6. Stored'
    BY <2>1, <2>5 DEF Stored, Types, AdSet
  <2>7. \A q \in Tasks : \A t \in mine[q] : t.id \in AdSetIds
    BY MineFacts
  <2>8. Owned'
    BY <2>1, <2>2, <2>3, <2>4, <2>5, <2>7 DEF Owned
  <2> QED BY <2>6, <2>8
<1>3. ASSUME NEW p \in Tasks, InsertVariantsFails(p) PROVE Owned' /\ Stored'
  <2>1. PICK s \in mine[p], left \in {"none", "some", "all"} :
          /\ variants' = [variants EXCEPT ![s.id] = left]
          /\ pc[p] = "variants" /\ Stop(p) /\ UNCHANGED sets
    BY <1>3 DEF InsertVariantsFails
  <2>2. s \in AdSet /\ mine[p] = {s}
    BY MineFacts
  <2>3. \A i \in AdSetIds \ {s.id} : variants'[i] = variants[i]
    BY <2>1, <2>2, VariantsFacts
  <2>4. \A t \in sets : t.id # s.id /\ t.id \in AdSetIds
    BY <2>1 DEF Owned, Types, AdSet
  <2>5. /\ mine'[p] = {} /\ UNCHANGED born
        /\ \A q \in Tasks \ {p} : mine'[q] = mine[q] /\ pc'[q] = pc[q]
    BY <2>1, StopFacts
  <2>6. Stored'
    BY <2>1, <2>3, <2>4, <2>5 DEF Stored
  <2>7. \A q \in Tasks \ {p} : \A t \in mine[q] : t.id \in AdSetIds \ {s.id}
    BY MineFacts DEF Owned
  <2>8. Owned'
    BY <2>1, <2>3, <2>5, <2>7 DEF Owned
  <2> QED BY <2>6, <2>8
<1>4. ASSUME NEW p \in Tasks, pc[p] = "adset", sets' = sets \cup mine[p],
             UNCHANGED <<variants, born>>,
             mine'[p] = {} \/ (mine'[p] = mine[p] /\ pc'[p] = "link"),
             \A q \in Tasks \ {p} : mine'[q] = mine[q] /\ pc'[q] = pc[q]
      PROVE  Owned' /\ Stored'
  <2>1. \A s \in mine[p] :
          /\ s.id \in born \ SeedIds /\ variants[s.id] = "all"
          /\ \A t \in sets : t.id # s.id
          /\ mine[p] = {s}
    BY <1>4, MineFacts DEF Owned
  <2>2. Stored'
    BY <1>4, <2>1 DEF Stored
  <2>3. \A q \in Tasks \ {p} : \A t \in mine[q] : \A s \in mine[p] : s.id # t.id
    BY DEF Owned
  <2>4. Owned'
    BY <1>4, <2>1, <2>3 DEF Owned
  <2> QED BY <2>2, <2>4
<1>5. ASSUME NEW p \in Tasks, InsertAdSet(p) PROVE Owned' /\ Stored'
  <2>1. /\ pc[p] = "adset" /\ pc'[p] = "link" /\ \A q \in Tasks \ {p} : pc'[q] = pc[q]
    BY <1>5, GotoFacts DEF InsertAdSet, Label
  <2>2. sets' = sets \cup mine[p] /\ UNCHANGED <<variants, born, mine>>
    BY <1>5 DEF InsertAdSet
  <2> QED BY <1>4, <2>1, <2>2
<1>6. ASSUME NEW p \in Tasks, InsertAdSetFails(p) PROVE Owned' /\ Stored'
  <2>1. /\ pc[p] = "adset" /\ sets' \in {sets, sets \cup mine[p]}
        /\ Stop(p) /\ UNCHANGED variants
    BY <1>6 DEF InsertAdSetFails
  <2>2. CASE sets' = sets
    BY <2>1, <2>2, StopStoresNothing
  <2>3. CASE sets' = sets \cup mine[p]
    <3>1. /\ mine'[p] = {} /\ UNCHANGED born
          /\ \A q \in Tasks \ {p} : mine'[q] = mine[q] /\ pc'[q] = pc[q]
      BY <2>1, StopFacts
    <3> QED BY <1>4, <2>1, <2>3, <3>1
  <2> QED BY <2>1, <2>2, <2>3
<1>7. ASSUME NEW p \in Tasks, Link(p) PROVE Owned' /\ Stored'
  <2>1. Goto(p, "link", "refresh") /\ UNCHANGED <<sets, variants, born, mine>>
    BY <1>7 DEF Link
  <2>2. pc'[p] = "refresh" /\ \A q \in Tasks \ {p} : pc'[q] = pc[q]
    BY <2>1, GotoFacts DEF Label
  <2> QED BY <2>1, <2>2, NothingStored
<1>8. ASSUME NEW p \in Tasks, ListForRefresh(p) PROVE Owned' /\ Stored'
  <2>1. Goto(p, "refresh", "write") /\ UNCHANGED <<sets, variants, born, mine>>
    BY <1>8 DEF ListForRefresh
  <2>2. pc'[p] = "write" /\ \A q \in Tasks \ {p} : pc'[q] = pc[q]
    BY <2>1, GotoFacts DEF Label
  <2> QED BY <2>1, <2>2, NothingStored
<1>9. ASSUME NEW p \in Tasks, WriteSnapshot(p) PROVE Owned' /\ Stored'
  <2>1. \A q \in Tasks \ {p} : pc'[q] = pc[q]
    BY <1>9, GotoFacts DEF WriteSnapshot, Label
  <2>2. mine'[p] = {} /\ \A q \in Tasks \ {p} : mine'[q] = mine[q]
    BY <1>9 DEF WriteSnapshot, Types
  <2>3. UNCHANGED <<sets, variants, born>>
    BY <1>9 DEF WriteSnapshot
  <2> QED BY <2>1, <2>2, <2>3, NothingStored
<1>10. ASSUME NEW p \in Tasks, LinkFails(p) \/ RefreshFails(p) \/ Crash(p)
       PROVE  Owned' /\ Stored'
  <2>1. Stop(p) /\ UNCHANGED <<sets, variants>>
    BY <1>10 DEF LinkFails, RefreshFails, Crash
  <2> QED BY <2>1, StopStoresNothing
<1>11. ASSUME NEW p \in Tasks,
              \/ SeedCampaigns(p) \/ ServeStep(p)
              \/ \E c \in Campaigns :
                   \/ DeleteCampaign(p, c)
                   \/ \E ids \in SUBSET AdSetIds :
                        \/ CreateCampaign(p, c, ids)
                        \/ \E on \in BOOLEAN : Patch(p, c, ids, on)
       PROVE  Owned' /\ Stored'
  <2>1. /\ UNCHANGED <<sets, variants, mine>> /\ born \subseteq born'
        /\ \E from \in {"idle", "picking", "choosing"}, to \in Label : Goto(p, from, to)
    BY <1>11 DEF SeedCampaigns, DeleteCampaign, CreateCampaign, Patch, ServeStep, Fetch,
                 FindAdSets, Skip, Serve, NoAd, Label
  <2>2. PICK from \in {"idle", "picking", "choosing"}, to \in Label : Goto(p, from, to)
    BY <2>1
  <2>3. pc[p] = from /\ \A q \in Tasks \ {p} : pc'[q] = pc[q]
    BY <2>2, GotoFacts
  <2>4. mine[p] = {}
    BY <2>3, NothingMine
  <2> QED BY <2>1, <2>3, <2>4, NothingStored
<1>12. ASSUME NEW p \in Tasks, SeedAdSets(p) PROVE Owned' /\ Stored'
  <2>1. /\ sets' = sets \cup SeedSets /\ UNCHANGED <<variants, born, mine>>
        /\ Goto(p, "seedsets", "seedvariants")
    BY <1>12 DEF SeedAdSets
  <2>2. pc[p] = "seedsets" /\ \A q \in Tasks \ {p} : pc'[q] = pc[q]
    BY <2>1, GotoFacts DEF Label
  <2>3. mine[p] = {}
    BY <2>2, NothingMine
  <2>4. Stored'
    BY <2>1, SeedFacts, SeedAssumption DEF Stored
  <2>5. \A q \in Tasks : \A s \in mine[q] : \A t \in SeedSets : t.id # s.id
    BY SeedFacts DEF Owned
  <2>6. Owned'
    BY <2>1, <2>2, <2>3, <2>5 DEF Owned
  <2> QED BY <2>4, <2>6
<1>13. ASSUME NEW p \in Tasks, SeedVariants(p) PROVE Owned' /\ Stored'
  <2>1. /\ UNCHANGED <<sets, born, mine>>
        /\ \A i \in AdSetIds : i \in SeedIds \/ variants'[i] = variants[i]
        /\ Goto(p, "seedvariants", "refresh")
    BY <1>13 DEF SeedVariants
  <2>2. pc[p] = "seedvariants" /\ \A q \in Tasks \ {p} : pc'[q] = pc[q]
    BY <2>1, GotoFacts DEF Label
  <2>3. mine[p] = {}
    BY <2>2, NothingMine
  <2> QED BY <2>1, <2>2, <2>3, NothingStored
<1>14. CASE UNCHANGED vars
  BY <1>14, NothingStored DEF vars
<1>15. ASSUME NEW p \in Tasks, CreateStep(p) PROVE Owned' /\ Stored'
  BY <1>1, <1>2, <1>3, <1>5, <1>6, <1>7, <1>10, <1>15, ClientAssumption DEF CreateStep
<1>16. ASSUME NEW p \in Tasks, EditStep(p) PROVE Owned' /\ Stored'
  BY <1>11, <1>12, <1>13, <1>16, EditCases
<1> QED
  BY <1>8, <1>9, <1>10, <1>11, <1>14, <1>15, <1>16 DEF Next

LEMMA StoredAlways == Spec => [](Types /\ Owned /\ Stored)
BY TypesInit, TypesNext, StoredInit, StoredNext, PTL DEF Spec

\* Two ad sets never share an id, a request creates one at most, and a campaign
\* that is gone has no links: linking never brings one back.
THEOREM TypeCorrect == Spec => []TypeOK
<1>1. Types /\ Owned /\ Stored => TypeOK
  <2> SUFFICES ASSUME Types, Owned, Stored PROVE TypeOK
    OBVIOUS
  <2>1. \A p \in Tasks : mine[p] = {} \/ \E s \in AdSet : mine[p] = {s}
    BY DEF Types
  <2>2. \A p \in Tasks : Cardinality(mine[p]) <= 1
    <3>1. Cardinality({}) = 0
      BY FS_EmptySet
    <3>2. ASSUME NEW p \in Tasks PROVE Cardinality(mine[p]) <= 1
      <4>1. CASE mine[p] = {}
        BY <3>1, <4>1
      <4>2. ASSUME NEW s \in AdSet, mine[p] = {s} PROVE Cardinality(mine[p]) <= 1
        <5>1. Cardinality({s}) = 1
          BY FS_Singleton, Zenon
        <5>2. Cardinality(mine[p]) = 1
          BY <4>2, <5>1, Zenon
        <5> QED BY <5>2
      <4> QED BY <2>1, <4>1, <4>2
    <3> QED BY <3>2
  <2>3. mine \in [Tasks -> SUBSET AdSet]
    BY DEF Types
  <2>4. \A s, t \in sets : s.id = t.id => s = t
    BY DEF Stored
  <2> QED BY <2>2, <2>3, <2>4 DEF Types, TypeOK, Label
<1> QED
  BY <1>1, StoredAlways, PTL

\* However POSTs break off, and whatever else is written beside them, an ad set
\* the API created is in the store only with all of its variants.
THEOREM CompleteWhenSeen == Spec => []CreatedComplete
<1>1. Stored => CreatedComplete
  BY DEF Stored, CreatedComplete
<1> QED
  BY <1>1, StoredAlways, PTL

----------------------------------------------------------------------------
(* What links name *)

\* The ids that lead to an ad set with all its variants.
Whole == {i \in AdSetIds : variants[i] = "all" /\ \E s \in sets : s.id = i}

\* The ids a link may have: those, and those named before they were stored.
Sound == Whole \cup loose

\* Wherever links travel: the store, the listing a refresh will write, the
\* snapshot, and what a serve request read of it.
LinksSound ==
    /\ \A c \in Campaigns : links[c] \subseteq Sound
    /\ \A r \in snapshot : r.links \subseteq Sound
    /\ \A p \in Tasks : \A r \in rows[p] : r.links \subseteq Sound

\* A boot that writes variants has its ad sets in the store.
SeedsPut == \A p \in Tasks : pc[p] = "seedvariants" => SeedSets \subseteq sets

LEMMA LinksInit == Init => LinksSound /\ SeedsPut
BY DEF Init, LinksSound, SeedsPut

\* No step removes an ad set.
LEMMA NeverRemoved == [Next]_vars => sets \subseteq sets'
BY DEF Next, vars, store, campaigns, CreateStep, EditStep, ServeStep, BeginCreate,
       InsertVariants, InsertVariantsFails, InsertAdSet, InsertAdSetFails, Link, LinkFails,
       ListForRefresh, WriteSnapshot, RefreshFails, CreateCampaign, DeleteCampaign, Patch,
       SeedCampaigns, SeedAdSets, SeedVariants, Fetch, FindAdSets, Skip, Serve, NoAd, Crash

LEMMA SeedsPutNext == Types /\ SeedsPut /\ [Next]_vars => SeedsPut'
<1> SUFFICES ASSUME Types, SeedsPut, [Next]_vars PROVE SeedsPut'
  OBVIOUS
<1>1. sets \subseteq sets'
  BY NeverRemoved
<1>2. ASSUME NEW p \in Tasks, SeedAdSets(p) PROVE SeedsPut'
  <2>1. SeedSets \subseteq sets'
    BY <1>2 DEF SeedAdSets
  <2> QED BY <2>1 DEF SeedsPut
<1>3. ASSUME NEW p \in Tasks, NEW from, NEW to \in Label \ {"seedvariants"}, Goto(p, from, to)
      PROVE  SeedsPut'
  <2>1. pc'[p] = to /\ \A q \in Tasks \ {p} : pc'[q] = pc[q]
    BY <1>3, GotoFacts
  <2> QED BY <1>1, <2>1 DEF SeedsPut
<1>4. ASSUME NEW p \in Tasks, Stop(p) PROVE SeedsPut'
  BY <1>1, <1>4, StopFacts DEF SeedsPut
<1>5. ASSUME NEW p \in Tasks, CreateStep(p) PROVE SeedsPut'
  <2>1. Stop(p) \/ \E from \in Label, to \in Label \ {"seedvariants"} : Goto(p, from, to)
    BY <1>5 DEF CreateStep, BeginCreate, InsertVariants, InsertVariantsFails, InsertAdSet,
                InsertAdSetFails, Link, LinkFails, Label
  <2> QED BY <1>3, <1>4, <2>1
<1>6. ASSUME NEW p \in Tasks, EditStep(p) PROVE SeedsPut'
  <2>1. SeedAdSets(p) \/ \E from \in Label, to \in Label \ {"seedvariants"} : Goto(p, from, to)
    BY <1>6 DEF EditStep, CreateCampaign, Patch, DeleteCampaign, SeedCampaigns,
                SeedVariants, Label
  <2> QED BY <1>2, <1>3, <2>1
<1>7. ASSUME NEW p \in Tasks,
             ServeStep(p) \/ ListForRefresh(p) \/ WriteSnapshot(p) \/ RefreshFails(p) \/ Crash(p)
      PROVE  SeedsPut'
  <2>1. Stop(p) \/ \E from \in Label, to \in Label \ {"seedvariants"} : Goto(p, from, to)
    BY <1>7 DEF ServeStep, Fetch, FindAdSets, Skip, Serve, NoAd, ListForRefresh,
                WriteSnapshot, RefreshFails, Crash, Label
  <2> QED BY <1>3, <1>4, <2>1
<1>8. CASE UNCHANGED vars
  BY <1>1, <1>8 DEF vars, SeedsPut
<1> QED BY <1>5, <1>6, <1>7, <1>8 DEF Next

\* Storing one new ad set, its variants being there, makes its id whole.
LEMMA SoundStoring ==
    ASSUME Types, Owned, NEW p \in Tasks, pc[p] = "adset",
           sets' \in {sets, sets \cup mine[p]}, UNCHANGED variants,
           loose \ {s.id : s \in sets' \ sets} \subseteq loose'
    PROVE  Sound \subseteq Sound'
<1>1. Whole \subseteq Whole'
  BY DEF Whole
<1>2. \A s \in sets' \ sets : s.id \in Whole'
  <2>1. \A s \in mine[p] : s.id \in AdSetIds /\ variants[s.id] = "all"
    BY MineFacts DEF Owned
  <2> QED BY <2>1 DEF Whole
<1> QED BY <1>1, <1>2 DEF Sound

\* What a link may name, it may name from then on.
LEMMA SoundGrows ==
    Types /\ Owned /\ SeedsPut /\ [Next]_vars => Sound \subseteq Sound'
<1> SUFFICES ASSUME Types, Owned, SeedsPut, [Next]_vars PROVE Sound \subseteq Sound'
  OBVIOUS
<1> USE DEF store, campaigns
<1>1. sets \subseteq sets'
  BY NeverRemoved
<1>2. ASSUME UNCHANGED variants, loose \subseteq loose' PROVE Sound \subseteq Sound'
  BY <1>1, <1>2 DEF Sound, Whole
<1>3. ASSUME NEW p \in Tasks, InsertVariants(p) \/ InsertVariantsFails(p)
      PROVE  Sound \subseteq Sound'
  <2>1. PICK s \in mine[p], left \in {"none", "some", "all"} :
          variants' = [variants EXCEPT ![s.id] = left]
    BY <1>3 DEF InsertVariants, InsertVariantsFails
  <2>2. pc[p] = "variants" /\ UNCHANGED <<sets, loose>>
    BY <1>3 DEF InsertVariants, InsertVariantsFails, Goto
  <2>3. s \in AdSet /\ \A t \in sets : t.id # s.id
    BY <2>2, MineFacts DEF Owned
  <2>4. \A i \in AdSetIds \ {s.id} : variants'[i] = variants[i]
    BY <2>1, <2>3, VariantsFacts
  <2> QED BY <2>2, <2>3, <2>4 DEF Sound, Whole
<1>4. ASSUME NEW p \in Tasks, InsertAdSet(p) PROVE Sound \subseteq Sound'
  <2>1. /\ pc[p] = "adset" /\ sets' = sets \cup mine[p] /\ UNCHANGED variants
        /\ loose' = loose \ {s.id : s \in mine[p]}
    BY <1>4 DEF InsertAdSet, Goto
  <2>2. \A s \in mine[p] : s \in sets' \ sets
    BY <2>1 DEF Owned
  <2>3. loose \ {s.id : s \in sets' \ sets} \subseteq loose'
    BY <2>1, <2>2
  <2> QED BY <2>1, <2>3, SoundStoring
<1>5. ASSUME NEW p \in Tasks, InsertAdSetFails(p) PROVE Sound \subseteq Sound'
  BY <1>5, SoundStoring DEF InsertAdSetFails
<1>6. ASSUME NEW p \in Tasks, SeedVariants(p) PROVE Sound \subseteq Sound'
  <2>1. /\ pc[p] = "seedvariants" /\ loose' = loose \ SeedIds
        /\ variants' = [i \in AdSetIds |-> IF i \in SeedIds THEN "all" ELSE variants[i]]
    BY <1>6 DEF SeedVariants, Goto
  <2>2. \A i \in SeedIds : i \in AdSetIds /\ \E s \in sets' : s.id = i
    BY <1>1, <2>1, SeedFacts DEF SeedsPut, SeedIds
  <2>3. SeedIds \subseteq Whole'
    BY <2>1, <2>2 DEF Whole
  <2>4. Whole \subseteq Whole'
    BY <1>1, <2>1 DEF Whole
  <2> QED BY <2>1, <2>3, <2>4 DEF Sound
<1>7. ASSUME NEW p \in Tasks,
             \/ \E s \in Posts : BeginCreate(p, s)
             \/ Link(p) \/ LinkFails(p) \/ ListForRefresh(p) \/ WriteSnapshot(p)
             \/ RefreshFails(p) \/ Crash(p)
             \/ SeedCampaigns(p) \/ SeedAdSets(p) \/ ServeStep(p)
             \/ \E c \in Campaigns :
                  \/ DeleteCampaign(p, c)
                  \/ \E ids \in SUBSET AdSetIds :
                       CreateCampaign(p, c, ids) \/ \E on \in BOOLEAN : Patch(p, c, ids, on)
      PROVE  Sound \subseteq Sound'
  <2>1. UNCHANGED variants /\ loose \subseteq loose'
    BY <1>7 DEF BeginCreate, Link, LinkFails, ListForRefresh, WriteSnapshot, RefreshFails,
                Crash, SeedCampaigns, SeedAdSets, ServeStep, Fetch, FindAdSets, Skip, Serve,
                NoAd, DeleteCampaign, CreateCampaign, Patch
  <2> QED BY <1>2, <2>1
<1>8. CASE UNCHANGED vars
  BY <1>2, <1>8 DEF vars
<1>9. ASSUME NEW p \in Tasks, EditStep(p) PROVE Sound \subseteq Sound'
  BY <1>6, <1>7, <1>9, EditCases
<1>10. ASSUME NEW p \in Tasks, CreateStep(p) PROVE Sound \subseteq Sound'
  BY <1>3, <1>4, <1>5, <1>7, <1>10 DEF CreateStep
<1> QED BY <1>7, <1>8, <1>9, <1>10 DEF Next

\* What a step may do to links, wherever they are.
Travels ==
    /\ \A c \in Campaigns : links'[c] \subseteq links[c] \cup Sound'
    /\ \A r \in snapshot' : r \in snapshot \/ \E p \in Tasks : r \in rows[p]
    /\ \A p \in Tasks : \A r \in rows'[p] :
         \/ r \in rows[p] \/ r \in snapshot
         \/ \E c \in Campaigns : r.links = links[c]

\* A list of links taken as it is.
LEMMA NamedSound ==
    ASSUME NEW ids \in SUBSET AdSetIds, UNCHANGED <<sets, variants>>,
           Unstored(ids) \subseteq loose'
    PROVE  ids \subseteq Sound'
BY DEF Unstored, Sound, Whole

LEMMA LinksTravel == Types /\ Owned /\ [Next]_vars => Travels
<1> SUFFICES ASSUME Types, Owned, [Next]_vars PROVE Travels
  OBVIOUS
<1> USE DEF store, campaigns
<1>1. CASE UNCHANGED <<links, snapshot, rows>>
  BY <1>1 DEF Travels
<1>2. ASSUME NEW p \in Tasks, Stop(p), UNCHANGED links PROVE Travels
  <2>1. snapshot' = snapshot /\ \A q \in Tasks : rows'[q] = {} \/ rows'[q] = rows[q]
    BY <1>2, StopFacts
  <2> QED BY <1>2, <2>1 DEF Travels
<1>3. ASSUME NEW p \in Tasks, NEW s \in mine[p], pc[p] = "link", links' \in {links, Linked(s)},
             UNCHANGED <<sets, variants, snapshot>>,
             \A q \in Tasks : rows'[q] = {} \/ rows'[q] = rows[q]
      PROVE  Travels
  <2>1. s \in sets /\ s \in AdSet /\ s.id \in AdSetIds /\ variants[s.id] = "all"
    BY <1>3, MineFacts DEF Owned
  <2>2. s.id \in Sound'
    BY <1>3, <2>1 DEF Sound, Whole
  <2>3. \A c \in Campaigns : Linked(s)[c] \subseteq links[c] \cup {s.id}
    BY <2>1, LinkedFacts
  <2>4. \A c \in Campaigns : links'[c] \subseteq links[c] \cup Sound'
    <3>1. CASE links' = links
      BY <3>1
    <3>2. CASE links' = Linked(s)
      BY <2>2, <2>3, <3>2
    <3> QED BY <1>3, <3>1, <3>2
  <2> QED BY <1>3, <2>4 DEF Travels
<1>4. ASSUME NEW p \in Tasks, Link(p) PROVE Travels
  <2>1. PICK s \in mine[p] : pc[p] = "link" /\ links' = Linked(s)
    BY <1>4 DEF Link, Goto
  <2> QED BY <1>3, <1>4, <2>1 DEF Link
<1>5. ASSUME NEW p \in Tasks, LinkFails(p) PROVE Travels
  <2>1. PICK s \in mine[p] : /\ pc[p] = "link" /\ links' \in {links, Linked(s)} /\ Stop(p)
                             /\ UNCHANGED <<sets, variants>>
    BY <1>5 DEF LinkFails
  <2>2. snapshot' = snapshot /\ \A q \in Tasks : rows'[q] = {} \/ rows'[q] = rows[q]
    BY <2>1, StopFacts
  <2> QED BY <1>3, <2>1, <2>2
<1>6. ASSUME NEW p \in Tasks, ListForRefresh(p) PROVE Travels
  <2>1. /\ rows'[p] = {[campaign |-> c, links |-> links[c]] : c \in active}
        /\ \A q \in Tasks \ {p} : rows'[q] = rows[q]
        /\ UNCHANGED <<links, snapshot>>
    BY <1>6 DEF ListForRefresh, Types
  <2>2. active \subseteq Campaigns
    BY DEF Types
  <2> QED BY <2>1, <2>2 DEF Travels
<1>7. ASSUME NEW p \in Tasks, WriteSnapshot(p) PROVE Travels
  <2>1. /\ snapshot' = rows[p] /\ UNCHANGED links
        /\ \A q \in Tasks : rows'[q] = {} \/ rows'[q] = rows[q]
    BY <1>7 DEF WriteSnapshot, Types
  <2> QED BY <2>1 DEF Travels
<1>8. ASSUME NEW p \in Tasks, NEW c \in Campaigns, NEW ids \in SUBSET AdSetIds,
             CreateCampaign(p, c, ids) \/ \E on \in BOOLEAN : Patch(p, c, ids, on)
      PROVE  Travels
  <2>1. /\ UNCHANGED <<sets, variants, snapshot, rows>>
        /\ Unstored(ids) \subseteq loose'
    BY <1>8 DEF CreateCampaign, Patch
  <2>2. ids \subseteq Sound'
    BY <2>1, NamedSound
  <2>3. \A d \in Campaigns : links'[d] = IF d = c THEN ids ELSE links[d]
    BY <1>8 DEF CreateCampaign, Patch, Types
  <2> QED BY <2>1, <2>2, <2>3 DEF Travels
<1>9. ASSUME NEW p \in Tasks, NEW c \in Campaigns, DeleteCampaign(p, c) PROVE Travels
  <2>1. \A d \in Campaigns : links'[d] \subseteq links[d]
    BY <1>9 DEF DeleteCampaign, Types
  <2> QED BY <1>9, <2>1 DEF DeleteCampaign, Travels
<1>10. ASSUME NEW p \in Tasks, SeedCampaigns(p) PROVE Travels
  <2>1. \A d \in Campaigns : links'[d] = links[d] \/ links'[d] = SeedLinks(d)
    BY <1>10 DEF SeedCampaigns
  <2>2. /\ UNCHANGED <<sets, variants, snapshot, rows>>
        /\ Unstored(SeedIds) \subseteq loose'
    BY <1>10 DEF SeedCampaigns
  <2>3. SeedIds \subseteq Sound'
    BY <2>2, SeedFacts, NamedSound
  <2> QED BY <2>1, <2>2, <2>3, SeedFacts DEF Travels
<1>11. ASSUME NEW p \in Tasks, ServeStep(p) PROVE Travels
  <2>1. /\ UNCHANGED <<links, snapshot>>
        /\ \A q \in Tasks : rows'[q] \subseteq rows[q] \cup snapshot
    BY <1>11 DEF ServeStep, Fetch, FindAdSets, Skip, Serve, NoAd, Types
  <2> QED BY <2>1 DEF Travels
<1>12. ASSUME NEW p \in Tasks,
              \/ InsertVariants(p) \/ InsertAdSet(p)
              \/ SeedAdSets(p) \/ SeedVariants(p) \/ \E s \in Posts : BeginCreate(p, s)
       PROVE  Travels
  BY <1>1, <1>12 DEF InsertVariants, InsertAdSet, SeedAdSets, SeedVariants, BeginCreate
<1>13. ASSUME NEW p \in Tasks,
              InsertVariantsFails(p) \/ InsertAdSetFails(p) \/ RefreshFails(p) \/ Crash(p)
       PROVE  Travels
  BY <1>2, <1>13 DEF InsertVariantsFails, InsertAdSetFails, RefreshFails, Crash
<1>14. CASE UNCHANGED vars
  BY <1>1, <1>14 DEF vars
<1>15. ASSUME NEW p \in Tasks, CreateStep(p) PROVE Travels
  BY <1>4, <1>5, <1>12, <1>13, <1>15 DEF CreateStep
<1>16. ASSUME NEW p \in Tasks, EditStep(p) PROVE Travels
  BY <1>8, <1>9, <1>10, <1>12, <1>16, EditCases
<1> QED
  BY <1>6, <1>7, <1>11, <1>13, <1>14, <1>15, <1>16 DEF Next

LEMMA LinksSoundNext == LinksSound /\ Travels /\ Sound \subseteq Sound' => LinksSound'
<1> SUFFICES ASSUME LinksSound, Travels, Sound \subseteq Sound' PROVE LinksSound'
  OBVIOUS
<1>1. \A r \in snapshot : r.links \subseteq Sound'
  BY DEF LinksSound
<1>2. \A p \in Tasks : \A r \in rows[p] : r.links \subseteq Sound'
  BY DEF LinksSound
<1>3. \A c \in Campaigns : links[c] \subseteq Sound' /\ links'[c] \subseteq Sound'
  BY DEF LinksSound, Travels
<1>4. \A r \in snapshot' : r.links \subseteq Sound'
  BY <1>1, <1>2 DEF Travels
<1>5. \A p \in Tasks : \A r \in rows'[p] : r.links \subseteq Sound'
  BY <1>1, <1>2, <1>3 DEF Travels
<1> QED BY <1>3, <1>4, <1>5 DEF LinksSound

\* Through every list, refresh and snapshot, whatever clients name and wherever
\* POSTs and boots break off: a link that leads nowhere was named by a client,
\* or by a boot that did not get through, and nothing has been stored since.
THEOREM LinksAlwaysResolve == Spec => []LinksResolve
<1>1. Types /\ Owned /\ LinksSound /\ SeedsPut /\ [Next]_vars => (LinksSound /\ SeedsPut)'
  BY LinksTravel, SoundGrows, LinksSoundNext, SeedsPutNext
<1>2. LinksSound => LinksResolve
  <2> SUFFICES ASSUME LinksSound,
                      NEW ids \in {links[c] : c \in Campaigns} \cup {r.links : r \in snapshot},
                      NEW i \in Unstored(ids)
               PROVE  i \in loose
    BY DEF LinksResolve
  <2>1. i \in Sound
    BY DEF LinksSound, Unstored
  <2>2. i \notin Whole
    BY DEF Unstored, Whole
  <2> QED BY <2>1, <2>2 DEF Sound
<1> QED
  BY <1>1, <1>2, LinksInit, StoredAlways, PTL DEF Spec

----------------------------------------------------------------------------
(* What was answered *)

LEMMA KeptNext == Types /\ LinksKept /\ [Next]_vars => LinksKept'
<1> SUFFICES ASSUME Types, LinksKept, [Next]_vars PROVE LinksKept'
  OBVIOUS
<1> USE DEF store, campaigns
<1>1. CASE UNCHANGED <<links, answered>>
  BY <1>1 DEF LinksKept
<1>2. \A s \in answered : s.campaign \in Campaigns /\ s.id \in links[s.campaign]
  BY DEF Types, AdSet, LinksKept
<1>3. ASSUME NEW p \in Tasks, Link(p) PROVE LinksKept'
  <2>1. PICK s \in mine[p] :
          /\ links' = Linked(s)
          /\ answered' = IF s.campaign \in alive THEN answered \cup {s} ELSE answered
    BY <1>3 DEF Link
  <2>2. s \in AdSet /\ s.campaign \in Campaigns
    BY MineFacts
  <2>3. \A c \in Campaigns : links[c] \subseteq links'[c]
    BY <2>1, <2>2, LinkedFacts
  <2>4. s.campaign \in alive => s.id \in links'[s.campaign]
    BY <2>1, <2>2, LinkedFacts
  <2> QED BY <1>2, <2>1, <2>3, <2>4 DEF LinksKept
<1>4. ASSUME NEW p \in Tasks, LinkFails(p) PROVE LinksKept'
  <2>1. PICK s \in mine[p] : links' \in {links, Linked(s)} /\ Stop(p)
    BY <1>4 DEF LinkFails
  <2>2. \A c \in Campaigns : links[c] \subseteq links'[c]
    <3>1. s \in AdSet
      BY MineFacts
    <3>2. \A c \in Campaigns : links[c] \subseteq Linked(s)[c]
      BY <3>1, LinkedFacts
    <3> QED BY <2>1, <3>2
  <2>3. answered' = answered
    BY <2>1 DEF Stop
  <2> QED BY <1>2, <2>2, <2>3 DEF LinksKept
<1>5. ASSUME NEW p \in Tasks, NEW c \in Campaigns, NEW ids \in SUBSET AdSetIds,
             NEW on \in BOOLEAN, Patch(p, c, ids, on)
      PROVE  LinksKept'
  <2>1. /\ answered' = {s \in answered : s.campaign # c \/ s.id \in ids}
        /\ \A d \in Campaigns : links'[d] = IF d = c THEN ids ELSE links[d]
    BY <1>5 DEF Patch, Types
  <2> QED BY <1>2, <2>1 DEF LinksKept
<1>6. ASSUME NEW p \in Tasks, SeedCampaigns(p) PROVE LinksKept'
  <2>1. \A s \in answered' : s \in answered /\ links'[s.campaign] = links[s.campaign]
    BY <1>2, <1>6 DEF SeedCampaigns
  <2> QED BY <1>2, <2>1 DEF LinksKept
<1>7. ASSUME NEW p \in Tasks,
             \/ InsertVariants(p) \/ InsertAdSet(p) \/ SeedAdSets(p) \/ SeedVariants(p)
             \/ \E s \in AdSet : BeginCreate(p, s)
             \/ ListForRefresh(p) \/ WriteSnapshot(p) \/ ServeStep(p)
      PROVE  UNCHANGED <<links, answered>>
  BY <1>7 DEF InsertVariants, InsertAdSet, SeedAdSets, SeedVariants, BeginCreate,
              ListForRefresh, WriteSnapshot, ServeStep, Fetch, FindAdSets, Skip, Serve, NoAd
<1>8. ASSUME NEW p \in Tasks,
             InsertVariantsFails(p) \/ InsertAdSetFails(p) \/ RefreshFails(p) \/ Crash(p)
      PROVE  UNCHANGED <<links, answered>>
  BY <1>8 DEF Stop, InsertVariantsFails, InsertAdSetFails, RefreshFails, Crash
<1>9. CASE UNCHANGED vars
  BY <1>1, <1>9 DEF vars
<1>10. ASSUME NEW p \in Tasks, NEW c \in Campaigns, DeleteCampaign(p, c) PROVE LinksKept'
  <2>1. /\ answered' = {s \in answered : s.campaign # c}
        /\ \A d \in Campaigns \ {c} : links'[d] = links[d]
    BY <1>10 DEF DeleteCampaign, Types
  <2> QED BY <1>2, <2>1 DEF LinksKept
<1>11. ASSUME NEW p \in Tasks, NEW c \in Campaigns, NEW ids \in SUBSET AdSetIds,
              CreateCampaign(p, c, ids)
       PROVE  LinksKept'
  <2>1. links[c] = {}
    BY <1>11 DEF CreateCampaign, Types
  <2>2. answered' = answered /\ \A d \in Campaigns \ {c} : links'[d] = links[d]
    BY <1>11 DEF CreateCampaign, Types
  <2> QED BY <1>2, <2>1, <2>2 DEF LinksKept
<1>12. ASSUME NEW p \in Tasks, CreateStep(p) PROVE LinksKept'
  BY <1>1, <1>3, <1>4, <1>7, <1>8, <1>12, ClientAssumption DEF CreateStep
<1>13. ASSUME NEW p \in Tasks, EditStep(p) PROVE LinksKept'
  BY <1>1, <1>5, <1>6, <1>7, <1>10, <1>11, <1>13, EditCases
<1> QED
  BY <1>1, <1>7, <1>8, <1>9, <1>12, <1>13 DEF Next

\* Concurrent POSTs to one campaign keep each other's link: an ad set answered
\* as linked stays so until a list without it, a DELETE or a boot replaces the list.
THEOREM LinksNeverLost == Spec => []LinksKept
<1>1. Init => LinksKept
  BY DEF Init, LinksKept
<1> QED
  BY <1>1, KeptNext, StoredAlways, PTL DEF Spec
=============================================================================
