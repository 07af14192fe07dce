-------------------------- MODULE MCCampaignCache --------------------------
(* Values for TLC: one seeded campaign (active, as in campaigns.json) and   *)
(* ids for campaigns created through the API.                               *)
EXTENDS CampaignCacheRefinement, TLC

CONSTANTS c1, good

MCSeedDocs == {[id |-> c1, active |-> TRUE, body |-> good]}

\* Coroutines of the API are interchangeable.
MCSymmetry == Permutations(ApiTasks)
=============================================================================
