---------------------- MODULE CampaignCacheRefinement ----------------------
(* CampaignCache implements CampaignDirectory: seeding, CRUD, refreshes,    *)
(* read-through fills, crashes and failures of every kind all look, to the  *)
(* readers of the key, like copies of the truth taken and stored whole.     *)
EXTENDS CampaignCache

Directory == INSTANCE CampaignDirectory WITH
    Views <- SUBSET Doc,
    Clients <- Task,
    view <- Active(db),
    cell <- IF cache.kind = "snapshot" THEN {cache.docs} ELSE {},
    held <- [p \in Task |-> IF InWindow(p) THEN {rows[p]} ELSE {}],
    answer <- [p \in Task |->
                 IF pc[p] \in {"relist", "fill", "serving"} THEN {got[p]} ELSE {}]

\* Every reader of the key is given the active set of one single moment: one
\* that was true when the task that stored it listed the collection.
ImplementsDirectory == Directory!Spec
=============================================================================
