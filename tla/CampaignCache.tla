--------------------------- MODULE CampaignCache ---------------------------
(***************************************************************************)
(* The campaign directory of the ad server: the campaigns collection in    *)
(* Mongo (truth), the one-key snapshot of the active campaigns in Redis    *)
(* (derived), and everybody who touches both: the CRUD handlers, the boot  *)
(* sequence of an API instance (seed, then warm the cache), the            *)
(* read-through serve path, and the Temporal refresh activity.             *)
(*                                                                         *)
(* A step of a task is the code between two awaits: tasks of one event     *)
(* loop, of other API instances and of the worker interleave exactly       *)
(* there.  A document is its id, whether it matches the query of           *)
(* list_active_from_db ("active"), and one value for all other fields      *)
(* ("body").  A body in Unloadable is one Mongo holds but Campaign(...)    *)
(* rejects: a PATCH may set a required field to null.                      *)
(***************************************************************************)
EXTENDS Naturals, FiniteSets

CONSTANTS
    Campaigns,      \* campaign ids, those of the seed file included
    Bodies,         \* contents of a document besides its id and its status
    Unloadable,     \* the bodies the Campaign model refuses to load
    SeedDocs,       \* the documents of campaigns.json
    ApiTasks,       \* coroutines of the API instances: requests and boots
    Workers,        \* Temporal refresh activities that can run at a time
    Faults          \* which failures of the environment may occur

Doc == [id : Campaigns, active : BOOLEAN, body : Bodies]
Task == ApiTasks \cup Workers

ASSUME BodiesAssumption == Unloadable \subseteq Bodies
ASSUME SeedAssumption ==
    /\ SeedDocs \subseteq Doc
    /\ \A d, e \in SeedDocs : d.id = e.id => d = e
    /\ \A d \in SeedDocs : d.body \notin Unloadable
ASSUME TaskAssumption == ApiTasks \cap Workers = {}
ASSUME FaultAssumption ==
    Faults \subseteq {"redis", "mongo", "crash", "edit", "schema"}

VARIABLES
    db,         \* the campaigns collection
    born,       \* ids ever used: new_id never repeats one
    cache,      \* the Redis key: missing, a snapshot, or unreadable
    pc,         \* where each task is suspended
    rows,       \* what a task has listed and not yet written (or seeded)
    got,        \* the campaigns a serve request will answer with
    overtaken,  \* observer: the collection changed after the task listed it
    drift       \* observer: why the snapshot may be out of date

vars == <<db, born, cache, pc, rows, got, overtaken, drift>>

Where == {"idle", "seed", "refresh", "write",
          "miss", "dropping", "relist", "fill", "serving", "failed"}
Causes == {"race", "fault", "edit"}

Active(docs) == {d \in docs : d.active}
Loads(docs) == \A d \in docs : d.body \notin Unloadable

Missing == [kind |-> "miss", docs |-> {}]
Snapshot(docs) == [kind |-> "snapshot", docs |-> docs]
Corrupt == [kind |-> "corrupt", docs |-> {}]

Init ==
    /\ db = {}
    /\ born = {d.id : d \in SeedDocs}
    /\ cache = Missing
    /\ pc = [p \in Task |-> "idle"]
    /\ rows = [p \in Task |-> {}]
    /\ got = [p \in Task |-> {}]
    /\ overtaken = [p \in Task |-> FALSE]
    /\ drift = {}

----------------------------------------------------------------------------
(* Shared pieces *)

\* p has listed the collection and has not written the key yet.
InWindow(p) == pc[p] \in {"write", "fill"}

\* One write of the collection.  Tasks inside their list-to-write window now
\* hold rows of the past.
Store(docs) ==
    /\ db' = docs
    /\ overtaken' = [q \in Task |->
         overtaken[q] \/ (InWindow(q) /\ Active(docs) # Active(db))]

\* A CRUD handler: the Mongo call, then refresh_cache.  If the call raises
\* although the server applied it, the handler ends without the refresh.
Commit(p, docs) ==
    /\ Store(docs)
    /\ \/ pc' = [pc EXCEPT ![p] = "refresh"] /\ drift' = drift
       \/ "mongo" \in Faults /\ pc' = pc /\ drift' = drift \cup {"fault"}
    /\ UNCHANGED <<cache, rows, got>>

\* list_active_from_db, as the source of the next snapshot.
List(p, next) ==
    /\ Loads(Active(db))
    /\ rows' = [rows EXCEPT ![p] = Active(db)]
    /\ overtaken' = [overtaken EXCEPT ![p] = FALSE]
    /\ pc' = [pc EXCEPT ![p] = next]
    /\ UNCHANGED <<db, born, cache, got, drift>>

\* CampaignCache.write: one SET of the whole snapshot.
Publish(p, next) ==
    /\ cache' = Snapshot(rows[p])
    /\ drift' = IF overtaken[p] THEN drift \cup {"race"} ELSE {}
    /\ rows' = [rows EXCEPT ![p] = {}]
    /\ overtaken' = [overtaken EXCEPT ![p] = FALSE]
    /\ pc' = [pc EXCEPT ![p] = next]
    /\ UNCHANGED <<db, born, got>>

\* The key is gone or unreadable: whatever was out of date is no longer served.
Lose(cell) == cache' = cell /\ drift' = {}

Goto(p, from, to) == pc[p] = from /\ pc' = [pc EXCEPT ![p] = to]

----------------------------------------------------------------------------
(* CampaignRepository: the CRUD handlers *)

Create(p, c, b) ==
    /\ pc[p] = "idle"
    /\ c \notin born /\ b \notin Unloadable
    /\ born' = born \cup {c}
    /\ Commit(p, db \cup {[id |-> c, active |-> FALSE, body |-> b]})

\* Mutant: a deactivating PATCH is left to the hourly job.
UpdateSkipsRefresh(p, c, a, b) ==
    /\ pc[p] = "idle"
    /\ Store({IF d.id = c THEN [d EXCEPT !.active = a, !.body = b] ELSE d
                : d \in db})
    /\ pc' = IF a THEN [pc EXCEPT ![p] = "refresh"] ELSE pc
    /\ UNCHANGED <<born, cache, rows, got, drift>>

\* An unknown id changes nothing, and the snapshot is rebuilt all the same.
Update(p, c, a, b) ==
    /\ pc[p] = "idle"
    /\ Commit(p, {IF d.id = c THEN [d EXCEPT !.active = a, !.body = b] ELSE d
                    : d \in db})
    /\ UNCHANGED born

\* Mutant: a DELETE without the refresh.
DeleteNoRefresh(p, c) ==
    /\ pc[p] = "idle"
    /\ Store({d \in db : d.id # c})
    /\ UNCHANGED <<born, cache, pc, rows, got, drift>>

Delete(p, c) ==
    /\ pc[p] = "idle"
    /\ Commit(p, {d \in db : d.id # c})
    /\ UNCHANGED born

----------------------------------------------------------------------------
(* refresh_cache, by a CRUD handler, a boot or the Temporal activity *)

StartRefresh(w) ==
    /\ Goto(w, "idle", "refresh")
    /\ UNCHANGED <<db, born, cache, rows, got, overtaken, drift>>

ListForRefresh(p) == pc[p] = "refresh" /\ List(p, "write")

\* Mutant: SET with NX, so a stored snapshot survives until its TTL.
WriteSnapshotNx(p) ==
    /\ Goto(p, "write", "idle")
    /\ cache' = IF cache.kind = "miss" THEN Snapshot(rows[p]) ELSE cache
    /\ rows' = [rows EXCEPT ![p] = {}]
    /\ overtaken' = [overtaken EXCEPT ![p] = FALSE]
    /\ UNCHANGED <<db, born, got, drift>>

WriteSnapshot(p) == pc[p] = "write" /\ Publish(p, "idle")

\* The task stops where it is: an exception, or the death of its process.  An
\* API task that changed the collection takes the refresh it owed with it.
Abandon(p) ==
    /\ drift' = IF p \in ApiTasks /\ pc[p] \in {"seed", "refresh", "write"}
                THEN drift \cup {"fault"} ELSE drift
    /\ pc' = [pc EXCEPT ![p] = "idle"]
    /\ rows' = [rows EXCEPT ![p] = {}]
    /\ got' = [got EXCEPT ![p] = {}]
    /\ overtaken' = [overtaken EXCEPT ![p] = FALSE]
    /\ UNCHANGED <<db, born, cache>>

ListFails(p) ==
    /\ pc[p] = "refresh"
    /\ ~Loads(Active(db)) \/ "mongo" \in Faults
    /\ Abandon(p)

WriteFails(p) == pc[p] = "write" /\ "redis" \in Faults /\ Abandon(p)

----------------------------------------------------------------------------
(* An API instance boots: seed, then warm the cache *)

Boot(p) ==
    /\ Goto(p, "idle", "seed")
    /\ rows' = [rows EXCEPT ![p] = SeedDocs]
    /\ UNCHANGED <<db, born, cache, got, overtaken, drift>>

\* Mutant: seeding inserts instead of upserting on the natural key.
SeedOneInserts(p) == \E d \in rows[p] :
    /\ pc[p] = "seed"
    /\ Store(db \cup {d})
    /\ rows' = [rows EXCEPT ![p] = @ \ {d}]
    /\ UNCHANGED <<born, cache, pc, got, drift>>

\* One UpdateOne of the unordered bulk write: $set of every field, upsert.
SeedOne(p) == \E d \in rows[p] :
    /\ pc[p] = "seed"
    /\ Store({e \in db : e.id # d.id} \cup {d})
    /\ rows' = [rows EXCEPT ![p] = @ \ {d}]
    /\ UNCHANGED <<born, cache, pc, got, drift>>

SeedDone(p) ==
    /\ rows[p] = {}
    /\ Goto(p, "seed", "refresh")
    /\ UNCHANGED <<db, born, cache, rows, got, overtaken, drift>>

SeedFails(p) == pc[p] = "seed" /\ "mongo" \in Faults /\ Abandon(p)

----------------------------------------------------------------------------
(* active_for_serving: the read-through path of a serve request *)

ReadHit(p) ==
    /\ cache.kind = "snapshot"
    /\ Goto(p, "idle", "serving")
    /\ got' = [got EXCEPT ![p] = cache.docs]
    /\ UNCHANGED <<db, born, cache, rows, overtaken, drift>>

ReadMiss(p) ==
    /\ cache.kind = "miss"
    /\ Goto(p, "idle", "miss")
    /\ UNCHANGED <<db, born, cache, rows, got, overtaken, drift>>

\* Mutant: an unreadable snapshot raises.
ReadCorruptRaises(p) ==
    /\ cache.kind = "corrupt"
    /\ Goto(p, "idle", "failed")
    /\ UNCHANGED <<db, born, cache, rows, got, overtaken, drift>>

\* Mutant: an unreadable snapshot is taken for an empty one.
ReadCorruptAsEmpty(p) ==
    /\ cache.kind = "corrupt"
    /\ Goto(p, "idle", "serving")
    /\ UNCHANGED <<db, born, cache, rows, got, overtaken, drift>>

ReadCorrupt(p) ==
    /\ cache.kind = "corrupt"
    /\ Goto(p, "idle", "dropping")
    /\ UNCHANGED <<db, born, cache, rows, got, overtaken, drift>>

\* The DELETE comes after the GET it judged: it removes whatever is there now.
DropCorrupt(p) ==
    /\ Goto(p, "dropping", "miss")
    /\ Lose(Missing)
    /\ UNCHANGED <<db, born, rows, got, overtaken>>

\* Neither the GET nor the DELETE is guarded: the request is a 500.
ReadFails(p) ==
    /\ "redis" \in Faults
    /\ Goto(p, "idle", "failed") \/ Goto(p, "dropping", "failed")
    /\ UNCHANGED <<db, born, cache, rows, got, overtaken, drift>>

ListForServing(p) ==
    /\ Loads(Active(db))
    /\ Goto(p, "miss", "relist")
    /\ got' = [got EXCEPT ![p] = Active(db)]
    /\ UNCHANGED <<db, born, cache, rows, overtaken, drift>>

ServeListFails(p) ==
    /\ ~Loads(Active(db)) \/ "mongo" \in Faults
    /\ Goto(p, "miss", "failed")
    /\ UNCHANGED <<db, born, cache, rows, got, overtaken, drift>>

\* Mutant: the fill reuses the list read for the answer.
ListForFillReuses(p) ==
    /\ Goto(p, "relist", "fill")
    /\ rows' = [rows EXCEPT ![p] = got[p]]
    /\ overtaken' = [overtaken EXCEPT ![p] = FALSE]
    /\ UNCHANGED <<db, born, cache, got, drift>>

\* The snapshot is listed anew: it can differ from the answer.
ListForFill(p) == pc[p] = "relist" /\ List(p, "fill")

Fill(p) == pc[p] = "fill" /\ Publish(p, "serving")

\* Failures to repopulate are logged and swallowed.
FillFails(p) ==
    /\ \/ /\ ~Loads(Active(db)) \/ "mongo" \in Faults
          /\ Goto(p, "relist", "serving")
       \/ "redis" \in Faults /\ Goto(p, "fill", "serving")
    /\ rows' = [rows EXCEPT ![p] = {}]
    /\ overtaken' = [overtaken EXCEPT ![p] = FALSE]
    /\ UNCHANGED <<db, born, cache, got, drift>>

EndServe(p) ==
    /\ Goto(p, "serving", "idle") \/ Goto(p, "failed", "idle")
    /\ got' = [got EXCEPT ![p] = {}]
    /\ UNCHANGED <<db, born, cache, rows, overtaken, drift>>

----------------------------------------------------------------------------
(* The environment *)

\* The TTL runs out, or Redis is flushed or restarted.
Expire ==
    /\ cache.kind # "miss"
    /\ Lose(Missing)
    /\ UNCHANGED <<db, born, pc, rows, got, overtaken>>

\* A deploy changes the schema under a stored snapshot.
SchemaDrift ==
    /\ "schema" \in Faults /\ cache.kind = "snapshot"
    /\ Lose(Corrupt)
    /\ UNCHANGED <<db, born, pc, rows, got, overtaken>>

DirectEdit(c) ==
    /\ "edit" \in Faults
    /\ Store({IF d.id = c THEN [d EXCEPT !.active = ~@] ELSE d : d \in db})
    /\ drift' = drift \cup {"edit"}
    /\ UNCHANGED <<born, cache, pc, rows, got>>

Crash(p) == "crash" \in Faults /\ pc[p] # "idle" /\ Abandon(p)

----------------------------------------------------------------------------
Mutation(p) ==
    \E c \in Campaigns :
        \/ \E b \in Bodies : Create(p, c, b)
        \/ \E a \in BOOLEAN, b \in Bodies : Update(p, c, a, b)
        \/ Delete(p, c)

RefreshStep(p) ==
    ListForRefresh(p) \/ ListFails(p) \/ WriteSnapshot(p) \/ WriteFails(p)

SeedStep(p) == SeedOne(p) \/ SeedDone(p) \/ SeedFails(p)

ServeStart(p) == ReadHit(p) \/ ReadMiss(p) \/ ReadCorrupt(p)

ServeStep(p) ==
    \/ DropCorrupt(p) \/ ReadFails(p)
    \/ ListForServing(p) \/ ServeListFails(p)
    \/ ListForFill(p) \/ Fill(p) \/ FillFails(p)
    \/ EndServe(p)

Environment ==
    \/ Expire
    \/ SchemaDrift
    \/ \E c \in Campaigns : DirectEdit(c)
    \/ \E p \in Task : Crash(p)

Next ==
    \/ \E p \in ApiTasks :
         Mutation(p) \/ Boot(p) \/ SeedStep(p) \/ ServeStart(p) \/ ServeStep(p)
    \/ \E w \in Workers : StartRefresh(w)
    \/ \E p \in Task : RefreshStep(p)
    \/ Environment

Spec == Init /\ [][Next]_vars

\* A coroutine that has begun runs on (every await of it returns or raises),
\* the hourly schedule keeps firing, and Mongo and Redis do not fail the
\* repair job every single time.
Fairness ==
    /\ \A p \in ApiTasks :
         WF_vars(pc[p] # "idle" /\ (SeedStep(p) \/ RefreshStep(p) \/ ServeStep(p)))
    /\ \A w \in Workers :
         /\ WF_vars(StartRefresh(w))
         /\ SF_vars(ListForRefresh(w))
         /\ SF_vars(WriteSnapshot(w))

FairSpec == Spec /\ Fairness

----------------------------------------------------------------------------
(* Properties *)

\* The key holds no snapshot, or the snapshot is the active set of Mongo.
Fresh == cache.kind = "snapshot" => cache.docs = Active(db)

\* p still has a refresh to run whose listing will show its change.
Owes(p) ==
    \/ pc[p] \in {"seed", "refresh"}
    \/ pc[p] = "write" /\ ~overtaken[p]

\* Types, and the unique index on campaign_id: seeding and creation never put
\* two documents under one id.
TypeOK ==
    /\ db \subseteq Doc
    /\ \A d, e \in db : d.id = e.id => d = e
    /\ born \subseteq Campaigns /\ {d.id : d \in db} \subseteq born
    /\ cache \in [kind : {"miss", "snapshot", "corrupt"}, docs : SUBSET Doc]
    /\ pc \in [Task -> Where]
    /\ rows \in [Task -> SUBSET Doc]
    /\ got \in [Task -> SUBSET Doc]
    /\ overtaken \in [Task -> BOOLEAN]
    /\ drift \subseteq Causes

\* A stale snapshot always has one of four explanations: an API task still
\* owes the refresh that will repair it, a write of the key was overtaken by a
\* change, a task failed before its refresh, or the collection was edited by
\* hand.  The three causes of drift the module docs leave to the hourly job
\* are the only ones.
StaleExplained ==
    cache.kind = "snapshot" /\ cache.docs # Active(db) =>
        drift # {} \/ \E p \in ApiTasks : Owes(p)

\* "Toggling a campaign takes effect on the next request": when no task is
\* under way, the snapshot is the active set.
WriteThrough == (\A p \in Task : pc[p] = "idle") => Fresh

\* The same promise at the end of a serve request: it never fails for want of a
\* campaign list, and one that runs alone is answered from the active set.
NextRequestSeesTruth ==
    \A p \in ApiTasks :
        /\ pc[p] # "failed"
        /\ pc[p] = "serving" /\ (\A q \in Task \ {p} : pc[q] = "idle")
             => got[p] = Active(db)

\* Seeding at boot adds what is missing and leaves every document that is
\* there as it is.
SeedPreservesEdits == [][(\E p \in ApiTasks : SeedOne(p)) => db \subseteq db']_vars

\* A repair lasts: with a fresh snapshot, or none, and no task holding rows of
\* the past, only a change of the active set opens a drift.  No serve request,
\* failed call, crash or late job undoes what one refresh has put right.
Repaired == Fresh /\ \A p \in Task : ~overtaken[p]
RepairsLast == [][Repaired /\ Active(db') = Active(db) => Repaired']_vars

\* Once campaigns stop changing and all active ones can be loaded, the hourly
\* refresh ends all drift: from some moment on no reader of the key sees
\* anything but the active set, however many stale writers, crashes, failed
\* calls and null-carrying PATCHes came before.
Heals ==
    <>[][db' = db]_vars /\ <>[]Loads(Active(db)) => <>[]Fresh
=============================================================================
