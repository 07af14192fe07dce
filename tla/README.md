# Simula native ad server: TLA+ models and proofs

This directory holds TLA+ specifications of the ad server in `src/`, the TLC
configurations that check them on small instances, and TLAPS proofs about all
of them (of the template renderer, only about how placeholders are filled).
Paths below are relative to the repository; `tla/` is left out of module names.

To run things from this directory:

    tlc -workers 2 -config cache_sequential.cfg MCCampaignCache.tla
    tlapm CampaignCacheProofs.tla

`PROJECT.json` lists every run, the source lines behind every definition, the
mutant that shows each property can fail, the disagreements found between the
code and its own documentation, and the hazards the properties are aimed at.

## 1. The system

An API (FastAPI, any number of instances) and a Temporal worker share one Mongo
and one Redis. Nothing is locked and no transaction is used: what is atomic is
one Mongo call, one Redis command, or one MULTI pipeline, and everything between
two awaits interleaves with every other coroutine, instance and activity.

| Component | State | Operations | Talks to |
|---|---|---|---|
| Campaign repository (`services/campaign_cache.py`, `routers/campaigns.py`) | `campaigns` collection; one Redis key with a snapshot of the active ones, TTL 3 h | create, update, delete (each followed by a refresh), read-through list for serving | boot, worker, serve request |
| Boot (`main.py`, `db/seed.py`) | none of its own | upsert the seed files, warm the snapshot | repository |
| Hourly repair (`temporal_jobs/`) | none | rebuild the snapshot, up to 4 attempts | repository |
| Ad sets (`routers/adsets.py`, `models/adset.py`) | `ad_sets`, `ad_variants`, links in campaigns | create in three ordered writes; a campaign's own POST and PATCH set its links too | repository, serve request |
| Sessions (`services/sessions.py`) | user pointer (30 s), session hash (30 min) | resolve or create, get, touch | serve request |
| Serve request (`services/serving.py`, `routers/serve.py`) | `serves` collection; copy cache | serve, persist in the background, record a click | everything |
| Feature store (`services/features.py`) | CTR counters, exposure counts, user profile | record serve, record click, decay | serve request, worker |
| Counter decay (`temporal_jobs/`) | none | halve all counters every 6 h, up to 3 attempts | feature store |
| Ranking (`services/ranking.py`) | none | score, order, cap | serve request |
| Copy (`services/llm.py`) | none | one line of copy or the fallback | serve request |
| Renderer (`services/renderer.py`) | the template, read once | fill a template for one serve | serve request |
| Targeting, geo, user agent (`models/campaign.py`, `services/geo.py`, `services/useragent.py`, `deps.py`) | the GeoIP database | which address, country and system a request comes from, and whether a campaign wants it | serve request |
| Connections (`db/mongo.py`, `db/redis_client.py`) | one module-level client per store and process | connect, disconnect, around every activity of the worker | worker |

What makes it hard:

* **Interleaving.** A refresh is a list from Mongo and a later SET in Redis; a
  read-through fill is the same; a resolve is a GET and a later pipeline; a
  halving is an HMGET and a later HSET; a frequency cap is read before ranking
  and bumped after the response.
* **Partial failure.** Two stores, written one after the other or side by side,
  with no transaction; a call can raise although it was applied.
* **Time.** Redis expiry is used as a rule (the 30 s window), as a safety net
  (the 3 h TTL) and as forgetting (counters), and keys of one thing expire one
  by one.
* **Crash and restart.** Every boot re-seeds; background tasks die with their
  instance; Redis can come back empty.
* **Retries.** Browsers retry click pixels, Temporal retries activities, clients
  retry POSTs.

What makes each component correct:

* repository: a reader is given the active set of one moment; with nothing under
  way the snapshot is the truth; drift has a known cause and ends;
* boot: adds what is missing and clobbers nothing;
* sessions: one session per user and window, never one for two users; activity
  extends the window;
* ad sets: nothing visible is incomplete; creating one neither leaves a link that
  leads nowhere nor loses another's link;
* serve request: targeting fails closed, the cap holds, a servable candidate is
  not missed, the trace accounts for every candidate;
* impressions: no more is counted than ads shown and rows clicked, whichever side
  of the persistence is lost; one click counts once; the cap is passed by concurrency only;
* scoring: evidence goes where it is read, a score is positive unless capped, and
  follows the evidence;
* decay: invents nothing, halves everything, eventually forgets;
* connections: an attempt is hurt by another only if they share a store and
  overlap, and a client is left open only for a known cause;
* renderer: each value is escaped for the place it ends up in, and nothing of a
  discarded branch is left.

## 2. Modules

| Module | What it is | Source |
|---|---|---|
| `CampaignCache` | the core: repository, cache, boot, serve-path read, hourly job | `campaign_cache.py`, `seed.py`, `main.py`, `activities.py` |
| `CampaignDirectory` | abstract: one true set, one shared copy, clients that copy whole values | what `campaign_cache.py:6-14` promises |
| `CampaignCacheRefinement` | the refinement mapping between the two | |
| `CampaignCacheProofs` | types, staleness, that repairs last, what one request at a time is promised, and the refinement, proved | |
| `Sessions` | pointers, hashes, expiry, callers | `sessions.py`, `routers/sessions.py`, `routers/serve.py` |
| `SessionsProofs` | its types, the window, who shares what and server errors, proved | |
| `Impressions` | from the exposure count to the clicks | `serving.py`, `features.py`, `ranking.py` |
| `FrequencyCap` | abstract: tickets for what a user had seen too rarely, each spent once or lost | what `fatigue_cap_per_campaign` promises |
| `ImpressionsProofs` | its types, the evidence, the cap, and that it implements `FrequencyCap`, proved | |
| `AdSets` | creation, links, seeding order, choice of the ad set | `routers/adsets.py`, `serving.py`, `seed.py` |
| `AdSetsProofs` | its types, complete ad sets and links, proved | |
| `CounterDecay` | halving against increments, under retries | `features.py`, `workflows.py` |
| `CounterDecayProofs` | its types and what a run, and any step, may do to the evidence, proved | |
| `Scoring` | buckets of requests and clicks, the bandit's mean | `features.py`, `ranking.py`, `serving.py`, `routers/serve.py` |
| `ScoringProofs` | its types, the buckets, the estimate and the score, proved | |
| `RequestFacts` | operators: the address, country and system of a caller | `geo.py`, `useragent.py`, `deps.py` |
| `ServePath` | one request's decision and copy; extends `RequestFacts` | `serving.py`, `llm.py`, `models/campaign.py` |
| `ServePathProofs` | the decision's invariant and its properties, and the filling of a page, proved | |
| `WorkerConnections` | the clients of a worker whose activities overlap | `activities.py`, `workflows.py`, `mongo.py`, `redis_client.py` |
| `WorkerConnectionsProofs` | its invariants, proved | |
| `Placeholders` | operators: where the placeholders of a page are, and filling them | `renderer.py` |
| `Renderer` | sections of a template, and a serve's page; extends `Placeholders` | `renderer.py` |
| `MCCampaignCache`, `MCSessions`, `MCImpressions`, `MCAdSets`, `MCScoring`, `MCServePath`, `MCRenderer` | values and symmetry for TLC; `CounterDecay` and `WorkerConnections` take theirs from the `.cfg` alone | |

A definition whose comment begins with "Mutant:" is not part of a specification:
it is a plausible bug, placed before the definition it is a variant of and used
nowhere, which `PROJECT.json` names to show that a property would catch it.
Variables marked "observer" record history for the properties; no guard reads
one.

### CampaignCache

A task is a coroutine of the API (a CRUD request, a boot, a serve request) or a
worker activity; `pc` says between which two awaits it is suspended. A document
is its id, whether the query of `list_active_from_db` matches it, and one value
for everything else; a *body* in `Unloadable` is one that Mongo stores but
`Campaign(...)` rejects, which a PATCH with `null` for a required field
produces. The snapshot key is missing, a snapshot, or unreadable.

| Action | Code |
|---|---|
| `Create`, `Update`, `Delete` | the Mongo call of the handler; the task then owes `refresh_cache` |
| `ListForRefresh`, `WriteSnapshot`, `ListFails`, `WriteFails` | the two awaits of `refresh_cache` |
| `StartRefresh` | the hourly activity |
| `Boot`, `SeedOne`, `SeedDone`, `SeedFails` | `lifespan`: the unordered bulk write, then the warm-up |
| `ReadHit`, `ReadMiss`, `ReadCorrupt`, `DropCorrupt`, `ReadFails` | `CampaignCache.read` |
| `ListForServing`, `ServeListFails`, `ListForFill`, `Fill`, `FillFails` | the miss path of `active_for_serving`, which lists twice |
| `Expire`, `SchemaDrift`, `DirectEdit`, `Crash` | the environment |

`drift` and `overtaken` are observers: a task's rows are *overtaken* when the
active set changes after it listed them, and `drift` collects why the snapshot
may be out of date (an overtaken write, a failure before the refresh, a direct
edit). A write of rows that were not overtaken clears it.

### CampaignDirectory

There is a true set, a cell, and clients that copy the true set in one step and
may store that copy later. It permits staleness and forbids everything else: a
reader never sees a mixture of two moments, a filtered or edited copy, or
something made up. `CampaignCache` implements it, with "the rows a task carries
between its list and its write" as the client's copy.

### Sessions

`Idle` is the 30 s window and `Keep` the life of a hash, in ticks. `Tick` ages
every key; requests are short against a tick unless `"slow"` is among the
faults. A hash is full, or *partial* when only `HINCRBY` made it. `since` is the
time since the user's last activity, `excuse` why a pointer may be missing
inside the window. `torn` collects the sessions whose details went (expired, or
were flushed) while a serve that had loaded them was under way; such a serve's
`touch` is the only way to a partial hash, which `get` answers with a server
error: `ServerErrorsExplained`. `IdsLeft` bounds the number of sessions: a resolve begins
only while ids are left for it.

### Impressions

A serve request is an impression id and goes through `unused`, `ranked`,
`shown` or `ended`; its insert, its counters and its click have a job each.
`Slots` bounds how many requests can be between reading the exposure counts and
bumping them.

### FrequencyCap

What all of this amounts to for the exposure counts, with three variables
instead of eleven: a request takes tickets for every campaign its user had seen
less than `Cap` times at that moment, keeps at most one, and adds one exposure
for it or none. `Impressions` implements it (`ImplementsCap`). The mapping is
`MayExpose`: the tickets of a request are what it read below the cap until it has
chosen, then the campaign it serves until the bump was tried. Inserts, clicks and
their bumps are stutters; an expiry or a flush is `Forget`; a failed bump spends
the ticket or gives it up, and a crash gives it up.

### AdSets

A POST is five awaits: campaign, variants, ad set, link, refresh. Each can fail
with its effect applied or not. A retry is a new POST, so it has a new id.
`SeedCampaigns`, `SeedAdSets`, `SeedVariants` follow the order of `_FILES`, one
step per file; a boot that fails or dies stops between two of them. The
serve path reads the links of the snapshot and, without links, searches by the
campaign's id.

`POST /campaigns` (`CreateCampaign`) and `PATCH` (`Patch`) take a list of links
from the client that nothing looks up (`models/campaign.py:30` and `:60`): it may
name ad sets that do not exist, or those of a POST that is still under way. So a
link can lead nowhere, and the serve path passes it by. The observer `loose` has
the ids for which that is not the doing of `POST /adsets`: a client or a boot
linked them before anything was stored there, and no POST and no boot has stored
it since. `LinksResolve` says that there are no others. An id leaves `loose` when its
ad set is stored and when a boot gets through to the variants, so a boot that
finishes is held to mend what an earlier one left half done.

### CounterDecay

Counters are whole numbers of `Unit`-ths of an event, `Unit` a power of two, so
that the halvings of a run are exact. `SCAN` returns every key present when it
began at least once, may repeat keys (`Repeats` bounds how often), and may or
may not return keys born during the scan.

### Scoring

One campaign. A request's bucket is computed by `ReadBucket` (`serve()`),
`LogBucket` (`load_native`) and `ClickBucket` (`record_click`, from the stored
row). `Alpha` and `Beta` are the two sides of the posterior over the common
denominator `Scale`, `Grain` the inverse of the floor (`1e-6` in the code). The
strengths of the priors are parameters of the class in the code; with small ones
a few lost counts reach the floor that the defaults reach after some twenty.
`Pacing`, `Fatigue` and `Bid` are the other factors of a score, and `Weight` their
product, as whole numbers over denominators of their own: `Pacing` over
`PacingUnit`, with the code's floors for the day's fraction (`1e-3`) and for
nothing spent (`1e-6`), at whole hours and for whole amounts of money, its floor
of a tenth and its ceiling of two; `Bid` with its logarithm rounded down. Only
their sign is used by a property. `OnlyTheCapZeroes` says that for every
exposure count, budget and bid a weight is 0 exactly at the cap, whatever counts
were lost.

### RequestFacts

An address is a value; which addresses are public, and what the GeoIP database
has on them, are constants. `ClientIp` is the left-most public hop of the proxy
chain, `Country` prefers where the caller is over where the block is registered,
and `ParseDevice` maps the family the parser names. `ServePath` begins a request
with the headers as they were sent, so `TargetingFailsClosed` covers the whole
way from header to campaign.

### ServePath

The order of the walk is any order that puts capped campaigns last: a capped
campaign's multiplier, and so its score, is 0, while the other factors are
positive (`OnlyTheCapZeroes` of `Scoring`). Which campaigns are servable and
which are tired changes at any time. `CopyFailsAlone` speaks of every outcome of
the model call and of both copy-cache calls.

### WorkerConnections

An attempt of an activity opens at most one client per store, so a client is
named by its attempt. `client` is the module-level variable of each store,
`open` the clients that hold connections, `handle` what `connect` returned.

| Action | Code |
|---|---|
| `Start`, `MongoAnswers`, `RedisAnswers`, `PingFails` | `connect` of the two modules: assign, await the ping, return whatever the variable holds by then |
| `List`, `Write`, `WorkFails` | the body of the activity |
| `CloseRedis`, `Disconnect` | the `finally`: close whatever the variables hold by now |

Two attempts of one activity overlap only after a timeout (`"slow"`), since the
schedule skips a firing while its workflow runs; a refresh and a decay overlap
every six hours.

### Renderer

A template is a sequence of pieces: delimiters, section tags and placeholders;
any other text decides nothing. `Render` is the code's order: `ApplySections`
until nothing changes, then `Fill` (of `Placeholders`): the script spans and the
place of each placeholder in what is left, and the substitution. It is compared with two references that do not share its
method: `Places`, an HTML parser's walk over the finished page, and `Resolved`,
the pieces that are in no dropped section. `Acceptable` says what the author of
a template answers for (tags nest, no section inside one of its own name, no
delimiter in an attribute value).

A `<script>` tag is one piece. The code's span of a script begins with the tag,
its attributes included (`renderer.py:36`, `:172-174`), so a placeholder among
those would be escaped for a script although it ends up in an attribute; such a
template cannot be written in the model. The script tags of the repository's
template are bare, so nothing differs for it.

## 3. Runs

The bounds are those of the `.cfg` of the same name. Each is the smallest with
which every action can happen and the interleaving in question has room: two
tasks race, a third actor (the job, a crash, a flush) disturbs them.

| Run | Question | Bounds | Result |
|---|---|---|---|
| `cache_sequential` | does write-through keep its promise, one task at a time? | 3 campaigns, 2 bodies, schema drift | holds |
| `cache_concurrent` | is every stale snapshot explained, does the code implement the abstract directory, does a repair last, does drift end? | 1 campaign, a loadable and an unloadable body, 2 API tasks, 1 worker, every failure | holds (drift ends under fairness) |
| `cache_seed_clobbers` | "does not clobber edits" | 1 campaign, 1 task, no failures | violated |
| `sessions_window` | is the expiry of the pointer the idle rule, can two users share a session, what does a server error take? | 4 callers of one spelling, 2 sessions, 2 coroutines, all faults | holds |
| `impressions_faulty` | how soft is the cap, does the code implement `FrequencyCap`, can more be counted than ads shown and rows clicked? | 2 campaigns, 3 requests, cap 1, 2 uncounted at a time, all faults | holds |
| `adsets_writes` | is what is visible complete, whose are the links that lead nowhere, are links kept? | a seeded campaign and one that clients create; 1 seeded ad set, 2 that POSTs create for the seeded campaign (`Posts`); clients send one list, of the seeded ad set and of one not stored yet (`Lists`), or the list a campaign has; 2 coroutines, all faults and edits | holds |
| `adsets_unlinked_served` | "not linked, so it cannot be served" | 1 campaign created with no links, 1 coroutine, failing Mongo calls | violated |
| `decay_faulty` | does decay invent or miss evidence, can a quiet key get any back, does stale evidence go? | 2 keys, 1 event per counter, 3 attempts, 1 repeat, expiry, failing calls | holds (the last under fairness) |
| `scoring_evidence` | do the three computations of a bucket agree, does the estimate follow the evidence, can anything but the cap make a score 0? | 1 campaign, 3 ads, 2 positions in different bands, lost counts, expiry key by key; priors of strength 1 and 2; no budget, a small and a large one; cap 2 | holds |
| `serve_decision` | targeting, cap, blank slots, the trace, the copy | 2 campaigns with any targeting, 2 countries, callers at home, abroad, registered elsewhere and behind a LAN hop, 1 request at a time, all faults | holds |
| `worker_connections` | who can take whose client away, and what leaks? | 2 refreshes and a decay, both stores failing, timeouts | holds |
| `renderer_pages` | is each value escaped for its place, is exactly the kept branch left and filled? | every acceptable template of up to 5 pieces (`MaxPieces`), a known and an unknown flag, a known and an unknown placeholder | holds |

Two sessions are enough for `sessions_window`: a mint that should not have
happened is the second one. `cache_concurrent` has one campaign so that it can check
liveness with two API tasks; the theorems of section 5 cover any number. Three
requests are the fewest that can pass a cap of one by more than their concurrency of
two. Five pieces are the fewest that put a placeholder between the delimiters of
a script that is inside a section; the two refreshes of `worker_connections` are
an attempt and its retry. `AdSets` and `CounterDecay` need two of what can be confused: two created
ad sets, two keys of which a failed attempt has halved one. `Lists` names an ad set
that is stored, one that may be under way or never come, and a
campaign may link ad sets of another.
`Fades` needs a single halving for one event of two `Unit`-ths; a timed-out
attempt of a decay that runs on beside its retry is in `WorkerConnections` only.

`cache_sequential` has one task and no body that cannot be loaded: crossing
refreshes and a PATCH that no refresh survives are out of its reach, and are what
`cache_concurrent` is for. `ImplementsDirectory` lets the snapshot be forgotten at
any time, so the loss of a good one is not a failure of it. `EvidenceWithinLog`
does not relate counters to rows: an ad shown whose row was lost may be counted.
`BranchesResolved` is checked with one known flag and no section inside one of its
own name, for which one of the code's five passes suffices.

`impressions_faulty`, `scoring_evidence` and `worker_connections` have
`CHECK_DEADLOCK FALSE`: a bounded number of impressions, or of attempts, comes
to an end.

### Where the code and its documentation disagree

The violated runs are disagreements between the code and a sentence of its own
documentation, quoted in `PROJECT.json`:

1. Re-seeding at boot sets every field but `created_at` (`cache_seed_clobbers`).
2. An ad set is servable before, and without, its link
   (`adsets_unlinked_served`).

The models also contain the following, for which the properties are stated the
weaker way that holds:

* Two mutations can leave the older snapshot in place until the next one, the
  hourly job or the TTL: `StaleExplained` records it as a cause of drift, and
  `WriteThrough` is checked one task at a time.
* A PATCH that nulls a required field of an active campaign makes every list of
  active campaigns raise: no later mutation reaches the snapshot, and once that
  has expired every serve request fails. Such a body is in `Unloadable`:
  `cache_concurrent` has one, `Heals` assumes that no active campaign keeps one,
  and `WriteThrough` and `NextRequestSeesTruth` are checked without.
* `touch` can create a hash that `get` cannot read: a server error where the
  route documents a 404. `ServerErrorsExplained` says what it takes to get there.
* An activity's `finally` closes the clients of whoever overlaps it:
  `FailureExplained` and `LeaksExplained` say how far that reaches.
* The Redis read of the serve path is unguarded (`ReadFails`):
  `NextRequestSeesTruth`, which says that no serve request fails, is checked
  without that fault.
* Resolving a session is check-then-act, a serve cannot revive an expired
  pointer, and pointer and hash are re-armed one after the other: these are the
  reasons `race`, `lapse` and `detail` of `MintJustified`.
* The frequency cap is checked before ranking and counted after the response:
  `OvershootBounded` says by how much it is passed, the number of requests in
  between.
* A retried POST makes a second ad set and leaves the first unlinked.
* The links that a client sends with a campaign are not looked up, and a boot
  writes links before what they name: a link can lead nowhere. `LinksResolve` says
  that there are no other reasons, and `SlotNotBlanked` that serving passes such a
  campaign by.
* Halving loses increments that fall between its read and its write, and a
  retried attempt halves again what the failed one had halved: `NeverInflated`
  and `SuccessHalvesAll` bound evidence from above only.

## 4. Fairness

* `CampaignCache`: a coroutine that has begun runs on, since each await returns
  or raises (weak fairness of its own steps, and only while it is not idle: no
  request is assumed to arrive). The schedule keeps firing (weak fairness of
  `StartRefresh`), and Mongo and Redis do not fail the job every single time
  (strong fairness of its list and of its write). The latter stands for "a run
  that cannot succeed in a few minutes should fail and alert"
  (`workflows.py:29-31`): retries and the next hour's run are attempts at the
  same thing.
* `CounterDecay`: as the hourly job, key by key.
* `Sessions`, `Impressions`, `AdSets`, `Scoring`, `ServePath`,
  `WorkerConnections`, `Renderer`: safety only, no fairness.

`Heals` has two premises: campaigns stop changing, and all active ones can be
loaded. Without the second it is false: see the PATCH with `null` above.

## 5. Proofs

Every safety property of section 3 that a passing run checks is a theorem, but
for the renderer's two. The theorems hold for every value of the constants that
meets the module's named assumptions:
documents of the seed are loadable and have distinct ids, API tasks and workers
are different; seeded ad sets have distinct ids and seeded campaigns, and clients
send lists of ids; no country is called `Unknown`,
an absent address is not a public one and the GeoIP database knows public
addresses only; a window has a tick and a hash outlives its pointer; the cap and
the slots are at least 1; a prior is a rate below 1 of positive weight, positions
are natural numbers, and there is a request that can be made and a budget; there are finitely
many ads (of `Impressions`, `Scoring`), because they are counted; a refresh is
not a decay.

* **`TypeCorrect`** (`CampaignCacheProofs`): `Spec => []TypeOK`. `TypeOK` says
  more than types: no two documents share an id. That is not inductive alone,
  because a seeding task could put anything; `RowsOfSeed` adds that it carries
  seed documents, whose ids count as used from the start. The inductive
  invariant is `TInv == TypeOK /\ RowsOfSeed`, preserved action by action.
* **`StalenessExplained`** (`CampaignCacheProofs`): `Spec => [](WindowSound /\
  StaleExplained)`. `StaleExplained` is what a reader of the code wants to know
  and is not inductive: a write of the key repairs the snapshot only if its rows
  are the truth, which is `WindowSound` (stated beside the proof, and a theorem
  of its own). Together they are inductive relative to `TInv`. Each operation's lemma shows that what it changes it also owes
  (`OwedExplains`), lists (`ListSInv`), publishes (`PublishSInv`) or records as
  a failure (`AbandonSInv`).
* **`CacheImplementsDirectory`** (`CampaignCacheProofs`): `Spec =>
  ImplementsDirectory`. Every action maps to one step of `CampaignDirectory` or
  to a stutter; it needs `TypeOK` (the view is a set of documents) and
  `WindowSound`-free reasoning only: staleness does not matter to it.
* **`RepairsStay`** (`CampaignCacheProofs`): the step half of `Heals`. `Heals`
  says that the hourly job puts the snapshot right; that this cannot be undone
  without a change of the active set, by any late fill, failed call, crash or
  other job, is the action property `RepairsLast`. It follows from `WindowSound`:
  with no task overtaken, whatever rows any of them may still write are the truth
  (`StoreMarks`), and only a change of the active set overtakes one
  (`OnlyChangesMark`).
* **`SequentialWriteThrough`, `SequentialTruth`** (`CampaignCacheProofs`): what
  the code's comments promise of the cache is true of one request at a time.
  `Sequential` is a fact about the constants and not
  about a behaviour, the one `cache_sequential` has: there is one task, no call
  fails, and every body can be loaded; snapshots still expire and still become
  unreadable. `Undisturbed` says that then nothing drifts and no list is
  overtaken. `WriteThrough` follows from it and `StaleExplained`: with no drift
  and nothing owed, a snapshot is not stale.
* **`TargetingSound`, `CapRespected`, `NoSlotBlanked`, `TraceComplete`,
  `CopySound`** (`ServePathProofs`): each of `ServePath`'s safety properties,
  and `TypeCorrect` of that module. They speak of a request's end, so none is
  inductive; all follow from `DecisionInv`, which says at every step of a
  request what is still empty (`Staged`), that what is left or chosen fits
  (`Chooses`), that the list is partitioned into what was put aside, what is
  left and the choice (`Partitioned`), and that a campaign servable all along
  was put aside for its targets or its count or is still there (`Covered`). A
  step of one request leaves the others alone (`OthersUntouched`), and the
  environment can only take campaigns out of `steady` (`Untouched`). Types need
  `KeepsGenerated`: what is on its way to the copy cache came from the model.
* **`WindowIsTheRule`, `MintsJustified`** (`SessionsProofs`): the idle window, as
  an invariant and as an action property. `ExpiryIsTheRule` alone is not
  inductive: a coroutine about to mint although a pointer lives would reset the
  reasons, so `MintExcused` adds that it has one. Together they are `Window`,
  inductive relative to the types (`TypeCorrect`), which carry what a coroutine
  knows at each step (`Known`).
* **`SessionsStayApart`** (`SessionsProofs`): `Sharing` says that a session is
  held by nobody until it is born and afterwards by callers of one user key, and
  that every pointer to it, and every resolve that has read such a pointer, is of
  that key. Two callers with one key are the same user (`SameKeySameUser`).
* **`ErrorsExplained`** (`SessionsProofs`): `Tattered` adds to the property that
  a partial hash, and a serve whose session's hash is gone, were torn.
* **`FailuresExplained`, `ClientLeaksExplained`** (`WorkerConnectionsProofs`):
  from one invariant, `Inv`: attempts that run together have met, and what an
  attempt holds was opened by itself or by one it has met (`Acquainted`); an
  attempt that has met no rival for a store owns the store's variable and client
  from its connect to its disconnect (`SoloOwns`).

* **`NothingInvented`, `RunsHalveAll`** (`CounterDecayProofs`): that a counter
  never exceeds its events needs the same of what the activity carries between
  HMGET and HSET, which is part of `NeverInflated` already; it is inductive with
  the types. `SuccessHalvesAll` is an action property of the step that ends a
  run. Its invariant `HalvingUnderWay` follows the scan through a run's attempts:
  no counter, and no value in hand, exceeds what it was at the start plus what
  was counted since (`Allowance`), and a key that is neither still to be returned
  nor in hand has been brought to half of the start plus what was counted since
  (`Target`).
* **`QuietKeysFade`** (`CounterDecayProofs`): the step half of `Fades`. What a key
  shows and what the activity has read of it can differ, and a late HSET brings
  back what had expired or been halved by a repeat; so what only shrinks is the
  larger of the two (`Most`), in every step in which the key gets no event.
* **`EvidenceBounded`, `CapSoftByConcurrency`** (`ImpressionsProofs`): evidence
  and log are not related step by step, since the insert and the bump of an ad
  race. `Accounted` bounds each counter by the bumps that were *tried*, which are
  those of ads shown, and of rows clicked, since a job is queued once (`Lived`).
  For the cap, `Room` counts together the exposures counted and those that may
  still be (`Coming`): a request joins the latter only while it reads a count
  below the cap, and leaves it as it is counted, so the sum never passes
  `Cap - 1 + Slots`.
* **`ServingImplementsCap`** (`ImpressionsProofs`): `Spec => ImplementsCap`, one
  lemma per action, each a step of `FrequencyCap` or a stutter. It needs the
  types and `Lived`: a request that has not asked has no job, and one that has a
  bump to try has one campaign. That the requests holding tickets are among the
  uncounted is what carries the bound `Slots` over.
* **`CompleteWhenSeen`, `LinksAlwaysResolve`, `LinksNeverLost`**
  (`AdSetsProofs`): from what the coroutine of a POST has already written at each
  of its awaits (`Owned`) and what every stored ad set has (`Stored`). An id is
  *sound* when its ad set is stored with all variants or when it is `loose`
  (`Sound`). `LinksSound` says that all links are, wherever they go, through
  listings, refreshes, the snapshot and what a serve request read. A step moves
  links but makes none up: a list that is new is a client's or a boot's, whose
  unstored ids become loose, or the addition of an ad set a POST has stored
  (`Travels`). And no step makes a sound id unsound (`SoundGrows`): an id leaves
  `loose` only for what is stored, for which a boot at its variants must have put
  its ad sets (`SeedsPut`), and nothing stored is ever removed. Lists are any sets
  of ids; nothing is assumed of what they name.
* **`EvidenceStaysInItsBucket`** (`ScoringProofs`): inductive with the types once
  `BucketsAgree` is known, that the three computations give one bucket for
  every request, whatever it leaves out.
* **`EstimatesAreRates`, `EstimatesFollow`** (`ScoringProofs`): the posterior's
  two sides stay positive, and `EvidenceMovesEstimate`. An estimate is a fraction
  of two floored sides over the same `Scale`, which an impression changes. `Side`
  scales (`FlooredScales`) and is monotone in its events and in the global rate
  (`SidesCompare`), so the fractions before and after a step can be compared
  across their scales (`RatesCompare`). This holds for any counters, also those
  that losses have left with more clicks than impressions.

* **`OnlyCappedScoreZero`** (`ScoringProofs`): `Spec => []OnlyTheCapZeroes`. With
  the estimate a positive rate, what is left is that no other factor vanishes:
  pacing is at least a tenth, the bid positive, and the fatigue of an uncapped
  user a positive power (`PowerPositive`). The last is an induction over the
  exponent, made from the well-foundedness of a set (`WFMin`) rather than from
  the library's induction theorems, which take an operator.
* **`FilledInPlace`** (`ServePathProofs`, where the page is the last step of a
  serve request): in every well-formed body, of any length, what the code takes
  for the place of a placeholder, by looking backwards and forwards for
  delimiters, is where a parser that walks over the page from its beginning meets
  it (`ContextIsPlace`), and filling moves no place (`FillingMovesNothing`). By
  induction over positions: while the parser is in a tag its last delimiter is a
  `<`, and in a script there is an opening tag with no end since (`ParserSound`);
  such a script ends somewhere, or the body would not be well-formed
  (`ScriptCloses`).

Only model-checked:

* liveness: `Heals` and `Fades` hold under fairness, which the prover does not
  reach; what they rest on in each step is `RepairsStay` and `QuietKeysFade`;
* `Renderer`: that `ApplySections` leaves a well-formed body, exactly the pieces
  of the kept branches (`BranchesResolved`). It rewrites a sequence by an
  expression, several times over; what that leaves is an induction over data, and
  the five passes of the code suffice only for templates of bounded nesting.
  Given it, `EscapedForItsPlace` is `FilledInPlace`.

The violated properties are refuted by TLC's traces.

## 6. Not modelled, and why

* Floating point: `Scoring` computes the posterior's mean, pacing and fatigue as
  fractions of whole numbers, for whole events, hours and amounts of money, and
  the logarithm of a bid rounded down. The uncertainty bonus only adds to a score; the order that scores induce is left open, except that
  capped campaigns come last.
* `ModelScorer`: no configuration selects it (`deps.py:66-68` builds
  `BetaBanditScorer`).
* The text of creatives: what the escapes, `safe_url` and the tidying of copy do
  to a string, prompt loading, the headline and body products of `adsets.py`.
* The third-party tables behind geo and user agent; the format of an address.
* Placeholders among the attributes of a `<script>` tag, of which the template has
  none.
* `store_url_for`, the click destination: a choice between two fields.
* The user profile of the feature store: written, never read by the server.
* Truncation of lists at 5000 campaigns, 100 ad sets and 1000 variants: nothing
  in the repository says what should happen there.
* The composition of sessions, serve path and impressions in one module. They
  meet in one request in sequence and share only the user key, which `Sessions`
  gives out and `Impressions` takes as given.
* Health probes, configuration, deployment scripts, demo clients.

## 7. Plan

Done: every component that keeps state, the request's pure decisions, and the
proofs of all of them.

What remains worth doing:

1. A template model with a bound on nesting, for which the five passes can be
   proved to resolve every section, so that `FilledInPlace` covers `Renderer`.
2. Sharper statements: which of the recorded reasons of `MintJustified` and of
   drift each kind of failure can cause.
