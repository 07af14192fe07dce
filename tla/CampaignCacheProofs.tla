------------------------ MODULE CampaignCacheProofs ------------------------
(* Proofs about CampaignCache, for any number of campaigns, tasks, workers  *)
(* and any combination of failures: types, why a snapshot may be stale, the *)
(* promises kept to one request at a time, that repairs last, and that      *)
(* CampaignDirectory is implemented.                                        *)
EXTENDS CampaignCacheRefinement, TLAPS

\* What the proofs use of the seed documents.
LEMMA SeedFacts ==
    /\ SeedDocs \subseteq Doc
    /\ \A d, e \in SeedDocs : d.id = e.id => d = e
  BY SeedAssumption

\* Active only selects: what it returns are documents of the collection.
LEMMA ActiveIsSubset == \A docs : Active(docs) \subseteq docs
  BY DEF Active

----------------------------------------------------------------------------
(* TypeOK.  Uniqueness of ids is not inductive by itself: a boot seeds from *)
(* the rows it has left, so these must be seed documents and the seed ids   *)
(* must count as born.                                                      *)

RowsOfSeed ==
    /\ {d.id : d \in SeedDocs} \subseteq born
    /\ \A p \in Task : pc[p] = "seed" => rows[p] \subseteq SeedDocs

TInv == TypeOK /\ RowsOfSeed

\* The initial state is well typed.
LEMMA InitTInv == Init => TInv
  <1> SUFFICES ASSUME Init PROVE TInv
    OBVIOUS
  <1> USE SeedFacts DEF Init
  <1>1. born \subseteq Campaigns
    BY DEF Doc
  <1>2. cache \in [kind : {"miss", "snapshot", "corrupt"}, docs : SUBSET Doc]
    BY DEF Missing
  <1>3. pc \in [Task -> Where]
    BY DEF Where
  <1>4. TypeOK
    BY <1>1, <1>2, <1>3 DEF TypeOK
  <1>5. RowsOfSeed
    BY DEF RowsOfSeed
  <1> QED
    BY <1>4, <1>5 DEF TInv

\* A write of the collection keeps the observer's type.
LEMMA StoreKeepsMarks ==
  ASSUME TInv, NEW docs, Store(docs)
  PROVE  overtaken' \in [Task -> BOOLEAN]
  BY DEF TInv, TypeOK, Store

\* A CRUD handler's Mongo call keeps TInv when the collection it stores is a
\* directory of born ids.
LEMMA CommitTInv ==
  ASSUME TInv, NEW p \in ApiTasks, pc[p] = "idle", NEW docs, Commit(p, docs),
         docs \subseteq Doc,
         \A d, e \in docs : d.id = e.id => d = e,
         born \subseteq born', born' \subseteq Campaigns,
         {d.id : d \in docs} \subseteq born'
  PROVE  TInv'
  <1>1. db' = docs /\ UNCHANGED <<cache, rows, got>>
    BY DEF Commit, Store
  <1>2. overtaken' \in [Task -> BOOLEAN]
    BY StoreKeepsMarks DEF Commit
  <1>3. /\ pc' \in [Task -> Where]
        /\ drift' \subseteq Causes
        /\ \A q \in Task : pc'[q] = "seed" => pc[q] = "seed"
    BY DEF Commit, TInv, TypeOK, Where, Causes, Task
  <1>4. TypeOK'
    BY <1>1, <1>2, <1>3 DEF TInv, TypeOK
  <1>5. RowsOfSeed'
    BY <1>1, <1>3 DEF TInv, RowsOfSeed
  <1> QED
    BY <1>4, <1>5 DEF TInv

\* Rewriting documents under their ids keeps a directory a directory.
LEMMA RewriteKeepsDirectory ==
  ASSUME TInv, NEW f, \A d \in Doc : f[d] \in Doc /\ f[d].id = d.id
  PROVE  /\ {f[d] : d \in db} \subseteq Doc
         /\ \A d, e \in {f[x] : x \in db} : d.id = e.id => d = e
         /\ {d.id : d \in {f[x] : x \in db}} \subseteq born
  <1>1. db \subseteq Doc
    BY DEF TInv, TypeOK
  <1>2. \A d, e \in db : f[d].id = f[e].id => d = e
    BY <1>1 DEF TInv, TypeOK
  <1>3. \A d \in db : f[d].id \in born
    BY <1>1 DEF TInv, TypeOK
  <1> QED
    BY <1>1, <1>2, <1>3

\* Every mutating request keeps TInv.
LEMMA MutationTInv ==
  ASSUME TInv, NEW p \in ApiTasks, Mutation(p)
  PROVE  TInv'
  <1> PICK c \in Campaigns :
        \/ \E b \in Bodies : Create(p, c, b)
        \/ \E a \in BOOLEAN, b \in Bodies : Update(p, c, a, b)
        \/ Delete(p, c)
    BY DEF Mutation
  <1>0. born \subseteq Campaigns
    BY DEF TInv, TypeOK
  <1>1. ASSUME NEW b \in Bodies, Create(p, c, b) PROVE TInv'
    <2> DEFINE new == [id |-> c, active |-> FALSE, body |-> b]
    <2>1. \A d \in db : d.id # c
      BY <1>1 DEF Create, TInv, TypeOK
    <2>a. pc[p] = "idle" /\ Commit(p, db \cup {new})
      BY <1>1 DEF Create
    <2>b. new \in Doc /\ new.id = c
      BY DEF Doc
    <2> HIDE DEF new
    <2>2. db \cup {new} \subseteq Doc
      BY <2>b DEF TInv, TypeOK
    <2>3. \A d, e \in db \cup {new} : d.id = e.id => d = e
      BY <2>1, <2>b DEF TInv, TypeOK
    <2>4. born' = born \cup {c} /\ born' \subseteq Campaigns
      BY <1>0, <1>1 DEF Create
    <2>5. {d.id : d \in db \cup {new}} \subseteq born'
      BY <2>4, <2>b DEF TInv, TypeOK
    <2> QED
      BY <2>2, <2>3, <2>4, <2>5, <2>a, CommitTInv
  <1>2. ASSUME NEW a \in BOOLEAN, NEW b \in Bodies, Update(p, c, a, b)
        PROVE  TInv'
    <2> DEFINE f == [d \in Doc |->
                      IF d.id = c THEN [d EXCEPT !.active = a, !.body = b] ELSE d]
               docs == {f[d] : d \in db}
    <2>1. \A d \in Doc : f[d] \in Doc /\ f[d].id = d.id
      BY DEF Doc
    <2>a. db \subseteq Doc
      BY DEF TInv, TypeOK
    <2>b. docs = {IF d.id = c THEN [d EXCEPT !.active = a, !.body = b] ELSE d
                    : d \in db}
      BY <2>a
    <2>2. pc[p] = "idle" /\ Commit(p, docs) /\ born' = born
      BY <1>2, <2>b DEF Update
    <2> HIDE DEF f
    <2>3. /\ docs \subseteq Doc
          /\ \A d, e \in docs : d.id = e.id => d = e
          /\ {d.id : d \in docs} \subseteq born
      BY <2>1, RewriteKeepsDirectory
    <2> HIDE DEF docs
    <2> QED
      BY <1>0, <2>2, <2>3, CommitTInv
  <1>3. ASSUME Delete(p, c) PROVE TInv'
    <2> DEFINE docs == {d \in db : d.id # c}
    <2>1. pc[p] = "idle" /\ Commit(p, docs) /\ born' = born
      BY <1>3 DEF Delete
    <2>2. /\ docs \subseteq Doc
          /\ \A d, e \in docs : d.id = e.id => d = e
          /\ {d.id : d \in docs} \subseteq born
      BY DEF TInv, TypeOK
    <2> HIDE DEF docs
    <2> QED
      BY <1>0, <2>1, <2>2, CommitTInv
  <1> QED
    BY <1>1, <1>2, <1>3

\* Booting, seeding and abandoning keep TInv.
LEMMA SeedTInv ==
  ASSUME TInv, NEW p \in ApiTasks, Boot(p) \/ SeedStep(p)
  PROVE  TInv'
  <1> USE SeedFacts
  <1>1. CASE Boot(p)
    BY <1>1 DEF Boot, Goto, TInv, TypeOK, RowsOfSeed, Where, Task
  <1>2. CASE SeedOne(p)
    <2>1. PICK d \in rows[p] : SeedOne(p)!(d)
      BY <1>2 DEF SeedOne
    <2> DEFINE docs == {e \in db : e.id # d.id} \cup {d}
    <2>2. p \in Task /\ d \in SeedDocs
      BY <2>1 DEF TInv, RowsOfSeed, Task
    <2>3. /\ docs \subseteq Doc
          /\ \A e, f \in docs : e.id = f.id => e = f
          /\ {e.id : e \in docs} \subseteq born
      BY <2>2 DEF TInv, TypeOK, RowsOfSeed
    <2>4. db' = docs /\ overtaken' \in [Task -> BOOLEAN]
      BY <2>1, StoreKeepsMarks DEF Store
    <2> HIDE DEF docs
    <2>5. /\ rows' = [rows EXCEPT ![p] = @ \ {d}]
          /\ UNCHANGED <<born, cache, pc, got, drift>>
      BY <2>1
    <2>6. TypeOK'
      BY <2>2, <2>3, <2>4, <2>5 DEF TInv, TypeOK
    <2>7. RowsOfSeed'
      BY <2>2, <2>5 DEF TInv, TypeOK, RowsOfSeed
    <2> QED
      BY <2>6, <2>7 DEF TInv
  <1>3. CASE SeedDone(p)
    BY <1>3 DEF SeedDone, Goto, TInv, TypeOK, RowsOfSeed, Where, Task
  <1>4. CASE SeedFails(p)
    BY <1>4 DEF SeedFails, Abandon, TInv, TypeOK, RowsOfSeed, Where, Causes, Task
  <1> QED
    BY <1>1, <1>2, <1>3, <1>4 DEF SeedStep

\* The refresh steps keep TInv.
LEMMA RefreshTInv ==
  ASSUME TInv, NEW p \in Task, StartRefresh(p) \/ RefreshStep(p)
  PROVE  TInv'
  <1> USE DEF TInv, TypeOK, RowsOfSeed, Where, Causes, Task
  <1>1. CASE StartRefresh(p)
    BY <1>1 DEF StartRefresh, Goto
  <1>2. CASE ListForRefresh(p)
    BY <1>2, ActiveIsSubset DEF ListForRefresh, List
  <1>3. CASE ListFails(p) \/ WriteFails(p)
    BY <1>3 DEF ListFails, WriteFails, Abandon
  <1>4. CASE WriteSnapshot(p)
    BY <1>4 DEF WriteSnapshot, Publish, Snapshot
  <1> QED
    BY <1>1, <1>2, <1>3, <1>4 DEF RefreshStep

\* The steps of a serve request keep TInv.
LEMMA ServeTInv ==
  ASSUME TInv, NEW p \in ApiTasks, ServeStart(p) \/ ServeStep(p)
  PROVE  TInv'
  <1> USE DEF TInv, TypeOK, RowsOfSeed, Where, Causes, Task
  <1>1. CASE ServeStart(p)
    BY <1>1 DEF ServeStart, ReadHit, ReadMiss, ReadCorrupt, Goto
  <1>2. CASE DropCorrupt(p)
    BY <1>2 DEF DropCorrupt, Goto, Lose, Missing
  <1>3. CASE ReadFails(p) \/ ServeListFails(p) \/ EndServe(p)
    BY <1>3 DEF ReadFails, ServeListFails, EndServe, Goto
  <1>4. CASE ListForServing(p)
    BY <1>4, ActiveIsSubset DEF ListForServing, Goto
  <1>5. CASE ListForFill(p)
    BY <1>5, ActiveIsSubset DEF ListForFill, List
  <1>6. CASE Fill(p)
    BY <1>6 DEF Fill, Publish, Snapshot
  <1>7. CASE FillFails(p)
    BY <1>7 DEF FillFails, Goto
  <1> QED
    BY <1>1, <1>2, <1>3, <1>4, <1>5, <1>6, <1>7 DEF ServeStep

\* The environment keeps TInv.
LEMMA EnvironmentTInv ==
  ASSUME TInv, Environment
  PROVE  TInv'
  <1>1. CASE Expire \/ SchemaDrift
    BY <1>1 DEF Expire, SchemaDrift, Lose, Missing, Corrupt, TInv, TypeOK,
                RowsOfSeed, Causes
  <1>2. ASSUME NEW c \in Campaigns, DirectEdit(c) PROVE TInv'
    <2> DEFINE f == [d \in Doc |->
                      IF d.id = c THEN [d EXCEPT !.active = ~@] ELSE d]
               docs == {f[d] : d \in db}
    <2>1. \A d \in Doc : f[d] \in Doc /\ f[d].id = d.id
      BY DEF Doc
    <2>a. db \subseteq Doc
      BY DEF TInv, TypeOK
    <2>b. docs = {IF d.id = c THEN [d EXCEPT !.active = ~@] ELSE d : d \in db}
      BY <2>a
    <2>2. db' = docs
      BY <1>2, <2>b DEF DirectEdit, Store
    <2> HIDE DEF f
    <2>3. /\ docs \subseteq Doc
          /\ \A d, e \in docs : d.id = e.id => d = e
          /\ {d.id : d \in docs} \subseteq born
      BY <2>1, RewriteKeepsDirectory
    <2>4. overtaken' \in [Task -> BOOLEAN]
      BY <1>2, StoreKeepsMarks DEF DirectEdit
    <2> HIDE DEF docs
    <2> QED
      BY <1>2, <2>2, <2>3, <2>4
         DEF DirectEdit, TInv, TypeOK, RowsOfSeed, Causes
  <1>3. ASSUME NEW p \in Task, Crash(p) PROVE TInv'
    BY <1>3 DEF Crash, Abandon, TInv, TypeOK, RowsOfSeed, Where, Causes
  <1> QED
    BY <1>1, <1>2, <1>3 DEF Environment

\* TInv is inductive.
LEMMA NextTInv == TInv /\ [Next]_vars => TInv'
  <1> SUFFICES ASSUME TInv, [Next]_vars PROVE TInv'
    OBVIOUS
  <1>1. ASSUME NEW p \in ApiTasks,
               Mutation(p) \/ Boot(p) \/ SeedStep(p) \/ ServeStart(p) \/ ServeStep(p)
        PROVE  TInv'
    BY <1>1, MutationTInv, SeedTInv, ServeTInv
  <1>2. ASSUME NEW w \in Workers, StartRefresh(w) PROVE TInv'
    BY <1>2, RefreshTInv DEF Task
  <1>3. ASSUME NEW p \in Task, RefreshStep(p) PROVE TInv'
    BY <1>3, RefreshTInv
  <1>4. CASE Environment
    BY <1>4, EnvironmentTInv
  <1>5. CASE UNCHANGED vars
    BY <1>5 DEF vars, TInv, TypeOK, RowsOfSeed
  <1> QED
    BY <1>1, <1>2, <1>3, <1>4, <1>5 DEF Next

\* Types hold and no two stored campaigns share an id, whatever interleaves:
\* creations, PATCHes, boots that re-seed, crashes in the middle of a seed.
THEOREM TypeCorrect == Spec => []TypeOK
  <1>1. TInv => TypeOK
    BY DEF TInv
  <1> QED
    BY <1>1, InitTInv, NextTInv, PTL DEF Spec

----------------------------------------------------------------------------
(* StaleExplained.  It is not inductive alone: that a write which was not    *)
(* overtaken leaves the snapshot fresh needs WindowSound, and WindowSound    *)
(* rests on Store marking every open window.                                *)

\* Rows a task carries to Redis are the active set of Mongo at this moment,
\* unless somebody changed it after the task listed it.
WindowSound ==
    \A p \in Task : InWindow(p) /\ ~overtaken[p] => rows[p] = Active(db)

SInv == WindowSound /\ StaleExplained

\* A write of the collection leaves the rows of unmarked windows right, as
\* long as it opens no window and touches no rows.
LEMMA StoreWindow ==
  ASSUME TInv, WindowSound, NEW docs, Store(docs), rows' = rows,
         \A q \in Task : InWindow(q)' => InWindow(q)
  PROVE  WindowSound'
  <1> SUFFICES ASSUME NEW q \in Task, InWindow(q)', ~overtaken'[q]
               PROVE  rows'[q] = Active(db')
    BY DEF WindowSound
  <1>1. InWindow(q)
    OBVIOUS
  <1>2. ~overtaken[q] /\ Active(docs) = Active(db) /\ db' = docs
    BY <1>1 DEF Store
  <1>3. rows[q] = Active(db)
    BY <1>1, <1>2 DEF WindowSound
  <1> QED
    BY <1>2, <1>3

\* After a write by p that leaves p owing a refresh, or records a cause,
\* every stale snapshot is explained.
LEMMA OwedExplains ==
  ASSUME NEW p \in ApiTasks, Owes(p)' \/ drift' # {}
  PROVE  StaleExplained'
  BY DEF StaleExplained

\* A CRUD handler's Mongo call keeps SInv.
LEMMA CommitSInv ==
  ASSUME TInv, SInv, NEW p \in ApiTasks, pc[p] = "idle", NEW docs, Commit(p, docs)
  PROVE  SInv'
  <1>1. \A q \in Task : InWindow(q)' => InWindow(q)
    BY DEF Commit, InWindow, TInv, TypeOK
  <1>2. WindowSound'
    BY <1>1, StoreWindow DEF Commit, SInv
  <1>3. Owes(p)' \/ drift' # {}
    BY DEF Commit, Owes, TInv, TypeOK, Task
  <1> QED
    BY <1>2, <1>3, OwedExplains DEF SInv

\* Every mutating request keeps SInv.
LEMMA MutationSInv ==
  ASSUME TInv, SInv, NEW p \in ApiTasks, Mutation(p)
  PROVE  SInv'
  BY CommitSInv DEF Mutation, Create, Update, Delete

\* A step that changes neither the collection nor the key keeps StaleExplained
\* if no owed refresh is lost without a cause.
LEMMA QuietStep ==
  ASSUME StaleExplained, UNCHANGED <<db, cache>>,
         drift # {} => drift' # {},
         \A q \in ApiTasks : Owes(q) => Owes(q)' \/ drift' # {}
  PROVE  StaleExplained'
  BY DEF StaleExplained

\* A step that does not change the collection keeps WindowSound if every open
\* window is an old one left alone, or carries the active set.
LEMMA QuietWindow ==
  ASSUME WindowSound, db' = db,
         \A q \in Task : InWindow(q)' /\ ~overtaken'[q] =>
            \/ rows'[q] = Active(db)
            \/ InWindow(q) /\ ~overtaken[q] /\ rows'[q] = rows[q]
  PROVE  WindowSound'
  BY DEF WindowSound

\* Listing opens a window whose rows are the active set, and leaves an owed
\* refresh owed.
LEMMA ListSInv ==
  ASSUME TInv, SInv, NEW p \in Task, NEW next,
         \/ pc[p] = "refresh" /\ next = "write"
         \/ pc[p] = "relist" /\ next = "fill",
         List(p, next)
  PROVE  SInv'
  <1> USE DEF TInv, TypeOK, List, SInv
  <1>1. WindowSound'
    BY QuietWindow DEF InWindow
  <1>2. \A q \in ApiTasks : Owes(q) => Owes(q)'
    BY DEF Owes, Task
  <1> QED
    BY <1>1, <1>2, QuietStep

\* The SET: an unmarked window carries the active set, a marked one records
\* the race.
LEMMA PublishSInv ==
  ASSUME TInv, SInv, NEW p \in Task, InWindow(p),
         NEW next, next \in {"idle", "serving"}, Publish(p, next)
  PROVE  SInv'
  <1>1. WindowSound'
    <2>1. db' = db
      BY DEF Publish
    <2>2. \A q \in Task : InWindow(q)' /\ ~overtaken'[q] =>
            InWindow(q) /\ ~overtaken[q] /\ rows'[q] = rows[q]
      BY DEF Publish, InWindow, TInv, TypeOK
    <2> QED
      BY <2>1, <2>2, QuietWindow DEF SInv
  <1>2. StaleExplained'
    <2>1. CASE overtaken[p]
      BY <2>1 DEF Publish, StaleExplained
    <2>2. CASE ~overtaken[p]
      <3>1. rows[p] = Active(db)
        BY <2>2 DEF SInv, WindowSound
      <3> QED
        BY <3>1 DEF Publish, Snapshot, StaleExplained
    <2>3. overtaken[p] \in BOOLEAN
      BY DEF TInv, TypeOK
    <2> QED
      BY <2>1, <2>2, <2>3
  <1> QED
    BY <1>1, <1>2 DEF SInv

\* A task that stops half-way records the refresh it no longer runs.
LEMMA AbandonSInv ==
  ASSUME TInv, SInv, NEW p \in Task, Abandon(p)
  PROVE  SInv'
  <1> USE DEF TInv, TypeOK, Abandon, SInv
  <1>1. WindowSound'
    BY QuietWindow DEF InWindow
  <1>2. \A q \in ApiTasks : Owes(q) => Owes(q)' \/ drift' # {}
    BY DEF Owes, Task
  <1>3. drift # {} => drift' # {}
    OBVIOUS
  <1> QED
    BY <1>1, <1>2, <1>3, QuietStep

\* Booting and seeding keep SInv.
LEMMA SeedSInv ==
  ASSUME TInv, SInv, NEW p \in ApiTasks, Boot(p) \/ SeedStep(p)
  PROVE  SInv'
  <1>0. p \in Task
    BY DEF Task
  <1>1. CASE Boot(p) \/ SeedDone(p)
    <2> USE DEF TInv, TypeOK, SInv, Boot, SeedDone, Goto
    <2>1. WindowSound'
      BY <1>1, QuietWindow DEF InWindow
    <2>2. \A q \in ApiTasks : Owes(q) => Owes(q)'
      BY <1>1 DEF Owes, Task
    <2> QED
      BY <1>1, <2>1, <2>2, QuietStep
  <1>2. CASE SeedOne(p)
    <2>1. PICK d \in rows[p] : SeedOne(p)!(d)
      BY <1>2 DEF SeedOne
    <2>2. Owes(p)'
      BY <2>1 DEF Owes
    <2>3. WindowSound'
      <3> SUFFICES ASSUME NEW q \in Task, InWindow(q)', ~overtaken'[q]
                   PROVE  rows'[q] = Active(db')
        BY DEF WindowSound
      <3>1. q # p /\ InWindow(q)
        BY <2>1 DEF InWindow
      <3>2. ~overtaken[q] /\ Active(db') = Active(db)
        BY <2>1, <3>1 DEF Store
      <3>3. rows'[q] = rows[q]
        BY <2>1, <3>1 DEF TInv, TypeOK
      <3> QED
        BY <3>1, <3>2, <3>3 DEF SInv, WindowSound
    <2> QED
      BY <2>2, <2>3, OwedExplains DEF SInv
  <1>3. CASE SeedFails(p)
    BY <1>0, <1>3, AbandonSInv DEF SeedFails
  <1> QED
    BY <1>1, <1>2, <1>3 DEF SeedStep

\* The refresh steps keep SInv.
LEMMA RefreshSInv ==
  ASSUME TInv, SInv, NEW p \in Task, RefreshStep(p)
  PROVE  SInv'
  <1>1. CASE ListForRefresh(p)
    BY <1>1, ListSInv DEF ListForRefresh
  <1>2. CASE ListFails(p) \/ WriteFails(p)
    BY <1>2, AbandonSInv DEF ListFails, WriteFails
  <1>3. CASE WriteSnapshot(p)
    BY <1>3, PublishSInv DEF WriteSnapshot, InWindow
  <1> QED
    BY <1>1, <1>2, <1>3 DEF RefreshStep

\* The steps of a serve request keep SInv.
LEMMA ServeSInv ==
  ASSUME TInv, SInv, NEW p \in ApiTasks, ServeStart(p) \/ ServeStep(p)
  PROVE  SInv'
  <1>0. p \in Task
    BY DEF Task
  <1>1. CASE \/ ServeStart(p) \/ ReadFails(p) \/ ListForServing(p)
             \/ ServeListFails(p) \/ FillFails(p) \/ EndServe(p)
    <2> USE DEF TInv, TypeOK, SInv, ServeStart, ReadHit, ReadMiss, ReadCorrupt,
                ReadFails, ListForServing, ServeListFails, FillFails, EndServe,
                Goto
    <2>1. UNCHANGED <<db, cache, drift>>
      BY <1>1
    <2>2. \A q \in Task : InWindow(q)' /\ ~overtaken'[q] =>
            InWindow(q) /\ ~overtaken[q] /\ rows'[q] = rows[q]
      BY <1>0, <1>1 DEF InWindow
    <2>3. \A q \in ApiTasks : Owes(q) => Owes(q)'
      BY <1>0, <1>1 DEF Owes, Task
    <2>4. WindowSound'
      BY <2>1, <2>2, QuietWindow
    <2> QED
      BY <2>1, <2>3, <2>4, QuietStep
  <1>2. CASE DropCorrupt(p)
    <2>1. WindowSound'
      BY <1>0, <1>2, QuietWindow DEF DropCorrupt, Goto, InWindow, TInv, TypeOK, SInv
    <2>2. StaleExplained'
      BY <1>2 DEF DropCorrupt, Lose, Missing, StaleExplained
    <2> QED
      BY <2>1, <2>2 DEF SInv
  <1>3. CASE ListForFill(p)
    BY <1>0, <1>3, ListSInv DEF ListForFill
  <1>4. CASE Fill(p)
    BY <1>0, <1>4, PublishSInv DEF Fill, InWindow
  <1> QED
    BY <1>1, <1>2, <1>3, <1>4 DEF ServeStep

\* The environment keeps SInv.
LEMMA EnvironmentSInv ==
  ASSUME TInv, SInv, Environment
  PROVE  SInv'
  <1>1. CASE Expire \/ SchemaDrift
    <2>1. WindowSound'
      BY <1>1, QuietWindow DEF Expire, SchemaDrift, InWindow, SInv
    <2>2. StaleExplained'
      BY <1>1 DEF Expire, SchemaDrift, Lose, Missing, Corrupt, StaleExplained
    <2> QED
      BY <2>1, <2>2 DEF SInv
  <1>2. ASSUME NEW c \in Campaigns, DirectEdit(c) PROVE SInv'
    <2>1. WindowSound'
      BY <1>2, StoreWindow DEF DirectEdit, InWindow, SInv
    <2>2. StaleExplained'
      BY <1>2 DEF DirectEdit, StaleExplained
    <2> QED
      BY <2>1, <2>2 DEF SInv
  <1>3. ASSUME NEW p \in Task, Crash(p) PROVE SInv'
    BY <1>3, AbandonSInv DEF Crash
  <1> QED
    BY <1>1, <1>2, <1>3 DEF Environment

\* SInv is inductive relative to TInv.
LEMMA NextSInv == TInv /\ SInv /\ [Next]_vars => SInv'
  <1> SUFFICES ASSUME TInv, SInv, [Next]_vars PROVE SInv'
    OBVIOUS
  <1>1. ASSUME NEW p \in ApiTasks,
               Mutation(p) \/ Boot(p) \/ SeedStep(p) \/ ServeStart(p) \/ ServeStep(p)
        PROVE  SInv'
    BY <1>1, MutationSInv, SeedSInv, ServeSInv
  <1>2. ASSUME NEW w \in Workers, StartRefresh(w) PROVE SInv'
    <2> USE DEF StartRefresh, Goto, TInv, TypeOK, SInv, Task
    <2>1. WindowSound'
      BY <1>2, QuietWindow DEF InWindow
    <2>2. \A q \in ApiTasks : Owes(q) => Owes(q)'
      BY <1>2 DEF Owes
    <2> QED
      BY <1>2, <2>1, <2>2, QuietStep
  <1>3. ASSUME NEW p \in Task, RefreshStep(p) PROVE SInv'
    BY <1>3, RefreshSInv
  <1>4. CASE Environment
    BY <1>4, EnvironmentSInv
  <1>5. CASE UNCHANGED vars
    BY <1>5 DEF vars, SInv, WindowSound, StaleExplained, InWindow, Owes
  <1> QED
    BY <1>1, <1>2, <1>3, <1>4, <1>5 DEF Next

LEMMA InvAlways == Spec => [](TInv /\ SInv)
  <1>1. Init => SInv
    BY DEF Init, Missing, SInv, WindowSound, StaleExplained, InWindow, Task
  <1> QED
    BY <1>1, InitTInv, NextTInv, NextSInv, PTL DEF Spec

\* For any number of instances, workers and campaigns: a stale snapshot is
\* about to be repaired by an API task, or goes back to an overtaken write, a
\* failed task or a direct edit.
THEOREM StalenessExplained == Spec => [](WindowSound /\ StaleExplained)
  BY InvAlways, PTL DEF SInv

\* The rows a task carries to Redis are the active set of this moment, unless
\* somebody changed it after the task listed it.
THEOREM WindowsSound == Spec => []WindowSound
  BY InvAlways, PTL DEF SInv

----------------------------------------------------------------------------
(* RepairsLast: the part of Heals that is about steps.  A write of the key   *)
(* stores listed rows, and only a change of the active set makes rows old.   *)

\* The key keeps what it has, loses it, or is given the rows of a window.
LEMMA KeyWrites ==
  ASSUME [Next]_vars
  PROVE  \/ cache' = cache
         \/ cache'.kind # "snapshot"
         \/ \E p \in Task : InWindow(p) /\ cache' = Snapshot(rows[p]) /\ db' = db
  <1>1. ASSUME NEW p \in ApiTasks,
               Mutation(p) \/ Boot(p) \/ SeedStep(p) \/ ServeStart(p)
        PROVE  cache' = cache
    BY <1>1 DEF Mutation, Create, Update, Delete, Commit, Boot, SeedStep, SeedOne, SeedDone,
                SeedFails, Abandon, ServeStart, ReadHit, ReadMiss, ReadCorrupt
  <1>2. ASSUME NEW p \in ApiTasks, ServeStep(p)
        PROVE  cache' = cache \/ cache'.kind # "snapshot" \/ Fill(p)
    BY <1>2 DEF ServeStep, DropCorrupt, Lose, Missing, ReadFails, ListForServing,
                ServeListFails, ListForFill, List, FillFails, EndServe
  <1>3. ASSUME NEW p \in Task, RefreshStep(p) PROVE cache' = cache \/ WriteSnapshot(p)
    BY <1>3 DEF RefreshStep, ListForRefresh, List, ListFails, WriteFails, Abandon
  <1>4. ASSUME NEW p \in Task, Fill(p) \/ WriteSnapshot(p)
        PROVE  InWindow(p) /\ cache' = Snapshot(rows[p]) /\ db' = db
    BY <1>4 DEF Fill, WriteSnapshot, Publish, InWindow
  <1>5. CASE Environment
    <2>1. CASE Expire \/ SchemaDrift
      BY <2>1 DEF Expire, SchemaDrift, Lose, Missing, Corrupt
    <2>2. ASSUME NEW c \in Campaigns, DirectEdit(c) PROVE cache' = cache
      BY <2>2 DEF DirectEdit
    <2>3. ASSUME NEW p \in Task, Crash(p) PROVE cache' = cache
      BY <2>3 DEF Crash, Abandon
    <2> QED
      BY <1>5, <2>1, <2>2, <2>3 DEF Environment
  <1>6. ASSUME NEW w \in Workers, StartRefresh(w) PROVE cache' = cache
    BY <1>6 DEF StartRefresh
  <1>7. ApiTasks \subseteq Task
    BY DEF Task
  <1>8. CASE \E p \in ApiTasks :
               Mutation(p) \/ Boot(p) \/ SeedStep(p) \/ ServeStart(p) \/ ServeStep(p)
    BY <1>1, <1>2, <1>4, <1>7, <1>8
  <1>9. CASE \E p \in Task : RefreshStep(p)
    BY <1>3, <1>4, <1>9
  <1>10. CASE UNCHANGED vars
    BY <1>10 DEF vars
  <1> QED
    BY <1>5, <1>6, <1>8, <1>9, <1>10 DEF Next

\* Rows become rows of the past by a change of the active set only.
LEMMA StoreMarks ==
  ASSUME NEW docs, Store(docs), Active(db') = Active(db), NEW q \in Task, overtaken'[q]
  PROVE  overtaken[q]
  BY DEF Store

LEMMA OnlyChangesMark ==
  ASSUME TInv, [Next]_vars, Active(db') = Active(db), NEW q \in Task, overtaken'[q]
  PROVE  overtaken[q]
  <1>0. overtaken \in [Task -> BOOLEAN]
    BY DEF TInv, TypeOK
  <1>1. ASSUME NEW p \in ApiTasks, Mutation(p) PROVE overtaken[q]
    <2>1. \E docs : Store(docs)
      BY <1>1 DEF Mutation, Create, Update, Delete, Commit
    <2> QED
      BY <2>1, StoreMarks
  <1>2. ASSUME NEW p \in ApiTasks, Boot(p) \/ SeedStep(p) PROVE overtaken[q]
    <2>1. CASE SeedOne(p)
      <3>1. \E docs : Store(docs)
        BY <2>1 DEF SeedOne
      <3> QED
        BY <3>1, StoreMarks
    <2>2. CASE Boot(p) \/ SeedDone(p) \/ SeedFails(p)
      BY <1>0, <2>2 DEF Boot, SeedDone, SeedFails, Abandon
    <2> QED
      BY <1>2, <2>1, <2>2 DEF SeedStep
  <1>3. ASSUME NEW p \in ApiTasks, ServeStart(p) PROVE overtaken[q]
    BY <1>3 DEF ServeStart, ReadHit, ReadMiss, ReadCorrupt
  <1>4. ASSUME NEW p \in ApiTasks, ServeStep(p) PROVE overtaken[q]
    <2>1. CASE DropCorrupt(p) \/ ReadFails(p) \/ ListForServing(p) \/ ServeListFails(p) \/ EndServe(p)
      BY <2>1 DEF DropCorrupt, ReadFails, ListForServing, ServeListFails, EndServe
    <2>2. CASE ListForFill(p) \/ Fill(p) \/ FillFails(p)
      BY <1>0, <2>2 DEF ListForFill, List, Fill, Publish, FillFails
    <2> QED
      BY <1>4, <2>1, <2>2 DEF ServeStep
  <1>5. ASSUME NEW p \in Task, RefreshStep(p) PROVE overtaken[q]
    BY <1>0, <1>5 DEF RefreshStep, ListForRefresh, List, ListFails, WriteSnapshot, Publish,
                      WriteFails, Abandon
  <1>6. ASSUME NEW w \in Workers, StartRefresh(w) PROVE overtaken[q]
    BY <1>6 DEF StartRefresh
  <1>7. CASE Environment
    <2>1. CASE Expire \/ SchemaDrift
      BY <2>1 DEF Expire, SchemaDrift
    <2>2. ASSUME NEW c \in Campaigns, DirectEdit(c) PROVE overtaken[q]
      <3>1. \E docs : Store(docs)
        BY <2>2 DEF DirectEdit
      <3> QED
        BY <3>1, StoreMarks
    <2>3. ASSUME NEW p \in Task, Crash(p) PROVE overtaken[q]
      BY <1>0, <2>3 DEF Crash, Abandon
    <2> QED
      BY <1>7, <2>1, <2>2, <2>3 DEF Environment
  <1>8. CASE UNCHANGED vars
    BY <1>8 DEF vars
  <1> QED
    BY <1>1, <1>2, <1>3, <1>4, <1>5, <1>6, <1>7, <1>8 DEF Next

LEMMA RepairedNext ==
  ASSUME TInv, SInv, [Next]_vars, Repaired, Active(db') = Active(db)
  PROVE  Repaired'
  <1>1. \A q \in Task : ~overtaken'[q]
    BY OnlyChangesMark DEF Repaired
  <1>2. Fresh'
    <2>1. CASE cache' = cache \/ cache'.kind # "snapshot"
      BY <2>1 DEF Repaired, Fresh
    <2>2. ASSUME NEW p \in Task, InWindow(p), cache' = Snapshot(rows[p]) PROVE Fresh'
      <3>1. rows[p] = Active(db)
        BY <2>2 DEF SInv, WindowSound, Repaired
      <3> QED
        BY <2>2, <3>1 DEF Fresh, Snapshot
    <2> QED
      BY <2>1, <2>2, KeyWrites
  <1> QED
    BY <1>1, <1>2 DEF Repaired

\* What one refresh has put right stays right, whatever requests, failed calls,
\* crashes and late jobs follow, until somebody changes the active set.
THEOREM RepairsStay == Spec => RepairsLast
  <1>1. TInv /\ SInv /\ [Next]_vars
          => [Repaired /\ Active(db') = Active(db) => Repaired']_vars
    BY RepairedNext
  <1> QED
    BY <1>1, InvAlways, PTL DEF Spec, RepairsLast

----------------------------------------------------------------------------
(* What the module docs promise of an API used by one request at a time,   *)
(* with no failing call: the hypotheses are facts about the constants, and *)
(* snapshots may still expire, be flushed or become unreadable.            *)

Sequential ==
    /\ \A p, q \in Task : p = q
    /\ Faults \subseteq {"schema"}
    /\ Unloadable = {}

\* Nothing drifts, and a request that has listed campaigns answers with the
\* active set of the present.
Undisturbed ==
    /\ drift = {}
    /\ \A p \in Task :
         /\ ~overtaken[p]
         /\ pc[p] # "failed"
         /\ pc[p] \in {"relist", "fill", "serving"} => got[p] = Active(db)

\* With no failing call and no rejected document, no task stops half-way.
LEMMA NothingFails ==
  ASSUME Sequential
  PROVE  /\ \A docs : Loads(docs)
         /\ \A c \in Campaigns : ~DirectEdit(c)
         /\ \A p \in Task :
              ~(ListFails(p) \/ WriteFails(p) \/ SeedFails(p) \/ ReadFails(p)
                  \/ ServeListFails(p) \/ FillFails(p) \/ Crash(p))
  <1>1. \A docs : Loads(docs)
    BY DEF Sequential, Loads
  <1> QED
    BY <1>1 DEF Sequential, DirectEdit, ListFails, WriteFails, SeedFails, ReadFails,
                ServeListFails, FillFails, Crash

\* A write of the collection by the only task finds no open window.
LEMMA StoreAlone ==
  ASSUME Sequential, TInv, Undisturbed, NEW p \in Task, ~InWindow(p), NEW docs, Store(docs)
  PROVE  \A q \in Task : ~overtaken'[q]
  BY DEF Sequential, TInv, TypeOK, Undisturbed, Store

\* An idle task that reads a snapshot reads the active set.
LEMMA FreshWhenIdle ==
  ASSUME SInv, Undisturbed, \A p \in Task : pc[p] = "idle"
  PROVE  Fresh
  BY DEF SInv, StaleExplained, Undisturbed, Owes, Fresh, Task

LEMMA UndisturbedNext ==
  ASSUME Sequential, TInv, SInv, Undisturbed, [Next]_vars
  PROVE  Undisturbed'
  <1>0. /\ pc \in [Task -> Where] /\ rows \in [Task -> SUBSET Doc]
        /\ got \in [Task -> SUBSET Doc] /\ overtaken \in [Task -> BOOLEAN]
    BY DEF TInv, TypeOK
  <1>1. ASSUME NEW p \in Task, \A q \in Task : q = p,
               drift' = {}, ~overtaken'[p], pc'[p] # "failed",
               pc'[p] \in {"relist", "fill", "serving"} => got'[p] = Active(db')
        PROVE  Undisturbed'
    BY <1>1 DEF Undisturbed
  <1>2. ASSUME NEW p \in ApiTasks, Mutation(p) PROVE Undisturbed'
    <2>1. p \in Task /\ pc[p] = "idle" /\ \E docs : Commit(p, docs)
      BY <1>2 DEF Mutation, Create, Update, Delete, Task
    <2>2. PICK docs : Commit(p, docs)
      BY <2>1
    <2>3. ~overtaken'[p]
      BY <2>1, <2>2, StoreAlone DEF Commit, InWindow
    <2>4. pc'[p] = "refresh" /\ drift' = drift
      BY <1>0, <2>1, <2>2 DEF Commit, Sequential
    <2> QED
      BY <1>1, <2>1, <2>3, <2>4 DEF Sequential, Undisturbed
  <1>3. ASSUME NEW p \in ApiTasks, Boot(p) \/ SeedStep(p) PROVE Undisturbed'
    <2>1. p \in Task
      BY DEF Task
    <2>2. CASE Boot(p) \/ SeedDone(p)
      BY <1>0, <1>1, <2>1, <2>2 DEF Boot, SeedDone, Goto, Sequential, Undisturbed
    <2>3. CASE SeedOne(p)
      <3>1. PICK d \in rows[p] : SeedOne(p)!(d)
        BY <2>3 DEF SeedOne
      <3>2. ~overtaken'[p]
        BY <2>1, <3>1, StoreAlone DEF InWindow
      <3> QED
        BY <1>1, <2>1, <3>1, <3>2 DEF Sequential, Undisturbed
    <2> QED
      BY <1>3, <2>1, <2>2, <2>3, NothingFails DEF SeedStep
  <1>4. ASSUME NEW p \in Task, RefreshStep(p) PROVE Undisturbed'
    <2>1. ListForRefresh(p) \/ WriteSnapshot(p)
      BY <1>4, NothingFails DEF RefreshStep
    <2> QED
      BY <1>0, <1>1, <2>1 DEF ListForRefresh, List, WriteSnapshot, Publish, Sequential,
                              Undisturbed
  <1>5. ASSUME NEW p \in ApiTasks, ServeStart(p) PROVE Undisturbed'
    <2>1. p \in Task
      BY DEF Task
    <2>2. CASE ReadHit(p)
      <3>1. pc[p] = "idle" /\ cache.kind = "snapshot"
        BY <2>2 DEF ReadHit, Goto
      <3>2. cache.docs = Active(db)
        BY <2>1, <3>1, FreshWhenIdle DEF Sequential, Fresh
      <3> QED
        BY <1>0, <1>1, <2>1, <2>2, <3>2 DEF ReadHit, Goto, Sequential, Undisturbed
    <2>3. CASE ReadMiss(p) \/ ReadCorrupt(p)
      BY <1>0, <1>1, <2>1, <2>3 DEF ReadMiss, ReadCorrupt, Goto, Sequential, Undisturbed
    <2> QED
      BY <1>5, <2>2, <2>3 DEF ServeStart
  <1>6. ASSUME NEW p \in ApiTasks, ServeStep(p) PROVE Undisturbed'
    <2>1. p \in Task
      BY DEF Task
    <2>2. \/ DropCorrupt(p) \/ ListForServing(p) \/ ListForFill(p) \/ Fill(p) \/ EndServe(p)
      BY <1>6, <2>1, NothingFails DEF ServeStep
    <2>3. CASE DropCorrupt(p) \/ ListForServing(p) \/ EndServe(p)
      BY <1>0, <1>1, <2>1, <2>3 DEF DropCorrupt, Lose, ListForServing, EndServe, Goto,
                                    Sequential, Undisturbed
    <2>4. CASE ListForFill(p) \/ Fill(p)
      BY <1>0, <1>1, <2>1, <2>4 DEF ListForFill, List, Fill, Publish, Sequential, Undisturbed
    <2> QED
      BY <2>2, <2>3, <2>4
  <1>7. ASSUME NEW w \in Workers, StartRefresh(w) PROVE Undisturbed'
    BY <1>0, <1>1, <1>7 DEF StartRefresh, Goto, Sequential, Undisturbed, Task
  <1>8. CASE Environment
    <2>1. Expire \/ SchemaDrift
      BY <1>8, NothingFails DEF Environment
    <2> QED
      BY <2>1 DEF Expire, SchemaDrift, Lose, Undisturbed
  <1>9. CASE UNCHANGED vars
    BY <1>9 DEF vars, Undisturbed
  <1> QED
    BY <1>2, <1>3, <1>4, <1>5, <1>6, <1>7, <1>8, <1>9 DEF Next

LEMMA SequentialInv ==
  ASSUME Sequential
  PROVE  Spec => [](TInv /\ SInv /\ Undisturbed)
  <1>1. Init => Undisturbed
    BY DEF Init, Undisturbed
  <1>2. TInv /\ SInv /\ Undisturbed /\ [Next]_vars => Undisturbed'
    BY UndisturbedNext
  <1> QED
    BY <1>1, <1>2, InvAlways, PTL DEF Spec

\* "Toggling a campaign takes effect on the next request": with one request at
\* a time and no failing call, whenever none is under way the snapshot is the
\* active set, whatever was created, patched, deleted, seeded, expired or found
\* unreadable before.
THEOREM SequentialWriteThrough == Sequential => (Spec => []WriteThrough)
  <1> SUFFICES ASSUME Sequential PROVE Spec => []WriteThrough
    OBVIOUS
  <1>1. SInv /\ Undisturbed => WriteThrough
    BY FreshWhenIdle DEF WriteThrough
  <1> QED
    BY <1>1, SequentialInv, PTL

\* Under the same hypotheses no serve request fails, and it answers with the
\* active set on a hit, on a miss and after an unreadable snapshot, which it
\* drops.
THEOREM SequentialTruth == Sequential => (Spec => []NextRequestSeesTruth)
  <1> SUFFICES ASSUME Sequential PROVE Spec => []NextRequestSeesTruth
    OBVIOUS
  <1>1. Undisturbed => NextRequestSeesTruth
    BY DEF Undisturbed, NextRequestSeesTruth, Task
  <1> QED
    BY <1>1, SequentialInv, PTL

----------------------------------------------------------------------------
(* The refinement: CampaignCache implements CampaignDirectory, for any      *)
(* number of tasks and campaigns and every combination of failures.         *)

\* The three mapped variables that are not just renamed, as abbreviations.
Cell == IF cache.kind = "snapshot" THEN {cache.docs} ELSE {}
Held == [p \in Task |-> IF InWindow(p) THEN {rows[p]} ELSE {}]
Answers == [p \in Task |->
              IF pc[p] \in {"relist", "fill", "serving"} THEN {got[p]} ELSE {}]

\* A step that leaves every task's window, rows and answer alone maps to a
\* change of the truth, or to nothing.
LEMMA StepOfTruth ==
  ASSUME TInv', UNCHANGED <<cache, Held, Answers>>
  PROVE  Directory!Next \/ UNCHANGED Directory!dvars
  <1>1. Active(db') \in SUBSET Doc
    BY DEF TInv, TypeOK, Active
  <1>2. UNCHANGED Cell
    BY DEF Cell
  <1>3. Directory!Change
    BY <1>1, <1>2 DEF Directory!Change, Cell, Held, Answers
  <1> QED
    BY <1>3 DEF Directory!Next

\* Writes of the collection by a task outside window and answer.
LEMMA CommitMaps ==
  ASSUME TInv, TInv', NEW p \in ApiTasks, pc[p] = "idle", NEW docs, Commit(p, docs)
  PROVE  Directory!Next \/ UNCHANGED Directory!dvars
  <1>1. UNCHANGED <<cache, rows, got>>
    BY DEF Commit
  <1>2. \A q \in Task :
          /\ InWindow(q)' <=> InWindow(q)
          /\ pc'[q] \in {"relist", "fill", "serving"} <=>
                pc[q] \in {"relist", "fill", "serving"}
    BY DEF Commit, InWindow, TInv, TypeOK
  <1>3. UNCHANGED <<Held, Answers>>
    BY <1>1, <1>2 DEF Held, Answers
  <1> QED
    BY <1>1, <1>3, StepOfTruth

\* list_active_from_db for a snapshot maps to Hold.
LEMMA ListMaps ==
  ASSUME TInv, NEW p \in Task, NEW next,
         \/ pc[p] = "refresh" /\ next = "write"
         \/ pc[p] = "relist" /\ next = "fill",
         List(p, next)
  PROVE  Directory!Next
  <1> USE DEF List, TInv, TypeOK
  <1>1. Held' = [Held EXCEPT ![p] = {Active(db)}]
    BY DEF Held, InWindow
  <1>2. UNCHANGED <<Active(db), Cell, Answers>>
    BY DEF Cell, Answers
  <1>3. Directory!Hold(p)
    BY <1>1, <1>2 DEF Directory!Hold, Held, Cell, Answers
  <1> QED
    BY <1>3 DEF Directory!Next

\* CampaignCache.write maps to Keep.
LEMMA PublishMaps ==
  ASSUME TInv, NEW p \in Task, NEW next,
         \/ pc[p] = "write" /\ next = "idle"
         \/ pc[p] = "fill" /\ next = "serving",
         Publish(p, next)
  PROVE  Directory!Next
  <1> USE DEF Publish, TInv, TypeOK
  <1>1. Held[p] = {rows[p]} /\ Cell' = {rows[p]}
    BY DEF Held, Cell, InWindow, Snapshot
  <1>2. Held' = [Held EXCEPT ![p] = {}]
    BY DEF Held, InWindow
  <1>3. UNCHANGED <<Active(db), Answers>>
    BY DEF Answers
  <1>4. Directory!Keep(p)
    BY <1>1, <1>2, <1>3 DEF Directory!Keep, Held, Cell, Answers
  <1> QED
    BY <1>4 DEF Directory!Next

\* A task that ends or fails maps to Release.
LEMMA ReleaseMaps ==
  ASSUME NEW p \in Task, UNCHANGED <<db, cache>>,
         Held' = [Held EXCEPT ![p] = {}],
         \/ UNCHANGED Answers
         \/ Answers' = [Answers EXCEPT ![p] = {}]
  PROVE  Directory!Next
  <1>1. UNCHANGED <<Active(db), Cell>>
    BY DEF Cell
  <1>2. Directory!Release(p)
    BY <1>1 DEF Directory!Release, Held, Cell, Answers
  <1> QED
    BY <1>2 DEF Directory!Next

\* Abandon is a Release.
LEMMA AbandonMaps ==
  ASSUME TInv, NEW p \in Task, Abandon(p)
  PROVE  Directory!Next
  <1> USE DEF Abandon, TInv, TypeOK
  <1>1. Held' = [Held EXCEPT ![p] = {}]
    BY DEF Held, InWindow
  <1>2. Answers' = [Answers EXCEPT ![p] = {}]
    BY DEF Answers
  <1> QED
    BY <1>1, <1>2, ReleaseMaps

\* The loss of the key maps to Forget.
LEMMA LoseMaps ==
  ASSUME UNCHANGED <<db, Held, Answers>>, Cell' = {}
  PROVE  Directory!Next
  <1>1. Directory!Forget
    BY DEF Directory!Forget, Held, Cell, Answers
  <1> QED
    BY <1>1 DEF Directory!Next

\* Seeding and booting.
LEMMA SeedMaps ==
  ASSUME TInv, TInv', NEW p \in ApiTasks, Boot(p) \/ SeedStep(p)
  PROVE  Directory!Next \/ UNCHANGED Directory!dvars
  <1>0. p \in Task
    BY DEF Task
  <1>1. CASE Boot(p) \/ SeedDone(p)
    <2>1. UNCHANGED <<cache, Held, Answers>>
      BY <1>0, <1>1 DEF Boot, SeedDone, Goto, Held, Answers, InWindow, TInv, TypeOK
    <2> QED
      BY <2>1, StepOfTruth
  <1>2. CASE SeedOne(p)
    <2>1. PICK d \in rows[p] : SeedOne(p)!(d)
      BY <1>2 DEF SeedOne
    <2>2. UNCHANGED <<cache, Held, Answers>>
      BY <1>0, <2>1 DEF Held, Answers, InWindow, TInv, TypeOK
    <2> QED
      BY <2>2, StepOfTruth
  <1>3. CASE SeedFails(p)
    BY <1>0, <1>3, AbandonMaps DEF SeedFails
  <1> QED
    BY <1>1, <1>2, <1>3 DEF SeedStep

\* The refresh steps.
LEMMA RefreshMaps ==
  ASSUME TInv, NEW p \in Task, RefreshStep(p)
  PROVE  Directory!Next
  BY ListMaps, PublishMaps, AbandonMaps
     DEF RefreshStep, ListForRefresh, ListFails, WriteSnapshot, WriteFails

\* The serve path.
LEMMA ServeMaps ==
  ASSUME TInv, TInv', NEW p \in ApiTasks, ServeStart(p) \/ ServeStep(p)
  PROVE  Directory!Next \/ UNCHANGED Directory!dvars
  <1>0. p \in Task
    BY DEF Task
  <1> USE <1>0 DEF Goto, InWindow, TInv, TypeOK
  <1>1. CASE ReadHit(p)
    <2>1. UNCHANGED <<Active(db), Cell, Held>>
      BY <1>1 DEF ReadHit, Cell, Held
    <2>2. Answers[p] = {} /\ Cell = {cache.docs}
      BY <1>1 DEF ReadHit, Answers, Cell
    <2>3. Answers' = [Answers EXCEPT ![p] = Cell]
      BY <1>1, <2>2 DEF ReadHit, Answers
    <2>4. Directory!Answer(p)
      BY <2>1, <2>2, <2>3 DEF Directory!Answer, Held, Cell, Answers
    <2> QED
      BY <2>4 DEF Directory!Next
  <1>2. CASE ReadMiss(p) \/ ReadCorrupt(p) \/ ReadFails(p) \/ ServeListFails(p)
    <2>1. UNCHANGED <<cache, Held, Answers>>
      BY <1>2 DEF ReadMiss, ReadCorrupt, ReadFails, ServeListFails, Held, Answers
    <2> QED
      BY <2>1, StepOfTruth
  <1>3. CASE DropCorrupt(p)
    <2>1. UNCHANGED <<db, Held, Answers>> /\ Cell' = {}
      BY <1>3 DEF DropCorrupt, Lose, Missing, Held, Answers, Cell
    <2> QED
      BY <2>1, LoseMaps
  <1>4. CASE ListForServing(p)
    <2>1. UNCHANGED <<Active(db), Cell, Held>>
      BY <1>4 DEF ListForServing, Cell, Held
    <2>2. Answers[p] = {}
      BY <1>4 DEF ListForServing, Answers
    <2>3. Answers' = [Answers EXCEPT ![p] = {Active(db)}]
      BY <1>4 DEF ListForServing, Answers
    <2>4. Directory!Answer(p)
      BY <2>1, <2>2, <2>3 DEF Directory!Answer, Held, Cell, Answers
    <2> QED
      BY <2>4 DEF Directory!Next
  <1>5. CASE ListForFill(p)
    BY <1>5, ListMaps DEF ListForFill
  <1>6. CASE Fill(p)
    BY <1>6, PublishMaps DEF Fill
  <1>7. CASE FillFails(p)
    <2>1. Held' = [Held EXCEPT ![p] = {}] /\ UNCHANGED Answers
      BY <1>7 DEF FillFails, Held, Answers
    <2> QED
      BY <1>7, <2>1, ReleaseMaps DEF FillFails
  <1>8. CASE EndServe(p)
    <2>1. Held' = [Held EXCEPT ![p] = {}] /\ Answers' = [Answers EXCEPT ![p] = {}]
      BY <1>8 DEF EndServe, Held, Answers
    <2> QED
      BY <1>8, <2>1, ReleaseMaps DEF EndServe
  <1> QED
    BY <1>1, <1>2, <1>3, <1>4, <1>5, <1>6, <1>7, <1>8 DEF ServeStart, ServeStep

\* The environment.
LEMMA EnvironmentMaps ==
  ASSUME TInv, TInv', Environment
  PROVE  Directory!Next \/ UNCHANGED Directory!dvars
  <1>1. CASE Expire \/ SchemaDrift
    <2>1. UNCHANGED <<db, Held, Answers>> /\ Cell' = {}
      BY <1>1 DEF Expire, SchemaDrift, Lose, Missing, Corrupt, Held, Answers, Cell,
                  InWindow
    <2> QED
      BY <2>1, LoseMaps
  <1>2. ASSUME NEW c \in Campaigns, DirectEdit(c)
        PROVE  Directory!Next \/ UNCHANGED Directory!dvars
    <2>1. UNCHANGED <<cache, Held, Answers>>
      BY <1>2 DEF DirectEdit, Held, Answers, InWindow
    <2> QED
      BY <2>1, StepOfTruth
  <1>3. ASSUME NEW p \in Task, Crash(p) PROVE Directory!Next
    BY <1>3, AbandonMaps DEF Crash
  <1> QED
    BY <1>1, <1>2, <1>3 DEF Environment

\* Every step maps to a step or to nothing.
LEMMA StepMaps ==
  ASSUME TInv, TInv', [Next]_vars
  PROVE  Directory!Next \/ UNCHANGED Directory!dvars
  <1>1. ASSUME NEW p \in ApiTasks, Mutation(p)
        PROVE  Directory!Next \/ UNCHANGED Directory!dvars
    BY <1>1, CommitMaps DEF Mutation, Create, Update, Delete
  <1>2. ASSUME NEW p \in ApiTasks, Boot(p) \/ SeedStep(p) \/ ServeStart(p) \/ ServeStep(p)
        PROVE  Directory!Next \/ UNCHANGED Directory!dvars
    BY <1>2, SeedMaps, ServeMaps
  <1>3. ASSUME NEW w \in Workers, StartRefresh(w)
        PROVE  Directory!Next \/ UNCHANGED Directory!dvars
    <2>1. UNCHANGED <<cache, Held, Answers>>
      BY <1>3 DEF StartRefresh, Goto, Held, Answers, InWindow, TInv, TypeOK, Task
    <2> QED
      BY <2>1, StepOfTruth
  <1>4. ASSUME NEW p \in Task, RefreshStep(p) PROVE Directory!Next
    BY <1>4, RefreshMaps
  <1>5. CASE Environment
    BY <1>5, EnvironmentMaps
  <1>6. CASE UNCHANGED vars
    <2>1. UNCHANGED <<cache, Held, Answers>>
      BY <1>6 DEF vars, Held, Answers, InWindow
    <2> QED
      BY <2>1, StepOfTruth
  <1> QED
    BY <1>1, <1>2, <1>3, <1>4, <1>5, <1>6 DEF Next

\* The initial state maps to an initial state.
LEMMA InitMaps == Init => Directory!Init
  BY DEF Init, Directory!Init, Active, Missing, InWindow

\* The detailed cache implements the abstract directory: whatever interleaves
\* and fails, a reader of the key is given the active set of one moment.
THEOREM CacheImplementsDirectory == Spec => ImplementsDirectory
  <1>1. TInv /\ TInv' /\ [Next]_vars => [Directory!Next]_(Directory!dvars)
    BY StepMaps
  <1>2. TInv /\ [Next]_vars => TInv'
    BY NextTInv
  <1> QED
    BY <1>1, <1>2, InitTInv, InitMaps, PTL DEF Spec, Directory!Spec, ImplementsDirectory
=============================================================================
