-------------------------- MODULE ImpressionsProofs --------------------------
(***************************************************************************)
(* Impressions for any number of users, campaigns and serve requests:      *)
(* types, that no ad shown and no row clicked is counted twice, that       *)
(* concurrent requests overshoot the cap by no more than their number, and *)
(* that serving and counting implement the tickets of FrequencyCap.        *)
(***************************************************************************)
EXTENDS Impressions, FiniteSetTheorems, TLAPS

----------------------------------------------------------------------------
(* Counting requests *)

LEMMA Counting ==
    ASSUME NEW S \in SUBSET Impressions, NEW T \in SUBSET Impressions
    PROVE  /\ Cardinality(S) \in Nat
           /\ S \subseteq T => Cardinality(S) <= Cardinality(T)
           /\ \A i \in Impressions :
                /\ T \subseteq S \cup {i} => Cardinality(T) <= Cardinality(S) + 1
                /\ i \in S /\ T \subseteq S \ {i} => Cardinality(T) <= Cardinality(S) - 1
                /\ i \notin S /\ S \cup {i} \subseteq T => Cardinality(S) + 1 <= Cardinality(T)
<1>1. IsFiniteSet(S) /\ IsFiniteSet(T)
  BY FiniteAssumption, FS_Subset
<1>2. Cardinality(S) \in Nat /\ Cardinality(T) \in Nat
  BY <1>1, FS_CardinalityType
<1>3. S \subseteq T => Cardinality(S) <= Cardinality(T)
  BY <1>1, FS_Subset
<1>4. ASSUME NEW i \in Impressions
      PROVE  /\ T \subseteq S \cup {i} => Cardinality(T) <= Cardinality(S) + 1
             /\ i \in S /\ T \subseteq S \ {i} => Cardinality(T) <= Cardinality(S) - 1
             /\ i \notin S /\ S \cup {i} \subseteq T => Cardinality(S) + 1 <= Cardinality(T)
  <2>1. /\ IsFiniteSet(S \cup {i})
        /\ Cardinality(S \cup {i}) = IF i \in S THEN Cardinality(S) ELSE Cardinality(S) + 1
    BY <1>1, FS_AddElement
  <2>2. /\ IsFiniteSet(S \ {i})
        /\ Cardinality(S \ {i}) = IF i \in S THEN Cardinality(S) - 1 ELSE Cardinality(S)
    BY <1>1, FS_RemoveElement
  <2>3. T \subseteq S \cup {i} => Cardinality(T) <= Cardinality(S \cup {i})
    BY <2>1, FS_Subset
  <2>4. T \subseteq S \ {i} => Cardinality(T) <= Cardinality(S \ {i})
    BY <2>2, FS_Subset
  <2>5. S \cup {i} \subseteq T => Cardinality(S \cup {i}) <= Cardinality(T)
    BY <1>1, FS_Subset
  <2>6. T \subseteq S \cup {i} => Cardinality(T) <= Cardinality(S) + 1
    BY <1>2, <2>1, <2>3
  <2>7. i \in S /\ T \subseteq S \ {i} => Cardinality(T) <= Cardinality(S) - 1
    BY <2>2, <2>4
  <2>8. i \notin S /\ S \cup {i} \subseteq T => Cardinality(S) + 1 <= Cardinality(T)
    BY <2>1, <2>5
  <2> QED BY <2>6, <2>7, <2>8
<1> QED BY <1>2, <1>3, <1>4

----------------------------------------------------------------------------
(* The life of a request *)

Types ==
    /\ fatigue \in [Users -> [Campaigns -> Nat]]
    /\ imps \in [Campaigns -> Nat] /\ clks \in [Campaigns -> Nat]
    /\ row \in [Impressions -> {"none", "fresh", "clicked"}]
    /\ phase \in [Impressions -> {"unused", "ranked", "shown", "ended"}]
    /\ user \in [Impressions -> Users]
    /\ below \in [Impressions -> SUBSET Campaigns]
    /\ what \in [Impressions -> {{}} \cup {{c} : c \in Campaigns}]
    /\ ins \in [Impressions -> Job]
    /\ cnt \in [Impressions -> Job]
    /\ clk \in [Impressions -> Job]

\* A request that is not answered has shown nothing, and what showed nothing
\* has no row and no job; a row is inserted once, before its click, and the
\* click's bump is queued when the row becomes clicked.
Lived ==
    \A i \in Impressions :
        /\ phase[i] \in {"unused", "ranked"} => what[i] = {}
        /\ what[i] = {} => /\ row[i] = "none" /\ ins[i] = "none"
                           /\ cnt[i] = "none" /\ clk[i] = "none"
        /\ ins[i] = "todo" => row[i] = "none"
        /\ clk[i] # "none" <=> row[i] = "clicked"

Typed == Types /\ Lived

LEMMA TypedIsTypeOK == Typed => TypeOK
<1> SUFFICES ASSUME Typed PROVE TypeOK
  OBVIOUS
<1>1. ASSUME NEW i \in Impressions, what[i] = {} PROVE {ins[i], cnt[i], clk[i]} = {"none"}
  <2>1. ins[i] = "none" /\ cnt[i] = "none" /\ clk[i] = "none"
    BY <1>1 DEF Typed, Lived
  <2> QED BY <2>1
<1> QED BY <1>1 DEF Typed, Types, TypeOK

LEMMA TypedInit == Init => Typed
BY DEF Init, Typed, Types, Lived, Job

\* The bump adds one to the campaign served and to its user's exposure.
LEMMA BumpFacts ==
    ASSUME Typed, NEW i \in Impressions, Bump(i)
    PROVE  \E c \in Campaigns :
             /\ what[i] = {c}
             /\ imps' \in [Campaigns -> Nat]
             /\ \A d \in Campaigns : imps'[d] = IF d = c THEN imps[d] + 1 ELSE imps[d]
             /\ fatigue' \in [Users -> [Campaigns -> Nat]]
             /\ \A u \in Users, d \in Campaigns :
                  fatigue'[u][d] = IF u = user[i] /\ d = c THEN fatigue[u][d] + 1
                                   ELSE fatigue[u][d]
<1>1. PICK c \in what[i] : /\ imps' = [imps EXCEPT ![c] = @ + 1]
                           /\ fatigue' = [fatigue EXCEPT ![user[i]][c] = @ + 1]
  BY DEF Bump
<1>2. c \in Campaigns /\ what[i] = {c} /\ user[i] \in Users
  BY DEF Typed, Types
<1>3. imps' \in [Campaigns -> Nat]
      /\ \A d \in Campaigns : imps'[d] = IF d = c THEN imps[d] + 1 ELSE imps[d]
  BY <1>1, <1>2 DEF Typed, Types
<1>4. fatigue' = [fatigue EXCEPT ![user[i]] =
                    [fatigue[user[i]] EXCEPT ![c] = fatigue[user[i]][c] + 1]]
  BY <1>1
<1>5. /\ fatigue' \in [Users -> [Campaigns -> Nat]]
      /\ \A u \in Users, d \in Campaigns :
           fatigue'[u][d] = IF u = user[i] /\ d = c THEN fatigue[u][d] + 1
                            ELSE fatigue[u][d]
  BY <1>2, <1>4 DEF Typed, Types
<1> QED BY <1>2, <1>3, <1>5

\* A step of one request leaves the others where they are.
Mine(i) ==
    /\ \/ Rank(i) \/ NoAd(i) \/ \E c \in Campaigns : Serve(i, c)
       \/ Click(i) \/ Crash(i)
    /\ UNCHANGED <<fatigue, imps, clks>>

Counts(i) == RecordServe(i) \/ RecordServeFails(i) \/ RecordClick(i) \/ RecordClickFails(i)

Inserts(i) == InsertRow(i) \/ InsertFails(i)

Others(i) ==
    \A j \in Impressions \ {i} :
        /\ phase'[j] = phase[j] /\ below'[j] = below[j] /\ what'[j] = what[j]
        /\ row'[j] = row[j] /\ ins'[j] = ins[j] /\ cnt'[j] = cnt[j] /\ clk'[j] = clk[j]

Env == (\E u \in Users, c \in Campaigns : Expire(u, c)) \/ Flush

LEMMA Steps == Next => Env \/ \E i \in Impressions : Mine(i) \/ Counts(i) \/ Inserts(i)
BY DEF Next, Background, Env, Mine, Counts, Inserts, Rank, NoAd, Serve, Click, Crash

\* What the environment takes from a counter is gone, and it adds nothing.
LEMMA EnvFacts ==
    ASSUME Typed, Env
    PROVE  /\ fatigue' \in [Users -> [Campaigns -> Nat]]
           /\ imps' \in [Campaigns -> Nat] /\ clks' \in [Campaigns -> Nat]
           /\ \A c \in Campaigns :
                /\ imps'[c] = imps[c] \/ imps'[c] = 0
                /\ clks'[c] = clks[c] \/ clks'[c] = 0
                /\ \A u \in Users : fatigue'[u][c] = fatigue[u][c] \/ fatigue'[u][c] = 0
           /\ UNCHANGED <<row, phase, user, below, what, ins, cnt, clk>>
<1>1. ASSUME NEW u \in Users, NEW c \in Campaigns, Expire(u, c)
      PROVE  /\ fatigue' \in [Users -> [Campaigns -> Nat]]
             /\ \A w \in Users, d \in Campaigns :
                  fatigue'[w][d] = fatigue[w][d] \/ fatigue'[w][d] = 0
  <2>1. fatigue' = [fatigue EXCEPT ![u] = [fatigue[u] EXCEPT ![c] = 0]]
    BY <1>1 DEF Expire
  <2> QED BY <2>1 DEF Typed, Types
<1>2. CASE Flush
  BY <1>2 DEF Flush, Typed, Types
<1>3. ASSUME NEW u \in Users, NEW c \in Campaigns, Expire(u, c)
      PROVE  UNCHANGED <<imps, clks, row, phase, user, below, what, ins, cnt, clk>>
  BY <1>3 DEF Expire
<1>4. imps \in [Campaigns -> Nat] /\ clks \in [Campaigns -> Nat]
  BY DEF Typed, Types
<1>5. CASE \E u \in Users, c \in Campaigns : Expire(u, c)
  BY <1>1, <1>3, <1>4, <1>5
<1> QED BY <1>2, <1>5 DEF Env

LEMMA TypedNext == Typed /\ [Next]_vars => Typed'
<1> SUFFICES ASSUME Typed, [Next]_vars PROVE Typed'
  OBVIOUS
<1>1. ASSUME NEW i \in Impressions, Rank(i) PROVE Typed'
  BY <1>1 DEF Rank, BelowCap, Typed, Types, Lived, Job
<1>2. ASSUME NEW i \in Impressions, NEW c \in Campaigns, Serve(i, c) PROVE Typed'
  <2>1. Types'
    BY <1>2 DEF Serve, Typed, Types, Job
  <2>2. Lived'
    BY <1>2 DEF Serve, Typed, Types, Lived, Job
  <2> QED BY <2>1, <2>2 DEF Typed
<1>3. ASSUME NEW i \in Impressions, NoAd(i) PROVE Typed'
  BY <1>3 DEF NoAd, Typed, Types, Lived, Job
<1>4. ASSUME NEW i \in Impressions, InsertRow(i) PROVE Typed'
  BY <1>4 DEF InsertRow, Typed, Types, Lived, Job
<1>5. ASSUME NEW i \in Impressions, InsertFails(i) PROVE Typed'
  BY <1>5 DEF InsertFails, Typed, Types, Lived, Job
<1>6. ASSUME NEW i \in Impressions, RecordServe(i) \/ RecordServeFails(i) PROVE Typed'
  <2>1. imps' \in [Campaigns -> Nat] /\ fatigue' \in [Users -> [Campaigns -> Nat]]
    BY <1>6, BumpFacts DEF RecordServe, RecordServeFails, Typed, Types
  <2>2. cnt[i] = "todo" /\ \E v \in {"done", "failed"} : cnt' = [cnt EXCEPT ![i] = v]
    BY <1>6 DEF RecordServe, RecordServeFails
  <2>3. cnt' \in [Impressions -> Job]
        /\ \A j \in Impressions : what[j] = {} => cnt'[j] = "none"
    <3>1. PICK v \in {"done", "failed"} : cnt' = [cnt EXCEPT ![i] = v]
      BY <2>2
    <3>2. v \in Job
      BY DEF Job
    <3>3. cnt' \in [Impressions -> Job]
      BY <3>1, <3>2 DEF Typed, Types
    <3>4. what[i] # {}
      BY <2>2 DEF Typed, Lived
    <3>5. \A j \in Impressions \ {i} : cnt'[j] = cnt[j]
      BY <3>1 DEF Typed, Types
    <3> QED BY <3>3, <3>4, <3>5 DEF Typed, Lived
  <2>4. UNCHANGED <<clks, row, phase, user, below, what, ins, clk>>
    BY <1>6 DEF RecordServe, RecordServeFails
  <2> QED BY <2>1, <2>3, <2>4 DEF Typed, Types, Lived
<1>7. ASSUME NEW i \in Impressions, RecordClick(i) \/ RecordClickFails(i) PROVE Typed'
  <2>1. /\ clk[i] = "todo" /\ \E c \in what[i] : clks' \in {clks, [clks EXCEPT ![c] = @ + 1]}
        /\ \E v \in {"done", "failed"} : clk' = [clk EXCEPT ![i] = v]
        /\ UNCHANGED <<fatigue, imps, row, phase, user, below, what, ins, cnt>>
    BY <1>7 DEF RecordClick, RecordClickFails
  <2>2. what[i] \subseteq Campaigns
    BY DEF Typed, Types
  <2>3. clks' \in [Campaigns -> Nat]
    BY <2>1, <2>2 DEF Typed, Types
  <2>4. PICK v \in {"done", "failed"} : clk' = [clk EXCEPT ![i] = v]
    BY <2>1
  <2>5. clk' \in [Impressions -> Job] /\ clk'[i] = v
        /\ \A j \in Impressions \ {i} : clk'[j] = clk[j]
    BY <2>4 DEF Typed, Types, Job
  <2>6. what[i] # {} /\ row[i] = "clicked"
    BY <2>1 DEF Typed, Lived
  <2>7. \A j \in Impressions :
          /\ what[j] = {} => clk'[j] = "none"
          /\ clk'[j] # "none" <=> row[j] = "clicked"
    BY <2>5, <2>6 DEF Typed, Lived
  <2> QED BY <2>1, <2>3, <2>5, <2>7 DEF Typed, Types, Lived
<1>9. ASSUME NEW i \in Impressions, Click(i) PROVE Typed'
  BY <1>9 DEF Click, Typed, Types, Lived, Job
<1>10. ASSUME NEW i \in Impressions, Crash(i) PROVE Typed'
  <2>1. Types'
    BY <1>10 DEF Crash, Typed, Types, Job
  <2>2. Lived'
    BY <1>10 DEF Crash, Typed, Types, Lived, Job
  <2> QED BY <2>1, <2>2 DEF Typed
<1>11. CASE Env
  <2>1. Types'
    BY <1>11, EnvFacts DEF Typed, Types
  <2>2. UNCHANGED <<row, phase, what, ins, cnt, clk>>
    BY <1>11, EnvFacts
  <2> QED BY <2>1, <2>2 DEF Typed, Lived
<1>12. CASE UNCHANGED vars
  BY <1>12 DEF vars, Typed, Types, Lived
<1> QED
  BY <1>1, <1>2, <1>3, <1>4, <1>5, <1>6, <1>7, <1>9, <1>10, <1>11, <1>12,
     Steps DEF Mine, Counts, Inserts

LEMMA TypedAlways == Spec => []Typed
BY TypedInit, TypedNext, PTL DEF Spec

\* Counters are numbers, a request serves one campaign at most, and a request
\* without an ad leaves no background job behind.
THEOREM TypeCorrect == Spec => []TypeOK
BY TypedIsTypeOK, TypedAlways, PTL

----------------------------------------------------------------------------
(* The evidence *)

Settled == {"done", "failed"}

\* The bumps that were tried account for the counters: a bump is tried once.
Counted(c) == {i \in Of(c) : cnt[i] \in Settled}
ClickCounted(c) == {i \in Of(c) : clk[i] \in Settled}

Accounted ==
    \A c \in Campaigns :
        /\ imps[c] <= Cardinality(Counted(c))
        /\ clks[c] <= Cardinality(ClickCounted(c))

LEMMA AccountedInit == Init => Accounted
<1> SUFFICES ASSUME Init, NEW c \in Campaigns
             PROVE  imps[c] <= Cardinality(Counted(c)) /\ clks[c] <= Cardinality(ClickCounted(c))
  BY DEF Accounted
<1>1. imps[c] = 0 /\ clks[c] = 0
  BY DEF Init
<1>2. Counted(c) \in SUBSET Impressions /\ ClickCounted(c) \in SUBSET Impressions
  BY DEF Counted, ClickCounted, Of
<1>3. Cardinality(Counted(c)) \in Nat /\ Cardinality(ClickCounted(c)) \in Nat
  BY <1>2, Counting
<1> QED BY <1>1, <1>3

\* No step but a bump tries one, and no step forgets one.
LEMMA TriedStays ==
    ASSUME Typed, NEW i \in Impressions, Mine(i) \/ Inserts(i)
    PROVE  /\ UNCHANGED <<imps, clks, fatigue, user>>
           /\ \A j \in Impressions :
                /\ what'[j] = what[j] \/ what[j] = {}
                /\ cnt[j] \in Settled => cnt'[j] = cnt[j]
                /\ clk[j] \in Settled => clk'[j] = clk[j]
<1>1. CASE Rank(i) \/ NoAd(i)
  BY <1>1 DEF Rank, NoAd
<1>2. ASSUME NEW c \in Campaigns, Serve(i, c)
      PROVE  /\ UNCHANGED <<imps, clks, fatigue, user, clk>>
             /\ \A j \in Impressions :
                  /\ what'[j] = what[j] \/ what[j] = {}
                  /\ cnt[j] \in Settled => cnt'[j] = cnt[j]
  <2>1. what[i] = {} /\ cnt[i] = "none"
    BY <1>2 DEF Serve, Typed, Lived
  <2>2. \A j \in Impressions \ {i} : what'[j] = what[j] /\ cnt'[j] = cnt[j]
    BY <1>2 DEF Serve, Typed, Types
  <2>3. UNCHANGED <<imps, clks, fatigue, user, clk>>
    BY <1>2 DEF Serve
  <2> QED BY <2>1, <2>2, <2>3 DEF Settled
<1>3. CASE Inserts(i)
  BY <1>3 DEF Inserts, InsertRow, InsertFails
<1>4. CASE Click(i)
  <2>1. clk[i] = "none" /\ \A j \in Impressions \ {i} : clk'[j] = clk[j]
    BY <1>4 DEF Click, Typed, Lived, Types
  <2>2. UNCHANGED <<imps, clks, fatigue, user, what, cnt>>
    BY <1>4 DEF Click
  <2> QED BY <2>1, <2>2 DEF Settled
<1>5. CASE Crash(i)
  <2>1. UNCHANGED <<imps, clks, fatigue, user, what>>
    BY <1>5 DEF Crash
  <2>2. \A j \in Impressions : /\ cnt[j] \in Settled => cnt'[j] = cnt[j]
                               /\ clk[j] \in Settled => clk'[j] = clk[j]
    BY <1>5 DEF Crash, Typed, Types, Settled
  <2> QED BY <2>1, <2>2
<1>6. \/ Rank(i) \/ NoAd(i)
      \/ \E c \in Campaigns : Serve(i, c)
      \/ Inserts(i) \/ Click(i) \/ Crash(i)
  BY DEF Mine
<1>7. CASE \E c \in Campaigns : Serve(i, c)
  BY <1>2, <1>7
<1> QED BY <1>1, <1>3, <1>4, <1>5, <1>6, <1>7

\* A bump of the counters: its job is settled with it.
LEMMA ServeBump ==
    ASSUME Typed, NEW i \in Impressions, RecordServe(i) \/ RecordServeFails(i)
    PROVE  /\ cnt[i] = "todo" /\ cnt'[i] \in Settled
           /\ \A j \in Impressions \ {i} : cnt'[j] = cnt[j]
           /\ Bump(i) \/ UNCHANGED <<imps, fatigue>>
           /\ UNCHANGED <<clks, row, phase, user, below, what, ins, clk>>
<1>1. /\ cnt[i] = "todo" /\ \E v \in Settled : cnt' = [cnt EXCEPT ![i] = v]
      /\ Bump(i) \/ UNCHANGED <<imps, fatigue>>
      /\ UNCHANGED <<clks, row, phase, user, below, what, ins, clk>>
  BY DEF RecordServe, RecordServeFails, Settled
<1>2. PICK v \in Settled : cnt' = [cnt EXCEPT ![i] = v]
  BY <1>1
<1>3. cnt'[i] \in Settled /\ \A j \in Impressions \ {i} : cnt'[j] = cnt[j]
  BY <1>2 DEF Typed, Types
<1> QED BY <1>1, <1>3

LEMMA ClickBump ==
    ASSUME Typed, NEW i \in Impressions, RecordClick(i) \/ RecordClickFails(i)
    PROVE  /\ clk[i] = "todo" /\ clk'[i] \in Settled
           /\ \A j \in Impressions \ {i} : clk'[j] = clk[j]
           /\ \E c \in Campaigns :
                /\ what[i] = {c}
                /\ clks'[c] = clks[c] \/ clks'[c] = clks[c] + 1
                /\ \A d \in Campaigns \ {c} : clks'[d] = clks[d]
           /\ UNCHANGED <<fatigue, imps, row, phase, user, below, what, ins, cnt>>
<1>1. /\ clk[i] = "todo" /\ \E v \in Settled : clk' = [clk EXCEPT ![i] = v]
      /\ \E c \in what[i] : clks' \in {clks, [clks EXCEPT ![c] = @ + 1]}
      /\ UNCHANGED <<fatigue, imps, row, phase, user, below, what, ins, cnt>>
  BY DEF RecordClick, RecordClickFails, Settled
<1>2. PICK v \in Settled : clk' = [clk EXCEPT ![i] = v]
  BY <1>1
<1>3. clk'[i] \in Settled /\ \A j \in Impressions \ {i} : clk'[j] = clk[j]
  BY <1>2 DEF Typed, Types
<1>4. PICK c \in what[i] : clks' \in {clks, [clks EXCEPT ![c] = @ + 1]}
  BY <1>1
<1>5. c \in Campaigns /\ what[i] = {c}
  BY DEF Typed, Types
<1>6. /\ clks'[c] = clks[c] \/ clks'[c] = clks[c] + 1
      /\ \A d \in Campaigns \ {c} : clks'[d] = clks[d]
  BY <1>4, <1>5 DEF Typed, Types
<1> QED BY <1>1, <1>3, <1>5, <1>6

LEMMA AccountedNext == Typed /\ Accounted /\ [Next]_vars => Accounted'
<1> SUFFICES ASSUME Typed, Accounted, [Next]_vars, NEW c \in Campaigns
             PROVE  /\ imps'[c] <= Cardinality(Counted(c)')
                    /\ clks'[c] <= Cardinality(ClickCounted(c)')
  BY DEF Accounted
<1>1. /\ Counted(c) \in SUBSET Impressions /\ Counted(c)' \in SUBSET Impressions
      /\ ClickCounted(c) \in SUBSET Impressions /\ ClickCounted(c)' \in SUBSET Impressions
  BY DEF Counted, ClickCounted, Of
<1>2. /\ Cardinality(Counted(c)) \in Nat /\ Cardinality(Counted(c)') \in Nat
      /\ Cardinality(ClickCounted(c)) \in Nat /\ Cardinality(ClickCounted(c)') \in Nat
  BY <1>1, Counting
<1>3. /\ imps[c] \in Nat /\ clks[c] \in Nat
      /\ imps[c] <= Cardinality(Counted(c)) /\ clks[c] <= Cardinality(ClickCounted(c))
  BY DEF Typed, Types, Accounted
<1>4. /\ Counted(c) \subseteq Counted(c)' => Cardinality(Counted(c)) <= Cardinality(Counted(c)')
      /\ ClickCounted(c) \subseteq ClickCounted(c)'
         => Cardinality(ClickCounted(c)) <= Cardinality(ClickCounted(c)')
      /\ \A i \in Impressions :
           /\ i \notin Counted(c) /\ Counted(c) \cup {i} \subseteq Counted(c)'
              => Cardinality(Counted(c)) + 1 <= Cardinality(Counted(c)')
           /\ i \notin ClickCounted(c) /\ ClickCounted(c) \cup {i} \subseteq ClickCounted(c)'
              => Cardinality(ClickCounted(c)) + 1 <= Cardinality(ClickCounted(c)')
  BY <1>1, Counting
<1>5. ASSUME NEW i \in Impressions, Mine(i) \/ Inserts(i)
      PROVE  /\ imps'[c] <= Cardinality(Counted(c)')
             /\ clks'[c] <= Cardinality(ClickCounted(c)')
  <2>1. \A j \in Impressions : what[j] = {c} => what'[j] = {c}
    BY <1>5, TriedStays
  <2>2. Counted(c) \subseteq Counted(c)'
    BY <1>5, <2>1, TriedStays DEF Counted, Of
  <2>3. ClickCounted(c) \subseteq ClickCounted(c)'
    BY <1>5, <2>1, TriedStays DEF ClickCounted, Of
  <2>4. UNCHANGED <<imps, clks>>
    BY <1>5, TriedStays
  <2> QED BY <1>2, <1>3, <1>4, <2>2, <2>3, <2>4
<1>6. ASSUME NEW i \in Impressions, RecordServe(i) \/ RecordServeFails(i)
      PROVE  /\ imps'[c] <= Cardinality(Counted(c)')
             /\ clks'[c] <= Cardinality(ClickCounted(c)')
  <2>1. /\ cnt[i] = "todo" /\ cnt'[i] \in Settled
        /\ \A j \in Impressions \ {i} : cnt'[j] = cnt[j]
        /\ UNCHANGED <<clks, what, clk>>
    BY <1>6, ServeBump
  <2>2. i \notin Counted(c) /\ Counted(c) \subseteq Counted(c)'
        /\ (what[i] = {c} => Counted(c) \cup {i} \subseteq Counted(c)')
    BY <2>1 DEF Counted, Of, Settled
  <2>3. ClickCounted(c)' = ClickCounted(c)
    BY <2>1 DEF ClickCounted, Of
  <2>4. imps'[c] = imps[c] \/ (imps'[c] = imps[c] + 1 /\ what[i] = {c})
    BY <1>6, ServeBump, BumpFacts
  <2>5. imps'[c] <= Cardinality(Counted(c)')
    BY <1>2, <1>3, <1>4, <2>2, <2>4
  <2> QED BY <1>3, <2>1, <2>3, <2>5
<1>7. ASSUME NEW i \in Impressions, RecordClick(i) \/ RecordClickFails(i)
      PROVE  /\ imps'[c] <= Cardinality(Counted(c)')
             /\ clks'[c] <= Cardinality(ClickCounted(c)')
  <2>1. /\ clk[i] = "todo" /\ clk'[i] \in Settled
        /\ \A j \in Impressions \ {i} : clk'[j] = clk[j]
        /\ UNCHANGED <<imps, what, cnt>>
    BY <1>7, ClickBump
  <2>2. i \notin ClickCounted(c) /\ ClickCounted(c) \subseteq ClickCounted(c)'
        /\ (what[i] = {c} => ClickCounted(c) \cup {i} \subseteq ClickCounted(c)')
    BY <2>1 DEF ClickCounted, Of, Settled
  <2>3. Counted(c)' = Counted(c)
    BY <2>1 DEF Counted, Of
  <2>4. clks'[c] = clks[c] \/ (clks'[c] = clks[c] + 1 /\ what[i] = {c})
    BY <1>7, ClickBump
  <2>5. clks'[c] <= Cardinality(ClickCounted(c)')
    BY <1>2, <1>3, <1>4, <2>2, <2>4
  <2> QED BY <1>3, <2>1, <2>3, <2>5
<1>8. CASE Env \/ UNCHANGED vars
  <2>1. UNCHANGED <<what, cnt, clk>>
    BY <1>8, EnvFacts DEF vars
  <2>2. Counted(c)' = Counted(c) /\ ClickCounted(c)' = ClickCounted(c)
    BY <2>1 DEF Counted, ClickCounted, Of
  <2>3. (imps'[c] = imps[c] \/ imps'[c] = 0) /\ (clks'[c] = clks[c] \/ clks'[c] = 0)
    BY <1>8, EnvFacts DEF vars
  <2> QED BY <1>2, <1>3, <2>2, <2>3
<1> QED BY <1>5, <1>6, <1>7, <1>8, Steps DEF Counts

\* Retried and concurrent click pixels, lost rows and lost bumps never count an
\* event twice: what was counted was tried, and it was tried once for each ad
\* shown, once for each row clicked.
THEOREM EvidenceBounded == Spec => []EvidenceWithinLog
<1>1. Typed /\ Accounted => EvidenceWithinLog
  <2> SUFFICES ASSUME Typed, Accounted, NEW c \in Campaigns
               PROVE  /\ clks[c] <= Cardinality({i \in Of(c) : row[i] = "clicked"})
                      /\ imps[c] <= Cardinality(Of(c))
    BY DEF EvidenceWithinLog
  <2> DEFINE Rows == {i \in Of(c) : row[i] = "clicked"}
  <2>1. /\ Counted(c) \in SUBSET Impressions /\ ClickCounted(c) \in SUBSET Impressions
        /\ Of(c) \in SUBSET Impressions /\ Rows \in SUBSET Impressions
    BY DEF Counted, ClickCounted, Of
  <2>2. Counted(c) \subseteq Of(c)
    BY DEF Counted
  <2>3. ClickCounted(c) \subseteq Rows
    BY DEF ClickCounted, Of, Settled, Typed, Lived
  <2>4. /\ Cardinality(Counted(c)) <= Cardinality(Of(c))
        /\ Cardinality(ClickCounted(c)) <= Cardinality(Rows)
        /\ Cardinality(Counted(c)) \in Nat /\ Cardinality(ClickCounted(c)) \in Nat
        /\ Cardinality(Of(c)) \in Nat /\ Cardinality(Rows) \in Nat
    <3> HIDE DEF Rows
    <3> QED BY <2>1, <2>2, <2>3, Counting
  <2>5. /\ imps[c] <= Cardinality(Counted(c)) /\ clks[c] <= Cardinality(ClickCounted(c))
        /\ imps[c] \in Nat /\ clks[c] \in Nat
    BY DEF Accounted, Typed, Types
  <2>6. imps[c] <= Cardinality(Of(c)) /\ clks[c] <= Cardinality(Rows)
    <3> HIDE DEF Rows
    <3> QED BY <2>4, <2>5
  <2> QED BY <2>6
<1> QED
  BY <1>1, AccountedInit, AccountedNext, TypedAlways, PTL DEF Spec

----------------------------------------------------------------------------
(* The cap *)

Busy == {i \in Impressions : Uncounted(i)}

\* The exposures of a user to a campaign that may still be counted.
Coming(u, c) ==
    {i \in Impressions :
        /\ user[i] = u
        /\ \/ phase[i] = "ranked" /\ c \in below[i]
           \/ cnt[i] = "todo" /\ what[i] = {c}}

\* Whoever is on its way has seen the counter below the cap, so what is counted
\* and what is on its way are bounded together.
Room ==
    /\ Cardinality(Busy) <= Slots
    /\ \A u \in Users, c \in Campaigns :
         fatigue[u][c] + Cardinality(Coming(u, c)) <= Cap - 1 + Slots

LEMMA ComingBusy ==
    /\ Busy \in SUBSET Impressions
    /\ \A u, c : Coming(u, c) \in SUBSET Impressions /\ Coming(u, c) \subseteq Busy
BY DEF Coming, Busy, Uncounted

LEMMA CountingBusy ==
    /\ Cardinality(Busy) \in Nat
    /\ \A u, c : /\ Cardinality(Coming(u, c)) \in Nat
                 /\ Cardinality(Coming(u, c)) <= Cardinality(Busy)
<1>1. Cardinality(Busy) \in Nat
  BY ComingBusy, Counting
<1>2. ASSUME NEW u, NEW c
      PROVE  /\ Cardinality(Coming(u, c)) \in Nat
             /\ Cardinality(Coming(u, c)) <= Cardinality(Busy)
  BY ComingBusy, Counting
<1> QED BY <1>1, <1>2

LEMMA RoomInit == Init => Room
<1> SUFFICES ASSUME Init PROVE Room
  OBVIOUS
<1>1. Busy = {}
  BY DEF Init, Busy, Uncounted
<1>2. Cardinality(Busy) = 0
  BY <1>1, FS_EmptySet
<1>3. \A u \in Users, c \in Campaigns :
        /\ fatigue[u][c] = 0
        /\ Cardinality(Coming(u, c)) \in Nat /\ Cardinality(Coming(u, c)) <= 0
  BY <1>2, CountingBusy DEF Init
<1> QED BY <1>2, <1>3, CapAssumption DEF Room

\* Only a request that ranks becomes uncounted.
LEMMA Leaves ==
    ASSUME Typed, NEW i \in Impressions,
           \/ NoAd(i) \/ \E c \in Campaigns : Serve(i, c)
           \/ Click(i) \/ Crash(i) \/ Inserts(i)
    PROVE  /\ UNCHANGED fatigue
           /\ Busy' \subseteq Busy
           /\ \A u, c : Coming(u, c)' \subseteq Coming(u, c)
<1>1. CASE Click(i) \/ Inserts(i)
  BY <1>1 DEF Click, Inserts, InsertRow, InsertFails, Busy, Coming, Uncounted
<1>2. CASE NoAd(i)
  <2>1. /\ phase'[i] = "ended" /\ \A j \in Impressions \ {i} : phase'[j] = phase[j]
        /\ \A j \in Impressions \ {i} : below'[j] = below[j]
        /\ UNCHANGED <<fatigue, user, what, cnt>>
    BY <1>2 DEF NoAd, Typed, Types
  <2> QED BY <2>1 DEF Busy, Coming, Uncounted
<1>3. CASE Crash(i)
  <2>1. /\ phase'[i] = "ended" /\ \A j \in Impressions \ {i} : phase'[j] = phase[j]
        /\ \A j \in Impressions \ {i} : below'[j] = below[j]
        /\ \A j \in Impressions : cnt'[j] = "todo" => cnt[j] = "todo"
        /\ UNCHANGED <<fatigue, user, what>>
    BY <1>3 DEF Crash, Typed, Types
  <2> QED BY <2>1 DEF Busy, Coming, Uncounted
<1>4. ASSUME NEW d \in Campaigns, Serve(i, d)
      PROVE  /\ UNCHANGED fatigue
             /\ Busy' \subseteq Busy
             /\ \A u, c : Coming(u, c)' \subseteq Coming(u, c)
  <2>1. /\ phase[i] = "ranked" /\ d \in below[i]
        /\ phase'[i] = "shown" /\ what'[i] = {d}
        /\ \A j \in Impressions \ {i} : /\ phase'[j] = phase[j] /\ below'[j] = below[j]
                                        /\ what'[j] = what[j] /\ cnt'[j] = cnt[j]
        /\ UNCHANGED <<fatigue, user>>
    BY <1>4 DEF Serve, Typed, Types
  <2> QED BY <2>1 DEF Busy, Coming, Uncounted
<1>5. CASE \E c \in Campaigns : Serve(i, c)
  BY <1>4, <1>5
<1> QED BY <1>1, <1>2, <1>3, <1>5

LEMMA RoomNext == Typed /\ Room /\ [Next]_vars => Room'
<1> SUFFICES ASSUME Typed, Room, [Next]_vars PROVE Room'
  OBVIOUS
<1> DEFINE RoomFor(u, c) ==
      fatigue'[u][c] + Cardinality(Coming(u, c)') <= Cap - 1 + Slots
<1>1. /\ Cardinality(Busy) \in Nat /\ Cardinality(Busy)' \in Nat
      /\ Cardinality(Busy) <= Slots
      /\ Busy \in SUBSET Impressions /\ Busy' \in SUBSET Impressions
  <2>1. Busy \in SUBSET Impressions /\ Busy' \in SUBSET Impressions
    BY DEF Busy
  <2> QED BY <2>1, Counting DEF Room
<1>2. ASSUME NEW u \in Users, NEW c \in Campaigns
      PROVE  /\ fatigue[u][c] \in Nat
             /\ Cardinality(Coming(u, c)) \in Nat /\ Cardinality(Coming(u, c)') \in Nat
             /\ Cardinality(Coming(u, c)') <= Cardinality(Busy)'
             /\ fatigue[u][c] + Cardinality(Coming(u, c)) <= Cap - 1 + Slots
             /\ Coming(u, c) \in SUBSET Impressions /\ Coming(u, c)' \in SUBSET Impressions
  <2>1. /\ Coming(u, c) \in SUBSET Impressions /\ Coming(u, c)' \in SUBSET Impressions
        /\ Coming(u, c)' \subseteq Busy'
    BY DEF Coming, Busy, Uncounted
  <2>2. /\ Cardinality(Coming(u, c)) \in Nat /\ Cardinality(Coming(u, c)') \in Nat
        /\ Cardinality(Coming(u, c)') <= Cardinality(Busy)'
    BY <1>1, <2>1, Counting
  <2> QED BY <2>1, <2>2 DEF Room, Typed, Types
<1>3. Cap \in Nat \ {0} /\ Slots \in Nat \ {0}
  BY CapAssumption
<1>4. ASSUME Busy' \subseteq Busy PROVE Cardinality(Busy)' <= Slots
  <2>1. Cardinality(Busy)' <= Cardinality(Busy)
    BY <1>1, <1>4, Counting
  <2> QED BY <1>1, <1>3, <2>1
<1>5. ASSUME NEW u \in Users, NEW c \in Campaigns, Coming(u, c)' \subseteq Coming(u, c),
             fatigue'[u][c] = fatigue[u][c]
      PROVE  RoomFor(u, c)
  <2>1. Cardinality(Coming(u, c)') <= Cardinality(Coming(u, c))
    BY <1>2, <1>5, Counting
  <2> QED BY <1>2, <1>3, <1>5, <2>1
<1>6. ASSUME NEW u \in Users, NEW c \in Campaigns, Cardinality(Busy)' <= Slots,
             fatigue'[u][c] \in Nat, fatigue'[u][c] < Cap
      PROVE  RoomFor(u, c)
  BY <1>1, <1>2, <1>3, <1>6
<1>7. ASSUME NEW i \in Impressions, Rank(i) PROVE Room'
  <2>1. /\ below'[i] = BelowCap(user[i]) /\ Cardinality(Busy) < Slots
        /\ \A j \in Impressions \ {i} : phase'[j] = phase[j] /\ below'[j] = below[j]
        /\ UNCHANGED <<fatigue, user, what, cnt>>
    BY <1>7 DEF Rank, Busy, Typed, Types
  <2>2. Busy' \subseteq Busy \cup {i}
    BY <2>1 DEF Busy, Uncounted
  <2>3. Cardinality(Busy)' <= Cardinality(Busy) + 1
    BY <1>1, <2>2, Counting
  <2>4. Cardinality(Busy)' <= Slots
    BY <1>1, <1>3, <2>1, <2>3
  <2>5. ASSUME NEW u \in Users, NEW c \in Campaigns PROVE RoomFor(u, c)
    <3>1. CASE fatigue[u][c] < Cap
      BY <1>2, <1>6, <2>1, <2>4, <3>1
    <3>2. CASE ~(fatigue[u][c] < Cap)
      <4>1. user[i] = u => c \notin below'[i]
        BY <2>1, <3>2 DEF BelowCap
      <4>2. Coming(u, c)' \subseteq Coming(u, c)
        BY <2>1, <4>1 DEF Coming
      <4> QED BY <1>5, <2>1, <4>2
    <3> QED BY <3>1, <3>2
  <2> QED BY <2>4, <2>5 DEF Room
<1>8. ASSUME NEW i \in Impressions,
             \/ NoAd(i) \/ \E c \in Campaigns : Serve(i, c)
             \/ Click(i) \/ Crash(i) \/ Inserts(i)
      PROVE  Room'
  BY <1>4, <1>5, <1>8, Leaves DEF Room
<1>9. ASSUME NEW i \in Impressions, RecordServe(i) \/ RecordServeFails(i) PROVE Room'
  <2>1. /\ cnt[i] = "todo" /\ cnt'[i] # "todo" /\ phase[i] # "ranked"
        /\ \A j \in Impressions \ {i} : cnt'[j] = cnt[j]
        /\ UNCHANGED <<phase, user, below, what>>
    BY <1>9, ServeBump DEF Settled, Typed, Lived
  <2>2. Busy' \subseteq Busy
    BY <2>1 DEF Busy, Uncounted
  <2>3. ASSUME NEW u \in Users, NEW c \in Campaigns PROVE RoomFor(u, c)
    <3>1. Coming(u, c)' \subseteq Coming(u, c) \ {i}
      BY <2>1 DEF Coming
    <3>2. CASE fatigue'[u][c] = fatigue[u][c]
      BY <1>5, <3>1, <3>2
    <3>3. CASE fatigue'[u][c] = fatigue[u][c] + 1 /\ user[i] = u /\ what[i] = {c}
      <4>1. i \in Coming(u, c)
        BY <2>1, <3>3 DEF Coming
      <4>2. Cardinality(Coming(u, c)') <= Cardinality(Coming(u, c)) - 1
        BY <1>2, <3>1, <4>1, Counting
      <4> QED BY <1>2, <1>3, <3>3, <4>2
    <3> QED BY <1>9, <3>2, <3>3, ServeBump, BumpFacts
  <2> QED BY <1>4, <2>2, <2>3 DEF Room
<1>10. ASSUME NEW i \in Impressions, RecordClick(i) \/ RecordClickFails(i) PROVE Room'
  <2>1. UNCHANGED <<fatigue, phase, user, below, what, cnt>>
    BY <1>10, ClickBump
  <2>2. Busy' = Busy /\ \A u, c : Coming(u, c)' = Coming(u, c)
    BY <2>1 DEF Busy, Coming, Uncounted
  <2> QED BY <1>4, <1>5, <2>1, <2>2 DEF Room
<1>11. CASE Env \/ UNCHANGED vars
  <2>1. UNCHANGED <<phase, user, below, what, cnt>>
    BY <1>11, EnvFacts DEF vars
  <2>2. Busy' = Busy /\ \A u, c : Coming(u, c)' = Coming(u, c)
    BY <2>1 DEF Busy, Coming, Uncounted
  <2>3. Cardinality(Busy)' <= Slots
    BY <1>4, <2>2
  <2>4. ASSUME NEW u \in Users, NEW c \in Campaigns PROVE RoomFor(u, c)
    <3>1. fatigue'[u][c] = fatigue[u][c] \/ fatigue'[u][c] = 0
      BY <1>11, EnvFacts DEF vars
    <3>2. CASE fatigue'[u][c] = fatigue[u][c]
      BY <1>5, <2>2, <3>2
    <3>3. CASE fatigue'[u][c] = 0
      BY <1>3, <1>6, <2>3, <3>3
    <3> QED BY <3>1, <3>2, <3>3
  <2> QED BY <2>3, <2>4 DEF Room
<1> QED
  BY <1>7, <1>8, <1>9, <1>10, <1>11, Steps DEF Mine, Counts

\* The cap is soft by exactly the serve requests under way: however requests,
\* lost bumps, crashes and expiries interleave, the exposures counted in a
\* window stay below the cap plus the requests that could be under way at once.
THEOREM CapSoftByConcurrency == Spec => []OvershootBounded
<1>1. Typed /\ Room => OvershootBounded
  <2> SUFFICES ASSUME Typed, Room, NEW u \in Users, NEW c \in Campaigns
               PROVE  fatigue[u][c] <= Cap - 1 + Slots
    BY DEF OvershootBounded
  <2>1. fatigue[u][c] \in Nat /\ Cardinality(Coming(u, c)) \in Nat
        /\ fatigue[u][c] + Cardinality(Coming(u, c)) <= Cap - 1 + Slots
    BY CountingBusy DEF Typed, Types, Room
  <2> QED BY <2>1, CapAssumption
<1> QED
  BY <1>1, RoomInit, RoomNext, TypedAlways, PTL DEF Spec

----------------------------------------------------------------------------
(* The refinement: what a request may still add to the exposure counts are *)
(* its tickets.                                                            *)

\* The two mapped variables that are not just renamed, as abbreviations.
Asked == {i \in Impressions : phase[i] # "unused"}
Tickets == [i \in Impressions |-> MayExpose(i)]

\* A step that changes the tickets of one request.
LEMMA OneTicket ==
    ASSUME NEW i \in Impressions, NEW X, MayExpose(i)' = X,
           \A j \in Impressions \ {i} : MayExpose(j)' = MayExpose(j)
    PROVE  Tickets' = [Tickets EXCEPT ![i] = X]
BY DEF Tickets

\* The tickets of a request depend on its own state.
LEMMA TicketsApart ==
    ASSUME NEW i \in Impressions,
           \A j \in Impressions \ {i} :
             /\ user'[j] = user[j] /\ phase'[j] = phase[j] /\ below'[j] = below[j]
             /\ what'[j] = what[j] /\ cnt'[j] = cnt[j]
    PROVE  \A j \in Impressions \ {i} : MayExpose(j)' = MayExpose(j)
BY DEF MayExpose

\* Whoever gives up its tickets, or never had any, gives them up.
LEMMA GivesUp ==
    ASSUME NEW i \in Impressions, MayExpose(i)' = {},
           \A j \in Impressions \ {i} : MayExpose(j)' = MayExpose(j),
           UNCHANGED fatigue, UNCHANGED Asked
    PROVE  Ticketed!Next
<1>1. Tickets' = [Tickets EXCEPT ![i] = {}]
  BY OneTicket
<1>2. Ticketed!GiveUp(i)
  BY <1>1 DEF Ticketed!GiveUp, Asked, Tickets
<1> QED BY <1>2 DEF Ticketed!Next

\* The instance brings a Cardinality of its own, defined alike.
LEMMA SameCardinality == \A S : Ticketed!Cardinality(S) = Cardinality(S)
BY DEF Ticketed!Cardinality, Cardinality

\* Ranking: the candidates below the cap are tickets for one moment's counts.
LEMMA RankAsks ==
    ASSUME Typed, NEW i \in Impressions, Rank(i)
    PROVE  Ticketed!Next
<1>1. /\ phase[i] = "unused" /\ phase'[i] = "ranked" /\ cnt[i] = "none"
      /\ below'[i] = BelowCap(user[i])
      /\ \A j \in Impressions \ {i} : phase'[j] = phase[j] /\ below'[j] = below[j]
      /\ UNCHANGED <<fatigue, user, what, cnt>>
  BY DEF Rank, Typed, Types, Lived
<1>2. user[i] \in Users
  BY DEF Typed, Types
<1>3. Asked' = Asked \cup {i} /\ i \notin Asked
  BY <1>1 DEF Asked
<1>4. Cardinality({j \in Impressions : Tickets[j] # {}}) < Slots
  <2> DEFINE H == {j \in Impressions : Tickets[j] # {}}
  <2>1. H \in SUBSET Impressions /\ Busy \in SUBSET Impressions /\ H \subseteq Busy
    BY DEF Busy, Tickets, MayExpose, Uncounted
  <2>2. Cardinality(Busy) < Slots
    BY DEF Rank, Busy
  <2>3. Cardinality(H) \in Nat /\ Cardinality(Busy) \in Nat
        /\ Cardinality(H) <= Cardinality(Busy)
    <3> HIDE DEF H
    <3> QED BY <2>1, Counting
  <2>4. Cardinality(H) < Slots
    <3> HIDE DEF H
    <3> QED BY <2>2, <2>3, CapAssumption
  <2> QED BY <2>4
<1>5. MayExpose(i)' = {e \in Users \X Campaigns : e[1] = user[i] /\ fatigue[user[i]][e[2]] < Cap}
  <2>1. MayExpose(i)' = {user[i]} \X BelowCap(user[i])
    BY <1>1 DEF MayExpose
  <2> QED BY <1>2, <2>1 DEF BelowCap
<1>6. Tickets' = [Tickets EXCEPT ![i] =
                   {e \in Users \X Campaigns : e[1] = user[i] /\ fatigue[user[i]][e[2]] < Cap}]
  BY <1>1, <1>5, OneTicket, TicketsApart
<1>7. Ticketed!Ask(i)
  BY <1>1, <1>2, <1>3, <1>4, <1>6, SameCardinality
     DEF Ticketed!Ask, Ticketed!Holders, Ticketed!Exposure, Asked, Tickets
<1> QED BY <1>7 DEF Ticketed!Next

\* Serving: one of the tickets is kept.
LEMMA ServeChooses ==
    ASSUME Typed, NEW i \in Impressions, NEW c \in Campaigns, Serve(i, c)
    PROVE  Ticketed!Next
<1>1. /\ phase[i] = "ranked" /\ c \in below[i]
      /\ phase'[i] = "shown" /\ what'[i] = {c} /\ cnt'[i] = "todo"
      /\ \A j \in Impressions \ {i} : /\ phase'[j] = phase[j] /\ below'[j] = below[j]
                                      /\ what'[j] = what[j] /\ cnt'[j] = cnt[j]
      /\ UNCHANGED <<fatigue, user>>
  BY DEF Serve, Typed, Types
<1>2. <<user[i], c>> \in MayExpose(i)
  BY <1>1 DEF MayExpose
<1>3. MayExpose(i)' = {<<user[i], c>>}
  BY <1>1 DEF MayExpose
<1>4. Tickets' = [Tickets EXCEPT ![i] = {<<user[i], c>>}]
  BY <1>1, <1>3, OneTicket, TicketsApart
<1>5. UNCHANGED Asked
  BY <1>1 DEF Asked
<1>6. Ticketed!Choose(i)
  BY <1>1, <1>2, <1>4, <1>5 DEF Ticketed!Choose, Asked, Tickets
<1> QED BY <1>6 DEF Ticketed!Next

\* No ad, and a crash: whatever tickets there were are lost.
LEMMA EndGivesUp ==
    ASSUME Typed, NEW i \in Impressions, NoAd(i) \/ Crash(i)
    PROVE  Ticketed!Next
<1>1. /\ phase[i] # "unused" /\ phase'[i] = "ended" /\ cnt'[i] # "todo"
      /\ \A j \in Impressions \ {i} : /\ phase'[j] = phase[j] /\ below'[j] = below[j]
                                      /\ cnt'[j] = cnt[j]
      /\ UNCHANGED <<fatigue, user, what>>
  <2>1. CASE NoAd(i)
    BY <2>1 DEF NoAd, Typed, Types, Lived
  <2>2. CASE Crash(i)
    <3>1. phase[i] # "unused"
      BY <2>2 DEF Crash, Typed, Lived
    <3>2. /\ phase'[i] = "ended" /\ cnt'[i] # "todo"
          /\ \A j \in Impressions \ {i} : /\ phase'[j] = phase[j] /\ below'[j] = below[j]
                                          /\ cnt'[j] = cnt[j]
      BY <2>2 DEF Crash, Typed, Types
    <3>3. UNCHANGED <<fatigue, user, what>>
      BY <2>2 DEF Crash
    <3> QED BY <3>1, <3>2, <3>3
  <2> QED BY <2>1, <2>2
<1>2. MayExpose(i)' = {}
  BY <1>1 DEF MayExpose
<1>3. UNCHANGED Asked
  BY <1>1 DEF Asked
<1> QED BY <1>1, <1>2, <1>3, GivesUp, TicketsApart

\* The bump spends the ticket; a bump that raised may have been applied.
LEMMA BumpSpends ==
    ASSUME Typed, NEW i \in Impressions, RecordServe(i) \/ RecordServeFails(i)
    PROVE  Ticketed!Next
<1>1. /\ cnt[i] = "todo" /\ cnt'[i] # "todo" /\ phase[i] # "ranked"
      /\ \A j \in Impressions \ {i} : cnt'[j] = cnt[j]
      /\ Bump(i) \/ UNCHANGED <<imps, fatigue>>
      /\ UNCHANGED <<phase, user, below, what>>
  BY ServeBump DEF Settled, Typed, Lived
<1>2. MayExpose(i)' = {} /\ \A j \in Impressions \ {i} : MayExpose(j)' = MayExpose(j)
  BY <1>1, TicketsApart DEF MayExpose
<1>3. UNCHANGED Asked
  BY <1>1 DEF Asked
<1>4. CASE Bump(i)
  <2>1. PICK c \in what[i] : fatigue' = [fatigue EXCEPT ![user[i]][c] = @ + 1]
    BY <1>4 DEF Bump
  <2>2. what[i] = {c}
    BY DEF Typed, Types
  <2>3. MayExpose(i) = {<<user[i], c>>}
    BY <1>1, <2>2 DEF MayExpose
  <2>4. Tickets' = [Tickets EXCEPT ![i] = {}]
    BY <1>2, OneTicket
  <2>5. Ticketed!Spend(i)
    <3>1. <<user[i], c>> \in Tickets[i] /\ Tickets[i] = {<<user[i], c>>}
      BY <2>3 DEF Tickets
    <3>2. fatigue' = [fatigue EXCEPT ![<<user[i], c>>[1]][<<user[i], c>>[2]] = @ + 1]
      BY <2>1
    <3> QED BY <1>3, <2>4, <3>1, <3>2 DEF Ticketed!Spend, Asked, Tickets
  <2> QED BY <2>5 DEF Ticketed!Next
<1>5. CASE UNCHANGED <<imps, fatigue>>
  BY <1>2, <1>3, <1>5, GivesUp
<1> QED BY <1>1, <1>4, <1>5

\* Rows, clicks and their bumps touch neither counts nor tickets.
LEMMA ElsewhereStutters ==
    ASSUME Typed, NEW i \in Impressions,
           Click(i) \/ Inserts(i) \/ RecordClick(i) \/ RecordClickFails(i)
    PROVE  UNCHANGED Ticketed!cvars
<1>1. UNCHANGED <<fatigue, phase, user, below, what, cnt>>
  BY DEF Click, Inserts, InsertRow, InsertFails, RecordClick, RecordClickFails
<1>2. \A j \in Impressions : MayExpose(j)' = MayExpose(j)
  BY <1>1 DEF MayExpose
<1>3. UNCHANGED <<fatigue, Asked, Tickets>>
  BY <1>1, <1>2 DEF Asked, Tickets
<1> QED BY <1>3 DEF Ticketed!cvars, Asked, Tickets

\* A counter that expires, and a flush, forget exposures and no ticket.
LEMMA EnvForgets ==
    ASSUME Typed, Env
    PROVE  Ticketed!Next
<1> DEFINE Gone == {e \in Users \X Campaigns : fatigue'[e[1]][e[2]] = 0}
<1>1. /\ fatigue' \in [Users -> [Campaigns -> Nat]]
      /\ \A u \in Users, c \in Campaigns : fatigue'[u][c] = fatigue[u][c] \/ fatigue'[u][c] = 0
      /\ UNCHANGED <<phase, user, below, what, cnt>>
  BY EnvFacts
<1>2. fatigue' = [u \in Users |-> [c \in Campaigns |->
                    IF <<u, c>> \in Gone THEN 0 ELSE fatigue[u][c]]]
  <2>1. \A u \in Users, c \in Campaigns :
          fatigue'[u][c] = IF <<u, c>> \in Gone THEN 0 ELSE fatigue[u][c]
    BY <1>1
  <2> HIDE DEF Gone
  <2> QED BY <1>1, <2>1
<1>3. \A j \in Impressions : MayExpose(j)' = MayExpose(j)
  BY <1>1 DEF MayExpose
<1>4. UNCHANGED <<Asked, Tickets>>
  BY <1>1, <1>3 DEF Asked, Tickets
<1>5. Gone \in SUBSET (Users \X Campaigns)
  OBVIOUS
<1>6. Ticketed!Forget
  <2> HIDE DEF Gone
  <2> QED BY <1>2, <1>4, <1>5 DEF Ticketed!Forget, Ticketed!Exposure, Asked, Tickets
<1> QED BY <1>6 DEF Ticketed!Next

LEMMA StepMaps == Typed /\ [Next]_vars => [Ticketed!Next]_(Ticketed!cvars)
<1> SUFFICES ASSUME Typed, [Next]_vars PROVE Ticketed!Next \/ UNCHANGED Ticketed!cvars
  OBVIOUS
<1>1. ASSUME NEW i \in Impressions, Mine(i)
      PROVE  Ticketed!Next \/ UNCHANGED Ticketed!cvars
  <2>1. CASE \E c \in Campaigns : Serve(i, c)
    BY <2>1, ServeChooses
  <2> QED BY <1>1, <2>1, RankAsks, EndGivesUp, ElsewhereStutters DEF Mine
<1>2. ASSUME NEW i \in Impressions, Counts(i) \/ Inserts(i)
      PROVE  Ticketed!Next \/ UNCHANGED Ticketed!cvars
  BY <1>2, BumpSpends, ElsewhereStutters DEF Counts
<1>3. CASE UNCHANGED vars
  <2>1. UNCHANGED <<fatigue, Asked, Tickets>>
    BY <1>3 DEF vars, Asked, Tickets, MayExpose
  <2> QED BY <2>1 DEF Ticketed!cvars, Asked, Tickets
<1> QED BY <1>1, <1>2, <1>3, Steps, EnvForgets

LEMMA InitMaps == Init => Ticketed!Init
<1> SUFFICES ASSUME Init PROVE Ticketed!Init
  OBVIOUS
<1>1. \A i \in Impressions : MayExpose(i) = {}
  BY DEF Init, MayExpose
<1>2. Tickets = [i \in Impressions |-> {}]
  BY <1>1 DEF Tickets
<1>3. Asked = {}
  BY DEF Init, Asked
<1> QED BY <1>2, <1>3 DEF Init, Ticketed!Init, Asked, Tickets

\* Reading the counts, ranking, answering and counting in the background are
\* steps apart, and each can fail or be lost; to the exposure counts each
\* request took its tickets at one moment and spent at most one, once.
THEOREM ServingImplementsCap == Spec => ImplementsCap
<1>1. Typed /\ [Next]_vars => [Ticketed!Next]_(Ticketed!cvars)
  BY StepMaps
<1> QED
  BY <1>1, InitMaps, TypedAlways, PTL DEF Spec, Ticketed!Spec, ImplementsCap
=============================================================================
