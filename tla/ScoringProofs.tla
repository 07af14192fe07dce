---------------------------- MODULE ScoringProofs ----------------------------
(***************************************************************************)
(* Scoring for any contexts, buckets, priors and number of ads: types,     *)
(* that the three computations of a bucket never part, and that estimates  *)
(* are rates which follow the evidence.                                    *)
(***************************************************************************)
EXTENDS Scoring, FiniteSetTheorems, WellFoundedInduction, TLAPS

----------------------------------------------------------------------------
(* The three computations of a bucket *)

\* What serve() reads, what load_native has counted and what record_click
\* rebuilds from the stored row are one bucket, whatever the request leaves out.
LEMMA BucketsAgree ==
    ASSUME NEW r
    PROVE  LogBucket(r) = ReadBucket(r) /\ ClickBucket(Row(r)) = ReadBucket(r)
<1>1. LogBucket(r) = ReadBucket(r)
  BY DEF LogBucket, ReadBucket, OrElse, EmptyContext
<1>2. ClickBucket(Row(r)) = ReadBucket(r)
  BY DEF ClickBucket, Row, ReadBucket
<1> QED BY <1>1, <1>2

LEMMA BucketIsKey ==
    ASSUME NEW r \in Request
    PROVE  ReadBucket(r) \in Bucket /\ ReadBucket(r) \in Key /\ ReadBucket(r) # All
BY AllAssumption DEF Bucket, Key

LEMMA SomeRequest == (CHOOSE r \in Request : TRUE) \in Request
<1>1. PICK s \in Systems, p \in Positions : TRUE
  BY RequestAssumption
<1>2. [country |-> Nothing, os |-> s, position |-> p, context |-> Nothing] \in Request
  BY DEF Request
<1> QED BY <1>2

----------------------------------------------------------------------------
(* Counting ads *)

LEMMA Counting ==
    ASSUME NEW S \in SUBSET Impressions, NEW T \in SUBSET Impressions
    PROVE  /\ Cardinality(S) \in Nat
           /\ S \subseteq T => Cardinality(S) <= Cardinality(T)
           /\ \A i \in T : i \notin S /\ S \subseteq T => Cardinality(S) + 1 <= Cardinality(T)
<1>1. IsFiniteSet(S) /\ IsFiniteSet(T)
  BY FiniteAssumption, FS_Subset
<1>2. Cardinality(S) \in Nat
  BY <1>1, FS_CardinalityType
<1>3. S \subseteq T => Cardinality(S) <= Cardinality(T)
  BY <1>1, FS_Subset
<1>4. ASSUME NEW i \in T, i \notin S, S \subseteq T
      PROVE  Cardinality(S) + 1 <= Cardinality(T)
  <2>1. Cardinality(S \cup {i}) = Cardinality(S) + 1
    BY <1>1, <1>4, FS_AddElement
  <2>2. S \cup {i} \subseteq T
    BY <1>4
  <2>3. Cardinality(S \cup {i}) <= Cardinality(T)
    BY <1>1, <2>2, FS_Subset
  <2> QED BY <2>1, <2>3
<1> QED BY <1>2, <1>3, <1>4

----------------------------------------------------------------------------
(* Types *)

Types ==
    /\ ctr \in [Key -> [imp : Nat, clk : Nat]]
    /\ row \in [Impressions -> {"none", "fresh", "clicked"}]
    /\ req \in [Impressions -> Request]

Shown == {i \in Impressions : row[i] # "none"}

\* A bump adds to one field of the bucket and of the global counters, or is lost.
LEMMA BumpImp ==
    ASSUME Types, NEW b \in Bucket, Bump(b, "imp")
    PROVE  /\ ctr' \in [Key -> [imp : Nat, clk : Nat]]
           /\ \A k \in Key :
                /\ ctr'[k].clk = ctr[k].clk
                /\ \/ ctr'[k].imp = ctr[k].imp
                   \/ k \in {b, All} /\ ctr'[k].imp = ctr[k].imp + 1
BY DEF Types, Bump

LEMMA BumpClk ==
    ASSUME Types, NEW b \in Bucket, Bump(b, "clk")
    PROVE  /\ ctr' \in [Key -> [imp : Nat, clk : Nat]]
           /\ \A k \in Key :
                /\ ctr'[k].imp = ctr[k].imp
                /\ \/ ctr'[k].clk = ctr[k].clk
                   \/ k \in {b, All} /\ ctr'[k].clk = ctr[k].clk + 1
BY DEF Types, Bump

\* Counts of an expired key are gone.
LEMMA ExpireFacts ==
    ASSUME Types, NEW e \in Key, Expire(e)
    PROVE  /\ ctr' \in [Key -> [imp : Nat, clk : Nat]]
           /\ \A k \in Key :
                \/ ctr'[k] = ctr[k]
                \/ ctr'[k].imp = 0 /\ ctr'[k].clk = 0
BY DEF Types, Expire, Blank

\* A shown ad was none; its impression goes to the bucket of its request.
LEMMA ShowFacts ==
    ASSUME Types, NEW i \in Impressions, NEW r \in Request, Show(i, r)
    PROVE  /\ Types' /\ Bump(ReadBucket(r), "imp")
           /\ row[i] = "none" /\ row'[i] = "fresh" /\ req'[i] = r
           /\ \A j \in Impressions \ {i} : row'[j] = row[j] /\ req'[j] = req[j]
<1>1. Bump(ReadBucket(r), "imp")
  BY BucketsAgree DEF Show
<1>2. ctr' \in [Key -> [imp : Nat, clk : Nat]]
  BY <1>1, BumpImp, BucketIsKey
<1>3. /\ row' \in [Impressions -> {"none", "fresh", "clicked"}]
      /\ req' \in [Impressions -> Request]
      /\ row[i] = "none" /\ row'[i] = "fresh" /\ req'[i] = r
      /\ \A j \in Impressions \ {i} : row'[j] = row[j] /\ req'[j] = req[j]
  BY DEF Show, Types
<1> QED BY <1>1, <1>2, <1>3 DEF Types

\* A click goes to the bucket of the request that got the ad.
LEMMA ClickFacts ==
    ASSUME Types, NEW i \in Impressions, Click(i)
    PROVE  /\ Types' /\ Bump(ReadBucket(req[i]), "clk") /\ req' = req
           /\ row[i] = "fresh" /\ row'[i] = "clicked"
           /\ \A j \in Impressions \ {i} : row'[j] = row[j]
<1>1. Bump(ReadBucket(req[i]), "clk")
  BY BucketsAgree DEF Click
<1>2. req[i] \in Request
  BY DEF Types
<1>3. ctr' \in [Key -> [imp : Nat, clk : Nat]]
  BY <1>1, <1>2, BumpClk, BucketIsKey
<1>4. /\ row' \in [Impressions -> {"none", "fresh", "clicked"}] /\ req' = req
      /\ row[i] = "fresh" /\ row'[i] = "clicked"
      /\ \A j \in Impressions \ {i} : row'[j] = row[j]
  BY DEF Click, Types
<1> QED BY <1>1, <1>3, <1>4 DEF Types

LEMMA TypesInit == Init => Types
BY SomeRequest DEF Init, Types, Blank

LEMMA TypesNext == Types /\ [Next]_vars => Types'
<1> SUFFICES ASSUME Types, [Next]_vars PROVE Types'
  OBVIOUS
<1>1. ASSUME NEW i \in Impressions, NEW r \in Request, Show(i, r) PROVE Types'
  BY <1>1, ShowFacts
<1>2. ASSUME NEW i \in Impressions, Click(i) PROVE Types'
  BY <1>2, ClickFacts
<1>3. ASSUME NEW k \in Key, Expire(k) PROVE Types'
  BY <1>3, ExpireFacts DEF Expire, Types
<1>4. CASE UNCHANGED vars
  BY <1>4 DEF vars, Types
<1> QED BY <1>1, <1>2, <1>3, <1>4 DEF Next

----------------------------------------------------------------------------
(* What was counted was shown *)

CountsShown == \A k \in Key : ctr[k].imp <= Cardinality(Shown)

LEMMA CountsShownNext == Types /\ CountsShown /\ [Next]_vars => CountsShown'
<1> SUFFICES ASSUME Types, CountsShown, [Next]_vars, NEW k \in Key
             PROVE  ctr'[k].imp <= Cardinality(Shown')
  BY DEF CountsShown
<1>1. Shown \in SUBSET Impressions /\ Shown' \in SUBSET Impressions
  BY DEF Shown
<1>2. /\ ctr[k].imp \in Nat /\ ctr[k].imp <= Cardinality(Shown)
      /\ Cardinality(Shown) \in Nat /\ Cardinality(Shown') \in Nat
  BY <1>1, Counting DEF Types, CountsShown
<1>3. ASSUME NEW i \in Impressions, NEW r \in Request, Show(i, r)
      PROVE  ctr'[k].imp <= Cardinality(Shown')
  <2>1. ctr'[k].imp = ctr[k].imp \/ ctr'[k].imp = ctr[k].imp + 1
    BY <1>3, ShowFacts, BumpImp, BucketIsKey
  <2>2. i \in Shown' /\ i \notin Shown /\ Shown \subseteq Shown'
    BY <1>3, ShowFacts DEF Shown
  <2>3. Cardinality(Shown) + 1 <= Cardinality(Shown')
    BY <1>1, <2>2, Counting
  <2> QED BY <1>2, <2>1, <2>3
<1>4. ASSUME NEW i \in Impressions, Click(i)
      PROVE  ctr'[k].imp <= Cardinality(Shown')
  <2>1. req[i] \in Request
    BY DEF Types
  <2>2. ctr'[k].imp = ctr[k].imp
    BY <1>4, <2>1, ClickFacts, BumpClk, BucketIsKey
  <2>3. Shown \subseteq Shown'
    BY <1>4, ClickFacts DEF Shown
  <2>4. Cardinality(Shown) <= Cardinality(Shown')
    BY <1>1, <2>3, Counting
  <2> QED BY <1>2, <2>2, <2>4
<1>5. ASSUME NEW e \in Key, Expire(e)
      PROVE  ctr'[k].imp <= Cardinality(Shown')
  <2>1. Shown' = Shown
    BY <1>5 DEF Expire, Shown
  <2>2. ctr'[k].imp = ctr[k].imp \/ ctr'[k].imp = 0
    BY <1>5, ExpireFacts
  <2> QED BY <1>2, <2>1, <2>2
<1>6. CASE UNCHANGED vars
  BY <1>2, <1>6 DEF vars, Shown
<1> QED BY <1>3, <1>4, <1>5, <1>6 DEF Next

LEMMA CountsShownInit == Init => CountsShown
<1> SUFFICES ASSUME Init, NEW k \in Key PROVE ctr[k].imp <= Cardinality(Shown)
  BY DEF CountsShown
<1>1. Cardinality(Shown) \in Nat
  BY Counting DEF Shown
<1> QED BY <1>1 DEF Init, Blank

\* Whatever is lost or expires, no key counts more impressions than ads shown.
THEOREM TypeCorrect == Spec => []TypeOK
<1>1. Types /\ CountsShown => TypeOK
  BY DEF Types, CountsShown, TypeOK, Shown
<1> QED
  BY <1>1, TypesInit, TypesNext, CountsShownInit, CountsShownNext, PTL DEF Spec

----------------------------------------------------------------------------
(* Evidence stays in its bucket *)

\* The ads of a bucket's requests, and those of them that were clicked.
Here(b) == {i \in Impressions : row[i] # "none" /\ ReadBucket(req[i]) = b}
Clicked(b) == {i \in Here(b) : row[i] = "clicked"}

LEMMA EvidenceSplit ==
    EvidenceInItsBucket <=>
        \A b \in Bucket : /\ ctr[b].imp <= Cardinality(Here(b))
                          /\ ctr[b].clk <= Cardinality(Clicked(b))
BY DEF EvidenceInItsBucket, Here, Clicked

LEMMA EvidenceInit == Init => EvidenceInItsBucket
<1> SUFFICES ASSUME Init, NEW b \in Bucket
             PROVE  /\ ctr[b].imp <= Cardinality(Here(b))
                    /\ ctr[b].clk <= Cardinality(Clicked(b))
  BY EvidenceSplit
<1>1. Here(b) \in SUBSET Impressions /\ Clicked(b) \in SUBSET Impressions
  BY DEF Here, Clicked
<1>2. Cardinality(Here(b)) \in Nat /\ Cardinality(Clicked(b)) \in Nat
  BY <1>1, Counting
<1> QED BY <1>2 DEF Init, Blank, Key

LEMMA EvidenceNext == Types /\ EvidenceInItsBucket /\ [Next]_vars => EvidenceInItsBucket'
<1> SUFFICES ASSUME Types, EvidenceInItsBucket, [Next]_vars, NEW b \in Bucket
             PROVE  /\ ctr'[b].imp <= Cardinality(Here(b)')
                    /\ ctr'[b].clk <= Cardinality(Clicked(b)')
  BY DEF EvidenceInItsBucket, Here, Clicked
<1>1. /\ Here(b) \in SUBSET Impressions /\ Here(b)' \in SUBSET Impressions
      /\ Clicked(b) \in SUBSET Impressions /\ Clicked(b)' \in SUBSET Impressions
  BY DEF Here, Clicked
<1>2. /\ ctr[b].imp <= Cardinality(Here(b)) /\ ctr[b].clk <= Cardinality(Clicked(b))
      /\ b \in Key /\ b # All
  BY EvidenceSplit, AllAssumption DEF Key
<1>3. /\ ctr[b].imp \in Nat /\ ctr[b].clk \in Nat
      /\ Cardinality(Here(b)) \in Nat /\ Cardinality(Here(b)') \in Nat
      /\ Cardinality(Clicked(b)) \in Nat /\ Cardinality(Clicked(b)') \in Nat
  BY <1>1, <1>2, Counting DEF Types
<1>4. ASSUME NEW i \in Impressions, NEW r \in Request, Show(i, r)
      PROVE  /\ ctr'[b].imp <= Cardinality(Here(b)')
             /\ ctr'[b].clk <= Cardinality(Clicked(b)')
  <2>1. /\ row[i] = "none" /\ row'[i] = "fresh" /\ req'[i] = r
        /\ \A j \in Impressions \ {i} : row'[j] = row[j] /\ req'[j] = req[j]
    BY <1>4, ShowFacts
  <2>2. /\ ctr'[b].clk = ctr[b].clk
        /\ ctr'[b].imp = ctr[b].imp \/ (b = ReadBucket(r) /\ ctr'[b].imp = ctr[b].imp + 1)
    BY <1>2, <1>4, ShowFacts, BumpImp, BucketIsKey
  <2>3. /\ i \notin Here(b) /\ Here(b) \subseteq Here(b)' /\ Clicked(b) \subseteq Clicked(b)'
        /\ b = ReadBucket(r) => i \in Here(b)'
    BY <2>1 DEF Here, Clicked
  <2>4. /\ Cardinality(Here(b)) <= Cardinality(Here(b)')
        /\ Cardinality(Clicked(b)) <= Cardinality(Clicked(b)')
        /\ b = ReadBucket(r) => Cardinality(Here(b)) + 1 <= Cardinality(Here(b)')
    BY <1>1, <2>3, Counting
  <2> QED BY <1>2, <1>3, <2>2, <2>4
<1>5. ASSUME NEW i \in Impressions, Click(i)
      PROVE  /\ ctr'[b].imp <= Cardinality(Here(b)')
             /\ ctr'[b].clk <= Cardinality(Clicked(b)')
  <2>1. /\ row[i] = "fresh" /\ row'[i] = "clicked" /\ req' = req /\ req[i] \in Request
        /\ \A j \in Impressions \ {i} : row'[j] = row[j]
    BY <1>5, ClickFacts DEF Types
  <2>2. /\ ctr'[b].imp = ctr[b].imp
        /\ \/ ctr'[b].clk = ctr[b].clk
           \/ b = ReadBucket(req[i]) /\ ctr'[b].clk = ctr[b].clk + 1
    BY <1>2, <1>5, <2>1, ClickFacts, BumpClk, BucketIsKey
  <2>3. /\ i \notin Clicked(b) /\ Here(b) \subseteq Here(b)' /\ Clicked(b) \subseteq Clicked(b)'
        /\ b = ReadBucket(req[i]) => i \in Clicked(b)'
    BY <2>1 DEF Here, Clicked
  <2>4. /\ Cardinality(Here(b)) <= Cardinality(Here(b)')
        /\ Cardinality(Clicked(b)) <= Cardinality(Clicked(b)')
        /\ b = ReadBucket(req[i]) => Cardinality(Clicked(b)) + 1 <= Cardinality(Clicked(b)')
    BY <1>1, <2>3, Counting
  <2> QED BY <1>2, <1>3, <2>2, <2>4
<1>6. ASSUME NEW e \in Key, Expire(e)
      PROVE  /\ ctr'[b].imp <= Cardinality(Here(b)')
             /\ ctr'[b].clk <= Cardinality(Clicked(b)')
  <2>1. Here(b)' = Here(b) /\ Clicked(b)' = Clicked(b)
    BY <1>6 DEF Expire, Here, Clicked
  <2>2. \/ ctr'[b] = ctr[b]
        \/ ctr'[b].imp = 0 /\ ctr'[b].clk = 0
    BY <1>2, <1>6, ExpireFacts
  <2> QED BY <1>2, <1>3, <2>1, <2>2
<1>7. CASE UNCHANGED vars
  BY <1>2, <1>7 DEF vars, Here, Clicked
<1> QED BY <1>4, <1>5, <1>6, <1>7 DEF Next

\* What the ranker reads for a request is what its impression and its click,
\* days later, are counted under, so no bucket has evidence that its requests
\* did not produce.
THEOREM EvidenceStaysInItsBucket == Spec => []EvidenceInItsBucket
  BY TypesInit, TypesNext, EvidenceInit, EvidenceNext, PTL DEF Spec

----------------------------------------------------------------------------
(* The estimate *)

LEMMA Products ==
    /\ \A a, b \in Int : a * b \in Int
    /\ \A a, b \in Nat \ {0} : a * b \in Nat \ {0}
OBVIOUS

\* The floor keeps either side of the rate above zero, whatever it is given.
LEMMA FlooredPositive ==
    ASSUME NEW n \in Int, NEW unit \in Nat \ {0}
    PROVE  Floored(n, unit) > 0
<1>1. Grain * n \in Int
  BY PriorAssumption, Products
<1> QED BY <1>1 DEF Floored

\* Clicks of a bucket may outnumber its impressions, and a bucket may outlive
\* the global counters: its estimate is a rate strictly between 0 and 1 anyway.
THEOREM EstimatesAreRates == Spec => [](\A b \in Bucket : Alpha(b) > 0 /\ Beta(b) > 0)
<1>1. ASSUME Types, NEW b \in Bucket PROVE Alpha(b) > 0 /\ Beta(b) > 0
  <2>1. /\ ctr[b].imp \in Nat /\ ctr[b].clk \in Nat
        /\ ctr[All].imp \in Nat /\ ctr[All].clk \in Nat
    BY <1>1 DEF Types, Key
  <2>2. /\ PriorTotal \in Nat \ {0} /\ PriorClicks \in Int /\ PriorStrength \in Nat \ {0}
        /\ GlobalStrength \in Int
    BY PriorAssumption
  <2>3. ctr[All].imp + PriorStrength \in Nat \ {0}
    BY <2>1, <2>2
  <2>4. Scale \in Nat \ {0}
    BY <2>2, <2>3, Products DEF Scale
  <2>5. GlobalAlpha \in Int
    <3>1. PriorTotal * ctr[All].clk \in Int /\ PriorClicks * PriorStrength \in Int
      BY <2>1, <2>2, Products
    <3> QED BY <3>1 DEF GlobalAlpha
  <2>6. /\ ctr[b].clk * Scale \in Int /\ GlobalStrength * GlobalAlpha \in Int
        /\ (ctr[b].imp - ctr[b].clk) * Scale \in Int
        /\ GlobalStrength * (Scale - GlobalAlpha) \in Int
    BY <2>1, <2>2, <2>4, <2>5, Products
  <2>7. /\ ctr[b].clk * Scale + GlobalStrength * GlobalAlpha \in Int
        /\ (ctr[b].imp - ctr[b].clk) * Scale + GlobalStrength * (Scale - GlobalAlpha) \in Int
    BY <2>6
  <2> QED BY <2>4, <2>7, FlooredPositive DEF Alpha, Beta
<1>2. Types => \A b \in Bucket : Alpha(b) > 0 /\ Beta(b) > 0
  BY <1>1
<1> QED
  BY <1>2, TypesInit, TypesNext, PTL DEF Spec

----------------------------------------------------------------------------
(* Powers: the library's induction theorems speak of operators, so this one *)
(* speaks of a set                                                          *)

Less == {pair \in Nat \X Nat : pair[1] < pair[2]}

LEMMA LessWellFounded == IsWellFoundedOn(Less, Nat)
BY Zenon, NatLessThanWellFounded DEF OpToRel, Less

LEMMA Induction ==
    ASSUME NEW S \in SUBSET Nat, 0 \in S, \A n \in S : n + 1 \in S
    PROVE  S = Nat
<1> SUFFICES ASSUME Nat \ S # {} PROVE FALSE
  OBVIOUS
<1>1. \A m, n \in Nat : m < n => <<m, n>> \in Less
  BY DEF Less
<1>2. PICK n \in Nat \ S : \A m \in Nat \ S : ~(<<m, n>> \in Less)
  BY LessWellFounded, WFMin
<1>3. n - 1 \in Nat \ S /\ n - 1 < n
  <2>1. n # 0
    OBVIOUS
  <2>2. n - 1 \in Nat /\ (n - 1) + 1 = n
    BY <2>1
  <2> QED BY <2>2
<1> QED BY <1>1, <1>2, <1>3

\* The first powers of a base, and what the function of all of them is.
Raised(base, p, k) == IF k = 0 THEN 1 ELSE base * p[k - 1]
Upto(base, n) == {p \in [0 .. n -> Nat] : \A k \in 0 .. n : p[k] = Raised(base, p, k)}

LEMMA UptoExists == ASSUME NEW base \in Nat PROVE \A n \in Nat : Upto(base, n) # {}
<1> DEFINE S == {n \in Nat : Upto(base, n) # {}}
<1>1. 0 \in S
  <2>1. [k \in 0 .. 0 |-> 1] \in Upto(base, 0)
    BY DEF Upto, Raised
  <2> QED BY <2>1
<1>2. ASSUME NEW n \in S PROVE n + 1 \in S
  <2>1. PICK p \in Upto(base, n) : TRUE
    OBVIOUS
  <2> DEFINE q == [k \in 0 .. n + 1 |-> IF k = n + 1 THEN base * p[n] ELSE p[k]]
  <2>2. n \in Nat /\ p \in [0 .. n -> Nat] /\ \A k \in 0 .. n : p[k] = Raised(base, p, k)
    BY <2>1 DEF Upto
  <2>3. base * p[n] \in Nat
    BY <2>2
  <2>4. q \in [0 .. n + 1 -> Nat]
    BY <2>2, <2>3
  <2>5. ASSUME NEW k \in 0 .. n + 1 PROVE q[k] = Raised(base, q, k)
    <3>1. CASE k = n + 1
      <4>1. q[k] = base * p[n] /\ q[k - 1] = p[n] /\ k # 0
        BY <2>2, <3>1
      <4>2. k - 1 = n
        BY <2>2, <3>1
      <4> QED BY <4>1 DEF Raised
    <3>2. CASE k # n + 1
      <4>1. k \in 0 .. n /\ q[k] = p[k] /\ p[k] = Raised(base, p, k)
        BY <2>2, <3>2
      <4>2. k # 0 => k - 1 \in 0 .. n + 1 /\ k - 1 # n + 1 /\ q[k - 1] = p[k - 1]
        BY <2>2, <4>1
      <4> QED BY <4>1, <4>2 DEF Raised
    <3> QED BY <3>1, <3>2
  <2>6. q \in Upto(base, n + 1)
    BY <2>4, <2>5 DEF Upto
  <2> QED BY <2>2, <2>6
<1> HIDE DEF S
<1>3. S = Nat
  <2>1. S \in SUBSET Nat
    BY DEF S
  <2> QED BY <1>1, <1>2, <2>1, Induction
<1> QED BY <1>3 DEF S

LEMMA UptoAgree ==
    ASSUME NEW base \in Nat, NEW m \in Nat, NEW n \in Nat,
           NEW p \in Upto(base, m), NEW q \in Upto(base, n)
    PROVE  \A k \in 0 .. m \cap 0 .. n : p[k] = q[k]
<1> DEFINE S == {k \in Nat : k \in 0 .. m \cap 0 .. n => p[k] = q[k]}
<1>1. /\ \A k \in 0 .. m : p[k] = Raised(base, p, k)
      /\ \A k \in 0 .. n : q[k] = Raised(base, q, k)
  BY DEF Upto
<1>2. 0 \in S
  BY <1>1 DEF Raised
<1>3. ASSUME NEW k \in S PROVE k + 1 \in S
  <2>1. SUFFICES ASSUME k + 1 \in 0 .. m \cap 0 .. n PROVE p[k + 1] = q[k + 1]
    OBVIOUS
  <2>2. k \in 0 .. m \cap 0 .. n /\ k + 1 # 0 /\ (k + 1) - 1 = k
    BY <2>1
  <2>3. p[k + 1] = base * p[k] /\ q[k + 1] = base * q[k]
    BY <1>1, <2>1, <2>2 DEF Raised
  <2> QED BY <2>2, <2>3
<1>4. S = Nat
  <2> HIDE DEF S
  <2>1. S \in SUBSET Nat
    BY DEF S
  <2> QED BY <1>2, <1>3, <2>1, Induction
<1> QED BY <1>4

\* A positive number has positive powers.
LEMMA PowerPositive ==
    ASSUME NEW base \in Nat \ {0}
    PROVE  \A n \in Nat : Power(base, n) \in Nat \ {0}
<1> DEFINE first(n) == CHOOSE p \in Upto(base, n) : TRUE
           all == [n \in Nat |-> first(n)[n]]
           powers == CHOOSE p : p = [k \in Nat |-> Raised(base, p, k)]
<1>1. ASSUME NEW n \in Nat PROVE all[n] = Raised(base, all, n)
  <2>1. first(n) \in Upto(base, n)
    BY UptoExists
  <2>2. first(n)[n] = Raised(base, first(n), n)
    <3> HIDE DEF first
    <3>1. \A k \in 0 .. n : first(n)[k] = Raised(base, first(n), k)
      BY <2>1 DEF Upto
    <3> QED BY <3>1
  <2>3. CASE n = 0
    BY <2>2, <2>3 DEF Raised
  <2>4. CASE n # 0
    <3>1. n - 1 \in Nat /\ n - 1 \in 0 .. n - 1 /\ n - 1 \in 0 .. n
      BY <2>4
    <3>2. first(n - 1) \in Upto(base, n - 1)
      BY <3>1, UptoExists
    <3>3. first(n)[n - 1] = first(n - 1)[n - 1]
      <4> HIDE DEF first
      <4> QED BY <2>1, <3>1, <3>2, UptoAgree
    <3>4. all[n] = first(n)[n] /\ all[n - 1] = first(n - 1)[n - 1]
      BY <3>1
    <3> HIDE DEF first, all
    <3> QED BY <2>2, <2>4, <3>3, <3>4 DEF Raised
  <2> QED BY <2>3, <2>4
<1>2. all = [k \in Nat |-> Raised(base, all, k)]
  <2>1. all = [n \in Nat |-> all[n]]
    OBVIOUS
  <2> HIDE DEF all
  <2> QED BY <1>1, <2>1
<1>3. powers = [k \in Nat |-> Raised(base, powers, k)]
  <2> HIDE DEF all
  <2> QED BY <1>2
<1>4. \A n \in Nat : Power(base, n) = powers[n]
  BY DEF Power, Raised
<1> HIDE DEF powers
<1> DEFINE S == {n \in Nat : powers[n] \in Nat \ {0}}
<1>5. 0 \in S
  BY <1>3 DEF Raised
<1>6. ASSUME NEW n \in S PROVE n + 1 \in S
  <2>1. powers[n + 1] = base * powers[n]
    <3>1. n + 1 \in Nat /\ n + 1 # 0 /\ (n + 1) - 1 = n
      OBVIOUS
    <3> QED BY <1>3, <3>1 DEF Raised
  <2>2. \A a, b \in Nat \ {0} : a * b \in Nat \ {0}
    OBVIOUS
  <2> QED BY <2>1, <2>2
<1>7. S = Nat
  <2> HIDE DEF S
  <2>1. S \in SUBSET Nat
    BY DEF S
  <2> QED BY <1>5, <1>6, <2>1, Induction
<1> QED BY <1>4, <1>7

----------------------------------------------------------------------------
(* The modifiers *)

LEMMA BidPositive == ASSUME NEW budget \in Nat PROVE Bid(budget) \in Nat \ {0}
<1> DEFINE decades == {k \in 1 .. 6 : 10 ^ k <= 1 + budget \div 100}
<1>1. decades \subseteq 1 .. 6
  OBVIOUS
<1> HIDE DEF decades
<1>2. Cardinality(decades) \in Nat
  <2>1. IsFiniteSet(1 .. 6)
    BY FS_Interval, 1 \in Int, 6 \in Int
  <2>2. IsFiniteSet(decades)
    BY <1>1, <2>1, FS_Subset
  <2> QED BY <2>2, FS_CardinalityType
<1>3. Bid(budget) = 1 + Cardinality(decades)
  BY DEF Bid, decades
<1> QED BY <1>2, <1>3

LEMMA TheLarger ==
    ASSUME NEW m \in Int, NEW n \in Int
    PROVE  Max({m, n}) \in {m, n} /\ Max({m, n}) >= m
BY DEF Max

LEMMA TheSmaller ==
    ASSUME NEW m \in Int, NEW n \in Int
    PROVE  Min({m, n}) \in {m, n}
BY DEF Min

\* Whatever was spent by whatever hour, a tenth of the bid is left.
LEMMA PacingPositive ==
    ASSUME NEW budget \in Nat, NEW spend \in Nat, NEW hour \in Nat
    PROVE  Pacing(budget, spend, hour) \in Nat \ {0}
<1> DEFINE M == Max({1, spend})
           unit == PacingUnit(spend)
           tenth == unit \div 10
           ratio == IF spend = 0 THEN 2 * unit ELSE budget * Max({125 * hour, 3})
<1>1. M \in Nat \ {0}
  <2>1. Max({1, spend}) \in Nat /\ Max({1, spend}) >= 1
    BY TheLarger
  <2> QED BY <2>1
<1>2. unit \in Nat \ {0} /\ tenth \in Nat \ {0}
  <2> HIDE DEF M
  <2>1. unit = 3000 * M
    BY DEF PacingUnit, M
  <2> QED BY <1>1, <2>1
<1>3. ratio \in Int
  <2>1. Max({125 * hour, 3}) \in Int
    <3> DEFINE elapsed == 125 * hour
    <3>1. elapsed \in Int
      OBVIOUS
    <3> HIDE DEF elapsed
    <3>2. 3 \in Int
      OBVIOUS
    <3>3. Max({elapsed, 3}) \in {elapsed, 3}
      BY <3>1, <3>2, TheLarger
    <3> DEFINE larger == Max({elapsed, 3})
    <3>4. larger \in Int
      <4>1. larger = elapsed \/ larger = 3
        BY <3>3
      <4> HIDE DEF larger
      <4> QED BY <3>1, <4>1
    <3> QED BY <3>4 DEF elapsed, larger
  <2> HIDE DEF unit
  <2>2. budget * Max({125 * hour, 3}) \in Int
    BY <2>1, Products
  <2> QED BY <1>2, <2>2
<1> HIDE DEF tenth, ratio, unit
<1>4. Max({tenth, ratio}) \in Int /\ Max({tenth, ratio}) >= tenth
  BY <1>2, <1>3, TheLarger
<1>5. Min({2 * unit, Max({tenth, ratio})}) \in {2 * unit, Max({tenth, ratio})}
  <2> DEFINE larger == Max({tenth, ratio})
             twice == 2 * unit
  <2>1. larger \in Int /\ twice \in Int
    BY <1>2, <1>4
  <2> HIDE DEF larger, twice
  <2>2. Min({twice, larger}) \in {twice, larger}
    BY <2>1, TheSmaller
  <2> QED BY <2>2 DEF larger, twice
<1>6. Min({2 * unit, Max({tenth, ratio})}) \in Nat \ {0}
  BY <1>2, <1>4, <1>5
<1>7. Pacing(budget, spend, hour) \in {unit, tenth, Min({2 * unit, Max({tenth, ratio})})}
  BY DEF Pacing, ratio, tenth, unit
<1> QED BY <1>2, <1>6, <1>7

LEMMA FatiguePositive ==
    ASSUME NEW seen \in Nat, seen < FatigueCap
    PROVE  Fatigue(seen) \in Nat \ {0}
<1>1. FatigueCap - seen \in Nat /\ ~(seen >= FatigueCap)
  BY ModifierAssumption
<1>2. Power(6, seen) \in Nat \ {0} /\ Power(10, FatigueCap - seen) \in Nat \ {0}
  BY <1>1, PowerPositive
<1> QED BY <1>1, <1>2, Products DEF Fatigue

LEMMA CapDecides == CappedIffZero
<1> SUFFICES ASSUME NEW seen \in 0 .. FatigueCap + 1
             PROVE  IF seen >= FatigueCap THEN Weights(seen) = {0}
                    ELSE \A w \in Weights(seen) : w > 0
  BY DEF CappedIffZero
<1>1. FatigueCap \in Nat /\ seen \in Nat
  BY ModifierAssumption
<1>2. ASSUME NEW budget \in Budgets, NEW spend \in Budgets, NEW hour \in {0, 12, 23}
      PROVE  /\ seen >= FatigueCap => Weight(budget, spend, hour, seen) = 0
             /\ seen < FatigueCap => Weight(budget, spend, hour, seen) > 0
  <2>1. /\ Bid(budget) \in Nat \ {0}
        /\ Pacing(budget, spend, hour) \in Nat \ {0}
    BY ModifierAssumption, BidPositive, PacingPositive
  <2>2. Bid(budget) * Pacing(budget, spend, hour) \in Nat \ {0}
    BY <2>1, Products
  <2>3. CASE seen >= FatigueCap
    <3>1. Fatigue(seen) = 0
      BY <2>3 DEF Fatigue
    <3> QED BY <1>1, <2>2, <2>3, <3>1 DEF Weight
  <2>4. CASE seen < FatigueCap
    <3>1. Fatigue(seen) \in Nat \ {0}
      BY <1>1, <2>4, FatiguePositive
    <3>2. Weight(budget, spend, hour, seen) \in Nat \ {0}
      BY <2>2, <3>1, Products DEF Weight
    <3> QED BY <1>1, <2>4, <3>2
  <2> QED BY <1>1, <2>3, <2>4
<1>3. CASE seen >= FatigueCap
  <2>1. Weights(seen) \subseteq {0}
    BY <1>2, <1>3 DEF Weights
  <2>2. PICK budget \in Budgets : TRUE
    BY ModifierAssumption
  <2>3. Weight(budget, budget, 0, seen) \in Weights(seen)
    BY <2>2 DEF Weights
  <2> QED BY <1>3, <2>1, <2>3
<1>4. CASE ~(seen >= FatigueCap)
  BY <1>1, <1>2, <1>4 DEF Weights
<1> QED BY <1>3, <1>4

\* A score is 0 exactly for a capped campaign, whatever its budget, what it has
\* spent and when, and whatever counts were lost.
THEOREM OnlyCappedScoreZero == Spec => []OnlyTheCapZeroes
<1>1. OnlyTheCapZeroes <=> (\A b \in Bucket : Alpha(b) > 0 /\ Beta(b) > 0)
  BY CapDecides DEF OnlyTheCapZeroes
<1> QED
  BY <1>1, EstimatesAreRates, PTL

----------------------------------------------------------------------------
(* Evidence moves the estimate *)

LEMMA Arithmetic ==
    /\ \A a, b, c \in Int : a * (b + c) = a * b + a * c
    /\ \A a, b, c \in Int : a * (b - c) = a * b - a * c
    /\ \A a, b, c \in Int : (a * b) * c = a * (b * c)
    /\ \A a, b \in Int : a * b = b * a
OBVIOUS

LEMMA Order ==
    /\ \A a, b \in Int, c \in Nat : a <= b => a * c <= b * c
    /\ \A a, b \in Int, c \in Nat \ {0} : a * c <= b * c => a <= b
OBVIOUS

LEMMA FlooredMonotone ==
    ASSUME NEW m \in Int, NEW n \in Int, m <= n, NEW unit \in Nat \ {0}
    PROVE  Floored(m, unit) <= Floored(n, unit)
<1>1. Grain \in Nat
  BY PriorAssumption
<1>2. Grain * m <= Grain * n /\ Grain * m \in Int /\ Grain * n \in Int
  BY <1>1, Order, Arithmetic, Products
<1> QED BY <1>2 DEF Floored

LEMMA FlooredScales ==
    ASSUME NEW n \in Int, NEW unit \in Nat \ {0}, NEW k \in Nat \ {0}
    PROVE  Floored(n, unit) * k = Floored(n * k, unit * k)
<1>1. Grain * (n * k) = (Grain * n) * k
  BY PriorAssumption, Arithmetic
<1>2. Grain * n \in Int
  BY PriorAssumption, Products
<1>3. Grain * n >= unit <=> (Grain * n) * k >= unit * k
  BY <1>2, Order
<1> QED BY <1>1, <1>3 DEF Floored

\* Two rates compare as their sides do, over whatever scales these are given.
LEMMA RatesCompare ==
    ASSUME NEW a \in Nat \ {0}, NEW b \in Nat \ {0}, NEW s \in Nat \ {0},
           NEW c \in Nat \ {0}, NEW d \in Nat \ {0}, NEW t \in Nat \ {0},
           c * s <= a * t, b * t <= d * s
    PROVE  c * b <= a * d
<1>1. /\ c * s \in Nat /\ a * t \in Nat /\ b * t \in Nat /\ d * s \in Nat
      /\ c * b \in Nat /\ a * d \in Nat /\ s * t \in Nat \ {0}
  BY Products
<1>2. (c * s) * (b * t) <= (a * t) * (b * t)
  BY <1>1, Order
<1>3. (b * t) * (a * t) <= (d * s) * (a * t)
  BY <1>1, Order
<1>4. (a * t) * (b * t) = (b * t) * (a * t)
  BY <1>1, Arithmetic
<1>5. (c * s) * (b * t) = (c * b) * (s * t)
  OBVIOUS
<1>6. (d * s) * (a * t) = (a * d) * (s * t)
  OBVIOUS
<1>7. (c * b) * (s * t) <= (a * d) * (s * t)
  <2>1. (c * b) * (s * t) \in Int /\ (a * d) * (s * t) \in Int /\ (a * t) * (b * t) \in Int
    BY <1>1, Products
  <2> QED BY <1>2, <1>3, <1>4, <1>5, <1>6, <2>1
<1> QED BY <1>1, <1>7, Order

\* One side of the posterior: n events of the bucket over the scale s, and the
\* campaign's own rate g / s in the weight of the prior.
Side(n, g, s) == Floored(n * s + GlobalStrength * g, s)

\* More events and a higher rate of the campaign make a side no smaller,
\* whatever the scales.
LEMMA SidesCompare ==
    ASSUME NEW m \in Int, NEW n \in Int, m <= n, NEW g \in Int, NEW h \in Int,
           NEW s \in Nat \ {0}, NEW t \in Nat \ {0}, g * t <= h * s
    PROVE  Side(m, g, s) * t <= Side(n, h, t) * s
<1> DEFINE left == m * s + GlobalStrength * g
           right == n * t + GlobalStrength * h
<1>1. GlobalStrength \in Nat
  BY PriorAssumption
<1>2. /\ m * s \in Int /\ n * t \in Int /\ GlobalStrength * g \in Int
      /\ GlobalStrength * h \in Int /\ g * t \in Int /\ h * s \in Int
      /\ s * t \in Nat \ {0} /\ t * s = s * t
  BY <1>1, Products, Arithmetic
<1>3. left \in Int /\ right \in Int
  BY <1>2
<1>4. left * t = m * (s * t) + GlobalStrength * (g * t)
  BY <1>1, <1>2, Arithmetic
<1>5. right * s = n * (s * t) + GlobalStrength * (h * s)
  BY <1>1, <1>2, Arithmetic
<1>6. /\ m * (s * t) <= n * (s * t)
      /\ (g * t) * GlobalStrength <= (h * s) * GlobalStrength
      /\ m * (s * t) \in Int /\ n * (s * t) \in Int
      /\ (g * t) * GlobalStrength \in Int /\ (h * s) * GlobalStrength \in Int
  BY <1>1, <1>2, Order, Products
<1>7. /\ GlobalStrength * (g * t) = (g * t) * GlobalStrength
      /\ GlobalStrength * (h * s) = (h * s) * GlobalStrength
  BY <1>1, <1>2, Arithmetic
<1>8. left * t <= right * s /\ left * t \in Int /\ right * s \in Int
  <2> HIDE DEF left, right
  <2> QED BY <1>4, <1>5, <1>6, <1>7
<1>9. /\ Side(m, g, s) * t = Floored(left * t, s * t)
      /\ Side(n, h, t) * s = Floored(right * s, s * t)
  <2>1. Side(m, g, s) = Floored(left, s) /\ Side(n, h, t) = Floored(right, t)
    BY DEF Side
  <2> HIDE DEF left, right
  <2>2. Floored(left, s) * t = Floored(left * t, s * t)
    BY <1>3, FlooredScales
  <2>3. Floored(right, t) * s = Floored(right * s, t * s)
    BY <1>3, FlooredScales
  <2> QED BY <1>2, <2>1, <2>2, <2>3
<1> HIDE DEF left, right
<1>10. Floored(left * t, s * t) <= Floored(right * s, s * t)
  BY <1>2, <1>8, FlooredMonotone
<1> QED BY <1>9, <1>10

\* Counters are numbers, and so are the sides of every rate.
LEMMA ScaleType ==
    ASSUME Types
    PROVE  Scale \in Nat \ {0} /\ GlobalAlpha \in Nat
<1>1. /\ ctr[All] \in [imp : Nat, clk : Nat]
      /\ PriorTotal \in Nat \ {0} /\ PriorClicks \in Nat /\ PriorStrength \in Nat \ {0}
  BY PriorAssumption DEF Types, Key
<1>2. ctr[All].imp + PriorStrength \in Nat \ {0}
  BY <1>1
<1>3. PriorTotal * ctr[All].clk \in Nat /\ PriorClicks * PriorStrength \in Nat
  BY <1>1
<1> QED BY <1>1, <1>2, <1>3, Products DEF Scale, GlobalAlpha

LEMMA SidePositive ==
    ASSUME NEW n \in Int, NEW g \in Int, NEW s \in Nat \ {0}
    PROVE  Side(n, g, s) \in Nat \ {0}
<1>1. Grain \in Nat \ {0} /\ GlobalStrength \in Int
  BY PriorAssumption
<1>2. n * s + GlobalStrength * g \in Int
  BY <1>1, Products
<1>3. Grain * (n * s + GlobalStrength * g) \in Int
  BY <1>1, <1>2, Products
<1> QED BY <1>3 DEF Side, Floored

\* Both sides of an estimate before and after a step.
LEMMA Estimates ==
    ASSUME Types, Types', NEW b \in Bucket
    PROVE  /\ Alpha(b) = Side(ctr[b].clk, GlobalAlpha, Scale)
           /\ Beta(b) = Side(ctr[b].imp - ctr[b].clk, Scale - GlobalAlpha, Scale)
           /\ Alpha(b)' = Side(ctr'[b].clk, GlobalAlpha', Scale')
           /\ Beta(b)' = Side(ctr'[b].imp - ctr'[b].clk, Scale' - GlobalAlpha', Scale')
           /\ Alpha(b) \in Nat \ {0} /\ Beta(b) \in Nat \ {0}
           /\ Alpha(b)' \in Nat \ {0} /\ Beta(b)' \in Nat \ {0}
           /\ ctr[b].imp \in Nat /\ ctr[b].clk \in Nat
           /\ ctr'[b].imp \in Nat /\ ctr'[b].clk \in Nat
           /\ Scale \in Nat \ {0} /\ GlobalAlpha \in Nat
           /\ Scale' \in Nat \ {0} /\ GlobalAlpha' \in Nat
<1>1. /\ Alpha(b) = Side(ctr[b].clk, GlobalAlpha, Scale)
      /\ Beta(b) = Side(ctr[b].imp - ctr[b].clk, Scale - GlobalAlpha, Scale)
      /\ Alpha(b)' = Side(ctr'[b].clk, GlobalAlpha', Scale')
      /\ Beta(b)' = Side(ctr'[b].imp - ctr'[b].clk, Scale' - GlobalAlpha', Scale')
  BY DEF Alpha, Beta, Side
<1>2. b \in Key /\ All \in Key
  BY DEF Key
<1>3. /\ ctr[b] \in [imp : Nat, clk : Nat] /\ ctr'[b] \in [imp : Nat, clk : Nat]
      /\ ctr'[All] \in [imp : Nat, clk : Nat]
  BY <1>2 DEF Types
<1>4. Scale \in Nat \ {0} /\ GlobalAlpha \in Nat
  BY ScaleType
<1>5. Scale' \in Nat \ {0} /\ GlobalAlpha' \in Nat
  <2>1. PriorTotal \in Nat \ {0} /\ PriorClicks \in Nat /\ PriorStrength \in Nat \ {0}
    BY PriorAssumption
  <2>2. ctr'[All].imp + PriorStrength \in Nat \ {0}
    BY <1>3, <2>1
  <2>3. PriorTotal * ctr'[All].clk \in Nat /\ PriorClicks * PriorStrength \in Nat
    BY <1>3, <2>1
  <2> QED BY <2>1, <2>2, <2>3, Products DEF Scale, GlobalAlpha
<1>6. /\ ctr[b].imp \in Nat /\ ctr[b].clk \in Nat
      /\ ctr'[b].imp \in Nat /\ ctr'[b].clk \in Nat
  BY <1>3
<1>7. Alpha(b) \in Nat \ {0} /\ Beta(b) \in Nat \ {0}
  <2>1. /\ ctr[b].clk \in Int /\ ctr[b].imp - ctr[b].clk \in Int
        /\ GlobalAlpha \in Int /\ Scale - GlobalAlpha \in Int
    BY <1>4, <1>6
  <2>2. Side(ctr[b].clk, GlobalAlpha, Scale) \in Nat \ {0}
    BY <1>4, <2>1, SidePositive
  <2>3. Side(ctr[b].imp - ctr[b].clk, Scale - GlobalAlpha, Scale) \in Nat \ {0}
    BY <1>4, <2>1, SidePositive
  <2> QED BY <1>1, <2>2, <2>3
<1>8. Alpha(b)' \in Nat \ {0} /\ Beta(b)' \in Nat \ {0}
  <2>1. /\ ctr'[b].clk \in Int /\ ctr'[b].imp - ctr'[b].clk \in Int
        /\ GlobalAlpha' \in Int /\ Scale' - GlobalAlpha' \in Int
    BY <1>5, <1>6
  <2>2. Side(ctr'[b].clk, GlobalAlpha', Scale') \in Nat \ {0}
    BY <1>5, <2>1, SidePositive
  <2>3. Side(ctr'[b].imp - ctr'[b].clk, Scale' - GlobalAlpha', Scale') \in Nat \ {0}
    BY <1>5, <2>1, SidePositive
  <2> QED BY <1>1, <2>2, <2>3
<1> QED BY <1>1, <1>4, <1>5, <1>6, <1>7, <1>8

\* A click raises the global rate and at most one bucket's clicks.
LEMMA ClickRaises ==
    ASSUME Types, Types', NEW b \in Bucket,
           ctr'[b].imp = ctr[b].imp, ctr'[b].clk >= ctr[b].clk,
           ctr'[All].imp = ctr[All].imp, ctr'[All].clk = ctr[All].clk + 1
    PROVE  NotLower(b)
<1>1. Scale' = Scale
  BY DEF Scale
<1>2. GlobalAlpha <= GlobalAlpha'
  <2>1. ctr[All] \in [imp : Nat, clk : Nat] /\ PriorTotal \in Nat /\ PriorClicks \in Nat
        /\ PriorStrength \in Nat
    BY PriorAssumption DEF Types, Key
  <2>2. PriorTotal * (ctr[All].clk + 1) = PriorTotal * ctr[All].clk + PriorTotal
    BY <2>1
  <2>3. PriorTotal * ctr[All].clk \in Nat /\ PriorClicks * PriorStrength \in Nat
    BY <2>1
  <2> QED BY <2>1, <2>2, <2>3 DEF GlobalAlpha
<1>3. /\ GlobalAlpha * Scale <= GlobalAlpha' * Scale
      /\ (Scale - GlobalAlpha') * Scale <= (Scale - GlobalAlpha) * Scale
  BY <1>2, Estimates, Order
<1>4. Alpha(b) * Scale <= Alpha(b)' * Scale
  BY <1>1, <1>3, Estimates, SidesCompare
<1>5. Beta(b)' * Scale <= Beta(b) * Scale
  <2>1. /\ ctr'[b].imp - ctr'[b].clk <= ctr[b].imp - ctr[b].clk
        /\ ctr'[b].imp - ctr'[b].clk \in Int /\ ctr[b].imp - ctr[b].clk \in Int
        /\ Scale - GlobalAlpha \in Int /\ Scale - GlobalAlpha' \in Int
        /\ Scale \in Nat \ {0}
    BY Estimates
  <2>2. Side(ctr'[b].imp - ctr'[b].clk, Scale - GlobalAlpha', Scale) * Scale
          <= Side(ctr[b].imp - ctr[b].clk, Scale - GlobalAlpha, Scale) * Scale
    BY <1>3, <2>1, SidesCompare
  <2>3. /\ Beta(b)' = Side(ctr'[b].imp - ctr'[b].clk, Scale - GlobalAlpha', Scale)
        /\ Beta(b) = Side(ctr[b].imp - ctr[b].clk, Scale - GlobalAlpha, Scale)
    BY <1>1, Estimates
  <2> QED BY <2>2, <2>3
<1>6. Alpha(b) * Beta(b)' <= Alpha(b)' * Beta(b)
  BY <1>4, <1>5, Estimates, RatesCompare
<1>7. Alpha(b) * Beta(b)' \in Int /\ Alpha(b)' * Beta(b) \in Int
  BY Estimates, Products
<1> QED BY <1>6, <1>7 DEF NotLower

\* An impression lowers the global rate and adds to at most one bucket.
LEMMA ImpressionLowers ==
    ASSUME Types, Types', NEW b \in Bucket,
           ctr'[b].clk = ctr[b].clk, ctr'[b].imp >= ctr[b].imp,
           ctr'[All].clk = ctr[All].clk, ctr'[All].imp = ctr[All].imp + 1
    PROVE  NotHigher(b)
<1>1. GlobalAlpha' = GlobalAlpha
  BY DEF GlobalAlpha
<1>2. Scale <= Scale'
  <2>1. ctr[All] \in [imp : Nat, clk : Nat] /\ PriorTotal \in Nat /\ PriorStrength \in Nat
    BY PriorAssumption DEF Types, Key
  <2>2. ctr[All].imp + PriorStrength \in Nat
    BY <2>1
  <2>3. Scale' = PriorTotal * (ctr[All].imp + PriorStrength) + PriorTotal
    BY <2>1 DEF Scale
  <2> QED BY <2>1, <2>3, Estimates DEF Scale
<1>3. Scale * GlobalAlpha <= Scale' * GlobalAlpha
  BY <1>2, Estimates, Order
<1>4. /\ GlobalAlpha * Scale = Scale * GlobalAlpha /\ GlobalAlpha * Scale' = Scale' * GlobalAlpha
      /\ Scale' * Scale = Scale * Scale'
      /\ Scale * GlobalAlpha \in Int /\ Scale' * GlobalAlpha \in Int /\ Scale * Scale' \in Int
  BY Estimates, Arithmetic, Products
<1>5. (Scale - GlobalAlpha) * Scale' = Scale * Scale' - Scale' * GlobalAlpha
  BY Estimates
<1>6. (Scale' - GlobalAlpha) * Scale = Scale * Scale' - Scale * GlobalAlpha
  BY Estimates
<1>7. /\ GlobalAlpha' * Scale <= GlobalAlpha * Scale'
      /\ (Scale - GlobalAlpha) * Scale' <= (Scale' - GlobalAlpha') * Scale
  BY <1>1, <1>3, <1>4, <1>5, <1>6
<1>8. Alpha(b)' * Scale <= Alpha(b) * Scale'
  BY <1>7, Estimates, SidesCompare
<1>9. Beta(b) * Scale' <= Beta(b)' * Scale
  <2>1. ctr[b].imp - ctr[b].clk <= ctr'[b].imp - ctr'[b].clk
    BY Estimates
  <2> QED BY <1>7, <2>1, Estimates, SidesCompare
<1>10. Alpha(b)' * Beta(b) <= Alpha(b) * Beta(b)'
  BY <1>8, <1>9, Estimates, RatesCompare
<1> QED BY <1>10 DEF NotHigher

\* A click never lowers an estimate and an impression never raises one, in the
\* bucket it is counted in and, through the campaign's global rate, in all others.
THEOREM EstimatesFollow == Spec => EvidenceMovesEstimate
<1> DEFINE Moves(b) == /\ ctr'[All].clk > ctr[All].clk => NotLower(b)
                       /\ ctr'[All].imp > ctr[All].imp => NotHigher(b)
<1>1. ASSUME Types, Types', [Next]_vars, NEW b \in Bucket PROVE Moves(b)
  <2>1. /\ b \in Key /\ All \in Key
        /\ ctr[All].imp \in Nat /\ ctr[All].clk \in Nat
        /\ ctr'[All].imp \in Nat /\ ctr'[All].clk \in Nat
        /\ ctr[b].imp \in Nat /\ ctr[b].clk \in Nat
    BY <1>1 DEF Types, Key
  <2>2. ASSUME NEW i \in Impressions, NEW r \in Request, Show(i, r) PROVE Moves(b)
    <3>1. /\ \A k \in {b, All} : /\ ctr'[k].clk = ctr[k].clk
                                 /\ \/ ctr'[k].imp = ctr[k].imp
                                    \/ ctr'[k].imp = ctr[k].imp + 1
      BY <1>1, <2>1, <2>2, ShowFacts, BumpImp, BucketIsKey
    <3>2. ~(ctr'[All].clk > ctr[All].clk)
      BY <2>1, <3>1
    <3>3. ASSUME ctr'[All].imp > ctr[All].imp PROVE NotHigher(b)
      <4>1. ctr'[All].imp = ctr[All].imp + 1 /\ ctr'[b].imp >= ctr[b].imp
        BY <2>1, <3>1, <3>3
      <4> QED BY <1>1, <3>1, <4>1, ImpressionLowers
    <3> QED BY <3>2, <3>3
  <2>3. ASSUME NEW i \in Impressions, Click(i) PROVE Moves(b)
    <3>1. req[i] \in Request
      BY <1>1 DEF Types
    <3>2. /\ \A k \in {b, All} : /\ ctr'[k].imp = ctr[k].imp
                                 /\ \/ ctr'[k].clk = ctr[k].clk
                                    \/ ctr'[k].clk = ctr[k].clk + 1
      BY <1>1, <2>1, <2>3, <3>1, ClickFacts, BumpClk, BucketIsKey
    <3>3. ~(ctr'[All].imp > ctr[All].imp)
      BY <2>1, <3>2
    <3>4. ASSUME ctr'[All].clk > ctr[All].clk PROVE NotLower(b)
      <4>1. ctr'[All].clk = ctr[All].clk + 1 /\ ctr'[b].clk >= ctr[b].clk
        BY <2>1, <3>2, <3>4
      <4> QED BY <1>1, <3>2, <4>1, ClickRaises
    <3> QED BY <3>3, <3>4
  <2>4. ASSUME NEW e \in Key, Expire(e) PROVE Moves(b)
    BY <1>1, <2>1, <2>4, ExpireFacts
  <2>5. CASE UNCHANGED vars
    BY <2>1, <2>5 DEF vars
  <2> QED BY <1>1, <2>2, <2>3, <2>4, <2>5 DEF Next
<1>2. Types /\ Types' /\ [Next]_vars =>
        [\A b \in Bucket : Moves(b)]_vars
  BY <1>1
<1> QED
  BY <1>2, TypesInit, TypesNext, PTL DEF Spec, EvidenceMovesEstimate
=============================================================================
