------------------------------ MODULE Scoring ------------------------------
(***************************************************************************)
(* How one campaign's evidence finds its context bucket, and what the      *)
(* bandit makes of it.  Three places of the code compute the bucket of a   *)
(* request on their own: serve() to read the counters, load_native to have *)
(* the impression counted, and record_click from the stored row, possibly  *)
(* days later.  Counts get lost and keys expire one by one, so the clicks  *)
(* of a bucket can outnumber its impressions, and a bucket can outlive the *)
(* campaign's global counters.                                             *)
(*                                                                         *)
(* Rates are fractions of whole numbers, compared by cross-multiplication: *)
(* floating point, and moments between the hours, are left out.            *)
(* When the insert of the row and the bump race is the subject of          *)
(* Impressions, halving that of CounterDecay.                              *)
(***************************************************************************)
EXTENDS Integers, FiniteSetsExt, FiniteSets

CONSTANTS
    Countries, Systems, Categories, Positions,   \* what a request can say
    Nothing,            \* an absent field
    All,                \* the suffix of a campaign's global counters
    Impressions,        \* bounds the ads shown
    PriorClicks, PriorTotal,    \* prior_ctr, as a fraction
    PriorStrength, GlobalStrength,
    Grain,              \* the floor under alpha and beta is 1 / Grain
    FatigueCap,         \* fatigue_cap_per_campaign
    Budgets,            \* what a campaign's daily_budget can be, 0 if it has none
    Faults              \* which failures of the environment may occur

ASSUME NothingAssumption == Nothing \notin Countries \cup Categories
ASSUME PriorAssumption ==
    /\ PriorClicks \in Nat \ {0} /\ PriorTotal \in Nat /\ PriorClicks < PriorTotal
    /\ PriorStrength \in Nat \ {0} /\ GlobalStrength \in Nat \ {0}
    /\ Grain \in Nat \ {0}
ASSUME ModifierAssumption ==
    FatigueCap \in Nat \ {0} /\ Budgets \subseteq Nat /\ Budgets # {}
ASSUME RequestAssumption ==
    Positions \subseteq Nat /\ Positions # {} /\ Systems # {}
ASSUME FiniteAssumption == IsFiniteSet(Impressions)
ASSUME FaultAssumption == Faults \subseteq {"redis", "expire"}

VARIABLES
    ctr,        \* ctr:<campaign>:<bucket>, and the global counters under All
    row,        \* what became of each ad: its row in the serves collection
    req         \* the request it answered

vars == <<ctr, row, req>>

----------------------------------------------------------------------------
(* Requests and their buckets *)

AdContext == [category : Categories \cup {Nothing}, nsfw : BOOLEAN]
Request == [country : Countries \cup {Nothing}, os : Systems,
            position : Positions, context : AdContext \cup {Nothing}]

EmptyContext == [category |-> Nothing, nsfw |-> FALSE]

Band(position) ==
    CASE position <= 0 -> "p0"
      [] position \in 1 .. 2 -> "p1_2"
      [] position \in 3 .. 5 -> "p3_5"
      [] position \in 6 .. 10 -> "p6_10"
      [] position > 10 -> "p11plus"

OrElse(value, default) == IF value = Nothing THEN default ELSE value

\* Case and length of the category are folded away.
ContextBucket(country, os, category, position, nsfw) ==
    [country |-> OrElse(country, "XX"), os |-> os,
     category |-> OrElse(category, "none"), band |-> Band(position), nsfw |-> nsfw]

\* serve(), before it reads the counters: "context or AdContext()".
ReadBucket(r) ==
    LET ctx == OrElse(r.context, EmptyContext)
    IN ContextBucket(r.country, r.os, ctx.category, r.position, ctx.nsfw)

\* load_native, for the background job.
LogBucket(r) ==
    ContextBucket(r.country, r.os,
                  IF r.context = Nothing THEN Nothing ELSE r.context.category,
                  r.position,
                  IF r.context = Nothing THEN FALSE ELSE r.context.nsfw)

\* The fields of the serve row a click can come back to.
Row(r) == [country |-> r.country, os |-> r.os, position |-> r.position,
           context |-> OrElse(r.context, EmptyContext)]

\* Mutant: the click's bucket is built without the nsfw flag.
ClickBucketSafe(doc) ==
    ContextBucket(doc.country, doc.os, doc.context.category, doc.position, FALSE)

\* record_click.
ClickBucket(doc) ==
    ContextBucket(doc.country, doc.os, doc.context.category, doc.position,
                  doc.context.nsfw)

Bucket == {ReadBucket(r) : r \in Request} \cup {LogBucket(r) : r \in Request}
              \cup {ClickBucket(Row(r)) : r \in Request}

ASSUME AllAssumption == All \notin Bucket

Key == Bucket \cup {All}

Blank == [imp |-> 0, clk |-> 0]

Init ==
    /\ ctr = [k \in Key |-> Blank]
    /\ row = [i \in Impressions |-> "none"]
    /\ req \in [Impressions -> {CHOOSE r \in Request : TRUE}]

----------------------------------------------------------------------------
(* The posterior: alpha and beta over the common denominator Scale *)

\* Mutant: no floor under the rate's two sides.
FlooredNot(n, unit) == Grain * n

Floored(n, unit) == IF Grain * n >= unit THEN Grain * n ELSE unit

Scale == PriorTotal * (ctr[All].imp + PriorStrength)
GlobalAlpha == PriorTotal * ctr[All].clk + PriorClicks * PriorStrength

\* Mutant: the two fields of the HMGET are swapped.
AlphaSwapped(b) == Floored(ctr[b].imp * Scale + GlobalStrength * GlobalAlpha, Scale)

Alpha(b) == Floored(ctr[b].clk * Scale + GlobalStrength * GlobalAlpha, Scale)

Beta(b) ==
    Floored((ctr[b].imp - ctr[b].clk) * Scale + GlobalStrength * (Scale - GlobalAlpha),
            Scale)

----------------------------------------------------------------------------
(* The modifiers of the score *)

\* What a multiplier of 1 is where it is a whole number: the least common
\* denominator of hours and thousandths of a day, times the spending.
PacingUnit(spend) == 3000 * Max({1, spend})

\* Mutant: a campaign that has spent its budget is stopped.
PacingStops(budget, spend, hour) ==
    IF budget = 0 THEN PacingUnit(spend)
    ELSE IF spend >= budget THEN 0
    ELSE 2 * PacingUnit(spend)

\* pacing_multiplier, over PacingUnit: 1/10 once the budget is spent, else what
\* the even glide path would have spent by now against what was, from 1/10 to 2.
\* The day's fraction is at least 1/1000, 3 of 3000; an hour is 125 of them.
\* Against a spending of 0, which counts as 1e-6, any glide path is above 2.
Pacing(budget, spend, hour) ==
    LET unit == PacingUnit(spend)
        ratio == IF spend = 0 THEN 2 * unit ELSE budget * Max({125 * hour, 3})
    IN IF budget = 0 THEN unit
       ELSE IF spend >= budget THEN unit \div 10
       ELSE Min({2 * unit, Max({unit \div 10, ratio})})

\* decay ** seen_count, and the power of ten it is a fraction of.
Power(base, n) ==
    LET p[k \in Nat] == IF k = 0 THEN 1 ELSE base * p[k - 1] IN p[n]

\* fatigue_multiplier, over 10 ^ FatigueCap.
Fatigue(seen) ==
    IF seen >= FatigueCap THEN 0 ELSE Power(6, seen) * Power(10, FatigueCap - seen)

\* bid_for: one, and one more per decade of the budget above 100.  The logarithm
\* is rounded down.
Bid(budget) == 1 + Cardinality({k \in 1 .. 6 : 10 ^ k <= 1 + budget \div 100})

\* A score without the explore bonus, which only adds to it, is a bucket's alpha
\* times a weight, over something positive: the weight says whether it is 0.
Weight(budget, spend, hour, seen) ==
    Bid(budget) * Pacing(budget, spend, hour) * Fatigue(seen)

Weights(seen) ==
    {Weight(budget, spend, hour, seen) :
        budget \in Budgets, spend \in Budgets, hour \in {0, 12, 23}}

----------------------------------------------------------------------------
(* Serves and clicks *)

\* record_serve and record_click bump the bucket and the global counters in
\* one pipeline, or the call raises and is logged.
Bump(b, field) ==
    \/ ctr' = [k \in Key |-> IF k \in {b, All} THEN [ctr[k] EXCEPT ![field] = @ + 1]
                             ELSE ctr[k]]
    \/ "redis" \in Faults /\ ctr' = ctr

Show(i, r) ==
    /\ row[i] = "none"
    /\ row' = [row EXCEPT ![i] = "fresh"]
    /\ req' = [req EXCEPT ![i] = r]
    /\ Bump(LogBucket(r), "imp")

\* Mutant: the click counts as a further impression.
ClickCountsImp(i) ==
    /\ row[i] = "fresh"
    /\ row' = [row EXCEPT ![i] = "clicked"]
    /\ Bump(ClickBucket(Row(req[i])), "imp")
    /\ UNCHANGED req

Click(i) ==
    /\ row[i] = "fresh"
    /\ row' = [row EXCEPT ![i] = "clicked"]
    /\ Bump(ClickBucket(Row(req[i])), "clk")
    /\ UNCHANGED req

\* Each key has a time to live of its own.
Expire(k) ==
    /\ "expire" \in Faults /\ ctr[k] # Blank
    /\ ctr' = [ctr EXCEPT ![k] = Blank]
    /\ UNCHANGED <<row, req>>

Next ==
    \/ \E i \in Impressions : Click(i) \/ \E r \in Request : Show(i, r)
    \/ \E k \in Key : Expire(k)

Spec == Init /\ [][Next]_vars

----------------------------------------------------------------------------
(* Properties *)

TypeOK ==
    /\ ctr \in [Key -> [imp : Nat, clk : Nat]]
    /\ row \in [Impressions -> {"none", "fresh", "clicked"}]
    /\ req \in [Impressions -> Request]
    /\ \A k \in Key : ctr[k].imp <= Cardinality({i \in Impressions : row[i] # "none"})

\* The three computations of the bucket agree: what the ranker reads for a
\* request is what its impression and its click, however late, are counted
\* under, so no evidence lands in a bucket whose requests did not produce it.
EvidenceInItsBucket ==
    \A b \in Bucket :
        LET here == {i \in Impressions : row[i] # "none" /\ ReadBucket(req[i]) = b}
        IN /\ ctr[b].imp <= Cardinality(here)
           /\ ctr[b].clk <= Cardinality({i \in here : row[i] = "clicked"})

\* What a budget, its spending and an hour can make of a score.
CappedIffZero ==
    \A seen \in 0 .. FatigueCap + 1 :
        IF seen >= FatigueCap THEN Weights(seen) = {0}
        ELSE \A w \in Weights(seen) : w > 0

\* Whatever was lost or has expired, the estimate of every bucket is a rate
\* strictly between 0 and 1, and no modifier takes a campaign out of the ranking
\* but the cap: "Soft multiplier rather than a hard stop".  A score is 0 exactly
\* for a capped campaign, however much it has spent at whatever hour, which is
\* what puts the capped ones last in the walk of a serve request.
OnlyTheCapZeroes ==
    /\ \A b \in Bucket : Alpha(b) > 0 /\ Beta(b) > 0
    /\ CappedIffZero

\* The estimate of a bucket does not go down, or not up.
NotLower(b) == Alpha(b)' * Beta(b) >= Alpha(b) * Beta(b)'
NotHigher(b) == Alpha(b)' * Beta(b) <= Alpha(b) * Beta(b)'

\* Evidence moves every estimate the right way, in its own bucket and, through
\* the global rate, in all others: a click never lowers one, and an impression
\* never raises one.
EvidenceMovesEstimate ==
    [][\A b \in Bucket :
         /\ ctr'[All].clk > ctr[All].clk => NotLower(b)
         /\ ctr'[All].imp > ctr[All].imp => NotHigher(b)]_vars
=============================================================================
