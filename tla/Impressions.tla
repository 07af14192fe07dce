----------------------------- MODULE Impressions -----------------------------
(***************************************************************************)
(* The life of an impression: the serve request reads the user's exposure  *)
(* counts and picks a campaign under the frequency cap; the response goes  *)
(* out; only then, in the background, the serve row is inserted in Mongo   *)
(* and the Redis counters are bumped, side by side; later the creative     *)
(* reports clicks, once or several times.                                  *)
(*                                                                         *)
(* Scores only order the candidates, so the pick is any candidate below    *)
(* the cap.  One pipeline bumps the bucket's and the campaign's global     *)
(* counter together, so a single count per campaign stands for both;       *)
(* halving them is the business of the counter decay.                      *)
(***************************************************************************)
EXTENDS Naturals, FiniteSets

CONSTANTS
    Users,
    Campaigns,
    Impressions,    \* impression ids; bounds the number of serve requests
    Cap,            \* fatigue_cap_per_campaign
    Slots,          \* serve requests whose exposure may be uncounted at once
    Faults          \* which failures of the environment may occur

ASSUME CapAssumption == Cap \in Nat \ {0} /\ Slots \in Nat \ {0}
ASSUME FiniteAssumption == IsFiniteSet(Impressions)
ASSUME FaultAssumption == Faults \subseteq {"redis", "mongo", "crash", "flush"}

VARIABLES
    fatigue,    \* fatigue:<user>:<campaign>
    imps,       \* impressions counted for a campaign
    clks,       \* clicks counted for a campaign
    row,        \* the serves collection
    phase,      \* where each serve request is
    user,       \* whom it serves
    below,      \* the candidates it saw below the cap
    what,       \* the campaign it served: a set of at most one
    ins,        \* its background insert of the row
    cnt,        \* its background bump of the counters
    clk         \* the bump that follows its first click

vars == <<fatigue, imps, clks, row, phase, user, below, what, ins, cnt, clk>>

Job == {"none", "todo", "done", "failed"}

Init ==
    /\ fatigue = [u \in Users |-> [c \in Campaigns |-> 0]]
    /\ imps = [c \in Campaigns |-> 0]
    /\ clks = [c \in Campaigns |-> 0]
    /\ row = [i \in Impressions |-> "none"]
    /\ phase = [i \in Impressions |-> "unused"]
    /\ user \in [Impressions -> Users]
    /\ below = [i \in Impressions |-> {}]
    /\ what = [i \in Impressions |-> {}]
    /\ ins = [i \in Impressions |-> "none"]
    /\ cnt = [i \in Impressions |-> "none"]
    /\ clk = [i \in Impressions |-> "none"]

----------------------------------------------------------------------------
(* serve *)

\* The request has read the exposure counts and not added its own.
Uncounted(i) == phase[i] = "ranked" \/ cnt[i] = "todo"

\* Mutant: the cap is compared with > instead of >=.
BelowCapLoose(u) == {c \in Campaigns : fatigue[u][c] <= Cap}

\* fatigue_multiplier is not zero.
BelowCap(u) == {c \in Campaigns : fatigue[u][c] < Cap}

\* The features are read in one pipeline; Slots bounds the requests under way.
Rank(i) ==
    /\ phase[i] = "unused"
    /\ Cardinality({j \in Impressions : Uncounted(j)}) < Slots
    /\ phase' = [phase EXCEPT ![i] = "ranked"]
    /\ below' = [below EXCEPT ![i] = BelowCap(user[i])]
    /\ UNCHANGED <<fatigue, imps, clks, row, user, what, ins, cnt, clk>>

\* The first ranked candidate with a servable creative; the response is sent
\* and the background jobs are queued.
Serve(i, c) ==
    /\ phase[i] = "ranked" /\ c \in below[i]
    /\ phase' = [phase EXCEPT ![i] = "shown"]
    /\ below' = [below EXCEPT ![i] = {}]
    /\ what' = [what EXCEPT ![i] = {c}]
    /\ ins' = [ins EXCEPT ![i] = "todo"]
    /\ cnt' = [cnt EXCEPT ![i] = "todo"]
    /\ UNCHANGED <<fatigue, imps, clks, row, user, clk>>

\* Mutant: the background jobs are queued before it is known if there is an ad.
NoAdPersisted(i) ==
    /\ phase[i] = "ranked"
    /\ phase' = [phase EXCEPT ![i] = "ended"]
    /\ below' = [below EXCEPT ![i] = {}]
    /\ ins' = [ins EXCEPT ![i] = "todo"]
    /\ cnt' = [cnt EXCEPT ![i] = "todo"]
    /\ UNCHANGED <<fatigue, imps, clks, row, user, what, clk>>

\* Every candidate is capped or has no servable creative: 204.
NoAd(i) ==
    /\ phase[i] = "ranked"
    /\ phase' = [phase EXCEPT ![i] = "ended"]
    /\ below' = [below EXCEPT ![i] = {}]
    /\ UNCHANGED <<fatigue, imps, clks, row, user, what, ins, cnt, clk>>

----------------------------------------------------------------------------
(* persist: both sides start together, and neither waits for the other.  A *)
(* call that raises may have been applied.                                 *)

InsertRow(i) ==
    /\ ins[i] = "todo"
    /\ row' = [row EXCEPT ![i] = "fresh"]
    /\ ins' = [ins EXCEPT ![i] = "done"]
    /\ UNCHANGED <<fatigue, imps, clks, phase, user, below, what, cnt, clk>>

InsertFails(i) ==
    /\ "mongo" \in Faults /\ ins[i] = "todo"
    /\ row' \in {row, [row EXCEPT ![i] = "fresh"]}
    /\ ins' = [ins EXCEPT ![i] = "failed"]
    /\ UNCHANGED <<fatigue, imps, clks, phase, user, below, what, cnt, clk>>

\* One transaction: the evidence of the campaign, the exposure of the user.
Bump(i) == \E c \in what[i] :
    /\ imps' = [imps EXCEPT ![c] = @ + 1]
    /\ fatigue' = [fatigue EXCEPT ![user[i]][c] = @ + 1]

RecordServe(i) ==
    /\ cnt[i] = "todo"
    /\ Bump(i)
    /\ cnt' = [cnt EXCEPT ![i] = "done"]
    /\ UNCHANGED <<clks, row, phase, user, below, what, ins, clk>>

\* Mutant: a bump that raised is tried again, applied or not.
RecordServeRetries(i) ==
    /\ "redis" \in Faults /\ cnt[i] = "todo"
    /\ Bump(i) \/ UNCHANGED <<imps, fatigue>>
    /\ UNCHANGED <<clks, row, phase, user, below, what, ins, cnt, clk>>

RecordServeFails(i) ==
    /\ "redis" \in Faults /\ cnt[i] = "todo"
    /\ Bump(i) \/ UNCHANGED <<imps, fatigue>>
    /\ cnt' = [cnt EXCEPT ![i] = "failed"]
    /\ UNCHANGED <<clks, row, phase, user, below, what, ins, clk>>

----------------------------------------------------------------------------
(* record_click *)

\* Mutant: the update matches the impression whether it was clicked or not.
ClickAgain(i) ==
    /\ row[i] \in {"fresh", "clicked"} /\ clk[i] # "todo"
    /\ row' = [row EXCEPT ![i] = "clicked"]
    /\ clk' = [clk EXCEPT ![i] = "todo"]
    /\ UNCHANGED <<fatigue, imps, clks, phase, user, below, what, ins, cnt>>

\* One find_one_and_update.  A click on an unknown or already clicked
\* impression, or one that overtakes the insert, finds nothing and is dropped.
Click(i) ==
    /\ row[i] = "fresh"
    /\ row' = [row EXCEPT ![i] = "clicked"]
    /\ clk' = [clk EXCEPT ![i] = "todo"]
    /\ UNCHANGED <<fatigue, imps, clks, phase, user, below, what, ins, cnt>>

RecordClick(i) == \E c \in what[i] :
    /\ clk[i] = "todo"
    /\ clks' = [clks EXCEPT ![c] = @ + 1]
    /\ clk' = [clk EXCEPT ![i] = "done"]
    /\ UNCHANGED <<fatigue, imps, row, phase, user, below, what, ins, cnt>>

RecordClickFails(i) ==
    /\ "redis" \in Faults /\ clk[i] = "todo"
    /\ \E c \in what[i] : clks' \in {clks, [clks EXCEPT ![c] = @ + 1]}
    /\ clk' = [clk EXCEPT ![i] = "failed"]
    /\ UNCHANGED <<fatigue, imps, row, phase, user, below, what, ins, cnt>>

----------------------------------------------------------------------------
(* The environment *)

\* The exposure count's TTL runs out.
Expire(u, c) ==
    /\ fatigue[u][c] > 0
    /\ fatigue' = [fatigue EXCEPT ![u][c] = 0]
    /\ UNCHANGED <<imps, clks, row, phase, user, below, what, ins, cnt, clk>>

Flush ==
    /\ "flush" \in Faults
    /\ fatigue' = [u \in Users |-> [c \in Campaigns |-> 0]]
    /\ imps' = [c \in Campaigns |-> 0]
    /\ clks' = [c \in Campaigns |-> 0]
    /\ UNCHANGED <<row, phase, user, below, what, ins, cnt, clk>>

\* The instance dies with this request or its background jobs.
Crash(i) ==
    /\ "crash" \in Faults
    /\ phase[i] = "ranked" \/ "todo" \in {ins[i], cnt[i], clk[i]}
    /\ phase' = [phase EXCEPT ![i] = "ended"]
    /\ below' = [below EXCEPT ![i] = {}]
    /\ ins' = [ins EXCEPT ![i] = IF @ = "todo" THEN "failed" ELSE @]
    /\ cnt' = [cnt EXCEPT ![i] = IF @ = "todo" THEN "failed" ELSE @]
    /\ clk' = [clk EXCEPT ![i] = IF @ = "todo" THEN "failed" ELSE @]
    /\ UNCHANGED <<fatigue, imps, clks, row, user, what>>

----------------------------------------------------------------------------
Background(i) ==
    \/ InsertRow(i) \/ InsertFails(i)
    \/ RecordServe(i) \/ RecordServeFails(i)
    \/ RecordClick(i) \/ RecordClickFails(i)

Next ==
    \/ \E i \in Impressions :
         \/ Rank(i) \/ NoAd(i) \/ \E c \in Campaigns : Serve(i, c)
         \/ Background(i)
         \/ Click(i)
         \/ Crash(i)
    \/ \E u \in Users, c \in Campaigns : Expire(u, c)
    \/ Flush

Spec == Init /\ [][Next]_vars

----------------------------------------------------------------------------
(* Properties *)

TypeOK ==
    /\ fatigue \in [Users -> [Campaigns -> Nat]]
    /\ imps \in [Campaigns -> Nat] /\ clks \in [Campaigns -> Nat]
    /\ row \in [Impressions -> {"none", "fresh", "clicked"}]
    /\ phase \in [Impressions -> {"unused", "ranked", "shown", "ended"}]
    /\ user \in [Impressions -> Users]
    /\ below \in [Impressions -> SUBSET Campaigns]
    /\ what \in [Impressions -> {{}} \cup {{c} : c \in Campaigns}]
    /\ ins \in [Impressions -> Job]
    /\ cnt \in [Impressions -> Job]
    /\ clk \in [Impressions -> Job]
    /\ \A i \in Impressions : what[i] = {} => {ins[i], cnt[i], clk[i]} = {"none"}

Of(c) == {i \in Impressions : what[i] = {c}}

\* The exposures of a user to a campaign inside one window overshoot the cap
\* by at most the serve requests that had read the counter and not bumped it:
\* the cap is soft by exactly that concurrency and never drifts further.
OvershootBounded ==
    \A u \in Users, c \in Campaigns : fatigue[u][c] <= Cap - 1 + Slots

\* Retried and concurrent click pixels, lost rows and lost bumps never count an
\* event twice: no more clicks are counted than rows clicked, no more impressions
\* than ads shown.  (A shown ad whose row was lost may be counted: the insert and
\* the counters are written side by side.)
EvidenceWithinLog ==
    \A c \in Campaigns :
        /\ clks[c] <= Cardinality({i \in Of(c) : row[i] = "clicked"})
        /\ imps[c] <= Cardinality(Of(c))

\* What a request may still add to the exposures of its user: any campaign it
\* read below the cap, then the one it serves, until the bump is tried.
MayExpose(i) ==
    {user[i]} \X (IF phase[i] = "ranked" THEN below[i]
                  ELSE IF cnt[i] = "todo" THEN what[i] ELSE {})

Ticketed == INSTANCE FrequencyCap WITH
    Requests <- Impressions,
    count <- fatigue,
    asked <- {i \in Impressions : phase[i] # "unused"},
    ticket <- [i \in Impressions |-> MayExpose(i)]

\* Reading the counts, ranking, answering and counting in the background are
\* apart, and each can fail: to the exposure counts it is as if each request
\* had taken its tickets at one moment and spent at most one, once.
ImplementsCap == Ticketed!Spec
=============================================================================
