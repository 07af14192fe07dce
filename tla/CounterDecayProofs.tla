-------------------------- MODULE CounterDecayProofs --------------------------
(***************************************************************************)
(* CounterDecay for any number of keys, events, attempts and repeats:      *)
(* types, that no evidence is invented, that a run that succeeds has       *)
(* halved all it started from, and that quiet keys never gain.             *)
(***************************************************************************)
EXTENDS CounterDecay, TLAPS

----------------------------------------------------------------------------
(* Arithmetic *)

\* One more event is worth one Unit more.
LEMMA Weighing ==
    \A n \in Nat : Unit * n \in Nat /\ Unit * (n + 1) = Unit * n + Unit
BY NumberAssumption

LEMMA WeighsNothing == Unit * 0 = 0
BY NumberAssumption

\* Halving does not add; half of a sum is at most half of one part and all of
\* the other.
LEMMA HalfIsLess ==
    /\ \A n \in Nat : n \div 2 \in Nat /\ n \div 2 <= n
    /\ \A n, b, x \in Nat : n <= b + x => n \div 2 <= b \div 2 + x
OBVIOUS

LEMMA HalfFacts ==
    ASSUME NEW h \in [Field -> Nat]
    PROVE  /\ Half(h) \in [Field -> Nat]
           /\ \A f \in Field : Half(h)[f] = h[f] \div 2
BY HalfIsLess DEF Half

----------------------------------------------------------------------------
(* Types *)

\* The events of a run are events.
Typed ==
    /\ TypeOK
    /\ \A k \in Keys, f \in Field : during[k][f] <= total[k][f]

LEMMA ZeroType == Zero \in [Field -> Nat] /\ \A f \in Field : Zero[f] = 0
BY DEF Zero

LEMMA TypedInit == Init => Typed
BY NumberAssumption DEF Init, Typed, TypeOK, Zero

\* An event changes one field of one key, and its two observers.
LEMMA EventFacts ==
    ASSUME Typed, NEW k \in Keys, NEW f \in Field, Event(k, f)
    PROVE  /\ ctr' \in [Keys -> [Field -> Nat]]
           /\ total' \in [Keys -> [Field -> 0 .. Events]]
           /\ during' \in [Keys -> [Field -> 0 .. Events]]
           /\ \A j \in Keys, g \in Field :
                IF j = k /\ g = f
                THEN /\ ctr'[j][g] = ctr[j][g] + Unit
                     /\ total'[j][g] = total[j][g] + 1
                     /\ during'[j][g] = during[j][g] + 1
                ELSE /\ ctr'[j][g] = ctr[j][g]
                     /\ total'[j][g] = total[j][g]
                     /\ during'[j][g] = during[j][g]
<1>1. /\ total[k][f] \in Nat /\ total[k][f] + 1 \in 0 .. Events
      /\ during[k][f] + 1 \in 0 .. Events /\ ctr[k][f] + Unit \in Nat
  BY NumberAssumption DEF Event, Typed, TypeOK
<1>2. ctr' = [ctr EXCEPT ![k] = [ctr[k] EXCEPT ![f] = ctr[k][f] + Unit]]
  BY DEF Event
<1>3. total' = [total EXCEPT ![k] = [total[k] EXCEPT ![f] = total[k][f] + 1]]
  BY DEF Event
<1>4. during' = [during EXCEPT ![k] = [during[k] EXCEPT ![f] = during[k][f] + 1]]
  BY DEF Event
<1>5. /\ ctr' \in [Keys -> [Field -> Nat]]
      /\ \A j \in Keys, g \in Field :
           ctr'[j][g] = IF j = k /\ g = f THEN ctr[j][g] + Unit ELSE ctr[j][g]
  BY <1>1, <1>2 DEF Typed, TypeOK
<1>6. /\ total' \in [Keys -> [Field -> 0 .. Events]]
      /\ \A j \in Keys, g \in Field :
           total'[j][g] = IF j = k /\ g = f THEN total[j][g] + 1 ELSE total[j][g]
  BY <1>1, <1>3 DEF Typed, TypeOK
<1>7. /\ during' \in [Keys -> [Field -> 0 .. Events]]
      /\ \A j \in Keys, g \in Field :
           during'[j][g] = IF j = k /\ g = f THEN during[j][g] + 1 ELSE during[j][g]
  BY <1>1, <1>4 DEF Typed, TypeOK
<1> QED BY <1>5, <1>6, <1>7

\* HSET replaces one key by the halves of what was seen of it.
LEMMA HalvedFacts ==
    ASSUME Typed, NEW k \in Keys, ctr' = Halved(k)
    PROVE  /\ ctr' \in [Keys -> [Field -> Nat]]
           /\ \A f \in Field : ctr'[k][f] = saw[f] \div 2
           /\ \A j \in Keys \ {k} : ctr'[j] = ctr[j]
BY HalfFacts DEF Typed, TypeOK, Halved

LEMMA ExpireFacts ==
    ASSUME Typed, NEW k \in Keys, Expire(k)
    PROVE  /\ ctr' \in [Keys -> [Field -> Nat]]
           /\ \A f \in Field : ctr'[k][f] = 0
           /\ \A j \in Keys \ {k} : ctr'[j] = ctr[j]
BY ZeroType DEF Typed, TypeOK, Expire

\* A failing call ends the attempt, its HSET applied or not.
LEMMA FailFacts ==
    ASSUME Typed, Fail
    PROVE  /\ ctr' \in [Keys -> [Field -> Nat]]
           /\ ctr' = ctr \/ \E k \in key : ctr' = Halved(k)
           /\ pc # "idle" /\ key' = {} /\ saw' = Zero
           /\ \/ Scan /\ attempt' = attempt + 1 /\ attempt < Attempts
              \/ pc' = "idle" /\ todo' = {} /\ again' = 0 /\ attempt' = 0
           /\ UNCHANGED <<total, base, during>>
<1>1. ctr' = ctr \/ \E k \in key : ctr' = Halved(k)
  BY DEF Fail
<1>2. key \subseteq Keys
  BY DEF Typed, TypeOK
<1>3. ctr' \in [Keys -> [Field -> Nat]]
  BY <1>1, <1>2, HalvedFacts DEF Typed, TypeOK
<1> QED BY <1>1, <1>3 DEF Fail, Scan

LEMMA TypedNext == Typed /\ [Next]_vars => Typed'
<1> SUFFICES ASSUME Typed, [Next]_vars PROVE Typed'
  OBVIOUS
<1> USE NumberAssumption
<1>1. ASSUME NEW k \in Keys, NEW f \in Field, Event(k, f) PROVE Typed'
  <2>1. \A j \in Keys, g \in Field : during'[j][g] <= total'[j][g]
    <3> TAKE j \in Keys, g \in Field
    <3>1. total[j][g] \in Nat /\ during[j][g] \in Nat /\ during[j][g] <= total[j][g]
      BY DEF Typed, TypeOK
    <3>2. \/ during'[j][g] = during[j][g] + 1 /\ total'[j][g] = total[j][g] + 1
          \/ during'[j][g] = during[j][g] /\ total'[j][g] = total[j][g]
      BY <1>1, EventFacts
    <3> QED BY <3>1, <3>2
  <2> QED BY <1>1, <2>1, EventFacts DEF Typed, TypeOK, Event
<1>2. CASE StartRun
  <2>1. during' = [k \in Keys |-> Zero] /\ total' = total
    BY <1>2 DEF StartRun
  <2>2. Zero \in [Field -> 0 .. Events] /\ \A f \in Field : Zero[f] = 0
    BY DEF Zero
  <2>3. /\ during' \in [Keys -> [Field -> 0 .. Events]]
        /\ \A k \in Keys, f \in Field : during'[k][f] <= total'[k][f]
    BY <2>1, <2>2 DEF Typed, TypeOK
  <2> QED BY <1>2, <2>3, ZeroType DEF StartRun, Scan, Typed, TypeOK
<1>3. ASSUME NEW k \in Keys, Read(k) PROVE Typed'
  <2>1. again' \in 0 .. Repeats
    BY <1>3 DEF Read, Returned, Typed, TypeOK
  <2>2. todo' \subseteq Keys /\ UNCHANGED <<ctr, attempt, total, base, during>>
    BY <1>3 DEF Read, Typed, TypeOK
  <2>3. CASE UNCHANGED <<pc, key, saw>>
    BY <2>1, <2>2, <2>3 DEF Typed, TypeOK
  <2>4. CASE pc' = "write" /\ key' = {k} /\ saw' = ctr[k]
    BY <1>3, <2>1, <2>2, <2>4 DEF Read, Typed, TypeOK
  <2> QED BY <1>3, <2>3, <2>4 DEF Read
<1>4. ASSUME NEW k \in Keys, Write(k) PROVE Typed'
  BY <1>4, HalvedFacts, ZeroType DEF Write, Typed, TypeOK
<1>5. ASSUME NEW k \in Keys, Expire(k) PROVE Typed'
  BY <1>5, ExpireFacts DEF Expire, Typed, TypeOK
<1>6. CASE EndRun
  BY <1>6 DEF EndRun, Typed, TypeOK
<1>7. CASE Fail
  BY <1>7, FailFacts, ZeroType DEF Scan, Typed, TypeOK
<1>8. CASE UNCHANGED vars
  BY <1>8 DEF vars, Typed, TypeOK
<1> QED
  BY <1>1, <1>2, <1>3, <1>4, <1>5, <1>6, <1>7, <1>8 DEF Next

LEMMA TypedAlways == Spec => []Typed
BY TypedInit, TypedNext, PTL DEF Spec

\* No counter is ever negative, whatever the API, the decay and Redis do.
THEOREM TypeCorrect == Spec => []TypeOK
<1>1. Typed => TypeOK
  BY DEF Typed
<1> QED
  BY <1>1, TypedAlways, PTL

----------------------------------------------------------------------------
(* No evidence is invented *)

LEMMA NeverInflatedNext == Typed /\ NeverInflated /\ [Next]_vars => NeverInflated'
<1> SUFFICES ASSUME Typed, NeverInflated, [Next]_vars, NEW k \in Keys, NEW f \in Field
             PROVE  /\ ctr'[k][f] <= Unit * total'[k][f]
                    /\ k \in key' => saw'[f] <= Unit * total'[k][f]
  BY DEF NeverInflated
<1>1. /\ ctr[k][f] \in Nat /\ total[k][f] \in Nat /\ saw[f] \in Nat
      /\ Unit * total[k][f] \in Nat /\ Unit \in Nat
      /\ ctr[k][f] <= Unit * total[k][f]
      /\ k \in key => saw[f] <= Unit * total[k][f]
      /\ \A j \in key : k \in key => k = j
  BY NumberAssumption, Weighing DEF Typed, TypeOK, NeverInflated
<1>2. ASSUME NEW j \in Keys, NEW g \in Field, Event(j, g)
      PROVE  /\ ctr'[k][f] <= Unit * total'[k][f]
             /\ k \in key' => saw'[f] <= Unit * total'[k][f]
  <2>1. UNCHANGED <<key, saw>>
    BY <1>2 DEF Event
  <2>2. Unit * (total[k][f] + 1) = Unit * total[k][f] + Unit
    BY <1>1, Weighing
  <2>3. \/ ctr'[k][f] = ctr[k][f] + Unit /\ total'[k][f] = total[k][f] + 1
        \/ ctr'[k][f] = ctr[k][f] /\ total'[k][f] = total[k][f]
    BY <1>2, EventFacts
  <2> QED BY <1>1, <2>1, <2>2, <2>3
<1>3. ASSUME NEW j \in key, ctr' = Halved(j) PROVE ctr'[k][f] <= Unit * total[k][f]
  <2>1. j \in Keys
    BY DEF Typed, TypeOK
  <2>2. CASE j = k
    <3>1. ctr'[k][f] = saw[f] \div 2
      BY <1>3, <2>1, <2>2, HalvedFacts
    <3> QED BY <1>1, <2>2, <3>1, HalfIsLess
  <2>3. CASE j # k
    BY <1>1, <1>3, <2>1, <2>3, HalvedFacts
  <2> QED BY <2>2, <2>3
<1>4. CASE StartRun
  BY <1>1, <1>4 DEF StartRun, Scan
<1>5. ASSUME NEW j \in Keys, Read(j)
      PROVE  /\ ctr'[k][f] <= Unit * total'[k][f]
             /\ k \in key' => saw'[f] <= Unit * total'[k][f]
  BY <1>1, <1>5 DEF Read
<1>6. ASSUME NEW j \in Keys, Write(j)
      PROVE  /\ ctr'[k][f] <= Unit * total'[k][f]
             /\ k \in key' => saw'[f] <= Unit * total'[k][f]
  BY <1>3, <1>6 DEF Write
<1>7. ASSUME NEW j \in Keys, Expire(j)
      PROVE  /\ ctr'[k][f] <= Unit * total'[k][f]
             /\ k \in key' => saw'[f] <= Unit * total'[k][f]
  <2>1. ctr'[k][f] <= ctr[k][f] /\ ctr'[k][f] \in Nat
    BY <1>1, <1>7, ExpireFacts
  <2> QED BY <1>1, <1>7, <2>1 DEF Expire
<1>8. CASE EndRun
  BY <1>1, <1>8 DEF EndRun
<1>9. CASE Fail
  BY <1>1, <1>3, <1>9, FailFacts
<1>10. CASE UNCHANGED vars
  BY <1>1, <1>10 DEF vars
<1> QED
  BY <1>2, <1>4, <1>5, <1>6, <1>7, <1>8, <1>9, <1>10 DEF Next

\* However HMGET and HSET interleave with increments, retries and expiry, no
\* counter shows more evidence than the events that happened.
THEOREM NothingInvented == Spec => []NeverInflated
<1>1. Init => NeverInflated
  BY WeighsNothing, ZeroType DEF Init, NeverInflated
<1> QED
  BY <1>1, TypedAlways, NeverInflatedNext, PTL DEF Spec

----------------------------------------------------------------------------
(* A run that succeeds has halved all it started from *)

\* What a run may leave of a counter: all, or half, of what it had when the run
\* began, and the events since.
Allowance(k, f) == base[k][f] + Unit * during[k][f]
Target(k, f) == base[k][f] \div 2 + Unit * during[k][f]

\* While a run is under way: nothing exceeds its allowance, neither a counter
\* nor what was seen of one, and a key SCAN has still to return for the first
\* time, or the activity is busy with, is the only one that may miss its target.
HalvingUnderWay == pc # "idle" => \A k \in Keys, f \in Field :
    /\ ctr[k][f] <= Allowance(k, f)
    /\ k \in key => saw[f] <= Allowance(k, f)
    /\ k \notin todo \cup key => ctr[k][f] <= Target(k, f)

LEMMA AllowanceFacts ==
    ASSUME Typed, NEW k \in Keys, NEW f \in Field
    PROVE  /\ Allowance(k, f) \in Nat /\ Target(k, f) \in Nat
           /\ Target(k, f) <= Allowance(k, f)
           /\ \A n \in Nat : n <= Allowance(k, f) => n \div 2 <= Target(k, f)
<1>1. base[k][f] \in Nat /\ during[k][f] \in Nat
  BY DEF Typed, TypeOK
<1>2. Unit * during[k][f] \in Nat
  BY <1>1, Weighing
<1> QED BY <1>1, <1>2, HalfIsLess DEF Allowance, Target

\* Steps that leave a counter, and what was seen of it, within its allowance.
LEMMA HalvingKept ==
    ASSUME Typed, HalvingUnderWay, pc # "idle", NEW k \in Keys, NEW f \in Field,
           UNCHANGED <<base, during>>,
           \/ ctr'[k][f] = ctr[k][f]
           \/ ctr'[k][f] = 0
           \/ k \in key /\ ctr'[k][f] = saw[f] \div 2,
           k \in key' => \/ k \in key /\ saw' = saw
                         \/ saw'[f] = ctr[k][f],
           k \notin todo' \cup key' => \/ k \notin todo \cup key
                                       \/ ctr'[k][f] = 0
                                       \/ k \in key /\ ctr'[k][f] = saw[f] \div 2
    PROVE  /\ ctr'[k][f] <= Allowance(k, f)'
           /\ k \in key' => saw'[f] <= Allowance(k, f)'
           /\ k \notin todo' \cup key' => ctr'[k][f] <= Target(k, f)'
<1>1. /\ ctr[k][f] \in Nat /\ saw[f] \in Nat
      /\ Allowance(k, f)' = Allowance(k, f) /\ Target(k, f)' = Target(k, f)
  BY DEF Typed, TypeOK, Allowance, Target
<1>2. /\ ctr[k][f] <= Allowance(k, f)
      /\ k \in key => saw[f] <= Allowance(k, f)
      /\ k \notin todo \cup key => ctr[k][f] <= Target(k, f)
  BY DEF HalvingUnderWay
<1>3. k \in key => saw[f] \div 2 <= Target(k, f) /\ saw[f] \div 2 <= Allowance(k, f)
  BY <1>1, <1>2, AllowanceFacts, HalfIsLess
<1> QED BY <1>1, <1>2, <1>3, AllowanceFacts

LEMMA HalvingNext == Typed /\ HalvingUnderWay /\ [Next]_vars => HalvingUnderWay'
<1> SUFFICES ASSUME Typed, HalvingUnderWay, [Next]_vars, pc' # "idle",
                    NEW k \in Keys, NEW f \in Field
             PROVE  /\ ctr'[k][f] <= Allowance(k, f)'
                    /\ k \in key' => saw'[f] <= Allowance(k, f)'
                    /\ k \notin todo' \cup key' => ctr'[k][f] <= Target(k, f)'
  BY DEF HalvingUnderWay
<1> DEFINE Good == /\ ctr'[k][f] <= Allowance(k, f)'
                   /\ k \in key' => saw'[f] <= Allowance(k, f)'
                   /\ k \notin todo' \cup key' => ctr'[k][f] <= Target(k, f)'
<1>1. ctr[k][f] \in Nat /\ base[k][f] \in Nat /\ during[k][f] \in Nat
      /\ saw[f] \in Nat /\ key \subseteq Keys
      /\ \A i, j \in key : i = j
  BY DEF Typed, TypeOK
<1>2. ASSUME NEW j \in Keys, NEW g \in Field, Event(j, g) PROVE Good
  <2>1. pc # "idle" /\ UNCHANGED <<todo, key, saw, base>>
    BY <1>2 DEF Event
  <2>2. /\ ctr[k][f] <= Allowance(k, f)
        /\ k \in key => saw[f] <= Allowance(k, f)
        /\ k \notin todo \cup key => ctr[k][f] <= Target(k, f)
    BY <2>1 DEF HalvingUnderWay
  <2>3. Unit \in Nat /\ Unit * (during[k][f] + 1) = Unit * during[k][f] + Unit
        /\ Unit * during[k][f] \in Nat
    BY <1>1, NumberAssumption, Weighing
  <2>4. \/ ctr'[k][f] = ctr[k][f] + Unit /\ during'[k][f] = during[k][f] + 1
        \/ ctr'[k][f] = ctr[k][f] /\ during'[k][f] = during[k][f]
    BY <1>2, EventFacts
  <2>5. base[k][f] \div 2 \in Nat
    BY <1>1, HalfIsLess
  <2>6. \/ /\ ctr'[k][f] = ctr[k][f] + Unit
           /\ Allowance(k, f)' = Allowance(k, f) + Unit
           /\ Target(k, f)' = Target(k, f) + Unit
        \/ /\ ctr'[k][f] = ctr[k][f]
           /\ Allowance(k, f)' = Allowance(k, f)
           /\ Target(k, f)' = Target(k, f)
    BY <1>1, <2>1, <2>3, <2>4, <2>5 DEF Allowance, Target
  <2> QED BY <1>1, <2>1, <2>2, <2>3, <2>6, AllowanceFacts
<1>3. CASE StartRun
  <2>1. /\ ctr'[k][f] = ctr[k][f] /\ base'[k][f] = ctr[k][f] /\ during'[k][f] = 0
        /\ key' = {} /\ todo' = {j \in Keys : Present(j)}
    BY <1>3, ZeroType DEF StartRun, Scan
  <2>2. k \notin todo' => ctr[k][f] = 0
    BY <2>1, ZeroType DEF Present
  <2>3. Allowance(k, f)' = ctr[k][f] /\ Target(k, f)' = ctr[k][f] \div 2
    BY <1>1, <2>1, WeighsNothing, HalfIsLess DEF Allowance, Target
  <2> QED BY <1>1, <2>1, <2>2, <2>3, HalfIsLess
<1>4. ASSUME NEW j \in Keys, Read(j) PROVE Good
  <2>1. /\ pc # "idle" /\ UNCHANGED <<ctr, base, during>> /\ todo' = todo \ {j}
        /\ key = {}
    BY <1>4 DEF Read, Typed, TypeOK
  <2>2. \/ ctr[j].imp = 0 /\ ctr[j].clk = 0 /\ UNCHANGED <<key, saw>>
        \/ key' = {j} /\ saw' = ctr[j]
    BY <1>4 DEF Read
  <2>3. ctr[j].imp = 0 /\ ctr[j].clk = 0 => \A g \in Field : ctr[j][g] = 0
    BY DEF Field, Typed, TypeOK
  <2> QED BY <2>1, <2>2, <2>3, HalvingKept
<1>5. ASSUME NEW j \in Keys, Write(j) PROVE Good
  <2>1. pc # "idle" /\ key = {j} /\ key' = {} /\ UNCHANGED <<todo, base, during>>
    BY <1>1, <1>5 DEF Write
  <2>2. /\ k = j => ctr'[k][f] = saw[f] \div 2
        /\ k # j => ctr'[k] = ctr[k]
    BY <1>5, HalvedFacts DEF Write
  <2> QED BY <2>1, <2>2, HalvingKept
<1>6. ASSUME NEW j \in Keys, Expire(j) PROVE Good
  <2>1. pc # "idle" /\ UNCHANGED <<todo, key, saw, base, during>>
    BY <1>6 DEF Expire
  <2>2. ctr'[k][f] = 0 \/ ctr'[k][f] = ctr[k][f]
    BY <1>6, ExpireFacts
  <2> QED BY <2>1, <2>2, HalvingKept
<1>7. ~EndRun
  BY DEF EndRun
<1>8. CASE Fail
  <2>1. /\ pc # "idle" /\ key' = {} /\ UNCHANGED <<base, during>>
        /\ todo' = {j \in Keys : Present(j)}
    BY <1>8, FailFacts DEF Scan
  <2>2. ctr' = ctr \/ \E j \in key : ctr' = Halved(j)
    BY <1>8, FailFacts
  <2>3. ctr'[k][f] = ctr[k][f] \/ (k \in key /\ ctr'[k][f] = saw[f] \div 2)
    BY <1>1, <2>2, HalvedFacts
  <2>4. k \notin todo' => ctr[k][f] = 0
    BY <2>1, ZeroType DEF Present
  <2> QED BY <2>1, <2>3, <2>4, HalvingKept
<1>9. CASE UNCHANGED vars
  BY <1>9, HalvingKept DEF vars, HalvingUnderWay
<1> QED
  BY <1>2, <1>3, <1>4, <1>5, <1>6, <1>7, <1>8, <1>9 DEF Next

LEMMA HalvingAlways == Spec => []HalvingUnderWay
<1>1. Init => HalvingUnderWay
  BY DEF Init, HalvingUnderWay
<1> QED
  BY <1>1, TypedAlways, HalvingNext, PTL DEF Spec

\* When a run has succeeded, in whichever attempt, nothing it started from
\* counts for more than half.
THEOREM RunsHalveAll == Spec => SuccessHalvesAll
<1>1. ASSUME Typed, HalvingUnderWay, EndRun, NEW k \in Keys, NEW f \in Field
      PROVE  ctr[k][f] <= base[k][f] \div 2 + Unit * during[k][f]
  <2>1. pc = "scan" /\ todo = {} /\ key = {}
    BY <1>1 DEF EndRun, Typed, TypeOK
  <2> QED BY <1>1, <2>1 DEF HalvingUnderWay, Target
<1>2. Typed /\ HalvingUnderWay =>
        [EndRun => \A k \in Keys, f \in Field :
           ctr[k][f] <= base[k][f] \div 2 + Unit * during[k][f]]_vars
  BY <1>1
<1> QED
  BY <1>2, TypedAlways, HalvingAlways, PTL DEF SuccessHalvesAll

----------------------------------------------------------------------------
(* Evidence that gets no events only fades: the part of Fades that is about *)
(* steps.                                                                   *)

LEMMA MostFacts ==
    ASSUME Typed, NEW k \in Keys, NEW f \in Field
    PROVE  /\ Most(k, f) \in Nat
           /\ ctr[k][f] \in Nat /\ ctr[k][f] <= Most(k, f)
           /\ k \in key => saw[f] \in Nat /\ saw[f] <= Most(k, f)
BY DEF Typed, TypeOK, Most

\* No more in the counter and no more on the way to it is no more evidence.
LEMMA MostBounded ==
    ASSUME NEW k \in Keys, NEW f \in Field, NEW n \in Nat,
           ctr'[k][f] <= n, k \in key' => saw'[f] <= n
    PROVE  Most(k, f)' <= n
BY DEF Most

LEMMA QuietNext ==
    ASSUME Typed, [Next]_vars, NEW k \in Keys, NEW f \in Field, total'[k][f] = total[k][f]
    PROVE  Most(k, f)' <= Most(k, f)
<1> DEFINE n == Most(k, f)
<1> SUFFICES ctr'[k][f] <= n /\ (k \in key' => saw'[f] <= n)
  <2>1. n \in Nat
    BY MostFacts
  <2> HIDE DEF n
  <2>2. ctr'[k][f] <= n /\ (k \in key' => saw'[f] <= n) => Most(k, f)' <= n
    BY <2>1, MostBounded
  <2> QED BY <2>2 DEF n
<1>1. /\ n \in Nat
      /\ ctr[k][f] \in Nat /\ ctr[k][f] <= n
      /\ k \in key => saw[f] \in Nat /\ saw[f] <= n
      /\ \A j \in key : j \in Keys /\ (k \in key => k = j)
  BY MostFacts DEF Typed, TypeOK
<1> HIDE DEF n
<1>2. ASSUME NEW j \in Keys, NEW g \in Field, Event(j, g)
      PROVE  ctr'[k][f] <= n /\ (k \in key' => saw'[f] <= n)
  <2>1. total[k][f] \in Nat
    BY DEF Typed, TypeOK
  <2>2. ctr'[k][f] = ctr[k][f]
    BY <1>2, <2>1, EventFacts
  <2>3. UNCHANGED <<key, saw>>
    BY <1>2 DEF Event
  <2> QED BY <1>1, <2>2, <2>3
<1>3. ASSUME NEW j \in key, ctr' = Halved(j) PROVE ctr'[k][f] <= n
  <2>1. j \in Keys
    BY <1>1
  <2>2. CASE j = k
    <3>1. ctr'[k][f] = saw[f] \div 2
      BY <1>3, <2>1, <2>2, HalvedFacts
    <3>2. saw[f] \div 2 \in Nat /\ saw[f] \div 2 <= saw[f]
      BY <1>1, <2>2, HalfIsLess
    <3> QED BY <1>1, <2>2, <3>1, <3>2
  <2>3. CASE j # k
    BY <1>1, <1>3, <2>1, <2>3, HalvedFacts
  <2> QED BY <2>2, <2>3
<1>4. CASE StartRun
  BY <1>1, <1>4 DEF StartRun, Scan
<1>5. ASSUME NEW j \in Keys, Read(j)
      PROVE  ctr'[k][f] <= n /\ (k \in key' => saw'[f] <= n)
  BY <1>1, <1>5 DEF Read
<1>6. ASSUME NEW j \in Keys, Write(j)
      PROVE  ctr'[k][f] <= n /\ (k \in key' => saw'[f] <= n)
  BY <1>3, <1>6 DEF Write
<1>7. ASSUME NEW j \in Keys, Expire(j)
      PROVE  ctr'[k][f] <= n /\ (k \in key' => saw'[f] <= n)
  <2>1. ctr'[k][f] <= ctr[k][f] /\ ctr'[k][f] \in Nat
    BY <1>1, <1>7, ExpireFacts
  <2> QED BY <1>1, <1>7, <2>1 DEF Expire
<1>8. CASE EndRun
  BY <1>1, <1>8 DEF EndRun
<1>9. CASE Fail
  BY <1>1, <1>3, <1>9, FailFacts
<1>10. CASE UNCHANGED vars
  BY <1>1, <1>10 DEF vars
<1> QED
  BY <1>2, <1>4, <1>5, <1>6, <1>7, <1>8, <1>9, <1>10 DEF Next

\* A key that gets no events never gains: not by a retried attempt, a key that
\* SCAN repeats, a late HSET, or one that brings an expired key back.
THEOREM QuietKeysFade == Spec => QuietOnlyFades
<1>1. Typed /\ [Next]_vars
        => [\A k \in Keys, f \in Field :
              total'[k][f] = total[k][f] => Most(k, f)' <= Most(k, f)]_vars
  BY QuietNext
<1> QED
  BY <1>1, TypedAlways, PTL DEF Spec, QuietOnlyFades
=============================================================================
