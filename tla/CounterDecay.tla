---------------------------- MODULE CounterDecay ----------------------------
(***************************************************************************)
(* The CTR counters and the Temporal job that halves them.  The activity   *)
(* walks the keys with SCAN and halves each by an HMGET and a later HSET,  *)
(* while the API goes on bumping the same counters; an attempt that fails  *)
(* is retried from the start of the scan.                                  *)
(*                                                                         *)
(* A counter is a float in Redis; here it is a whole number of Unit-ths,   *)
(* Unit a power of two, so that the halvings that matter are exact.        *)
(***************************************************************************)
EXTENDS Naturals, FiniteSets

CONSTANTS
    Keys,           \* the ctr: keys
    Unit,           \* what one event adds to a counter
    Events,         \* bound: serves and clicks of a key
    Attempts,       \* maximum_attempts of the retry policy
    Repeats,        \* bound: keys SCAN returns again, or only now, per attempt
    Faults          \* which failures of the environment may occur

ASSUME NumberAssumption ==
    /\ Unit \in Nat \ {0} /\ Attempts \in Nat \ {0}
    /\ Events \in Nat /\ Repeats \in Nat
ASSUME FaultAssumption == Faults \subseteq {"redis", "expire"}

Field == {"imp", "clk"}

VARIABLES
    ctr,        \* the hash of each key; all zero when there is no key
    pc,         \* where the activity is
    attempt,    \* which attempt of the run this is
    todo,       \* keys SCAN has still to return
    again,      \* repeats SCAN has left
    key,        \* the key between its HMGET and its HSET: a set of at most one
    saw,        \* what the HMGET returned
    total,      \* observer: events of each key so far
    base,       \* observer: the counters when the run began
    during      \* observer: events of each key since then

vars == <<ctr, pc, attempt, todo, again, key, saw, total, base, during>>

Zero == [f \in Field |-> 0]
Present(k) == ctr[k] # Zero

Init ==
    /\ ctr = [k \in Keys |-> Zero]
    /\ pc = "idle"
    /\ attempt = 0
    /\ todo = {}
    /\ again = 0
    /\ key = {}
    /\ saw = Zero
    /\ total = [k \in Keys |-> Zero]
    /\ base = [k \in Keys |-> Zero]
    /\ during = [k \in Keys |-> Zero]

----------------------------------------------------------------------------
(* The API: one HINCRBYFLOAT of record_serve or record_click *)

Event(k, f) ==
    /\ total[k][f] < Events
    /\ ctr' = [ctr EXCEPT ![k][f] = @ + Unit]
    /\ total' = [total EXCEPT ![k][f] = @ + 1]
    /\ during' = [during EXCEPT ![k][f] = @ + 1]
    /\ UNCHANGED <<pc, attempt, todo, again, key, saw, base>>

----------------------------------------------------------------------------
(* decay, under the retry policy of its workflow *)

\* A new SCAN: every key there is will be returned.
Scan ==
    /\ pc' = "scan"
    /\ todo' = {k \in Keys : Present(k)}
    /\ again' = Repeats
    /\ key' = {}
    /\ saw' = Zero

\* The schedule fires; overlapping runs are skipped.
StartRun ==
    /\ pc = "idle"
    /\ Scan
    /\ attempt' = 1
    /\ base' = ctr
    /\ during' = [k \in Keys |-> Zero]
    /\ UNCHANGED <<ctr, total>>

\* SCAN returns each key once at least, and is free to return one again.
Returned(k) ==
    \/ k \in todo /\ again' = again
    \/ k \notin todo /\ again > 0 /\ again' = again - 1

\* Mutant: a key with one empty counter is taken for an empty key.
ReadOr(k) ==
    /\ pc = "scan" /\ Returned(k)
    /\ todo' = todo \ {k}
    /\ IF ctr[k].imp = 0 \/ ctr[k].clk = 0
       THEN UNCHANGED <<pc, key, saw>>
       ELSE pc' = "write" /\ key' = {k} /\ saw' = ctr[k]
    /\ UNCHANGED <<ctr, attempt, total, base, during>>

\* HMGET; a key without evidence is passed over.
Read(k) ==
    /\ pc = "scan" /\ Returned(k)
    /\ todo' = todo \ {k}
    /\ IF ctr[k].imp = 0 /\ ctr[k].clk = 0
       THEN UNCHANGED <<pc, key, saw>>
       ELSE pc' = "write" /\ key' = {k} /\ saw' = ctr[k]
    /\ UNCHANGED <<ctr, attempt, total, base, during>>

Half(h) == [f \in Field |-> h[f] \div 2]

\* Mutant: HINCRBYFLOAT of the halves.
HalvedAdds(k) == [ctr EXCEPT ![k] = [f \in Field |-> @[f] + Half(saw)[f]]]

\* Mutant: HINCRBYFLOAT of minus what the halving takes away.
HalvedSubtracts(k) ==
    [ctr EXCEPT ![k] = [f \in Field |-> @[f] - (saw[f] - Half(saw)[f])]]

\* HSET of both halves, whatever has happened to the key since the HMGET.
Halved(k) == [ctr EXCEPT ![k] = Half(saw)]

Write(k) ==
    /\ pc = "write" /\ k \in key
    /\ pc' = "scan"
    /\ ctr' = Halved(k)
    /\ key' = {}
    /\ saw' = Zero
    /\ UNCHANGED <<attempt, todo, again, total, base, during>>

EndRun ==
    /\ pc = "scan" /\ todo = {}
    /\ pc' = "idle"
    /\ attempt' = 0
    /\ again' = 0
    /\ UNCHANGED <<ctr, todo, key, saw, total, base, during>>

\* A Redis call raises, the HSET applied or not: the next attempt scans anew,
\* and after the last one the run has failed.
Fail ==
    /\ "redis" \in Faults /\ pc # "idle"
    /\ \/ ctr' = ctr
       \/ \E k \in key : ctr' = Halved(k)
    /\ \/ /\ attempt < Attempts
          /\ attempt' = attempt + 1
          /\ Scan
       \/ /\ attempt = Attempts
          /\ attempt' = 0
          /\ pc' = "idle" /\ todo' = {} /\ again' = 0 /\ key' = {} /\ saw' = Zero
    /\ UNCHANGED <<total, base, during>>

----------------------------------------------------------------------------
\* The TTL of a key runs out; an HSET under way brings it back.
Expire(k) ==
    /\ "expire" \in Faults /\ Present(k)
    /\ ctr' = [ctr EXCEPT ![k] = Zero]
    /\ UNCHANGED <<pc, attempt, todo, again, key, saw, total, base, during>>

Next ==
    \/ \E k \in Keys, f \in Field : Event(k, f)
    \/ StartRun
    \/ \E k \in Keys : Read(k) \/ Write(k) \/ Expire(k)
    \/ EndRun
    \/ Fail

Spec == Init /\ [][Next]_vars

\* The schedule keeps firing, the activity runs on, and Redis does not fail
\* the same HSET every single time.
FairSpec ==
    /\ Spec
    /\ WF_vars(StartRun)
    /\ WF_vars(EndRun)
    /\ \A k \in Keys :
         /\ SF_vars(k \in todo /\ Read(k))
         /\ SF_vars(Write(k))

----------------------------------------------------------------------------
(* Properties *)

\* Types; in particular no counter is ever negative.
TypeOK ==
    /\ ctr \in [Keys -> [Field -> Nat]]
    /\ pc \in {"idle", "scan", "write"}
    /\ attempt \in 0 .. Attempts /\ (pc = "idle" <=> attempt = 0)
    /\ todo \subseteq Keys
    /\ again \in 0 .. Repeats
    /\ key \in {{}} \cup {{k} : k \in Keys} /\ (pc = "write" <=> key # {})
    /\ saw \in [Field -> Nat]
    /\ total \in [Keys -> [Field -> 0 .. Events]]
    /\ base \in [Keys -> [Field -> Nat]]
    /\ during \in [Keys -> [Field -> 0 .. Events]]

\* Decay only ever forgets: however HMGET and HSET interleave with the API's
\* increments, with retries and with keys that expire in between, no counter
\* shows more evidence than the events that happened.
NeverInflated ==
    \A k \in Keys, f \in Field :
        /\ ctr[k][f] <= Unit * total[k][f]
        /\ k \in key => saw[f] <= Unit * total[k][f]

\* "Halve all CTR counters": when a run has succeeded, none of the evidence it
\* started from counts for more than half, in any key and in any attempt.
SuccessHalvesAll ==
    [][EndRun => \A k \in Keys, f \in Field :
         ctr[k][f] <= base[k][f] \div 2 + Unit * during[k][f]]_vars

\* Evidence of a key is what its counter shows or an HSET under way will write.
\* Of a key that gets no events it only shrinks, in every step: no repeated
\* key, retry, late HSET or HSET that brings an expired key back restores any.
Most(k, f) == IF k \in key /\ saw[f] > ctr[k][f] THEN saw[f] ELSE ctr[k][f]
QuietOnlyFades ==
    [][\A k \in Keys, f \in Field :
         total'[k][f] = total[k][f] => Most(k, f)' <= Most(k, f)]_vars

\* "Lets stale evidence fade": a key whose campaign has gone quiet loses all
\* but a fraction of an event, with failed attempts and repeats on the way.
Fades ==
    <>[][UNCHANGED total]_vars =>
        \A k \in Keys : <>[](\A f \in Field : ctr[k][f] < Unit)
=============================================================================
