------------------------------ MODULE MCAdSets ------------------------------
(* Values for TLC: one ad set of the seed files.                            *)
EXTENDS AdSets, TLC

CONSTANTS k1, s0, s1, s2

MCSeedSets == {[id |-> s0, campaign |-> k1]}

\* POSTs are for the campaign of the files; the other one, which clients make,
\* has what links they send.
MCPosts == [id : {s1, s2}, campaign : {k1}]

\* Any ad set.
MCAnyPost == AdSet

\* Coroutines are interchangeable; of the ids new_id returns, a client names one.
MCSymmetry == Permutations(Tasks)
=============================================================================
