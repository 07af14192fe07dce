----------------------------- MODULE MCSessions -----------------------------
(* Values for TLC: one spelling, so that a ppid can look like an IP.        *)
EXTENDS Sessions, TLC

CONSTANT x

\* By ppid, by an IP spelled the same, by both, and anonymous.
EveryKind == [ppid : {x, NoName}, ip : {x, NoName}]

\* Coroutines are interchangeable, and so are session ids.
MCSymmetry == Permutations(Tasks) \cup Permutations(SessionIds)
=============================================================================
