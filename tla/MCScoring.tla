----------------------------- MODULE MCScoring -----------------------------
(* Symmetry for TLC.                                                        *)
EXTENDS Scoring, TLC

\* Ads are interchangeable.
MCSymmetry == Permutations(Impressions)
=============================================================================
