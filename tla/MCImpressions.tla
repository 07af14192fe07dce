--------------------------- MODULE MCImpressions ---------------------------
(* Symmetry for TLC.                                                        *)
EXTENDS Impressions, TLC

\* Serve requests are interchangeable, and so are campaigns.
MCSymmetry == Permutations(Impressions) \cup Permutations(Campaigns)
=============================================================================
