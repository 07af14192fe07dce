---------------------------- MODULE MCServePath ----------------------------
(* Symmetry, a GeoIP database and callers for TLC.                          *)
EXTENDS ServePath, TLC

CONSTANTS US, GB, home, abroad, paper, lan

\* An address where it says, one registered elsewhere, one known by its papers
\* only.
MCGeoIp ==
    home   :> [country |-> US, registered |-> US, represented |-> Unknown] @@
    abroad :> [country |-> GB, registered |-> US, represented |-> Unknown] @@
    paper  :> [country |-> Unknown, registered |-> US, represented |-> Unknown]

\* Proxies that add a LAN hop, requests without headers, and blank ones.
MCCallers ==
    [forwarded : {<<>>, <<NoAddress>>, <<lan, paper>>, <<home, abroad>>},
     real : {NoAddress, abroad}, peer : {NoAddress, lan},
     family : {"macos", "windows", "none"}]

MCGeoTargets == {{}, {US}}
MCOsTargets == {{}, {"ios"}, {Unknown}}

MCSymmetry == Permutations(Campaigns)
=============================================================================
