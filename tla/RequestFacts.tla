---------------------------- MODULE RequestFacts ----------------------------
(***************************************************************************)
(* What the API infers about a caller from the transport: which address    *)
(* the request came from, which country that is, which operating system,   *)
(* and what a campaign's targets make of it.                               *)
(*                                                                         *)
(* An address is a value; whether it is public and what the GeoIP database *)
(* says of it are constants.  A user agent is the family the parser finds. *)
(***************************************************************************)
EXTENDS Sequences

CONSTANTS
    Countries,      \* countries GeoIP can resolve
    Unknown,        \* no country, or an OS nobody could place
    Public,         \* addresses outside the private and reserved ranges
    Other,          \* what a proxy header can hold besides: LAN hops, words
    NoAddress,      \* an absent or blank header or hop
    GeoIp           \* the database: what it has on the addresses it knows

Record == [country : Countries \cup {Unknown},
           registered : Countries \cup {Unknown},
           represented : Countries \cup {Unknown}]

\* No database, no record, or a lookup that raises.
NoRecord == [country |-> Unknown, registered |-> Unknown, represented |-> Unknown]

ASSUME UnknownCountry == Unknown \notin Countries
ASSUME AddressAssumption == NoAddress \notin Public
ASSUME GeoIpAssumption ==
    /\ DOMAIN GeoIp \subseteq Public
    /\ \A a \in DOMAIN GeoIp : GeoIp[a] \in Record

\* The left-most public address: of X-Forwarded-For, else X-Real-IP, else the
\* peer; without one, the first hop as it was sent.
ClientIp(forwarded, real, peer) ==
    LET hops == SelectSeq(forwarded \o <<real, peer>>, LAMBDA a : a \in Public)
    IN IF hops # <<>> THEN hops[1]
       ELSE IF forwarded # <<>> /\ Head(forwarded) # NoAddress THEN Head(forwarded)
       ELSE peer

LookUp(ip) == IF ip \in DOMAIN GeoIp THEN GeoIp[ip] ELSE NoRecord

\* Mutant: the owner's country before the caller's.
CountryOnPaper(rec) ==
    IF rec.registered # Unknown THEN rec.registered
    ELSE IF rec.country # Unknown THEN rec.country
    ELSE rec.represented

\* Where the caller is, before where the block is registered.
Country(rec) ==
    IF rec.country # Unknown THEN rec.country
    ELSE IF rec.registered # Unknown THEN rec.registered
    ELSE rec.represented

\* An OS family the parser names; "none" is a missing, blank or unrecognised
\* user agent, or a parser that raises.
Families == {"android", "ios", "macos", "windows", "none"}

Systems == {"android", "ios", "web"}

\* Apple desktops are taken for ios, every other recognised OS for the web.
ParseDevice(family) ==
    IF family = "android" THEN "android"
    ELSE IF family \in {"ios", "macos"} THEN "ios"
    ELSE IF family # "none" THEN "web"
    ELSE Unknown
=============================================================================
