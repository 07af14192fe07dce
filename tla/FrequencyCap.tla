---------------------------- MODULE FrequencyCap ----------------------------
(***************************************************************************)
(* What the frequency cap promises, however serving, counting and failing  *)
(* interleave.  A request asks once and is given tickets for the campaigns *)
(* that its user had seen less than Cap times at that one moment.  It      *)
(* keeps at most one of them, and a ticket pays for one exposure or is     *)
(* lost.  Requests that hold tickets are never more than Slots.            *)
(***************************************************************************)
EXTENDS Naturals, FiniteSets

CONSTANTS Users, Campaigns, Requests, Cap, Slots

VARIABLES
    count,      \* the exposures of each user to each campaign
    asked,      \* the requests that have asked
    ticket      \* the exposures a request may still add

cvars == <<count, asked, ticket>>

Exposure == Users \X Campaigns

Init ==
    /\ count = [u \in Users |-> [c \in Campaigns |-> 0]]
    /\ asked = {}
    /\ ticket = [r \in Requests |-> {}]

Holders == {r \in Requests : ticket[r] # {}}

Ask(r) ==
    /\ r \notin asked /\ Cardinality(Holders) < Slots
    /\ asked' = asked \cup {r}
    /\ \E u \in Users :
         ticket' = [ticket EXCEPT ![r] = {e \in Exposure : e[1] = u /\ count[u][e[2]] < Cap}]
    /\ UNCHANGED count

Choose(r) ==
    /\ \E e \in ticket[r] : ticket' = [ticket EXCEPT ![r] = {e}]
    /\ UNCHANGED <<count, asked>>

GiveUp(r) ==
    /\ ticket' = [ticket EXCEPT ![r] = {}]
    /\ UNCHANGED <<count, asked>>

Spend(r) ==
    /\ \E e \in ticket[r] :
         /\ ticket[r] = {e}
         /\ count' = [count EXCEPT ![e[1]][e[2]] = @ + 1]
    /\ ticket' = [ticket EXCEPT ![r] = {}]
    /\ UNCHANGED asked

\* Counts are kept for a time.
Forget ==
    /\ \E gone \in SUBSET Exposure :
         count' = [u \in Users |-> [c \in Campaigns |->
                     IF <<u, c>> \in gone THEN 0 ELSE count[u][c]]]
    /\ UNCHANGED <<asked, ticket>>

Next ==
    \/ Forget
    \/ \E r \in Requests : Ask(r) \/ Choose(r) \/ GiveUp(r) \/ Spend(r)

Spec == Init /\ [][Next]_cvars
=============================================================================
