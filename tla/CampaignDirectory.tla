------------------------- MODULE CampaignDirectory -------------------------
(***************************************************************************)
(* What the campaign cache promises its readers, whoever writes it and     *)
(* whatever fails.  There is a true set of active campaigns (view), a cell *)
(* that may hold a set, and clients.  A client copies the true set in one  *)
(* step and may later store that copy in the cell; it never mixes two      *)
(* copies, edits one or makes one up.  What a reader is given is the       *)
(* cell's content or the true set, as one indivisible value.               *)
(*                                                                         *)
(* An optional value is a set of at most one element.                      *)
(***************************************************************************)
CONSTANTS Views, Clients

VARIABLES
    view,       \* the active campaigns, in truth
    cell,       \* the shared copy, if there is one
    held,       \* the copy a client is about to store
    answer      \* what a reader was given

dvars == <<view, cell, held, answer>>

Init ==
    /\ view \in Views
    /\ cell = {}
    /\ held = [t \in Clients |-> {}]
    /\ answer = [t \in Clients |-> {}]

Change == view' \in Views /\ UNCHANGED <<cell, held, answer>>

Hold(t) == held' = [held EXCEPT ![t] = {view}] /\ UNCHANGED <<view, cell, answer>>

Keep(t) ==
    /\ held[t] # {}
    /\ cell' = held[t]
    /\ held' = [held EXCEPT ![t] = {}]
    /\ UNCHANGED <<view, answer>>

\* A client gives up its copy, and with it perhaps the request it was serving.
Release(t) ==
    /\ held' = [held EXCEPT ![t] = {}]
    /\ answer' \in {answer, [answer EXCEPT ![t] = {}]}
    /\ UNCHANGED <<view, cell>>

Forget == cell' = {} /\ UNCHANGED <<view, held, answer>>

Answer(t) ==
    /\ answer[t] = {}
    /\ \E source \in {cell, {view}} :
         source # {} /\ answer' = [answer EXCEPT ![t] = source]
    /\ UNCHANGED <<view, cell, held>>

Next ==
    \/ Change
    \/ Forget
    \/ \E t \in Clients : Hold(t) \/ Keep(t) \/ Release(t) \/ Answer(t)

Spec == Init /\ [][Next]_dvars
=============================================================================
