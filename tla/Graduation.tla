----------------------------- MODULE Graduation -----------------------------
(* What the bonding tracker promises: a candidate is listed, claimed by one *)
(* processor, and fired at most once, whatever else happens to it.          *)
EXTENDS Naturals

CONSTANTS Ids       \* candidates, in the order they are listed

VARIABLES
    stage,          \* where each candidate stands
    fires           \* how often each was submitted for execution

Init ==
    /\ stage = [i \in Ids |-> "new"]
    /\ fires = [i \in Ids |-> 0]

List(i) ==
    /\ stage[i] = "new"
    /\ stage' = [stage EXCEPT ![i] = "listed"]
    /\ UNCHANGED fires

Claim(i) ==
    /\ stage[i] = "listed"
    /\ stage' = [stage EXCEPT ![i] = "claimed"]
    /\ UNCHANGED fires

Fire(i) ==
    /\ stage[i] = "claimed"
    /\ stage' = [stage EXCEPT ![i] = "done"]
    /\ fires' = [fires EXCEPT ![i] = @ + 1]

GiveUp(i) ==
    /\ stage[i] = "claimed"
    /\ stage' = [stage EXCEPT ![i] = "done"]
    /\ UNCHANGED fires

Next == \E i \in Ids : List(i) \/ Claim(i) \/ Fire(i) \/ GiveUp(i)

Spec == Init /\ [][Next]_<<stage, fires>>
=============================================================================
