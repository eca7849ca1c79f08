---------------------------- MODULE AllOrNothing ----------------------------
(***************************************************************************)
(* What the tree of Fetch handlers promises to the leader: a gather ends   *)
(* with the payload of the whole tree or with an error, and one gather is  *)
(* under way at a time.                                                    *)
(***************************************************************************)
CONSTANTS Attempts, AllData, NoData

VARIABLES outcome, payload

Init ==
    /\ outcome = [a \in Attempts |-> "none"]
    /\ payload = [a \in Attempts |-> NoData]

Begin(a) ==
    /\ outcome[a] = "none"
    /\ \A b \in Attempts : outcome[b] # "open"
    /\ outcome' = [outcome EXCEPT ![a] = "open"]
    /\ UNCHANGED payload

Deliver(a) ==
    /\ outcome[a] = "open"
    /\ outcome' = [outcome EXCEPT ![a] = "ok"]
    /\ payload' = [payload EXCEPT ![a] = AllData]

Fail(a) ==
    /\ outcome[a] = "open"
    /\ outcome' = [outcome EXCEPT ![a] = "failed"]
    /\ UNCHANGED payload

Next == \E a \in Attempts : Begin(a) \/ Deliver(a) \/ Fail(a)

Spec == Init /\ [][Next]_<<outcome, payload>>
=============================================================================
