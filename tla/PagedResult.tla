---------------------------- MODULE PagedResult ----------------------------
(***************************************************************************)
(* What the leader promises to a session, with no queue, no cache and no   *)
(* children: the session is handed one result of Total bytes, from its     *)
(* beginning, in pages of whole records that are no larger than the chunk  *)
(* it asked for; it ends well with the last page and not before, or it is  *)
(* given an error, or it leaves.                                           *)
(***************************************************************************)
EXTENDS Naturals

CONSTANTS Sessions, Total, RecordBytes,
          PageMax      \* the chunk of each session

VARIABLES outcome, got

vars == <<outcome, got>>

Init ==
    /\ outcome = [s \in Sessions |-> "open"]
    /\ got = [s \in Sessions |-> 0]

(* A page that is not the last has a record at least, and leaves some.     *)
Deliver(s) ==
    /\ outcome[s] = "open"
    /\ \E n \in RecordBytes .. PageMax[s] :
          /\ n % RecordBytes = 0
          /\ got[s] + n < Total
          /\ got' = [got EXCEPT ![s] = @ + n]
    /\ UNCHANGED outcome

Complete(s) ==
    /\ outcome[s] = "open"
    /\ Total <= got[s] + PageMax[s]
    /\ got' = [got EXCEPT ![s] = Total]
    /\ outcome' = [outcome EXCEPT ![s] = "done"]

GiveUp(s) ==
    /\ outcome[s] = "open"
    /\ \E how \in {"failed", "gone"} : outcome' = [outcome EXCEPT ![s] = how]
    /\ UNCHANGED got

Next == \E s \in Sessions : Deliver(s) \/ Complete(s) \/ GiveUp(s)

Spec == Init /\ [][Next]_vars
=============================================================================
