--------------------------- MODULE FairQueueTurns ---------------------------
(***************************************************************************)
(* FairQueue with a history variable: the debts a handler found when it    *)
(* took its ticket.  It lets the fairness of the queue be stated as a      *)
(* bound on the turns other clients complete while a handler waits.        *)
(***************************************************************************)
EXTENDS FairQueue

VARIABLE seen     \* debt at the time of the handler's last acquire()

hvars == <<vars, seen>>

HInit ==
    /\ Init
    /\ seen = [h \in Handlers |-> [c \in Clients |-> 0]]

HAcquire(h) == Acquire(h) /\ seen' = [seen EXCEPT ![h] = debt]

HNext ==
    \E h \in Handlers :
        \/ HAcquire(h)
        \/ /\ Recheck(h) \/ SpuriousWake(h) \/ Release(h) \/ NotifyAll(h)
           /\ UNCHANGED seen

HSpec     == HInit /\ [][HNext]_hvars
HFairSpec == HSpec /\ Fairness

-----------------------------------------------------------------------------
MaxOf(a, b) == IF a >= b THEN a ELSE b

(* Bounded overtaking.  While a handler h waits, another client can only   *)
(* catch up with the turns h's client had when it queued: client c, seen   *)
(* with seen[h][c] turns, completes at most one turn that was under way or *)
(* queued before h, or turns up to the debt on h's ticket.                 *)
BoundedOvertaking ==
    \A h \in Handlers : InWait(h) =>
        \A c \in Clients \ {ClientOf[h]} :
            debt[c] <= MaxOf(me[h].debt, seen[h][c] + 1)
=============================================================================
