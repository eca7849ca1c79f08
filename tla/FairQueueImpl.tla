--------------------------- MODULE FairQueueImpl ---------------------------
(***************************************************************************)
(* FairQueue seen as the abstract queue of LeastDebtFirst.                 *)
(***************************************************************************)
EXTENDS FairQueue

CONSTANT Nobody

ASSUME NobodyAssumption == Nobody \notin Handlers

(* Who waits with which ticket, and who has the turn.                      *)
QueueOf  == [h \in Handlers |-> IF InWait(h) THEN me[h] ELSE NoTicket]
HolderOf == IF active THEN CHOOSE h \in Handlers : pc[h] = "turn" ELSE Nobody

LDF == INSTANCE LeastDebtFirst WITH
    queue  <- QueueOf,
    holder <- HolderOf,
    turns  <- debt,
    issued <- seq

(* With a client id per handler, the mutex, the condition variable and the *)
(* map of FairQueue implement the least-debt-first queue: the turn goes to *)
(* the best of those who wait, whenever they were woken and in whatever    *)
(* order they take the mutex.                                              *)
ServesLeastDebtFirst == LDF!Spec
=============================================================================
