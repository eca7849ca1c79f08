-------------------------- MODULE MCFairQueueTurns --------------------------
(* FairQueueTurns and the abstract queue for TLC, with a client id per     *)
(* handler.                                                                *)
EXTENDS FairQueueTurns, FairQueueImpl, TLC

CONSTANTS h1, h2, h3, a, b, c

OwnId == h1 :> a @@ h2 :> b @@ h3 :> c

(* The turns of one client's whole response stream in the run below.       *)
StreamTurns == 3

(* RUN_RESULTS.md:99 says that the scheduler prevents a single client from *)
(* consuming the whole response stream first: no client completes all the  *)
(* turns of a stream within one wait of another client.                    *)
NoStreamFirst ==
    \A h \in Handlers : InWait(h) =>
        \A x \in Clients \ {ClientOf[h]} : debt[x] < seen[h][x] + StreamTurns
=============================================================================
