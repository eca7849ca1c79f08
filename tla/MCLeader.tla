------------------------------ MODULE MCLeader ------------------------------
(* Leader for TLC: two children, sessions with and without client ids of   *)
(* their own, payloads of a few records.                                   *)
EXTENDS LeaderImpl, TLC

CONSTANTS s1, s2, a, b, B, H

OwnId == s1 :> a @@ s2 :> b

(* B holds two records and H one; a node started without its shard file    *)
(* serves sample data, here one record.                                    *)
Records(k, d) == IF d = "shard" /\ k = B THEN 2 ELSE 1

AllShards == [k \in Children |-> "shard"]

PayloadBytes ==
    [p \in Payload |-> RECORD_SIZE * (Records(B, p[B]) + Records(H, p[H]))]

(* Pages of one record (20 bytes) and of two (50 bytes are cut back to 40). *)
ChunksPaged == s1 :> 20 @@ s2 :> 50

-----------------------------------------------------------------------------
(* MINI2_REPORT.md:135 tells of later pages that look successful while     *)
(* silently missing shards, and says that this is fixed: a client that has *)
(* received a page of the full result and ends well has all of it.         *)
LaterPagesMissNothing ==
    \A s \in Sessions : client[s] = "done" /\ Loaded \in sources[s] =>
        got[s] = SizeOf[Loaded]
=============================================================================
