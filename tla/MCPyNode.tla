----------------------------- MODULE MCPyNode -----------------------------
(* PyNode for TLC: two Fetches that can overlap in the pool, and a call    *)
(* for the leader's method that went to the wrong port.                    *)
EXTENDS PyNode

CONSTANTS f1, f2, q

QueryOnce == "/mini2.LeaderService/QueryOnce"

Methods == [c \in Calls |-> IF c = q THEN QueryOnce ELSE Fetch]
=============================================================================
