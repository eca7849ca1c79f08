----------------------------- MODULE LeaderImpl -----------------------------
(***************************************************************************)
(* The leader seen through PagedResult: the queue, the cache, its reaper,  *)
(* the gathers and the crashes of children are hidden from a session.      *)
(***************************************************************************)
EXTENDS Leader

OutcomeOf ==
    [s \in Sessions |-> IF client[s] \in {"ready", "calling"} THEN "open" ELSE client[s]]

Paged == INSTANCE PagedResult WITH
    Total       <- SizeOf[Loaded],
    RecordBytes <- RECORD_SIZE,
    PageMax     <- [s \in Sessions |-> ChunkBytes(Requested[s])],
    outcome     <- OutcomeOf

(* With shards that stay where they are, QueryOnce, the cache, the reaper  *)
(* and the paging loop implement the paged result: a session whose entry   *)
(* is evicted between two pages, whose gathers go to restarted children,   *)
(* or whose turns alternate with others', still sees one result in order.  *)
ServesPagedResult == Paged!Spec
=============================================================================
