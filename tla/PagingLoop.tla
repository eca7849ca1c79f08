----------------------------- MODULE PagingLoop -----------------------------
(***************************************************************************)
(* One request of src/client/main.cpp against a payload that stays the     *)
(* same: the loop that asks for the page at offset until has_more is       *)
(* false, with the chunk arithmetic of the leader.  Leader.tla has the     *)
(* same loop among other clients and failures, for a few chunk sizes;      *)
(* here the arithmetic is checked for many.                                *)
(***************************************************************************)
EXTENDS Paging

CONSTANTS Totals,      \* payload sizes, in bytes
          Requests     \* values of the chunk_size field

ASSUME PagingAssumption ==
    /\ Totals \subseteq Nat
    /\ \A t \in Totals : t % RECORD_SIZE = 0     \* shards are trimmed
    /\ Requests \subseteq Int

VARIABLES total, requested, offset, has_more, got, calls

vars == <<total, requested, offset, has_more, got, calls>>

Init ==
    /\ total \in Totals
    /\ requested \in Requests
    /\ offset = 0
    /\ has_more = TRUE
    /\ got = 0          \* bytes of all segments so far
    /\ calls = 0        \* call_count

QueryOnce ==
    LET rep == PageReply(offset, ChunkBytes(requested), total) IN
    /\ has_more
    /\ got' = got + rep.bytes
    /\ has_more' = rep.more
    /\ offset' = rep.next
    /\ calls' = calls + 1
    /\ UNCHANGED <<total, requested>>

Next == QueryOnce

Spec == Init /\ [][Next]_vars

-----------------------------------------------------------------------------
(* Offsets stay within the payload (-1 stands for no next offset).         *)
TypeOK ==
    /\ total \in Totals /\ requested \in Requests
    /\ has_more \in BOOLEAN
    /\ offset \in -1 .. total
    /\ got \in 0 .. total
    /\ calls \in Nat

(* The pages tile the payload: while more is to come the client holds      *)
(* exactly the bytes before offset, and when nothing is, every byte.       *)
PagesTile == got = IF has_more THEN offset ELSE total

(* No page splits a record between two pages, where main.cpp, which        *)
(* divides each segment by the record size, would drop it.                 *)
WholeRecords == got % RECORD_SIZE = 0

(* A page that is not the last moves the offset forward by at least a      *)
(* record and by no more than the clamped chunk.                           *)
PagesProgress ==
    [][has_more' => /\ offset' - offset >= RECORD_SIZE
                    /\ offset' - offset <= ChunkBytes(requested)]_vars

CallsFor(bytes, chunk_size) ==
    LET records == bytes \div RECORD_SIZE
        perPage == ChunkBytes(chunk_size) \div RECORD_SIZE
    IN  Greatest(1, (records + perPage - 1) \div perPage)

(* The loop makes exactly ceil(records / records per page) calls, and one  *)
(* for an empty payload: the page counts of the results tables             *)
(* (RUN_RESULTS.md:53) follow from this.                                   *)
CallCount == ~has_more => calls = CallsFor(total, requested)
=============================================================================
