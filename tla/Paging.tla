------------------------------- MODULE Paging -------------------------------
(***************************************************************************)
(* The chunk arithmetic of QueryOnce, src/leader/leader_node.cpp: how the  *)
(* requested chunk size is clamped and where the page that starts at a     *)
(* byte offset ends.  Quantities are bytes, as in the source.  The int     *)
(* arithmetic of the source does not overflow: a gathered payload is far   *)
(* below 2^31 bytes (every child reply is under gRPC's 4 MB limit) and a   *)
(* chunk is at most MAX_CHUNK_BYTES.                                       *)
(***************************************************************************)
EXTENDS Integers

RECORD_SIZE         == 20
DEFAULT_CHUNK_BYTES == 128
MAX_CHUNK_BYTES     == 1048576

Least(a, b)    == IF a <= b THEN a ELSE b
Greatest(a, b) == IF a >= b THEN a ELSE b

(* Faulty: a chunk may be smaller than a record.                           *)
ChunkBytesUnclamped(requested) ==
    IF requested > 0 THEN Least(requested, MAX_CHUNK_BYTES) ELSE DEFAULT_CHUNK_BYTES

(* The bytes a page may have, from the chunk_size field of the query.      *)
ChunkBytes(requested) ==
    LET wanted == IF requested > 0 THEN requested ELSE DEFAULT_CHUNK_BYTES
    IN  Greatest(RECORD_SIZE, Least(wanted, MAX_CHUNK_BYTES))

(* Faulty: not cut back to records; a record too short; rounded up to a    *)
(* record, beyond the chunk.                                               *)
PageEndRaw(start, chunk, total) == Least(start + chunk, total)

PageEndShort(start, chunk, total) ==
    LET rawEnd == Least(start + chunk, total)
        records == (rawEnd - start) \div RECORD_SIZE
    IN  IF rawEnd < total THEN start + Greatest(1, records - 1) * RECORD_SIZE ELSE rawEnd

PageEndUp(start, chunk, total) ==
    Least(start + ((chunk + RECORD_SIZE - 1) \div RECORD_SIZE) * RECORD_SIZE, total)

(* The end of the page at start: a page that is not the last is cut back   *)
(* to a whole number of records.                                           *)
PageEnd(start, chunk, total) ==
    LET rawEnd  == Least(start + chunk, total)
        aligned == start + ((rawEnd - start) \div RECORD_SIZE) * RECORD_SIZE
    IN  IF rawEnd < total /\ aligned > start THEN aligned ELSE rawEnd

(* Faulty: the next offset is not that of the cut page; a last page that   *)
(* is shorter than a chunk is not announced.                               *)
PageReplyUncut(start, chunk, total) ==
    LET end == PageEnd(start, chunk, total)
    IN  [ bytes |-> IF start < total THEN end - start ELSE 0,
          more  |-> end < total,
          next  |-> IF end < total THEN Least(start + chunk, total) ELSE -1 ]

PageReplyNoTail(start, chunk, total) ==
    LET end == PageEnd(start, chunk, total)
    IN  [ bytes |-> IF start < total THEN end - start ELSE 0,
          more  |-> end + chunk <= total,
          next  |-> IF end + chunk <= total THEN end ELSE -1 ]

(* The AggregatedReply for an offset: the bytes of its segment (none when  *)
(* the offset is past the end), has_more and next_offset.                  *)
PageReply(start, chunk, total) ==
    LET end == PageEnd(start, chunk, total)
    IN  [ bytes |-> IF start < total THEN end - start ELSE 0,
          more  |-> end < total,
          next  |-> IF end < total THEN end ELSE -1 ]
=============================================================================
