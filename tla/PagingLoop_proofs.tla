------------------------- MODULE PagingLoop_proofs -------------------------
(***************************************************************************)
(* The page arithmetic, for every offset, chunk size and payload size, and *)
(* the paging loop, for every payload of whole records and every value of  *)
(* the chunk_size field.                                                   *)
(***************************************************************************)
EXTENDS PagingLoop, TLAPS

(* The clamped chunk has room for a record and is bounded.                 *)
LEMMA ChunkBytesFact ==
    ASSUME NEW r \in Int
    PROVE  ChunkBytes(r) \in RECORD_SIZE .. MAX_CHUNK_BYTES
<1> DEFINE wanted == IF r > 0 THEN r ELSE DEFAULT_CHUNK_BYTES
<1>1. wanted \in Int
  BY DEF DEFAULT_CHUNK_BYTES
<1>2. MAX_CHUNK_BYTES \in Int /\ MAX_CHUNK_BYTES >= RECORD_SIZE
  BY SMT DEF MAX_CHUNK_BYTES, RECORD_SIZE
<1>3. ChunkBytes(r) = Greatest(RECORD_SIZE, Least(wanted, MAX_CHUNK_BYTES))
  BY DEF ChunkBytes
<1> HIDE DEF wanted
<1>4. QED
  BY <1>1, <1>2, <1>3 DEF Greatest, Least, RECORD_SIZE

(* Rounding down to whole records.                                         *)
LEMMA Aligned ==
    ASSUME NEW n \in Nat
    PROVE  /\ (n \div RECORD_SIZE) * RECORD_SIZE \in Nat
           /\ (n \div RECORD_SIZE) * RECORD_SIZE <= n
           /\ n - (n \div RECORD_SIZE) * RECORD_SIZE < RECORD_SIZE
           /\ ((n \div RECORD_SIZE) * RECORD_SIZE) % RECORD_SIZE = 0
BY DEF RECORD_SIZE

(* Where a page ends that starts inside the payload: no page is larger     *)
(* than a chunk, and one that is not the last has whole records.           *)
LEMMA PageEndFact ==
    ASSUME NEW start \in Nat, NEW size \in Nat, start <= size,
           NEW chunk \in Int, chunk >= RECORD_SIZE
    PROVE  /\ PageEnd(start, chunk, size) \in start .. size
           /\ PageEnd(start, chunk, size) - start <= chunk
           /\ PageEnd(start, chunk, size) < size =>
                 /\ PageEnd(start, chunk, size) - start >= RECORD_SIZE
                 /\ (PageEnd(start, chunk, size) - start) % RECORD_SIZE = 0
<1> DEFINE rawEnd == Least(start + chunk, size)
           n == rawEnd - start
           m == (n \div RECORD_SIZE) * RECORD_SIZE
<1>1. /\ rawEnd \in start .. size /\ n \in Nat /\ n <= chunk
      /\ rawEnd < size => n = chunk
  BY DEF Least, RECORD_SIZE
<1>2. m \in Nat /\ m <= n /\ n - m < RECORD_SIZE /\ m % RECORD_SIZE = 0
  <2> HIDE DEF n
  <2>1. QED
    BY <1>1, Aligned
<1>3. PageEnd(start, chunk, size) =
          IF rawEnd < size /\ start + m > start THEN start + m ELSE rawEnd
  BY DEF PageEnd
<1>4. CASE rawEnd < size
  <2>1. m >= RECORD_SIZE
    <3>1. m > 0
      BY <1>1, <1>2, <1>4 DEF RECORD_SIZE
    <3>2. QED
      BY <1>2, <3>1 DEF RECORD_SIZE
  <2>2. PageEnd(start, chunk, size) = start + m
    <3> HIDE DEF m
    <3>1. QED
      BY <1>2, <1>3, <1>4, <2>1 DEF RECORD_SIZE
  <2>3. QED
    <3> HIDE DEF m
    <3>1. QED
      BY <1>1, <1>2, <1>4, <2>1, <2>2
<1>5. CASE ~(rawEnd < size)
  BY <1>1, <1>3, <1>5
<1>6. QED
  BY <1>4, <1>5

(* The reply for an offset inside the payload: its page begins there, and  *)
(* says truly whether and where more follows.                              *)
LEMMA PageReplyFact ==
    ASSUME NEW start \in Nat, NEW size \in Nat, start <= size,
           NEW chunk \in Int, chunk >= RECORD_SIZE
    PROVE  LET rep == PageReply(start, chunk, size) IN
           /\ rep.bytes \in Nat /\ start + rep.bytes <= size /\ rep.bytes <= chunk
           /\ rep.more \in BOOLEAN /\ rep.next \in Int
           /\ rep.more <=> start + rep.bytes < size
           /\ rep.more => /\ rep.next = start + rep.bytes
                          /\ rep.bytes >= RECORD_SIZE
                          /\ rep.bytes % RECORD_SIZE = 0
           /\ ~rep.more => rep.next = -1
<1> DEFINE end == PageEnd(start, chunk, size)
<1>1. /\ end \in start .. size /\ end - start <= chunk
      /\ end < size => /\ end - start >= RECORD_SIZE
                        /\ (end - start) % RECORD_SIZE = 0
  BY PageEndFact
<1>2. PageReply(start, chunk, size) =
        [ bytes |-> IF start < size THEN end - start ELSE 0,
          more  |-> end < size,
          next  |-> IF end < size THEN end ELSE -1 ]
  BY DEF PageReply
<1> DEFINE rep == PageReply(start, chunk, size)
<1> HIDE DEF end
<1>3. /\ rep.bytes = IF start < size THEN end - start ELSE 0
      /\ rep.next = IF end < size THEN end ELSE -1
  BY <1>2
<1>4. rep.more = (end < size)
  BY <1>2
<1>5. rep.more \in BOOLEAN /\ (rep.more <=> end < size)
  <2> HIDE DEF rep
  <2>1. CASE end < size
    BY <1>4, <2>1
  <2>2. CASE ~(end < size)
    <3>1. (end < size) = FALSE
      BY <2>2
    <3>2. rep.more = FALSE
      BY <1>4, <3>1, Zenon
    <3>3. QED
      BY <2>2, <3>2, Zenon
  <2>3. QED
    BY <2>1, <2>2
<1> HIDE DEF rep
<1>6. /\ rep.bytes \in Nat /\ start + rep.bytes = end /\ rep.next \in Int
      /\ end < size => rep.next = start + rep.bytes
      /\ ~(end < size) => rep.next = -1
  BY <1>1, <1>3
<1>7. /\ rep.bytes \in Nat /\ start + rep.bytes <= size /\ rep.bytes <= chunk
      /\ rep.more \in BOOLEAN /\ rep.next \in Int
      /\ rep.more <=> start + rep.bytes < size
      /\ rep.more => /\ rep.next = start + rep.bytes
                     /\ rep.bytes >= RECORD_SIZE
                     /\ rep.bytes % RECORD_SIZE = 0
      /\ ~rep.more => rep.next = -1
  <2>1. end - start = rep.bytes
    BY <1>1, <1>6
  <2>2. QED
    BY <1>1, <1>5, <1>6, <2>1
<1>8. QED
  BY <1>7 DEF rep

(* A page is not the last exactly when the chunk ends before the payload,  *)
(* and then it has as many records as fit into the chunk.                  *)
LEMMA FullPage ==
    ASSUME NEW start \in Nat, NEW size \in Nat, start <= size,
           NEW chunk \in Int, chunk >= RECORD_SIZE
    PROVE  LET rep == PageReply(start, chunk, size) IN
           /\ rep.more <=> start + chunk < size
           /\ rep.more => rep.next = start + (chunk \div RECORD_SIZE) * RECORD_SIZE
<1> DEFINE m == (chunk \div RECORD_SIZE) * RECORD_SIZE
           end == PageEnd(start, chunk, size)
           rep == PageReply(start, chunk, size)
<1>1. m \in Nat /\ m <= chunk /\ m > 0
  <2>1. chunk \in Nat
    BY DEF RECORD_SIZE
  <2>2. m \in Nat /\ m <= chunk /\ chunk - m < RECORD_SIZE
    BY <2>1, Aligned
  <2> HIDE DEF m
  <2>3. QED
    BY <2>1, <2>2 DEF RECORD_SIZE
<1>2. start + chunk < size => end = start + m
  <2> SUFFICES ASSUME start + chunk < size PROVE end = start + m
    OBVIOUS
  <2>1. Least(start + chunk, size) = start + chunk
    <3>1. start + chunk <= size
      OBVIOUS
    <3>2. QED
      BY <3>1 DEF Least
  <2>2. (start + chunk) - start = chunk
    OBVIOUS
  <2>3. end = IF start + chunk < size /\ start + m > start
              THEN start + m ELSE start + chunk
    BY <2>1, <2>2 DEF PageEnd
  <2> HIDE DEF m, end
  <2>4. QED
    BY <1>1, <2>3
<1>3. ~(start + chunk < size) => end = size
  <2> SUFFICES ASSUME ~(start + chunk < size) PROVE end = size
    OBVIOUS
  <2>1. Least(start + chunk, size) = size
    BY DEF Least
  <2>2. QED
    BY <2>1 DEF PageEnd
<1>4. /\ rep.more <=> end < size
      /\ rep.more => rep.next = start + rep.bytes
      /\ start + rep.bytes <= size
  <2>1. /\ rep.bytes \in Nat /\ start + rep.bytes <= size /\ rep.bytes <= chunk
        /\ rep.more \in BOOLEAN /\ rep.next \in Int
        /\ rep.more <=> start + rep.bytes < size
        /\ rep.more => /\ rep.next = start + rep.bytes
                       /\ rep.bytes >= RECORD_SIZE
                       /\ rep.bytes % RECORD_SIZE = 0
        /\ ~rep.more => rep.next = -1
    BY PageReplyFact, Zenon
  <2>2. rep.bytes = IF start < size THEN end - start ELSE 0
    BY DEF PageReply
  <2>3. end \in start .. size
    BY PageEndFact
  <2> HIDE DEF rep, end
  <2>4. QED
    BY <2>1, <2>2, <2>3
<1>5. rep.next = IF end < size THEN end ELSE -1
  BY DEF PageReply
<1> HIDE DEF m, end, rep
<1>6. /\ rep.more <=> start + chunk < size
      /\ rep.more => rep.next = start + m
  BY <1>1, <1>2, <1>3, <1>4, <1>5
<1>7. QED
  BY <1>6 DEF rep, m

(* The reply for any offset, past the end of the payload too.              *)
LEMMA PageReplyAnywhere ==
    ASSUME NEW start \in Int, NEW size \in Nat, NEW chunk \in Int, chunk >= RECORD_SIZE
    PROVE  LET rep == PageReply(start, chunk, size) IN
           /\ rep.bytes \in Int /\ rep.more \in BOOLEAN /\ rep.next \in Int
           /\ rep.more => rep.next = start + rep.bytes
<1> DEFINE end == PageEnd(start, chunk, size)
           rep == PageReply(start, chunk, size)
<1>1. end \in Int /\ (end < size => start < size)
  <2> DEFINE m == ((Least(start + chunk, size) - start) \div RECORD_SIZE) * RECORD_SIZE
  <2>1. m \in Int
    BY DEF Least, RECORD_SIZE
  <2>2. end = IF Least(start + chunk, size) < size /\ start + m > start
              THEN start + m ELSE Least(start + chunk, size)
    BY DEF PageEnd
  <2> HIDE DEF m, end
  <2>3. QED
    BY <2>1, <2>2 DEF Least, RECORD_SIZE
<1>2. rep = [ bytes |-> IF start < size THEN end - start ELSE 0,
              more  |-> end < size,
              next  |-> IF end < size THEN end ELSE -1 ]
  BY DEF PageReply
<1> HIDE DEF end, rep
<1>3. /\ rep.bytes = IF start < size THEN end - start ELSE 0
      /\ rep.next = IF end < size THEN end ELSE -1
  BY <1>2
<1>4. rep.more = (end < size)
  BY <1>2
<1>5. CASE end < size
  <2>1. rep.more
    BY <1>4, <1>5
  <2>2. rep.more \in BOOLEAN
    BY <1>4, <1>5
  <2>3. rep.bytes \in Int /\ rep.next \in Int /\ rep.next = start + rep.bytes
    BY <1>1, <1>3, <1>5
  <2>4. QED
    BY <2>1, <2>2, <2>3 DEF rep
<1>6. CASE ~(end < size)
  <2>1. (end < size) = FALSE
    BY <1>6
  <2>2. rep.more = FALSE
    BY <1>4, <2>1, Zenon
  <2>3. rep.bytes \in Int /\ rep.next \in Int
    BY <1>1, <1>3, <1>6
  <2>4. rep.more \in BOOLEAN /\ ~rep.more
    BY <2>2, Zenon
  <2>5. QED
    BY <2>3, <2>4 DEF rep
<1>7. QED
  BY <1>5, <1>6

-----------------------------------------------------------------------------

(* has_more says whether anything is left, offset where it begins.         *)
LoopInv ==
    /\ TypeOK
    /\ has_more => offset \in 0 .. total /\ offset % RECORD_SIZE = 0 /\ got = offset
    /\ ~has_more => got = total

(* Sums of whole records are whole records.                                *)
LEMMA Remainders ==
    ASSUME NEW m \in Nat, NEW n \in Nat, m % RECORD_SIZE = 0, n % RECORD_SIZE = 0
    PROVE  (m + n) % RECORD_SIZE = 0
BY SMT DEF RECORD_SIZE

(* The invariant of the loop holds at first.                               *)
LEMMA LoopInitially == Init => LoopInv
<1> SUFFICES ASSUME Init PROVE LoopInv
  OBVIOUS
<1>1. total \in Nat /\ requested \in Int
  BY PagingAssumption DEF Init, PagingAssumption
<1>2. has_more = TRUE /\ offset = 0 /\ got = 0 /\ calls = 0
  BY DEF Init
<1>3. 0 % RECORD_SIZE = 0
  BY DEF RECORD_SIZE
<1>4. TypeOK
  BY <1>1, <1>2 DEF Init, TypeOK
<1>5. QED
  BY <1>1, <1>2, <1>3, <1>4 DEF LoopInv

(* One call: what the page adds to what the client holds.                  *)
LEMMA CallFact ==
    ASSUME LoopInv, QueryOnce
    PROVE  /\ has_more /\ has_more' \in BOOLEAN
           /\ total' = total /\ requested' = requested /\ calls' = calls + 1
           /\ has_more' =>
                 /\ offset' \in 0 .. total /\ offset' % RECORD_SIZE = 0
                 /\ got' = offset'
                 /\ offset' - offset >= RECORD_SIZE
                 /\ offset' - offset <= ChunkBytes(requested)
           /\ ~has_more' => got' = total /\ offset' = -1
<1> DEFINE rep == PageReply(offset, ChunkBytes(requested), total)
<1>1. total \in Nat /\ requested \in Int
  BY PagingAssumption DEF LoopInv, TypeOK, PagingAssumption
<1>2. /\ has_more
      /\ offset \in Nat /\ offset <= total
      /\ offset % RECORD_SIZE = 0 /\ got = offset
  BY <1>1 DEF LoopInv, QueryOnce
<1>3. ChunkBytes(requested) \in Int /\ ChunkBytes(requested) >= RECORD_SIZE
  <2>1. ChunkBytes(requested) \in RECORD_SIZE .. MAX_CHUNK_BYTES
    BY <1>1, ChunkBytesFact
  <2>2. RECORD_SIZE \in Int /\ MAX_CHUNK_BYTES \in Int
    BY SMT DEF RECORD_SIZE, MAX_CHUNK_BYTES
  <2>3. QED
    BY <2>1, <2>2
<1>4. /\ rep.bytes \in Nat /\ offset + rep.bytes <= total /\ rep.bytes <= ChunkBytes(requested)
      /\ rep.more \in BOOLEAN
      /\ rep.more <=> offset + rep.bytes < total
      /\ rep.more => /\ rep.next = offset + rep.bytes
                     /\ rep.bytes >= RECORD_SIZE
                     /\ rep.bytes % RECORD_SIZE = 0
      /\ ~rep.more => rep.next = -1
  BY <1>1, <1>2, <1>3, PageReplyFact
<1>5. /\ got' = got + rep.bytes /\ offset' = rep.next
      /\ total' = total /\ requested' = requested /\ calls' = calls + 1
  BY DEF QueryOnce
<1>6. has_more' = rep.more
  BY DEF QueryOnce
<1> HIDE DEF rep
<1>7. CASE rep.more
  <2>1. offset' % RECORD_SIZE = 0
    BY <1>2, <1>4, <1>5, <1>7, Remainders
  <2>2. /\ offset' \in 0 .. total /\ got' = offset'
        /\ offset' - offset >= RECORD_SIZE
        /\ offset' - offset <= ChunkBytes(requested)
    BY <1>1, <1>2, <1>3, <1>4, <1>5, <1>7
  <2>3. QED
    BY <1>2, <1>4, <1>5, <1>6, <1>7, <2>1, <2>2
<1>8. CASE ~rep.more
  <2>1. got' = total /\ offset' = -1
    BY <1>1, <1>2, <1>4, <1>5, <1>8
  <2>2. QED
    BY <1>2, <1>4, <1>5, <1>6, <1>8, <2>1
<1>9. QED
  BY <1>7, <1>8

(* Every call keeps the invariant of the loop.                             *)
LEMMA LoopPreserved == LoopInv /\ [Next]_vars => LoopInv'
<1>1. ASSUME LoopInv, UNCHANGED vars PROVE LoopInv'
  BY <1>1 DEF vars, LoopInv, TypeOK
<1>2. ASSUME LoopInv, QueryOnce PROVE LoopInv'
  <2>1. total \in Nat /\ calls \in Nat /\ total \in Totals /\ requested \in Requests
    BY <1>2, PagingAssumption DEF LoopInv, TypeOK, PagingAssumption
  <2>2. /\ total' = total /\ requested' = requested /\ calls' = calls + 1
        /\ has_more' \in BOOLEAN
    BY <1>2, CallFact
  <2>3. /\ offset' \in -1 .. total /\ got' \in 0 .. total
        /\ has_more' => /\ offset' \in 0 .. total /\ offset' % RECORD_SIZE = 0
                        /\ got' = offset'
        /\ ~has_more' => got' = total
    BY <1>2, <2>1, CallFact
  <2>4. TypeOK'
    BY <2>1, <2>2, <2>3 DEF TypeOK
  <2>5. QED
    BY <2>2, <2>3, <2>4 DEF LoopInv
<1>3. QED
  BY <1>1, <1>2 DEF Next

(* The invariant of the loop holds always.                                 *)
LEMMA LoopInvariant == Spec => []LoopInv
BY LoopInitially, LoopPreserved, PTL DEF Spec

-----------------------------------------------------------------------------
(* The pages of a request follow one another without gap or overlap and    *)
(* together are the payload.                                               *)
THEOREM PagesTileThePayload == Spec => []PagesTile
<1>1. LoopInv => PagesTile
  BY DEF LoopInv, PagesTile
<1>2. QED
  BY <1>1, LoopInvariant, PTL

(* The client never receives half a record.                                *)
THEOREM RecordsStayWhole == Spec => []WholeRecords
<1>1. LoopInv => WholeRecords
  <2> SUFFICES ASSUME LoopInv PROVE got % RECORD_SIZE = 0
    BY DEF WholeRecords
  <2>1. total \in Totals
    BY DEF LoopInv, TypeOK
  <2>2. total % RECORD_SIZE = 0
    BY <2>1, PagingAssumption DEF PagingAssumption
  <2>3. QED
    BY <2>2 DEF LoopInv
<1>2. QED
  BY <1>1, LoopInvariant, PTL

(* Every page but the last moves the offset on by a record or more, and by *)
(* a chunk at most.                                                        *)
THEOREM EveryPageProgresses == Spec => PagesProgress
<1>1. LoopInv /\ [Next]_vars =>
        [has_more' => /\ offset' - offset >= RECORD_SIZE
                      /\ offset' - offset <= ChunkBytes(requested)]_vars
  BY CallFact DEF Next
<1>2. QED
  BY <1>1, LoopInvariant, PTL DEF Spec, PagesProgress
-----------------------------------------------------------------------------
PerPage == ChunkBytes(requested) \div RECORD_SIZE

(* While more is to come every call has brought a full page; the records   *)
(* that are left decide which call is the last.                            *)
CountInv ==
    /\ LoopInv
    /\ has_more => /\ offset = calls * PerPage * RECORD_SIZE
                   /\ calls = 0 \/ offset < total
    /\ CallCount

(* A quotient from the bounds on its remainder.                            *)
LEMMA Quotient ==
    ASSUME NEW n \in Nat, NEW w \in Nat, w > 0, NEW k \in Nat,
           k * w <= n, n < (k + 1) * w
    PROVE  n \div w = k
<1>1. PICK q \in Nat, r \in Nat : q = n \div w /\ n = q * w + r /\ r < w
  <2>1. n \div w \in Nat /\ n % w \in 0 .. w - 1 /\ n = (n \div w) * w + (n % w)
    OBVIOUS
  <2>2. QED
    BY <2>1
<1>2. ~(q < k)
  <2> SUFFICES ASSUME q < k PROVE FALSE
    OBVIOUS
  <2>1. PICK e \in Nat : k = q + 1 + e
    <3>1. k - q - 1 \in Nat /\ k = q + 1 + (k - q - 1)
      OBVIOUS
    <3>2. QED
      BY <3>1
  <2>2. k * w = q * w + w + e * w /\ e * w \in Nat
    BY <2>1
  <2>3. QED
    BY <1>1, <2>2
<1>3. ~(q > k)
  <2> SUFFICES ASSUME q > k PROVE FALSE
    OBVIOUS
  <2>1. PICK e \in Nat : q = k + 1 + e
    <3>1. q - k - 1 \in Nat /\ q = k + 1 + (q - k - 1)
      OBVIOUS
    <3>2. QED
      BY <3>1
  <2>2. q * w = (k + 1) * w + e * w /\ e * w \in Nat
    BY <2>1
  <2>3. QED
    BY <1>1, <2>2
<1>4. QED
  BY <1>1, <1>2, <1>3

(* Rounded up: when all pages but the last are full and the last has a     *)
(* record, or is the only page, there are as many as CallsFor says.        *)
LEMMA RoundedUp ==
    ASSUME NEW records \in Nat, NEW p \in Nat, p > 0, NEW c \in Nat,
           records <= (c + 1) * p,
           c = 0 \/ c * p < records
    PROVE  Greatest(1, (records + p - 1) \div p) = c + 1
<1>1. CASE records = 0
  <2>1. c = 0
    <3>1. c * p \in Nat
      OBVIOUS
    <3>2. QED
      BY <1>1, <3>1
  <2>2. p - 1 \in Nat /\ 0 * p <= p - 1 /\ p - 1 < (0 + 1) * p
    OBVIOUS
  <2>3. (p - 1) \div p = 0
    BY <2>2, Quotient, 0 \in Nat
  <2>4. records + p - 1 = p - 1
    BY <1>1
  <2>5. QED
    BY <2>1, <2>3, <2>4 DEF Greatest
<1>2. CASE records > 0
  <2>1. c * p < records
    <3>1. c = 0 => c * p = 0
      OBVIOUS
    <3>2. QED
      BY <1>2, <3>1
  <2>2. PICK n \in Nat : n = records + p - 1
    <3>1. records + p - 1 \in Nat
      OBVIOUS
    <3>2. QED
      BY <3>1
  <2>3. PICK k \in Nat : k = c + 1
    OBVIOUS
  <2>4. k * p = c * p + p /\ (k + 1) * p = k * p + p /\ c * p \in Nat
    BY <2>3
  <2>5. k * p <= n /\ n < (k + 1) * p
    <3>1. records <= k * p
      BY <2>3
    <3>2. QED
      BY <2>1, <2>2, <2>4, <3>1
  <2>6. n \div p = k
    BY <2>5, Quotient
  <2>7. QED
    BY <2>2, <2>3, <2>6 DEF Greatest
<1>3. QED
  BY <1>1, <1>2

(* A call that is answered with more brought a full page, and the one that *)
(* is not is the last of as many as CallsFor says.                         *)
LEMMA CallsCounted ==
    ASSUME CountInv, QueryOnce
    PROVE  CountInv'
<1>1. /\ total \in Nat /\ total % RECORD_SIZE = 0 /\ requested \in Int
      /\ calls \in Nat /\ offset \in Int
  BY PagingAssumption DEF CountInv, LoopInv, TypeOK, PagingAssumption
<1>2. /\ has_more /\ offset \in Nat /\ offset <= total
  BY <1>1 DEF CountInv, LoopInv, QueryOnce
<1> DEFINE chunk == ChunkBytes(requested)
           rep == PageReply(offset, chunk, total)
<1>3. chunk \in Nat /\ chunk >= RECORD_SIZE
  <2>1. chunk \in RECORD_SIZE .. MAX_CHUNK_BYTES
    BY <1>1, ChunkBytesFact
  <2>2. RECORD_SIZE \in Nat /\ MAX_CHUNK_BYTES \in Int
    BY SMT DEF RECORD_SIZE, MAX_CHUNK_BYTES
  <2> HIDE DEF chunk
  <2>3. QED
    BY <2>1, <2>2
<1>4. /\ rep.more <=> offset + chunk < total
      /\ rep.more => rep.next = offset + (chunk \div RECORD_SIZE) * RECORD_SIZE
  <2> HIDE DEF chunk
  <2>1. total \in Nat /\ chunk \in Int /\ chunk >= RECORD_SIZE
    BY <1>1, <1>3
  <2>2. QED
    BY <1>2, <2>1, FullPage, Zenon
<1>5. /\ has_more' = rep.more /\ offset' = rep.next
      /\ total' = total /\ requested' = requested /\ calls' = calls + 1
  BY DEF QueryOnce
<1>6. LoopInv'
  BY LoopPreserved DEF CountInv, Next
<1>7. PICK p \in Nat : p = PerPage /\ p > 0 /\ p * 20 <= chunk /\ chunk < p * 20 + 20
  <2> HIDE DEF chunk
  <2>1. chunk \div 20 \in Nat /\ chunk \div 20 > 0
        /\ (chunk \div 20) * 20 <= chunk /\ chunk < (chunk \div 20) * 20 + 20
    BY <1>3 DEF RECORD_SIZE
  <2>2. PerPage = chunk \div 20
    BY DEF PerPage, chunk, RECORD_SIZE
  <2>3. QED
    BY <2>1, <2>2
<1>8. PICK r \in Nat : total = r * 20 /\ r = total \div RECORD_SIZE
  <2>1. total \div 20 \in Nat /\ total = (total \div 20) * 20
    BY <1>1 DEF RECORD_SIZE
  <2>2. QED
    BY <2>1 DEF RECORD_SIZE
<1>9. PICK d \in Nat : d = calls * p
  <2>1. calls * p \in Nat
    BY <1>1
  <2>2. QED
    BY <2>1
<1>10. offset = d * 20 /\ (calls = 0 \/ d < r)
  <2>1. offset = d * 20
    BY <1>2, <1>7, <1>9 DEF CountInv, RECORD_SIZE
  <2>2. calls = 0 \/ offset < total
    BY <1>2 DEF CountInv
  <2>3. QED
    BY <1>8, <2>1, <2>2
<1>11. (calls + 1) * p = d + p
  BY <1>1, <1>9
<1>12. PerPage' = PerPage
  BY <1>5 DEF PerPage
<1>13. CASE rep.more
  <2>1. offset' = offset + p * 20
    BY <1>4, <1>5, <1>7, <1>13 DEF PerPage, RECORD_SIZE
  <2>2. offset + chunk < total
    BY <1>4, <1>13
  <2>3. has_more'
    BY <1>5, <1>13
  <2> HIDE DEF chunk, rep
  <2>4. offset' < total
    BY <1>1, <1>2, <1>3, <1>7, <2>1, <2>2
  <2>5. offset' = calls' * PerPage' * RECORD_SIZE
    <3>1. offset' = (d + p) * 20
      BY <1>10, <2>1
    <3>2. calls' * PerPage' = d + p
      BY <1>5, <1>7, <1>11, <1>12
    <3>3. QED
      BY <3>1, <3>2 DEF RECORD_SIZE
  <2>6. QED
    BY <1>5, <1>6, <2>3, <2>4, <2>5 DEF CountInv, CallCount
<1>14. CASE ~rep.more
  <2>1. ~has_more'
    BY <1>5, <1>14
  <2>2. ~(offset + chunk < total)
    BY <1>4, <1>14
  <2> HIDE DEF chunk, rep
  <2>3. r <= d + p
    BY <1>2, <1>3, <1>7, <1>8, <1>10, <2>2
  <2>4. r <= (calls + 1) * p /\ (calls = 0 \/ calls * p < r)
    BY <1>9, <1>10, <1>11, <2>3
  <2>5. Greatest(1, (r + p - 1) \div p) = calls + 1
    <3>1. r \in Nat /\ p \in Nat /\ p > 0 /\ calls \in Nat
      BY <1>1, <1>7
    <3>2. QED
      BY <2>4, <3>1, RoundedUp
  <2>6. CallsFor(total, requested) = calls + 1
    BY <1>7, <1>8, <2>5 DEF CallsFor, PerPage
  <2>7. CallCount'
    BY <1>5, <2>6 DEF CallCount
  <2>8. QED
    BY <1>6, <2>1, <2>7 DEF CountInv
<1>15. QED
  BY <1>13, <1>14

(* The loop makes one call per full page of records and one for the rest,  *)
(* and a single one for an empty payload: the page counts of the results   *)
(* tables, for every payload and every chunk size.                         *)
THEOREM CallsAreCounted == Spec => []CallCount
<1>1. Init => CountInv
  <2> SUFFICES ASSUME Init PROVE CountInv
    OBVIOUS
  <2>1. has_more = TRUE /\ calls = 0 /\ offset = 0 /\ requested \in Int
    BY PagingAssumption DEF Init, PagingAssumption
  <2>2. PerPage \in Int
    <3>1. ChunkBytes(requested) \in RECORD_SIZE .. MAX_CHUNK_BYTES
      BY <2>1, ChunkBytesFact
    <3>2. RECORD_SIZE \in Int /\ MAX_CHUNK_BYTES \in Int
      BY SMT DEF RECORD_SIZE, MAX_CHUNK_BYTES
    <3>3. ChunkBytes(requested) \in Int
      BY <3>1, <3>2
    <3>4. QED
      BY <3>3 DEF PerPage, RECORD_SIZE
  <2>3. offset = calls * PerPage * RECORD_SIZE
    BY <2>1, <2>2 DEF RECORD_SIZE
  <2>4. QED
    BY <2>1, <2>3, LoopInitially DEF CountInv, CallCount
<1>2. CountInv /\ [Next]_vars => CountInv'
  <2>1. ASSUME CountInv, UNCHANGED vars PROVE CountInv'
    <3>1. LoopInv'
      BY <2>1, LoopPreserved DEF CountInv
    <3>2. QED
      BY <2>1, <3>1 DEF CountInv, vars, PerPage, CallCount
  <2>2. QED
    BY <2>1, CallsCounted DEF Next
<1>3. CountInv => CallCount
  BY DEF CountInv
<1>4. QED
  BY <1>1, <1>2, <1>3, PTL DEF Spec
=============================================================================
