--------------------------- MODULE Leader_proofs ---------------------------
(***************************************************************************)
(* Proofs about Leader for every set of sessions, client ids and children. *)
(***************************************************************************)
EXTENDS LeaderImpl, TLAPS

(* A restarted child holds what it held before: its shard is still there.  *)
ShardsStay == \A d \in Reloads, k \in Children : d = Loaded[k]

(* Where a handler is, against its client and its place in the queue.      *)
HandlerInv ==
    \A s \in Sessions :
        /\ client[s] \in {"ready", "done", "failed"} => stage[s] = "none"
        /\ client[s] = "calling" => stage[s] # "none"
        /\ stage[s] = "queue" => pc[s] \in {"asleep", "awake", "turn"}
        /\ stage[s] = "return" => pc[s] = "notify"

Answered == {"release", "return", "sent"}

(* What the handler's locals and the cache hold.                           *)
PayloadOf(s) ==
    /\ cache[s] \in Payload \cup {NoPayload}
    /\ stage[s] = "gather" =>
          /\ cache[s] = NoPayload
          /\ parts[s] \in [Children -> Contents \cup {Pending, Failed}]
    /\ stage[s] \in {"page", "evict"} => full[s] \in Payload
    /\ stage[s] \in Answered \cup {"evict"} /\ reply[s].status = "OK" =>
          reply[s].from \in Payload
    /\ stage[s] = "evict" => reply[s].status = "OK" /\ ~reply[s].more
    /\ stage[s] \in Answered =>
          /\ reply[s].status = "INTERNAL" => cache[s] = NoPayload
          /\ reply[s].status = "OK" /\ ~reply[s].more => cache[s] = NoPayload
          /\ reply[s].status = "CANCELLED" => client[s] = "gone"

PayloadInv == \A s \in Sessions : PayloadOf(s)

(* A page against the offset its client asked for, and what a client has   *)
(* received.                                                               *)
ClientOK(s) ==
    /\ stage[s] \in Answered \cup {"evict"} /\ reply[s].status = "OK" /\ reply[s].more =>
          reply[s].next = offset[s] + reply[s].bytes
    /\ sources[s] \subseteq Payload
    /\ client[s] \in {"ready", "calling"} => got[s] = offset[s]
    /\ client[s] \in {"done", "failed"} => cache[s] = NoPayload

ClientInv == \A s \in Sessions : ClientOK(s)

(* A page at an offset, out of the whole payload: no larger than the chunk, *)
(* in whole records if it is not the last, and with all the rest if it is. *)
WholePart(at, bytes, more, requested) ==
    /\ bytes \in Nat /\ bytes <= ChunkBytes(requested)
    /\ at + bytes <= SizeOf[Loaded]
    /\ more => /\ bytes >= RECORD_SIZE /\ bytes % RECORD_SIZE = 0
               /\ at + bytes < SizeOf[Loaded]
    /\ ~more => at + bytes = SizeOf[Loaded]

(* With shards that stay there is one payload, and every page is a part of *)
(* it.                                                                     *)
WholeOf(s) ==
    /\ cache[s] \in {Loaded, NoPayload}
    /\ stage[s] = "gather" =>
          \A k \in Children : parts[s][k] \in {Loaded[k], Pending, Failed}
    /\ stage[s] \in {"page", "evict"} => full[s] = Loaded
    /\ sources[s] \subseteq {Loaded}
    /\ client[s] \in {"ready", "calling"} => offset[s] \in 0 .. SizeOf[Loaded]
    /\ client[s] = "done" => got[s] = SizeOf[Loaded]
    /\ stage[s] \in Answered \cup {"evict"} /\ reply[s].status = "OK" =>
          /\ reply[s].from = Loaded
          /\ client[s] = "calling" =>
                WholePart(offset[s], reply[s].bytes, reply[s].more, Requested[s])

WholeInv == data = Loaded /\ \A s \in Sessions : WholeOf(s)

-----------------------------------------------------------------------------
(* The page arithmetic is that of PagingLoop_proofs, whose own loop plays  *)
(* no part here.                                                           *)
PL == INSTANCE PagingLoop_proofs WITH
    Totals   <- {0},
    Requests <- {0},
    total    <- 0,
    requested <- 0,
    offset   <- 0,
    has_more <- FALSE,
    got      <- 0,
    calls    <- 0

LEMMA PagingAssumed == PL!PagingAssumption
BY DEF PL!PagingAssumption, PL!RECORD_SIZE

(* The two instances of the page arithmetic are the same.                  *)
LEMMA SamePaging ==
    /\ PL!RECORD_SIZE = RECORD_SIZE /\ PL!MAX_CHUNK_BYTES = MAX_CHUNK_BYTES
    /\ \A r : PL!ChunkBytes(r) = ChunkBytes(r)
    /\ \A start, chunk, size : PL!PageReply(start, chunk, size) = PageReply(start, chunk, size)
<1>1. \A a, b : PL!Least(a, b) = Least(a, b) /\ PL!Greatest(a, b) = Greatest(a, b)
  BY Zenon DEF PL!Least, Least, PL!Greatest, Greatest
<1>2. /\ PL!RECORD_SIZE = RECORD_SIZE
      /\ PL!DEFAULT_CHUNK_BYTES = DEFAULT_CHUNK_BYTES
  BY DEF PL!RECORD_SIZE, RECORD_SIZE, PL!DEFAULT_CHUNK_BYTES, DEFAULT_CHUNK_BYTES
<1>3. PL!MAX_CHUNK_BYTES = MAX_CHUNK_BYTES
  BY SMT DEF PL!MAX_CHUNK_BYTES, MAX_CHUNK_BYTES
<1>4. \A start, chunk, size : PL!PageEnd(start, chunk, size) = PageEnd(start, chunk, size)
  BY <1>1, <1>2 DEF PL!PageEnd, PageEnd
<1>5. QED
  BY <1>1, <1>2, <1>3, <1>4 DEF PL!ChunkBytes, ChunkBytes, PL!PageReply, PageReply

LEMMA ChunkBytesFact ==
    ASSUME NEW r \in Int
    PROVE  ChunkBytes(r) \in RECORD_SIZE .. MAX_CHUNK_BYTES
BY PagingAssumed, SamePaging, PL!ChunkBytesFact

-----------------------------------------------------------------------------
(* The queue inside the leader is the FairQueue of FairQueue_proofs; the   *)
(* history variable and the constant of its order play no part here.       *)
FQP == INSTANCE FairQueue_proofs WITH
    Handlers <- Sessions,
    seen     <- [s \in Sessions |-> debt],
    Nobody   <- CHOOSE n : n \notin Sessions

(* The leader's constants meet the assumptions of the queue.               *)
LEMMA QueueAssumed == FQP!QueueAssumption /\ FQP!NobodyAssumption
<1>1. FQP!QueueAssumption
  BY LeaderAssumption DEF LeaderAssumption, FQP!QueueAssumption
<1>2. \E n : n \notin Sessions
  <2> DEFINE outside == {s \in Sessions : s \notin s}
  <2>1. outside \notin Sessions
    OBVIOUS
  <2>2. QED
    BY <2>1
<1>3. FQP!NobodyAssumption
  BY <1>2 DEF FQP!NobodyAssumption
<1>4. QED
  BY <1>1, <1>3

(* The two instances of the queue have the same actions.                   *)
LEMMA SameActions ==
    ASSUME NEW s \in Sessions
    PROVE  /\ FQ!Acquire(s) => FQP!Acquire(s)
           /\ FQ!Recheck(s) => FQP!Recheck(s)
           /\ FQ!SpuriousWake(s) => FQP!SpuriousWake(s)
           /\ FQ!Release(s) => FQP!Release(s)
           /\ FQ!NotifyAll(s) => FQP!NotifyAll(s)
BY Zenon DEF FQ!Acquire, FQ!AcquireEnter, FQ!AcquireSleep, FQ!Recheck, FQ!WakeEnter,
       FQ!WakeSleep, FQ!SpuriousWake, FQ!Release, FQ!NotifyAll, FQ!Enter,
       FQ!NewTicket, FQ!MayEnter, FQ!Before, FQ!NoTicket,
       FQP!Acquire, FQP!AcquireEnter, FQP!AcquireSleep, FQP!Recheck, FQP!WakeEnter,
       FQP!WakeSleep, FQP!SpuriousWake, FQP!Release, FQP!NotifyAll, FQP!Enter,
       FQP!NewTicket, FQP!MayEnter, FQP!Before, FQP!NoTicket

(* The two instances of the queue have the same state predicates.          *)
LEMMA SameState ==
    /\ FQ!TypeOK <=> FQP!TypeOK
    /\ FQ!Init <=> FQP!Init
    /\ FQ!vars = FQP!vars
BY Zenon DEF FQ!TypeOK, FQ!Ticket, FQ!Places, FQ!Init, FQ!NoTicket, FQ!vars,
       FQP!TypeOK, FQP!Ticket, FQP!Places, FQP!Init, FQP!NoTicket, FQP!vars

(* Every step of the leader is a step of its queue or leaves it alone.     *)
LEMMA LeaderStepIsQueueStep ==
    ASSUME [Next]_vars PROVE [FQP!Next]_(FQP!vars)
<1>1. ASSUME NEW s \in Sessions,
             FQ!Acquire(s) \/ FQ!Recheck(s) \/ FQ!SpuriousWake(s)
                 \/ FQ!Release(s) \/ FQ!NotifyAll(s)
      PROVE  FQP!Next
  BY <1>1, SameActions DEF FQP!Next, FQP!Step
<1>2. ASSUME UNCHANGED fqVars PROVE UNCHANGED FQP!vars
  BY <1>2 DEF fqVars, FQP!vars
<1>3. ASSUME NEW s \in Sessions, Client(s) \/ Leave(s) PROVE UNCHANGED fqVars
  BY <1>3 DEF Client, SendQuery, ReceiveError, ReceivePage, DropReply, Leave
<1>4. ASSUME NEW s \in Sessions, Handler(s) PROVE [FQP!Next]_(FQP!vars)
  <2>1. CASE Acquire(s) \/ Recheck(s) \/ Release(s) \/ Return(s)
    BY <1>1, <2>1 DEF Acquire, Recheck, Release, Return
  <2>2. CASE Cancelled(s) \/ NotCancelled(s) \/ CacheHit(s) \/ CacheMiss(s)
               \/ Gather(s) \/ Page(s) \/ Evict(s)
    BY <1>2, <2>2 DEF Cancelled, NotCancelled, CacheHit, CacheMiss, Gather, FetchOk,
                      FetchFails, GatherFails, GatherOk, Page, Evict
  <2>3. QED
    BY <1>4, <2>1, <2>2 DEF Handler
<1>5. ASSUME NEW s \in Sessions, SpuriousWake(s) PROVE FQP!Next
  BY <1>1, <1>5 DEF SpuriousWake
<1>6. ASSUME Reaper \/ Nodes PROVE UNCHANGED fqVars
  BY <1>6 DEF Reaper, Tick, Sweep, Nodes, Crash, Restart
<1>7. ASSUME UNCHANGED vars PROVE UNCHANGED fqVars
  BY <1>7 DEF vars, fqVars
<1>8. QED
  BY <1>2, <1>3, <1>4, <1>5, <1>6, <1>7 DEF Next

(* The leader acquires and releases its queue as FairQueue allows, so what *)
(* is proved of FairQueue holds in the leader.                             *)
THEOREM UsesFairQueue == Spec => FQP!Spec
<1>1. Init => FQP!Init
  BY SameState DEF Init
<1>2. [Next]_vars => [FQP!Next]_(FQP!vars)
  BY LeaderStepIsQueueStep
<1>3. QED
  BY <1>1, <1>2, PTL DEF Spec, FQP!Spec

(* What an operation of the queue does to the handlers' places.            *)
LEMMA QueueFrame ==
    ASSUME FQ!TypeOK, NEW s \in Sessions
    PROVE  /\ FQ!Acquire(s) =>
                /\ pc[s] = "out" /\ pc'[s] \in {"asleep", "turn"}
                /\ \A t \in Sessions \ {s} : pc'[t] = pc[t]
           /\ FQ!Recheck(s) =>
                /\ pc[s] = "awake" /\ pc'[s] \in {"asleep", "turn"}
                /\ \A t \in Sessions \ {s} : pc'[t] = pc[t]
           /\ FQ!SpuriousWake(s) =>
                /\ pc[s] = "asleep" /\ pc'[s] = "awake"
                /\ \A t \in Sessions \ {s} : pc'[t] = pc[t]
           /\ FQ!Release(s) =>
                /\ pc[s] = "turn" /\ pc'[s] = "notify"
                /\ \A t \in Sessions \ {s} : pc'[t] = pc[t]
           /\ FQ!NotifyAll(s) =>
                /\ pc[s] = "notify" /\ pc'[s] = "out"
                /\ \A t \in Sessions \ {s} :
                      pc'[t] = pc[t] \/ (pc[t] = "asleep" /\ pc'[t] = "awake")
<1> USE DEF FQ!TypeOK, FQ!Places, FQ!Enter
<1>1. FQ!Acquire(s) =>
        /\ pc[s] = "out" /\ pc'[s] \in {"asleep", "turn"}
        /\ \A t \in Sessions \ {s} : pc'[t] = pc[t]
  BY DEF FQ!Acquire, FQ!AcquireEnter, FQ!AcquireSleep
<1>2. FQ!Recheck(s) =>
        /\ pc[s] = "awake" /\ pc'[s] \in {"asleep", "turn"}
        /\ \A t \in Sessions \ {s} : pc'[t] = pc[t]
  BY DEF FQ!Recheck, FQ!WakeEnter, FQ!WakeSleep
<1>3. FQ!SpuriousWake(s) =>
        /\ pc[s] = "asleep" /\ pc'[s] = "awake"
        /\ \A t \in Sessions \ {s} : pc'[t] = pc[t]
  BY DEF FQ!SpuriousWake
<1>4. FQ!Release(s) =>
        /\ pc[s] = "turn" /\ pc'[s] = "notify"
        /\ \A t \in Sessions \ {s} : pc'[t] = pc[t]
  BY DEF FQ!Release
<1>5. FQ!NotifyAll(s) =>
        /\ pc[s] = "notify" /\ pc'[s] = "out"
        /\ \A t \in Sessions \ {s} :
              pc'[t] = pc[t] \/ (pc[t] = "asleep" /\ pc'[t] = "awake")
  BY DEF FQ!NotifyAll
<1>6. QED
  BY <1>1, <1>2, <1>3, <1>4, <1>5

-----------------------------------------------------------------------------
(* The discipline of a handler: its stage against its place in the queue   *)
(* and against its client.                                                 *)
Discipline == NoTurnLeaked /\ HandlerInv

ClientStates == {"ready", "calling", "done", "failed", "gone"}

(* Stages of QueryOnce and places in the queue stay in step.               *)
LEMMA DisciplinePreserved ==
    ASSUME TypeOK, Discipline, [Next]_vars PROVE Discipline'
<1> USE DEF Discipline, NoTurnLeaked, HandlerInv
<1>0. /\ FQ!TypeOK
      /\ stage \in [Sessions -> Stages] /\ client \in [Sessions -> ClientStates]
      /\ pc \in [Sessions -> FQ!Places]
  BY DEF TypeOK, FQ!TypeOK, ClientStates
<1>1. ASSUME NEW s \in Sessions, SendQuery(s) \/ ReceiveError(s) \/ ReceivePage(s)
                                   \/ DropReply(s) \/ Leave(s)
      PROVE  Discipline'
  <2>1. pc' = pc
    BY <1>1 DEF SendQuery, ReceiveError, ReceivePage, DropReply, Leave, fqVars
  <2>2. CASE SendQuery(s)
    BY <1>0, <2>1, <2>2 DEF SendQuery
  <2>3. CASE ReceiveError(s) \/ ReceivePage(s)
    <3>1. /\ stage[s] = "sent" /\ client[s] = "calling"
          /\ stage' = [stage EXCEPT ![s] = "none"]
          /\ \E w \in {"ready", "done", "failed"} : client' = [client EXCEPT ![s] = w]
      BY <2>3 DEF ReceiveError, ReceivePage
    <3>2. QED
      BY <1>0, <2>1, <3>1
  <2>4. CASE DropReply(s)
    BY <1>0, <2>1, <2>4 DEF DropReply, clientVars
  <2>5. CASE Leave(s)
    BY <1>0, <2>1, <2>5 DEF Leave, handlerVars
  <2>6. QED
    BY <1>1, <2>2, <2>3, <2>4, <2>5
<1>2. ASSUME NEW s \in Sessions, Acquire(s) PROVE Discipline'
  <2>1. /\ stage[s] = "arrived" /\ stage' = [stage EXCEPT ![s] = "queue"]
        /\ client' = client
        /\ pc'[s] \in {"asleep", "turn"} /\ \A t \in Sessions \ {s} : pc'[t] = pc[t]
    BY <1>0, <1>2, QueueFrame DEF Acquire, clientVars
  <2>2. QED
    BY <1>0, <2>1
<1>3. ASSUME NEW s \in Sessions, Recheck(s) \/ SpuriousWake(s) PROVE Discipline'
  <2>1. /\ stage' = stage /\ client' = client
        /\ pc[s] \in {"asleep", "awake"} /\ pc'[s] \in {"asleep", "awake", "turn"}
        /\ \A t \in Sessions \ {s} : pc'[t] = pc[t]
    BY <1>0, <1>3, QueueFrame DEF Recheck, SpuriousWake, handlerVars, clientVars
  <2>2. stage[s] = "queue"
    BY <1>0, <2>1 DEF Stages
  <2>3. QED
    BY <1>0, <2>1, <2>2
<1>4. ASSUME NEW s \in Sessions, Release(s) PROVE Discipline'
  <2>1. /\ stage[s] = "release" /\ stage' = [stage EXCEPT ![s] = "return"]
        /\ client' = client
        /\ pc'[s] = "notify" /\ \A t \in Sessions \ {s} : pc'[t] = pc[t]
    BY <1>0, <1>4, QueueFrame DEF Release, clientVars
  <2>2. QED
    BY <1>0, <2>1
<1>5. ASSUME NEW s \in Sessions, Return(s) PROVE Discipline'
  <2>1. /\ stage[s] = "return" /\ stage' = [stage EXCEPT ![s] = "sent"]
        /\ client' = client
        /\ pc'[s] = "out"
        /\ \A t \in Sessions \ {s} :
              pc'[t] = pc[t] \/ (pc[t] = "asleep" /\ pc'[t] = "awake")
    BY <1>0, <1>5, QueueFrame DEF Return, clientVars
  <2>2. QED
    BY <1>0, <2>1
<1>6. ASSUME NEW s \in Sessions,
             Cancelled(s) \/ NotCancelled(s) \/ CacheHit(s) \/ CacheMiss(s)
                \/ GatherFails(s) \/ GatherOk(s) \/ Page(s) \/ Evict(s)
      PROVE  Discipline'
  <2>1. /\ pc' = pc /\ client' = client
        /\ \/ stage[s] = "queue" /\ pc[s] = "turn"
           \/ stage[s] \in {"lookup", "gather", "page", "evict"}
        /\ \E w \in {"lookup", "gather", "page", "evict", "release"} :
              stage' = [stage EXCEPT ![s] = w]
    BY <1>6 DEF Cancelled, NotCancelled, CacheHit, CacheMiss, GatherFails, GatherOk,
                Joined, Page, Evict, fqVars, clientVars
  <2>2. pc[s] = "turn"
    BY <2>1
  <2>3. QED
    BY <1>0, <2>1, <2>2
<1>7. ASSUME UNCHANGED <<fqVars, stage, client>> PROVE Discipline'
  BY <1>7 DEF fqVars
<1>8. ASSUME NEW s \in Sessions, NEW k \in Children, FetchOk(s, k) \/ FetchFails(s, k)
      PROVE  Discipline'
  BY <1>7, <1>8 DEF FetchOk, FetchFails, clientVars
<1>9. ASSUME Reaper \/ Nodes \/ UNCHANGED vars PROVE Discipline'
  BY <1>7, <1>9 DEF Reaper, Tick, Sweep, Nodes, Crash, Restart, vars, handlerVars, clientVars
<1>10. QED
  BY <1>1, <1>2, <1>3, <1>4, <1>5, <1>6, <1>8, <1>9 DEF Next, Client, Handler, Gather

-----------------------------------------------------------------------------
(* The types of the leader's own state, the queue's left aside.            *)
Replies == [status : Statuses, bytes : Int, more : BOOLEAN, next : Int, from : Parts]

Shape ==
    /\ stage \in [Sessions -> Stages]
    /\ parts \in [Sessions -> Parts]
    /\ full \in [Sessions -> Parts]
    /\ reply \in [Sessions -> Replies]
    /\ cache \in [Sessions -> Parts]
    /\ age \in [Sessions -> 0 .. CacheTTL + 1]
    /\ client \in [Sessions -> ClientStates]
    /\ offset \in [Sessions -> Int]
    /\ got \in [Sessions -> Int]
    /\ sources \in [Sessions -> SUBSET Parts]
    /\ up \in [Children -> BOOLEAN]
    /\ data \in Payload
    /\ crashes \in Nat

(* The leader's types are the queue's and its own.                         *)
LEMMA TypeIsShape == TypeOK <=> FQ!TypeOK /\ Shape
BY DEF TypeOK, Shape, Replies, ClientStates

(* Payloads are parts.                                                     *)
LEMMA PayloadTypes ==
    /\ NoPayload \in Parts /\ AllPending \in Parts /\ Payload \subseteq Parts
    /\ \A p \in Parts, k \in Children, x \in Contents \cup {Failed} :
           [p EXCEPT ![k] = x] \in Parts
BY DEF NoPayload, AllPending, Parts, Payload

(* The fields of a reply.                                                  *)
LEMMA ReplyRecord ==
    ASSUME NEW st \in Statuses, NEW b \in Int, NEW m \in BOOLEAN, NEW n \in Int,
           NEW p \in Parts
    PROVE  [status |-> st, bytes |-> b, more |-> m, next |-> n, from |-> p] \in Replies
BY Zenon DEF Replies

(* The replies without a segment.                                          *)
LEMMA ReplyTypes ==
    /\ NoReply \in Replies
    /\ BareReply("CANCELLED") \in Replies /\ BareReply("INTERNAL") \in Replies
<1>1. NoPayload \in Parts /\ FALSE \in BOOLEAN
  BY PayloadTypes, Zenon
<1>2. 0 \in Int
  OBVIOUS
<1>3. \A st \in Statuses : BareReply(st) \in Replies
  BY <1>1, <1>2, ReplyRecord, Zenon DEF BareReply
<1>4. QED
  BY <1>3 DEF NoReply, Statuses

(* The reply of Page, for any payload and offset.                          *)
PageAnswer(s) ==
    LET rep == PageReply(offset[s], ChunkBytes(Requested[s]), SizeOf[full[s]])
    IN  [status |-> "OK", bytes |-> rep.bytes, more |-> rep.more,
         next |-> rep.next, from |-> full[s]]

(* What a page is, from the facts of the page arithmetic.                  *)
LEMMA PageAnswerFact ==
    ASSUME Shape, NEW s \in Sessions, full[s] \in Payload
    PROVE  /\ PageAnswer(s) \in Replies
           /\ PageAnswer(s).status = "OK" /\ PageAnswer(s).from = full[s]
           /\ PageAnswer(s).more =>
                 PageAnswer(s).next = offset[s] + PageAnswer(s).bytes
<1> DEFINE rep == PageReply(offset[s], ChunkBytes(Requested[s]), SizeOf[full[s]])
<1>1. /\ Requested[s] \in Int /\ SizeOf[full[s]] \in Nat /\ offset[s] \in Int
  BY LeaderAssumption DEF LeaderAssumption, Shape
<1>2. ChunkBytes(Requested[s]) \in Int /\ ChunkBytes(Requested[s]) >= RECORD_SIZE
  <2>1. ChunkBytes(Requested[s]) \in RECORD_SIZE .. MAX_CHUNK_BYTES
    BY <1>1, ChunkBytesFact
  <2>2. RECORD_SIZE \in Int /\ MAX_CHUNK_BYTES \in Int
    BY SMT DEF RECORD_SIZE, MAX_CHUNK_BYTES
  <2>3. QED
    BY <2>1, <2>2
<1>3. /\ rep.bytes \in Int /\ rep.more \in BOOLEAN /\ rep.next \in Int
      /\ rep.more => rep.next = offset[s] + rep.bytes
  BY <1>1, <1>2, PagingAssumed, SamePaging, PL!PageReplyAnywhere
<1>4. PageAnswer(s) = [status |-> "OK", bytes |-> rep.bytes, more |-> rep.more,
                       next |-> rep.next, from |-> full[s]]
  BY DEF PageAnswer
<1>5. full[s] \in Parts /\ "OK" \in Statuses
  BY PayloadTypes DEF Statuses
<1> HIDE DEF rep
<1>6. PageAnswer(s) \in Replies
  BY <1>3, <1>4, <1>5, ReplyRecord
<1>7. QED
  BY <1>3, <1>4, <1>6

(* The leader's own variables keep their types.                            *)
LEMMA ShapePreserved ==
    ASSUME Shape, PayloadInv, [Next]_vars PROVE Shape'
<1> USE LeaderAssumption, PayloadTypes, ReplyTypes DEF LeaderAssumption
<1>1. ASSUME NEW s \in Sessions,
             SendQuery(s) \/ ReceiveError(s) \/ DropReply(s) \/ Leave(s)
      PROVE  Shape'
  BY <1>1 DEF Shape, Stages, ClientStates, SendQuery, ReceiveError, DropReply, Leave,
              fqVars, handlerVars, cacheVars, clientVars, nodeVars
<1>2. ASSUME NEW s \in Sessions, ReceivePage(s) PROVE Shape'
  BY <1>2 DEF Shape, Stages, ClientStates, Replies, ReceivePage, fqVars, cacheVars, nodeVars
<1>3. ASSUME NEW s \in Sessions,
             Acquire(s) \/ Recheck(s) \/ SpuriousWake(s) \/ Release(s) \/ Return(s)
      PROVE  Shape'
  <2>1. CASE Acquire(s) \/ Recheck(s) \/ SpuriousWake(s)
    BY <2>1 DEF Shape, Stages, Acquire, Recheck, SpuriousWake,
                handlerVars, cacheVars, clientVars, nodeVars
  <2>2. CASE Release(s)
    BY <2>2 DEF Shape, Stages, Release, handlerVars, cacheVars, clientVars, nodeVars
  <2>3. CASE Return(s)
    BY <2>3 DEF Shape, Stages, Return, fqVars, handlerVars, cacheVars, clientVars, nodeVars
  <2>4. QED
    BY <1>3, <2>1, <2>2, <2>3
<1>4. ASSUME NEW s \in Sessions,
             Cancelled(s) \/ NotCancelled(s) \/ CacheHit(s) \/ CacheMiss(s)
                \/ GatherFails(s) \/ GatherOk(s) \/ Evict(s)
      PROVE  Shape'
  <2>1. CASE Cancelled(s) \/ NotCancelled(s)
    BY <2>1, SMTT(30) DEF Shape, Stages, Cancelled, NotCancelled, fqVars, cacheVars, clientVars, nodeVars
  <2>2. CASE CacheHit(s) \/ CacheMiss(s)
    BY <2>2, SMTT(30) DEF Shape, Stages, CacheHit, CacheMiss, fqVars, cacheVars, clientVars, nodeVars
  <2>3. CASE GatherFails(s) \/ GatherOk(s)
    BY <2>3, SMTT(30) DEF Shape, Stages, GatherFails, GatherOk, fqVars, cacheVars, clientVars, nodeVars
  <2>4. CASE Evict(s)
    BY <2>4 DEF Shape, Stages, Evict, fqVars, cacheVars, clientVars, nodeVars
  <2>5. QED
    BY <1>4, <2>1, <2>2, <2>3, <2>4
<1>5. ASSUME NEW s \in Sessions, Page(s) PROVE Shape'
  <2>1. PageAnswer(s) \in Replies
    BY <1>5, PageAnswerFact DEF PayloadInv, PayloadOf, Page
  <2>2. reply' = [reply EXCEPT ![s] = PageAnswer(s)]
    BY <1>5 DEF Page, PageAnswer
  <2>3. stage' \in [Sessions -> Stages]
    BY <1>5 DEF Page, Shape, Stages
  <2>4. QED
    BY <1>5, <2>1, <2>2, <2>3
    DEF Page, Shape, fqVars, cacheVars, clientVars, nodeVars
<1>6. ASSUME NEW s \in Sessions, NEW k \in Children, FetchOk(s, k) \/ FetchFails(s, k)
      PROVE  Shape'
  <2>1. data[k] \in Contents /\ parts[s] \in Parts
    BY DEF Shape, Payload
  <2>2. PICK x \in Contents \cup {Failed} : parts' = [parts EXCEPT ![s][k] = x]
    BY <1>6, <2>1 DEF FetchOk, FetchFails
  <2>3. [parts[s] EXCEPT ![k] = x] \in Parts
    BY <2>1
  <2>4. parts' \in [Sessions -> Parts]
    BY <2>2, <2>3 DEF Shape
  <2>5. QED
    BY <1>6, <2>4 DEF FetchOk, FetchFails, Shape, fqVars, cacheVars, clientVars, nodeVars
<1>7. ASSUME Reaper \/ Nodes \/ UNCHANGED vars PROVE Shape'
  <2>1. CASE Reaper
    BY <2>1 DEF Reaper, Tick, Sweep, Shape, handlerVars, clientVars, nodeVars
  <2>2. CASE Nodes
    <3>1. UNCHANGED <<handlerVars, cacheVars, clientVars>>
      BY <2>2 DEF Nodes, Crash, Restart
    <3>2. crashes' \in Nat /\ data' \in Payload
      BY <2>2 DEF Nodes, Crash, Restart, Shape, Payload
    <3>3. up' \in [Children -> BOOLEAN]
      BY <2>2, Zenon DEF Nodes, Crash, Restart, Shape
    <3>4. QED
      BY <3>1, <3>2, <3>3 DEF Shape, handlerVars, cacheVars, clientVars
  <2>3. CASE UNCHANGED vars
    BY <2>3 DEF vars, Shape, handlerVars, cacheVars, clientVars, nodeVars
  <2>4. QED
    BY <1>7, <2>1, <2>2, <2>3
<1>8. QED
  BY <1>1, <1>2, <1>3, <1>4, <1>5, <1>6, <1>7 DEF Next, Client, Handler, Gather

-----------------------------------------------------------------------------
(* A step of one session touches nothing of another's.                     *)
Untouched(t) ==
    /\ stage'[t] = stage[t] /\ parts'[t] = parts[t] /\ full'[t] = full[t]
    /\ reply'[t] = reply[t] /\ cache'[t] = cache[t]
    /\ client'[t] = client[t] /\ offset'[t] = offset[t] /\ got'[t] = got[t]
    /\ sources'[t] = sources[t]

(* A step of one session leaves the others alone.                          *)
LEMMA OthersUntouched ==
    ASSUME Shape, NEW s \in Sessions, NEW t \in Sessions, t # s,
           Client(s) \/ Leave(s) \/ Handler(s) \/ SpuriousWake(s)
    PROVE  Untouched(t)
<1> USE DEF Shape, Untouched
<1>1. CASE Client(s) \/ Leave(s)
  BY <1>1 DEF Client, SendQuery, ReceiveError, ReceivePage, DropReply, Leave,
              handlerVars, cacheVars, clientVars
<1>2. CASE Acquire(s) \/ Recheck(s) \/ SpuriousWake(s) \/ Release(s) \/ Return(s)
  BY <1>2 DEF Acquire, Recheck, SpuriousWake, Release, Return,
              handlerVars, cacheVars, clientVars
<1>3. CASE Cancelled(s) \/ NotCancelled(s) \/ CacheHit(s) \/ CacheMiss(s)
             \/ Page(s) \/ Evict(s)
  BY <1>3 DEF Cancelled, NotCancelled, CacheHit, CacheMiss, Page, Evict,
              handlerVars, cacheVars, clientVars
<1>4. CASE Gather(s)
  BY <1>4 DEF Gather, FetchOk, FetchFails, GatherFails, GatherOk, cacheVars, clientVars
<1>5. QED
  BY <1>1, <1>2, <1>3, <1>4 DEF Handler

(* Steps that leave a session's handler, entry and client as they are.     *)
LEMMA QuietSteps ==
    ASSUME Shape, NEW t \in Sessions,
           Tick \/ Nodes \/ UNCHANGED vars
             \/ \E s \in Sessions : Recheck(s) \/ SpuriousWake(s)
    PROVE  Untouched(t)
BY DEF Untouched, Tick, Nodes, Crash, Restart, vars, Recheck, SpuriousWake,
       handlerVars, cacheVars, clientVars

(* A session that is left alone keeps its invariant.                       *)
LEMMA UntouchedKeeps ==
    ASSUME NEW t \in Sessions, Untouched(t), PayloadOf(t), ClientOK(t)
    PROVE  PayloadOf(t)' /\ ClientOK(t)'
BY DEF Untouched, PayloadOf, ClientOK

(* The reaper keeps the invariant of every session.                        *)
LEMMA SweepKeeps ==
    ASSUME Shape, NEW t \in Sessions, Sweep, PayloadOf(t), ClientOK(t)
    PROVE  PayloadOf(t)' /\ ClientOK(t)'
<1>1. /\ stage' = stage /\ parts' = parts /\ full' = full /\ reply' = reply
      /\ client' = client /\ offset' = offset /\ got' = got /\ sources' = sources
      /\ cache'[t] = cache[t] \/ cache'[t] = NoPayload
  BY DEF Sweep, handlerVars, clientVars, Shape
<1>2. QED
  BY <1>1 DEF PayloadOf, ClientOK

-----------------------------------------------------------------------------
(* What each step does to its own session.                                 *)
LEMMA ClientStepKeeps ==
    ASSUME Shape, Discipline, NEW s \in Sessions, PayloadOf(s), ClientOK(s),
           Client(s) \/ Leave(s)
    PROVE  PayloadOf(s)' /\ ClientOK(s)'
<1> USE DEF Shape, PayloadOf, ClientOK, Answered
<1>1. CASE SendQuery(s)
  BY <1>1 DEF SendQuery, cacheVars
<1>2. CASE ReceiveError(s)
  <2>1. reply[s].status \in {"CANCELLED", "INTERNAL"}
    BY <1>2 DEF ReceiveError, Replies, Statuses
  <2>2. cache[s] = NoPayload
    BY <1>2, <2>1 DEF ReceiveError
  <2>3. QED
    BY <1>2, <2>2 DEF ReceiveError, cacheVars
<1>3. CASE ReceivePage(s)
  <2>1. /\ stage[s] = "sent" /\ client[s] = "calling" /\ reply[s].status = "OK"
        /\ stage'[s] = "none" /\ cache' = cache
        /\ got'[s] = got[s] + reply[s].bytes /\ offset'[s] = reply[s].next
        /\ sources'[s] \subseteq sources[s] \cup {reply[s].from}
        /\ client'[s] = IF reply[s].more THEN "ready" ELSE "done"
    BY <1>3 DEF ReceivePage, cacheVars
  <2>2. reply[s].from \in Payload
    BY <2>1
  <2>3. sources'[s] \subseteq Payload
    BY <2>1, <2>2
  <2>4. client'[s] \in {"ready", "calling"} => got'[s] = offset'[s]
    BY <2>1
  <2>5. client'[s] \in {"done", "failed"} => cache'[s] = NoPayload
    BY <2>1
  <2>6. QED
    BY <2>1, <2>3, <2>4, <2>5
<1>4. CASE DropReply(s)
  BY <1>4 DEF DropReply, cacheVars, clientVars
<1>5. CASE Leave(s)
  BY <1>5 DEF Leave, handlerVars, cacheVars
<1>6. QED
  BY <1>1, <1>2, <1>3, <1>4, <1>5 DEF Client

(* A step of a session keeps its own invariant.                            *)
LEMMA HandlerStepKeeps ==
    ASSUME Shape, Discipline, NEW s \in Sessions, PayloadOf(s), ClientOK(s),
           Handler(s)
    PROVE  PayloadOf(s)' /\ ClientOK(s)'
<1> USE DEF Shape, PayloadOf, ClientOK, Answered
<1>1. CASE Acquire(s) \/ Release(s) \/ Return(s)
  BY <1>1 DEF Acquire, Release, Return, cacheVars, clientVars
<1>2. CASE Recheck(s)
  BY <1>2, QuietSteps, UntouchedKeeps
<1>3. CASE Cancelled(s)
  BY <1>3 DEF Cancelled, BareReply, NoReply, cacheVars, clientVars
<1>4. CASE NotCancelled(s)
  BY <1>4 DEF NotCancelled, cacheVars, clientVars
<1>5. CASE CacheHit(s)
  BY <1>5 DEF CacheHit, clientVars
<1>6. CASE CacheMiss(s)
  <2>1. AllPending \in [Children -> Contents \cup {Pending, Failed}]
    BY DEF AllPending
  <2>2. QED
    BY <1>6, <2>1 DEF CacheMiss, cacheVars, clientVars
<1>7. CASE Gather(s)
  <2>1. ASSUME NEW k \in Children, FetchOk(s, k) \/ FetchFails(s, k)
        PROVE  PayloadOf(s)' /\ ClientOK(s)'
    <3>1. data[k] \in Contents
      BY DEF Payload
    <3>2. PICK x \in Contents \cup {Failed} : parts' = [parts EXCEPT ![s][k] = x]
      BY <2>1, <3>1 DEF FetchOk, FetchFails
    <3>3. parts'[s] \in [Children -> Contents \cup {Pending, Failed}]
      BY <2>1, <3>2 DEF FetchOk, FetchFails
    <3>4. QED
      BY <2>1, <3>3 DEF FetchOk, FetchFails, cacheVars, clientVars
  <2>2. CASE GatherFails(s)
    <3>1. stage[s] = "gather" /\ BareReply("INTERNAL").status = "INTERNAL"
      BY <2>2 DEF GatherFails, Joined, BareReply
    <3>2. QED
      BY <2>2, <3>1 DEF GatherFails, cacheVars, clientVars
  <2>3. CASE GatherOk(s)
    <3>1. parts[s] \in Payload
      BY <2>3 DEF GatherOk, Joined, Payload
    <3>2. client[s] \notin {"done", "failed"}
      BY <2>3 DEF GatherOk, Joined, Discipline, HandlerInv
    <3>3. QED
      BY <2>3, <3>1, <3>2 DEF GatherOk, clientVars
  <2>4. QED
    BY <1>7, <2>1, <2>2, <2>3 DEF Gather
<1>8. CASE Page(s)
  <2>1. /\ reply'[s] = PageAnswer(s) /\ cache' = cache
        /\ UNCHANGED clientVars /\ full' = full
        /\ stage[s] = "page"
        /\ stage'[s] = IF PageAnswer(s).more THEN "release" ELSE "evict"
    BY <1>8 DEF Page, PageAnswer, cacheVars
  <2>2. /\ PageAnswer(s).status = "OK" /\ PageAnswer(s).from = full[s]
        /\ PageAnswer(s).more => PageAnswer(s).next = offset[s] + PageAnswer(s).bytes
    BY <2>1, PageAnswerFact
  <2>3. QED
    BY <2>1, <2>2 DEF clientVars
<1>9. CASE Evict(s)
  BY <1>9 DEF Evict, clientVars
<1>10. QED
  BY <1>1, <1>2, <1>3, <1>4, <1>5, <1>6, <1>7, <1>8, <1>9 DEF Handler

(* Every step keeps what is said of payloads and clients.                  *)
LEMMA DataPreserved ==
    ASSUME Shape, Discipline, PayloadInv, ClientInv, [Next]_vars
    PROVE  PayloadInv' /\ ClientInv'
<1> SUFFICES ASSUME NEW t \in Sessions PROVE PayloadOf(t)' /\ ClientOK(t)'
  BY DEF PayloadInv, ClientInv
<1>1. PayloadOf(t) /\ ClientOK(t)
  BY DEF PayloadInv, ClientInv
<1>2. ASSUME NEW s \in Sessions, Client(s) \/ Leave(s) \/ Handler(s) \/ SpuriousWake(s)
      PROVE  PayloadOf(t)' /\ ClientOK(t)'
  <2>1. CASE t # s
    BY <1>1, <1>2, <2>1, OthersUntouched, UntouchedKeeps
  <2>2. CASE t = s
    BY <1>1, <1>2, <2>2, ClientStepKeeps, HandlerStepKeeps, QuietSteps, UntouchedKeeps
  <2>3. QED
    BY <2>1, <2>2
<1>3. ASSUME Tick \/ Nodes \/ UNCHANGED vars PROVE PayloadOf(t)' /\ ClientOK(t)'
  BY <1>1, <1>3, QuietSteps, UntouchedKeeps
<1>4. ASSUME Sweep PROVE PayloadOf(t)' /\ ClientOK(t)'
  BY <1>1, <1>4, SweepKeeps
<1>5. QED
  BY <1>2, <1>3, <1>4 DEF Next, Reaper

-----------------------------------------------------------------------------
LeaderInv == TypeOK /\ Discipline /\ PayloadInv /\ ClientInv

(* The invariant of the leader holds at first.                             *)
LEMMA LeaderInitially == Init => LeaderInv
<1> SUFFICES ASSUME Init PROVE LeaderInv
  OBVIOUS
<1> USE LeaderAssumption DEF LeaderAssumption
<1>1. FQ!TypeOK
  BY QueueAssumed, SameState, FQP!TypeInitially DEF Init
<1>2. \A s \in Sessions : pc[s] = "out"
  BY DEF Init, FQ!Init
<1>3. up \in [Children -> BOOLEAN]
  BY Zenon DEF Init
<1>4. Shape
  BY <1>3, PayloadTypes, ReplyTypes DEF Init, Shape, Stages, ClientStates
<1>5. Discipline
  BY <1>2 DEF Init, Discipline, NoTurnLeaked, HandlerInv
<1>6. PayloadInv /\ ClientInv
  BY DEF Init, PayloadInv, PayloadOf, ClientInv, ClientOK, Answered
<1>7. QED
  BY <1>1, <1>4, <1>5, <1>6, TypeIsShape DEF LeaderInv

(* Every step keeps the invariant of the leader.                           *)
LEMMA LeaderPreserved == LeaderInv /\ [Next]_vars => LeaderInv'
<1> SUFFICES ASSUME LeaderInv, [Next]_vars PROVE LeaderInv'
  OBVIOUS
<1>1. FQ!TypeOK /\ Shape
  BY TypeIsShape DEF LeaderInv
<1>2. FQP!TypeOK'
  BY <1>1, QueueAssumed, SameState, LeaderStepIsQueueStep, FQP!TypePreserved
<1>3. FQ!TypeOK'
  BY <1>2, Zenon DEF FQ!TypeOK, FQ!Ticket, FQ!Places, FQP!TypeOK, FQP!Ticket, FQP!Places
<1>4. Shape'
  BY <1>1, ShapePreserved DEF LeaderInv
<1>5. TypeOK'
  BY <1>3, <1>4 DEF TypeOK, Shape, Replies, ClientStates
<1>6. Discipline' /\ PayloadInv' /\ ClientInv'
  BY <1>1, DisciplinePreserved, DataPreserved DEF LeaderInv
<1>7. QED
  BY <1>5, <1>6 DEF LeaderInv

(* The invariant of the leader holds always.                               *)
LEMMA LeaderInvariant == Spec => []LeaderInv
BY LeaderInitially, LeaderPreserved, PTL DEF Spec

(* Type correctness of the leader, its clients and its children.           *)
THEOREM LeaderTypeCorrect == Spec => []TypeOK
BY LeaderInvariant, PTL DEF LeaderInv

(* No handler answers with the turn or a ticket still its own, and none    *)
(* uses the cache or the children without the turn.                        *)
THEOREM TurnsAreGivenBack == Spec => []NoTurnLeaked
BY LeaderInvariant, PTL DEF LeaderInv, Discipline

(* Gathers exclude each other and everybody else's turn.                   *)
THEOREM GathersAreExclusive == Spec => []OneGather
<1>1. Spec => []FQP!OneTurn
  BY UsesFairQueue, QueueAssumed, FQP!TurnIsExclusive, PTL
<1>2. LeaderInv /\ FQP!OneTurn => OneGather
  BY DEF LeaderInv, Discipline, NoTurnLeaked, FQP!OneTurn, OneGather
<1>3. QED
  BY <1>1, <1>2, LeaderInvariant, PTL

(* A failed child fails the request: no payload with a part missing is     *)
(* cached or reaches a client.                                             *)
THEOREM AllOrNothing == Spec => []NoPartialResult
<1>1. LeaderInv => NoPartialResult
  BY DEF LeaderInv, PayloadInv, PayloadOf, ClientInv, ClientOK, NoPartialResult
<1>2. QED
  BY <1>1, LeaderInvariant, PTL

(* What a client has received is as long as the offset it asks for next.   *)
THEOREM PagesAreConsecutive == Spec => []ReceivedPrefix
<1>1. LeaderInv => ReceivedPrefix
  BY DEF LeaderInv, ClientInv, ClientOK, ReceivedPrefix
<1>2. QED
  BY <1>1, LeaderInvariant, PTL

(* Requests that end, well or with an error, leave nothing in the cache.   *)
THEOREM CacheIsCleared == Spec => []NothingLeftBehind
<1>1. LeaderInv => NothingLeftBehind
  BY DEF LeaderInv, ClientInv, ClientOK, NothingLeftBehind
<1>2. QED
  BY <1>1, LeaderInvariant, PTL

-----------------------------------------------------------------------------
(* The size of the one payload.                                            *)
LEMMA SizeOfLoaded == SizeOf[Loaded] \in Nat
BY LeaderAssumption DEF LeaderAssumption

(* Restarted nodes find their shards again.                                *)
LEMMA DataStays ==
    ASSUME ShardsStay, Shape, data = Loaded, [Next]_vars PROVE data' = Loaded
<1>1. ASSUME NEW k \in Children, Restart(k) PROVE data' = Loaded
  <2>1. PICK d \in Reloads : data' = [data EXCEPT ![k] = d]
    BY <1>1 DEF Restart
  <2>2. d = Loaded[k]
    BY ShardsStay DEF ShardsStay
  <2>3. QED
    BY <2>1, <2>2 DEF Shape, Payload
<1>2. ASSUME ~\E k \in Children : Restart(k) PROVE data' = data
  <2>1. CASE \E s \in Sessions : Client(s) \/ Leave(s) \/ SpuriousWake(s)
    BY <2>1 DEF Client, SendQuery, ReceiveError, ReceivePage, DropReply, Leave,
                SpuriousWake, nodeVars
  <2>2. CASE \E s \in Sessions : Gather(s)
    BY <2>2 DEF Gather, FetchOk, FetchFails, GatherFails, GatherOk, nodeVars
  <2>3. CASE \E s \in Sessions : Handler(s) /\ ~Gather(s)
    BY <2>3 DEF Handler, Acquire, Recheck, Cancelled, NotCancelled, CacheHit, CacheMiss,
                Page, Evict, Release, Return, nodeVars
  <2>4. CASE Reaper \/ \E k \in Children : Crash(k)
    BY <2>4 DEF Reaper, Tick, Sweep, Crash, nodeVars
  <2>5. CASE UNCHANGED vars
    BY <2>5 DEF vars, nodeVars
  <2>6. QED
    BY <1>2, <2>1, <2>2, <2>3, <2>4, <2>5 DEF Next, Nodes
<1>3. QED
  BY <1>1, <1>2

(* A session that is left alone keeps its part of the payload.             *)
LEMMA UntouchedStaysWhole ==
    ASSUME NEW t \in Sessions, Untouched(t), WholeOf(t) PROVE WholeOf(t)'
BY DEF Untouched, WholeOf

(* The reaper changes no payload.                                          *)
LEMMA SweepStaysWhole ==
    ASSUME Shape, NEW t \in Sessions, Sweep, WholeOf(t) PROVE WholeOf(t)'
<1>1. /\ stage' = stage /\ parts' = parts /\ full' = full /\ reply' = reply
      /\ client' = client /\ offset' = offset /\ got' = got /\ sources' = sources
      /\ cache'[t] = cache[t] \/ cache'[t] = NoPayload
  BY DEF Sweep, handlerVars, clientVars, Shape
<1>2. QED
  BY <1>1 DEF WholeOf

(* A step of a client adds a page of the one payload.                      *)
LEMMA ClientStepStaysWhole ==
    ASSUME Shape, Discipline, NEW s \in Sessions, ClientOK(s), WholeOf(s),
           Client(s) \/ Leave(s)
    PROVE  WholeOf(s)'
<1> USE SizeOfLoaded DEF Shape, WholeOf, Answered
<1>1. CASE SendQuery(s)
  BY <1>1 DEF SendQuery, cacheVars
<1>2. CASE ReceiveError(s)
  BY <1>2 DEF ReceiveError, cacheVars
<1>3. CASE ReceivePage(s)
  <2>1. /\ stage[s] = "sent" /\ client[s] = "calling" /\ reply[s].status = "OK"
        /\ stage'[s] = "none" /\ cache' = cache
        /\ got'[s] = got[s] + reply[s].bytes /\ offset'[s] = reply[s].next
        /\ sources'[s] \subseteq sources[s] \cup {reply[s].from}
        /\ client'[s] = IF reply[s].more THEN "ready" ELSE "done"
    BY <1>3 DEF ReceivePage, cacheVars
  <2>2. /\ got[s] = offset[s] /\ offset[s] \in Nat
        /\ reply[s].more => reply[s].next = offset[s] + reply[s].bytes
    BY <2>1 DEF ClientOK
  <2>3. client'[s] \in {"ready", "calling"} => offset'[s] \in 0 .. SizeOf[Loaded]
    BY <2>1, <2>2 DEF WholePart
  <2>4. client'[s] = "done" => got'[s] = SizeOf[Loaded]
    BY <2>1, <2>2 DEF WholePart
  <2>5. QED
    BY <2>1, <2>3, <2>4
<1>4. CASE DropReply(s)
  BY <1>4 DEF DropReply, cacheVars, clientVars
<1>5. CASE Leave(s)
  BY <1>5 DEF Leave, handlerVars, cacheVars
<1>6. QED
  BY <1>1, <1>2, <1>3, <1>4, <1>5 DEF Client

(* A session's chunk has room for a record.                                *)
LEMMA ChunkOf ==
    ASSUME NEW s \in Sessions
    PROVE  ChunkBytes(Requested[s]) \in Int /\ ChunkBytes(Requested[s]) >= RECORD_SIZE
<1>1. ChunkBytes(Requested[s]) \in RECORD_SIZE .. MAX_CHUNK_BYTES
  BY LeaderAssumption, ChunkBytesFact DEF LeaderAssumption
<1>2. RECORD_SIZE \in Int /\ MAX_CHUNK_BYTES \in Int
  BY SMT DEF RECORD_SIZE, MAX_CHUNK_BYTES
<1>3. QED
  BY <1>1, <1>2

(* The page of a client that is still there, out of the whole payload.     *)
LEMMA WholePage ==
    ASSUME Shape, NEW s \in Sessions, full[s] = Loaded, offset[s] \in 0 .. SizeOf[Loaded]
    PROVE  WholePart(offset[s], PageAnswer(s).bytes, PageAnswer(s).more, Requested[s])
<1> DEFINE rep == PageReply(offset[s], ChunkBytes(Requested[s]), SizeOf[Loaded])
<1>1. ChunkBytes(Requested[s]) \in Int /\ ChunkBytes(Requested[s]) >= RECORD_SIZE
  BY ChunkOf
<1>2. offset[s] \in Nat /\ offset[s] <= SizeOf[Loaded]
  BY SizeOfLoaded
<1>3. /\ rep.bytes \in Nat /\ offset[s] + rep.bytes <= SizeOf[Loaded]
      /\ rep.bytes <= ChunkBytes(Requested[s])
      /\ rep.more => rep.bytes >= RECORD_SIZE /\ rep.bytes % RECORD_SIZE = 0
      /\ rep.more <=> offset[s] + rep.bytes < SizeOf[Loaded]
  BY <1>1, <1>2, SizeOfLoaded, PagingAssumed, SamePaging, PL!PageReplyFact
<1>4. PageAnswer(s) = [status |-> "OK", bytes |-> rep.bytes, more |-> rep.more,
                       next |-> rep.next, from |-> full[s]]
  BY DEF PageAnswer
<1> HIDE DEF rep
<1>5. QED
  BY <1>2, <1>3, <1>4, SizeOfLoaded DEF WholePart

(* A step of a handler deals in the one payload only.                      *)
LEMMA HandlerStepStaysWhole ==
    ASSUME Shape, data = Loaded, NEW s \in Sessions, PayloadOf(s), WholeOf(s), Handler(s)
    PROVE  WholeOf(s)'
<1> USE DEF Shape, WholeOf, Answered
<1>1. CASE Acquire(s) \/ Release(s) \/ Return(s)
  BY <1>1 DEF Acquire, Release, Return, cacheVars, clientVars
<1>2. CASE Recheck(s)
  BY <1>2, QuietSteps, UntouchedStaysWhole
<1>3. CASE Cancelled(s)
  BY <1>3 DEF Cancelled, BareReply, cacheVars, clientVars
<1>4. CASE NotCancelled(s)
  BY <1>4 DEF NotCancelled, cacheVars, clientVars
<1>5. CASE CacheHit(s)
  BY <1>5 DEF CacheHit, clientVars
<1>6. CASE CacheMiss(s)
  BY <1>6 DEF CacheMiss, AllPending, cacheVars, clientVars
<1>7. CASE Gather(s)
  <2>1. ASSUME NEW k \in Children, FetchOk(s, k) \/ FetchFails(s, k)
        PROVE  WholeOf(s)'
    <3>1. PICK x \in {Loaded[k], Failed} : parts' = [parts EXCEPT ![s][k] = x]
      BY <2>1 DEF FetchOk, FetchFails
    <3>2. parts[s] \in Parts
      OBVIOUS
    <3>3. \A j \in Children : parts'[s][j] \in {Loaded[j], Pending, Failed}
      BY <2>1, <3>1, <3>2 DEF FetchOk, FetchFails, Parts
    <3>4. QED
      BY <2>1, <3>3 DEF FetchOk, FetchFails, cacheVars, clientVars
  <2>2. CASE GatherFails(s)
    <3>1. BareReply("INTERNAL").status = "INTERNAL"
      BY DEF BareReply
    <3>2. QED
      BY <2>2, <3>1 DEF GatherFails, Joined, cacheVars, clientVars
  <2>3. CASE GatherOk(s)
    <3>1. /\ parts[s] \in [Children -> Contents \cup {Pending, Failed}]
          /\ Loaded \in [Children -> Contents]
          /\ \A k \in Children : parts[s][k] = Loaded[k]
      BY <2>3, LeaderAssumption
      DEF GatherOk, Joined, PayloadOf, LeaderAssumption, Payload
    <3>2. parts[s] = Loaded
      BY <3>1
    <3>3. QED
      BY <2>3, <3>2 DEF GatherOk, Joined, clientVars
  <2>4. QED
    BY <1>7, <2>1, <2>2, <2>3 DEF Gather
<1>8. CASE Page(s)
  <2>1. /\ reply'[s] = PageAnswer(s) /\ cache' = cache
        /\ UNCHANGED clientVars /\ full' = full
        /\ stage[s] = "page" /\ stage'[s] \in {"release", "evict"}
    BY <1>8 DEF Page, PageAnswer, cacheVars
  <2>2. full[s] = Loaded /\ full[s] \in Payload
    BY <2>1 DEF PayloadOf
  <2>3. PageAnswer(s).from = Loaded
    BY <2>2, PageAnswerFact
  <2>4. client[s] = "calling" =>
          WholePart(offset[s], PageAnswer(s).bytes, PageAnswer(s).more, Requested[s])
    BY <2>2, WholePage
  <2>5. QED
    BY <2>1, <2>2, <2>3, <2>4 DEF clientVars
<1>9. CASE Evict(s)
  BY <1>9 DEF Evict, clientVars
<1>10. QED
  BY <1>1, <1>2, <1>3, <1>4, <1>5, <1>6, <1>7, <1>8, <1>9 DEF Handler

(* Every step keeps the payload the same.                                  *)
LEMMA WholePreserved ==
    ASSUME ShardsStay, LeaderInv, WholeInv, [Next]_vars PROVE WholeInv'
<1>1. Shape /\ data = Loaded
  BY TypeIsShape DEF LeaderInv, WholeInv
<1>2. ASSUME NEW t \in Sessions PROVE WholeOf(t)'
  <2>1. PayloadOf(t) /\ ClientOK(t) /\ WholeOf(t)
    BY DEF LeaderInv, PayloadInv, ClientInv, WholeInv
  <2>2. ASSUME NEW s \in Sessions, Client(s) \/ Leave(s) \/ Handler(s) \/ SpuriousWake(s)
        PROVE  WholeOf(t)'
    <3>1. CASE t # s
      BY <1>1, <2>1, <2>2, <3>1, OthersUntouched, UntouchedStaysWhole
    <3>2. CASE t = s /\ (Client(s) \/ Leave(s))
      BY <1>1, <2>1, <3>2, ClientStepStaysWhole DEF LeaderInv
    <3>3. CASE t = s /\ Handler(s)
      BY <1>1, <2>1, <3>3, HandlerStepStaysWhole
    <3>4. CASE t = s /\ SpuriousWake(s)
      BY <1>1, <2>1, <3>4, QuietSteps, UntouchedStaysWhole
    <3>5. QED
      BY <2>2, <3>1, <3>2, <3>3, <3>4
  <2>3. ASSUME Tick \/ Nodes \/ UNCHANGED vars PROVE WholeOf(t)'
    BY <1>1, <2>1, <2>3, QuietSteps, UntouchedStaysWhole
  <2>4. ASSUME Sweep PROVE WholeOf(t)'
    BY <1>1, <2>1, <2>4, SweepStaysWhole
  <2>5. QED
    BY <2>2, <2>3, <2>4 DEF Next, Reaper
<1>3. data' = Loaded
  BY <1>1, DataStays
<1>4. QED
  BY <1>2, <1>3 DEF WholeInv

(* If restarted nodes find their shards again, a request that ends well    *)
(* has delivered the whole payload, every byte once, whatever the reaper,  *)
(* the crashes and the other clients do.                                   *)
THEOREM ResultsAreWhole == ASSUME ShardsStay PROVE Spec => []WholeResult
<1>1. Init => WholeInv
  BY SizeOfLoaded DEF Init, WholeInv, WholeOf, Answered
<1>2. LeaderInv /\ WholeInv /\ [Next]_vars => WholeInv'
  BY ShardsStay, WholePreserved
<1>3. WholeInv => WholeResult
  BY LeaderAssumption DEF LeaderAssumption, WholeInv, WholeOf, WholeResult
<1>4. QED
  BY <1>1, <1>2, <1>3, LeaderInvariant, PTL DEF Spec

-----------------------------------------------------------------------------
(* What a page that is received does, seen by its session.                 *)
LEMMA PageIsDelivery ==
    ASSUME Shape, Discipline, NEW s \in Sessions, ClientOK(s), WholeOf(s), ReceivePage(s)
    PROVE  Paged!Deliver(s) \/ Paged!Complete(s)
<1> USE SizeOfLoaded
<1> DEFINE n == reply[s].bytes
           chunk == ChunkBytes(Requested[s])
<1>1. /\ stage[s] = "sent" /\ client[s] = "calling" /\ reply[s].status = "OK"
      /\ got' = [got EXCEPT ![s] = @ + n]
      /\ client' = [client EXCEPT ![s] = IF reply[s].more THEN "ready" ELSE "done"]
  BY DEF ReceivePage
<1>2. /\ got[s] = offset[s] /\ offset[s] \in Nat
      /\ WholePart(offset[s], n, reply[s].more, Requested[s])
  BY <1>1 DEF ClientOK, WholeOf, Answered
<1>3. chunk \in Int
  BY ChunkOf
<1>4. OutcomeOf[s] = "open" /\ [x \in Sessions |-> ChunkBytes(Requested[x])][s] = chunk
  BY <1>1 DEF OutcomeOf
<1>5. CASE reply[s].more
  <2>1. n \in RECORD_SIZE .. chunk /\ n % RECORD_SIZE = 0 /\ got[s] + n < SizeOf[Loaded]
    BY <1>2, <1>3, <1>5 DEF WholePart, RECORD_SIZE
  <2>2. OutcomeOf' = OutcomeOf
    BY <1>1, <1>5 DEF OutcomeOf, Shape, ClientStates
  <2>3. QED
    BY <1>1, <1>4, <2>1, <2>2 DEF Paged!Deliver
<1>6. CASE ~reply[s].more
  <2>1. got[s] + n = SizeOf[Loaded] /\ SizeOf[Loaded] <= got[s] + chunk
    BY <1>2, <1>3, <1>6 DEF WholePart
  <2>2. OutcomeOf' = [OutcomeOf EXCEPT ![s] = "done"]
    BY <1>1, <1>6 DEF OutcomeOf, Shape, ClientStates
  <2>3. QED
    BY <1>1, <1>4, <2>1, <2>2 DEF Paged!Complete
<1>7. QED
  BY <1>5, <1>6

(* Every other step leaves a session as it is, or ends it without a byte.  *)
LEMMA OtherStepsDeliverNothing ==
    ASSUME Shape, Discipline, [Next]_vars, ~\E s \in Sessions : ReceivePage(s)
    PROVE  [Paged!Next]_(Paged!vars)
<1>1. ASSUME NEW s \in Sessions, SendQuery(s) \/ DropReply(s)
      PROVE  UNCHANGED Paged!vars
  BY <1>1 DEF SendQuery, DropReply, clientVars, OutcomeOf, Shape, ClientStates, Paged!vars
<1>2. ASSUME NEW s \in Sessions, ReceiveError(s) \/ Leave(s)
      PROVE  Paged!GiveUp(s)
  <2>1. PICK how \in {"failed", "gone"} : client' = [client EXCEPT ![s] = how]
    BY <1>2 DEF ReceiveError, Leave
  <2>2. OutcomeOf[s] = "open" /\ got' = got
    BY <1>2 DEF ReceiveError, Leave, OutcomeOf
  <2>3. OutcomeOf' = [OutcomeOf EXCEPT ![s] = how]
    BY <2>1 DEF OutcomeOf, Shape, ClientStates
  <2>4. QED
    BY <2>2, <2>3 DEF Paged!GiveUp
<1>3. ASSUME UNCHANGED clientVars PROVE UNCHANGED Paged!vars
  BY <1>3 DEF clientVars, OutcomeOf, Paged!vars
<1>4. ASSUME NEW s \in Sessions, Handler(s) \/ SpuriousWake(s)
      PROVE  UNCHANGED clientVars
  BY <1>4 DEF Handler, Acquire, Recheck, Cancelled, NotCancelled, CacheHit, CacheMiss,
              Gather, FetchOk, FetchFails, GatherFails, GatherOk, Page, Evict, Release,
              Return, SpuriousWake
<1>5. ASSUME Reaper \/ Nodes \/ UNCHANGED vars PROVE UNCHANGED clientVars
  BY <1>5 DEF Reaper, Tick, Sweep, Nodes, Crash, Restart, vars
<1>6. QED
  BY <1>1, <1>2, <1>3, <1>4, <1>5 DEF Next, Client, Paged!Next

(* The leader with its queue, cache, reaper and restarted children         *)
(* implements the paged result, if their shards stay where they are.       *)
THEOREM ImplementsPagedResult == ASSUME ShardsStay PROVE Spec => ServesPagedResult
<1>1. Init => WholeInv
  BY SizeOfLoaded DEF Init, WholeInv, WholeOf, Answered
<1>2. LeaderInv /\ WholeInv /\ [Next]_vars => WholeInv'
  BY ShardsStay, WholePreserved
<1>3. Init => Paged!Init
  BY DEF Init, Paged!Init, OutcomeOf
<1>4. LeaderInv /\ WholeInv /\ [Next]_vars => [Paged!Next]_(Paged!vars)
  <2> SUFFICES ASSUME LeaderInv, WholeInv, [Next]_vars PROVE [Paged!Next]_(Paged!vars)
    OBVIOUS
  <2>1. Shape /\ Discipline
    BY TypeIsShape DEF LeaderInv
  <2>2. ASSUME NEW s \in Sessions, ReceivePage(s) PROVE Paged!Next
    BY <2>1, <2>2, PageIsDelivery DEF LeaderInv, ClientInv, WholeInv, Paged!Next
  <2>3. QED
    BY <2>1, <2>2, OtherStepsDeliverNothing
<1>5. QED
  BY <1>1, <1>2, <1>3, <1>4, LeaderInvariant, PTL DEF Spec, ServesPagedResult, Paged!Spec
=============================================================================
