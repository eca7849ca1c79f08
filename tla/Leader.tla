------------------------------- MODULE Leader -------------------------------
(***************************************************************************)
(* The leader A with its clients and the subtrees below it:                *)
(* LeaderServiceImpl of src/leader/leader_node.cpp (QueryOnce, the cache,  *)
(* the reaper thread, the gather), the paging loop of src/client/main.cpp  *)
(* and the children as the leader sees them through TeamService::Fetch.    *)
(*                                                                         *)
(* A session is one run of the client program.  It makes one call at a     *)
(* time and puts its own request id ("req-<client>-<run>") into each, so   *)
(* sessions also name handler threads and cache keys.  Several sessions    *)
(* may use one client id: the fair queue knows client ids only.            *)
(*                                                                         *)
(* A payload is abstracted to which contents each child delivered for it,  *)
(* in the order of child_stubs_; its size comes from SizeOf.               *)
(***************************************************************************)
EXTENDS Paging

CONSTANTS
    Sessions, Clients, ClientOf,
    MaxTickets,     \* bound of the model: calls that reach the queue
    Requested,      \* chunk_size of each session
    Children,       \* the children of A in the tree
    Contents,       \* what a subtree may hold
    Loaded,         \* what each child holds when the cluster starts
    Reloads,        \* what a restarted child may hold
    SizeOf,         \* bytes of a payload
    CacheTTL,       \* CACHE_TTL_SEC, in ticks
    MaxCrashes      \* bound of the model: crashes of children

Pending   == "pending"      \* a Fetch still under way
Failed    == "failed"       \* a Fetch that returned an error
Absent    == "absent"

Payload == [Children -> Contents]
Parts   == [Children -> Contents \cup {Pending, Failed, Absent}]

AllPending == [k \in Children |-> Pending]
NoPayload  == [k \in Children |-> Absent]

ASSUME LeaderAssumption ==
    /\ ClientOf \in [Sessions -> Clients]
    /\ MaxTickets \in Nat
    /\ Requested \in [Sessions -> Int]
    /\ Children # {}
    /\ Contents \cap {Pending, Failed, Absent} = {}
    /\ Loaded \in Payload
    /\ Reloads \subseteq Contents
    /\ SizeOf \in [Payload -> Nat]
    /\ \A p \in Payload : SizeOf[p] % RECORD_SIZE = 0
    /\ CacheTTL \in Nat
    /\ MaxCrashes \in Nat

VARIABLES
    \* fq_
    active, seq, waiting, debt, me, pc,
    \* a handler: its place in QueryOnce, parts/errors, full, what it answers
    stage, parts, full, reply,
    \* cache_: payload, and ticks since last_touched
    cache, age,
    \* a client program: its state, offset, bytes received, where they came from
    client, offset, got, sources,
    \* the children
    up, data, crashes

fqVars      == <<active, seq, waiting, debt, me, pc>>
handlerVars == <<stage, parts, full, reply>>
cacheVars   == <<cache, age>>
clientVars  == <<client, offset, got, sources>>
nodeVars    == <<up, data, crashes>>
vars        == <<fqVars, handlerVars, cacheVars, clientVars, nodeVars>>

FQ == INSTANCE FairQueue WITH Handlers <- Sessions

Stages == {"none", "arrived", "queue", "lookup", "gather", "page",
           "evict", "release", "return", "sent"}

Statuses == {"OK", "CANCELLED", "INTERNAL"}

(* An AggregatedReply with no segment.                                     *)
BareReply(status) ==
    [status |-> status, bytes |-> 0, more |-> FALSE, next |-> 0, from |-> NoPayload]

NoReply == BareReply("OK")

Init ==
    /\ FQ!Init
    /\ stage = [s \in Sessions |-> "none"]
    /\ parts = [s \in Sessions |-> AllPending]
    /\ full = [s \in Sessions |-> NoPayload]
    /\ reply = [s \in Sessions |-> NoReply]
    /\ cache = [s \in Sessions |-> NoPayload]
    /\ age = [s \in Sessions |-> 0]
    /\ client = [s \in Sessions |-> "ready"]
    /\ offset = [s \in Sessions |-> 0]
    /\ got = [s \in Sessions |-> 0]
    /\ sources = [s \in Sessions |-> {}]
    /\ up = [k \in Children |-> TRUE]
    /\ data = Loaded
    /\ crashes = 0

-----------------------------------------------------------------------------
(* The client program.                                                     *)

(* The body of the loop up to stub->QueryOnce: the call reaches the leader. *)
SendQuery(s) ==
    /\ client[s] = "ready"
    /\ client' = [client EXCEPT ![s] = "calling"]
    /\ stage' = [stage EXCEPT ![s] = "arrived"]
    /\ UNCHANGED <<fqVars, parts, full, reply, cacheVars, offset, got, sources,
                   nodeVars>>

(* The call returns: an error ends the program, a page is consumed and     *)
(* has_more and next_offset decide about the next call.                    *)
ReceiveError(s) ==
    /\ stage[s] = "sent" /\ client[s] = "calling"
    /\ reply[s].status # "OK"
    /\ client' = [client EXCEPT ![s] = "failed"]
    /\ stage' = [stage EXCEPT ![s] = "none"]
    /\ reply' = [reply EXCEPT ![s] = NoReply]
    /\ UNCHANGED <<fqVars, parts, full, cacheVars, offset, got, sources, nodeVars>>

ReceivePage(s) ==
    /\ stage[s] = "sent" /\ client[s] = "calling"
    /\ reply[s].status = "OK"
    /\ got' = [got EXCEPT ![s] = @ + reply[s].bytes]
    /\ sources' = [sources EXCEPT ![s] =
                      IF reply[s].bytes > 0 THEN @ \cup {reply[s].from} ELSE @]
    /\ offset' = [offset EXCEPT ![s] = reply[s].next]
    /\ client' = [client EXCEPT ![s] = IF reply[s].more THEN "ready" ELSE "done"]
    /\ stage' = [stage EXCEPT ![s] = "none"]
    /\ reply' = [reply EXCEPT ![s] = NoReply]
    /\ UNCHANGED <<fqVars, parts, full, cacheVars, nodeVars>>

(* The program is killed, or its connection breaks and it exits with an    *)
(* RPC error.  The handler of its call, if any, goes on.                   *)
Leave(s) ==
    /\ client[s] \in {"ready", "calling"}
    /\ client' = [client EXCEPT ![s] = "gone"]
    /\ UNCHANGED <<fqVars, handlerVars, cacheVars, offset, got, sources, nodeVars>>

(* An answer to a client that is gone is dropped.                          *)
DropReply(s) ==
    /\ stage[s] = "sent" /\ client[s] = "gone"
    /\ stage' = [stage EXCEPT ![s] = "none"]
    /\ reply' = [reply EXCEPT ![s] = NoReply]
    /\ UNCHANGED <<fqVars, parts, full, cacheVars, clientVars, nodeVars>>

-----------------------------------------------------------------------------
(* QueryOnce, a step of the handler at a time.                             *)

(* fq_.acquire: take a ticket, and enter or sleep; later wake up.          *)
Acquire(s) ==
    /\ stage[s] = "arrived"
    /\ FQ!Acquire(s)
    /\ stage' = [stage EXCEPT ![s] = "queue"]
    /\ UNCHANGED <<parts, full, reply, cacheVars, clientVars, nodeVars>>

Recheck(s) ==
    /\ FQ!Recheck(s)
    /\ UNCHANGED <<handlerVars, cacheVars, clientVars, nodeVars>>

SpuriousWake(s) ==
    /\ FQ!SpuriousWake(s)
    /\ UNCHANGED <<handlerVars, cacheVars, clientVars, nodeVars>>

(* Faulty: a cancelled call returns without fq_.release.                   *)
CancelledKeepingTurn(s) ==
    /\ stage[s] = "queue" /\ pc[s] = "turn"
    /\ client[s] = "gone"
    /\ reply' = [reply EXCEPT ![s] = BareReply("CANCELLED")]
    /\ stage' = [stage EXCEPT ![s] = "sent"]
    /\ UNCHANGED <<fqVars, parts, full, cacheVars, clientVars, nodeVars>>

(* ctx->IsCancelled(), the first thing done with the turn.  The server may *)
(* not know yet that a client is gone.                                     *)
Cancelled(s) ==
    /\ stage[s] = "queue" /\ pc[s] = "turn"
    /\ client[s] = "gone"
    /\ reply' = [reply EXCEPT ![s] = BareReply("CANCELLED")]
    /\ stage' = [stage EXCEPT ![s] = "release"]
    /\ UNCHANGED <<fqVars, parts, full, cacheVars, clientVars, nodeVars>>

NotCancelled(s) ==
    /\ stage[s] = "queue" /\ pc[s] = "turn"
    /\ stage' = [stage EXCEPT ![s] = "lookup"]
    /\ UNCHANGED <<fqVars, parts, full, reply, cacheVars, clientVars, nodeVars>>

(* fetchOrCache, first critical section: a hit touches the entry; a miss   *)
(* starts a thread per child.                                              *)
CacheHit(s) ==
    /\ stage[s] = "lookup"
    /\ cache[s] # NoPayload
    /\ full' = [full EXCEPT ![s] = cache[s]]
    /\ age' = [age EXCEPT ![s] = 0]
    /\ stage' = [stage EXCEPT ![s] = "page"]
    /\ UNCHANGED <<fqVars, parts, reply, cache, clientVars, nodeVars>>

CacheMiss(s) ==
    /\ stage[s] = "lookup"
    /\ cache[s] = NoPayload
    /\ stage' = [stage EXCEPT ![s] = "gather"]
    /\ parts' = [parts EXCEPT ![s] = AllPending]
    /\ UNCHANGED <<fqVars, full, reply, cacheVars, clientVars, nodeVars>>

(* gatherFromChildren: one Fetch returns.  A child that is up delivers its *)
(* subtree's contents, and any Fetch may fail (the child or a node below   *)
(* it is down, the connection breaks, the reply is too large).             *)
FetchOk(s, k) ==
    /\ stage[s] = "gather" /\ parts[s][k] = Pending
    /\ up[k]
    /\ parts' = [parts EXCEPT ![s][k] = data[k]]
    /\ UNCHANGED <<fqVars, stage, full, reply, cacheVars, clientVars, nodeVars>>

FetchFails(s, k) ==
    /\ stage[s] = "gather" /\ parts[s][k] = Pending
    /\ parts' = [parts EXCEPT ![s][k] = Failed]
    /\ UNCHANGED <<fqVars, stage, full, reply, cacheVars, clientVars, nodeVars>>

Joined(s) == stage[s] = "gather" /\ \A k \in Children : parts[s][k] # Pending

(* All threads joined: one error fails the request; without errors the     *)
(* payload goes into the cache.                                            *)
GatherFails(s) ==
    /\ Joined(s)
    /\ \E k \in Children : parts[s][k] = Failed
    /\ reply' = [reply EXCEPT ![s] = BareReply("INTERNAL")]
    /\ stage' = [stage EXCEPT ![s] = "release"]
    /\ UNCHANGED <<fqVars, parts, full, cacheVars, clientVars, nodeVars>>

(* Faulty: errors of children are not looked at.                           *)
GatherOkAnyway(s) ==
    /\ Joined(s)
    /\ cache' = [cache EXCEPT ![s] = parts[s]]
    /\ age' = [age EXCEPT ![s] = 0]
    /\ full' = [full EXCEPT ![s] = parts[s]]
    /\ stage' = [stage EXCEPT ![s] = "page"]
    /\ UNCHANGED <<fqVars, parts, reply, clientVars, nodeVars>>

GatherOk(s) ==
    /\ Joined(s)
    /\ \A k \in Children : parts[s][k] # Failed
    /\ cache' = [cache EXCEPT ![s] = parts[s]]
    /\ age' = [age EXCEPT ![s] = 0]
    /\ full' = [full EXCEPT ![s] = parts[s]]
    /\ stage' = [stage EXCEPT ![s] = "page"]
    /\ UNCHANGED <<fqVars, parts, reply, clientVars, nodeVars>>

(* Faulty: the entry stays after the last page.                            *)
PageNoEvict(s) ==
    LET rep == PageReply(offset[s], ChunkBytes(Requested[s]), SizeOf[full[s]])
    IN  /\ stage[s] = "page"
        /\ reply' = [reply EXCEPT ![s] =
                        [status |-> "OK", bytes |-> rep.bytes, more |-> rep.more,
                         next |-> rep.next, from |-> full[s]]]
        /\ stage' = [stage EXCEPT ![s] = "release"]
        /\ UNCHANGED <<fqVars, parts, full, cacheVars, clientVars, nodeVars>>

(* The page at the query's offset.  After the last one the entry goes.     *)
Page(s) ==
    LET rep == PageReply(offset[s], ChunkBytes(Requested[s]), SizeOf[full[s]])
    IN  /\ stage[s] = "page"
        /\ reply' = [reply EXCEPT ![s] =
                        [status |-> "OK", bytes |-> rep.bytes, more |-> rep.more,
                         next |-> rep.next, from |-> full[s]]]
        /\ stage' = [stage EXCEPT ![s] = IF rep.more THEN "release" ELSE "evict"]
        /\ UNCHANGED <<fqVars, parts, full, cacheVars, clientVars, nodeVars>>

Evict(s) ==
    /\ stage[s] = "evict"
    /\ cache' = [cache EXCEPT ![s] = NoPayload]
    /\ age' = [age EXCEPT ![s] = 0]
    /\ stage' = [stage EXCEPT ![s] = "release"]
    /\ UNCHANGED <<fqVars, parts, full, reply, clientVars, nodeVars>>

(* fq_.release on every way out, then the answer is sent.  The locals of   *)
(* the handler are gone with it.                                           *)
Release(s) ==
    /\ stage[s] = "release"
    /\ FQ!Release(s)
    /\ stage' = [stage EXCEPT ![s] = "return"]
    /\ parts' = [parts EXCEPT ![s] = AllPending]
    /\ full' = [full EXCEPT ![s] = NoPayload]
    /\ UNCHANGED <<reply, cacheVars, clientVars, nodeVars>>

Return(s) ==
    /\ stage[s] = "return"
    /\ FQ!NotifyAll(s)
    /\ stage' = [stage EXCEPT ![s] = "sent"]
    /\ UNCHANGED <<parts, full, reply, cacheVars, clientVars, nodeVars>>

-----------------------------------------------------------------------------
(* Time passes: the entries grow older.  Ages past the limit are equal.    *)
Tick ==
    /\ \E s \in Sessions : cache[s] # NoPayload /\ age[s] <= CacheTTL
    /\ age' = [s \in Sessions |->
                  IF cache[s] # NoPayload /\ age[s] <= CacheTTL
                  THEN age[s] + 1 ELSE age[s]]
    /\ UNCHANGED <<fqVars, handlerVars, cache, clientVars, nodeVars>>

Expired(s) == cache[s] # NoPayload /\ age[s] > CacheTTL

(* Faulty: expired entries are touched, not erased.                        *)
SweepTouching ==
    /\ \E s \in Sessions : Expired(s)
    /\ age' = [s \in Sessions |-> IF Expired(s) THEN 0 ELSE age[s]]
    /\ UNCHANGED <<cache, fqVars, handlerVars, clientVars, nodeVars>>

(* One pass of reaperLoop over the cache.                                  *)
Sweep ==
    /\ \E s \in Sessions : Expired(s)
    /\ cache' = [s \in Sessions |-> IF Expired(s) THEN NoPayload ELSE cache[s]]
    /\ age' = [s \in Sessions |-> IF Expired(s) THEN 0 ELSE age[s]]
    /\ UNCHANGED <<fqVars, handlerVars, clientVars, nodeVars>>

(* A child process dies, and is started again with the shard files it      *)
(* finds then.                                                             *)
Crash(k) ==
    /\ up[k] /\ crashes < MaxCrashes
    /\ up' = [up EXCEPT ![k] = FALSE]
    /\ crashes' = crashes + 1
    /\ UNCHANGED <<fqVars, handlerVars, cacheVars, clientVars, data>>

(* Faulty: a node may come up with nothing to serve.                       *)
RestartEmpty(k) ==
    /\ ~up[k]
    /\ up' = [up EXCEPT ![k] = TRUE]
    /\ data' = [data EXCEPT ![k] = Absent]
    /\ UNCHANGED <<fqVars, handlerVars, cacheVars, clientVars, crashes>>

Restart(k) ==
    /\ ~up[k]
    /\ up' = [up EXCEPT ![k] = TRUE]
    /\ \E d \in Reloads : data' = [data EXCEPT ![k] = d]
    /\ UNCHANGED <<fqVars, handlerVars, cacheVars, clientVars, crashes>>

-----------------------------------------------------------------------------
Client(s) == SendQuery(s) \/ ReceiveError(s) \/ ReceivePage(s) \/ DropReply(s)

Gather(s) ==
    \/ \E k \in Children : FetchOk(s, k) \/ FetchFails(s, k)
    \/ GatherFails(s) \/ GatherOk(s)

Handler(s) ==
    \/ Acquire(s) \/ Recheck(s) \/ Cancelled(s) \/ NotCancelled(s)
    \/ CacheHit(s) \/ CacheMiss(s) \/ Gather(s)
    \/ Page(s) \/ Evict(s) \/ Release(s) \/ Return(s)

Reaper == Tick \/ Sweep

Nodes == \E k \in Children : Crash(k) \/ Restart(k)

Next ==
    \/ \E s \in Sessions : Client(s) \/ Leave(s) \/ Handler(s) \/ SpuriousWake(s)
    \/ Reaper
    \/ Nodes

(* Programs and handler threads run, every Fetch returns in the end (the   *)
(* leader sets no deadline: a child that never answers would stop it), the *)
(* clock ticks and the reaper makes its passes.  Clients need not leave    *)
(* and nodes need not crash or come back.                                  *)
Fairness ==
    /\ \A s \in Sessions : WF_vars(Client(s)) /\ WF_vars(Handler(s))
    /\ WF_vars(Tick)
    /\ WF_vars(Sweep)

Spec     == Init /\ [][Next]_vars
FairSpec == Spec /\ Fairness

-----------------------------------------------------------------------------
(* The fields of the service, its clients and its children.                *)
TypeOK ==
    /\ FQ!TypeOK
    /\ stage \in [Sessions -> Stages]
    /\ parts \in [Sessions -> Parts]
    /\ full \in [Sessions -> Parts]
    /\ reply \in [Sessions -> [status : Statuses, bytes : Int, more : BOOLEAN,
                               next : Int, from : Parts]]
    /\ cache \in [Sessions -> Parts]
    /\ age \in [Sessions -> 0 .. CacheTTL + 1]
    /\ client \in [Sessions -> {"ready", "calling", "done", "failed", "gone"}]
    /\ offset \in [Sessions -> Int]
    /\ got \in [Sessions -> Int]
    /\ sources \in [Sessions -> SUBSET Parts]
    /\ up \in [Children -> BOOLEAN]
    /\ data \in Payload
    /\ crashes \in Nat

(* Every way through QueryOnce, the cancelled and the failed one included, *)
(* keeps the turn while it uses the cache and the children and gives it    *)
(* back before it answers: no turn and no ticket is left behind.           *)
NoTurnLeaked ==
    \A s \in Sessions :
        /\ stage[s] \in {"none", "arrived", "sent"} => pc[s] = "out"
        /\ stage[s] \in {"lookup", "gather", "page", "evict", "release"} =>
               pc[s] = "turn"

(* At most one gather is under way, so no child ever serves two Fetches of *)
(* A at once, and nobody else has the turn meanwhile.                      *)
OneGather ==
    \A s, t \in Sessions : stage[s] = "gather" /\ pc[t] = "turn" => s = t

(* All or nothing: no payload that lacks a child's part is ever cached,    *)
(* paged out or given to a client.                                         *)
NoPartialResult ==
    \A s \in Sessions :
        /\ cache[s] # NoPayload => cache[s] \in Payload
        /\ sources[s] \subseteq Payload

(* A client never receives a byte twice or out of place: while more is to  *)
(* come it holds exactly the bytes before its offset.                      *)
ReceivedPrefix ==
    \A s \in Sessions : client[s] \in {"ready", "calling"} => got[s] = offset[s]

(* A client that ends well has received one complete payload, every byte   *)
(* of it, even if its pages come from different gathers.                   *)
WholeResult ==
    \A s \in Sessions : client[s] = "done" =>
        \E p \in Payload : sources[s] \subseteq {p} /\ got[s] = SizeOf[p]

(* The cache keeps no entry of a client that has ended well, whatever the  *)
(* reaper does, nor of one that was given an error.                        *)
NothingLeftBehind ==
    \A s \in Sessions : client[s] \in {"done", "failed"} => cache[s] = NoPayload

(* Every program comes to an end: done, failed or gone.                    *)
EverySessionEnds ==
    \A s \in Sessions : <>(client[s] \in {"done", "failed", "gone"})

(* The entries of clients that left are reaped: in the end the cache is    *)
(* empty for good.                                                         *)
CacheDrains == <>[](\A s \in Sessions : cache[s] = NoPayload)
=============================================================================
