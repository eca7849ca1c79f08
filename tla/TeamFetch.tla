----------------------------- MODULE TeamFetch -----------------------------
(***************************************************************************)
(* A gather down the tree: the threads of gatherFromChildren in the leader *)
(* (src/leader/leader_node.cpp) and the Fetch handlers of the team nodes   *)
(* (src/team_node/team_node.cpp, src/python_server/server.py).             *)
(*                                                                         *)
(* The leader gathers once for each request it has not cached: an attempt. *)
(* In an attempt every node gets at most one Fetch, so attempt and node    *)
(* name a handler, and also the call to it.  A handler of a C++ node calls *)
(* its children from a thread each; one of the Python node calls them one  *)
(* by one and needs a worker of a bounded pool.  No call has a deadline,   *)
(* and a call is not cancelled when the call it serves is: when a node or  *)
(* a connection fails, the handlers below go on as orphans, perhaps while  *)
(* the next attempt runs.                                                  *)
(*                                                                         *)
(* A segment is named by the node whose shard it carries.                  *)
(***************************************************************************)
EXTENDS Integers, FiniteSets, SequencesExt

CONSTANTS
    Nodes, Root,   \* the nodes of the tree, and the leader
    Python,        \* the nodes that run server.py
    Children,      \* child_stubs_ of each node, in order
    Whole,         \* the segments of each subtree
    PoolSize,      \* max_workers of server.py
    MaxAttempts,   \* bound of the model: gathers
    MaxFaults      \* bound of the model: crashes and broken connections

Kids(n) == {Children[n][i] : i \in DOMAIN Children[n]}

(* The leader has no shard.                                                *)
Own(n) == IF n = Root THEN <<>> ELSE <<n>>

(* What follows the node's own segment: the children's, in their order.    *)
Below(n, segs) == FlattenSeq([i \in DOMAIN Children[n] |-> segs[Children[n][i]]])

ASSUME TreeAssumption ==
    /\ Root \in Nodes /\ Root \notin Python
    /\ Children \in [Nodes -> Seq(Nodes)]
    /\ \A n \in Nodes : Root \notin Kids(n)
    /\ \A m, n \in Nodes : m # n => Kids(m) \cap Kids(n) = {}
    /\ \A n \in Nodes : \A i, j \in DOMAIN Children[n] :
           Children[n][i] = Children[n][j] => i = j
    /\ Whole \in [Nodes -> Seq(Nodes)]
    /\ \A n \in Nodes : Whole[n] = Own(n) \o Below(n, Whole)
    /\ PoolSize \in Nat /\ MaxAttempts \in Nat /\ MaxFaults \in Nat

Attempts == 1 .. MaxAttempts

VARIABLES
    call,     \* the call to a node, as its caller sees it
    serve,    \* the handler of the call
    segs,     \* the segments of the reply, once the caller has it
    up,       \* the processes that run
    faults

vars == <<call, serve, segs, up, faults>>

CallStates  == {"none", "skipped", "open", "ok", "failed"}
ServeStates == {"none", "queued", "running", "done", "dead"}

(* Calls, handlers and replies; replies are flat lists of segments.        *)
TypeOK ==
    /\ call \in [Attempts -> [Nodes -> CallStates]]
    /\ serve \in [Attempts -> [Nodes -> ServeStates]]
    /\ segs \in [Attempts -> [Nodes -> Seq(Nodes)]]
    /\ up \in [Nodes -> BOOLEAN]
    /\ faults \in 0 .. MaxFaults

Init ==
    /\ call = [a \in Attempts |-> [n \in Nodes |-> "none"]]
    /\ serve = [a \in Attempts |-> [n \in Nodes |-> "none"]]
    /\ segs = [a \in Attempts |-> [n \in Nodes |-> <<>>]]
    /\ up = [n \in Nodes |-> TRUE]
    /\ faults = 0

-----------------------------------------------------------------------------
(* The leader misses its cache.  Its turn keeps gathers apart (OneGather   *)
(* of Leader).                                                             *)
Begin(a) ==
    /\ call[a][Root] = "none"
    /\ \A b \in 1 .. a - 1 : call[b][Root] \in {"ok", "failed"}
    /\ up[Root]
    /\ call' = [call EXCEPT ![a][Root] = "open"]
    /\ serve' = [serve EXCEPT ![a][Root] = "running"]
    /\ UNCHANGED <<segs, up, faults>>

Running(a, n) == serve[a][n] = "running"

(* ctx->IsCancelled(), context.is_active(): true at some time after the    *)
(* caller has gone.  The leader does not ask during a gather.              *)
Cancelled(a, n) == n # Root /\ call[a][n] # "open"

(* The child that a handler may call now: any one not yet called, or for   *)
(* server.py the first, once those before it have answered.                *)
MayCall(a, n, c) ==
    /\ c \in Kids(n) /\ call[a][c] = "none"
    /\ n \in Python => \A i, j \in DOMAIN Children[n] :
           j < i /\ Children[n][i] = c => call[a][Children[n][j]] = "ok"

(* stub->Fetch: the request reaches the child, or there is no connection:  *)
(* the child is down, or the channel still backs off after a fault.        *)
CallChild(a, n, c) ==
    /\ Running(a, n) /\ MayCall(a, n, c)
    /\ up[c]
    /\ call' = [call EXCEPT ![a][c] = "open"]
    /\ serve' = [serve EXCEPT ![a][c] = IF c \in Python THEN "queued" ELSE "running"]
    /\ UNCHANGED <<segs, up, faults>>

CallFails(a, n, c) ==
    /\ Running(a, n) /\ MayCall(a, n, c)
    /\ ~up[c] \/ faults > 0
    /\ call' = [call EXCEPT ![a][c] = "failed"]
    /\ UNCHANGED <<serve, segs, up, faults>>

(* Faulty: the worker does not ask whether the call is cancelled.          *)
SkipAnyway(a, n, c) ==
    /\ Running(a, n) /\ MayCall(a, n, c)
    /\ n \notin Python
    /\ call' = [call EXCEPT ![a][c] = "skipped"]
    /\ UNCHANGED <<serve, segs, up, faults>>

(* A worker of a C++ node that sees the cancellation returns: the child is *)
(* not called, and no error is noted.                                      *)
Skip(a, n, c) ==
    /\ Running(a, n) /\ MayCall(a, n, c)
    /\ n \notin Python /\ Cancelled(a, n)
    /\ call' = [call EXCEPT ![a][c] = "skipped"]
    /\ UNCHANGED <<serve, segs, up, faults>>

(* The handler ends, and its caller, if there still is one, has the reply. *)
EndWith(a, n, status, reply) ==
    /\ serve' = [serve EXCEPT ![a][n] = "done"]
    /\ IF call[a][n] = "open"
       THEN /\ call' = [call EXCEPT ![a][n] = status]
            /\ segs' = [segs EXCEPT ![a][n] = reply]
       ELSE UNCHANGED <<call, segs>>
    /\ UNCHANGED <<up, faults>>

(* server.py aborts where a C++ worker skips.                              *)
Abort(a, n) ==
    /\ Running(a, n) /\ n \in Python /\ Cancelled(a, n)
    /\ \E c \in Nodes : MayCall(a, n, c)
    /\ EndWith(a, n, "failed", <<>>)

Joined(a, n) == \A c \in Kids(n) : call[a][c] \notin {"none", "open"}

(* Faulty: a call under way is taken for a failed one.                     *)
AnswerErrorEarly(a, n) ==
    /\ Running(a, n)
    /\ \E c \in Kids(n) : call[a][c] \in {"open", "failed"}
    /\ EndWith(a, n, "failed", <<>>)

(* One failed child fails the call: at once in server.py, where no other   *)
(* is under way, after the join in the leader and the C++ nodes.           *)
AnswerError(a, n) ==
    /\ Running(a, n)
    /\ \E c \in Kids(n) : call[a][c] = "failed"
    /\ n \notin Python => Joined(a, n)
    /\ EndWith(a, n, "failed", <<>>)

(* Faulty: the errors of the children are not looked at; a child's reply   *)
(* is added as one segment.                                                *)
AnswerOkAnyway(a, n) ==
    /\ Running(a, n) /\ Joined(a, n)
    /\ EndWith(a, n, "ok", Own(n) \o Below(n, segs[a]))

AnswerOkNested(a, n) ==
    /\ Running(a, n) /\ Joined(a, n)
    /\ \A c \in Kids(n) : call[a][c] # "failed"
    /\ EndWith(a, n, "ok", Own(n) \o
          [i \in DOMAIN Children[n] |-> segs[a][Children[n][i]]])

(* The node's own segment, then the children's in the order of their       *)
(* stubs.  A skipped child adds nothing.                                   *)
AnswerOk(a, n) ==
    /\ Running(a, n) /\ Joined(a, n)
    /\ \A c \in Kids(n) : call[a][c] # "failed"
    /\ EndWith(a, n, "ok", Own(n) \o Below(n, segs[a]))

(* Faulty: a worker of the pool that has served a call is not free again.  *)
StartOnce(a, n) ==
    /\ serve[a][n] = "queued"
    /\ Cardinality({b \in Attempts : serve[b][n] \in {"running", "done"}}) < PoolSize
    /\ serve' = [serve EXCEPT ![a][n] = "running"]
    /\ UNCHANGED <<call, segs, up, faults>>

(* A worker of the pool takes the call.                                    *)
Start(a, n) ==
    /\ serve[a][n] = "queued"
    /\ Cardinality({b \in Attempts : Running(b, n)}) < PoolSize
    /\ serve' = [serve EXCEPT ![a][n] = "running"]
    /\ UNCHANGED <<call, segs, up, faults>>

-----------------------------------------------------------------------------
(* The connection of a call breaks: the caller has an error, the handler   *)
(* goes on.                                                                *)
Break(a, n) ==
    /\ n # Root /\ call[a][n] = "open"
    /\ faults < MaxFaults
    /\ call' = [call EXCEPT ![a][n] = "failed"]
    /\ faults' = faults + 1
    /\ UNCHANGED <<serve, segs, up>>

(* The leader itself starts the attempt.                                   *)
CalledFrom(m, n) == m \in Kids(n) \/ (m = Root /\ n = Root)

(* A process dies with its handlers; nobody waits for the calls they made. *)
Crash(n) ==
    /\ up[n] /\ faults < MaxFaults
    /\ up' = [up EXCEPT ![n] = FALSE]
    /\ faults' = faults + 1
    /\ serve' = [a \in Attempts |-> [m \in Nodes |->
                   IF m = n /\ serve[a][m] \in {"queued", "running"}
                   THEN "dead" ELSE serve[a][m]]]
    /\ call' = [a \in Attempts |-> [m \in Nodes |->
                  IF CalledFrom(m, n) /\ call[a][m] = "open"
                  THEN "failed" ELSE call[a][m]]]
    /\ UNCHANGED segs

(* The caller of a dead handler sees its connection closed.                *)
Lost(a, n) ==
    /\ serve[a][n] = "dead" /\ call[a][n] = "open"
    /\ call' = [call EXCEPT ![a][n] = "failed"]
    /\ UNCHANGED <<serve, segs, up, faults>>

Restart(n) ==
    /\ ~up[n]
    /\ up' = [up EXCEPT ![n] = TRUE]
    /\ UNCHANGED <<call, serve, segs, faults>>

-----------------------------------------------------------------------------
Handler(a, n) ==
    \/ \E c \in Nodes : CallChild(a, n, c) \/ CallFails(a, n, c) \/ Skip(a, n, c)
    \/ Abort(a, n) \/ AnswerError(a, n) \/ AnswerOk(a, n)
    \/ Start(a, n)

Next ==
    \/ \E a \in Attempts : Begin(a)
    \/ \E a \in Attempts, n \in Nodes : Handler(a, n) \/ Break(a, n) \/ Lost(a, n)
    \/ \E n \in Nodes : Crash(n) \/ Restart(n)

(* Among all threads some one runs that can, the pool hands out its        *)
(* workers, and the connection to a dead process is closed (by the system  *)
(* it ran on).  No thread by itself is promised more.                      *)
Progress == \E a \in Attempts, n \in Nodes : Handler(a, n) \/ Lost(a, n)

Fairness == WF_vars(Progress)

Spec     == Init /\ [][Next]_vars
FairSpec == Spec /\ Fairness

-----------------------------------------------------------------------------
(* A reply that is accepted carries every segment of the subtree, once and *)
(* in the same order each time: no failed, cancelled or skipped call below *)
(* it, and no order in which threads end, shows in an answer that says OK. *)
CompleteReply ==
    \A a \in Attempts, n \in Nodes : call[a][n] = "ok" => segs[a][n] = Whole[n]

(* Without a crash or a broken connection no call fails and no child is    *)
(* left out, however slow the threads are.                                 *)
NoNeedlessFailure ==
    faults = 0 => \A a \in Attempts, n \in Nodes : call[a][n] \notin {"failed", "skipped"}

(* Every handler comes to its end, orphan or not, with a single worker in  *)
(* the pool and orphans of one gather before the calls of the next: so     *)
(* every gather ends too, with the payload or an error.                    *)
HandlersEnd ==
    <>[](\A a \in Attempts, n \in Nodes :
            /\ serve[a][n] \notin {"queued", "running"}
            /\ call[a][n] # "open")

(* The leader can take the tree for one call that gives all or nothing.    *)
Outcome == [a \in Attempts |-> call[a][Root]]
Payload == [a \in Attempts |-> segs[a][Root]]

AON == INSTANCE AllOrNothing WITH
    AllData <- Whole[Root], NoData <- <<>>, outcome <- Outcome, payload <- Payload

GathersAllOrNothing == AON!Spec
=============================================================================
