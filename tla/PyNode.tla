------------------------------- MODULE PyNode -------------------------------
(***************************************************************************)
(* The process of a Python team node, src/python_server/server.py, from    *)
(* its imports to its exit: the start-up and what may stop it, the pool of *)
(* workers that run Fetch, the two counters they share without a lock, and *)
(* the shutdown after KeyboardInterrupt, where server.stop(grace=1) returns *)
(* at once and the statistics are printed while handlers still run.        *)
(* TeamFetch has the same handlers among the nodes of a tree; the children *)
(* are here just calls that return or fail.                                *)
(*                                                                         *)
(* The gRPC server is external: stop() refuses new calls, a thread cancels *)
(* those under way when the grace is over, and the interpreter joins that  *)
(* thread and the workers before it exits.  A call takes one unit of time. *)
(***************************************************************************)
EXTENDS Naturals, FiniteSets

CONSTANTS
    Calls,         \* the RPCs that reach the process
    MethodOf,      \* of each call
    NumChildren,   \* the length of _child_stubs
    PoolSizes      \* what max_workers may be

Fetch == "/mini2.TeamService/Fetch"

ASSUME PyNodeAssumption ==
    /\ IsFiniteSet(Calls)
    /\ NumChildren \in Nat
    /\ PoolSizes \subseteq Nat \ {0}

VARIABLES
    pool,                   \* max_workers
    obstacle,               \* what stands in the way of the start
    main,                   \* where the main thread is
    methods,                \* registered with the server
    grpc,                   \* the server
    call,                   \* what has become of each call
    next, step, local,      \* a handler: its next child, its place, what it read
    present,                \* the callers that still wait
    req_count, total_ns,    \* the counters
    counted,                \* the calls that have updated both
    sum, avg, requests      \* what serve reads and prints at the end

startVars   == <<pool, obstacle, methods>>
handlerVars == <<next, step, local>>
statVars    == <<req_count, total_ns, counted>>
printVars   == <<sum, avg, requests>>
vars == <<startVars, main, grpc, call, handlerVars, present, statVars, printVars>>

Obstacles == {"none", "modules", "protobuf", "grpcio", "config", "port"}

Mains == {"import", "messages", "stubs", "load", "bind", "wait", "sum", "divide", "print", "join",
          "exited", "error", "killed"}

Steps == {"check", "child", "count", "store count", "time", "store time", "reply"}

Results == {"OK", "CANCELLED", "INTERNAL", "UNAVAILABLE", "UNIMPLEMENTED", "broken"}

Running == {c \in Calls : call[c] = "running"}

(* No more handlers run than the pool has workers.                         *)
TypeOK ==
    /\ pool \in PoolSizes /\ obstacle \in Obstacles /\ main \in Mains
    /\ methods \subseteq {Fetch}
    /\ grpc \in {"off", "serving", "grace", "cancelled"}
    /\ call \in [Calls -> {"none", "queued", "running"} \cup Results]
    /\ Cardinality(Running) <= pool
    /\ next \in [Calls -> 1 .. NumChildren + 1] /\ step \in [Calls -> Steps]
    /\ local \in [Calls -> Nat]
    /\ present \subseteq Calls /\ counted \subseteq Calls
    /\ {req_count, total_ns, sum, avg, requests} \subseteq Nat

Init ==
    /\ pool \in PoolSizes /\ obstacle \in Obstacles
    /\ main = "import" /\ methods = {} /\ grpc = "off"
    /\ call = [c \in Calls |-> "none"]
    /\ next = [c \in Calls |-> 1] /\ step = [c \in Calls |-> "check"]
    /\ local = [c \in Calls |-> 0]
    /\ present = Calls /\ counted = {}
    /\ req_count = 0 /\ total_ns = 0
    /\ sum = 0 /\ avg = 0 /\ requests = 0

-----------------------------------------------------------------------------
(* The start.  An exception on the way ends the process.                   *)
Advance(from, to, reason) ==
    /\ main = from
    /\ main' = IF obstacle = reason THEN "error" ELSE to

(* yaml or grpc is not installed for the python that the node runs with.   *)
ImportModules ==
    /\ Advance("import", "messages", "modules")
    /\ UNCHANGED <<startVars, grpc, call, handlerVars, present, statVars, printVars>>

(* cluster_pb2 refuses to be imported where protobuf is older than the     *)
(* code generated for it, cluster_pb2_grpc where grpcio is.                *)
ImportMessages ==
    /\ Advance("messages", "stubs", "protobuf")
    /\ UNCHANGED <<startVars, grpc, call, handlerVars, present, statVars, printVars>>

ImportStubs ==
    /\ Advance("stubs", "load", "grpcio")
    /\ UNCHANGED <<startVars, grpc, call, handlerVars, present, statVars, printVars>>

(* The file is read, the port looked up, the servicer built (stubs to the  *)
(* children, shard) and its methods registered.                            *)
Load ==
    /\ Advance("load", "bind", "config")
    /\ methods' = IF obstacle = "config" THEN {} ELSE {Fetch}
    /\ UNCHANGED <<pool, obstacle, grpc, call, handlerVars, present, statVars, printVars>>

Bind ==
    /\ Advance("bind", "wait", "port")
    /\ grpc' = IF obstacle = "port" THEN "off" ELSE "serving"
    /\ UNCHANGED <<startVars, call, handlerVars, present, statVars, printVars>>

-----------------------------------------------------------------------------
(* A call reaches the port: it goes to the pool's queue, or is refused.    *)
Arrive(c) ==
    /\ call[c] = "none"
    /\ call' = [call EXCEPT ![c] =
                   IF grpc # "serving" THEN "UNAVAILABLE"
                   ELSE IF MethodOf[c] \in methods THEN "queued" ELSE "UNIMPLEMENTED"]
    /\ UNCHANGED <<startVars, main, grpc, handlerVars, present, statVars, printVars>>

(* The caller cancels its call or is gone.                                 *)
Hangup(c) ==
    /\ call[c] \in {"queued", "running"} /\ c \in present
    /\ present' = present \ {c}
    /\ UNCHANGED <<startVars, main, grpc, call, handlerVars, statVars, printVars>>

(* Faulty: a worker too many.                                              *)
StartOneMore(c) ==
    /\ call[c] = "queued" /\ Cardinality(Running) <= pool
    /\ call' = [call EXCEPT ![c] = "running"]
    /\ UNCHANGED <<startVars, main, grpc, handlerVars, present, statVars, printVars>>

(* A free worker takes the call.                                           *)
Start(c) ==
    /\ call[c] = "queued" /\ Cardinality(Running) < pool
    /\ call' = [call EXCEPT ![c] = "running"]
    /\ UNCHANGED <<startVars, main, grpc, handlerVars, present, statVars, printVars>>

At(c, place) == call[c] = "running" /\ step[c] = place

(* context.is_active()                                                     *)
Active(c) == c \in present /\ grpc # "cancelled"

End(c, result) == call' = [call EXCEPT ![c] = result]

(* The loop over the children: is_active, then the call, without deadline. *)
CheckActive(c) ==
    /\ At(c, "check") /\ next[c] <= NumChildren
    /\ IF Active(c)
       THEN step' = [step EXCEPT ![c] = "child"] /\ UNCHANGED call
       ELSE End(c, "CANCELLED") /\ UNCHANGED step
    /\ UNCHANGED <<startVars, main, grpc, next, local, present, statVars, printVars>>

ChildAnswers(c) ==
    /\ At(c, "child")
    /\ next' = [next EXCEPT ![c] = @ + 1]
    /\ step' = [step EXCEPT ![c] = "check"]
    /\ UNCHANGED <<startVars, main, grpc, call, local, present, statVars, printVars>>

(* Faulty: calls that fail are counted too.                                *)
ChildFailsCounted(c) ==
    /\ At(c, "child")
    /\ End(c, "INTERNAL")
    /\ req_count' = req_count + 1
    /\ UNCHANGED <<startVars, main, grpc, handlerVars, present, total_ns, counted, printVars>>

ChildFails(c) ==
    /\ At(c, "child")
    /\ End(c, "INTERNAL")
    /\ UNCHANGED <<startVars, main, grpc, handlerVars, present, statVars, printVars>>

LoopEnds(c) ==
    /\ At(c, "check") /\ next[c] > NumChildren
    /\ step' = [step EXCEPT ![c] = "count"]
    /\ UNCHANGED <<startVars, main, grpc, call, next, local, present, statVars, printVars>>

(* self._req_count += 1 and self._total_ns += dt: a read and a write each. *)
ReadCount(c) ==
    /\ At(c, "count")
    /\ local' = [local EXCEPT ![c] = req_count]
    /\ step' = [step EXCEPT ![c] = "store count"]
    /\ UNCHANGED <<startVars, main, grpc, call, next, present, statVars, printVars>>

StoreCount(c) ==
    /\ At(c, "store count")
    /\ req_count' = local[c] + 1
    /\ step' = [step EXCEPT ![c] = "time"]
    /\ UNCHANGED <<startVars, main, grpc, call, next, local, present, total_ns, counted,
                   printVars>>

ReadTime(c) ==
    /\ At(c, "time")
    /\ local' = [local EXCEPT ![c] = total_ns]
    /\ step' = [step EXCEPT ![c] = "store time"]
    /\ UNCHANGED <<startVars, main, grpc, call, next, present, statVars, printVars>>

StoreTime(c) ==
    /\ At(c, "store time")
    /\ total_ns' = local[c] + 1
    /\ counted' = counted \cup {c}
    /\ step' = [step EXCEPT ![c] = "reply"]
    /\ UNCHANGED <<startVars, main, grpc, call, next, local, present, req_count, printVars>>

Reply(c) ==
    /\ At(c, "reply")
    /\ End(c, IF Active(c) THEN "OK" ELSE "CANCELLED")
    /\ UNCHANGED <<startVars, main, grpc, handlerVars, present, statVars, printVars>>

-----------------------------------------------------------------------------
(* Faulty: the server is not stopped.                                      *)
InterruptOnly ==
    /\ main = "wait"
    /\ main' = "sum"
    /\ UNCHANGED <<startVars, grpc, call, handlerVars, present, statVars, printVars>>

(* The end.  KeyboardInterrupt: server.stop(grace=1) returns at once.      *)
Interrupt ==
    /\ main = "wait"
    /\ main' = "sum" /\ grpc' = "grace"
    /\ UNCHANGED <<startVars, call, handlerVars, present, statVars, printVars>>

(* A second later, or when all calls have ended.                           *)
GraceOver ==
    /\ grpc = "grace"
    /\ grpc' = "cancelled"
    /\ UNCHANGED <<startVars, main, call, handlerVars, present, statVars, printVars>>

(* avg_us: the sum is read, then the count, and the count again to print.  *)
ReadSum ==
    /\ main = "sum" /\ main' = "divide"
    /\ sum' = total_ns
    /\ UNCHANGED <<startVars, grpc, call, handlerVars, present, statVars, avg, requests>>

Divide ==
    /\ main = "divide" /\ main' = "print"
    /\ avg' = sum \div (IF req_count > 1 THEN req_count ELSE 1)
    /\ UNCHANGED <<startVars, grpc, call, handlerVars, present, statVars, sum, requests>>

PrintStats ==
    /\ main = "print" /\ main' = "join"
    /\ requests' = req_count
    /\ UNCHANGED <<startVars, grpc, call, handlerVars, present, statVars, sum, avg>>

Exit ==
    /\ main = "join" /\ grpc = "cancelled"
    /\ \A c \in Calls : call[c] \notin {"queued", "running"}
    /\ main' = "exited"
    /\ UNCHANGED <<startVars, grpc, call, handlerVars, present, statVars, printVars>>

(* kill: no handler is installed for SIGTERM.                              *)
Kill ==
    /\ main \notin {"exited", "error", "killed"}
    /\ main' = "killed" /\ grpc' = "off"
    /\ call' = [c \in Calls |-> IF call[c] \in {"queued", "running"} THEN "broken"
                                ELSE call[c]]
    /\ UNCHANGED <<startVars, handlerVars, present, statVars, printVars>>

-----------------------------------------------------------------------------
Handler(c) ==
    \/ Start(c) \/ CheckActive(c) \/ ChildAnswers(c) \/ ChildFails(c) \/ LoopEnds(c)
    \/ ReadCount(c) \/ StoreCount(c) \/ ReadTime(c) \/ StoreTime(c) \/ Reply(c)

Shutdown == ReadSum \/ Divide \/ PrintStats \/ Exit

Next ==
    \/ ImportModules \/ ImportMessages \/ ImportStubs \/ Load \/ Bind
    \/ Interrupt \/ Shutdown \/ GraceOver \/ Kill
    \/ \E c \in Calls : Arrive(c) \/ Hangup(c) \/ Handler(c)

(* The workers and the main thread run, the grace passes, and a child that *)
(* was called answers or fails in the end.                                 *)
Fairness ==
    /\ WF_vars(Shutdown) /\ WF_vars(GraceOver)
    /\ \A c \in Calls : WF_vars(Handler(c))

Spec     == Init /\ [][Next]_vars
FairSpec == Spec /\ Fairness

-----------------------------------------------------------------------------
(* The handlers that have stored the count.                                *)
PastCount ==
    counted \cup {c \in Calls : call[c] \in {"running", "broken"} /\ step[c] \in {"time", "store time"}}

(* Increments may be lost when workers overlap, but the statistics never   *)
(* claim more calls or more time than there was.  With one worker nothing  *)
(* is lost, and because the count is added before the time while the time  *)
(* is read before the count, an average printed in the middle of a handler *)
(* is never more than a call took.                                         *)
StatsNotOverstated ==
    /\ req_count <= Cardinality(PastCount) /\ total_ns <= Cardinality(counted)
    /\ requests <= Cardinality(PastCount)
    /\ pool = 1 => /\ req_count = Cardinality(PastCount)
                   /\ total_ns = Cardinality(counted)
                   /\ avg <= 1

(* After an interrupt the process comes to its end, although the main      *)
(* thread does not wait for the calls that are under way.                  *)
InterruptEnds == main = "sum" ~> main \in {"exited", "killed"}
=============================================================================
