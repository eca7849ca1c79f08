------------------------------ MODULE Startup ------------------------------
(***************************************************************************)
(* The processes of the cluster and how they are started and stopped:      *)
(* run_cluster.sh on one machine, single nodes by hand on the others.      *)
(* What a process makes of nodes.yaml decides whether it starts and which  *)
(* endpoints it dials: ClusterConfig of src/common/config.hpp in the C++   *)
(* processes and the client, _node_endpoint of server.py in the Python     *)
(* nodes.                                                                  *)
(*                                                                         *)
(* A process is told by its node and the run of the script it comes from;  *)
(* start_node is one step.  Whether a second process can listen on a port  *)
(* that is in use is up to gRPC and the system.                            *)
(***************************************************************************)
EXTENDS Naturals, FiniteSets, SequencesExt

CONSTANTS
    Nodes, PyNodes,
    Leader,            \* the node run_cluster.sh starts as the leader
    Children,          \* the children of each node
    Machines, Local,   \* Local is where run_cluster.sh runs
    Loopback,          \* 127.0.0.1
    Ports, Configs,    \* what nodes.yaml may say of hosts, ports and roles
    Order,             \* the order of run_cluster.sh
    MaxStarts          \* bound of the model: runs of run_cluster.sh

NoNode == "no node"

Host == [addr : Machines \cup {Loopback}, procs : Seq(Nodes)]

ASSUME StartupAssumption ==
    /\ PyNodes \subseteq Nodes /\ Leader \in Nodes \ PyNodes
    /\ Children \in [Nodes -> Seq(Nodes)]
    /\ Local \in Machines /\ Loopback \notin Machines
    /\ NoNode \notin Nodes
    /\ \A cfg \in Configs :
          /\ cfg.hosts \in Seq(Host)
          /\ DOMAIN cfg.ports \subseteq Nodes /\ Range(cfg.ports) \subseteq Ports
          /\ IsInjective(cfg.ports)
          /\ cfg.root \in Nodes \cup {NoNode}
    /\ Order \in Seq(Nodes)
    /\ MaxStarts \in Nat

VARIABLES
    cfg,           \* nodes.yaml
    procs,         \* the processes that listen
    gen,           \* runs of the script so far
    at,            \* nodes it has started; it is over when this is Len(Order)
    pids,          \* logs/<name>.pid: the run whose process each names
    stopped,       \* the command it prints was the last thing done
    overlapped     \* a run began while processes were left on its machine

vars == <<cfg, procs, gen, at, pids, stopped, overlapped>>

-----------------------------------------------------------------------------
(* ClusterConfig::load goes through all hosts, so the last one that lists  *)
(* a node counts.                                                          *)
Listing(n) == {k \in DOMAIN cfg.hosts : n \in Range(cfg.hosts[k].procs)}

Listed == {n \in Nodes : Listing(n) # {}}

LoadOk == Listed \subseteq DOMAIN cfg.ports

NodeInfo(n) == <<cfg.hosts[CHOOSE k \in Listing(n) : \A j \in Listing(n) : j <= k].addr,
                 cfg.ports[n]>>

(* Faulty: a child is dialled at the port of its parent.                   *)
PyEndpointSelf(n, self) ==
    <<IF Listing(n) = {} THEN Loopback
      ELSE cfg.hosts[CHOOSE k \in Listing(n) : \A j \in Listing(n) : k <= j].addr,
      cfg.ports[self]>>

(* _node_endpoint takes the first one, and this machine if there is none.  *)
PyEndpoint(n, self) ==
    <<IF Listing(n) = {} THEN Loopback
      ELSE cfg.hosts[CHOOSE k \in Listing(n) : \A j \in Listing(n) : k <= j].addr,
      cfg.ports[n]>>

Endpoint(self, n) == IF self \in PyNodes THEN PyEndpoint(n, self) ELSE NodeInfo(n)

(* A process starts if it finds its port and the endpoints of its          *)
(* children: in C++ they must be listed by some host.                      *)
Starts(n) ==
    LET needed == {n} \cup Range(Children[n])
    IN  IF n \in PyNodes THEN needed \subseteq DOMAIN cfg.ports
        ELSE LoadOk /\ needed \subseteq Listed

(* root(): the leader among the roles, or else the first node by name,     *)
(* which in this cluster is the leader where it is listed.                 *)
RootOf == IF cfg.root # NoNode THEN cfg.root
          ELSE IF Leader \in Listed THEN Leader ELSE NoNode

-----------------------------------------------------------------------------
Process(n, run, machine) ==
    [node |-> n, run |-> run, on |-> machine,
     dials |-> [c \in Range(Children[n]) |-> Endpoint(n, c)]]

Resolve(addr, machine) == IF addr = Loopback THEN machine ELSE addr

(* The processes that may answer at an endpoint dialled from a machine.    *)
At(endpoint, machine) ==
    {pr \in procs : /\ pr.on = Resolve(endpoint[1], machine)
                    /\ cfg.ports[pr.node] = endpoint[2]}

(* Faulty: the C++ processes do without the listing, like the Python ones. *)
LaunchedUnlisted(n, run, machine) ==
    IF {n} \cup Range(Children[n]) \subseteq DOMAIN cfg.ports
    THEN {{}, {Process(n, run, machine)}} ELSE {{}}

(* What a process that is launched adds to those that listen.              *)
Launched(n, run, machine) ==
    LET taken == \E pr \in procs : pr.on = machine /\ pr.node = n
    IN  IF ~Starts(n) THEN {{}}
        ELSE {{Process(n, run, machine)}} \cup (IF taken THEN {{}} ELSE {})

Init ==
    /\ cfg \in Configs
    /\ procs = {} /\ gen = 0 /\ at = Len(Order)
    /\ pids = [n \in Nodes |-> 0]
    /\ stopped = FALSE /\ overlapped = FALSE

Here == {pr \in procs : pr.on = Local}

Begin ==
    /\ gen < MaxStarts /\ at = Len(Order)
    /\ gen' = gen + 1 /\ at' = 0
    /\ stopped' = FALSE
    /\ overlapped' = (overlapped \/ Here # {})
    /\ UNCHANGED <<cfg, procs, pids>>

(* Faulty: the pid files of the Python nodes are forgotten.                *)
StartNodeCppPid ==
    /\ at < Len(Order)
    /\ LET n == Order[at + 1]
       IN  /\ \E new \in Launched(n, gen, Local) : procs' = procs \cup new
           /\ pids' = IF n \in PyNodes THEN pids ELSE [pids EXCEPT ![n] = gen]
    /\ at' = at + 1
    /\ UNCHANGED <<cfg, gen, stopped, overlapped>>

(* start_node: nohup, and the pid goes to the node's file.                 *)
StartNode ==
    /\ at < Len(Order)
    /\ LET n == Order[at + 1]
       IN  /\ \E new \in Launched(n, gen, Local) : procs' = procs \cup new
           /\ pids' = [pids EXCEPT ![n] = gen]
    /\ at' = at + 1
    /\ UNCHANGED <<cfg, gen, stopped, overlapped>>

(* The script is interrupted; what it started goes on.                     *)
Interrupt ==
    /\ at < Len(Order)
    /\ at' = Len(Order)
    /\ UNCHANGED <<cfg, procs, gen, pids, stopped, overlapped>>

(* kill $(cat logs/*.pid) || pkill -f 'team_node|leader'                   *)
PrintedStop ==
    LET named == {pr \in Here : pr.run > 0 /\ pids[pr.node] = pr.run}
        cpp   == {pr \in Here : pr.node \notin PyNodes}
    IN  /\ at = Len(Order) /\ gen > 0
        /\ procs' = procs \ (IF named # {} THEN named ELSE cpp)
        /\ stopped' = TRUE
        /\ UNCHANGED <<cfg, gen, at, pids, overlapped>>

(* A node is started by hand on another machine.                           *)
LaunchByHand(n, machine) ==
    /\ machine # Local
    /\ ~\E pr \in procs : pr.node = n /\ pr.on = machine
    /\ \E new \in Launched(n, 0, machine) : procs' = procs \cup new
    /\ UNCHANGED <<cfg, gen, at, pids, stopped, overlapped>>

(* A process ends.                                                         *)
Die(pr) ==
    /\ procs' = procs \ {pr}
    /\ UNCHANGED <<cfg, gen, at, pids, stopped, overlapped>>

Next ==
    \/ Begin \/ StartNode \/ Interrupt \/ PrintedStop
    \/ \E n \in Nodes, machine \in Machines : LaunchByHand(n, machine)
    \/ \E pr \in procs : Die(pr)

Spec == Init /\ [][Next]_vars

-----------------------------------------------------------------------------
(* A process listens once per node, run and machine, with the endpoints    *)
(* its language derives; pid files name runs of the script.                *)
TypeOK ==
    /\ cfg \in Configs
    /\ procs \subseteq {Process(n, run, machine) :
                           n \in {x \in Nodes : Starts(x)}, run \in 0 .. gen,
                           machine \in Machines}
    /\ gen \in 0 .. MaxStarts /\ at \in 0 .. Len(Order)
    /\ pids \in [Nodes -> 0 .. gen]
    /\ {stopped, overlapped} \subseteq BOOLEAN

(* Where the configuration places a node that one host lists, seen from a  *)
(* machine.                                                                *)
PlacedAt(n, machine) ==
    Resolve(cfg.hosts[CHOOSE k \in DOMAIN cfg.hosts : Listing(n) = {k}].addr, machine)

(* The languages resolve a node that exactly one host lists alike: a stub  *)
(* reaches its child wherever parent and child were started, in whatever   *)
(* order, if the child runs where the configuration places it; a client    *)
(* reaches the leader so; and a stub never reaches another node.           *)
StubsReachChildren ==
    /\ \A pr \in procs : \A c \in DOMAIN pr.dials :
          LET reached == At(pr.dials[c], pr.on)
          IN  /\ \A r \in reached : r.node = c
              /\ Cardinality(Listing(c)) = 1 =>
                    {r \in procs : r.node = c /\ r.on = PlacedAt(c, pr.on)} \subseteq reached
    /\ LoadOk /\ RootOf = Leader /\ Cardinality(Listing(Leader)) = 1 =>
          \A machine \in Machines :
              {r \in procs : r.node = Leader /\ r.on = PlacedAt(Leader, machine)}
                  = At(NodeInfo(Leader), machine)

(* The command that run_cluster.sh prints leaves no process of the last    *)
(* run, even one that was interrupted or whose processes died or could not *)
(* listen; and if no run began over the processes of another it leaves     *)
(* none at all.  (Otherwise older processes, the Python ones for good,     *)
(* keep their ports: MINI2_REPORT.md:131.)                                 *)
LastRunIsStopped ==
    stopped => \A pr \in Here : pr.run # gen /\ overlapped
=============================================================================
