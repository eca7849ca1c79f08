--------------------------- MODULE Startup_proofs ---------------------------
(***************************************************************************)
(* What the processes of the cluster make of nodes.yaml: which of them run *)
(* and whom they reach, for every configuration and any number of starts   *)
(* and machines.                                                           *)
(***************************************************************************)
EXTENDS Startup, FiniteSetTheorems, TLAPS

(* The processes, one by one.                                              *)
ProcsInv ==
    \A pr \in procs : \E n \in Nodes, run \in 0 .. gen, machine \in Machines :
        Starts(n) /\ pr = Process(n, run, machine)

(* Processes here come from the script, those of the last run are named by *)
(* their pid files, and without a run over another there are no others.    *)
RunsInv ==
    /\ \A pr \in Here : pr.run > 0
    /\ \A pr \in Here : pr.run = gen => pids[pr.node] = gen
    /\ ~overlapped => \A pr \in Here : pr.run = gen

(* While the script is at work a run has begun and is not stopped.         *)
ScriptInv == at < Len(Order) => gen > 0 /\ ~stopped

ClusterInv == TypeOK /\ RunsInv /\ ScriptInv /\ LastRunIsStopped

-----------------------------------------------------------------------------
(* TypeOK of the processes, and what it says of each.                      *)
LEMMA ProcsTyped ==
    procs \subseteq {Process(n, run, machine) :
                        n \in {x \in Nodes : Starts(x)}, run \in 0 .. gen,
                        machine \in Machines}
    <=> ProcsInv
BY DEF ProcsInv

(* The parts of TypeOK.                                                    *)
LEMMA TypeParts ==
    ASSUME TypeOK
    PROVE  /\ ProcsInv
           /\ cfg \in Configs /\ gen \in 0 .. MaxStarts /\ at \in 0 .. Len(Order)
           /\ pids \in [Nodes -> 0 .. gen]
           /\ stopped \in BOOLEAN /\ overlapped \in BOOLEAN
           /\ gen \in Nat /\ Len(Order) \in Nat /\ MaxStarts \in Nat
<1>1. Order \in Seq(Nodes) /\ MaxStarts \in Nat
  BY StartupAssumption DEF StartupAssumption
<1>2. cfg \in Configs /\ gen \in 0 .. MaxStarts /\ at \in 0 .. Len(Order)
  BY DEF TypeOK
<1>3. pids \in [Nodes -> 0 .. gen]
  BY DEF TypeOK
<1>4. stopped \in BOOLEAN /\ overlapped \in BOOLEAN
  <2>1. {stopped, overlapped} \subseteq BOOLEAN
    BY DEF TypeOK
  <2>2. QED
    BY <2>1, Zenon
<1>5. QED
  BY <1>1, <1>2, <1>3, <1>4, ProcsTyped DEF TypeOK

(* The parts of TypeOK after a step.                                       *)
LEMMA TypeAfter ==
    ASSUME ProcsInv', cfg' \in Configs, gen' \in 0 .. MaxStarts, at' \in 0 .. Len(Order),
           pids' \in [Nodes -> 0 .. gen'], stopped' \in BOOLEAN, overlapped' \in BOOLEAN
    PROVE  TypeOK'
<1>1. procs' \subseteq {Process(n, run, machine)' :
                           n \in {x \in Nodes : Starts(x)'}, run \in 0 .. gen',
                           machine \in Machines}
  BY DEF ProcsInv
<1>2. QED
  BY <1>1 DEF TypeOK

(* The fields of a process, typed.                                         *)
LEMMA FieldsTyped ==
    ASSUME TypeOK, NEW pr \in procs
    PROVE  pr.node \in Nodes /\ pr.run \in 0 .. gen /\ pr.on \in Machines /\ gen \in Nat
<1>1. PICK n \in Nodes, run \in 0 .. gen, machine \in Machines : pr = Process(n, run, machine)
  BY ProcsTyped DEF TypeOK, ProcsInv
<1>2. gen \in Nat
  BY StartupAssumption DEF StartupAssumption, TypeOK
<1>3. pr.node = n /\ pr.run = run /\ pr.on = machine
  BY <1>1 DEF Process
<1>4. QED
  BY <1>1, <1>2, <1>3

(* Launching adds a process at most.                                       *)
LEMMA LaunchedFact ==
    ASSUME NEW n, NEW run, NEW machine, NEW new \in Launched(n, run, machine)
    PROVE  \A pr \in new : Starts(n) /\ pr = Process(n, run, machine)
BY DEF Launched

(* What a process makes of nodes.yaml does not change under it.            *)
LEMMA SameConfig ==
    ASSUME cfg' = cfg
    PROVE  \A n \in Nodes : /\ Starts(n)' = Starts(n)
                            /\ \A run, machine : Process(n, run, machine)' = Process(n, run, machine)
BY DEF Starts, LoadOk, Listed, Listing, Process, Endpoint, PyEndpoint, NodeInfo

(* The processes stay well formed when only launched ones come to them.    *)
LEMMA ProcsKept ==
    ASSUME ProcsInv, cfg' = cfg, gen \in Nat, gen' \in Nat, gen <= gen',
           \A pr \in procs' \ procs : \E n \in Nodes, run \in 0 .. gen, machine \in Machines :
               Starts(n) /\ pr = Process(n, run, machine)
    PROVE  ProcsInv'
<1> SUFFICES ASSUME NEW pr \in procs'
             PROVE  \E n \in Nodes, run \in 0 .. gen', machine \in Machines :
                        (Starts(n) /\ pr = Process(n, run, machine))'
  BY DEF ProcsInv
<1>1. PICK n \in Nodes, run \in 0 .. gen, machine \in Machines :
          Starts(n) /\ pr = Process(n, run, machine)
  BY DEF ProcsInv
<1>2. run \in 0 .. gen'
  OBVIOUS
<1>3. Starts(n)' /\ pr = Process(n, run, machine)'
  BY <1>1, SameConfig
<1>4. QED
  BY <1>2, <1>3

-----------------------------------------------------------------------------
(* The constants of the script, and the node it starts next.               *)
LEMMA NextNode ==
    ASSUME TypeOK
    PROVE  /\ gen \in Nat /\ at \in Nat /\ Len(Order) \in Nat /\ at <= Len(Order)
           /\ Local \in Machines
           /\ at < Len(Order) => Order[at + 1] \in Nodes
<1>1. Order \in Seq(Nodes) /\ MaxStarts \in Nat /\ Local \in Machines
  BY StartupAssumption DEF StartupAssumption
<1>2. gen \in Nat /\ at \in 0 .. Len(Order)
  BY <1>1 DEF TypeOK
<1>3. QED
  BY <1>1, <1>2

(* Nothing runs when the cluster is configured.                            *)
LEMMA ClusterInitially == Init => ClusterInv
<1> SUFFICES ASSUME Init PROVE ClusterInv
  OBVIOUS
<1>1. Order \in Seq(Nodes) /\ MaxStarts \in Nat
  BY StartupAssumption DEF StartupAssumption
<1>2. /\ procs = {} /\ gen = 0 /\ at = Len(Order) /\ cfg \in Configs
      /\ pids = [n \in Nodes |-> 0] /\ stopped = FALSE /\ overlapped = FALSE
  BY DEF Init
<1>3. TypeOK
  <2>1. gen \in 0 .. MaxStarts /\ at \in 0 .. Len(Order) /\ pids \in [Nodes -> 0 .. gen]
    BY <1>1, <1>2
  <2>2. {stopped, overlapped} \subseteq BOOLEAN
    BY <1>2, Zenon
  <2>3. QED
    BY <1>2, <2>1, <2>2 DEF TypeOK
<1>4. Here = {}
  BY <1>2 DEF Here
<1>5. QED
  BY <1>1, <1>2, <1>3, <1>4 DEF ClusterInv, RunsInv, ScriptInv, LastRunIsStopped

(* A run begins.                                                           *)
LEMMA BeginKeeps == ASSUME ClusterInv, Begin PROVE ClusterInv'
<1>1. /\ gen < MaxStarts /\ gen' = gen + 1 /\ at' = 0 /\ stopped' = FALSE
      /\ overlapped' = (overlapped \/ Here # {})
      /\ cfg' = cfg /\ procs' = procs /\ pids' = pids
  BY DEF Begin
<1>2. /\ TypeOK /\ gen \in Nat /\ Len(Order) \in Nat /\ MaxStarts \in Nat
  BY NextNode, StartupAssumption DEF ClusterInv, StartupAssumption
<1>3. ProcsInv'
  <2>1. ProcsInv
    BY <1>2, ProcsTyped DEF TypeOK
  <2>2. procs' \ procs = {} /\ gen' \in Nat /\ gen <= gen'
    BY <1>1, <1>2
  <2>3. QED
    BY <1>1, <1>2, <2>1, <2>2, ProcsKept
<1>4. TypeOK'
  <2>1. /\ cfg' \in Configs /\ gen' \in 0 .. MaxStarts /\ at' \in 0 .. Len(Order)
    BY <1>1, <1>2, TypeParts
  <2>2. pids' \in [Nodes -> 0 .. gen']
    BY <1>1, <1>2 DEF TypeOK
  <2>3. stopped' \in BOOLEAN /\ overlapped' \in BOOLEAN
    BY <1>1, <1>2, TypeParts, Zenon
  <2>4. QED
    BY <1>3, <2>1, <2>2, <2>3, TypeAfter
<1>5. Here' = Here
  BY <1>1 DEF Here
<1>6. \A pr \in Here : pr.run \in 0 .. gen /\ pr.run > 0
  BY <1>2, FieldsTyped DEF Here, ClusterInv, RunsInv
<1>7. ~overlapped' => Here = {}
  BY <1>1, Zenon
<1>8. RunsInv'
  BY <1>1, <1>2, <1>5, <1>6, <1>7 DEF RunsInv
<1>9. ~stopped'
  BY <1>1, Zenon
<1>10. QED
  BY <1>1, <1>2, <1>4, <1>8, <1>9 DEF ClusterInv, ScriptInv, LastRunIsStopped

(* A run starts a node, whose pid file then names this run.                *)
LEMMA StartNodeKeeps == ASSUME ClusterInv, StartNode PROVE ClusterInv'
<1> DEFINE n == Order[at + 1]
<1>1. PICK new \in Launched(n, gen, Local) : procs' = procs \cup new
  BY DEF StartNode
<1>2. /\ at < Len(Order) /\ at' = at + 1
      /\ pids' = [pids EXCEPT ![n] = gen]
      /\ cfg' = cfg /\ gen' = gen /\ stopped' = stopped /\ overlapped' = overlapped
  BY DEF StartNode
<1>3. /\ TypeOK /\ gen \in Nat /\ at \in Nat /\ Len(Order) \in Nat
      /\ Local \in Machines /\ n \in Nodes
  BY <1>2, NextNode DEF ClusterInv
<1>4. gen > 0 /\ ~stopped
  BY <1>2 DEF ClusterInv, ScriptInv
<1> HIDE DEF n
<1>5. \A pr \in new : Starts(n) /\ pr = Process(n, gen, Local)
  BY LaunchedFact
<1>6. \A pr \in new : pr.node = n /\ pr.run = gen
  BY <1>5 DEF Process
<1>7. ProcsInv'
  <2>1. ProcsInv
    BY <1>3, ProcsTyped DEF TypeOK
  <2>2. gen \in 0 .. gen
    BY <1>3
  <2>3. \A pr \in procs' \ procs : \E x \in Nodes, run \in 0 .. gen, machine \in Machines :
            Starts(x) /\ pr = Process(x, run, machine)
    BY <1>1, <1>3, <1>5, <2>2
  <2>4. QED
    BY <1>2, <1>3, <2>1, <2>3, ProcsKept
<1>8. pids' \in [Nodes -> 0 .. gen]
  BY <1>2, <1>3 DEF TypeOK
<1>9. TypeOK'
  <2>1. /\ cfg' \in Configs /\ gen' \in 0 .. MaxStarts /\ at' \in 0 .. Len(Order)
        /\ stopped' \in BOOLEAN /\ overlapped' \in BOOLEAN
    BY <1>2, <1>3, TypeParts
  <2>2. QED
    BY <1>2, <1>7, <1>8, <2>1, TypeAfter
<1>10. \A pr \in Here' : pr \in Here \/ (pr.node = n /\ pr.run = gen)
  BY <1>1, <1>6 DEF Here
<1>11. \A pr \in Here : pr.node \in Nodes /\ pr.run \in 0 .. gen
  BY <1>3, FieldsTyped DEF Here
<1>12. pids'[n] = gen /\ \A x \in Nodes : x # n => pids'[x] = pids[x]
  BY <1>2, <1>3 DEF TypeOK
<1>13. RunsInv'
  BY <1>2, <1>4, <1>10, <1>11, <1>12 DEF ClusterInv, RunsInv
<1>14. QED
  BY <1>2, <1>4, <1>9, <1>13 DEF ClusterInv, ScriptInv, LastRunIsStopped

(* The script is interrupted: what runs goes on.                           *)
LEMMA InterruptKeeps == ASSUME ClusterInv, Interrupt PROVE ClusterInv'
<1>1. /\ at < Len(Order) /\ at' = Len(Order)
      /\ UNCHANGED <<cfg, procs, gen, pids, stopped, overlapped>>
  BY DEF Interrupt
<1>2. TypeOK /\ Len(Order) \in Nat
  BY NextNode DEF ClusterInv
<1>3. ~stopped
  BY <1>1 DEF ClusterInv, ScriptInv
<1>4. ProcsInv'
  BY <1>1, <1>2, ProcsTyped, ProcsKept, NextNode DEF TypeOK
<1>5. TypeOK'
  BY <1>1, <1>2, <1>4, TypeAfter, TypeParts
<1>6. Here' = Here
  BY <1>1 DEF Here
<1>7. QED
  BY <1>1, <1>2, <1>3, <1>5, <1>6 DEF ClusterInv, RunsInv, ScriptInv, LastRunIsStopped

(* The printed command stops the processes that pid files name, which are  *)
(* all of the last run; only when there is none it stops the C++ ones.     *)
LEMMA PrintedStopKeeps == ASSUME ClusterInv, PrintedStop PROVE ClusterInv'
<1> DEFINE named == {pr \in Here : pr.run > 0 /\ pids[pr.node] = pr.run}
           cpp   == {pr \in Here : pr.node \notin PyNodes}
<1>1. /\ at = Len(Order) /\ gen > 0
      /\ procs' = procs \ (IF named # {} THEN named ELSE cpp)
      /\ stopped' = TRUE
      /\ UNCHANGED <<cfg, gen, at, pids, overlapped>>
  BY DEF PrintedStop
<1>2. TypeOK /\ Len(Order) \in Nat /\ gen \in Nat
  BY NextNode DEF ClusterInv
<1>3. \A pr \in Here : pr.run = gen => pr \in named
  BY DEF ClusterInv, RunsInv
<1>4. \A pr \in Here' : pr \in Here /\ pr.run # gen
  BY <1>1, <1>3 DEF Here
<1>5. procs' \subseteq procs
  BY <1>1
<1> HIDE DEF named, cpp
<1>6. ProcsInv'
  BY <1>1, <1>2, <1>5, ProcsTyped, ProcsKept DEF TypeOK
<1>7. TypeOK'
  BY <1>1, <1>2, <1>6, TypeAfter, TypeParts
<1>8. RunsInv' /\ LastRunIsStopped'
  BY <1>1, <1>4 DEF ClusterInv, RunsInv, LastRunIsStopped
<1>9. QED
  BY <1>1, <1>2, <1>7, <1>8 DEF ClusterInv, ScriptInv

(* Nodes that are started by hand do not run where the script does.        *)
LEMMA LaunchByHandKeeps ==
    ASSUME ClusterInv, NEW n \in Nodes, NEW machine \in Machines, LaunchByHand(n, machine)
    PROVE  ClusterInv'
<1>1. PICK new \in Launched(n, 0, machine) : procs' = procs \cup new
  BY DEF LaunchByHand
<1>2. machine # Local /\ UNCHANGED <<cfg, gen, at, pids, stopped, overlapped>>
  BY DEF LaunchByHand
<1>3. TypeOK /\ gen \in Nat
  BY NextNode DEF ClusterInv
<1>4. \A pr \in new : Starts(n) /\ pr = Process(n, 0, machine)
  BY LaunchedFact
<1>5. ProcsInv'
  <2>1. 0 \in 0 .. gen
    BY <1>3
  <2>2. \A pr \in procs' \ procs : \E x \in Nodes, run \in 0 .. gen, m \in Machines :
            Starts(x) /\ pr = Process(x, run, m)
    BY <1>1, <1>4, <2>1
  <2>3. QED
    BY <1>2, <1>3, <2>2, ProcsTyped, ProcsKept DEF TypeOK
<1>6. TypeOK'
  BY <1>2, <1>3, <1>5, TypeAfter, TypeParts
<1>7. Here' = Here
  <2>1. \A pr \in new : pr.on = machine
    BY <1>4 DEF Process
  <2>2. QED
    BY <1>1, <1>2, <2>1 DEF Here
<1>8. QED
  BY <1>2, <1>6, <1>7 DEF ClusterInv, RunsInv, ScriptInv, LastRunIsStopped

(* A process ends.                                                         *)
LEMMA DieKeeps == ASSUME ClusterInv, NEW pr \in procs, Die(pr) PROVE ClusterInv'
<1>1. procs' = procs \ {pr} /\ UNCHANGED <<cfg, gen, at, pids, stopped, overlapped>>
  BY DEF Die
<1>2. TypeOK /\ gen \in Nat
  BY NextNode DEF ClusterInv
<1>3. ProcsInv'
  BY <1>1, <1>2, ProcsTyped, ProcsKept DEF TypeOK
<1>4. TypeOK'
  BY <1>1, <1>2, <1>3, TypeAfter, TypeParts
<1>5. Here' \subseteq Here
  BY <1>1 DEF Here
<1>6. QED
  BY <1>1, <1>4, <1>5 DEF ClusterInv, RunsInv, ScriptInv, LastRunIsStopped

(* Every step keeps the invariant of the processes.                        *)
LEMMA ClusterPreserved == ClusterInv /\ [Next]_vars => ClusterInv'
<1>1. ASSUME ClusterInv, UNCHANGED vars PROVE ClusterInv'
  <2>1. UNCHANGED <<cfg, procs, gen, at, pids, stopped, overlapped>>
    BY <1>1 DEF vars
  <2>2. TypeOK /\ gen \in Nat
    BY <1>1, NextNode DEF ClusterInv
  <2>3. ProcsInv'
    BY <2>1, <2>2, ProcsTyped, ProcsKept DEF TypeOK
  <2>4. TypeOK'
    BY <2>1, <2>2, <2>3, TypeAfter, TypeParts
  <2>5. Here' = Here
    BY <2>1 DEF Here
  <2>6. QED
    BY <1>1, <2>1, <2>4, <2>5 DEF ClusterInv, RunsInv, ScriptInv, LastRunIsStopped
<1>2. QED
  BY <1>1, BeginKeeps, StartNodeKeeps, InterruptKeeps, PrintedStopKeeps,
     LaunchByHandKeeps, DieKeeps DEF Next

(* The invariant of the processes holds always.                            *)
LEMMA ClusterInvariant == Spec => []ClusterInv
BY ClusterInitially, ClusterPreserved, PTL DEF Spec

(* The records of processes, their pid files and the flags have their      *)
(* types, and every process was one its configuration lets start.          *)
THEOREM ClusterTypes == Spec => []TypeOK
<1>1. ClusterInv => TypeOK
  BY DEF ClusterInv
<1>2. QED
  BY <1>1, ClusterInvariant, PTL

(* The command that run_cluster.sh prints stops the last run, for every    *)
(* cluster and order, whatever was interrupted, ended or could not listen. *)
THEOREM PrintedStopStops == Spec => []LastRunIsStopped
<1>1. ClusterInv => LastRunIsStopped
  BY DEF ClusterInv
<1>2. QED
  BY <1>1, ClusterInvariant, PTL

-----------------------------------------------------------------------------
(* A node that one host lists: NodeInfo, which takes the last listing, and *)
(* PyEndpoint, which takes the first, agree with where it is placed.       *)
LEMMA ListedOnce ==
    ASSUME cfg \in Configs, NEW c \in Nodes, Cardinality(Listing(c)) = 1,
           NEW self, NEW machine
    PROVE  /\ c \in Listed
           /\ NodeInfo(c)[2] = cfg.ports[c] /\ PyEndpoint(c, self)[2] = cfg.ports[c]
           /\ PlacedAt(c, machine) = Resolve(NodeInfo(c)[1], machine)
           /\ PlacedAt(c, machine) = Resolve(PyEndpoint(c, self)[1], machine)
<1>1. cfg.hosts \in Seq(Host)
  BY StartupAssumption DEF StartupAssumption
<1>2. DOMAIN cfg.hosts = 1 .. Len(cfg.hosts) /\ Len(cfg.hosts) \in Nat
  BY <1>1
<1>3. Listing(c) \in SUBSET DOMAIN cfg.hosts
  BY DEF Listing
<1>4. IsFiniteSet(Listing(c))
  <2>1. IsFiniteSet(1 .. Len(cfg.hosts))
    BY <1>2, FS_Interval
  <2>2. QED
    BY <1>2, <1>3, <2>1, FS_Subset
<1>5. PICK k : Listing(c) = {k}
  BY <1>4, FS_Singleton
<1>6. k \in DOMAIN cfg.hosts /\ k \in Nat
  BY <1>2, <1>3, <1>5
<1>7. (CHOOSE x \in Listing(c) : \A j \in Listing(c) : j <= x) = k
  BY <1>5, <1>6
<1>8. (CHOOSE x \in Listing(c) : \A j \in Listing(c) : x <= j) = k
  BY <1>5, <1>6
<1>9. (CHOOSE x \in DOMAIN cfg.hosts : Listing(c) = {x}) = k
  BY <1>5, <1>6
<1>10. Listing(c) # {}
  BY <1>5
<1>11. NodeInfo(c) = <<cfg.hosts[k].addr, cfg.ports[c]>>
  BY <1>7 DEF NodeInfo
<1>12. PyEndpoint(c, self) = <<cfg.hosts[k].addr, cfg.ports[c]>>
  BY <1>8, <1>10 DEF PyEndpoint
<1>13. PlacedAt(c, machine) = Resolve(cfg.hosts[k].addr, machine)
  BY <1>9 DEF PlacedAt
<1>14. QED
  BY <1>10, <1>11, <1>12, <1>13 DEF Listed

(* No two nodes have a port in common.                                     *)
LEMMA PortsApart ==
    ASSUME cfg \in Configs, NEW m \in DOMAIN cfg.ports, NEW n \in DOMAIN cfg.ports,
           cfg.ports[m] = cfg.ports[n]
    PROVE  m = n
BY StartupAssumption DEF StartupAssumption, IsInjective

(* A process that starts has a port, and so have its children.             *)
LEMMA PortsKnown ==
    ASSUME NEW n \in Nodes, Starts(n)
    PROVE  n \in DOMAIN cfg.ports /\ Range(Children[n]) \subseteq DOMAIN cfg.ports
BY DEF Starts, LoadOk

(* Whom a process dials: the port is that of its child, in either language.*)
LEMMA Dialled ==
    ASSUME ProcsInv, NEW pr \in procs
    PROVE  /\ pr.node \in Nodes /\ pr.node \in DOMAIN cfg.ports
           /\ DOMAIN pr.dials = Range(Children[pr.node])
           /\ \A c \in DOMAIN pr.dials :
                 /\ c \in Nodes /\ c \in DOMAIN cfg.ports
                 /\ pr.dials[c] = Endpoint(pr.node, c)
                 /\ pr.dials[c][2] = cfg.ports[c]
<1>1. PICK n \in Nodes, run \in 0 .. gen, machine \in Machines :
          Starts(n) /\ pr = Process(n, run, machine)
  BY DEF ProcsInv
<1>2. pr.node = n /\ pr.dials = [c \in Range(Children[n]) |-> Endpoint(n, c)]
  BY <1>1 DEF Process
<1>3. n \in DOMAIN cfg.ports /\ Range(Children[n]) \subseteq DOMAIN cfg.ports
  BY <1>1, PortsKnown
<1>4. Range(Children[n]) \subseteq Nodes
  <2>1. Children[n] \in Seq(Nodes)
    BY StartupAssumption DEF StartupAssumption
  <2>2. QED
    BY <2>1 DEF Range
<1>5. \A c : Endpoint(n, c)[2] = cfg.ports[c]
  BY DEF Endpoint, PyEndpoint, NodeInfo
<1>6. QED
  BY <1>2, <1>3, <1>4, <1>5

(* Every stub reaches its child where the configuration places it, never   *)
(* another node, and a client the leader, for every configuration that     *)
(* gives the nodes ports of their own: languages may differ along an edge. *)
THEOREM StubsReachTheirChildren == Spec => []StubsReachChildren
<1>1. ASSUME TypeOK PROVE StubsReachChildren
  <2>1. ProcsInv /\ cfg \in Configs
    BY <1>1, TypeParts
  <2>2. ASSUME NEW pr \in procs, NEW c \in DOMAIN pr.dials
        PROVE  /\ \A r \in At(pr.dials[c], pr.on) : r.node = c
               /\ Cardinality(Listing(c)) = 1 =>
                     {r \in procs : r.node = c /\ r.on = PlacedAt(c, pr.on)}
                         \subseteq At(pr.dials[c], pr.on)
    <3>1. /\ c \in Nodes /\ c \in DOMAIN cfg.ports
          /\ pr.dials[c] = Endpoint(pr.node, c) /\ pr.dials[c][2] = cfg.ports[c]
      BY <2>1, <2>2, Dialled
    <3>2. ASSUME NEW r \in At(pr.dials[c], pr.on) PROVE r.node = c
      <4>1. r \in procs /\ cfg.ports[r.node] = cfg.ports[c]
        BY <3>1 DEF At
      <4>2. r.node \in DOMAIN cfg.ports
        BY <2>1, <4>1, Dialled
      <4>3. QED
        BY <2>1, <3>1, <4>1, <4>2, PortsApart
    <3>3. ASSUME Cardinality(Listing(c)) = 1, NEW r \in procs,
                 r.node = c, r.on = PlacedAt(c, pr.on)
          PROVE  r \in At(pr.dials[c], pr.on)
      <4>1. PlacedAt(c, pr.on) = Resolve(Endpoint(pr.node, c)[1], pr.on)
        BY <2>1, <3>1, <3>3, ListedOnce DEF Endpoint
      <4>2. QED
        BY <3>1, <3>3, <4>1 DEF At
    <3>4. QED
      BY <3>2, <3>3
  <2>3. ASSUME LoadOk, Cardinality(Listing(Leader)) = 1, NEW machine \in Machines
        PROVE  {r \in procs : r.node = Leader /\ r.on = PlacedAt(Leader, machine)}
                   = At(NodeInfo(Leader), machine)
    <3>1. Leader \in Nodes
      BY StartupAssumption DEF StartupAssumption
    <3>2. /\ Leader \in Listed /\ NodeInfo(Leader)[2] = cfg.ports[Leader]
          /\ PlacedAt(Leader, machine) = Resolve(NodeInfo(Leader)[1], machine)
      BY <2>1, <2>3, <3>1, ListedOnce
    <3>3. Leader \in DOMAIN cfg.ports
      BY <2>3, <3>2 DEF LoadOk
    <3>4. \A r \in procs : cfg.ports[r.node] = cfg.ports[Leader] <=> r.node = Leader
      BY <2>1, <3>3, Dialled, PortsApart
    <3>5. QED
      BY <3>2, <3>4 DEF At
  <2>4. QED
    BY <2>2, <2>3 DEF StubsReachChildren
<1>2. QED
  BY <1>1, ClusterTypes, PTL
=============================================================================
