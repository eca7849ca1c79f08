----------------------------- MODULE MCStartup -----------------------------
(* Startup for TLC: a leader A with a C++ child B and a Python child I,    *)
(* which has a C++ child C of its own, so that every pair of languages     *)
(* meets in an edge.                                                       *)
EXTENDS Startup, TLC

CONSTANTS A, B, C, I, m1, m2, here

SmallTree == A :> <<B, I>> @@ B :> <<>> @@ I :> <<C>> @@ C :> <<>>

LeavesFirst == <<C, I, B, A>>

HostOf(addr, names) == [addr |-> addr, procs |-> names]

AllPorts == A :> 1 @@ B :> 2 @@ C :> 3 @@ I :> 4

Config(hosts, ports, root) == [hosts |-> hosts, ports |-> ports, root |-> root]

(* All on one machine, by its address or as 127.0.0.1; two machines; a     *)
(* node that two hosts list; one that none lists; one without a port.      *)
SmallConfigs ==
    {Config(<<HostOf(m1, <<A, B, C, I>>)>>, AllPorts, A),
     Config(<<HostOf(here, <<A, B, C, I>>)>>, AllPorts, NoNode),
     Config(<<HostOf(m1, <<A, B, I>>), HostOf(m2, <<C>>)>>, AllPorts, A),
     Config(<<HostOf(m1, <<A, B>>), HostOf(m2, <<I, C>>)>>, AllPorts, A),
     Config(<<HostOf(m1, <<A, B, C, I>>), HostOf(m2, <<C>>)>>, AllPorts, A),
     Config(<<HostOf(m1, <<A, B, I>>)>>, AllPorts, A),
     Config(<<HostOf(m1, <<A, B, C, I>>)>>, A :> 1 @@ C :> 3 @@ I :> 4, A)}
=============================================================================
