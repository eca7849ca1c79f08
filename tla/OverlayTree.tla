---------------------------- MODULE OverlayTree -----------------------------
(***************************************************************************)
(* The tree of the cluster where nodes.yaml has no "children": every node  *)
(* derives it from the overlay for itself, the C++ nodes with buildTree of *)
(* src/common/config.hpp and the Python node with _build_children of       *)
(* src/python_server/server.py.                                            *)
(*                                                                         *)
(* buildTree walks the vector q with a reference cur into it.  When        *)
(* q.push_back grows the vector, cur refers to freed memory, and the next  *)
(* children_[cur] reads that: the name may still be there, it may be       *)
(* another one or none of the cluster, or the process dies.                *)
(***************************************************************************)
EXTENDS Naturals, FiniteSets, SequencesExt

CONSTANTS
    Nodes, Leader,
    Overlays,      \* sequences of edges that nodes.yaml may list
    Stray          \* a key that is no node's name

ASSUME OverlayAssumption ==
    /\ IsFiniteSet(Nodes) /\ Leader \in Nodes /\ Stray \notin Nodes
    /\ \A edges \in Overlays : edges \in Seq(Nodes \X Nodes)

VARIABLES
    overlay,       \* overlay of nodes.yaml
    q, i,          \* the nodes found (a sequence), and the index of cur
    capacity,      \* of the vector q
    rest,          \* neighbours of cur that the inner loop has not reached
    valid,         \* cur refers to q[i]
    strayed,       \* cur has been read when it did not
    children,      \* a sequence of nodes for every key
    status         \* "build", "built" or "died"

vars == <<overlay, q, i, capacity, rest, valid, strayed, children, status>>

Keys == Nodes \cup {Stray}

(* The values of a loop of n turns: base, and turn[k] of the value before. *)
Loop(n, turn, base) ==
    LET after[k \in 0 .. n] == IF k = 0 THEN base ELSE turn[k][after[k - 1]]
    IN  after

(* Faulty: an edge is entered for its first end only.                      *)
AdjDirected(edges, n) ==
    LET enter == [k \in DOMAIN edges |-> [adj \in Seq(Nodes) |->
                    IF edges[k][1] = n THEN Append(adj, edges[k][2]) ELSE adj]]
    IN  Loop(Len(edges), enter, <<>>)[Len(edges)]

(* What edge e adds to the entry of n in adj_.                             *)
Ends(e, n) ==
    (IF e[1] = n THEN <<e[2]>> ELSE <<>>) \o (IF e[2] = n THEN <<e[1]>> ELSE <<>>)

(* adj_: the other ends of the edges of n, in the order of the edges.      *)
Adj(edges, n) ==
    LET enter == [k \in DOMAIN edges |-> [adj \in Seq(Nodes) |-> adj \o Ends(edges[k], n)]]
    IN  Loop(Len(edges), enter, <<>>)[Len(edges)]

Init ==
    /\ overlay \in Overlays
    /\ q = <<Leader>> /\ i = 0 /\ capacity = 1
    /\ rest = <<>>
    /\ valid = TRUE /\ strayed = FALSE
    /\ children = [k \in Keys |-> <<>>]
    /\ status = "build"

TakeNext ==
    /\ status = "build" /\ rest = <<>> /\ i < Len(q)
    /\ i' = i + 1
    /\ rest' = Adj(overlay, q[i + 1])
    /\ valid' = TRUE
    /\ UNCHANGED <<overlay, q, capacity, strayed, children, status>>

(* Faulty: a node counts as visited when its turn as cur comes.            *)
VisitedLate(n) == n \in ToSet(SubSeq(q, 1, i))

Visited(n) == n \in ToSet(q)

Pass ==
    /\ status = "build" /\ rest # <<>>
    /\ Visited(Head(rest))
    /\ rest' = Tail(rest)
    /\ UNCHANGED <<overlay, q, i, capacity, valid, strayed, children, status>>

(* What children_[cur] reads.                                              *)
MayRead(key) == valid => key = q[i]

(* Faulty: the child is entered in front of those before it.               *)
AdoptInFront(key) ==
    /\ status = "build" /\ rest # <<>>
    /\ ~Visited(Head(rest)) /\ MayRead(key)
    /\ children' = [children EXCEPT ![key] = <<Head(rest)>> \o @]
    /\ q' = Append(q, Head(rest))
    /\ capacity' = IF Len(q) = capacity THEN 2 * capacity ELSE capacity
    /\ valid' = (valid /\ Len(q) < capacity)
    /\ strayed' = (strayed \/ ~valid)
    /\ rest' = Tail(rest)
    /\ UNCHANGED <<overlay, i, status>>

(* A full vector moves when it grows.                                      *)
Adopt(key) ==
    /\ status = "build" /\ rest # <<>>
    /\ ~Visited(Head(rest)) /\ MayRead(key)
    /\ children' = [children EXCEPT ![key] = Append(@, Head(rest))]
    /\ q' = Append(q, Head(rest))
    /\ capacity' = IF Len(q) = capacity THEN 2 * capacity ELSE capacity
    /\ valid' = (valid /\ Len(q) < capacity)
    /\ strayed' = (strayed \/ ~valid)
    /\ rest' = Tail(rest)
    /\ UNCHANGED <<overlay, i, status>>

Die ==
    /\ status = "build" /\ rest # <<>>
    /\ ~Visited(Head(rest)) /\ ~valid
    /\ strayed' = TRUE /\ status' = "died"
    /\ UNCHANGED <<overlay, q, i, capacity, rest, valid, children>>

Finish ==
    /\ status = "build" /\ rest = <<>> /\ i = Len(q)
    /\ status' = "built"
    /\ UNCHANGED <<overlay, q, i, capacity, rest, valid, strayed, children>>

Next == TakeNext \/ Pass \/ (\E key \in Keys : Adopt(key)) \/ Die \/ Finish

Spec == Init /\ [][Next]_vars

-----------------------------------------------------------------------------
(* _build_children: pairs of a node and its parent as they enter the dict, *)
(* whose order is also that of the queue; children are then listed in it.  *)
Dicts == Seq(Nodes \X Keys)

Enter(found, cur, nb) ==
    IF \E k \in DOMAIN found : found[k][1] = nb THEN found ELSE Append(found, <<nb, cur>>)

(* The dict as the neighbours of cur are looked at.                        *)
Looked(edges, found, cur) ==
    LET nbs == Adj(edges, cur)
    IN  Loop(Len(nbs), [j \in DOMAIN nbs |-> [f \in Dicts |-> Enter(f, cur, nbs[j])]], found)

(* The dict as the loop goes over the queue.  No node enters twice, so     *)
(* that the loop has come to its end after as many turns as there are      *)
(* nodes.                                                                  *)
Turns(edges) ==
    LET look == [k \in 1 .. Cardinality(Nodes) |-> [found \in Dicts |->
                    IF k > Len(found) THEN found
                    ELSE LET cur == found[k][1]
                         IN  Looked(edges, found, cur)[Len(Adj(edges, cur))]]]
    IN  Loop(Cardinality(Nodes), look, << <<Leader, Stray>> >>)

Parents(edges) == Turns(edges)[Cardinality(Nodes)]

(* The list of n as the items of the dict are gone through.                *)
Listed(found, n) ==
    LET list == [j \in DOMAIN found |-> [kids \in Seq(Nodes) |->
                    IF found[j][2] = n THEN Append(kids, found[j][1]) ELSE kids]]
    IN  Loop(Len(found), list, <<>>)

BuildChildren(edges) ==
    LET found == Parents(edges)
    IN  [n \in Nodes |-> Listed(found, n)[Len(found)]]

Joined(edges, m, n) == \E k \in DOMAIN edges : {edges[k][1], edges[k][2]} = {m, n}

(* The nodes within d edges of the leader, for d up to one more than the   *)
(* number of nodes.                                                        *)
Balls(edges) ==
    LET grow == [d \in 1 .. Cardinality(Nodes) + 1 |-> [inner \in SUBSET Nodes |->
                    inner \cup {n \in Nodes : \E m \in inner : Joined(edges, m, n)}]]
    IN  Loop(Cardinality(Nodes) + 1, grow, {Leader})

Ball(edges, d) == Balls(edges)[d]

Reached(edges) == Ball(edges, Cardinality(Nodes))

-----------------------------------------------------------------------------
(* Whatever the dangling reference yields, no node becomes a child twice   *)
(* and the leader never does: no shard is fetched twice (TreeAssumption of *)
(* TeamFetch).                                                             *)
ChildrenOnce ==
    LET lists == {x \in Keys \X (1 .. Len(q)) : x[2] <= Len(children[x[1]])}
        at(x) == children[x[1]][x[2]]
    IN  /\ \A x, y \in lists : at(x) = at(y) => x = y
        /\ \A x \in lists : at(x) # Leader

(* While cur is not read through a dangling reference the two languages    *)
(* derive one tree, child by child in one order: without that a gather     *)
(* that crosses nodes of both would miss shards or fetch them twice.       *)
SameTree ==
    status = "built" /\ ~strayed =>
        \A n \in Nodes : children[n] = BuildChildren(overlay)[n]

(* The Python tree has every node that the leader can reach, each below    *)
(* one parent, and over a shortest path: at depth d are the nodes d edges  *)
(* away.  (It depends on the overlay alone: looked at before the build.)   *)
ShortestPaths ==
    i = 0 => LET kids == BuildChildren(overlay) IN
        /\ UNION {ToSet(kids[n]) : n \in Nodes} = Reached(overlay) \ {Leader}
        /\ \A m, n \in Nodes : \A c \in ToSet(kids[m]) :
              /\ c \in ToSet(kids[n]) => m = n
              /\ \A d \in 0 .. Cardinality(Nodes) :
                     m \in Ball(overlay, d) <=> c \in Ball(overlay, d + 1)

(* The report blames the shape of the overlay for a tree in which A has    *)
(* one child: then the overlay would determine the tree.                   *)
OverlayDecides ==
    status = "built" => \A n \in Nodes : children[n] = BuildChildren(overlay)[n]
=============================================================================
