------------------------- MODULE OverlayTree_proofs -------------------------
(***************************************************************************)
(* The tree that a node derives from an overlay, for every overlay.        *)
(***************************************************************************)
EXTENDS OverlayTree, FiniteSetTheorems, WellFoundedInduction, TLAPS

(* Every child has been found, the leader first of all.                    *)
FoundInv ==
    /\ q \in Seq(ToSet(q)) /\ Leader \in ToSet(q)
    /\ children \in [Keys -> Seq(ToSet(q))]

(* No place in the lists of children has what another one has.             *)
OnceInv ==
    \A k, l \in Keys :
        \A j \in 1 .. Len(children[k]), m \in 1 .. Len(children[l]) :
            /\ children[k][j] = children[l][m] => k = l /\ j = m
            /\ children[k][j] # Leader

TreeInv == FoundInv /\ OnceInv

(* A sequence that grows by one element.                                   *)
LEMMA Grown ==
    ASSUME NEW S, NEW s \in Seq(S), NEW x
    PROVE  /\ Append(s, x) \in Seq(S \cup {x})
           /\ Len(Append(s, x)) = Len(s) + 1 /\ Len(s) \in Nat
           /\ \A j \in 1 .. Len(s) : Append(s, x)[j] = s[j] /\ s[j] \in S
           /\ Append(s, x)[Len(s) + 1] = x
<1>1. s \in Seq(S \cup {x}) /\ x \in S \cup {x}
  OBVIOUS
<1>2. QED
  BY <1>1

(* The tree begins with the leader and no children.                        *)
LEMMA TreeInitially == Init => TreeInv
<1> SUFFICES ASSUME Init PROVE TreeInv
  OBVIOUS
<1>1. q = <<Leader>> /\ children = [k \in Keys |-> <<>>]
  BY DEF Init
<1>2. ToSet(q) = {Leader} /\ q \in Seq({Leader})
  BY <1>1 DEF ToSet
<1>3. \A k \in Keys : children[k] = <<>> /\ Len(children[k]) = 0
  BY <1>1
<1>4. FoundInv
  BY <1>1, <1>2 DEF FoundInv
<1>5. OnceInv
  BY <1>3 DEF OnceInv
<1>6. QED
  BY <1>4, <1>5 DEF TreeInv

(* Whatever key is read through the reference, the node that is adopted    *)
(* had not been found, so no list has it.                                  *)
LEMMA AdoptKeeps ==
    ASSUME TreeInv, NEW key \in Keys, Adopt(key)
    PROVE  TreeInv'
<1> DEFINE S == ToSet(q)
           x == Head(rest)
<1>1. /\ x \notin S /\ q' = Append(q, x)
      /\ children' = [children EXCEPT ![key] = Append(children[key], x)]
  <2>1. ~Visited(x) /\ q' = Append(q, x)
    BY DEF Adopt
  <2>2. children' = [children EXCEPT ![key] = Append(children[key], x)]
    BY DEF Adopt
  <2>3. QED
    BY <2>1, <2>2 DEF Visited, ToSet
<1>2. q \in Seq(S) /\ Leader \in S /\ children \in [Keys -> Seq(S)]
  BY DEF TreeInv, FoundInv
<1> HIDE DEF S, x
<1>3. q' \in Seq(S \cup {x})
  BY <1>1, <1>2, Grown
<1>4. ToSet(q') = S \cup {x}
  <2>1. /\ Len(q') = Len(q) + 1 /\ Len(q) \in Nat
        /\ \A j \in 1 .. Len(q) : q'[j] = q[j]
        /\ q'[Len(q) + 1] = x
    BY <1>1, <1>2, Grown
  <2>2. DOMAIN q' = 1 .. Len(q) + 1 /\ DOMAIN q = 1 .. Len(q)
    BY <1>2, <1>3, <2>1
  <2>3. S = {q[j] : j \in 1 .. Len(q)}
    BY <2>2 DEF S, ToSet
  <2>4. ToSet(q') = {q'[j] : j \in 1 .. Len(q) + 1}
    BY <2>2 DEF ToSet
  <2>5. 1 .. Len(q) + 1 = (1 .. Len(q)) \cup {Len(q) + 1}
    BY <2>1
  <2>6. QED
    BY <2>1, <2>3, <2>4, <2>5
<1>5. /\ children'[key] = Append(children[key], x)
      /\ \A k \in Keys : k # key => children'[k] = children[k]
      /\ DOMAIN children' = Keys /\ children' = [k \in Keys |-> children'[k]]
  BY <1>1, <1>2
<1>6. /\ children'[key] \in Seq(S \cup {x})
      /\ Len(children'[key]) = Len(children[key]) + 1 /\ Len(children[key]) \in Nat
      /\ \A j \in 1 .. Len(children[key]) :
            children'[key][j] = children[key][j] /\ children[key][j] \in S
      /\ children'[key][Len(children[key]) + 1] = x
  BY <1>2, <1>5, Grown
<1>7. \A k \in Keys : children[k] \in Seq(S)
  BY <1>2
<1>8. FoundInv'
  <2>1. \A k \in Keys : children'[k] \in Seq(S \cup {x})
    <3>1. \A k \in Keys : children[k] \in Seq(S \cup {x})
      BY <1>7
    <3>2. QED
      BY <1>5, <1>6, <3>1
  <2>2. children' \in [Keys -> Seq(S \cup {x})]
    BY <1>5, <2>1
  <2>3. Keys' = Keys
    BY DEF Keys
  <2>4. QED
    BY <1>2, <1>3, <1>4, <2>2, <2>3 DEF FoundInv
<1>9. OnceInv'
  <2>1. SUFFICES ASSUME NEW k \in Keys, NEW l \in Keys,
                        NEW j \in 1 .. Len(children'[k]), NEW m \in 1 .. Len(children'[l])
                 PROVE  /\ children'[k][j] = children'[l][m] => k = l /\ j = m
                        /\ children'[k][j] # Leader
    BY DEF OnceInv, Keys
  <2> DEFINE Kept(h, n) == /\ n \in 1 .. Len(children[h])
                           /\ children'[h][n] = children[h][n]
                           /\ children[h][n] \in S
             New(h, n)  == h = key /\ n = Len(children[key]) + 1 /\ children'[h][n] = x
  <2>2. ASSUME NEW h \in Keys, NEW n \in 1 .. Len(children'[h])
        PROVE  Kept(h, n) \/ New(h, n)
    <3>1. CASE h = key
      <4>1. n \in 1 .. Len(children[key]) \/ n = Len(children[key]) + 1
        BY <1>6, <2>2, <3>1
      <4>2. QED
        BY <1>6, <3>1, <4>1, Zenon
    <3>2. CASE h # key
      <4>1. children[h] \in Seq(S) /\ children'[h] = children[h]
        BY <1>5, <1>7, <3>2
      <4>2. QED
        BY <2>2, <4>1
    <3>3. QED
      BY <3>1, <3>2
  <2>3. (Kept(k, j) \/ New(k, j)) /\ (Kept(l, m) \/ New(l, m))
    BY <2>2
  <2>4. QED
    BY <1>1, <1>2, <2>3 DEF TreeInv, OnceInv
<1>10. QED
  BY <1>8, <1>9 DEF TreeInv

(* Every step of buildTree keeps the invariant of the tree.                *)
LEMMA TreePreserved == TreeInv /\ [Next]_(vars) => TreeInv'
<1>1. ASSUME TreeInv, UNCHANGED <<q, children>> PROVE TreeInv'
  BY <1>1 DEF TreeInv, FoundInv, OnceInv, Keys
<1>2. TakeNext \/ Pass \/ Die \/ Finish \/ UNCHANGED vars
          => UNCHANGED <<q, children>>
  BY DEF TakeNext, Pass, Die, Finish, vars
<1>3. QED
  BY <1>1, <1>2, AdoptKeeps DEF Next

(* No node is the child of two nodes, or twice of one, and the leader is   *)
(* nobody's, for every overlay, whatever the dangling reference yields.    *)
THEOREM NoChildTwice == Spec => []ChildrenOnce
<1>1. TreeInv => ChildrenOnce
  <2> SUFFICES ASSUME TreeInv PROVE ChildrenOnce
    OBVIOUS
  <2>1. Len(q) \in Nat /\ \A k \in Keys : Len(children[k]) \in Nat
    BY DEF TreeInv, FoundInv
  <2> DEFINE lists == {x \in Keys \X (1 .. Len(q)) : x[2] <= Len(children[x[1]])}
             child(x) == children[x[1]][x[2]]
  <2>2. \A x \in lists : x = <<x[1], x[2]>> /\ x[1] \in Keys /\ x[2] \in 1 .. Len(children[x[1]])
    BY <2>1
  <2> HIDE DEF lists
  <2>3. /\ \A x, y \in lists : children[x[1]][x[2]] = children[y[1]][y[2]] => x = y
        /\ \A x \in lists : children[x[1]][x[2]] # Leader
    <3>1. ASSUME NEW x \in lists, NEW y \in lists
          PROVE  /\ children[x[1]][x[2]] = children[y[1]][y[2]] => x[1] = y[1] /\ x[2] = y[2]
                 /\ children[x[1]][x[2]] # Leader
      BY <2>2 DEF TreeInv, OnceInv
    <3>2. QED
      BY <2>2, <3>1
  <2>4. QED
    BY <2>3 DEF ChildrenOnce, lists
<1>2. QED
  BY <1>1, TreeInitially, TreePreserved, PTL DEF Spec

-----------------------------------------------------------------------------
(* A set of the first numbers that has 0, and with a number the next, has  *)
(* them all: induction, over a set.                                        *)
LEMMA UpTo ==
    ASSUME NEW n \in Nat, NEW T, 0 \in T, \A k \in 1 .. n : k - 1 \in T => k \in T
    PROVE  \A k \in 0 .. n : k \in T
<1> DEFINE missed == {k \in 0 .. n : k \notin T}
<1>1. SUFFICES ASSUME missed # {} PROVE FALSE
  OBVIOUS
<1>2. missed \subseteq Nat
  OBVIOUS
<1>3. PICK k \in missed : \A j \in missed : ~(<<j, k>> \in OpToRel(<, Nat))
  BY <1>1, <1>2, NatLessThanWellFounded, WFMin
<1>4. ASSUME NEW j \in missed PROVE k <= j
  <2>1. <<j, k>> \in Nat \X Nat /\ <<j, k>>[1] = j /\ <<j, k>>[2] = k
    BY <1>2
  <2>2. ~(j < k)
    BY <1>3, <2>1, Zenon DEF OpToRel
  <2>3. QED
    BY <1>2, <2>2
<1>5. k # 0 /\ k \in 1 .. n
  <2>1. k \in 0 .. n /\ k \notin T
    OBVIOUS
  <2>2. k # 0
    BY <2>1
  <2>3. QED
    BY <2>1, <2>2
<1>6. k - 1 \in 0 .. n /\ k - 1 \notin missed
  BY <1>4, <1>5
<1>7. QED
  BY <1>3, <1>5, <1>6

(* A loop of n turns over the values of S: turn[k] makes the next value    *)
(* from the one before it.                                                 *)
TurnsOn(turn, S, n) == turn \in [1 .. n -> [S -> S]]

Values(f, turn, S, base, n) ==
    /\ f \in [0 .. n -> S] /\ f[0] = base
    /\ \A k \in 1 .. n : f[k] = turn[k][f[k - 1]]

(* There is a function of its values.                                      *)
LEMMA Recursion ==
    ASSUME NEW S, NEW base \in S, NEW n \in Nat, NEW turn, TurnsOn(turn, S, n)
    PROVE  \E f : Values(f, turn, S, base, n)
<1> USE DEF TurnsOn
<1> DEFINE T == {m \in 0 .. n : \E f : Values(f, turn, S, base, m)}
<1>1. 0 \in T
  <2>1. Values([k \in 0 .. 0 |-> base], turn, S, base, 0)
    BY DEF Values
  <2>2. QED
    BY <2>1
<1>2. ASSUME NEW m \in 1 .. n, m - 1 \in T PROVE m \in T
  <2>0. PICK f : Values(f, turn, S, base, m - 1)
    BY <1>2
  <2>1. /\ f \in [0 .. m - 1 -> S] /\ f[0] = base
        /\ \A k \in 1 .. m - 1 : f[k] = turn[k][f[k - 1]]
    BY <2>0 DEF Values
  <2>2. f[m - 1] \in S
    BY <2>1
  <2> DEFINE g == [k \in 0 .. m |-> IF k = m THEN turn[m][f[m - 1]] ELSE f[k]]
  <2>3. turn[m][f[m - 1]] \in S
    BY <2>2
  <2>4. \A k \in 0 .. m - 1 : g[k] = f[k] /\ f[k] \in S
    BY <2>1
  <2>5. g \in [0 .. m -> S] /\ g[0] = base /\ g[m] = turn[m][f[m - 1]]
    BY <2>1, <2>3, <2>4
  <2> HIDE DEF g
  <2>6. \A k \in 1 .. m : g[k] = turn[k][g[k - 1]]
    <3>1. ASSUME NEW k \in 1 .. m PROVE g[k] = turn[k][g[k - 1]]
      <4>1. g[k - 1] = f[k - 1]
        BY <2>4
      <4>2. CASE k = m
        BY <2>5, <4>1, <4>2
      <4>3. CASE k # m
        <5>1. k \in 1 .. m - 1
          BY <4>3
        <5>2. QED
          BY <2>1, <2>4, <4>1, <5>1
      <4>4. QED
        BY <4>2, <4>3
    <3>2. QED
      BY <3>1
  <2>7. Values(g, turn, S, base, m)
    BY <2>5, <2>6 DEF Values
  <2>8. QED
    BY <2>7
<1>3. n \in T
  <2>1. \A m \in 1 .. n : m - 1 \in T => m \in T
    BY <1>2
  <2> HIDE DEF T
  <2>2. \A m \in 0 .. n : m \in T
    BY <1>1, <2>1, UpTo
  <2>3. QED
    BY <2>2
<1>4. QED
  BY <1>3

(* Loop is that function: there is one, and its equation is all that was   *)
(* asked of it.                                                            *)
LEMMA LoopFact ==
    ASSUME NEW S, NEW base \in S, NEW n \in Nat, NEW turn, TurnsOn(turn, S, n)
    PROVE  Values(Loop(n, turn, base), turn, S, base, n)
<1> DEFINE Is(f) == f = [k \in 0 .. n |-> IF k = 0 THEN base ELSE turn[k][f[k - 1]]]
           after == CHOOSE f : Is(f)
<1>1. Loop(n, turn, base) = after
  BY DEF Loop
<1>2. PICK f : Values(f, turn, S, base, n)
  BY Recursion
<1>3. Is(f)
  <2>1. ASSUME NEW k \in 0 .. n
        PROVE  f[k] = IF k = 0 THEN base ELSE turn[k][f[k - 1]]
    BY <1>2, k = 0 \/ k \in 1 .. n DEF Values
  <2>2. f \in [0 .. n -> S]
    BY <1>2, Zenon DEF Values
  <2>3. f = [k \in 0 .. n |-> f[k]]
    BY <2>2, Zenon
  <2>4. QED
    BY <2>1, <2>3, Zenon
<1>4. Is(after)
  BY <1>3, Zenon
<1> HIDE DEF after
<1>5. /\ after = [k \in 0 .. n |-> after[k]]
      /\ after[0] = base /\ \A k \in 1 .. n : after[k] = turn[k][after[k - 1]]
  <2>1. 0 \in 0 .. n /\ \A k \in 1 .. n : k \in 0 .. n /\ k # 0
    OBVIOUS
  <2>2. \A k \in 0 .. n : after[k] = IF k = 0 THEN base ELSE turn[k][after[k - 1]]
    BY <1>4, Zenon
  <2>3. after = [k \in 0 .. n |-> after[k]]
    BY <1>4, <2>2, Zenon
  <2>4. QED
    BY <2>1, <2>2, <2>3, Zenon
<1> DEFINE T == {k \in 0 .. n : after[k] \in S}
<1>6. 0 \in T /\ \A k \in 1 .. n : k - 1 \in T => k \in T
  <2>1. ASSUME NEW k \in 1 .. n, after[k - 1] \in S PROVE after[k] \in S
    <3>1. turn[k] \in [S -> S]
      BY DEF TurnsOn
    <3>2. QED
      BY <1>5, <2>1, <3>1, Zenon
  <2>2. 0 \in 0 .. n /\ after[0] \in S
    BY <1>5
  <2>3. QED
    BY <2>1, <2>2
<1>7. \A k \in 0 .. n : k \in T
  <2> HIDE DEF T
  <2>1. QED
    BY <1>6, UpTo
<1>8. \A k \in 0 .. n : after[k] \in S
  BY <1>7
<1>9. QED
  BY <1>1, <1>5, <1>8 DEF Values

(* What is in two sequences put together.                                  *)
LEMMA ConcatHas ==
    ASSUME NEW s \in Seq(Nodes), NEW t \in Seq(Nodes), NEW m
    PROVE  Contains(s \o t, m) <=> Contains(s, m) \/ Contains(t, m)
<1> USE DEF Contains
<1>1. /\ Len(s) \in Nat /\ Len(t) \in Nat /\ Len(s \o t) = Len(s) + Len(t)
      /\ \A j \in 1 .. Len(s) + Len(t) :
            (s \o t)[j] = IF j <= Len(s) THEN s[j] ELSE t[j - Len(s)]
  OBVIOUS
<1>2. ASSUME NEW j \in 1 .. Len(t), t[j] = m
      PROVE  \E k \in 1 .. Len(s \o t) : (s \o t)[k] = m
  <2>1. Len(s) + j \in 1 .. Len(s) + Len(t) /\ (Len(s) + j) - Len(s) = j
    BY <1>1
  <2>2. (s \o t)[Len(s) + j] = m
    BY <1>1, <1>2, <2>1
  <2>3. QED
    BY <1>1, <2>1, <2>2
<1>3. ASSUME NEW j \in 1 .. Len(s), s[j] = m
      PROVE  \E k \in 1 .. Len(s \o t) : (s \o t)[k] = m
  BY <1>1, <1>3
<1>4. ASSUME NEW k \in 1 .. Len(s \o t), (s \o t)[k] = m
      PROVE  \/ \E j \in 1 .. Len(s) : s[j] = m
             \/ \E j \in 1 .. Len(t) : t[j] = m
  <2>1. CASE k <= Len(s)
    BY <1>1, <1>4, <2>1
  <2>2. CASE ~(k <= Len(s))
    <3>1. k - Len(s) \in 1 .. Len(t)
      BY <1>1, <2>2
    <3>2. QED
      BY <1>1, <1>4, <2>2, <3>1
  <2>3. QED
    BY <2>1, <2>2
<1>5. QED
  BY <1>2, <1>3, <1>4

(* What is in a sequence of no node, and of one.                            *)
LEMMA FewHave ==
    ASSUME NEW a, NEW m
    PROVE  ~Contains(<<>>, m) /\ (Contains(<<a>>, m) <=> a = m)
BY DEF Contains

(* An edge gives a node the other end, when the node is an end of it.      *)
LEMMA EndsHas ==
    ASSUME NEW e \in Nodes \X Nodes, NEW n \in Nodes, NEW m \in Nodes
    PROVE  Contains(Ends(e, n), m) <=> {e[1], e[2]} = {n, m}
<1> DEFINE a == e[1]
           b == e[2]
<1>1. PICK s \in Seq(Nodes), t \in Seq(Nodes) :
          /\ s = (IF a = n THEN <<b>> ELSE <<>>) /\ t = (IF b = n THEN <<a>> ELSE <<>>)
  <2>1. a \in Nodes /\ b \in Nodes
    OBVIOUS
  <2> HIDE DEF a, b
  <2>2. <<a>> \in Seq(Nodes) /\ <<b>> \in Seq(Nodes) /\ <<>> \in Seq(Nodes)
    BY <2>1
  <2>3. QED
    BY <2>2, Zenon
<1>2. Ends(e, n) = s \o t
  BY <1>1 DEF Ends
<1>3. Contains(s \o t, m) <=> Contains(s, m) \/ Contains(t, m)
  BY ConcatHas
<1> HIDE DEF a, b
<1>4. Contains(s, m) <=> a = n /\ b = m
  <2>1. CASE a = n
    BY <1>1, <2>1, FewHave, Zenon
  <2>2. CASE a # n
    BY <1>1, <2>2, FewHave, Zenon
  <2>3. QED
    BY <2>1, <2>2
<1>5. Contains(t, m) <=> b = n /\ a = m
  <2>1. CASE b = n
    BY <1>1, <2>1, FewHave, Zenon
  <2>2. CASE b # n
    BY <1>1, <2>2, FewHave, Zenon
  <2>3. QED
    BY <2>1, <2>2
<1>6. {a, b} = {n, m} <=> (a = n /\ b = m) \/ (b = n /\ a = m)
  OBVIOUS
<1>7. QED
  BY <1>2, <1>3, <1>4, <1>5, <1>6, Zenon DEF a, b

-----------------------------------------------------------------------------
(* What adj_ lists for a node are the nodes at the other ends of edges.    *)
LEMMA AdjFact ==
    ASSUME NEW edges \in Seq(Nodes \X Nodes), NEW n \in Nodes
    PROVE  /\ Adj(edges, n) \in Seq(Nodes)
           /\ \A m \in Nodes : Joined(edges, n, m) <=> Contains(Adj(edges, n), m)
<1> DEFINE L == Len(edges)
           enter == [k \in DOMAIN edges |-> [s \in Seq(Nodes) |-> s \o Ends(edges[k], n)]]
           adj == Loop(L, enter, <<>>)
<1>0. L \in Nat /\ DOMAIN edges = 1 .. L
  OBVIOUS
<1>1. Adj(edges, n) = adj[L]
  BY DEF Adj
<1>2. \A k \in 1 .. L : /\ Ends(edges[k], n) \in Seq(Nodes)
                        /\ edges[k] = <<edges[k][1], edges[k][2]>>
                        /\ edges[k][1] \in Nodes /\ edges[k][2] \in Nodes
  BY DEF Ends
<1> HIDE DEF L
<1> USE <1>0
<1>3. /\ \A k \in 0 .. L : adj[k] \in Seq(Nodes)
      /\ adj[0] = <<>> /\ \A k \in 1 .. L : adj[k] = adj[k - 1] \o Ends(edges[k], n)
  <2>1. TurnsOn(enter, Seq(Nodes), L)
    BY <1>2 DEF TurnsOn
  <2>2. \A s \in Seq(Nodes), k \in 1 .. L : enter[k][s] = s \o Ends(edges[k], n)
    OBVIOUS
  <2> HIDE DEF enter
  <2>3. <<>> \in Seq(Nodes)
    OBVIOUS
  <2>4. PICK none \in Seq(Nodes) : none = <<>>
    BY <2>3, Zenon
  <2>5. Values(Loop(L, enter, none), enter, Seq(Nodes), none, L)
    BY <2>1, LoopFact
  <2>6. adj = Loop(L, enter, none)
    BY <2>4, Zenon
  <2> HIDE DEF adj
  <2>7. /\ adj \in [0 .. L -> Seq(Nodes)] /\ adj[0] = none
        /\ \A k \in 1 .. L : adj[k] = enter[k][adj[k - 1]]
    BY <2>5, <2>6 DEF Values
  <2>8. ASSUME NEW k \in 1 .. L PROVE adj[k] = adj[k - 1] \o Ends(edges[k], n)
    <3>1. adj[k - 1] \in Seq(Nodes)
      BY <2>7
    <3>2. QED
      BY <2>2, <2>7, <3>1, Zenon
  <2>9. QED
    BY <2>4, <2>7, <2>8
<1> HIDE DEF adj
<1> DEFINE Linked(k, m) == \E e \in 1 .. k : {edges[e][1], edges[e][2]} = {n, m}
           T == {k \in 0 .. L : \A m \in Nodes : Contains(adj[k], m) <=> Linked(k, m)}
<1>5. 0 \in T
  <2>1. ASSUME NEW m \in Nodes PROVE ~Contains(adj[0], m) /\ ~Linked(0, m)
    BY <1>3 DEF Contains
  <2>2. 0 \in 0 .. L
    OBVIOUS
  <2>3. QED
    BY <2>1, <2>2
<1>6. ASSUME NEW k \in 1 .. L, k - 1 \in T PROVE k \in T
  <2>1. adj[k - 1] \in Seq(Nodes) /\ Ends(edges[k], n) \in Seq(Nodes) /\ k - 1 \in 0 .. L
    BY <1>2, <1>3, SMTT(30)
  <2>2. ASSUME NEW m \in Nodes
        PROVE  Contains(adj[k], m) <=> Contains(adj[k - 1], m) \/ Contains(Ends(edges[k], n), m)
    <3>1. PICK s \in Seq(Nodes), e \in Seq(Nodes) : s = adj[k - 1] /\ e = Ends(edges[k], n)
      BY <2>1
    <3>2. adj[k] = s \o e
      BY <1>3, <3>1
    <3>3. Contains(s \o e, m) <=> Contains(s, m) \/ Contains(e, m)
      BY ConcatHas
    <3>4. QED
      BY <3>1, <3>2, <3>3, Zenon
  <2>3. ASSUME NEW m \in Nodes
        PROVE  Contains(Ends(edges[k], n), m) <=> {edges[k][1], edges[k][2]} = {n, m}
    <3>1. edges[k] \in Nodes \X Nodes
      BY <1>2
    <3>2. QED
      BY <3>1, EndsHas, Zenon
  <2>4. \A m \in Nodes : Linked(k, m) <=> Linked(k - 1, m) \/ {edges[k][1], edges[k][2]} = {n, m}
    <3>1. 1 .. k = (1 .. k - 1) \cup {k}
      OBVIOUS
    <3>2. QED
      BY <3>1
  <2>5. \A m \in Nodes : Contains(adj[k - 1], m) <=> Linked(k - 1, m)
    BY <1>6
  <2> HIDE DEF Linked
  <2>6. \A m \in Nodes : Contains(adj[k], m) <=> Linked(k, m)
    BY <2>2, <2>3, <2>4, <2>5, Zenon
  <2>7. QED
    BY <2>6
<1>7. L \in T
  <2>1. \A k \in 1 .. L : k - 1 \in T => k \in T
    BY <1>6
  <2> HIDE DEF T
  <2>2. \A k \in 0 .. L : k \in T
    BY <1>0, <1>5, <2>1, UpTo
  <2>3. QED
    BY <1>0, <2>2
<1>8. \A m \in Nodes : Contains(adj[L], m) <=> Joined(edges, n, m)
  <2>1. DOMAIN edges = 1 .. L
    BY DEF L
  <2>2. QED
    BY <1>0, <1>7, <2>1 DEF Joined
<1>9. adj[L] \in Seq(Nodes)
  BY <1>0, <1>3
<1>10. QED
  BY <1>1, <1>8, <1>9

-----------------------------------------------------------------------------
(* The dict of _build_children, as a list: entry b has a node and the node *)
(* whose turn it was when that one entered.                                *)
Has(found, n) == \E a \in 1 .. Len(found) : found[a][1] = n

(* The parent of entry b is entry p, the first that is joined to it.       *)
Below(edges, found, p, b) ==
    /\ found[b][2] = found[p][1]
    /\ Joined(edges, found[p][1], found[b][1])
    /\ \A t \in 1 .. p - 1 : ~Joined(edges, found[t][1], found[b][1])

(* The dict up to and within turn k: nobody twice, everyone below the      *)
(* first of the neighbours, and in the order of the parents.               *)
BreadthFirst(edges, found, k) ==
    /\ found \in Dicts /\ Len(found) > 0 /\ found[1] = <<Leader, Stray>>
    /\ \A a, b \in 1 .. Len(found) : found[a][1] = found[b][1] => a = b
    /\ \A b \in 2 .. Len(found) : \E p \in 1 .. b - 1 : p <= k /\ Below(edges, found, p, b)
    /\ \A a, b \in 2 .. Len(found) : \A p, r \in 1 .. Len(found) :
          a <= b /\ found[a][2] = found[p][1] /\ found[b][2] = found[r][1] => p <= r

(* The neighbours of the first k have been found.                          *)
Through(edges, found, k) ==
    \A t \in 1 .. Len(found) : t <= k =>
        \A m \in Nodes : Joined(edges, found[t][1], m) => Has(found, m)

LEMMA JoinedBoth ==
    ASSUME NEW edges, NEW m, NEW n PROVE Joined(edges, m, n) <=> Joined(edges, n, m)
BY {m, n} = {n, m} DEF Joined

(* What an entry of a dict is.                                             *)
LEMMA EntryType ==
    ASSUME NEW found \in Dicts
    PROVE  /\ Len(found) \in Nat /\ DOMAIN found = 1 .. Len(found)
           /\ \A a \in 1 .. Len(found) : /\ found[a] \in Nodes \X Keys
                                         /\ found[a][1] \in Nodes /\ found[a][2] \in Keys
BY DEF Dicts

(* A node that is not there yet enters at the end.                         *)
LEMMA EnterFact ==
    ASSUME NEW found \in Dicts, NEW cur \in Nodes, NEW nb \in Nodes
    PROVE  /\ Enter(found, cur, nb) \in Dicts
           /\ Has(found, nb) => Enter(found, cur, nb) = found
           /\ ~Has(found, nb) =>
                 /\ Enter(found, cur, nb) = Append(found, <<nb, cur>>)
                 /\ Len(Enter(found, cur, nb)) = Len(found) + 1
                 /\ Enter(found, cur, nb)[Len(found) + 1] = <<nb, cur>>
           /\ \A a \in 1 .. Len(found) : Enter(found, cur, nb)[a] = found[a]
<1>1. <<nb, cur>> \in Nodes \X Keys /\ found \in Seq(Nodes \X Keys)
  BY DEF Dicts, Keys
<1>2. Has(found, nb) <=> \E k \in DOMAIN found : found[k][1] = nb
  BY <1>1 DEF Has
<1>3. CASE Has(found, nb)
  BY <1>2, <1>3 DEF Enter
<1>4. CASE ~Has(found, nb)
  <2>1. Enter(found, cur, nb) = Append(found, <<nb, cur>>)
    BY <1>2, <1>4 DEF Enter
  <2>2. QED
    BY <1>1, <1>4, <2>1 DEF Dicts
<1>5. QED
  BY <1>3, <1>4

(* Within turn k a neighbour of its node enters: it was not joined to any  *)
(* node before that, or it would have been found.                          *)
LEMMA EnterKeeps ==
    ASSUME NEW edges, NEW found, NEW k \in Nat \ {0}, NEW nb \in Nodes,
           BreadthFirst(edges, found, k), Through(edges, found, k - 1),
           k <= Len(found), Joined(edges, found[k][1], nb)
    PROVE  /\ BreadthFirst(edges, Enter(found, found[k][1], nb), k)
           /\ Through(edges, Enter(found, found[k][1], nb), k - 1)
           /\ Has(Enter(found, found[k][1], nb), nb)
           /\ \A m : Has(found, m) => Has(Enter(found, found[k][1], nb), m)
<1> DEFINE cur == found[k][1]
           g == Enter(found, cur, nb)
           L == Len(found)
<1>1. /\ found \in Dicts /\ L \in Nat /\ L > 0
      /\ \A a \in 1 .. L : found[a][1] \in Nodes /\ found[a][2] \in Keys
      /\ k \in 1 .. L /\ cur \in Nodes
  BY EntryType DEF BreadthFirst
<1>2. CASE Has(found, nb)
  <2>1. g = found
    BY <1>1, <1>2, EnterFact
  <2>2. QED
    BY <1>2, <2>1
<1>3. CASE ~Has(found, nb)
  <2>1. /\ g \in Dicts /\ Len(g) = L + 1 /\ g[L + 1] = <<nb, cur>>
        /\ \A a \in 1 .. L : g[a] = found[a]
    BY <1>1, <1>3, EnterFact
  <2>2. g[L + 1][1] = nb /\ g[L + 1][2] = cur /\ g[k] = found[k] /\ g[k][1] = cur
    BY <1>1, <2>1
  <2>3. \A a \in 1 .. L : found[a][1] # nb
    BY <1>3 DEF Has
  <2> HIDE DEF g, cur, L
  <2>4. \A a, b \in 1 .. Len(g) : g[a][1] = g[b][1] => a = b
    <3>1. \A a, b \in 1 .. L : found[a][1] = found[b][1] => a = b
      BY DEF BreadthFirst, L
    <3>2. ASSUME NEW a \in 1 .. L + 1, NEW b \in 1 .. L + 1, g[a][1] = g[b][1] PROVE a = b
      <4>1. CASE a \in 1 .. L /\ b \in 1 .. L
        BY <2>1, <3>1, <3>2, <4>1
      <4>2. CASE a = L + 1 /\ b \in 1 .. L
        BY <2>1, <2>2, <2>3, <3>2, <4>2
      <4>3. CASE a \in 1 .. L /\ b = L + 1
        BY <2>1, <2>2, <2>3, <3>2, <4>3
      <4>4. QED
        BY <1>1, <4>1, <4>2, <4>3
    <3>3. QED
      BY <2>1, <3>2
  <2>5. ASSUME NEW b \in 2 .. Len(g)
        PROVE  \E p \in 1 .. b - 1 : p <= k /\ Below(edges, g, p, b)
    <3>1. CASE b \in 2 .. L
      <4>1. PICK p \in 1 .. b - 1 : p <= k /\ Below(edges, found, p, b)
        BY <3>1 DEF BreadthFirst, L
      <4>2. b \in 1 .. L /\ p \in 1 .. L /\ \A t \in 1 .. p - 1 : t \in 1 .. L
        BY <1>1, <3>1
      <4>3. g[b] = found[b] /\ g[p] = found[p] /\ \A t \in 1 .. p - 1 : g[t] = found[t]
        BY <2>1, <4>2
      <4>4. QED
        BY <4>1, <4>3 DEF Below
    <3>2. CASE b = L + 1
      <4>1. ASSUME NEW t \in 1 .. k - 1, Joined(edges, found[t][1], nb) PROVE FALSE
        BY <1>1, <1>3, <4>1 DEF Through, L
      <4>2. \A t \in 1 .. k - 1 : g[t] = found[t]
        BY <1>1, <2>1
      <4>3. Below(edges, g, k, b)
        BY <2>2, <3>2, <4>1, <4>2 DEF Below, cur
      <4>4. QED
        BY <1>1, <3>2, <4>3
    <3>3. QED
      BY <1>1, <2>1, <3>1, <3>2
  <2>6. ASSUME NEW a \in 2 .. Len(g), NEW b \in 2 .. Len(g), NEW p \in 1 .. Len(g),
               NEW r \in 1 .. Len(g), a <= b, g[a][2] = g[p][1], g[b][2] = g[r][1]
        PROVE  p <= r
    <3>0. \A c \in 2 .. Len(g) : \E t \in 1 .. c - 1 : t <= k /\ g[c][2] = g[t][1]
      BY <2>5 DEF Below
    <3>1. PICK s \in 1 .. a - 1 : s <= k /\ g[a][2] = g[s][1]
      BY <3>0
    <3>2. PICK t \in 1 .. b - 1 : t <= k /\ g[b][2] = g[t][1]
      BY <3>0
    <3>3. s \in 1 .. Len(g) /\ t \in 1 .. Len(g)
      BY <1>1, <2>1
    <3>4. p = s /\ r = t
      <4>1. g[p][1] = g[s][1] /\ g[r][1] = g[t][1]
        BY <2>6, <3>1, <3>2
      <4>2. QED
        BY <2>4, <3>3, <4>1
    <3>5. CASE b = L + 1
      <4>1. g[r][1] = g[k][1] /\ k \in 1 .. Len(g)
        BY <1>1, <2>1, <2>2, <2>6, <3>5
      <4>2. r = k
        BY <2>4, <4>1
      <4>3. QED
        BY <3>1, <3>4, <4>2
    <3>6. CASE b # L + 1
      <4>1. a \in 2 .. L /\ b \in 2 .. L /\ p \in 1 .. L /\ r \in 1 .. L
        BY <1>1, <2>1, <2>6, <3>4, <3>6, SMTT(30)
      <4>2. g[a] = found[a] /\ g[b] = found[b] /\ g[p] = found[p] /\ g[r] = found[r]
        BY <1>1, <2>1, <4>1
      <4>3. QED
        BY <2>6, <4>1, <4>2 DEF BreadthFirst, L
    <3>7. QED
      BY <3>5, <3>6
  <2>7. BreadthFirst(edges, g, k)
    <3>1. Len(g) > 0 /\ g[1] = <<Leader, Stray>>
      BY <1>1, <2>1 DEF BreadthFirst, L
    <3>2. QED
      BY <2>1, <2>4, <2>5, <2>6, <3>1 DEF BreadthFirst
  <2>8. \A m : Has(found, m) => Has(g, m)
    BY <1>1, <2>1 DEF Has, L
  <2>9. Has(g, nb)
    BY <1>1, <2>1, <2>2 DEF Has
  <2>10. Through(edges, g, k - 1)
    <3>1. SUFFICES ASSUME NEW t \in 1 .. Len(g), t <= k - 1, NEW m \in Nodes,
                          Joined(edges, g[t][1], m)
                   PROVE  Has(g, m)
      BY DEF Through
    <3>2. t \in 1 .. L /\ g[t] = found[t]
      BY <1>1, <2>1, <3>1
    <3>3. QED
      BY <2>8, <3>1, <3>2 DEF Through, L
  <2>11. QED
    BY <2>7, <2>8, <2>9, <2>10 DEF g, cur
<1>4. QED
  BY <1>2, <1>3

(* The dict as the neighbours of cur are looked at, one by one.            *)
LooksAtAll(edges, found, cur) ==
    /\ Looked(edges, found, cur) \in [0 .. Len(Adj(edges, cur)) -> Dicts]
    /\ Looked(edges, found, cur)[0] = found
    /\ \A j \in 1 .. Len(Adj(edges, cur)) :
          Looked(edges, found, cur)[j] =
              Enter(Looked(edges, found, cur)[j - 1], cur, Adj(edges, cur)[j])

LEMMA LookedFact ==
    ASSUME NEW edges \in Seq(Nodes \X Nodes), NEW found \in Dicts, NEW cur \in Nodes
    PROVE  LooksAtAll(edges, found, cur)
<1> DEFINE nbs == Adj(edges, cur)
           turn == [j \in DOMAIN nbs |-> [f \in Dicts |-> Enter(f, cur, nbs[j])]]
           L == Len(nbs)
           looked == Looked(edges, found, cur)
<1>1. nbs \in Seq(Nodes)
  BY AdjFact
<1>2. looked = Loop(L, turn, found)
  BY DEF Looked
<1> HIDE DEF nbs, looked
<1>3. L \in Nat /\ DOMAIN nbs = 1 .. L /\ \A j \in 1 .. L : nbs[j] \in Nodes
  BY <1>1
<1> HIDE DEF L
<1>4. \A j \in 1 .. L : \A f \in Dicts : Enter(f, cur, nbs[j]) \in Dicts
  BY <1>3, EnterFact
<1>5. TurnsOn(turn, Dicts, L)
  BY <1>3, <1>4 DEF TurnsOn
<1>6. \A j \in 1 .. L : \A f \in Dicts : turn[j][f] = Enter(f, cur, nbs[j])
  BY <1>3
<1> HIDE DEF turn
<1>7. Values(looked, turn, Dicts, found, L)
  BY <1>2, <1>3, <1>5, LoopFact
<1>8. /\ looked \in [0 .. L -> Dicts] /\ looked[0] = found
      /\ \A j \in 1 .. L : looked[j] = turn[j][looked[j - 1]]
  BY <1>7 DEF Values
<1>9. ASSUME NEW j \in 1 .. L PROVE looked[j] = Enter(looked[j - 1], cur, nbs[j])
  <2>1. looked[j - 1] \in Dicts
    BY <1>3, <1>8
  <2>2. QED
    BY <1>6, <1>8, <2>1, Zenon
<1>10. QED
  BY <1>8, <1>9 DEF nbs, looked, L, LooksAtAll

(* A turn keeps the dict in the order of a search in breadth, and finds    *)
(* all the neighbours of its node.                                         *)
LEMMA LookedKeeps ==
    ASSUME NEW edges \in Seq(Nodes \X Nodes), NEW found, NEW k \in Nat \ {0}, k <= Len(found),
           BreadthFirst(edges, found, k), Through(edges, found, k - 1)
    PROVE  LET cur == found[k][1]
               looked == Looked(edges, found, cur)
           IN  /\ \A j \in 0 .. Len(Adj(edges, cur)) : BreadthFirst(edges, looked[j], k)
               /\ Through(edges, looked[Len(Adj(edges, cur))], k)
<1> DEFINE cur == found[k][1]
           nbs == Adj(edges, cur)
           L == Len(nbs)
           looked == Looked(edges, found, cur)
           F == Len(found)
<1>1. found \in Dicts /\ F \in Nat /\ k \in 1 .. F /\ cur \in Nodes
  BY EntryType DEF BreadthFirst
<1>2. /\ nbs \in Seq(Nodes)
      /\ \A m \in Nodes : Joined(edges, cur, m) <=> Contains(nbs, m)
  BY <1>1, AdjFact
<1>3. L \in Nat /\ \A j \in 1 .. L : nbs[j] \in Nodes /\ Joined(edges, cur, nbs[j])
  BY <1>2 DEF Contains
<1>4. /\ looked[0] = found
      /\ \A j \in 1 .. L : looked[j] = Enter(looked[j - 1], cur, nbs[j])
  <2>1. found \in Dicts /\ cur \in Nodes
    BY <1>1
  <2> HIDE DEF cur
  <2>2. LooksAtAll(edges, found, cur)
    BY <2>1, LookedFact, Zenon
  <2>3. QED
    BY <2>2, Zenon DEF LooksAtAll
<1> HIDE DEF looked, L, nbs, F
<1> DEFINE Right(g, j) == /\ BreadthFirst(edges, g, k) /\ Through(edges, g, k - 1)
                          /\ k <= Len(g) /\ g[k] = found[k]
                          /\ \A t \in 1 .. j : Has(g, nbs[t])
           T == {j \in 0 .. L : Right(looked[j], j)}
<1>5. 0 \in T
  BY <1>1, <1>3, <1>4 DEF F
<1>6. ASSUME NEW j \in 1 .. L, j - 1 \in T PROVE j \in T
  <2> DEFINE g == looked[j - 1]
             h == looked[j]
  <2>1. Right(g, j - 1)
    BY <1>6
  <2>2. h = Enter(g, cur, nbs[j]) /\ nbs[j] \in Nodes /\ Joined(edges, cur, nbs[j])
    BY <1>3, <1>4
  <2> HIDE DEF g, h
  <2>3. g[k][1] = cur /\ g \in Dicts /\ k \in 1 .. Len(g) /\ Len(g) \in Nat
    BY <2>1, EntryType DEF BreadthFirst
  <2>4. /\ BreadthFirst(edges, h, k) /\ Through(edges, h, k - 1) /\ Has(h, nbs[j])
        /\ \A m : Has(g, m) => Has(h, m)
    <3>1. Joined(edges, g[k][1], nbs[j]) /\ h = Enter(g, g[k][1], nbs[j])
      BY <2>2, <2>3
    <3> HIDE DEF cur
    <3>2. /\ BreadthFirst(edges, Enter(g, g[k][1], nbs[j]), k)
          /\ Through(edges, Enter(g, g[k][1], nbs[j]), k - 1)
          /\ Has(Enter(g, g[k][1], nbs[j]), nbs[j])
          /\ \A m : Has(g, m) => Has(Enter(g, g[k][1], nbs[j]), m)
      BY <2>1, <2>2, <3>1, EnterKeeps
    <3>3. QED
      BY <3>1, <3>2
  <2>5. h[k] = found[k]
    BY <1>1, <2>1, <2>2, <2>3, EnterFact, SMTT(30)
  <2>6. k <= Len(h)
    <3>1. Len(h) = Len(g) \/ Len(h) = Len(g) + 1
      BY <1>1, <2>2, <2>3, EnterFact
    <3>2. QED
      BY <2>3, <3>1
  <2>7. \A t \in 1 .. j : Has(h, nbs[t])
    <3>1. \A t \in 1 .. j : t \in 1 .. j - 1 \/ t = j
      OBVIOUS
    <3>2. QED
      BY <2>1, <2>4, <3>1
  <2>8. QED
    BY <2>4, <2>5, <2>6, <2>7 DEF h
<1>7. \A j \in 0 .. L : Right(looked[j], j)
  <2>1. \A j \in 1 .. L : j - 1 \in T => j \in T
    BY <1>6
  <2> HIDE DEF T
  <2>2. \A j \in 0 .. L : j \in T
    BY <1>3, <1>5, <2>1, UpTo
  <2>3. QED
    BY <2>2 DEF T
<1>8. Through(edges, looked[L], k)
  <2> DEFINE g == looked[L]
  <2>1. Right(g, L)
    BY <1>3, <1>7
  <2> HIDE DEF g
  <2>2. SUFFICES ASSUME NEW t \in 1 .. Len(g), t <= k, NEW m \in Nodes,
                        Joined(edges, g[t][1], m)
                 PROVE  Has(g, m)
    BY DEF Through, g
  <2>3. CASE t = k
    <3>1. Contains(nbs, m)
      BY <1>2, <2>1, <2>2, <2>3
    <3>2. QED
      BY <2>1, <3>1 DEF Contains, L
  <2>4. CASE t # k
    <3>1. t <= k - 1
      BY <2>2, <2>4
    <3>2. QED
      BY <2>1, <2>2, <3>1 DEF Through
  <2>5. QED
    BY <2>3, <2>4
<1>9. QED
  BY <1>7, <1>8 DEF looked, L, nbs

(* Turn k of the loop.                                                     *)
Look(edges, k, found) ==
    IF k > Len(found) THEN found
    ELSE Looked(edges, found, found[k][1])[Len(Adj(edges, found[k][1]))]

LEMMA NodesCounted == IsFiniteSet(Nodes) /\ Cardinality(Nodes) \in Nat
BY OverlayAssumption, FS_CardinalityType

(* The dict after each turn.                                               *)
LEMMA TurnsFact ==
    ASSUME NEW edges \in Seq(Nodes \X Nodes)
    PROVE  /\ Turns(edges) \in [0 .. Cardinality(Nodes) -> Dicts]
           /\ Turns(edges)[0] = << <<Leader, Stray>> >>
           /\ \A k \in 1 .. Cardinality(Nodes) :
                 Turns(edges)[k] = Look(edges, k, Turns(edges)[k - 1])
<1> DEFINE N == Cardinality(Nodes)
           turn == [k \in 1 .. N |-> [found \in Dicts |->
                      IF k > Len(found) THEN found
                      ELSE LET cur == found[k][1]
                           IN  Looked(edges, found, cur)[Len(Adj(edges, cur))]]]
           base == << <<Leader, Stray>> >>
           turns == Turns(edges)
<1>1. N \in Nat
  BY NodesCounted
<1>2. base \in Dicts
  BY OverlayAssumption DEF Dicts, Keys
<1>3. turns = Loop(N, turn, base)
  BY DEF Turns
<1> HIDE DEF N, turns
<1>4. \A k \in 1 .. N : \A found \in Dicts : turn[k][found] = Look(edges, k, found)
  BY DEF Look
<1>5. \A k \in 1 .. N : \A found \in Dicts : Look(edges, k, found) \in Dicts
  <2> SUFFICES ASSUME NEW k \in 1 .. N, NEW found \in Dicts PROVE Look(edges, k, found) \in Dicts
    OBVIOUS
  <2>1. CASE k > Len(found)
    BY <2>1 DEF Look
  <2>2. CASE ~(k > Len(found))
    <3> DEFINE cur == found[k][1]
    <3>1. cur \in Nodes
      BY <2>2, <1>1, EntryType
    <3>2. Adj(edges, cur) \in Seq(Nodes)
      BY <3>1, AdjFact
    <3>3. Len(Adj(edges, cur)) \in 0 .. Len(Adj(edges, cur))
      BY <3>2
    <3>4. Looked(edges, found, cur) \in [0 .. Len(Adj(edges, cur)) -> Dicts]
      BY <3>1, LookedFact DEF LooksAtAll
    <3>5. Looked(edges, found, cur)[Len(Adj(edges, cur))] \in Dicts
      BY <3>3, <3>4
    <3>6. QED
      BY <2>2, <3>5 DEF Look
  <2>3. QED
    BY <2>1, <2>2
<1>6. TurnsOn(turn, Dicts, N)
  <2>1. turn = [k \in 1 .. N |-> [found \in Dicts |-> Look(edges, k, found)]]
    BY Zenon DEF Look
  <2> HIDE DEF turn
  <2>2. \A k \in 1 .. N : [found \in Dicts |-> Look(edges, k, found)] \in [Dicts -> Dicts]
    BY <1>5
  <2>3. QED
    BY <2>1, <2>2 DEF TurnsOn
<1> HIDE DEF turn, base
<1>7. Values(turns, turn, Dicts, base, N)
  BY <1>1, <1>2, <1>3, <1>6, LoopFact
<1>8. /\ turns \in [0 .. N -> Dicts] /\ turns[0] = base
      /\ \A k \in 1 .. N : turns[k] = turn[k][turns[k - 1]]
  BY <1>7 DEF Values
<1>9. ASSUME NEW k \in 1 .. N PROVE turns[k] = Look(edges, k, turns[k - 1])
  <2>1. turns[k - 1] \in Dicts
    BY <1>1, <1>8
  <2>2. QED
    BY <1>4, <1>8, <2>1, Zenon
<1>10. QED
  BY <1>8, <1>9 DEF turns, base, N

(* A dict in which no node is twice has at most as many as there are.      *)
LEMMA NoMoreThanNodes ==
    ASSUME NEW edges, NEW found, NEW k \in Nat, BreadthFirst(edges, found, k)
    PROVE  Len(found) <= Cardinality(Nodes)
<1> DEFINE L == Len(found)
           node == [a \in 1 .. L |-> found[a][1]]
<1>1. L \in Nat /\ \A a \in 1 .. L : found[a][1] \in Nodes
  BY EntryType DEF BreadthFirst
<1>2. \A a, b \in 1 .. L : found[a][1] = found[b][1] => a = b
  BY DEF BreadthFirst
<1>3. node \in Injection(1 .. L, Nodes)
  BY <1>1, <1>2 DEF Injection, IsInjective
<1>4. IsFiniteSet(1 .. L) /\ Cardinality(1 .. L) = L
  <2> HIDE DEF L
  <2>1. 1 \in Int /\ L \in Int /\ (IF 1 > L THEN 0 ELSE L - 1 + 1) = L
    BY <1>1
  <2>2. IsFiniteSet(1 .. L) /\ Cardinality(1 .. L) = IF 1 > L THEN 0 ELSE L - 1 + 1
    BY <2>1, FS_Interval
  <2>3. QED
    BY <2>1, <2>2
<1>5. QED
  BY <1>3, <1>4, NodesCounted, FS_Injection

(* What holds within one turn holds within the next.                       *)
LEMMA LaterTurn ==
    ASSUME NEW edges, NEW found, NEW k \in Nat, BreadthFirst(edges, found, k)
    PROVE  BreadthFirst(edges, found, k + 1)
<1>1. found \in Dicts /\ Len(found) \in Nat
  BY EntryType DEF BreadthFirst
<1>2. ASSUME NEW b \in 2 .. Len(found)
      PROVE  \E p \in 1 .. b - 1 : p <= k + 1 /\ Below(edges, found, p, b)
  <2>1. PICK p \in 1 .. b - 1 : p <= k /\ Below(edges, found, p, b)
    BY DEF BreadthFirst
  <2>2. p <= k + 1
    BY <1>1, <2>1
  <2>3. QED
    BY <2>1, <2>2
<1>3. QED
  BY <1>2 DEF BreadthFirst

(* After turn k the first k of the dict have been gone through.            *)
LEMMA TurnsKeep ==
    ASSUME NEW edges \in Seq(Nodes \X Nodes)
    PROVE  \A k \in 0 .. Cardinality(Nodes) :
              /\ BreadthFirst(edges, Turns(edges)[k], k)
              /\ Through(edges, Turns(edges)[k], k)
<1> DEFINE N == Cardinality(Nodes)
           turns == Turns(edges)
           Right(f, k) == BreadthFirst(edges, f, k) /\ Through(edges, f, k)
           T == {k \in 0 .. N : Right(turns[k], k)}
<1>1. N \in Nat
  BY NodesCounted
<1>2. /\ turns \in [0 .. N -> Dicts] /\ turns[0] = << <<Leader, Stray>> >>
      /\ \A k \in 1 .. N : turns[k] = Look(edges, k, turns[k - 1])
  BY TurnsFact
<1> HIDE DEF N, turns
<1>3. 0 \in T
  <2> DEFINE base == << <<Leader, Stray>> >>
  <2>1. turns[0] = base /\ base \in Dicts
    <3>1. 0 \in 0 .. N
      BY <1>1
    <3>2. QED
      BY <1>2, <3>1, Zenon
  <2>2. Len(base) = 1 /\ base[1] = <<Leader, Stray>>
    OBVIOUS
  <2> HIDE DEF base
  <2>3. BreadthFirst(edges, base, 0)
    BY <2>1, <2>2 DEF BreadthFirst
  <2>4. Through(edges, base, 0)
    BY <2>2 DEF Through
  <2>5. 0 \in 0 .. N
    BY <1>1
  <2>6. QED
    BY <2>1, <2>3, <2>4, <2>5, Zenon
<1>4. ASSUME NEW k \in 1 .. N, k - 1 \in T PROVE k \in T
  <2> DEFINE f == turns[k - 1]
  <2>1. BreadthFirst(edges, f, k - 1) /\ Through(edges, f, k - 1) /\ turns[k] = Look(edges, k, f)
    BY <1>2, <1>4
  <2> HIDE DEF f
  <2>2. BreadthFirst(edges, f, k)
    <3>1. k - 1 \in Nat /\ (k - 1) + 1 = k
      BY <1>1
    <3>2. BreadthFirst(edges, f, (k - 1) + 1)
      BY <2>1, <3>1, LaterTurn
    <3>3. QED
      BY <3>1, <3>2
  <2>3. CASE k > Len(f)
    <3>1. turns[k] = f
      BY <2>1, <2>3 DEF Look
    <3>2. Through(edges, f, k)
      <4>1. \A t \in 1 .. Len(f) : t <= k - 1
        BY <2>1, <2>3, EntryType DEF BreadthFirst
      <4>2. QED
        BY <2>1, <4>1 DEF Through
    <3>3. QED
      BY <2>2, <3>1, <3>2
  <2>4. CASE ~(k > Len(f))
    <3>1. k <= Len(f) /\ k \in Nat \ {0}
      BY <1>1, <2>1, <2>4, EntryType DEF BreadthFirst
    <3>2. turns[k] = Looked(edges, f, f[k][1])[Len(Adj(edges, f[k][1]))]
      BY <2>1, <2>4 DEF Look
    <3>3. f[k][1] \in Nodes
      BY <2>1, <3>1, EntryType DEF BreadthFirst
    <3>4. Len(Adj(edges, f[k][1])) \in 0 .. Len(Adj(edges, f[k][1]))
      BY <3>3, AdjFact
    <3>5. Right(turns[k], k)
      BY <2>1, <2>2, <3>1, <3>2, <3>4, LookedKeeps
    <3>6. QED
      BY <3>5
  <2>5. QED
    BY <2>3, <2>4
<1>5. \A k \in 0 .. N : Right(turns[k], k)
  <2>1. \A k \in 1 .. N : k - 1 \in T => k \in T
    BY <1>4
  <2> HIDE DEF T
  <2>2. \A k \in 0 .. N : k \in T
    BY <1>1, <1>3, <2>1, UpTo
  <2>3. QED
    BY <2>2 DEF T
<1>6. QED
  BY <1>5 DEF N, turns

-----------------------------------------------------------------------------
(* The list of a node as the items of the dict are gone through.           *)
LEMMA ListedFact ==
    ASSUME NEW found \in Dicts, NEW n
    PROVE  /\ Listed(found, n) \in [0 .. Len(found) -> Seq(Nodes)]
           /\ Listed(found, n)[0] = <<>>
           /\ \A j \in 1 .. Len(found) :
                 Listed(found, n)[j] = IF found[j][2] = n
                                       THEN Append(Listed(found, n)[j - 1], found[j][1])
                                       ELSE Listed(found, n)[j - 1]
<1> DEFINE L == Len(found)
           Add(j, kids) == IF found[j][2] = n THEN Append(kids, found[j][1]) ELSE kids
           list == [j \in DOMAIN found |-> [kids \in Seq(Nodes) |-> Add(j, kids)]]
           listed == Listed(found, n)
<1>1. L \in Nat /\ DOMAIN found = 1 .. L /\ \A j \in 1 .. L : found[j][1] \in Nodes
  BY EntryType
<1>2. listed = Loop(L, list, <<>>)
  BY DEF Listed
<1> HIDE DEF listed, L
<1>3. TurnsOn(list, Seq(Nodes), L)
  <2>1. \A j \in 1 .. L : \A kids \in Seq(Nodes) : Add(j, kids) \in Seq(Nodes)
    BY <1>1
  <2> HIDE DEF Add
  <2>2. QED
    BY <1>1, <2>1 DEF TurnsOn
<1>4. \A j \in 1 .. L : \A kids \in Seq(Nodes) : list[j][kids] = Add(j, kids)
  <2> HIDE DEF Add
  <2>1. QED
    BY <1>1
<1> HIDE DEF list
<1>5. <<>> \in Seq(Nodes)
  OBVIOUS
<1>6. PICK none \in Seq(Nodes) : none = <<>>
  BY <1>5, Zenon
<1>7. Values(Loop(L, list, none), list, Seq(Nodes), none, L)
  BY <1>1, <1>3, LoopFact
<1>8. listed = Loop(L, list, none)
  BY <1>2, <1>6, Zenon
<1>9. /\ listed \in [0 .. L -> Seq(Nodes)] /\ listed[0] = none
      /\ \A j \in 1 .. L : listed[j] = list[j][listed[j - 1]]
  BY <1>7, <1>8 DEF Values
<1>10. ASSUME NEW j \in 1 .. L PROVE listed[j] = Add(j, listed[j - 1])
  <2>1. listed[j - 1] \in Seq(Nodes)
    BY <1>1, <1>9
  <2>2. QED
    BY <1>4, <1>9, <2>1, Zenon
<1>11. QED
  BY <1>6, <1>9, <1>10 DEF listed, L

(* One of the first j entries has c below n.                               *)
Entered(found, n, j, c) == \E b \in 1 .. j : found[b][2] = n /\ found[b][1] = c

(* It has the nodes so far whose parent is n.                              *)
LEMMA ListedHas ==
    ASSUME NEW found \in Dicts, NEW n
    PROVE  \A j \in 0 .. Len(found) : \A c :
              c \in ToSet(Listed(found, n)[j]) <=> Entered(found, n, j, c)
<1> DEFINE L == Len(found)
           listed == Listed(found, n)
           Is(j, c) == Entered(found, n, j, c)
           T == {j \in 0 .. L : \A c : c \in ToSet(listed[j]) <=> Is(j, c)}
<1>1. L \in Nat /\ \A j \in 1 .. L : found[j][1] \in Nodes
  BY EntryType
<1>2. /\ listed \in [0 .. L -> Seq(Nodes)] /\ listed[0] = <<>>
      /\ \A j \in 1 .. L : listed[j] = IF found[j][2] = n
                                       THEN Append(listed[j - 1], found[j][1])
                                       ELSE listed[j - 1]
  BY ListedFact
<1> HIDE DEF listed, L
<1>3. 0 \in T
  <2>1. ToSet(listed[0]) = {} /\ 1 .. 0 = {} /\ 0 \in 0 .. L
    BY <1>1, <1>2 DEF ToSet
  <2>2. QED
    BY <2>1 DEF Entered
<1>4. ASSUME NEW j \in 1 .. L, j - 1 \in T PROVE j \in T
  <2>1. PICK s \in Seq(Nodes) : s = listed[j - 1]
    BY <1>1, <1>2
  <2>2. PICK x \in Nodes : x = found[j][1]
    BY <1>1
  <2>3. ToSet(Append(s, x)) = ToSet(s) \cup {x}
    BY DEF ToSet
  <2>4. 1 .. j = (1 .. j - 1) \cup {j}
    OBVIOUS
  <2>5. \A c : c \in ToSet(s) <=> Is(j - 1, c)
    BY <1>4, <2>1
  <2>6. \A c : Is(j, c) <=> Is(j - 1, c) \/ (found[j][2] = n /\ x = c)
    BY <2>2, <2>4 DEF Entered
  <2> HIDE DEF Is
  <2>7. CASE found[j][2] = n
    <3>1. listed[j] = Append(s, x)
      BY <1>2, <2>1, <2>2, <2>7
    <3>2. \A c : c \in ToSet(listed[j]) <=> Is(j, c)
      BY <2>3, <2>5, <2>6, <2>7, <3>1
    <3>3. QED
      BY <3>2
  <2>8. CASE found[j][2] # n
    <3>1. listed[j] = s
      BY <1>2, <2>1, <2>8
    <3>2. \A c : c \in ToSet(listed[j]) <=> Is(j, c)
      BY <2>5, <2>6, <2>8, <3>1
    <3>3. QED
      BY <3>2
  <2>9. QED
    BY <2>7, <2>8
<1>5. \A j \in 0 .. L : j \in T
  <2>1. \A j \in 1 .. L : j - 1 \in T => j \in T
    BY <1>4
  <2> HIDE DEF T
  <2>2. QED
    BY <1>1, <1>3, <2>1, UpTo
<1>6. QED
  BY <1>5 DEF listed, L

-----------------------------------------------------------------------------
(* The nodes within d edges of the leader.                                 *)
LEMMA BallFact ==
    ASSUME NEW edges
    PROVE  /\ \A d \in 0 .. Cardinality(Nodes) + 1 : Ball(edges, d) \subseteq Nodes
           /\ Ball(edges, 0) = {Leader}
           /\ \A d \in 0 .. Cardinality(Nodes) : \A n \in Nodes :
                 n \in Ball(edges, d + 1) <=>
                     n \in Ball(edges, d) \/ \E m \in Ball(edges, d) : Joined(edges, m, n)
<1> DEFINE N == Cardinality(Nodes)
           Around(inner) == inner \cup {n \in Nodes : \E m \in inner : Joined(edges, m, n)}
           grow == [d \in 1 .. N + 1 |-> [inner \in SUBSET Nodes |-> Around(inner)]]
           base == {Leader}
           balls == Balls(edges)
<1>1. N \in Nat /\ base \in SUBSET Nodes
  BY NodesCounted, OverlayAssumption
<1>2. balls = Loop(N + 1, grow, base)
  BY DEF Balls
<1> HIDE DEF N, balls, base
<1>3. TurnsOn(grow, SUBSET Nodes, N + 1)
  BY DEF TurnsOn
<1>4. \A d \in 1 .. N + 1 : \A inner \in SUBSET Nodes : grow[d][inner] = Around(inner)
  OBVIOUS
<1> HIDE DEF grow
<1>5. N + 1 \in Nat
  BY <1>1
<1>6. Values(balls, grow, SUBSET Nodes, base, N + 1)
  BY <1>1, <1>2, <1>3, <1>5, LoopFact
<1>7. /\ balls \in [0 .. N + 1 -> SUBSET Nodes] /\ balls[0] = base
      /\ \A d \in 1 .. N + 1 : balls[d] = grow[d][balls[d - 1]]
  BY <1>6 DEF Values
<1>8. \A d \in 0 .. N : balls[d + 1] = Around(balls[d])
  <2> HIDE DEF Around
  <2>1. SUFFICES ASSUME NEW d \in 0 .. N PROVE balls[d + 1] = Around(balls[d])
    OBVIOUS
  <2>2. d + 1 \in 1 .. N + 1 /\ (d + 1) - 1 = d /\ balls[d] \in SUBSET Nodes
    BY <1>1, <1>7
  <2>3. balls[d + 1] = grow[d + 1][balls[(d + 1) - 1]]
    BY <1>7, <2>2, Zenon
  <2>4. grow[d + 1][balls[d]] = Around(balls[d])
    BY <1>4, <2>2, Zenon
  <2>5. QED
    BY <2>2, <2>3, <2>4, Zenon
<1>9. QED
  BY <1>7, <1>8 DEF balls, N, base, Ball

(* A node is one edge further from the leader than its parent.  The nodes  *)
(* within d edges come first in the dict, by induction on d: a node that   *)
(* an edge joins to one of these has a parent no later than that one.      *)
LEMMA OneEdgeFurther ==
    ASSUME NEW edges, NEW found, BreadthFirst(edges, found, Cardinality(Nodes)),
           Through(edges, found, Cardinality(Nodes))
    PROVE  \A d \in 0 .. Cardinality(Nodes) :
              \A b \in 2 .. Len(found), p \in 1 .. Len(found) :
                 found[b][2] = found[p][1] =>
                    (found[p][1] \in Ball(edges, d) <=> found[b][1] \in Ball(edges, d + 1))
<1> DEFINE N == Cardinality(Nodes)
           L == Len(found)
           Node(a) == found[a][1]
           Within(d) == Ball(edges, d)
           Sorted(d) == \A a, b \in 1 .. L : a <= b /\ Node(b) \in Within(d) => Node(a) \in Within(d)
           Further(d) == \A b \in 2 .. L, p \in 1 .. L :
                            found[b][2] = Node(p) => (Node(p) \in Within(d) <=> Node(b) \in Within(d + 1))
           T == {d \in 0 .. N + 1 : Leader \in Within(d) /\ Sorted(d)}
<1>1. N \in Nat /\ L \in Nat /\ L <= N /\ \A a \in 1 .. L : Node(a) \in Nodes
  BY NodesCounted, NoMoreThanNodes, EntryType DEF BreadthFirst
<1>2. /\ \A d \in 0 .. N + 1 : Within(d) \subseteq Nodes
      /\ Within(0) = {Leader}
      /\ \A d \in 0 .. N : \A n \in Nodes :
            n \in Within(d + 1) <=> n \in Within(d) \/ \E m \in Within(d) : Joined(edges, m, n)
  BY BallFact
<1>3. \A a, b \in 1 .. L : Node(a) = Node(b) => a = b
  BY DEF BreadthFirst
<1>4. \A b \in 2 .. L : \E p \in 1 .. b - 1 :
         /\ found[b][2] = Node(p) /\ Joined(edges, Node(p), Node(b))
         /\ \A t \in 1 .. p - 1 : ~Joined(edges, Node(t), Node(b))
  BY DEF BreadthFirst, Below
<1>5. \A a, b \in 2 .. L : \A p, r \in 1 .. L :
         a <= b /\ found[a][2] = Node(p) /\ found[b][2] = Node(r) => p <= r
  BY DEF BreadthFirst
<1>6. \A t \in 1 .. L : \A m \in Nodes :
         Joined(edges, Node(t), m) => \E a \in 1 .. L : Node(a) = m
  BY <1>1 DEF Through, Has
<1>7. L > 0 /\ Node(1) = Leader
  BY DEF BreadthFirst
<1> HIDE DEF N, L, Node, Within
<1>8. ASSUME NEW d \in 0 .. N, d \in T PROVE Further(d)
  <2>1. Sorted(d)
    BY <1>8
  <2>2. SUFFICES ASSUME NEW b \in 2 .. L, NEW p \in 1 .. L, found[b][2] = Node(p)
                 PROVE  Node(p) \in Within(d) <=> Node(b) \in Within(d + 1)
    OBVIOUS
  <2>3. PICK r \in 1 .. b - 1 : /\ found[b][2] = Node(r) /\ Joined(edges, Node(r), Node(b))
                                /\ \A t \in 1 .. r - 1 : ~Joined(edges, Node(t), Node(b))
    BY <1>4
  <2>4. r \in 1 .. L /\ b \in 1 .. L /\ r <= b
    BY <1>1
  <2>5. r = p
    BY <1>3, <2>2, <2>3, <2>4
  <2>6. ASSUME Node(p) \in Within(d) PROVE Node(b) \in Within(d + 1)
    BY <1>1, <1>2, <2>3, <2>4, <2>5, <2>6
  <2>7. ASSUME Node(b) \in Within(d + 1) PROVE Node(p) \in Within(d)
    <3>1. CASE Node(b) \in Within(d)
      BY <2>1, <2>4, <2>5, <3>1
    <3>2. CASE \E m \in Within(d) : Joined(edges, m, Node(b))
      <4>1. PICK m \in Within(d) : Joined(edges, m, Node(b))
        BY <3>2
      <4>2. m \in Nodes /\ Joined(edges, Node(b), m)
        <5>1. d \in 0 .. N + 1
          BY <1>1
        <5>2. QED
          BY <1>2, <4>1, <5>1, JoinedBoth
      <4>3. PICK t \in 1 .. L : Node(t) = m
        BY <1>6, <2>4, <4>2
      <4>4. p <= t
        <5>1. CASE t < p
          <6>1. t \in 1 .. r - 1
            BY <2>5, <5>1
          <6>2. QED
            BY <2>3, <4>1, <4>3, <6>1
        <5>2. QED
          BY <1>1, <5>1
      <4>5. QED
        BY <2>1, <4>1, <4>3, <4>4
    <3>3. QED
      BY <1>1, <1>2, <2>4, <2>7, <3>1, <3>2
  <2>8. QED
    BY <2>6, <2>7
<1>9. 0 \in T
  <2>1. ASSUME NEW a \in 1 .. L, NEW b \in 1 .. L, a <= b, Node(b) \in Within(0)
        PROVE  Node(a) \in Within(0)
    <3>1. b = 1
      BY <1>1, <1>2, <1>3, <1>7, <2>1
    <3>2. a = 1
      BY <2>1, <3>1
    <3>3. QED
      BY <2>1, <3>1, <3>2
  <2>2. QED
    BY <1>1, <1>2, <2>1
<1>10. ASSUME NEW e \in 1 .. N + 1, e - 1 \in T PROVE e \in T
  <2>1. PICK d \in 0 .. N : e = d + 1 /\ d = e - 1
    BY <1>1
  <2>2. Leader \in Within(d) /\ Sorted(d) /\ Further(d)
    BY <1>8, <1>10, <2>1
  <2>3. Leader \in Within(d + 1)
    <3>1. Leader \in Nodes
      BY OverlayAssumption
    <3>2. QED
      BY <1>2, <2>2, <3>1
  <2>4. ASSUME NEW a \in 1 .. L, NEW b \in 1 .. L, a <= b, Node(b) \in Within(d + 1)
        PROVE  Node(a) \in Within(d + 1)
    <3>1. CASE a = 1
      BY <1>7, <2>3, <3>1
    <3>2. CASE a # 1
      <4>1. a \in 2 .. L /\ b \in 2 .. L
        BY <1>1, <2>4, <3>2
      <4>2. PICK p \in 1 .. a - 1 : found[a][2] = Node(p)
        BY <1>4, <4>1
      <4>3. PICK r \in 1 .. b - 1 : found[b][2] = Node(r)
        BY <1>4, <4>1
      <4>4. p \in 1 .. L /\ r \in 1 .. L
        BY <1>1
      <4>5. p <= r
        BY <1>5, <2>4, <4>1, <4>2, <4>3, <4>4
      <4>6. Node(r) \in Within(d)
        BY <2>2, <2>4, <4>1, <4>3, <4>4
      <4>7. Node(p) \in Within(d)
        BY <2>2, <4>4, <4>5, <4>6
      <4>8. QED
        BY <2>2, <4>1, <4>2, <4>4, <4>7
    <3>3. QED
      BY <3>1, <3>2
  <2>5. QED
    BY <2>1, <2>3, <2>4
<1>11. \A d \in 0 .. N + 1 : d \in T
  <2>1. N + 1 \in Nat /\ \A e \in 1 .. N + 1 : e - 1 \in T => e \in T
    BY <1>1, <1>10
  <2> HIDE DEF T
  <2>2. QED
    BY <1>9, <2>1, UpTo
<1>12. \A d \in 0 .. N : Further(d)
  <2>1. \A d \in 0 .. N : d \in 0 .. N + 1
    BY <1>1
  <2>2. QED
    BY <1>8, <1>11, <2>1
<1>13. QED
  BY <1>12 DEF N, L, Node, Within

(* The dict has the nodes that can be reached: entry b is within b - 1     *)
(* edges, and what is joined to a node of the dict is in it.               *)
LEMMA AllReached ==
    ASSUME NEW edges, NEW found, BreadthFirst(edges, found, Cardinality(Nodes)),
           Through(edges, found, Cardinality(Nodes))
    PROVE  \A n : Has(found, n) <=> n \in Reached(edges)
<1> DEFINE N == Cardinality(Nodes)
           L == Len(found)
           Node(a) == found[a][1]
           Within(d) == Ball(edges, d)
           Near == {b \in 0 .. L : \A a \in 1 .. b : \A d \in a - 1 .. N : Node(a) \in Within(d)}
           Known == {d \in 0 .. N : \A n \in Within(d) : Has(found, n)}
<1>1. N \in Nat /\ L \in Nat /\ L <= N /\ \A a \in 1 .. L : Node(a) \in Nodes
  BY NodesCounted, NoMoreThanNodes, EntryType DEF BreadthFirst
<1>2. /\ \A d \in 0 .. N : Within(d) \subseteq Nodes
      /\ Within(0) = {Leader}
      /\ \A d \in 0 .. N : \A n \in Nodes :
            n \in Within(d + 1) <=> n \in Within(d) \/ \E m \in Within(d) : Joined(edges, m, n)
  BY <1>1, BallFact
<1>3. \A b \in 2 .. L : \E p \in 1 .. b - 1 : found[b][2] = Node(p)
  BY DEF BreadthFirst, Below
<1>4. L > 0 /\ Node(1) = Leader
  BY DEF BreadthFirst
<1>5. \A d \in 0 .. N : \A b \in 2 .. L, p \in 1 .. L :
         found[b][2] = Node(p) => (Node(p) \in Within(d) <=> Node(b) \in Within(d + 1))
  BY OneEdgeFurther
<1>6. \A n : Has(found, n) <=> \E a \in 1 .. L : Node(a) = n
  BY DEF Has
<1>7. \A m, n \in Nodes : Has(found, m) /\ Joined(edges, m, n) => Has(found, n)
  BY <1>1 DEF Through, Has
<1> HIDE DEF N, L, Node, Within
<1>8. \A d \in 0 .. N : Leader \in Within(d)
  <2> DEFINE T == {d \in 0 .. N : Leader \in Within(d)}
  <2>1. 0 \in T
    BY <1>1, <1>2
  <2>2. ASSUME NEW e \in 1 .. N, e - 1 \in T PROVE e \in T
    <3>1. PICK d \in 0 .. N : e = d + 1 /\ d = e - 1
      BY <1>1
    <3>2. Leader \in Nodes
      BY OverlayAssumption
    <3>3. QED
      BY <1>2, <2>2, <3>1, <3>2
  <2>3. \A e \in 1 .. N : e - 1 \in T => e \in T
    BY <2>2
  <2> HIDE DEF T
  <2>4. \A d \in 0 .. N : d \in T
    BY <1>1, <2>1, <2>3, UpTo
  <2>5. QED
    BY <2>4 DEF T
<1>9. ASSUME NEW b \in 1 .. L, b - 1 \in Near PROVE b \in Near
  <2>1. ASSUME NEW d \in b - 1 .. N PROVE Node(b) \in Within(d)
    <3>1. CASE b = 1
      BY <1>4, <1>8, <3>1
    <3>2. CASE b # 1
      <4>1. b \in 2 .. L /\ d - 1 \in 0 .. N /\ (d - 1) + 1 = d
        BY <1>1, <3>2
      <4>2. PICK p \in 1 .. b - 1 : found[b][2] = Node(p)
        BY <1>3, <4>1
      <4>3. p \in 1 .. L /\ d - 1 \in p - 1 .. N
        BY <1>1, <4>1
      <4>4. Node(p) \in Within(d - 1)
        BY <1>9, <4>3
      <4>5. QED
        BY <1>5, <4>1, <4>2, <4>3, <4>4
    <3>3. QED
      BY <3>1, <3>2
  <2>2. ASSUME NEW a \in 1 .. b, NEW d \in a - 1 .. N PROVE Node(a) \in Within(d)
    BY <1>9, <2>1, a \in 1 .. b - 1 \/ a = b
  <2>3. QED
    BY <2>2
<1>10. \A b \in 0 .. L : b \in Near
  <2>1. 0 \in Near /\ \A b \in 1 .. L : b - 1 \in Near => b \in Near
    BY <1>1, <1>9
  <2> HIDE DEF Near
  <2>2. QED
    BY <1>1, <2>1, UpTo
<1>11. ASSUME NEW a \in 1 .. L PROVE Node(a) \in Within(N)
  BY <1>1, <1>10, a \in 1 .. L, L \in 0 .. L, N \in a - 1 .. N
<1>12. ASSUME NEW e \in 1 .. N, e - 1 \in Known PROVE e \in Known
  <2>1. PICK d \in 0 .. N : e = d + 1 /\ d = e - 1
    BY <1>1
  <2>2. SUFFICES ASSUME NEW n \in Within(d + 1) PROVE Has(found, n)
    BY <2>1
  <2>3. n \in Nodes /\ Within(d) \subseteq Nodes
    BY <1>2, <2>1, <2>2
  <2>4. CASE n \in Within(d)
    BY <1>12, <2>1, <2>4
  <2>5. CASE \E m \in Within(d) : Joined(edges, m, n)
    BY <1>7, <1>12, <2>1, <2>3, <2>5
  <2>6. QED
    BY <1>2, <2>2, <2>3, <2>4, <2>5
<1>13. \A d \in 0 .. N : d \in Known
  <2>1. 0 \in Known /\ \A e \in 1 .. N : e - 1 \in Known => e \in Known
    BY <1>1, <1>2, <1>4, <1>6, <1>12
  <2> HIDE DEF Known
  <2>2. QED
    BY <1>1, <2>1, UpTo
<1>14. \A n \in Within(N) : Has(found, n)
  BY <1>1, <1>13
<1>15. Reached(edges) = Within(N)
  BY DEF Reached, Within, N
<1>16. QED
  BY <1>6, <1>11, <1>14, <1>15

(* The tree of _build_children is a tree of shortest paths.                *)
LEMMA PythonTree ==
    ASSUME NEW edges \in Seq(Nodes \X Nodes)
    PROVE  LET kids == BuildChildren(edges) IN
           /\ UNION {ToSet(kids[n]) : n \in Nodes} = Reached(edges) \ {Leader}
           /\ \A m, n \in Nodes : \A c \in ToSet(kids[m]) :
                 /\ c \in ToSet(kids[n]) => m = n
                 /\ \A d \in 0 .. Cardinality(Nodes) :
                        m \in Ball(edges, d) <=> c \in Ball(edges, d + 1)
<1> DEFINE N == Cardinality(Nodes)
           found == Parents(edges)
           L == Len(found)
           kids == BuildChildren(edges)
<1>1. /\ BreadthFirst(edges, found, N) /\ Through(edges, found, N)
      /\ N \in Nat
  <2>1. N \in Nat /\ N \in 0 .. N
    BY NodesCounted
  <2>2. QED
    BY <2>1, TurnsKeep DEF Parents
<1> HIDE DEF found
<1>2. /\ found \in Dicts /\ L \in Nat /\ L > 0
      /\ \A a \in 1 .. L : found[a][1] \in Nodes
      /\ found[1][1] = Leader /\ found[1][2] = Stray /\ Stray \notin Nodes
      /\ \A a, b \in 1 .. L : found[a][1] = found[b][1] => a = b
  BY <1>1, EntryType, OverlayAssumption DEF BreadthFirst
<1>3. \A n \in Nodes : \A c : c \in ToSet(kids[n]) <=>
          \E b \in 1 .. L : found[b][2] = n /\ found[b][1] = c
  <2>1. \A n \in Nodes : kids[n] = Listed(found, n)[L]
    BY DEF BuildChildren, found
  <2>2. ASSUME NEW n \in Nodes
        PROVE  \A c : c \in ToSet(Listed(found, n)[L]) <=>
                         \E b \in 1 .. L : found[b][2] = n /\ found[b][1] = c
    <3>1. found \in Dicts /\ L \in 0 .. L
      BY <1>2
    <3>2. \A c : c \in ToSet(Listed(found, n)[L]) <=> Entered(found, n, L, c)
      BY <3>1, ListedHas
    <3>3. QED
      BY <3>2 DEF Entered
  <2>3. QED
    BY <2>1, <2>2, ZenonT(60)
<1>4. \A n : Has(found, n) <=> n \in Reached(edges)
  BY <1>1, AllReached
<1>5. \A b \in 2 .. L : \E p \in 1 .. b - 1 : found[b][2] = found[p][1]
  BY <1>1 DEF BreadthFirst, Below
<1>6. \A d \in 0 .. N : \A b \in 2 .. L, p \in 1 .. L : found[b][2] = found[p][1] =>
         (found[p][1] \in Ball(edges, d) <=> found[b][1] \in Ball(edges, d + 1))
  BY <1>1, OneEdgeFurther
<1>7. \A n : Has(found, n) <=> \E a \in 1 .. L : found[a][1] = n
  BY DEF Has
<1> HIDE DEF N, L, kids
<1>8. ASSUME NEW n \in Nodes, NEW c \in ToSet(kids[n])
      PROVE  \E b \in 2 .. L : found[b][2] = n /\ found[b][1] = c
  <2>1. PICK b \in 1 .. L : found[b][2] = n /\ found[b][1] = c
    BY <1>3, <1>8, ZenonT(60)
  <2>2. b # 1
    BY <1>2, <2>1
  <2>3. QED
    BY <1>2, <2>1, <2>2
<1>9. UNION {ToSet(kids[n]) : n \in Nodes} = Reached(edges) \ {Leader}
  <2>1. ASSUME NEW n \in Nodes, NEW c \in ToSet(kids[n])
        PROVE  c \in Reached(edges) /\ c # Leader
    <3>1. PICK b \in 2 .. L : found[b][1] = c
      BY <1>8, <2>1
    <3>2. b \in 1 .. L /\ 1 \in 1 .. L /\ b # 1
      BY <1>2
    <3>3. QED
      BY <1>2, <1>4, <1>7, <3>1, <3>2
  <2>2. ASSUME NEW c \in Reached(edges), c # Leader
        PROVE  \E n \in Nodes : c \in ToSet(kids[n])
    <3>1. PICK b \in 1 .. L : found[b][1] = c
      BY <1>4, <1>7, <2>2
    <3>2. b \in 2 .. L
      BY <1>2, <2>2, <3>1
    <3>3. PICK p \in 1 .. b - 1 : found[b][2] = found[p][1]
      BY <1>5, <3>2
    <3>4. found[p][1] \in Nodes
      BY <1>2, <3>2
    <3>5. QED
      BY <1>3, <3>1, <3>3, <3>4
  <2>3. QED
    BY <2>1, <2>2
<1>10. ASSUME NEW m \in Nodes, NEW n \in Nodes, NEW c \in ToSet(kids[m])
       PROVE  /\ c \in ToSet(kids[n]) => m = n
              /\ \A d \in 0 .. N : m \in Ball(edges, d) <=> c \in Ball(edges, d + 1)
  <2>1. PICK b \in 2 .. L : found[b][2] = m /\ found[b][1] = c
    BY <1>8
  <2>2. c \in ToSet(kids[n]) => m = n
    <3>1. SUFFICES ASSUME c \in ToSet(kids[n]) PROVE m = n
      OBVIOUS
    <3>2. PICK a \in 2 .. L : found[a][2] = n /\ found[a][1] = c
      BY <1>8, <3>1, ZenonT(60)
    <3>3. a \in 1 .. L /\ b \in 1 .. L
      BY <1>2
    <3>4. a = b
      BY <1>2, <2>1, <3>2, <3>3
    <3>5. QED
      BY <2>1, <3>2, <3>4
  <2>3. PICK p \in 1 .. b - 1 : found[b][2] = found[p][1]
    BY <1>5
  <2>4. p \in 1 .. L
    BY <1>2
  <2>5. QED
    BY <1>6, <2>1, <2>2, <2>3, <2>4
<1>11. QED
  BY <1>9, <1>10 DEF kids, N

(* The overlay never changes, and was listed as sequences of edges.        *)
LEMMA OverlayFixed == Spec => [](overlay \in Seq(Nodes \X Nodes))
<1>1. Init => overlay \in Overlays
  BY DEF Init
<1>2. overlay \in Overlays /\ [Next]_vars => (overlay \in Overlays)'
  BY DEF Next, TakeNext, Pass, Adopt, Die, Finish, vars
<1>3. overlay \in Overlays => overlay \in Seq(Nodes \X Nodes)
  BY OverlayAssumption
<1>4. QED
  BY <1>1, <1>2, <1>3, PTL DEF Spec

(* Every node that the leader can reach is in the tree of _build_children, *)
(* below one parent and over a shortest path, whatever the overlay.        *)
THEOREM PythonShortestPaths == Spec => []ShortestPaths
<1>1. overlay \in Seq(Nodes \X Nodes) => ShortestPaths
  <2> SUFFICES ASSUME overlay \in Seq(Nodes \X Nodes) PROVE ShortestPaths
    OBVIOUS
  <2>1. PICK edges \in Seq(Nodes \X Nodes) : edges = overlay
    OBVIOUS
  <2>2. QED
    BY <2>1, PythonTree DEF ShortestPaths
<1>2. QED
  BY <1>1, OverlayFixed, PTL

-----------------------------------------------------------------------------
(* The vector q has the nodes of the dict, and the lists of children are   *)
(* those that would be made of it now.                                     *)
Mirrored(found, queue, lists) ==
    /\ found \in Dicts /\ Len(queue) = Len(found)
    /\ \A a \in 1 .. Len(found) : queue[a] = found[a][1]
    /\ \A n \in Nodes : lists[n] = Listed(found, n)[Len(found)]

(* The dict where turn k has the neighbours todo of cur yet to look at.    *)
InTurn(edges, found, k, cur, todo) ==
    LET before == Turns(edges)[k - 1]
        nbs == Adj(edges, cur)
    IN  \/ k = 0 /\ found = Turns(edges)[0] /\ todo = <<>>
        \/ /\ k \in 1 .. Cardinality(Nodes) /\ k <= Len(before) /\ cur = before[k][1]
           /\ \E j \in 0 .. Len(nbs) :
                 /\ Len(todo) = Len(nbs) - j
                 /\ \A m \in 1 .. Len(todo) : todo[m] = nbs[j + m]
                 /\ found = Looked(edges, before, cur)[j]

(* Until the reference dangles and is read, buildTree does what            *)
(* _build_children does, step by step.                                     *)
Together ==
    \E found : /\ Mirrored(found, q, children)
               /\ InTurn(overlay, found, i, q[i], rest)

SameInv ==
    /\ overlay \in Seq(Nodes \X Nodes)
    /\ q \in Seq(Nodes) /\ rest \in Seq(Nodes) /\ i \in 0 .. Len(q)
    /\ children \in [Keys -> Seq(Nodes)]
    /\ ~strayed => Together
    /\ ~strayed /\ status = "built" =>
          \A n \in Nodes : children[n] = BuildChildren(overlay)[n]

(* What a dict within a turn is.                                           *)
LEMMA InTurnFact ==
    ASSUME NEW edges \in Seq(Nodes \X Nodes), NEW k \in Nat \ {0}, NEW found, NEW cur, NEW todo,
           InTurn(edges, found, k, cur, todo)
    PROVE  /\ k \in 1 .. Cardinality(Nodes) /\ cur \in Nodes
           /\ Turns(edges)[k - 1] \in Dicts /\ k <= Len(Turns(edges)[k - 1])
           /\ cur = Turns(edges)[k - 1][k][1]
           /\ Adj(edges, cur) \in Seq(Nodes)
           /\ found \in Dicts /\ Len(found) <= Cardinality(Nodes)
<1> DEFINE N == Cardinality(Nodes)
           before == Turns(edges)[k - 1]
<1>1. /\ k \in 1 .. N /\ k <= Len(before) /\ cur = before[k][1]
      /\ \E j \in 0 .. Len(Adj(edges, cur)) : found = Looked(edges, before, cur)[j]
  BY DEF InTurn
<1>2. k - 1 \in 0 .. N /\ N \in Nat /\ k - 1 \in Nat /\ (k - 1) + 1 = k
  BY <1>1, NodesCounted
<1> HIDE DEF N
<1>3. BreadthFirst(edges, before, k - 1) /\ Through(edges, before, k - 1)
  BY <1>2, TurnsKeep DEF N
<1>4. BreadthFirst(edges, before, k)
  <2>1. BreadthFirst(edges, before, (k - 1) + 1)
    BY <1>2, <1>3, LaterTurn
  <2>2. QED
    BY <1>2, <2>1
<1> HIDE DEF before
<1>5. before \in Dicts /\ cur \in Nodes
  <2>1. before \in Dicts
    BY <1>4 DEF BreadthFirst
  <2>2. k \in 1 .. Len(before)
    BY <1>1, <1>2, <2>1, EntryType
  <2>3. QED
    BY <1>1, <2>1, <2>2, EntryType
<1>6. Adj(edges, cur) \in Seq(Nodes)
  BY <1>5, AdjFact
<1>7. PICK j \in 0 .. Len(Adj(edges, cur)) : found = Looked(edges, before, cur)[j]
  BY <1>1
<1>8. BreadthFirst(edges, found, k)
  BY <1>1, <1>3, <1>4, <1>7, LookedKeeps
<1>9. found \in Dicts /\ Len(found) <= N
  BY <1>8, NoMoreThanNodes DEF BreadthFirst, N
<1>10. QED
  BY <1>1, <1>5, <1>6, <1>9 DEF N, before

(* At the end of turn k the dict is what the loop has after that turn.     *)
LEMMA TurnOver ==
    ASSUME NEW edges \in Seq(Nodes \X Nodes), NEW k \in Nat, NEW found, NEW cur,
           InTurn(edges, found, k, cur, <<>>)
    PROVE  /\ k \in 0 .. Cardinality(Nodes) /\ found = Turns(edges)[k]
           /\ found \in Dicts /\ Len(found) <= Cardinality(Nodes)
<1>1. CASE k = 0
  <2>1. Cardinality(Nodes) \in Nat /\ 0 \in 0 .. Cardinality(Nodes)
    BY NodesCounted
  <2>2. found = Turns(edges)[0]
    BY <1>1 DEF InTurn
  <2>3. BreadthFirst(edges, found, 0)
    BY <2>1, <2>2, TurnsKeep, SMTT(30)
  <2>4. QED
    BY <1>1, <2>1, <2>2, <2>3, NoMoreThanNodes DEF BreadthFirst
<1>2. CASE k # 0
  <2> DEFINE before == Turns(edges)[k - 1]
             nbs == Adj(edges, cur)
  <2>1. /\ k \in 1 .. Cardinality(Nodes) /\ cur \in Nodes
        /\ before \in Dicts /\ k <= Len(before) /\ cur = before[k][1]
        /\ nbs \in Seq(Nodes)
        /\ found \in Dicts /\ Len(found) <= Cardinality(Nodes)
    BY <1>2, InTurnFact, ZenonT(60)
  <2>2. PICK j \in 0 .. Len(nbs) : /\ Len(<< >>) = Len(nbs) - j
                                   /\ found = Looked(edges, before, cur)[j]
    BY <1>2 DEF InTurn
  <2>3. j = Len(nbs)
    BY <2>1, <2>2
  <2>4. Turns(edges)[k] = Look(edges, k, before)
    BY <2>1, TurnsFact
  <2>5. ~(k > Len(before)) /\ Len(before) \in Nat
    BY <2>1, EntryType
  <2>6. Look(edges, k, before) = Looked(edges, before, cur)[Len(nbs)]
    BY <2>1, <2>5 DEF Look
  <2>7. QED
    BY <2>1, <2>2, <2>3, <2>4, <2>6, NodesCounted
<1>3. QED
  BY <1>1, <1>2

(* The next node of the queue takes its turn.                              *)
LEMMA TurnBegins ==
    ASSUME NEW edges \in Seq(Nodes \X Nodes), NEW k \in Nat, NEW found, NEW cur,
           InTurn(edges, found, k, cur, <<>>), k < Len(found)
    PROVE  InTurn(edges, found, k + 1, found[k + 1][1], Adj(edges, found[k + 1][1]))
<1> DEFINE next == found[k + 1][1]
           nbs == Adj(edges, next)
<1>1. /\ k \in 0 .. Cardinality(Nodes) /\ found = Turns(edges)[k]
      /\ found \in Dicts /\ Len(found) <= Cardinality(Nodes)
  BY TurnOver
<1>2. /\ k + 1 \in 1 .. Cardinality(Nodes) /\ k + 1 <= Len(found) /\ (k + 1) - 1 = k
      /\ k + 1 # 0 /\ next \in Nodes
  BY <1>1, EntryType, NodesCounted
<1>3. nbs \in Seq(Nodes)
  BY <1>2, AdjFact
<1>4. Looked(edges, found, next)[0] = found
  <2>1. found \in Dicts /\ next \in Nodes
    BY <1>1, <1>2
  <2> HIDE DEF next
  <2>2. LooksAtAll(edges, found, next)
    BY <2>1, LookedFact, Zenon
  <2>3. QED
    BY <2>2, Zenon DEF LooksAtAll
<1> HIDE DEF nbs
<1>5. /\ 0 \in 0 .. Len(nbs) /\ Len(nbs) = Len(nbs) - 0
      /\ \A m \in 1 .. Len(nbs) : nbs[m] = nbs[0 + m]
  BY <1>3, SMTT(30)
<1>6. QED
  BY <1>1, <1>2, <1>4, <1>5 DEF InTurn, nbs

(* The next neighbour is looked at.                                        *)
LEMMA TurnGoesOn ==
    ASSUME NEW edges \in Seq(Nodes \X Nodes), NEW k \in Nat, NEW found, NEW cur,
           NEW todo \in Seq(Nodes), todo # <<>>, InTurn(edges, found, k, cur, todo)
    PROVE  /\ k # 0 /\ cur \in Nodes /\ found \in Dicts
           /\ InTurn(edges, Enter(found, cur, Head(todo)), k, cur, Tail(todo))
<1> DEFINE before == Turns(edges)[k - 1]
           nbs == Adj(edges, cur)
<1>1. k # 0
  BY DEF InTurn
<1>2. /\ k \in 1 .. Cardinality(Nodes) /\ cur \in Nodes
      /\ before \in Dicts /\ k <= Len(before) /\ cur = before[k][1]
      /\ nbs \in Seq(Nodes) /\ found \in Dicts
  BY <1>1, InTurnFact, ZenonT(60)
<1>3. PICK j \in 0 .. Len(nbs) : /\ Len(todo) = Len(nbs) - j
                                 /\ \A m \in 1 .. Len(todo) : todo[m] = nbs[j + m]
                                 /\ found = Looked(edges, before, cur)[j]
  BY <1>1 DEF InTurn
<1>4. \A h \in 1 .. Len(nbs) :
         Looked(edges, before, cur)[h] = Enter(Looked(edges, before, cur)[h - 1], cur, nbs[h])
  <2>1. before \in Dicts /\ cur \in Nodes
    BY <1>2
  <2> HIDE DEF before
  <2>2. LooksAtAll(edges, before, cur)
    BY <2>1, LookedFact, Zenon
  <2>3. QED
    BY <2>2, Zenon DEF LooksAtAll
<1> HIDE DEF nbs, before
<1>5. /\ Head(todo) = todo[1] /\ Len(todo) \in Nat /\ Len(todo) > 0
      /\ Len(Tail(todo)) = Len(todo) - 1
      /\ \A m \in 1 .. Len(todo) - 1 : Tail(todo)[m] = todo[m + 1]
  OBVIOUS
<1>6. j + 1 \in 1 .. Len(nbs) /\ j + 1 \in 0 .. Len(nbs) /\ (j + 1) - 1 = j
  BY <1>2, <1>3, <1>5
<1>7. Head(todo) = nbs[j + 1] /\ Len(Tail(todo)) = Len(nbs) - (j + 1)
  BY <1>2, <1>3, <1>5, SMTT(30)
<1>8. ASSUME NEW m \in 1 .. Len(Tail(todo)) PROVE Tail(todo)[m] = nbs[(j + 1) + m]
  <2>1. m \in 1 .. Len(todo) - 1 /\ m + 1 \in 1 .. Len(todo) /\ j + (m + 1) = (j + 1) + m
    BY <1>2, <1>5
  <2>2. QED
    BY <1>3, <1>5, <2>1
<1>9. Enter(found, cur, Head(todo)) = Looked(edges, before, cur)[j + 1]
  BY <1>3, <1>4, <1>6, <1>7
<1>10. \E h \in 0 .. Len(nbs) :
          /\ Len(Tail(todo)) = Len(nbs) - h
          /\ \A m \in 1 .. Len(Tail(todo)) : Tail(todo)[m] = nbs[h + m]
          /\ Enter(found, cur, Head(todo)) = Looked(edges, before, cur)[h]
  BY <1>6, <1>7, <1>8, <1>9
<1>11. QED
  BY <1>1, <1>2, <1>10 DEF InTurn, before, nbs

(* When the turn of the last of the queue is over the dict is complete.    *)
LEMMA LastTurn ==
    ASSUME NEW edges \in Seq(Nodes \X Nodes), NEW found \in Dicts, NEW cur,
           InTurn(edges, found, Len(found), cur, <<>>)
    PROVE  found = Parents(edges)
<1> DEFINE N == Cardinality(Nodes)
           L == Len(found)
           turns == Turns(edges)
           T == {k \in 0 .. N : k >= L => turns[k] = found}
<1>1. L \in Nat /\ N \in Nat
  BY EntryType, NodesCounted
<1>2. L \in 0 .. N /\ found = turns[L]
  <2> HIDE DEF L
  <2>1. QED
    BY <1>1, TurnOver DEF L
<1>3. \A k \in 1 .. N : turns[k] = Look(edges, k, turns[k - 1])
  BY TurnsFact
<1> HIDE DEF turns, N
<1>4. 0 \in T
  BY <1>1, <1>2
<1>5. ASSUME NEW k \in 1 .. N, k - 1 \in T PROVE k \in T
  <2>1. CASE k > L
    <3>1. turns[k - 1] = found
      BY <1>1, <1>5, <2>1
    <3>2. turns[k] = found
      BY <1>3, <2>1, <3>1 DEF Look
    <3>3. QED
      BY <3>2
  <2>2. CASE ~(k > L)
    BY <1>1, <1>2, <2>2
  <2>3. QED
    BY <2>1, <2>2
<1>6. \A k \in 0 .. N : k \in T
  <2>1. \A k \in 1 .. N : k - 1 \in T => k \in T
    BY <1>5
  <2> HIDE DEF T
  <2>2. QED
    BY <1>1, <1>4, <2>1, UpTo
<1>7. N \in 0 .. N /\ N >= L
  BY <1>1, <1>2
<1>8. turns[N] = found
  BY <1>6, <1>7
<1>9. QED
  BY <1>8 DEF Parents, turns, N

(* A new entry of the dict makes the list of its parent longer.            *)
LEMMA ListedGrown ==
    ASSUME NEW found \in Dicts, NEW nb \in Nodes, NEW cur \in Nodes, NEW n,
           NEW g \in Dicts, Len(g) = Len(found) + 1, g[Len(found) + 1] = <<nb, cur>>,
           \A a \in 1 .. Len(found) : g[a] = found[a]
    PROVE  Listed(g, n)[Len(g)] = IF cur = n THEN Append(Listed(found, n)[Len(found)], nb)
                                  ELSE Listed(found, n)[Len(found)]
<1> DEFINE L == Len(found)
           old == Listed(found, n)
           new == Listed(g, n)
           T == {j \in 0 .. L : new[j] = old[j]}
<1>1. L \in Nat
  BY EntryType
<1>2. Len(g) = L + 1 /\ g[L + 1] = <<nb, cur>> /\ \A j \in 1 .. L : g[j] = found[j]
  OBVIOUS
<1>3. /\ old[0] = <<>>
      /\ \A j \in 1 .. L : old[j] = IF found[j][2] = n THEN Append(old[j - 1], found[j][1])
                                    ELSE old[j - 1]
  BY ListedFact
<1>4. /\ new[0] = <<>>
      /\ \A j \in 1 .. Len(g) : new[j] = IF g[j][2] = n THEN Append(new[j - 1], g[j][1])
                                         ELSE new[j - 1]
  BY ListedFact
<1> HIDE DEF L, old, new
<1>5. 0 \in T
  BY <1>1, <1>3, <1>4
<1>6. \A j \in 1 .. L : j - 1 \in T => j \in T
  <2>1. ASSUME NEW j \in 1 .. L, new[j - 1] = old[j - 1] PROVE new[j] = old[j]
    <3>1. j \in 1 .. Len(g) /\ g[j] = found[j]
      BY <1>1, <1>2
    <3>2. QED
      BY <1>3, <1>4, <2>1, <3>1, Zenon
  <2>2. QED
    BY <2>1
<1>7. \A j \in 0 .. L : j \in T
  <2> HIDE DEF T
  <2>1. QED
    BY <1>1, <1>5, <1>6, UpTo
<1>8. new[L] = old[L]
  BY <1>1, <1>7
<1>9. new[L + 1] = IF cur = n THEN Append(new[L], nb) ELSE new[L]
  <2>1. L + 1 \in 1 .. Len(g) /\ (L + 1) - 1 = L
    BY <1>1, <1>2
  <2>2. g[L + 1][1] = nb /\ g[L + 1][2] = cur
    BY <1>2
  <2>3. QED
    BY <1>4, <2>1, <2>2, Zenon
<1>10. QED
  BY <1>2, <1>8, <1>9 DEF L, old, new

(* What children_[cur].push_back does to the lists, a new entry does.      *)
LEMMA MirrorGrows ==
    ASSUME NEW found, NEW queue \in Seq(Nodes), NEW lists \in [Keys -> Seq(Nodes)],
           NEW nb \in Nodes, NEW cur \in Nodes, Mirrored(found, queue, lists), ~Has(found, nb)
    PROVE  Mirrored(Enter(found, cur, nb), Append(queue, nb),
                    [lists EXCEPT ![cur] = Append(lists[cur], nb)])
<1> DEFINE g == Enter(found, cur, nb)
           L == Len(found)
<1>1. /\ found \in Dicts /\ Len(queue) = L
      /\ \A a \in 1 .. L : queue[a] = found[a][1]
      /\ \A n \in Nodes : lists[n] = Listed(found, n)[L]
  BY DEF Mirrored
<1>2. /\ g \in Dicts /\ g = Append(found, <<nb, cur>>) /\ Len(g) = L + 1
      /\ g[L + 1] = <<nb, cur>> /\ \A a \in 1 .. L : g[a] = found[a]
      /\ L \in Nat
  BY <1>1, EnterFact, EntryType, ZenonT(60)
<1>3. \A a \in 1 .. L + 1 : Append(queue, nb)[a] = g[a][1]
  <2>1. Append(queue, nb)[L + 1] = nb /\ \A a \in 1 .. L : Append(queue, nb)[a] = queue[a]
    BY <1>1
  <2> HIDE DEF g, L
  <2>2. \A a \in 1 .. L + 1 : a \in 1 .. L \/ a = L + 1
    BY <1>2
  <2>3. QED
    BY <1>1, <1>2, <2>1, <2>2
<1> HIDE DEF g, L
<1>4. ASSUME NEW n \in Nodes
      PROVE  [lists EXCEPT ![cur] = Append(lists[cur], nb)][n] = Listed(g, n)[Len(g)]
  <2>1. Listed(g, n)[Len(g)] = IF cur = n THEN Append(Listed(found, n)[L], nb)
                               ELSE Listed(found, n)[L]
    <3>1. /\ found \in Dicts /\ g \in Dicts /\ Len(g) = Len(found) + 1
          /\ g[Len(found) + 1] = <<nb, cur>> /\ \A a \in 1 .. Len(found) : g[a] = found[a]
      BY <1>1, <1>2 DEF L
    <3>2. QED
      BY <3>1, ListedGrown, SMTT(30) DEF L
  <2>2. [lists EXCEPT ![cur] = Append(lists[cur], nb)][n] =
            IF cur = n THEN Append(lists[n], nb) ELSE lists[n]
    BY DEF Keys
  <2>3. lists[n] = Listed(found, n)[L]
    BY <1>1
  <2>4. QED
    BY <2>1, <2>2, <2>3, Zenon
<1>5. Len(Append(queue, nb)) = Len(g)
  BY <1>1, <1>2
<1>6. QED
  BY <1>2, <1>3, <1>4, <1>5 DEF Mirrored, g

LEMMA MirrorHas ==
    ASSUME NEW found, NEW queue \in Seq(Nodes), NEW lists, Mirrored(found, queue, lists), NEW n
    PROVE  n \in ToSet(queue) <=> Has(found, n)
BY DEF Mirrored, Has, ToSet

LEMMA SameInitially == Init => SameInv
<1> SUFFICES ASSUME Init PROVE SameInv
  OBVIOUS
<1>1. /\ q = <<Leader>> /\ rest = <<>> /\ i = 0 /\ status = "build" /\ ~strayed
      /\ children = [k \in Keys |-> <<>>] /\ overlay \in Overlays
  BY DEF Init
<1>2. PICK edges \in Seq(Nodes \X Nodes) : edges = overlay
  BY <1>1, OverlayAssumption
<1>3. PICK base : base = Turns(edges)[0]
  OBVIOUS
<1>4. base = << <<Leader, Stray>> >> /\ base \in Dicts
  <2>1. 0 \in 0 .. Cardinality(Nodes)
    BY NodesCounted
  <2>2. Turns(edges)[0] = << <<Leader, Stray>> >> /\ Turns(edges)[0] \in Dicts
    BY <2>1, TurnsFact
  <2>3. QED
    BY <1>3, <2>2, Zenon
<1>5. Len(base) = 1 /\ base[1][1] = Leader /\ base[1][2] = Stray
  BY <1>4
<1>6. ASSUME NEW n \in Nodes PROVE children[n] = Listed(base, n)[Len(base)]
  <2>1. /\ Listed(base, n)[0] = <<>>
        /\ \A j \in 1 .. 1 : Listed(base, n)[j] = IF base[j][2] = n
                                                  THEN Append(Listed(base, n)[j - 1], base[j][1])
                                                  ELSE Listed(base, n)[j - 1]
    <3>1. /\ Listed(base, n)[0] = <<>>
          /\ \A j \in 1 .. Len(base) : Listed(base, n)[j] =
                 IF base[j][2] = n THEN Append(Listed(base, n)[j - 1], base[j][1])
                 ELSE Listed(base, n)[j - 1]
      <4>1. base \in Dicts
        BY <1>4
      <4>2. QED
        BY <4>1, ListedFact
    <3>2. QED
      BY <1>5, <3>1
  <2>2. 1 \in 1 .. 1 /\ 1 - 1 = 0 /\ n # Stray
    BY OverlayAssumption
  <2>3. Listed(base, n)[1] = <<>>
    BY <1>5, <2>1, <2>2, Zenon
  <2>4. children[n] = <<>>
    BY <1>1 DEF Keys
  <2>5. QED
    BY <1>5, <2>3, <2>4, Zenon
<1>7. Mirrored(base, q, children)
  BY <1>1, <1>4, <1>5, <1>6 DEF Mirrored
<1>8. InTurn(overlay, base, i, q[i], rest)
  BY <1>1, <1>2, <1>3 DEF InTurn
<1>9. Together
  BY <1>7, <1>8 DEF Together
<1>10. /\ q \in Seq(Nodes) /\ rest \in Seq(Nodes) /\ i \in 0 .. Len(q)
       /\ children \in [Keys -> Seq(Nodes)] /\ overlay \in Seq(Nodes \X Nodes)
  BY <1>1, <1>2, OverlayAssumption
<1>11. QED
  BY <1>1, <1>9, <1>10 DEF SameInv

LEMMA TakeNextTogether == SameInv /\ TakeNext => SameInv'
<1> SUFFICES ASSUME SameInv, TakeNext PROVE SameInv'
  OBVIOUS
<1>1. /\ rest = <<>> /\ i < Len(q) /\ i' = i + 1 /\ rest' = Adj(overlay, q[i + 1])
      /\ overlay' = overlay /\ q' = q /\ strayed' = strayed /\ children' = children
      /\ status = "build" /\ status' = "build"
  BY DEF TakeNext
<1>2. /\ overlay \in Seq(Nodes \X Nodes) /\ q \in Seq(Nodes) /\ i \in 0 .. Len(q)
      /\ i \in Nat /\ Len(q) \in Nat /\ children \in [Keys -> Seq(Nodes)]
  BY DEF SameInv
<1>3. i' \in 0 .. Len(q') /\ q[i + 1] \in Nodes
  BY <1>1, <1>2
<1>4. PICK edges \in Seq(Nodes \X Nodes), next \in Nodes : edges = overlay /\ next = q[i + 1]
  BY <1>2, <1>3
<1>5. rest' \in Seq(Nodes)
  <2>1. Adj(edges, next) \in Seq(Nodes)
    BY AdjFact
  <2>2. QED
    BY <1>1, <1>4, <2>1, Zenon
<1>6. ASSUME ~strayed PROVE Together'
  <2>1. PICK found : Mirrored(found, q, children) /\ InTurn(overlay, found, i, q[i], rest)
    BY <1>6 DEF SameInv, Together
  <2>2. PICK k, cur : k = i /\ cur = q[i] /\ k \in Nat
    BY <1>2
  <2>3. InTurn(edges, found, k, cur, <<>>)
    BY <1>1, <1>4, <2>1, <2>2
  <2>4. k < Len(found) /\ found[k + 1][1] = next
    BY <1>1, <1>2, <1>4, <2>1, <2>2 DEF Mirrored
  <2>5. InTurn(edges, found, k + 1, found[k + 1][1], Adj(edges, found[k + 1][1]))
    BY <2>2, <2>3, <2>4, TurnBegins
  <2>6. InTurn(overlay', found, i', q'[i'], rest')
    <3>1. overlay' = edges /\ i' = k + 1 /\ q'[i'] = next /\ rest' = Adj(edges, next)
      BY <1>1, <1>4, <2>2
    <3>2. QED
      BY <2>4, <2>5, <3>1
  <2>7. Mirrored(found, q', children')
    BY <1>1, <2>1
  <2>8. QED
    BY <2>6, <2>7 DEF Together
<1>7. QED
  BY <1>1, <1>2, <1>3, <1>5, <1>6 DEF SameInv, Keys

(* A neighbour that has been found is in the dict too.                     *)
LEMMA PassTogether == SameInv /\ Pass => SameInv'
<1> SUFFICES ASSUME SameInv, Pass PROVE SameInv'
  OBVIOUS
<1>1. /\ rest # <<>> /\ rest' = Tail(rest) /\ Visited(Head(rest))
      /\ overlay' = overlay /\ q' = q /\ i' = i /\ strayed' = strayed /\ children' = children
      /\ status = "build" /\ status' = "build"
  BY DEF Pass
<1>2. /\ overlay \in Seq(Nodes \X Nodes) /\ q \in Seq(Nodes) /\ rest \in Seq(Nodes)
      /\ i \in 0 .. Len(q) /\ i \in Nat /\ children \in [Keys -> Seq(Nodes)]
  BY DEF SameInv
<1>3. rest' \in Seq(Nodes) /\ Head(rest) \in Nodes
  BY <1>1, <1>2
<1>4. ASSUME ~strayed PROVE Together'
  <2>1. PICK found : Mirrored(found, q, children) /\ InTurn(overlay, found, i, q[i], rest)
    BY <1>4 DEF SameInv, Together
  <2>2. PICK edges, k, cur, todo : edges = overlay /\ k = i /\ cur = q[i] /\ todo = rest
    OBVIOUS
  <2>3. /\ edges \in Seq(Nodes \X Nodes) /\ k \in Nat /\ todo \in Seq(Nodes)
        /\ todo # <<>> /\ InTurn(edges, found, k, cur, todo)
    BY <1>1, <1>2, <2>1, <2>2, Zenon
  <2>4. /\ cur \in Nodes /\ found \in Dicts
        /\ InTurn(edges, Enter(found, cur, Head(todo)), k, cur, Tail(todo))
    BY <2>3, TurnGoesOn
  <2>5. Has(found, Head(todo)) /\ Head(todo) \in Nodes
    BY <1>1, <1>2, <1>3, <2>1, <2>2, MirrorHas DEF Visited
  <2>6. Enter(found, cur, Head(todo)) = found
    BY <2>4, <2>5, EnterFact
  <2>7. InTurn(overlay', found, i', q'[i'], rest')
    BY <1>1, <2>2, <2>4, <2>6
  <2>8. Mirrored(found, q', children')
    BY <1>1, <2>1
  <2>9. QED
    BY <2>7, <2>8 DEF Together
<1>5. QED
  BY <1>1, <1>2, <1>3, <1>4 DEF SameInv, Keys

(* A new one enters at the end of q and of the dict, below cur while cur   *)
(* is still what it was.                                                   *)
LEMMA AdoptTogether == ASSUME SameInv, NEW key \in Keys, Adopt(key) PROVE SameInv'
<1>1. /\ rest # <<>> /\ rest' = Tail(rest) /\ ~Visited(Head(rest)) /\ MayRead(key)
      /\ overlay' = overlay /\ q' = Append(q, Head(rest)) /\ i' = i
      /\ strayed' = (strayed \/ ~valid)
      /\ children' = [children EXCEPT ![key] = Append(children[key], Head(rest))]
      /\ status = "build" /\ status' = "build"
  BY DEF Adopt
<1>2. /\ overlay \in Seq(Nodes \X Nodes) /\ q \in Seq(Nodes) /\ rest \in Seq(Nodes)
      /\ i \in 0 .. Len(q) /\ i \in Nat /\ Len(q) \in Nat
      /\ children \in [Keys -> Seq(Nodes)]
  BY DEF SameInv
<1>3. PICK nb \in Nodes : nb = Head(rest)
  BY <1>1, <1>2
<1>4. /\ rest' \in Seq(Nodes) /\ q' \in Seq(Nodes) /\ Len(q') = Len(q) + 1
      /\ i' \in 0 .. Len(q')
      /\ \A a \in 1 .. Len(q) : q'[a] = q[a]
  BY <1>1, <1>2, <1>3
<1>5. children' \in [Keys -> Seq(Nodes)]
  <2>1. PICK old \in Seq(Nodes) : old = children[key]
    BY <1>2
  <2>2. Append(old, nb) \in Seq(Nodes)
    OBVIOUS
  <2>3. QED
    BY <1>1, <1>2, <1>3, <2>1, <2>2
<1>6. ASSUME ~strayed' PROVE Together'
  <2>0. ~strayed /\ key = q[i]
    BY <1>1, <1>6 DEF MayRead
  <2>1. PICK found : Mirrored(found, q, children) /\ InTurn(overlay, found, i, q[i], rest)
    BY <2>0 DEF SameInv, Together
  <2>2. PICK edges, k, cur, todo : edges = overlay /\ k = i /\ cur = q[i] /\ todo = rest
    OBVIOUS
  <2>3. /\ edges \in Seq(Nodes \X Nodes) /\ k \in Nat /\ todo \in Seq(Nodes)
        /\ todo # <<>> /\ InTurn(edges, found, k, cur, todo)
    BY <1>1, <1>2, <2>1, <2>2, Zenon
  <2>4. /\ k # 0 /\ cur \in Nodes /\ found \in Dicts
        /\ InTurn(edges, Enter(found, cur, Head(todo)), k, cur, Tail(todo))
    BY <2>3, TurnGoesOn
  <2>5. ~Has(found, nb)
    BY <1>1, <1>2, <1>3, <2>1, MirrorHas DEF Visited
  <2>6. PICK queue \in Seq(Nodes), lists \in [Keys -> Seq(Nodes)] : queue = q /\ lists = children
    BY <1>2
  <2>7. Mirrored(Enter(found, cur, nb), Append(queue, nb),
                 [lists EXCEPT ![cur] = Append(lists[cur], nb)])
    BY <2>1, <2>4, <2>5, <2>6, MirrorGrows
  <2>8. Mirrored(Enter(found, cur, nb), q', children')
    <3>1. q' = Append(queue, nb)
      BY <1>1, <1>3, <2>6
    <3>2. children' = [lists EXCEPT ![cur] = Append(lists[cur], nb)]
      BY <1>1, <1>3, <2>0, <2>2, <2>6
    <3>3. QED
      BY <2>7, <3>1, <3>2
  <2>9. InTurn(overlay', Enter(found, cur, nb), i', q'[i'], rest')
    <3>1. q'[i'] = cur
      BY <1>1, <1>2, <1>4, <2>2, <2>4
    <3>2. QED
      BY <1>1, <1>3, <2>2, <2>4, <3>1
  <2>10. QED
    BY <2>8, <2>9 DEF Together
<1>7. QED
  BY <1>1, <1>2, <1>4, <1>5, <1>6 DEF SameInv, Keys

(* When the queue is done so is the loop of _build_children.               *)
LEMMA FinishTogether == SameInv /\ Finish => SameInv'
<1> SUFFICES ASSUME SameInv, Finish PROVE SameInv'
  OBVIOUS
<1>1. /\ rest = <<>> /\ i = Len(q) /\ status' = "built"
      /\ overlay' = overlay /\ q' = q /\ i' = i /\ rest' = rest
      /\ strayed' = strayed /\ children' = children
  BY DEF Finish
<1>2. /\ overlay \in Seq(Nodes \X Nodes) /\ q \in Seq(Nodes) /\ rest \in Seq(Nodes)
      /\ i \in 0 .. Len(q) /\ children \in [Keys -> Seq(Nodes)]
  BY DEF SameInv
<1>3. Together => Together'
  BY <1>1 DEF Together
<1>4. ASSUME ~strayed PROVE \A n \in Nodes : children[n] = BuildChildren(overlay)[n]
  <2>1. PICK found : Mirrored(found, q, children) /\ InTurn(overlay, found, i, q[i], rest)
    BY <1>4 DEF SameInv, Together
  <2>2. PICK edges, cur : edges = overlay /\ cur = q[i] /\ edges \in Seq(Nodes \X Nodes)
    BY <1>2
  <2>3. found \in Dicts /\ i = Len(found)
    BY <1>1, <2>1 DEF Mirrored
  <2>4. InTurn(edges, found, Len(found), cur, <<>>)
    BY <1>1, <2>1, <2>2, <2>3
  <2>5. found = Parents(edges)
    BY <2>2, <2>3, <2>4, LastTurn
  <2>6. \A n \in Nodes : BuildChildren(edges)[n] = Listed(found, n)[Len(found)]
    BY <2>5 DEF BuildChildren
  <2>7. \A n \in Nodes : children[n] = Listed(found, n)[Len(found)]
    BY <2>1 DEF Mirrored
  <2>8. QED
    BY <2>2, <2>6, <2>7, Zenon
<1>5. QED
  BY <1>1, <1>2, <1>3, <1>4 DEF SameInv, Keys

LEMMA SamePreserved == SameInv /\ [Next]_vars => SameInv'
<1> SUFFICES ASSUME SameInv, [Next]_vars PROVE SameInv'
  OBVIOUS
<1>1. CASE Die
  <2>1. strayed' /\ UNCHANGED <<overlay, q, i, rest, children>>
    BY <1>1 DEF Die
  <2>2. QED
    BY <2>1 DEF SameInv, Keys
<1>2. CASE UNCHANGED vars
  BY <1>2 DEF vars, SameInv, Together, Keys
<1>3. QED
  BY <1>1, <1>2, TakeNextTogether, PassTogether, AdoptTogether, FinishTogether DEF Next

(* The C++ nodes and the Python node derive one tree from an overlay,      *)
(* child by child in one order, unless buildTree has read cur through a    *)
(* dangling reference.                                                     *)
THEOREM OneTree == Spec => []SameTree
<1>1. SameInv => SameTree
  BY DEF SameInv, SameTree
<1>2. QED
  BY <1>1, SameInitially, SamePreserved, PTL DEF Spec

-----------------------------------------------------------------------------
(* What TeamFetch takes for granted of its tree (TreeAssumption there):    *)
(* nobody is a child twice, the leader never, and each subtree has one     *)
(* whole, which its node puts together from the wholes of its children.    *)
PutTogether(kids, n, whole) ==
    (IF n = Leader THEN <<>> ELSE <<n>>) \o FlattenSeq([j \in DOMAIN kids[n] |-> whole[kids[n][j]]])

Gatherable(kids) ==
    /\ kids \in [Nodes -> Seq(Nodes)]
    /\ \A n \in Nodes : Leader \notin ToSet(kids[n])
    /\ \A m, n \in Nodes : m # n => ToSet(kids[m]) \cap ToSet(kids[n]) = {}
    /\ \A n \in Nodes : IsInjective(kids[n])
    /\ \E whole \in [Nodes -> Seq(Nodes)] : \A n \in Nodes : whole[n] = PutTogether(kids, n, whole)

LEMMA FlattenType ==
    ASSUME NEW seqs \in Seq(Seq(Nodes)) PROVE FlattenSeq(seqs) \in Seq(Nodes)
<1> DEFINE L == Len(seqs)
           Is(f) == f = [k \in 1 .. L |-> IF k = 1 THEN seqs[k] ELSE f[k - 1] \o seqs[k]]
           flatten == CHOOSE f : Is(f)
<1>1. L \in Nat /\ \A k \in 1 .. L : seqs[k] \in Seq(Nodes)
  OBVIOUS
<1>2. CASE L = 0
  <2>1. seqs = <<>> /\ FlattenSeq(seqs) = seqs
    BY <1>2 DEF FlattenSeq
  <2>2. <<>> \in Seq(Nodes)
    OBVIOUS
  <2>3. QED
    BY <2>1, <2>2, Zenon
<1>3. CASE L # 0
  <2>1. FlattenSeq(seqs) = flatten[L]
    BY <1>3 DEF FlattenSeq
  <2> HIDE DEF L
  <2> DEFINE turn == [k \in 1 .. L - 1 |-> [s \in Seq(Nodes) |-> s \o seqs[k + 1]]]
  <2>2. L - 1 \in Nat /\ 1 \in 1 .. L /\ \A k \in 1 .. L - 1 : k + 1 \in 1 .. L
    BY <1>1, <1>3
  <2>3. TurnsOn(turn, Seq(Nodes), L - 1)
    <3>1. \A k \in 1 .. L - 1 : \A s \in Seq(Nodes) : s \o seqs[k + 1] \in Seq(Nodes)
      BY <1>1, <2>2
    <3>2. QED
      BY <3>1 DEF TurnsOn
  <2>4. \A k \in 1 .. L - 1 : \A s \in Seq(Nodes) : turn[k][s] = s \o seqs[k + 1]
    OBVIOUS
  <2> HIDE DEF turn
  <2>5. PICK first \in Seq(Nodes) : first = seqs[1]
    BY <1>1, <2>2
  <2>6. PICK f : Values(f, turn, Seq(Nodes), first, L - 1)
    BY <2>2, <2>3, Recursion
  <2> DEFINE g == [k \in 1 .. L |-> f[k - 1]]
  <2>7. /\ f \in [0 .. L - 1 -> Seq(Nodes)] /\ f[0] = first
        /\ \A k \in 1 .. L - 1 : f[k] = turn[k][f[k - 1]]
    BY <2>6 DEF Values
  <2>8. ASSUME NEW k \in 1 .. L PROVE g[k] = IF k = 1 THEN seqs[k] ELSE g[k - 1] \o seqs[k]
    <3>1. CASE k = 1
      BY <2>2, <2>5, <2>7, <3>1
    <3>2. CASE k # 1
      <4>1. k - 1 \in 1 .. L - 1 /\ k - 1 \in 1 .. L /\ (k - 1) + 1 = k /\ (k - 1) - 1 \in 0 .. L - 1
        BY <1>1, <3>2
      <4>2. f[(k - 1) - 1] \in Seq(Nodes)
        BY <2>7, <4>1
      <4>3. f[k - 1] = f[(k - 1) - 1] \o seqs[(k - 1) + 1]
        BY <2>4, <2>7, <4>1, <4>2, Zenon
      <4>4. g[k] = f[k - 1] /\ g[k - 1] = f[(k - 1) - 1]
        BY <4>1
      <4>5. QED
        BY <3>2, <4>1, <4>3, <4>4, Zenon
    <3>3. QED
      BY <3>1, <3>2
  <2>9. Is(g)
    <3>1. g = [k \in 1 .. L |-> g[k]]
      BY Zenon
    <3> HIDE DEF g
    <3>2. QED
      BY <2>8, <3>1, Zenon
  <2>10. Is(flatten)
    <3> HIDE DEF g
    <3>1. QED
      BY <2>9, Zenon
  <2> HIDE DEF flatten
  <2>11. \A k \in 1 .. L : flatten[k] = IF k = 1 THEN seqs[k] ELSE flatten[k - 1] \o seqs[k]
    BY <2>10, Zenon
  <2> DEFINE T == {k \in 0 .. L - 1 : flatten[k + 1] \in Seq(Nodes)}
  <2>12. 0 \in T
    <3>1. 0 + 1 = 1 /\ 0 \in 0 .. L - 1 /\ flatten[1] = seqs[1]
      BY <2>2, <2>11
    <3>2. QED
      BY <1>1, <2>2, <3>1
  <2>13. \A k \in 1 .. L - 1 : k - 1 \in T => k \in T
    <3>1. ASSUME NEW k \in 1 .. L - 1, flatten[k] \in Seq(Nodes) PROVE flatten[k + 1] \in Seq(Nodes)
      <4>1. k + 1 \in 1 .. L /\ k + 1 # 1 /\ (k + 1) - 1 = k
        BY <2>2
      <4>2. flatten[k + 1] = flatten[k] \o seqs[k + 1]
        BY <2>11, <4>1, Zenon
      <4>3. \A s, t \in Seq(Nodes) : s \o t \in Seq(Nodes)
        OBVIOUS
      <4>4. QED
        BY <1>1, <3>1, <4>1, <4>2, <4>3, Zenon
    <3>2. \A k \in 1 .. L - 1 : (k - 1) + 1 = k /\ k \in 0 .. L - 1
      OBVIOUS
    <3>3. QED
      BY <3>1, <3>2
  <2>14. \A k \in 0 .. L - 1 : k \in T
    <3> HIDE DEF T
    <3>1. QED
      BY <2>2, <2>12, <2>13, UpTo
  <2>15. L - 1 \in 0 .. L - 1 /\ (L - 1) + 1 = L
    BY <2>2, <1>1
  <2>16. flatten[L] \in Seq(Nodes)
    BY <2>14, <2>15
  <2>17. QED
    BY <2>1, <2>16 DEF L
<1>4. QED
  BY <1>2, <1>3

(* An order of the nodes in which parents come first.                      *)
Ordered(kids, node, L) ==
    \A n \in Nodes : \A c \in ToSet(kids[n]) :
        \E p, b \in 1 .. L : p < b /\ node[p] = n /\ node[b] = c

(* Nodes that can be put in such an order have wholes: they are put        *)
(* together from the last to the first.                                    *)
LEMMA InOrder ==
    ASSUME NEW kids \in [Nodes -> Seq(Nodes)], NEW L \in Nat, NEW node \in [1 .. L -> Nodes],
           \A a, b \in 1 .. L : node[a] = node[b] => a = b,
           Ordered(kids, node, L)
    PROVE  \E whole \in [Nodes -> Seq(Nodes)] :
               \A n \in Nodes : whole[n] = PutTogether(kids, n, whole)
<1> DEFINE S == [Nodes -> Seq(Nodes)]
           None == [n \in Nodes |-> <<>>]
           base == [n \in Nodes |-> PutTogether(kids, n, None)]
           Put(k, w) == [w EXCEPT ![node[L + 1 - k]] = PutTogether(kids, node[L + 1 - k], w)]
           turn == [k \in 1 .. L |-> [w \in S |-> Put(k, w)]]
<1>0. \A n \in Nodes : /\ kids[n] \in Seq(Nodes) /\ DOMAIN kids[n] = 1 .. Len(kids[n])
                       /\ Len(kids[n]) \in Nat
                       /\ \A j \in DOMAIN kids[n] : kids[n][j] \in Nodes /\ kids[n][j] \in ToSet(kids[n])
  BY DEF ToSet
<1>1. ASSUME NEW n \in Nodes, NEW w \in S PROVE PutTogether(kids, n, w) \in Seq(Nodes)
  <2> DEFINE parts == [j \in DOMAIN kids[n] |-> w[kids[n][j]]]
  <2>1. \A j \in 1 .. Len(kids[n]) : w[kids[n][j]] \in Seq(Nodes)
    BY <1>0
  <2>2. parts \in Seq(Seq(Nodes))
    <3>1. parts = [j \in 1 .. Len(kids[n]) |-> w[kids[n][j]]] /\ Len(kids[n]) \in Nat
      BY <1>0
    <3>2. parts \in [1 .. Len(kids[n]) -> Seq(Nodes)]
      BY <2>1, <3>1
    <3>3. QED
      BY <3>1, <3>2
  <2>3. FlattenSeq(parts) \in Seq(Nodes)
    BY <2>2, FlattenType
  <2>4. (IF n = Leader THEN <<>> ELSE <<n>>) \in Seq(Nodes)
    OBVIOUS
  <2>5. \A s, t \in Seq(Nodes) : s \o t \in Seq(Nodes)
    OBVIOUS
  <2>6. QED
    BY <2>3, <2>4, <2>5, Zenon DEF PutTogether
<1>2. ASSUME NEW n \in Nodes, NEW w \in S, NEW v \in S,
             \A c \in ToSet(kids[n]) : w[c] = v[c]
      PROVE  PutTogether(kids, n, w) = PutTogether(kids, n, v)
  <2>1. \A j \in DOMAIN kids[n] : w[kids[n][j]] = v[kids[n][j]]
    BY <1>0, <1>2
  <2>2. [j \in DOMAIN kids[n] |-> w[kids[n][j]]] = [j \in DOMAIN kids[n] |-> v[kids[n][j]]]
    BY <2>1
  <2>3. QED
    BY <2>2, Zenon DEF PutTogether
<1>3. None \in S
  OBVIOUS
<1>4. base \in S
  BY <1>1, <1>3
<1> HIDE DEF None
<1>5. TurnsOn(turn, S, L)
  <2>1. ASSUME NEW k \in 1 .. L, NEW w \in S PROVE Put(k, w) \in S
    <3>1. node[L + 1 - k] \in Nodes
      OBVIOUS
    <3>2. PutTogether(kids, node[L + 1 - k], w) \in Seq(Nodes)
      BY <1>1, <3>1
    <3>3. QED
      BY <3>1, <3>2
  <2>2. QED
    BY <2>1 DEF TurnsOn
<1>6. \A k \in 1 .. L : \A w \in S : turn[k][w] = Put(k, w)
  OBVIOUS
<1> HIDE DEF turn, base
<1>7. PICK wholes : Values(wholes, turn, S, base, L)
  BY <1>4, <1>5, Recursion
<1>8. /\ wholes \in [0 .. L -> S] /\ wholes[0] = base
      /\ \A k \in 1 .. L : wholes[k] = Put(k, wholes[k - 1])
  <2>1. /\ wholes \in [0 .. L -> S] /\ wholes[0] = base
        /\ \A k \in 1 .. L : wholes[k] = turn[k][wholes[k - 1]]
    BY <1>7 DEF Values
  <2>2. ASSUME NEW k \in 1 .. L PROVE wholes[k] = Put(k, wholes[k - 1])
    <3> HIDE DEF Put, S
    <3>1. k - 1 \in 0 .. L
      OBVIOUS
    <3>2. wholes[k - 1] \in S
      BY <2>1, <3>1
    <3>3. QED
      BY <1>6, <2>1, <3>2, Zenon
  <2>3. QED
    BY <2>1, <2>2
<1> DEFINE Done(n, k) == \A a \in 1 .. L - k : node[a] # n
           Right(w, k) == \A n \in Nodes : Done(n, k) => w[n] = PutTogether(kids, n, w)
           T == {k \in 0 .. L : Right(wholes[k], k)}
<1>9. 0 \in T
  <2>1. ASSUME NEW n \in Nodes, Done(n, 0) PROVE base[n] = PutTogether(kids, n, base)
    <3>1. ToSet(kids[n]) = {}
      BY <2>1 DEF Ordered
    <3>2. base[n] = PutTogether(kids, n, None)
      BY DEF base
    <3>3. \A c \in ToSet(kids[n]) : None[c] = base[c]
      BY <3>1
    <3>4. PutTogether(kids, n, None) = PutTogether(kids, n, base)
      BY <1>2, <1>3, <1>4, <3>3
    <3>5. QED
      BY <3>2, <3>4
  <2>2. QED
    BY <1>8, <2>1
<1>10. ASSUME NEW k \in 1 .. L, k - 1 \in T PROVE k \in T
  <2> DEFINE m == L + 1 - k
             x == node[m]
  <2>1. PICK w \in S, v \in S : w = wholes[k - 1] /\ v = wholes[k]
    BY <1>8
  <2>2. m \in 1 .. L /\ x \in Nodes /\ m = (L - k) + 1 /\ L - (k - 1) = m
    OBVIOUS
  <2>3. v = [w EXCEPT ![x] = PutTogether(kids, x, w)]
    BY <1>8, <2>1
  <2>4. Right(w, k - 1)
    BY <1>10, <2>1
  <2> HIDE DEF m, x
  <2>5. v[x] = PutTogether(kids, x, w) /\ \A n \in Nodes : n # x => v[n] = w[n]
    BY <2>2, <2>3
  <2>6. ASSUME NEW n \in Nodes, Done(n, k) PROVE v[n] = PutTogether(kids, n, v)
    <3>1. \A c \in ToSet(kids[n]) : c \in Nodes /\ c # x
      <4>1. SUFFICES ASSUME NEW c \in ToSet(kids[n]), c = x PROVE FALSE
        BY <1>0 DEF ToSet
      <4>2. PICK p \in 1 .. L, b \in 1 .. L : p < b /\ node[p] = n /\ node[b] = c
        BY DEF Ordered
      <4>3. b = m
        BY <2>2, <4>1, <4>2 DEF x
      <4>4. p \in 1 .. L - k
        BY <2>2, <4>2, <4>3
      <4>5. QED
        BY <2>6, <4>2, <4>4
    <3>2. \A c \in ToSet(kids[n]) : w[c] = v[c]
      BY <2>5, <3>1
    <3>3. PutTogether(kids, n, w) = PutTogether(kids, n, v)
      BY <1>2, <3>2
    <3>4. CASE n = x
      BY <2>5, <3>3, <3>4
    <3>5. CASE n # x
      <4>1. Done(n, k - 1)
        <5>1. ASSUME NEW a \in 1 .. L - (k - 1) PROVE node[a] # n
          <6>1. a = m \/ a \in 1 .. L - k
            BY <2>2
          <6>2. QED
            BY <2>6, <3>5, <6>1 DEF x
        <5>2. QED
          BY <5>1
      <4>2. w[n] = PutTogether(kids, n, w)
        BY <2>4, <4>1
      <4>3. QED
        BY <2>5, <3>3, <3>5, <4>2
    <3>6. QED
      BY <3>4, <3>5
  <2>7. Right(v, k)
    BY <2>6
  <2>8. k \in 0 .. L
    OBVIOUS
  <2> HIDE DEF Right
  <2>9. QED
    BY <2>1, <2>7, <2>8
<1>11. \A k \in 0 .. L : k \in T
  <2>1. \A k \in 1 .. L : k - 1 \in T => k \in T
    BY <1>10
  <2> HIDE DEF T
  <2>2. QED
    BY <1>9, <2>1, UpTo
<1>12. L \in 0 .. L /\ \A n \in Nodes : Done(n, L)
  OBVIOUS
<1>13. wholes[L] \in S /\ \A n \in Nodes : wholes[L][n] = PutTogether(kids, n, wholes[L])
  BY <1>8, <1>11, <1>12
<1>14. QED
  BY <1>13

(* A list has nobody twice, as the dict has not.                           *)
LEMMA ListedOnce ==
    ASSUME NEW found \in Dicts, NEW n,
           \A a, b \in 1 .. Len(found) : found[a][1] = found[b][1] => a = b
    PROVE  IsInjective(Listed(found, n)[Len(found)])
<1> DEFINE L == Len(found)
           listed == Listed(found, n)
           T == {j \in 0 .. L : IsInjective(listed[j])}
<1>1. L \in Nat /\ \A j \in 1 .. L : found[j][1] \in Nodes
  BY EntryType
<1>2. /\ listed \in [0 .. L -> Seq(Nodes)] /\ listed[0] = <<>>
      /\ \A j \in 1 .. L : listed[j] = IF found[j][2] = n
                                       THEN Append(listed[j - 1], found[j][1])
                                       ELSE listed[j - 1]
  BY ListedFact
<1>3. \A j \in 0 .. L : \A c : c \in ToSet(listed[j]) <=> Entered(found, n, j, c)
  BY ListedHas
<1> HIDE DEF L, listed
<1>4. 0 \in T
  BY <1>1, <1>2 DEF IsInjective
<1>5. ASSUME NEW j \in 1 .. L, j - 1 \in T PROVE j \in T
  <2>1. PICK s \in Seq(Nodes), x \in Nodes : s = listed[j - 1] /\ x = found[j][1]
    BY <1>1, <1>2, SMTT(30)
  <2>2. IsInjective(s)
    BY <1>5, <2>1
  <2>3. x \notin ToSet(s)
    <3>1. SUFFICES ASSUME x \in ToSet(s) PROVE FALSE
      OBVIOUS
    <3>2. j - 1 \in 0 .. L
      BY <1>1
    <3>3. Entered(found, n, j - 1, x)
      BY <1>3, <2>1, <3>1, <3>2, Zenon
    <3>4. PICK b \in 1 .. j - 1 : found[b][1] = found[j][1]
      BY <2>1, <3>3 DEF Entered
    <3>5. b \in 1 .. L /\ b # j
      BY <1>1
    <3>6. QED
      BY <3>4, <3>5 DEF L
  <2>4. IsInjective(Append(s, x))
    <3>1. /\ Len(s) \in Nat /\ DOMAIN s = 1 .. Len(s) /\ DOMAIN Append(s, x) = 1 .. Len(s) + 1
          /\ Append(s, x)[Len(s) + 1] = x
          /\ \A a \in 1 .. Len(s) : Append(s, x)[a] = s[a] /\ s[a] # x
      BY <2>3 DEF ToSet
    <3>2. \A a \in 1 .. Len(s) + 1 : a \in 1 .. Len(s) \/ a = Len(s) + 1
      BY <3>1
    <3>3. QED
      BY <2>2, <3>1, <3>2 DEF IsInjective
  <2>5. listed[j] = s \/ listed[j] = Append(s, x)
    BY <1>2, <2>1
  <2>6. IsInjective(listed[j])
    BY <2>2, <2>4, <2>5, Zenon
  <2>7. j \in 0 .. L
    BY <1>1
  <2>8. QED
    BY <2>6, <2>7
<1>6. \A j \in 0 .. L : j \in T
  <2>1. \A j \in 1 .. L : j - 1 \in T => j \in T
    BY <1>5
  <2> HIDE DEF T
  <2>2. QED
    BY <1>1, <1>4, <2>1, UpTo
<1>7. IsInjective(listed[L])
  BY <1>1, <1>6
<1>8. QED
  BY <1>7 DEF listed, L

LEMMA PythonGatherable ==
    ASSUME NEW edges \in Seq(Nodes \X Nodes) PROVE Gatherable(BuildChildren(edges))
<1> DEFINE N == Cardinality(Nodes)
           found == Parents(edges)
           L == Len(found)
           kids == BuildChildren(edges)
           node == [a \in 1 .. L |-> found[a][1]]
<1>1. BreadthFirst(edges, found, N)
  <2>1. N \in 0 .. N
    BY NodesCounted
  <2>2. QED
    BY <2>1, TurnsKeep DEF Parents
<1>2. \A n \in Nodes : kids[n] = Listed(found, n)[L] /\ kids = [m \in Nodes |-> kids[m]]
  BY DEF BuildChildren
<1> HIDE DEF found, kids, N
<1>3. /\ found \in Dicts /\ L \in Nat /\ L > 0
      /\ \A a \in 1 .. L : found[a][1] \in Nodes
      /\ found[1][1] = Leader /\ found[1][2] = Stray /\ Stray \notin Nodes
      /\ \A a, b \in 1 .. L : found[a][1] = found[b][1] => a = b
  BY <1>1, EntryType, OverlayAssumption DEF BreadthFirst
<1>4. \A n \in Nodes : kids[n] \in Seq(Nodes)
  <2>1. ASSUME NEW n \in Nodes PROVE Listed(found, n)[L] \in Seq(Nodes)
    <3>1. Listed(found, n) \in [0 .. L -> Seq(Nodes)] /\ L \in 0 .. L
      BY <1>3, ListedFact
    <3>2. QED
      BY <3>1
  <2>2. QED
    BY <1>2, <2>1, Zenon
<1>5. kids \in [Nodes -> Seq(Nodes)]
  <2>1. kids = [m \in Nodes |-> kids[m]]
    BY <1>2, OverlayAssumption
  <2>2. QED
    BY <1>4, <2>1
<1>6. ASSUME NEW n \in Nodes, NEW c \in ToSet(kids[n])
      PROVE  \E b \in 2 .. L : found[b][2] = n /\ found[b][1] = c
  <2>1. L \in 0 .. L
    BY <1>3
  <2>2. \A d : d \in ToSet(Listed(found, n)[L]) <=> Entered(found, n, L, d)
    BY <1>3, <2>1, ListedHas
  <2>3. Entered(found, n, L, c)
    BY <1>2, <1>6, <2>2, Zenon
  <2>4. PICK b \in 1 .. L : found[b][2] = n /\ found[b][1] = c
    BY <2>3 DEF Entered
  <2>5. b # 1
    BY <1>3, <2>4
  <2>6. QED
    BY <1>3, <2>4, <2>5
<1>7. \A n \in Nodes : Leader \notin ToSet(kids[n])
  <2>1. SUFFICES ASSUME NEW n \in Nodes, Leader \in ToSet(kids[n]) PROVE FALSE
    OBVIOUS
  <2>2. PICK b \in 2 .. L : found[b][1] = Leader
    BY <1>6, <2>1
  <2>3. b \in 1 .. L /\ 1 \in 1 .. L /\ b # 1
    BY <1>3
  <2>4. QED
    BY <1>3, <2>2, <2>3
<1>8. ASSUME NEW m \in Nodes, NEW n \in Nodes, m # n PROVE ToSet(kids[m]) \cap ToSet(kids[n]) = {}
  <2>1. SUFFICES ASSUME NEW c \in ToSet(kids[m]), c \in ToSet(kids[n]) PROVE FALSE
    OBVIOUS
  <2>2. PICK a \in 2 .. L : found[a][2] = m /\ found[a][1] = c
    BY <1>6, SMTT(30)
  <2>3. PICK b \in 2 .. L : found[b][2] = n /\ found[b][1] = c
    BY <1>6, <2>1, ZenonT(60)
  <2>4. a = b
    BY <1>3, <2>2, <2>3, a \in 1 .. L, b \in 1 .. L
  <2>5. QED
    BY <1>8, <2>2, <2>3, <2>4
<1>9. \A n \in Nodes : IsInjective(kids[n])
  <2>1. ASSUME NEW n \in Nodes PROVE IsInjective(Listed(found, n)[L])
    BY <1>3, ListedOnce
  <2>2. QED
    BY <1>2, <2>1, Zenon
<1>10. ASSUME NEW n \in Nodes, NEW c \in ToSet(kids[n])
       PROVE  \E p, b \in 1 .. L : p < b /\ node[p] = n /\ node[b] = c
  <2>1. PICK b \in 2 .. L : found[b][2] = n /\ found[b][1] = c
    BY <1>6, ZenonT(60)
  <2>2. PICK p \in 1 .. b - 1 : found[b][2] = found[p][1]
    BY <1>1 DEF BreadthFirst, Below
  <2>3. p \in 1 .. L /\ b \in 1 .. L /\ p < b
    BY <1>3
  <2>4. QED
    BY <2>1, <2>2, <2>3
<1>11. node \in [1 .. L -> Nodes] /\ \A a, b \in 1 .. L : node[a] = node[b] => a = b
  BY <1>3
<1> HIDE DEF node, L
<1>12. Ordered(kids, node, L)
  BY <1>10 DEF Ordered
<1>13. \E whole \in [Nodes -> Seq(Nodes)] :
           \A n \in Nodes : whole[n] = PutTogether(kids, n, whole)
  BY <1>3, <1>5, <1>11, <1>12, InOrder
<1>14. Gatherable(kids)
  BY <1>5, <1>7, <1>8, <1>9, <1>13 DEF Gatherable
<1>15. QED
  BY <1>14 DEF kids

(* The trees that the nodes derive are trees that TeamFetch gathers from:  *)
(* the one of the Python node always, and that of buildTree unless it has  *)
(* read cur through a dangling reference.                                  *)
THEOREM DerivedTreesAreGatherable ==
    Spec => [](/\ Gatherable(BuildChildren(overlay))
               /\ status = "built" /\ ~strayed => Gatherable([n \in Nodes |-> children[n]]))
<1>1. SameInv => /\ Gatherable(BuildChildren(overlay))
                 /\ status = "built" /\ ~strayed => Gatherable([n \in Nodes |-> children[n]])
  <2> SUFFICES ASSUME SameInv
               PROVE  /\ Gatherable(BuildChildren(overlay))
                      /\ status = "built" /\ ~strayed => Gatherable([n \in Nodes |-> children[n]])
    OBVIOUS
  <2>1. PICK edges \in Seq(Nodes \X Nodes) : edges = overlay
    BY DEF SameInv
  <2>2. Gatherable(BuildChildren(edges))
    BY PythonGatherable
  <2>3. ASSUME status = "built", ~strayed
        PROVE  [n \in Nodes |-> children[n]] = BuildChildren(edges)
    <3>1. \A n \in Nodes : children[n] = BuildChildren(edges)[n]
      BY <2>1, <2>3 DEF SameInv
    <3>2. BuildChildren(edges) = [n \in Nodes |-> BuildChildren(edges)[n]]
      BY DEF BuildChildren
    <3>3. QED
      BY <3>1, <3>2, Zenon
  <2>4. QED
    BY <2>1, <2>2, <2>3
<1>2. QED
  BY <1>1, SameInitially, SamePreserved, PTL DEF Spec
=============================================================================
