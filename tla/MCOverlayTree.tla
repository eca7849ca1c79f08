--------------------------- MODULE MCOverlayTree ----------------------------
(* Every overlay of up to four of seven edges on five nodes, in any order  *)
(* (the vector has moved often enough then for a node to have two children *)
(* without a dangling read), and the overlay that nodes.yaml lists.        *)
EXTENDS OverlayTree

CONSTANTS A, B, C, D, E, F, G, H, I

SmallEdges == {<<A, B>>, <<A, C>>, <<B, C>>, <<B, D>>, <<D, C>>, <<E, C>>, <<D, E>>}

SmallOverlays ==
    {edges \in SeqOf(SmallEdges, 4) : \A j, k \in DOMAIN edges : edges[j] = edges[k] => j = k}

ConfigOverlays ==
    {<< <<A, B>>, <<B, C>>, <<B, D>>, <<B, E>>, <<E, F>>,
        <<E, D>>, <<E, G>>, <<A, H>>, <<A, G>>, <<A, I>> >>}

SmallAndConfig == SmallOverlays \cup ConfigOverlays

ConfigChildren ==
    [n \in Nodes |-> CASE n = A -> <<B, H, G, I>>
                       [] n = B -> <<C, D, E>>
                       [] n = E -> <<F>>
                       [] OTHER -> <<>>]

(* The children that nodes.yaml spells out are those that the overlay in   *)
(* the same file implies.                                                  *)
ASSUME ConfigAgrees == \A edges \in ConfigOverlays : BuildChildren(edges) = ConfigChildren

(* The links of the tree that the poster draws are those of nodes.yaml.    *)
DrawnLinks == {A} \X {B, H, G, I} \cup {B} \X {C, D, E} \cup {<<E, F>>}

ASSUME PosterAgrees ==
    DrawnLinks = UNION {{n} \X ToSet(ConfigChildren[n]) : n \in Nodes}
=============================================================================
