---------------------------- MODULE MCTeamFetch ----------------------------
(* TeamFetch for TLC: a tree in which a C++ node has a C++ and a Python    *)
(* child, so that its threads meet both kinds, and the Python node has a   *)
(* child of its own, so that its loop is not empty.                        *)
EXTENDS TeamFetch, TLC

CONSTANTS A, B, C, H, I

DeepTree == A :> <<B>> @@ B :> <<I, C>> @@ I :> <<H>> @@ C :> <<>> @@ H :> <<>>

Preorder[n \in Nodes] == Own(n) \o Below(n, Preorder)
=============================================================================
