----------------------------- MODULE MCFairQueue -----------------------------
(* FairQueue for TLC: two handlers share a client id.                      *)
EXTENDS FairQueue, TLC

CONSTANTS h1, h2, h3, a, b

SharedId == h1 :> a @@ h2 :> a @@ h3 :> b
=============================================================================
