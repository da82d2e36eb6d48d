---------------------------- MODULE MCBuildFlash -----------------------------
(* Two processes that build the same key: one call each. *)
EXTENDS BuildFlash, TLC

CONSTANTS c1, c2, p1, p2, k1

MCHome == (c1 :> p1) @@ (c2 :> p2)
MCKeyOf == [c \in {c1, c2} |-> k1]
==============================================================================
