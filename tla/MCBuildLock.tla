----------------------------- MODULE MCBuildLock -----------------------------
(* Three build calls of one key in two processes, one of them sharing a home. *)
EXTENDS BuildLock, TLC

CONSTANTS c1, c2, c3, p1, p2, k1

MCHome == (c1 :> p1) @@ (c2 :> p1) @@ (c3 :> p2)
MCKeyOf == [c \in {c1, c2, c3} |-> k1]
==============================================================================
