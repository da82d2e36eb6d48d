------------------------------ MODULE MCLedger -------------------------------
(* Two calls, of one server or of two processes; they are interchangeable. *)
EXTENDS Ledger, TLC

CONSTANTS c1, c2

MCCallers == {c1, c2}
Interchangeable == Permutations(MCCallers)
==============================================================================
