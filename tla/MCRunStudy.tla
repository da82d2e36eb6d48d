----------------------------- MODULE MCRunStudy -----------------------------
EXTENDS RunStudy, TLC

CONSTANTS v1, v2, c1, c2

\* Every reflash, with the versions that matter to it; one with the override.
Ask(reflash, allow, bench, firmware) ==
  [reflash |-> reflash, project |-> TRUE, allow |-> allow, bench |-> bench, firmware |-> firmware]

MCRequests ==
  {Ask({}, FALSE, v1, AnyVersion), Ask({"bench"}, FALSE, v1, AnyVersion),
   Ask({"bench"}, FALSE, AnyVersion, AnyVersion),
   Ask({"dut"}, FALSE, AnyVersion, v1), Ask(Boards, FALSE, v1, v1), Ask(Boards, TRUE, v1, v1),
   [Ask({"dut"}, FALSE, AnyVersion, AnyVersion) EXCEPT !.project = FALSE]}

Symmetry == Permutations(Calls)
=============================================================================
