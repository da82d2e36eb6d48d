--------------------------- MODULE MCBenchExchange ---------------------------
(* A step on a console that is not listened to, beside two that are. *)
EXTENDS BenchExchange

MCListen == <<"dut", "power">>
OneListened == <<"dut">>
Chatter  == [dut |-> 3, power |-> 0]
MCSteps  == <<"bench">>
==============================================================================
