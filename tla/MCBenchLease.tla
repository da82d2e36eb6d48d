----------------------------- MODULE MCBenchLease -----------------------------
(* A server with its keepalive beside one tool call, and a command-line call. *)
EXTENDS BenchLease

CONSTANTS server, shell, keeper, tool, command

MCHome == [th \in Threads |-> IF th = command THEN shell ELSE server]
==============================================================================
