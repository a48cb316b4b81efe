------------------------------- MODULE MCBuild -------------------------------
(* An instance of module Build: three tests, the second on two hosts. *)
EXTENDS Build

MCParallelism == [t \in Tests |-> IF t = 2 THEN 2 ELSE 1]
==============================================================================
