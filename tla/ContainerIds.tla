----------------------------- MODULE ContainerIds -----------------------------
(***************************************************************************)
(* The values the plugin, the daemon and the store have in common:         *)
(* container ids and process ids.                                          *)
(***************************************************************************)
EXTENDS Naturals

CONSTANTS
  Containers,   \* container ids
  Pids,         \* process ids the kernel hands out
  Nobody        \* stands for "no container"

\* A process id is a positive number: docker reports Pid 0 for "no process".
ASSUME PidsAssumption == Pids \subseteq Nat \ {0}

ASSUME NobodyAssumption == Nobody \notin Containers

NoPid == 0
===============================================================================
