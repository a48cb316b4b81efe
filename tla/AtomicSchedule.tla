---------------------------- MODULE AtomicSchedule ----------------------------
(***************************************************************************)
(* What the scheduler promises to the shards of a build (main.py:53-86):   *)
(* the tests are divided among the shards at one moment, when the first    *)
(* request is answered, and every request is answered from that division,  *)
(* once and for all.  How long a request takes, what it reads and which    *)
(* other requests compute at the same time does not show.                  *)
(***************************************************************************)
CONSTANTS Tests, Shards, NoSchedule

VARIABLES
  division,   \* the tests of every shard, or NoSchedule
  told,       \* the shards that have been answered
  share       \* share[s]: what shard s was told

vars == <<division, told, share>>

\* Every test goes to exactly one shard.
Divisions ==
  {d \in [Shards -> SUBSET Tests] :
     \A t \in Tests : \E i \in Shards : t \in d[i] /\ \A j \in Shards \ {i} : t \notin d[j]}

Init ==
  /\ division = NoSchedule
  /\ told = {}
  /\ share = [s \in Shards |-> {}]

\* The request of s is answered.
Tell(s) ==
  /\ s \notin told
  /\ IF division = NoSchedule THEN division' \in Divisions ELSE division' = division
  /\ told' = told \cup {s}
  /\ share' = [share EXCEPT ![s] = division'[s]]

Next == \E s \in Shards : Tell(s)

Spec == Init /\ [][Next]_vars
===============================================================================
