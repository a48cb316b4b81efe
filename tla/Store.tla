--------------------------------- MODULE Store ---------------------------------
(***************************************************************************)
(* The container store (store.go): a map from container id to the state    *)
(* and process id last recorded, behind one mutex.  Container,             *)
(* SetContainer and DeleteContainer lock, do one map operation and unlock, *)
(* so each is one step that waits for the lock; ForEach keeps the lock     *)
(* while the caller's callback runs, so it is a step that takes the lock   *)
(* and a step that gives it back.                                          *)
(***************************************************************************)
EXTENDS ContainerIds

VARIABLES
  containers,   \* containers[c]: the entry for c, or Absent
  locked        \* Store.lock is held by a ForEach in progress

storeVars == <<containers, locked>>

State == {"Created", "Running", "Stopped", "Destroyed"}

\* A destroyed container is deleted, so no entry says "Destroyed".
Entry == [State : State \ {"Destroyed"}, PID : Pids \cup {NoPid}]

\* The value of containers[c] when the map has no key c.
Absent == [State |-> "none", PID |-> NoPid]

StoreTypeOK ==
  /\ containers \in [Containers -> Entry \cup {Absent}]
  /\ locked \in BOOLEAN

NewStore ==
  /\ containers = [c \in Containers |-> Absent]
  /\ locked = FALSE

Found(c) == containers[c] # Absent

\* Mutant of SetContainer: the lock is not taken.
SetContainerUnlocked(c, entry) ==
  /\ containers' = [containers EXCEPT ![c] = entry]
  /\ UNCHANGED locked

SetContainer(c, entry) ==
  /\ ~locked
  /\ containers' = [containers EXCEPT ![c] = entry]
  /\ UNCHANGED locked

DeleteContainer(c) ==
  /\ ~locked
  /\ containers' = [containers EXCEPT ![c] = Absent]
  /\ UNCHANGED locked

ForEachLock ==
  /\ ~locked
  /\ locked' = TRUE
  /\ UNCHANGED containers

\* Mutant of ForEachUnlock: the lock is not given back.
ForEachUnlockForgotten == UNCHANGED storeVars

ForEachUnlock ==
  /\ locked' = FALSE
  /\ UNCHANGED containers
===============================================================================
