------------------------------ MODULE StoreClient ------------------------------
(***************************************************************************)
(* What the DockerClient promises to the rest of the plugin: it changes    *)
(* the store one entry at a time and only while nobody holds the store's   *)
(* lock, and the process id it records for a container is one the daemon   *)
(* reported for that same container, in the answer it fetched last.  How   *)
(* it learns of changes (events, listing) does not show.  Module           *)
(* DockerClient implements this specification; module Plugin is built on   *)
(* it.                                                                     *)
(***************************************************************************)
EXTENDS Docker, Store

VARIABLE fetched   \* the container inspected last, with the process id reported

Nothing == [c |-> Nobody, pid |-> NoPid]

clientPromise == <<dockerVars, storeVars, fetched>>

ClientInit ==
  /\ DockerInit
  /\ NewStore
  /\ fetched = Nothing

\* The daemon changes a container, whether it announces that or not.
Daemon(c) ==
  /\ MarkDead(c) \/ \E status \in AnnouncedStatus : Announced(c, status)
  /\ UNCHANGED <<storeVars, fetched>>

\* InspectContainer, of a container that was listed or announced; one that no
\* longer exists has no process id.
Fetch(c) ==
  /\ dock[c] # "new"
  /\ fetched' = [c |-> c, pid |-> IF Exists(c) THEN dockPid[c] ELSE NoPid]
  /\ UNCHANGED <<dockerVars, storeVars>>

\* Mutant of Record: a destroyed container is recorded, not deleted.
RecordDestroyed ==
  /\ fetched.c \in Containers
  /\ \E s \in State : SetContainer(fetched.c, [State |-> s, PID |-> fetched.pid])
  /\ fetched' = Nothing
  /\ UNCHANGED dockerVars

\* updateContainer records or deletes the entry of the container it fetched.
Record ==
  /\ fetched.c \in Containers
  /\ \/ DeleteContainer(fetched.c)
     \/ \E s \in State \ {"Destroyed"} :
          SetContainer(fetched.c, [State |-> s, PID |-> fetched.pid])
  /\ fetched' = Nothing
  /\ UNCHANGED dockerVars

\* The process dies and starts again with an empty store.
Crash ==
  /\ containers' = [c \in Containers |-> Absent]
  /\ locked' = FALSE
  /\ fetched' = Nothing
  /\ UNCHANGED dockerVars

ClientNext ==
  \/ \E c \in Containers : Daemon(c) \/ Fetch(c)
  \/ Record
  \/ Crash

ClientSpec == ClientInit /\ [][ClientNext]_clientPromise
===============================================================================
