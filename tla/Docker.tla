-------------------------------- MODULE Docker --------------------------------
(***************************************************************************)
(* The Docker daemon as the plugin sees it: for every container the status *)
(* and the main process id that InspectContainer reports.  The daemon is   *)
(* not part of the repository, so this module says only what docker.go,    *)
(* tc.go and report.go rely on: which states a container goes through,     *)
(* which event announces each change, and that two live containers never   *)
(* share a process id, whereas an id is free for reuse once its process is *)
(* gone.  Container ids are never reused: "gone" is final.                 *)
(***************************************************************************)
EXTENDS ContainerIds

CONSTANT MaxChanges   \* bound on the changes one container goes through

ASSUME MaxChangesAssumption == MaxChanges \in Nat

VARIABLES
  dock,      \* dock[c]: status of container c
  dockPid,   \* dockPid[c]: process id of its main process, NoPid if it has none
  ver        \* ver[c]: number of announced changes of c so far

dockerVars == <<dock, dockPid, ver>>

\* "new": not created yet; "oom": exited with the OOMKilled flag set;
\* "gone": removed, InspectContainer answers NoSuchContainer.
DockStatus == {"new", "created", "running", "paused", "restarting",
               "exited", "oom", "dead", "gone"}

Exists(c) == dock[c] \notin {"new", "gone"}

FreePids == Pids \ {dockPid[c] : c \in Containers}

DockerTypeOK ==
  /\ dock \in [Containers -> DockStatus]
  /\ dockPid \in [Containers -> Pids \cup {NoPid}]
  /\ ver \in [Containers -> 0..MaxChanges]

\* Any mixture of containers may exist when the plugin starts; a process id
\* belongs to at most one of them.
DockerInit ==
  /\ dock \in [Containers -> {"new", "running", "exited"}]
  /\ dockPid \in [Containers -> Pids \cup {NoPid}]
  /\ \A c \in Containers : (dock[c] = "running") <=> (dockPid[c] # NoPid)
  /\ \A c, d \in Containers :
       dockPid[c] = dockPid[d] /\ dockPid[c] # NoPid => c = d
  /\ ver = [c \in Containers |-> 0]

\* Container c moves from one of the statuses in from to status to, with p as
\* its process id afterwards.
Change(c, from, to, p) ==
  /\ ver[c] < MaxChanges
  /\ dock[c] \in from
  /\ dock' = [dock EXCEPT ![c] = to]
  /\ dockPid' = [dockPid EXCEPT ![c] = p]
  /\ ver' = [ver EXCEPT ![c] = @ + 1]

Create(c) == Change(c, {"new"}, "created", NoPid)

StartContainer(c) ==
  \E p \in FreePids :
    Change(c, {"created", "exited", "oom", "restarting"}, "running", p)

Die(c) ==
  \E to \in {"exited", "oom", "restarting"} : Change(c, {"running"}, to, NoPid)

Pause(c) == Change(c, {"running"}, "paused", dockPid[c])

Unpause(c) == Change(c, {"paused"}, "running", dockPid[c])

Destroy(c) == Change(c, {"created", "exited", "oom", "dead"}, "gone", NoPid)

\* A removal that fails half way leaves the container "dead"; no event says so.
MarkDead(c) ==
  /\ dock[c] \in {"exited", "oom"}
  /\ dock' = [dock EXCEPT ![c] = "dead"]
  /\ UNCHANGED <<dockPid, ver>>

AnnouncedStatus == {"create", "destroy", "start", "unpause", "die", "pause"}

\* The change of c that an event with this status announces.
Announced(c, status) ==
  \/ status = "create"  /\ Create(c)
  \/ status = "start"   /\ StartContainer(c)
  \/ status = "die"     /\ Die(c)
  \/ status = "pause"   /\ Pause(c)
  \/ status = "unpause" /\ Unpause(c)
  \/ status = "destroy" /\ Destroy(c)
===============================================================================
