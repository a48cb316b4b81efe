------------------------------- MODULE Reporter -------------------------------
(***************************************************************************)
(* The Reporter (report.go): /report walks the store under its lock and    *)
(* asks the daemon about every running or stopped container on the way;    *)
(* /control looks up the process id a button's handler will work on.       *)
(***************************************************************************)
EXTENDS Docker, Store, Requests

ReportRequest(r) ==
  /\ Arrive(r, "report", Nobody, "lock")
  /\ UNCHANGED storeVars

\* getPod finds the container; whether its name parses as that of a pod does
\* not matter, since the error is ignored.
PodFound(c) == Exists(c)

\* The node of a running or stopped container; its figures (getStatusByPod) are
\* drawn at random.
Node(c) == [c |-> c, dead |-> containers[c].State = "Stopped"]

ForEachBegins(r) ==
  /\ At(r, "lock")
  /\ ForEachLock
  /\ req' = [req EXCEPT ![r].pc = "foreach",
                        ![r].todo = {c \in Containers : Found(c)}]

\* Created containers get no node.
SkipNode(r, c) ==
  /\ At(r, "foreach") /\ c \in req[r].todo
  /\ containers[c].State = "Created"
  /\ req' = [req EXCEPT ![r].todo = @ \ {c}]
  /\ UNCHANGED storeVars

AddNode(r, c) ==
  /\ At(r, "foreach") /\ c \in req[r].todo
  /\ containers[c].State # "Created"
  /\ PodFound(c)
  /\ req' = [req EXCEPT ![r].todo = @ \ {c}, ![r].nodes = @ \cup {Node(c)}]
  /\ UNCHANGED storeVars

\* Mutant of NodePanics: the lock is not given back by a deferred call.
NodePanicsLocked(r, c) ==
  /\ At(r, "foreach") /\ c \in req[r].todo
  /\ containers[c].State # "Created"
  /\ Finish(r, "panic")
  /\ UNCHANGED storeVars

\* getPod only builds an error value when InspectContainer fails, and reads
\* the Name of a nil container.  The deferred Unlock runs.
NodePanics(r, c) ==
  /\ At(r, "foreach") /\ c \in req[r].todo
  /\ containers[c].State # "Created"
  /\ Finish(r, "panic")
  /\ ForEachUnlock

ForEachEnds(r) ==
  /\ At(r, "foreach") /\ req[r].todo = {}
  /\ Finish(r, "ok")
  /\ ForEachUnlock

ControlRequest(r, kind, c) ==
  /\ Arrive(r, kind, c, "lookup")
  /\ UNCHANGED storeVars

\* The body is not JSON, or the node id lacks its suffix.
ControlRejected(r) ==
  /\ At(r, "idle")
  /\ Finish(r, "error")
  /\ UNCHANGED storeVars

\* GetHandler: Store.Container waits for the lock; the handler it returns
\* keeps the process id of this moment.
GetHandler(r) ==
  /\ At(r, "lookup")
  /\ ~locked
  /\ IF Found(req[r].c) /\ req[r].kind # "unknown"
     THEN req' = [req EXCEPT ![r].pc = "run", ![r].pid = containers[req[r].c].PID]
     ELSE Finish(r, "error")
  /\ UNCHANGED storeVars

Iterate(r) ==
  \/ \E c \in Containers : SkipNode(r, c) \/ AddNode(r, c) \/ NodePanics(r, c)
  \/ ForEachEnds(r)
===============================================================================
