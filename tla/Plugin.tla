-------------------------------- MODULE Plugin --------------------------------
(***************************************************************************)
(* The plugin process (main.go): the client that keeps the store (as       *)
(* specified by StoreClient), the report and control requests served       *)
(* concurrently, and the daemon and kernel they act on.                    *)
(***************************************************************************)
EXTENDS StoreClient, TrafficControl, Reporter

VARIABLE
  \* History variable: read by the properties, never by the actions.
  right   \* right[r]: the process id that r looked up was its container's, and is still

vars == <<clientPromise, req, qdisc, right>>

Init ==
  /\ ClientInit
  /\ RequestsInit
  /\ TrafficInit
  /\ right = [r \in Requests |-> FALSE]

\* The daemon changes c.  When its process ends, so does its namespace.
DaemonStep(c) ==
  /\ Daemon(c)
  /\ IF dockPid'[c] # dockPid[c] /\ dockPid[c] # NoPid
     THEN /\ NamespaceGone(c)
          /\ right' = [r \in Requests |-> right[r] /\ req[r].c # c]
     ELSE UNCHANGED <<req, qdisc, right>>

ClientStep ==
  /\ Record \/ \E c \in Containers : Fetch(c)
  /\ UNCHANGED <<req, qdisc, right>>

\* The client goroutine dies of a panic and takes the process with it: the
\* requests are lost, what tc has set in the kernel stays.
ProcessCrash ==
  /\ Crash
  /\ req' = [r \in Requests |-> NoRequest]
  /\ right' = [r \in Requests |-> FALSE]
  /\ UNCHANGED qdisc

NewRequest(r) ==
  /\ \/ ReportRequest(r)
     \/ ControlRejected(r)
     \/ \E kind \in Controls, c \in Containers : ControlRequest(r, kind, c)
  /\ right' = [right EXCEPT ![r] = FALSE]
  /\ UNCHANGED <<dockerVars, fetched, qdisc>>

Lookup(r) ==
  /\ GetHandler(r)
  /\ right' = [right EXCEPT ![r] =
                 containers[req[r].c].PID = dockPid[req[r].c] /\ dockPid[req[r].c] # NoPid]
  /\ UNCHANGED <<dockerVars, fetched, qdisc>>

ReportBegins(r) ==
  /\ ForEachBegins(r)
  /\ UNCHANGED <<dockerVars, fetched, qdisc, right>>

ReportStep(r) ==
  /\ Iterate(r)
  /\ UNCHANGED <<dockerVars, fetched, qdisc, right>>

ControlStep(r) ==
  /\ Handler(r)
  /\ UNCHANGED <<dockerVars, storeVars, fetched, right>>

QueryStep(r) ==
  /\ InfluxAnswers(r)
  /\ UNCHANGED <<dockerVars, storeVars, fetched, right>>

CloseRequest(r) ==
  /\ Close(r)
  /\ UNCHANGED <<dockerVars, storeVars, fetched, qdisc, right>>

Next ==
  \/ \E c \in Containers : DaemonStep(c)
  \/ ClientStep
  \/ ProcessCrash
  \/ \E r \in Requests :
       \/ NewRequest(r) \/ CloseRequest(r) \/ Lookup(r)
       \/ ReportBegins(r) \/ ReportStep(r)
       \/ ControlStep(r) \/ QueryStep(r)

Spec == Init /\ [][Next]_vars

(***************************************************************************)
(* Goroutines run, tc and the daemon answer, and whoever waits for the     *)
(* store's mutex gets it in turn (strong fairness: others may take it in   *)
(* between).  An Influx query has no timeout and may never be answered.    *)
(***************************************************************************)
Fairness ==
  /\ \A r \in Requests :
       /\ WF_vars(ReportStep(r)) /\ WF_vars(ControlStep(r))
       /\ SF_vars(ReportBegins(r)) /\ SF_vars(Lookup(r))
  /\ SF_vars(Record /\ UNCHANGED <<req, qdisc, right>>)

FairSpec == Spec /\ Fairness

-------------------------------------------------------------------------------
TypeOK ==
  /\ DockerTypeOK
  /\ StoreTypeOK
  /\ fetched \in [c : Containers \cup {Nobody}, pid : Pids \cup {NoPid}]
  /\ req \in [Requests -> Request]
  /\ \A r \in Requests : At(r, "lookup") \/ At(r, "run") => req[r].c \in Containers
  /\ qdisc \in [Namespaces -> NetemSettings]
  /\ right \in [Requests -> BOOLEAN]

\* The store's lock is held exactly while one report walks the store: no path
\* through the callback, its panic included, leaves it locked for ever, and
\* no two reports walk at once.
LockOwner ==
  /\ locked <=> \E r \in Requests : At(r, "foreach")
  /\ \A r, s \in Requests : At(r, "foreach") /\ At(s, "foreach") => r = s

\* A report shows the store of one instant, although containers are inspected
\* one by one while the client has updates to record: for every container
\* visited so far the report has the node that the store's present entry
\* calls for, dead or alive, and no node for a created one.
Snapshot ==
  \A r \in Requests : At(r, "foreach") =>
    req[r].nodes =
      {Node(c) :
         c \in {d \in Containers \ req[r].todo :
                  containers[d].State \in {"Running", "Stopped"}}}

\* tc runs in the namespace of the container whose button was pressed, and
\* never in that of another container or of the host, provided the process id
\* in the store was right at the lookup and that process has not ended since.
RightTarget ==
  \A r \in Requests : right[r] /\ req[r].ns # Nobody => req[r].ns = req[r].c

\* The inductive form of RightTarget: two live containers never share a
\* process id, and between lookup and opening the namespace the id held is
\* still the container's.
UniquePids ==
  \A c, d \in Containers : dockPid[c] = dockPid[d] /\ dockPid[c] # NoPid => c = d

TargetInv ==
  \A r \in Requests :
    /\ req[r].pc \notin {"replace", "change", "nsid"} => req[r].ns = Nobody
    /\ right[r] /\ At(r, "run") =>
         req[r].pid = dockPid[req[r].c] /\ req[r].pid # NoPid
    /\ right[r] /\ req[r].ns # Nobody => req[r].ns = req[r].c

\* The inductive form of Snapshot: a report starts empty, and what it has yet to
\* visit is in the store.
WalkInv ==
  \A r \in Requests :
    /\ At(r, "lock") => req[r].nodes = {}
    /\ At(r, "foreach") => \A c \in req[r].todo : Found(c)

\* Every report and every scissor or clear request comes to an end, and so
\* does the client's wait for the lock, however many reports there are.
RequestsEnd ==
  \A r \in Requests :
    (req[r].kind \in {"report", "loss", "clear"}) ~> (req[r].pc \in {"done", "idle"})

ClientRecords == (fetched.c \in Containers) ~> (fetched = Nothing)

\* README.md:12 says the plugin "will respond to GET /report request": the
\* report handler never panics.
ReportAnswered ==
  \A r \in Requests : req[r].kind = "report" => req[r].result # "panic"
===============================================================================
