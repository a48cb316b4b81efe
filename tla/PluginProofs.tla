----------------------------- MODULE PluginProofs -----------------------------
(***************************************************************************)
(* Theorems about Plugin, for any number of containers, process ids and    *)
(* concurrent requests.                                                    *)
(***************************************************************************)
EXTENDS Plugin, TLAPS

USE PidsAssumption, NobodyAssumption, MaxChangesAssumption, HostAssumption

\* A finished or a fresh request is well typed.
LEMMA FinishType ==
  ASSUME NEW r \in Requests, req[r] \in Request,
         NEW result \in {"none", "ok", "error", "panic"}
  PROVE  /\ NoRequest \in Request
         /\ [NoRequest EXCEPT !.pc = "done", !.kind = req[r].kind, !.result = result] \in Request
  BY DEF Request, NoRequest, RequestPc, NoPid

LEMMA TypeInit == Init => TypeOK
  <1> SUFFICES ASSUME Init PROVE TypeOK
    OBVIOUS
  <1>1. DockerTypeOK
    BY DEF Init, ClientInit, DockerInit, DockerTypeOK, DockStatus
  <1>2. StoreTypeOK
    BY DEF Init, ClientInit, NewStore, StoreTypeOK
  <1>3. fetched \in [c : Containers \cup {Nobody}, pid : Pids \cup {NoPid}]
    BY DEF Init, ClientInit, Nothing
  <1>4. NoRequest \in Request
    BY DEF NoRequest, Request, RequestPc, NoPid
  <1>5. /\ req \in [Requests -> Request] /\ right \in [Requests -> BOOLEAN]
        /\ \A r \in Requests : req[r].pc = "idle"
    BY <1>4 DEF Init, RequestsInit, NoRequest
  <1>6. qdisc \in [Namespaces -> NetemSettings]
    BY DEF Init, TrafficInit, NoNetem, NetemSettings
  <1> QED
    BY <1>1, <1>2, <1>3, <1>5, <1>6 DEF TypeOK, At

\* A change of a container keeps the daemon's state well typed and process ids
\* unique, and changes no other container.
LEMMA DaemonType ==
  ASSUME DockerTypeOK, UniquePids, NEW c \in Containers, Daemon(c)
  PROVE  /\ DockerTypeOK'
         /\ UniquePids'
         /\ \A d \in Containers \ {c} : dockPid'[d] = dockPid[d]
         /\ UNCHANGED <<storeVars, fetched>>
  <1>1. UNCHANGED <<storeVars, fetched>>
    BY DEF Daemon
  <1>2. ASSUME NEW from, NEW to \in DockStatus, NEW p \in Pids \cup {NoPid},
               Change(c, from, to, p),
               p = NoPid \/ p = dockPid[c] \/ p \in FreePids
        PROVE  /\ DockerTypeOK' /\ UniquePids'
               /\ \A d \in Containers \ {c} : dockPid'[d] = dockPid[d]
    <2>1. DockerTypeOK'
      BY <1>2 DEF Change, DockerTypeOK
    <2>2. dockPid'[c] = p /\ \A d \in Containers \ {c} : dockPid'[d] = dockPid[d]
      BY <1>2 DEF Change, DockerTypeOK
    <2>3. p # NoPid => \A d \in Containers \ {c} : dockPid[d] # p
      BY <1>2 DEF FreePids, UniquePids
    <2> QED
      BY <2>1, <2>2, <2>3 DEF UniquePids
  <1>3. CASE MarkDead(c)
    BY <1>1, <1>3 DEF MarkDead, DockerTypeOK, DockStatus, UniquePids
  <1>4. CASE Create(c) \/ Destroy(c)
    BY <1>1, <1>2, <1>4 DEF Create, Destroy, DockStatus
  <1>5. CASE StartContainer(c)
    BY <1>1, <1>2, <1>5 DEF StartContainer, FreePids, DockStatus
  <1>6. CASE Die(c)
    <2>1. {"exited", "oom", "restarting"} \subseteq DockStatus
      BY DEF DockStatus
    <2> QED
      BY <1>1, <1>2, <1>6, <2>1 DEF Die
  <1>7. CASE Pause(c) \/ Unpause(c)
    BY <1>1, <1>2, <1>7 DEF Pause, Unpause, DockStatus, DockerTypeOK
  <1> QED
    BY <1>3, <1>4, <1>5, <1>6, <1>7 DEF Daemon, Announced
\* Every step of a request leaves the other requests alone and itself well
\* typed; so do the netem settings it makes.
LEMMA RequestType ==
  ASSUME TypeOK, NEW r \in Requests,
         \/ NewRequest(r) \/ CloseRequest(r) \/ Lookup(r) \/ ReportBegins(r)
         \/ ReportStep(r) \/ ControlStep(r) \/ QueryStep(r)
  PROVE  /\ req' \in [Requests -> Request]
         /\ \A s \in Requests \ {r} : req'[s] = req[s]
         /\ req'[r].pc \in {"lookup", "run"} => req'[r].c \in Containers
  <1> DEFINE Goal == /\ req' \in [Requests -> Request]
                     /\ \A s \in Requests \ {r} : req'[s] = req[s]
                     /\ req'[r].pc \in {"lookup", "run"} => req'[r].c \in Containers
  <1>1. req \in [Requests -> Request] /\ req[r] \in Request
    BY DEF TypeOK
  <1>2. ASSUME NEW q \in Request, req' = [req EXCEPT ![r] = q],
               q.pc \in {"lookup", "run"} => q.c \in Containers
        PROVE Goal
    BY <1>1, <1>2
  <1>3. ASSUME NEW result \in {"none", "ok", "error", "panic"}, Finish(r, result) PROVE Goal
    BY <1>1, <1>2, <1>3, FinishType DEF Finish, NoRequest
  <1>4. ASSUME NEW pc \in RequestPc \ {"lookup", "run"}, Proceed(r, pc) PROVE Goal
    BY <1>1, <1>4 DEF Proceed, Request
  <1>5. ASSUME NEW kind \in Controls \cup {"none", "report"}, NEW c \in Containers \cup {Nobody},
               NEW pc \in RequestPc, Arrive(r, kind, c, pc),
               pc \in {"lookup", "run"} => c \in Containers
        PROVE Goal
    <2>1. [NoRequest EXCEPT !.pc = pc, !.kind = kind, !.c = c] \in Request
      BY DEF NoRequest, Request, NoPid
    <2> QED
      BY <1>2, <1>5, <2>1 DEF Arrive, NoRequest
  <1>6. CASE NewRequest(r)
    BY <1>3, <1>5, <1>6 DEF NewRequest, ReportRequest, ControlRejected, ControlRequest, RequestPc
  <1>7. CASE CloseRequest(r)
    <2>1. NoRequest \in Request
      BY <1>1, FinishType
    <2> QED
      BY <1>2, <1>7, <2>1 DEF CloseRequest, Close, NoRequest
  <1>8. CASE Lookup(r)
    <2>1. CASE Found(req[r].c) /\ req[r].kind # "unknown"
      <3>1. req[r].c \in Containers
        BY <1>8 DEF Lookup, GetHandler, TypeOK
      <3>2. containers[req[r].c].PID \in Pids \cup {NoPid}
        BY <2>1, <3>1 DEF TypeOK, StoreTypeOK, Entry, Found
      <3> QED
        BY <1>1, <1>8, <2>1, <3>1, <3>2 DEF Lookup, GetHandler, Request, RequestPc
    <2>2. CASE ~(Found(req[r].c) /\ req[r].kind # "unknown")
      BY <1>3, <1>8, <2>2 DEF Lookup, GetHandler
    <2> QED
      BY <2>1, <2>2
  <1>9. CASE ReportBegins(r)
    BY <1>1, <1>9 DEF ReportBegins, ForEachBegins, Request, RequestPc
  <1>10. CASE ReportStep(r)
    <2>1. ASSUME NEW c \in Containers, SkipNode(r, c) PROVE Goal
      BY <1>1, <2>1 DEF SkipNode, Request, At
    <2>2. ASSUME NEW c \in Containers, AddNode(r, c) PROVE Goal
      <3>1. Node(c) \in [c : Containers, dead : BOOLEAN]
        BY DEF Node
      <3> QED
        BY <1>1, <2>2, <3>1 DEF AddNode, Request, At
    <2>3. ASSUME NEW c \in Containers, NodePanics(r, c) PROVE Goal
      BY <1>3, <2>3 DEF NodePanics
    <2>4. CASE ForEachEnds(r)
      BY <1>3, <2>4 DEF ForEachEnds
    <2> QED
      BY <1>10, <2>1, <2>2, <2>3, <2>4 DEF ReportStep, Iterate
  <1>11. CASE ControlStep(r)
    <2>1. CASE LatencyNSID(r)
      BY <1>3, <1>4, <2>1 DEF LatencyNSID, RequestPc
    <2>2. CASE OpenNetNS(r)
      <3>1. ASSUME NEW n \in NamespacesOf(req[r].pid) PROVE n \in Namespaces
        BY DEF NamespacesOf, Namespaces
      <3>2. ASSUME NEW n \in Namespaces, req' = [req EXCEPT ![r].pc = "replace", ![r].ns = n]
            PROVE Goal
        BY <1>1, <3>2 DEF Request, RequestPc
      <3> QED
        BY <1>3, <2>2, <3>1, <3>2 DEF OpenNetNS, Failed
    <2>3. CASE QdiscReplace(r)
      BY <1>3, <1>4, <2>3 DEF QdiscReplace, Failed, RequestPc
    <2>4. CASE QdiscChange(r)
      BY <1>3, <2>4 DEF QdiscChange
    <2>5. CASE ClearNSID(r)
      BY <1>3, <2>5 DEF ClearNSID
    <2> QED
      BY <1>11, <2>1, <2>2, <2>3, <2>4, <2>5 DEF ControlStep, Handler
  <1>12. CASE QueryStep(r)
    BY <1>3, <1>12 DEF QueryStep, InfluxAnswers, ParseAttribute
  <1> QED
    BY <1>6, <1>7, <1>8, <1>9, <1>10, <1>11, <1>12
\* The types hold after every step that starts from well-typed variables and
\* unique process ids.
LEMMA TypeStep == TypeOK /\ UniquePids /\ [Next]_vars => TypeOK' /\ UniquePids'
  <1> SUFFICES ASSUME TypeOK, UniquePids, [Next]_vars PROVE TypeOK' /\ UniquePids'
    OBVIOUS
  <1>1. ASSUME NEW c \in Containers, DaemonStep(c) PROVE TypeOK' /\ UniquePids'
    <2>1. DockerTypeOK' /\ UniquePids' /\ UNCHANGED <<storeVars, fetched>>
      BY <1>1, DaemonType DEF DaemonStep, TypeOK
    <2>2. CASE NamespaceGone(c) /\ right' = [r \in Requests |-> right[r] /\ req[r].c # c]
      <3>1. ASSUME NEW r \in Requests
            PROVE  /\ req'[r] \in Request
                   /\ req'[r].pc = req[r].pc /\ req'[r].c = req[r].c
        <4>1. req[r] \in Request
          BY DEF TypeOK
        <4>2. [req[r] EXCEPT !.ns = Nobody] \in Request
          BY <4>1 DEF Request
        <4>3. req'[r] = IF req[r].ns = c THEN [req[r] EXCEPT !.ns = Nobody] ELSE req[r]
          BY <2>2 DEF NamespaceGone
        <4> QED
          BY <4>1, <4>2, <4>3 DEF Request
      <3>2. req' \in [Requests -> Request] /\ right' \in [Requests -> BOOLEAN]
        BY <2>2, <3>1 DEF NamespaceGone
      <3>3. qdisc' \in [Namespaces -> NetemSettings]
        BY <2>2 DEF NamespaceGone, TypeOK, NoNetem, NetemSettings
      <3> QED
        BY <2>1, <3>1, <3>2, <3>3 DEF TypeOK, StoreTypeOK, storeVars, At
    <2>3. CASE UNCHANGED <<req, qdisc, right>>
      BY <2>1, <2>3 DEF TypeOK, StoreTypeOK, storeVars, At
    <2> QED
      BY <1>1, <2>2, <2>3 DEF DaemonStep
  <1>2. CASE ClientStep
    <2>1. UNCHANGED <<req, qdisc, right, dockerVars>>
      BY <1>2 DEF ClientStep, Record, Fetch
    <2>2. CASE Record
      <3>1. fetched.c \in Containers /\ fetched.pid \in Pids \cup {NoPid}
        BY <2>2 DEF Record, TypeOK
      <3>2. \A s \in State \ {"Destroyed"} : [State |-> s, PID |-> fetched.pid] \in Entry
        BY <3>1 DEF Entry
      <3>3. StoreTypeOK'
        BY <2>2, <3>1, <3>2 DEF Record, SetContainer, DeleteContainer, TypeOK, StoreTypeOK
      <3> QED
        BY <2>1, <2>2, <3>3
           DEF Record, Nothing, TypeOK, DockerTypeOK, dockerVars, UniquePids, At
    <2>3. ASSUME NEW c \in Containers, Fetch(c) PROVE TypeOK' /\ UniquePids'
      <3>1. (IF Exists(c) THEN dockPid[c] ELSE NoPid) \in Pids \cup {NoPid}
        BY DEF TypeOK, DockerTypeOK
      <3> QED
        BY <2>1, <2>3, <3>1 DEF Fetch, TypeOK, DockerTypeOK, StoreTypeOK,
                                dockerVars, storeVars, UniquePids, At
    <2> QED
      BY <1>2, <2>2, <2>3 DEF ClientStep
  <1>3. CASE ProcessCrash
    <2>1. NoRequest \in Request
      BY DEF NoRequest, Request, RequestPc, NoPid
    <2>2. /\ req' \in [Requests -> Request] /\ right' \in [Requests -> BOOLEAN]
          /\ \A r \in Requests : req'[r].pc = "idle"
      BY <1>3, <2>1 DEF ProcessCrash, NoRequest
    <2>3. StoreTypeOK'
      BY <1>3 DEF ProcessCrash, Crash, StoreTypeOK
    <2> QED
      BY <1>3, <2>2, <2>3 DEF ProcessCrash, Crash, Nothing, TypeOK, DockerTypeOK, dockerVars,
                              UniquePids, At
  <1>4. ASSUME NEW r \in Requests,
               \/ NewRequest(r) \/ CloseRequest(r) \/ Lookup(r) \/ ReportBegins(r)
               \/ ReportStep(r) \/ ControlStep(r) \/ QueryStep(r)
        PROVE  TypeOK' /\ UniquePids'
    <2>1. /\ req' \in [Requests -> Request]
          /\ \A s \in Requests : At(s, "lookup")' \/ At(s, "run")' => req'[s].c \in Containers
      BY <1>4, RequestType DEF TypeOK, At
    <2>2. UNCHANGED <<dockerVars, fetched>>
      BY <1>4 DEF NewRequest, CloseRequest, Lookup, ReportBegins, ReportStep, ControlStep,
                  QueryStep
    <2>3. UNCHANGED containers /\ locked' \in BOOLEAN
      BY <1>4 DEF NewRequest, ReportRequest, ControlRejected, ControlRequest, CloseRequest,
                  Lookup, GetHandler, ReportBegins, ForEachBegins, ForEachLock, ReportStep,
                  Iterate, SkipNode, AddNode, NodePanics, ForEachEnds, ForEachUnlock,
                  ControlStep, QueryStep, storeVars, TypeOK, StoreTypeOK
    <2>4. right' \in [Requests -> BOOLEAN]
      BY <1>4 DEF NewRequest, CloseRequest, Lookup, ReportBegins, ReportStep, ControlStep,
                  QueryStep, TypeOK
    <2>5. NoNetem \in NetemSettings /\ LossNetem \in NetemSettings
      BY DEF NoNetem, LossNetem, NetemSettings
    <2>6. qdisc' \in [Namespaces -> NetemSettings]
      <3>1. ASSUME NEW n, NEW netem \in NetemSettings, SetNetem(n, netem)
            PROVE  qdisc' \in [Namespaces -> NetemSettings]
        BY <3>1 DEF SetNetem, TypeOK
      <3>2. CASE UNCHANGED qdisc
        BY <3>2 DEF TypeOK
      <3> QED
        BY <1>4, <2>5, <3>1, <3>2
           DEF NewRequest, CloseRequest, Lookup, ReportBegins, ReportStep, QueryStep,
               ControlStep, Handler, LatencyNSID, OpenNetNS, QdiscReplace, QdiscChange, ClearNSID,
               InfluxAnswers, ParseAttribute
    <2> QED
      BY <2>1, <2>2, <2>3, <2>4, <2>6 DEF TypeOK, DockerTypeOK, StoreTypeOK, dockerVars, UniquePids
  <1>5. CASE UNCHANGED vars
    BY <1>5 DEF vars, clientPromise, dockerVars, storeVars, TypeOK, DockerTypeOK, StoreTypeOK,
                UniquePids, At
  <1> QED
    BY <1>1, <1>2, <1>3, <1>4, <1>5 DEF Next

\* The types of all variables hold in every reachable state of Plugin, and no
\* two containers ever share a process.
THEOREM TypeCorrect == Spec => [](TypeOK /\ UniquePids)
  <1>1. Init => UniquePids
    BY DEF Init, ClientInit, DockerInit, UniquePids
  <1> QED
    BY <1>1, TypeInit, TypeStep, PTL DEF Spec
-------------------------------------------------------------------------------
\* What the steps of request r have in common.
LEMMA RequestFrame ==
  ASSUME NEW r \in Requests,
         \/ NewRequest(r) \/ CloseRequest(r) \/ Lookup(r) \/ ReportBegins(r)
         \/ ReportStep(r) \/ ControlStep(r) \/ QueryStep(r),
         TypeOK
  PROVE  /\ UNCHANGED <<dockPid, containers>>
         /\ \A s \in Requests \ {r} : req'[s] = req[s] /\ right'[s] = right[s]
  <1>1. UNCHANGED containers
    BY DEF NewRequest, ReportRequest, ControlRejected, ControlRequest, CloseRequest,
           Lookup, GetHandler, ReportBegins, ForEachBegins, ForEachLock, ReportStep,
           Iterate, SkipNode, AddNode, NodePanics, ForEachEnds, ForEachUnlock,
           ControlStep, QueryStep, storeVars
  <1>2. UNCHANGED dockPid
    BY DEF NewRequest, CloseRequest, Lookup, ReportBegins, ReportStep, ControlStep, QueryStep,
           dockerVars
  <1>3. \A s \in Requests \ {r} : right'[s] = right[s]
    BY DEF NewRequest, CloseRequest, Lookup, ReportBegins, ReportStep, ControlStep, QueryStep,
           TypeOK
  <1>4. \A s \in Requests \ {r} : req'[s] = req[s]
    BY RequestType
  <1> QED
    BY <1>1, <1>2, <1>3, <1>4

LEMMA TargetStep ==
  ASSUME TypeOK, UniquePids, TargetInv, [Next]_vars
  PROVE  TargetInv'
  <1> DEFINE T(r) == /\ req[r].pc \notin {"replace", "change", "nsid"} => req[r].ns = Nobody
                     /\ right[r] /\ At(r, "run") =>
                          req[r].pid = dockPid[req[r].c] /\ req[r].pid # NoPid
                     /\ right[r] /\ req[r].ns # Nobody => req[r].ns = req[r].c
  <1>1. ASSUME NEW c \in Containers, DaemonStep(c) PROVE TargetInv'
    <2>1. \A d \in Containers \ {c} : dockPid'[d] = dockPid[d]
      BY <1>1, DaemonType DEF DaemonStep, TypeOK
    <2>2. CASE dockPid'[c] # dockPid[c] /\ dockPid[c] # NoPid
      <3>1. ASSUME NEW r \in Requests
            PROVE  /\ req'[r].pc = req[r].pc /\ req'[r].c = req[r].c /\ req'[r].pid = req[r].pid
                   /\ req'[r].ns = IF req[r].ns = c THEN Nobody ELSE req[r].ns
                   /\ right'[r] <=> (right[r] /\ req[r].c # c)
        <4>1. req[r] \in Request
          BY DEF TypeOK
        <4>2. /\ req'[r] = IF req[r].ns = c THEN [req[r] EXCEPT !.ns = Nobody] ELSE req[r]
              /\ right'[r] <=> (right[r] /\ req[r].c # c)
          BY <1>1, <2>2 DEF DaemonStep, NamespaceGone, TypeOK
        <4> QED
          BY <4>1, <4>2 DEF Request
      <3>2. ASSUME NEW r \in Requests, At(r, "run") PROVE req[r].c \in Containers
        BY <3>2 DEF TypeOK
      <3> QED
        BY <2>1, <3>1, <3>2 DEF TargetInv, At
    <2>3. CASE dockPid'[c] = dockPid[c] \/ dockPid[c] = NoPid
      <3>1. UNCHANGED <<req, right>>
        BY <1>1, <2>3 DEF DaemonStep
      <3>2. ASSUME NEW r \in Requests, right[r], At(r, "run")
            PROVE  dockPid'[req[r].c] = dockPid[req[r].c]
        <4>1. req[r].c \in Containers /\ dockPid[req[r].c] # NoPid
          BY <3>2 DEF TypeOK, TargetInv
        <4> QED
          BY <2>1, <2>3, <4>1
      <3> QED
        BY <3>1, <3>2 DEF TargetInv, At
    <2> QED
      BY <2>2, <2>3
  <1>2. CASE ClientStep
    BY <1>2 DEF ClientStep, Record, Fetch, dockerVars, TargetInv, At
  <1>3. CASE ProcessCrash
    BY <1>3 DEF ProcessCrash, TargetInv, NoRequest, At
  <1>4. ASSUME NEW r \in Requests,
               \/ NewRequest(r) \/ CloseRequest(r) \/ Lookup(r) \/ ReportBegins(r)
               \/ ReportStep(r) \/ ControlStep(r) \/ QueryStep(r),
               T(r)'
        PROVE  TargetInv'
    BY <1>4, RequestFrame DEF TargetInv, At
  <1>5. ASSUME NEW r \in Requests, NEW result, Finish(r, result) PROVE T(r)'
    BY <1>5 DEF Finish, NoRequest, TypeOK, At
  <1>6. ASSUME NEW r \in Requests, NewRequest(r) PROVE T(r)'
    <2>1. ASSUME NEW kind, NEW c, NEW pc, Arrive(r, kind, c, pc) PROVE req'[r].ns = Nobody
      BY <2>1 DEF Arrive, NoRequest, TypeOK
    <2>2. ~right'[r]
      BY <1>6 DEF NewRequest, TypeOK
    <2> QED
      BY <1>5, <1>6, <2>1, <2>2 DEF NewRequest, ReportRequest, ControlRejected, ControlRequest
  <1>7. ASSUME NEW r \in Requests, CloseRequest(r) PROVE T(r)'
    BY <1>7 DEF CloseRequest, Close, NoRequest, TypeOK, At
  <1>8. ASSUME NEW r \in Requests, Lookup(r) PROVE T(r)'
    <2>1. CASE Found(req[r].c) /\ req[r].kind # "unknown"
      <3>1. /\ req[r] \in Request /\ req[r].ns = Nobody
            /\ req'[r] = [req[r] EXCEPT !.pc = "run", !.pid = containers[req[r].c].PID]
            /\ right'[r] <=> (/\ containers[req[r].c].PID = dockPid[req[r].c]
                              /\ dockPid[req[r].c] # NoPid)
            /\ dockPid' = dockPid
        BY <1>8, <2>1 DEF Lookup, GetHandler, TypeOK, TargetInv, At, dockerVars
      <3> QED
        BY <3>1 DEF Request, At
    <2>2. CASE ~(Found(req[r].c) /\ req[r].kind # "unknown")
      BY <1>5, <1>8, <2>2 DEF Lookup, GetHandler
    <2> QED
      BY <2>1, <2>2
  <1>9. ASSUME NEW r \in Requests, ReportBegins(r) PROVE T(r)'
    <2>1. req[r] \in Request /\ req[r].pc = "lock" /\ UNCHANGED right
      BY <1>9 DEF ReportBegins, ForEachBegins, TypeOK, At
    <2>2. req'[r].pc = "foreach" /\ req'[r].ns = req[r].ns
      BY <1>9, <2>1 DEF ReportBegins, ForEachBegins, TypeOK, Request
    <2> QED
      BY <2>1, <2>2 DEF TargetInv, At
  <1>10. ASSUME NEW r \in Requests, ReportStep(r) PROVE T(r)'
    <2>1. ASSUME NEW c \in Containers, SkipNode(r, c) \/ AddNode(r, c) PROVE T(r)'
      BY <1>10, <2>1 DEF SkipNode, AddNode, TargetInv, TypeOK, Request, At, ReportStep
    <2> QED
      BY <1>5, <1>10, <2>1 DEF ReportStep, Iterate, NodePanics, ForEachEnds
  <1>11. ASSUME NEW r \in Requests, ControlStep(r) PROVE T(r)'
    <2>1. req[r] \in Request /\ UNCHANGED <<dockPid, right>>
      BY <1>11 DEF TypeOK, ControlStep, dockerVars
    <2>2. ASSUME NEW pc \in {"query", "change", "nsid"}, Proceed(r, pc),
                 ~At(r, "query") /\ (pc = "query" => At(r, "run"))
          PROVE  T(r)'
      BY <2>1, <2>2 DEF Proceed, TargetInv, TypeOK, Request, At
    <2>3. CASE LatencyNSID(r)
      BY <1>5, <2>2, <2>3 DEF LatencyNSID, At
    <2>4. CASE OpenNetNS(r)
      <3>1. ASSUME NEW n \in NamespacesOf(req[r].pid), right[r] PROVE n = req[r].c
        <4>1. /\ req[r].c \in Containers
              /\ req[r].pid = dockPid[req[r].c] /\ req[r].pid # NoPid
          BY <2>4, <3>1 DEF OpenNetNS, TargetInv, TypeOK
        <4>2. n \in Containers /\ dockPid[n] = req[r].pid
          BY <3>1, <4>1 DEF NamespacesOf
        <4> QED
          BY <4>1, <4>2 DEF UniquePids
      <3>2. ASSUME NEW n \in NamespacesOf(req[r].pid),
                   req' = [req EXCEPT ![r].pc = "replace", ![r].ns = n]
            PROVE  T(r)'
        BY <2>1, <3>1, <3>2 DEF TypeOK, Request, At
      <3> QED
        BY <1>5, <2>4, <3>2 DEF OpenNetNS, Failed
    <2>5. CASE QdiscReplace(r)
      BY <1>5, <2>2, <2>5 DEF QdiscReplace, Failed, At
    <2>6. CASE QdiscChange(r) \/ ClearNSID(r)
      BY <1>5, <2>6 DEF QdiscChange, ClearNSID
    <2> QED
      BY <1>11, <2>3, <2>4, <2>5, <2>6 DEF ControlStep, Handler
  <1>12. ASSUME NEW r \in Requests, QueryStep(r) PROVE T(r)'
    BY <1>5, <1>12 DEF QueryStep, InfluxAnswers, ParseAttribute
  <1>13. CASE UNCHANGED vars
    BY <1>13 DEF vars, clientPromise, dockerVars, TargetInv, At
  <1> QED
    BY <1>1, <1>2, <1>3, <1>4, <1>6, <1>7, <1>8, <1>9, <1>10, <1>11, <1>12, <1>13 DEF Next

\* A control request whose process id was right at the lookup, and is still the
\* container's, never has tc run in another namespace.
THEOREM TargetRight == Spec => []RightTarget
  <1>1. Init => TargetInv
    BY DEF Init, RequestsInit, NoRequest, TargetInv
  <1>2. TargetInv => RightTarget
    BY DEF TargetInv, RightTarget
  <1> QED
    BY <1>1, <1>2, TypeCorrect, TargetStep, PTL DEF Spec
-------------------------------------------------------------------------------
\* Only ForEach takes and returns the lock, together with the start and the end
\* of a walk.
LEMMA LockStep == TypeOK /\ LockOwner /\ [Next]_vars => LockOwner'
  <1> SUFFICES ASSUME TypeOK, LockOwner, [Next]_vars PROVE LockOwner'
    OBVIOUS
  <1>1. ASSUME UNCHANGED locked, \A r \in Requests : At(r, "foreach")' <=> At(r, "foreach")
        PROVE  LockOwner'
    BY <1>1 DEF LockOwner
  <1>2. ASSUME NEW r \in Requests, UNCHANGED locked, ~At(r, "foreach"), ~At(r, "foreach")',
               \A s \in Requests \ {r} : req'[s] = req[s]
        PROVE  LockOwner'
    BY <1>1, <1>2 DEF At
  <1>3. ASSUME NEW c \in Containers, DaemonStep(c) PROVE LockOwner'
    <2>1. UNCHANGED locked
      BY <1>3 DEF DaemonStep, Daemon, storeVars
    <2>2. ASSUME NEW r \in Requests PROVE req'[r].pc = req[r].pc
      <3>1. req[r] \in Request
        BY DEF TypeOK
      <3>2. req'[r] = req[r] \/ req'[r] = [req[r] EXCEPT !.ns = Nobody]
        BY <1>3 DEF DaemonStep, NamespaceGone
      <3> QED
        BY <3>1, <3>2 DEF Request
    <2> QED
      BY <1>1, <2>1, <2>2 DEF At
  <1>4. CASE ClientStep
    BY <1>1, <1>4 DEF ClientStep, Record, SetContainer, DeleteContainer, Fetch, storeVars, At
  <1>5. CASE ProcessCrash
    BY <1>5 DEF ProcessCrash, Crash, NoRequest, LockOwner, At
  <1>6. ASSUME NEW r \in Requests, NEW result, Finish(r, result) PROVE ~At(r, "foreach")'
    BY <1>6 DEF Finish, NoRequest, TypeOK, At
  <1>7. ASSUME NEW r \in Requests, NewRequest(r) \/ CloseRequest(r) \/ Lookup(r) \/ ControlStep(r) \/ QueryStep(r)
        PROVE  LockOwner'
    <2>1. UNCHANGED locked /\ \A s \in Requests \ {r} : req'[s] = req[s]
      BY <1>7, RequestType
         DEF NewRequest, ReportRequest, ControlRejected, ControlRequest, CloseRequest,
             Lookup, GetHandler, ControlStep, QueryStep, storeVars
    <2>2. ~At(r, "foreach")
      BY <1>7 DEF NewRequest, ReportRequest, ControlRejected, ControlRequest, Arrive, CloseRequest,
                  Close, Lookup, GetHandler, ControlStep, Handler, LatencyNSID, OpenNetNS,
                  QdiscReplace, QdiscChange, ClearNSID, QueryStep, InfluxAnswers, ParseAttribute, At
    <2>3. ASSUME NEW pc \in {"lookup", "run", "query", "replace", "change", "nsid", "lock"},
                 req'[r].pc = pc
          PROVE  ~At(r, "foreach")'
      BY <2>3 DEF At
    <2>4. req[r] \in Request
      BY DEF TypeOK
    <2>5. CASE NewRequest(r)
      <3>1. ASSUME NEW kind, NEW c, NEW pc, Arrive(r, kind, c, pc) PROVE req'[r].pc = pc
        BY <3>1 DEF Arrive, NoRequest, TypeOK
      <3> QED
        BY <1>2, <1>6, <2>1, <2>2, <2>3, <2>5, <3>1
           DEF NewRequest, ReportRequest, ControlRejected, ControlRequest
    <2>6. CASE CloseRequest(r)
      BY <1>2, <2>1, <2>2, <2>6 DEF CloseRequest, Close, NoRequest, TypeOK, At
    <2>7. CASE Lookup(r)
      <3>1. CASE Found(req[r].c) /\ req[r].kind # "unknown"
        <4>1. req'[r].pc = "run"
          BY <2>4, <2>7, <3>1 DEF Lookup, GetHandler, TypeOK, Request
        <4> QED
          BY <1>2, <2>1, <2>2, <2>3, <4>1
      <3> QED
        BY <1>2, <1>6, <2>1, <2>2, <2>7, <3>1 DEF Lookup, GetHandler
    <2>8. CASE ControlStep(r) \/ QueryStep(r)
      <3>1. ASSUME NEW pc, Proceed(r, pc) PROVE req'[r].pc = pc
        BY <2>4, <3>1 DEF Proceed, TypeOK, Request
      <3>2. ASSUME NEW n, req' = [req EXCEPT ![r].pc = "replace", ![r].ns = n]
            PROVE req'[r].pc = "replace"
        BY <2>4, <3>2 DEF TypeOK, Request
      <3> QED
        BY <1>2, <1>6, <2>1, <2>2, <2>3, <2>8, <3>1, <3>2
           DEF ControlStep, Handler, LatencyNSID, OpenNetNS, QdiscReplace, QdiscChange,
               ClearNSID, QueryStep, InfluxAnswers, ParseAttribute, Failed
    <2> QED
      BY <1>7, <2>5, <2>6, <2>7, <2>8
  <1>8. ASSUME NEW r \in Requests, ReportBegins(r) PROVE LockOwner'
    <2>1. ~locked /\ locked'
      BY <1>8 DEF ReportBegins, ForEachBegins, ForEachLock
    <2>2. At(r, "foreach")' /\ \A s \in Requests \ {r} : req'[s] = req[s]
      <3>1. req[r] \in Request
        BY DEF TypeOK
      <3>2. req'[r].pc = "foreach"
        BY <1>8, <3>1 DEF ReportBegins, ForEachBegins, TypeOK, Request
      <3> QED
        BY <1>8, <3>2, RequestType DEF At
    <2> QED
      BY <2>1, <2>2 DEF LockOwner, At
  <1>9. ASSUME NEW r \in Requests, ReportStep(r) PROVE LockOwner'
    <2>1. \A s \in Requests \ {r} : req'[s] = req[s]
      BY <1>9, RequestType
    <2>2. At(r, "foreach")
      BY <1>9 DEF ReportStep, Iterate, SkipNode, AddNode, NodePanics, ForEachEnds
    <2>3. ASSUME NEW result, Finish(r, result), ForEachUnlock PROVE LockOwner'
      <3>1. ~At(r, "foreach")' /\ ~locked'
        BY <1>6, <2>3 DEF ForEachUnlock
      <3> QED
        BY <2>1, <2>2, <3>1 DEF LockOwner, At
    <2>4. ASSUME NEW c \in Containers, SkipNode(r, c) \/ AddNode(r, c) PROVE LockOwner'
      <3>1. req[r] \in Request
        BY DEF TypeOK
      <3>2. At(r, "foreach")' /\ UNCHANGED locked
        BY <2>4, <3>1 DEF SkipNode, AddNode, At, TypeOK, Request, storeVars
      <3> QED
        BY <1>1, <2>1, <2>2, <3>2 DEF At
    <2> QED
      BY <1>9, <2>3, <2>4 DEF ReportStep, Iterate, NodePanics, ForEachEnds
  <1>10. CASE UNCHANGED vars
    BY <1>10 DEF vars, clientPromise, storeVars, LockOwner, At
  <1> QED
    BY <1>3, <1>4, <1>5, <1>7, <1>8, <1>9, <1>10 DEF Next

\* The store's lock is held exactly while one report walks the store; a panic
\* in the callback does not leave it locked.
THEOREM LockOwned == Spec => []LockOwner
  <1>1. Init => LockOwner
    BY DEF Init, ClientInit, NewStore, RequestsInit, NoRequest, LockOwner, At
  <1> QED
    BY <1>1, TypeCorrect, LockStep, PTL DEF Spec
\* The walk: what a report has visited and what it has yet to visit.
LEMMA WalkStep == TypeOK /\ LockOwner /\ WalkInv /\ Snapshot /\ [Next]_vars => WalkInv' /\ Snapshot'
  <1> SUFFICES ASSUME TypeOK, LockOwner, WalkInv, Snapshot, [Next]_vars
               PROVE  WalkInv' /\ Snapshot'
    OBVIOUS
  <1> DEFINE Shown(r) == {d \in Containers \ req[r].todo :
                           containers[d].State \in {"Running", "Stopped"}}
             W(r) == /\ At(r, "lock") => req[r].nodes = {}
                     /\ At(r, "foreach") => /\ \A c \in req[r].todo : Found(c)
                                            /\ req[r].nodes = {Node(c) : c \in Shown(r)}
  <1>1. \A r \in Requests : W(r)
    BY DEF WalkInv, Snapshot
  <1>2. ASSUME \A r \in Requests : W(r)' PROVE WalkInv' /\ Snapshot'
    BY <1>2 DEF WalkInv, Snapshot
  <1> HIDE DEF W
  <1>3. ASSUME UNCHANGED containers, NEW r \in Requests, req'[r].pc = req[r].pc,
               req'[r].todo = req[r].todo, req'[r].nodes = req[r].nodes
        PROVE  W(r)'
    BY <1>1, <1>3 DEF W, At, Found, Node
  <1>4. ASSUME NEW r \in Requests, ~At(r, "lock")', ~At(r, "foreach")' PROVE W(r)'
    BY <1>4 DEF W
  <1>5. ASSUME NEW c \in Containers, DaemonStep(c) PROVE WalkInv' /\ Snapshot'
    <2>1. UNCHANGED containers
      BY <1>5 DEF DaemonStep, Daemon, storeVars
    <2>2. ASSUME NEW r \in Requests PROVE W(r)'
      <3>1. req[r] \in Request
        BY DEF TypeOK
      <3>2. req'[r] = req[r] \/ req'[r] = [req[r] EXCEPT !.ns = Nobody]
        BY <1>5 DEF DaemonStep, NamespaceGone
      <3> QED
        BY <1>3, <2>1, <3>1, <3>2 DEF Request
    <2> QED
      BY <1>2, <2>2
  <1>6. CASE ClientStep
    <2>1. UNCHANGED req
      BY <1>6 DEF ClientStep
    <2>2. CASE Record
      <3>1. ~locked
        BY <2>2 DEF Record, SetContainer, DeleteContainer
      <3>2. \A r \in Requests : W(r)'
        BY <1>1, <2>1, <3>1 DEF W, LockOwner, At
      <3> QED
        BY <1>2, <3>2
    <2>3. CASE \E c \in Containers : Fetch(c)
      <3>1. UNCHANGED containers
        BY <2>3 DEF Fetch, storeVars
      <3> QED
        BY <1>2, <1>3, <2>1, <3>1
    <2> QED
      BY <1>6, <2>2, <2>3 DEF ClientStep
  <1>7. CASE ProcessCrash
    <2>1. \A r \in Requests : req'[r].pc = "idle"
      BY <1>7 DEF ProcessCrash, NoRequest
    <2> QED
      BY <1>2, <1>4, <2>1 DEF At
  <1>8. ASSUME NEW r \in Requests, W(r)',
               \/ NewRequest(r) \/ CloseRequest(r) \/ Lookup(r) \/ ReportBegins(r)
               \/ ReportStep(r) \/ ControlStep(r) \/ QueryStep(r)
        PROVE  WalkInv' /\ Snapshot'
    <2>1. UNCHANGED containers /\ \A s \in Requests \ {r} : req'[s] = req[s]
      BY <1>8, RequestFrame
    <2> QED
      BY <1>2, <1>3, <1>8, <2>1
  <1>9. ASSUME NEW r \in Requests, NEW result, Finish(r, result) PROVE W(r)'
    <2>1. req'[r].pc = "done"
      BY <1>9 DEF Finish, NoRequest, TypeOK
    <2> QED
      BY <1>4, <2>1 DEF At
  <1>10. ASSUME NEW r \in Requests, NewRequest(r) PROVE W(r)'
    <2>1. ASSUME NEW kind, NEW c, NEW pc \in {"lock", "lookup"}, Arrive(r, kind, c, pc)
          PROVE W(r)'
      BY <2>1 DEF Arrive, NoRequest, TypeOK, W, At
    <2> QED
      BY <1>9, <1>10, <2>1 DEF NewRequest, ReportRequest, ControlRejected, ControlRequest
  <1>11. ASSUME NEW r \in Requests, CloseRequest(r) PROVE W(r)'
    BY <1>4, <1>11 DEF CloseRequest, Close, NoRequest, TypeOK, At
  <1>12. ASSUME NEW r \in Requests, Lookup(r) PROVE W(r)'
    <2>1. CASE Found(req[r].c) /\ req[r].kind # "unknown"
      <3>1. req[r] \in Request
        BY DEF TypeOK
      <3>2. req'[r].pc = "run"
        BY <1>12, <2>1, <3>1 DEF Lookup, GetHandler, TypeOK, Request
      <3> QED
        BY <1>4, <3>2 DEF At
    <2> QED
      BY <1>9, <1>12, <2>1 DEF Lookup, GetHandler
  <1>13. ASSUME NEW r \in Requests, ReportBegins(r) PROVE W(r)'
    <2>1. req[r] \in Request /\ At(r, "lock") /\ UNCHANGED containers
      BY <1>13 DEF ReportBegins, ForEachBegins, ForEachLock, TypeOK
    <2>2. /\ req'[r].pc = "foreach" /\ req'[r].nodes = req[r].nodes
          /\ req'[r].todo = {c \in Containers : Found(c)}
      BY <1>13, <2>1 DEF ReportBegins, ForEachBegins, TypeOK, Request
    <2>3. req[r].nodes = {}
      BY <1>1, <2>1 DEF W
    <2>4. \A c \in Containers \ req'[r].todo : containers'[c].State \notin {"Running", "Stopped"}
      BY <2>1, <2>2 DEF Found, Absent
    <2> QED
      BY <2>1, <2>2, <2>3, <2>4 DEF W, At, Found, Node
  <1>14. ASSUME NEW r \in Requests, ReportStep(r) PROVE W(r)'
    <2>1. req[r] \in Request
      BY DEF TypeOK
    <2>2. ASSUME NEW c \in Containers, SkipNode(r, c) PROVE W(r)'
      <3>1. /\ req'[r].todo = req[r].todo \ {c} /\ req'[r].nodes = req[r].nodes
            /\ req'[r].pc = "foreach" /\ At(r, "foreach") /\ UNCHANGED containers
        BY <2>1, <2>2 DEF SkipNode, TypeOK, Request, At, storeVars
      <3>2. containers[c].State = "Created"
        BY <2>2 DEF SkipNode
      <3> QED
        BY <1>1, <3>1, <3>2 DEF W, At, Found, Node
    <2>3. ASSUME NEW c \in Containers, AddNode(r, c) PROVE W(r)'
      <3>1. /\ req'[r].todo = req[r].todo \ {c} /\ req'[r].nodes = req[r].nodes \cup {Node(c)}
            /\ req'[r].pc = "foreach" /\ At(r, "foreach") /\ UNCHANGED containers
        BY <2>1, <2>3 DEF AddNode, TypeOK, Request, At, storeVars
      <3>2. c \in req[r].todo /\ containers[c].State # "Created"
        BY <2>3 DEF AddNode
      <3>3. containers[c].State \in {"Running", "Stopped"}
        BY <1>1, <3>1, <3>2 DEF W, Found, TypeOK, StoreTypeOK, Entry, State
      <3> QED
        BY <1>1, <3>1, <3>2, <3>3 DEF W, At, Found, Node
    <2> QED
      BY <1>9, <1>14, <2>2, <2>3 DEF ReportStep, Iterate, NodePanics, ForEachEnds
  <1>15. ASSUME NEW r \in Requests, ControlStep(r) \/ QueryStep(r) PROVE W(r)'
    <2>1. req[r] \in Request
      BY DEF TypeOK
    <2>2. ASSUME NEW pc \in {"query", "change", "nsid"}, Proceed(r, pc) PROVE W(r)'
      <3>1. req'[r].pc = pc
        BY <2>1, <2>2 DEF Proceed, TypeOK, Request
      <3> QED
        BY <1>4, <3>1 DEF At
    <2>3. ASSUME NEW n, req' = [req EXCEPT ![r].pc = "replace", ![r].ns = n] PROVE W(r)'
      <3>1. req'[r].pc = "replace"
        BY <2>1, <2>3 DEF TypeOK, Request
      <3> QED
        BY <1>4, <3>1 DEF At
    <2> QED
      BY <1>9, <1>15, <2>2, <2>3
         DEF ControlStep, Handler, LatencyNSID, OpenNetNS, QdiscReplace, QdiscChange,
             ClearNSID, QueryStep, InfluxAnswers, ParseAttribute, Failed
  <1>16. CASE UNCHANGED vars
    <2>1. UNCHANGED <<containers, req>>
      BY <1>16 DEF vars, clientPromise, storeVars
    <2> QED
      BY <1>2, <1>3, <2>1
  <1> QED
    BY <1>5, <1>6, <1>7, <1>8, <1>10, <1>11, <1>12, <1>13, <1>14, <1>15, <1>16 DEF Next

\* A report is a picture of the store at one instant, however many containers
\* it inspects and whatever the client wants to record meanwhile.
THEOREM ReportIsSnapshot == Spec => []Snapshot
  <1>1. Init => WalkInv /\ Snapshot
    BY DEF Init, ClientInit, NewStore, Absent, RequestsInit, NoRequest, WalkInv, Snapshot, At
  <1> QED
    BY <1>1, TypeCorrect, LockOwned, WalkStep, PTL DEF Spec
===============================================================================
