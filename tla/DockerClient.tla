----------------------------- MODULE DockerClient -----------------------------
(***************************************************************************)
(* DockerClient (docker.go): the goroutine that keeps the container store  *)
(* in step with the Docker daemon.  Start subscribes to events, lists and  *)
(* inspects every container once, then handles events until its channel is *)
(* closed, and begins again a second later.  The state of an entry comes   *)
(* from the event, its process id from an InspectContainer call made       *)
(* later, and the store is written later still: between the three the      *)
(* daemon moves on.                                                        *)
(***************************************************************************)
EXTENDS EventListener, Store

VARIABLES
  pc,     \* where Start is
  todo,   \* getContainers: listed containers not inspected yet
  work,   \* the container being updated (Nobody: none): state and pid to record
  \* History variables: read by the properties, never by the actions.
  exact,  \* exact[c]: the last update of c's entry was for its latest change
  stale   \* stale[c]: the latest change of c is unknown and not on its way

clientVars == <<pc, todo, work>>
historyVars == <<exact, stale>>
vars == <<dockerVars, listenerVars, storeVars, clientVars, historyVars>>

Idle == [c |-> Nobody, state |-> "Destroyed", pid |-> NoPid, ver |-> 0]

Work == [c : Containers \cup {Nobody}, state : State,
         pid : Pids \cup {NoPid}, ver : 0..MaxChanges]

\* "add": about to call AddEventListener; "list", "inspect", "store":
\* getContainers; "recv": waiting on the channel; "pid", "apply": handleEvent;
\* "remove", "disable": the deferred RemoveEventListener; "sleep"; "crashed":
\* the process died of an unrecovered panic.
Pc == {"add", "list", "inspect", "store", "recv", "pid", "apply",
       "remove", "disable", "sleep", "crashed"}

(***************************************************************************)
(* What the code computes.                                                 *)
(***************************************************************************)

\* The switch of getContainers.
ListedState(status) ==
  CASE status \in {"dead", "paused", "restarting", "oom"} -> "Stopped"
    [] status = "running" -> "Running"
    [] OTHER -> "Destroyed"

\* Mutant of EventState: "pause" taken for a state in which the container runs.
EventStatePauseRuns(status) ==
  CASE status = "create" -> "Created"
    [] status = "destroy" -> "Destroyed"
    [] status \in {"start", "unpause", "pause"} -> "Running"
    [] OTHER -> "Stopped"

\* The switch of handleEvent (an ignored status never gets here).
EventState(status) ==
  CASE status = "create" -> "Created"
    [] status = "destroy" -> "Destroyed"
    [] status \in {"start", "unpause"} -> "Running"
    [] OTHER -> "Stopped"

\* Mutant of updateContainer: the test for Destroyed is missing.
updateContainerAlways(c, state, pid) ==
  SetContainer(c, [State |-> state, PID |-> pid])

\* Mutant of updateContainer: an entry that exists gets the new state only.
updateContainerState(c, state, pid) ==
  IF state = "Destroyed"
  THEN DeleteContainer(c)
  ELSE SetContainer(c, [State |-> state,
                        PID |-> IF Found(c) THEN containers[c].PID ELSE pid])

updateContainer(c, state, pid) ==
  IF state = "Destroyed"
  THEN DeleteContainer(c)
  ELSE SetContainer(c, [State |-> state, PID |-> pid])

(***************************************************************************)
(* Initially the process has just started: nothing is known.               *)
(***************************************************************************)
Init ==
  /\ DockerInit
  /\ ListenerInit
  /\ NewStore
  /\ pc = "add"
  /\ todo = {}
  /\ work = Idle
  /\ exact = [c \in Containers |-> FALSE]
  /\ stale = [c \in Containers |-> TRUE]

Goto(from, to) == pc = from /\ pc' = to

(***************************************************************************)
(* The environment: the daemon and go-dockerclient.                        *)
(***************************************************************************)
DockerEvent(c) ==
  /\ \E status \in AnnouncedStatus :
       /\ Announced(c, status)
       /\ Announce([c |-> c, status |-> status, ver |-> ver[c] + 1])
  /\ exact' = [exact EXCEPT ![c] = FALSE]
  /\ stale' = [stale EXCEPT ![c] = monitor # "on"]
  /\ UNCHANGED <<storeVars, clientVars>>

\* An event that is not about the container's life cycle.
OtherEvent(c) ==
  /\ Exists(c)
  /\ IgnoredBound
  /\ Announce([c |-> c, status |-> "other", ver |-> 0])
  /\ UNCHANGED <<dockerVars, storeVars, clientVars, historyVars>>

DockerSilent(c) ==
  /\ MarkDead(c)
  /\ UNCHANGED <<listenerVars, storeVars, clientVars, historyVars>>

Connect ==
  /\ MonitorConnect
  /\ UNCHANGED <<dockerVars, storeVars, clientVars, historyVars>>

Disconnect ==
  /\ StreamEnds
  /\ UNCHANGED <<dockerVars, storeVars, clientVars, historyVars>>

MonitorStep ==
  /\ MonitorEvent
  /\ UNCHANGED <<dockerVars, storeVars, clientVars, historyVars>>

MonitorStops ==
  /\ MonitorDisable
  /\ UNCHANGED <<dockerVars, storeVars, clientVars, historyVars>>

\* e is the newest announced change of its container.
Newest(e) == e.status \in AnnouncedStatus /\ e.ver = ver[e.c]

\* The newest change of c is lost when the events es are.
Lost(c, es) == \E e \in es : e.c = c /\ Newest(e)

SenderStep(e) ==
  /\ SendEvent(e)
  /\ stale' = [stale EXCEPT ![e.c] = @ \/ (Newest(e) /\ ~SenderDelivers)]
  /\ UNCHANGED <<dockerVars, storeVars, clientVars, exact>>

NobodyListens(e) ==
  /\ ErrNoListeners(e)
  /\ stale' = [c \in Containers |-> stale[c] \/ Lost(c, Elements(stream) \cup {e})]
  /\ UNCHANGED <<dockerVars, storeVars, clientVars, exact>>

(***************************************************************************)
(* Start.  AddEventListener never fails (enableEventMonitoring returns nil *)
(* and the channel is fresh), so its error branch is unreachable.          *)
(***************************************************************************)
Subscribe ==
  /\ Goto("add", "list")
  /\ AddEventListener
  /\ UNCHANGED <<dockerVars, storeVars, todo, work, historyVars>>

ListFails ==
  /\ Goto("list", "remove")
  /\ UNCHANGED <<dockerVars, listenerVars, storeVars, todo, work, historyVars>>

ListContainers ==
  /\ Goto("list", "inspect")
  /\ todo' = {c \in Containers : Exists(c)}
  /\ UNCHANGED <<dockerVars, listenerVars, storeVars, work, historyVars>>

\* The process dies: everything it had in memory is gone.
MemoryLost ==
  /\ monitor' = "off" /\ listener' = "none"
  /\ stream' = <<>> /\ spawned' = {} /\ sending' = {}
  /\ containers' = [c \in Containers |-> Absent] /\ locked' = FALSE
  /\ todo' = {} /\ work' = Idle
  /\ exact' = [c \in Containers |-> FALSE]
  /\ stale' = [c \in Containers |-> TRUE]

\* The loop body of getContainers up to updateContainer: InspectContainer
\* fails, finds the container, or finds it removed since it was listed.  In
\* the last case getContainerState returns a nil state and a nil error, and
\* reading containerState.Dead is a nil dereference outside any recover.
InspectFails(c) ==
  /\ pc = "inspect" /\ c \in todo
  /\ todo' = todo \ {c}
  /\ UNCHANGED <<dockerVars, listenerVars, storeVars, pc, work, historyVars>>

InspectListed(c) ==
  /\ Goto("inspect", "store")
  /\ c \in todo /\ Exists(c)
  /\ todo' = todo \ {c}
  /\ work' = [c |-> c, state |-> ListedState(dock[c]),
              pid |-> dockPid[c], ver |-> ver[c]]
  /\ stale' = [stale EXCEPT ![c] = FALSE]
  /\ UNCHANGED <<dockerVars, listenerVars, storeVars, exact>>

InspectRemoved(c) ==
  /\ Goto("inspect", "crashed")
  /\ c \in todo /\ ~Exists(c)
  /\ MemoryLost
  /\ UNCHANGED dockerVars

\* updateContainer, on behalf of getContainers or handleEvent.
Update(from, to) ==
  /\ Goto(from, to)
  /\ updateContainer(work.c, work.state, work.pid)
  /\ work' = Idle
  /\ exact' = [exact EXCEPT ![work.c] = work.ver = ver[work.c]]
  /\ UNCHANGED <<dockerVars, listenerVars, todo, stale>>

StoreListed == Update("store", "inspect")

ListDone ==
  /\ Goto("inspect", "recv")
  /\ todo = {}
  /\ UNCHANGED <<dockerVars, listenerVars, storeVars, todo, work, historyVars>>

\* Mutant of ReceiveEvent: handleEvent has no case for "die".
ReceiveEventNoDie(e) ==
  /\ pc = "recv"
  /\ Receive(e)
  /\ IF e.status \in AnnouncedStatus \ {"die"}
     THEN /\ pc' = "pid"
          /\ work' = [c |-> e.c, state |-> EventState(e.status),
                      pid |-> NoPid, ver |-> e.ver]
     ELSE UNCHANGED <<pc, work>>
  /\ UNCHANGED <<dockerVars, storeVars, todo, historyVars>>

\* handleEvent up to the InspectContainer call; other events are ignored.
ReceiveEvent(e) ==
  /\ pc = "recv"
  /\ Receive(e)
  /\ IF e.status \in AnnouncedStatus
     THEN /\ pc' = "pid"
          /\ work' = [c |-> e.c, state |-> EventState(e.status),
                      pid |-> NoPid, ver |-> e.ver]
     ELSE UNCHANGED <<pc, work>>
  /\ UNCHANGED <<dockerVars, storeVars, todo, historyVars>>

\* Mutant of GetContainerPID: the id already in the store is used again.
GetContainerPIDCached ==
  /\ Goto("pid", "apply")
  /\ work' = [work EXCEPT !.pid = containers[work.c].PID]
  /\ stale' = [stale EXCEPT ![work.c] = FALSE]
  /\ UNCHANGED <<dockerVars, listenerVars, storeVars, todo, exact>>

\* getContainerPID: a container that no longer exists has process id 0.
GetContainerPID ==
  /\ Goto("pid", "apply")
  /\ work' = [work EXCEPT !.pid = IF Exists(work.c) THEN dockPid[work.c] ELSE NoPid]
  /\ stale' = [stale EXCEPT ![work.c] = FALSE]
  /\ UNCHANGED <<dockerVars, listenerVars, storeVars, todo, exact>>

\* InspectContainer fails for another reason: the event is forgotten.
GetContainerPIDFails ==
  /\ Goto("pid", "recv")
  /\ work' = Idle
  /\ stale' = [stale EXCEPT ![work.c] = TRUE]
  /\ UNCHANGED <<dockerVars, listenerVars, storeVars, todo, exact>>

ApplyEvent == Update("apply", "recv")

\* Mutant of ListenerClosed: the result of a receive on a closed channel is
\* taken for an event that is ignored.
ListenerClosedIgnored ==
  /\ pc = "recv" /\ listener = "closed"
  /\ UNCHANGED vars

ListenerClosed ==
  /\ Goto("recv", "remove")
  /\ listener = "closed"
  /\ UNCHANGED <<dockerVars, listenerVars, storeVars, todo, work, historyVars>>

\* The deferred RemoveEventListener, in two steps.
Unsubscribe ==
  /\ Goto("remove", "disable")
  /\ RemoveListener
  /\ UNCHANGED <<dockerVars, storeVars, todo, work, historyVars>>

\* What is still in the stream is lost with the subscription.
StopMonitor ==
  /\ Goto("disable", "sleep")
  /\ DisableEventMonitoring
  /\ stale' = [c \in Containers |-> stale[c] \/ Lost(c, Elements(stream))]
  /\ UNCHANGED <<dockerVars, storeVars, todo, work, exact>>

\* disableEventMonitoring closes channel C while the reader goroutine, which has
\* found the monitor enabled, is about to send an event on it: a panic.
ReaderPanics ==
  /\ Goto("disable", "crashed")
  /\ sending = {} /\ monitor = "on" /\ stream # <<>>
  /\ MemoryLost
  /\ UNCHANGED dockerVars

Wake ==
  /\ Goto("sleep", "add")
  /\ UNCHANGED <<dockerVars, listenerVars, storeVars, todo, work, historyVars>>

\* The DaemonSet starts a crashed plugin again.
Restart ==
  /\ Goto("crashed", "add")
  /\ UNCHANGED <<dockerVars, listenerVars, storeVars, todo, work, historyVars>>

Daemon == \E c \in Containers : DockerEvent(c) \/ OtherEvent(c) \/ DockerSilent(c)

Senders == \E e \in spawned : SenderStep(e) \/ NobodyListens(e)

\* The sender of change v of c (0: of the event that is no change).
SenderOf(c, v) == \E e \in spawned : e.c = c /\ e.ver = v /\ SenderStep(e)

\* The monitor loop, once it is connected.
MonitorLoop == monitor # "connecting" /\ (MonitorStep \/ MonitorStops)

Library == Connect \/ MonitorStep \/ MonitorStops \/ Disconnect \/ Senders

\* Steps of Start that take an answer of the daemon.
DaemonAnswers ==
  \/ ListFails \/ ListContainers
  \/ \E c \in Containers : InspectFails(c) \/ InspectListed(c) \/ InspectRemoved(c)
  \/ GetContainerPID \/ GetContainerPIDFails

\* Steps of Start that wait for nobody outside the process.
LocalStep ==
  \/ Subscribe \/ StoreListed \/ ListDone
  \/ \E e \in sending : ReceiveEvent(e)
  \/ ApplyEvent
  \/ ListenerClosed \/ Unsubscribe \/ StopMonitor \/ ReaderPanics \/ Wake

Start == DaemonAnswers \/ LocalStep

Next == Daemon \/ Library \/ Start \/ Restart

(***************************************************************************)
(* The Go scheduler runs every runnable goroutine eventually: Start, the   *)
(* senders and the monitor loop.  Nothing is assumed of the daemon: it     *)
(* need not change anything, nor answer a call or a connection attempt,    *)
(* for which the client sets no timeout, and a stream may stay up for      *)
(* ever.                                                                   *)
(***************************************************************************)
Fairness ==
  /\ WF_vars(LocalStep)
  /\ \A c \in Containers, v \in 0..MaxChanges : WF_vars(SenderOf(c, v))
  /\ WF_vars(MonitorLoop)

Spec == Init /\ [][Next]_vars

FairSpec == Spec /\ Fairness

-------------------------------------------------------------------------------
TypeOK ==
  /\ DockerTypeOK
  /\ ListenerTypeOK
  /\ StoreTypeOK
  /\ pc \in Pc
  /\ todo \subseteq Containers
  /\ work \in Work
  /\ pc \in {"store", "pid", "apply"} => work.c \in Containers
  /\ exact \in [Containers -> BOOLEAN]
  /\ stale \in [Containers -> BOOLEAN]

\* The newest change of c has been announced and not been handled yet.
OnItsWay(c) ==
  \/ \E e \in InFlight : e.c = c /\ Newest(e)
  \/ pc = "pid" /\ work.c = c

\* Start has read the process id of c and not recorded it yet.
Updating(c) == pc \in {"store", "apply"} /\ work.c = c

PidRight(c) == Found(c) => containers[c].PID = dockPid[c]

\* The process id that a control request will act on (GetHandler,
\* report.go:129) is the container's own, whatever the order in which its
\* events were delivered, as soon as the newest one has been handled: the id
\* is read by handleEvent after the event, not taken from it.  Only a lost
\* newest event (stale) can leave a wrong id behind.
PidFresh ==
  \A c \in Containers :
    ~stale[c] /\ ~OnItsWay(c) /\ ~Updating(c) => PidRight(c)

\* The entry of c that says what the daemon says.  A container that is not
\* running is in the store if an event brought it there, and not in the store
\* if getContainers saw it.
Agrees(c) ==
  CASE dock[c] = "running" ->
         containers[c] = [State |-> "Running", PID |-> dockPid[c]]
    [] dock[c] = "paused" ->
         containers[c] = [State |-> "Stopped", PID |-> dockPid[c]]
    [] dock[c] = "created" ->
         containers[c] \in {Absent, [State |-> "Created", PID |-> NoPid]}
    [] dock[c] \in {"restarting", "exited", "oom", "dead"} ->
         containers[c] \in {Absent, [State |-> "Stopped", PID |-> NoPid]}
    [] OTHER -> containers[c] = Absent

\* An entry whose last update was for the newest change of its container
\* agrees with the daemon, although state, process id and store write are
\* three steps of handleEvent and getContainers with the daemon running on in
\* between.
ExactAgrees == \A c \in Containers : exact[c] => Agrees(c)

\* The inductive form of PidFresh: while Start is between inspecting c and
\* recording it, the id it holds is the one that must be right; and a container
\* that does not exist has no process.
PidInv ==
  /\ \A c \in Containers : ~Exists(c) => dockPid[c] = NoPid
  /\ \A c \in Containers :
       ~stale[c] /\ ~OnItsWay(c) =>
         IF Updating(c) THEN work.pid = dockPid[c] ELSE PidRight(c)

\* Start waits for the daemon to answer a call.
Calling == pc \in {"list", "pid"} \/ (pc = "inspect" /\ todo # {})

\* While the subscription is up, every change is followed by a moment when the
\* process id recorded for the container is right again, unless the newest
\* event of the container was lost (stale) or the daemon never answers a call:
\* no event waits for ever in the monitor, its sender or handleEvent.
CatchesUp ==
  <>[](monitor = "on" /\ pc # "remove") =>
    <>[]Calling \/ \A c \in Containers : []<>(stale[c] \/ PidRight(c))

\* When the event stream breaks while the client listens, the client
\* subscribes again, or the process has died while listing, or the daemon never
\* answers a call.
Resubscribes ==
  (listener = "closed") ~> (pc \in {"list", "crashed"} \/ []Calling)

\* What the client promises to the rest of the plugin (module StoreClient).
Promise == INSTANCE StoreClient WITH
  fetched <- IF pc \in {"store", "apply"}
             THEN [c |-> work.c, pid |-> work.pid]
             ELSE [c |-> Nobody, pid |-> NoPid]

ImplementsPromise == Promise!ClientSpec


\* go-dockerclient says of RemoveEventListener that it "removes a listener from
\* the monitor"; the deferred call in Start therefore returns, unless the
\* process dies.
RemovalCompletes == (pc = "remove") ~> (pc \in {"sleep", "crashed"})
===============================================================================
