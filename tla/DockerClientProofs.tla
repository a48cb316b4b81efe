-------------------------- MODULE DockerClientProofs --------------------------
(***************************************************************************)
(* Theorems about DockerClient, for any set of containers, any process ids *)
(* and any number of changes.                                              *)
(***************************************************************************)
EXTENDS DockerClient, TLAPS

USE PidsAssumption, NobodyAssumption, MaxChangesAssumption

\* Every value of AddEventListener's channel, the store, the program counter
\* and the work in progress stays in its type, whatever the interleaving.
LEMMA TypeInit == Init => TypeOK
  <1> SUFFICES ASSUME Init PROVE TypeOK
    OBVIOUS
  <1>1. DockerTypeOK
    BY DEF Init, DockerInit, DockerTypeOK, DockStatus
  <1>2. ListenerTypeOK
    BY DEF Init, ListenerInit, ListenerTypeOK
  <1>3. StoreTypeOK
    BY DEF Init, NewStore, StoreTypeOK
  <1>4. work \in Work
    BY DEF Init, Work, Idle, State, NoPid
  <1> QED
    BY <1>1, <1>2, <1>3, <1>4 DEF Init, TypeOK, Pc

\* One change of a container keeps the daemon's state well typed and counts up.
LEMMA ChangeType ==
  ASSUME DockerTypeOK, NEW c \in Containers, NEW status \in AnnouncedStatus,
         Announced(c, status)
  PROVE  /\ DockerTypeOK'
         /\ ver[c] + 1 \in 0..MaxChanges
         /\ ver' = [ver EXCEPT ![c] = @ + 1]
  <1>1. ASSUME NEW from, NEW to \in DockStatus, NEW p \in Pids \cup {NoPid},
               Change(c, from, to, p)
        PROVE  /\ DockerTypeOK'
               /\ ver[c] + 1 \in 0..MaxChanges
               /\ ver' = [ver EXCEPT ![c] = @ + 1]
    BY <1>1 DEF Change, DockerTypeOK
  <1> DEFINE Goal == /\ DockerTypeOK'
                     /\ ver[c] + 1 \in 0..MaxChanges
                     /\ ver' = [ver EXCEPT ![c] = @ + 1]
  <1>2. CASE Create(c) \/ Destroy(c)
    BY <1>1, <1>2 DEF Create, Destroy, DockStatus
  <1>3. CASE StartContainer(c)
    BY <1>1, <1>3 DEF StartContainer, FreePids, DockStatus
  <1>4. CASE Die(c)
    <2>1. {"exited", "oom", "restarting"} \subseteq DockStatus
      BY DEF DockStatus
    <2> QED
      BY <1>1, <1>4, <2>1 DEF Die
  <1>5. CASE Pause(c) \/ Unpause(c)
    BY <1>1, <1>5 DEF Pause, Unpause, DockStatus, DockerTypeOK
  <1> QED
    BY <1>2, <1>3, <1>4, <1>5 DEF Announced

\* No work in progress is well typed.
LEMMA IdleType == Idle \in Work
  BY DEF Idle, Work, State, NoPid

LEMMA TypeStep == TypeOK /\ [Next]_vars => TypeOK'
  <1> SUFFICES ASSUME TypeOK, [Next]_vars PROVE TypeOK'
    OBVIOUS
  <1> USE DEF TypeOK, ListenerTypeOK, StoreTypeOK
  <1>1. ASSUME NEW c \in Containers, DockerEvent(c) PROVE TypeOK'
    <2>1. PICK status \in AnnouncedStatus :
            /\ Announced(c, status)
            /\ Announce([c |-> c, status |-> status, ver |-> ver[c] + 1])
      BY <1>1 DEF DockerEvent
    <2>2. /\ DockerTypeOK'
          /\ ver[c] + 1 \in 0..MaxChanges
      BY <2>1, ChangeType
    <2>3. [c |-> c, status |-> status, ver |-> ver[c] + 1] \in Event
      BY <2>2 DEF Event, EventStatus
    <2>4. ListenerTypeOK'
      BY <2>1, <2>3 DEF Announce
    <2> QED
      BY <1>1, <2>2, <2>4 DEF DockerEvent, storeVars, clientVars, Pc, Work
  <1>2. ASSUME NEW c \in Containers, OtherEvent(c) PROVE TypeOK'
    <2>1. [c |-> c, status |-> "other", ver |-> 0] \in Event
      BY DEF Event, EventStatus
    <2> QED
      BY <1>2, <2>1 DEF OtherEvent, Announce, dockerVars, storeVars, clientVars,
                        historyVars, DockerTypeOK
  <1>3. ASSUME NEW c \in Containers, DockerSilent(c) PROVE TypeOK'
    BY <1>3 DEF DockerSilent, MarkDead, listenerVars, storeVars, clientVars,
                historyVars, DockerTypeOK, DockStatus
  <1>4. CASE Connect \/ Disconnect \/ MonitorStops
    BY <1>4 DEF Connect, Disconnect, MonitorStops, MonitorConnect, StreamEnds, MonitorDisable,
                dockerVars, storeVars, clientVars, historyVars, DockerTypeOK
  <1>5. CASE MonitorStep
    BY <1>5 DEF MonitorStep, MonitorEvent,
                dockerVars, storeVars, clientVars, historyVars, DockerTypeOK
  <1>6. ASSUME NEW e \in spawned, SenderStep(e) PROVE TypeOK'
    BY <1>6 DEF SenderStep, SendEvent, dockerVars, storeVars, clientVars, DockerTypeOK, Newest, SenderDelivers
  <1>7. CASE Subscribe \/ ListFails \/ ListContainers \/ ListDone \/ ListenerClosed
             \/ Wake \/ Restart
    BY <1>7 DEF Subscribe, ListFails, ListContainers, ListDone, ListenerClosed, Wake, Restart,
                Goto, AddEventListener, Pc,
                dockerVars, listenerVars, storeVars, historyVars, DockerTypeOK
  <1>8. ASSUME NEW c \in Containers, InspectFails(c) PROVE TypeOK'
    BY <1>8 DEF InspectFails, dockerVars, listenerVars, storeVars, historyVars, DockerTypeOK
  <1>9. ASSUME NEW c \in Containers, InspectListed(c) PROVE TypeOK'
    <2>1. ListedState(dock[c]) \in State
      BY DEF ListedState, State
    <2> QED
      BY <1>9, <2>1 DEF InspectListed, Goto, Pc, Work, dockerVars, listenerVars, storeVars, DockerTypeOK
  <1>10. CASE ReaderPanics \/ \E c \in Containers : InspectRemoved(c)
    <2>1. MemoryLost /\ pc' = "crashed" /\ UNCHANGED dockerVars
      BY <1>10 DEF ReaderPanics, InspectRemoved, Goto
    <2>2. DockerTypeOK'
      BY <2>1 DEF dockerVars, DockerTypeOK
    <2>4. StoreTypeOK'
      BY <2>1 DEF MemoryLost
    <2>5. ListenerTypeOK'
      BY <2>1 DEF MemoryLost
    <2>3. work' \in Work /\ todo' \subseteq Containers /\ pc' \in Pc
      BY <2>1, IdleType DEF MemoryLost, Pc
    <2> QED
      BY <2>1, <2>2, <2>3, <2>4, <2>5 DEF MemoryLost
  <1>11. CASE StoreListed \/ ApplyEvent
    <2>1. PICK from \in {"store", "apply"}, to \in {"inspect", "recv"} : Update(from, to)
      BY <1>11 DEF StoreListed, ApplyEvent
    <2>2. work.c \in Containers /\ work.state \in State /\ work.pid \in Pids \cup {NoPid}
      BY <2>1 DEF Update, Goto, Work
    <2>3. work.state # "Destroyed" => [State |-> work.state, PID |-> work.pid] \in Entry
      BY <2>2 DEF Entry
    <2>4. StoreTypeOK'
      BY <2>1, <2>2, <2>3 DEF Update, updateContainer, SetContainer, DeleteContainer
    <2>5. work' \in Work
      BY <2>1, IdleType DEF Update
    <2> QED
      BY <2>1, <2>4, <2>5 DEF Update, Goto, Pc, dockerVars, listenerVars, DockerTypeOK
  <1>12. ASSUME NEW e \in sending, ReceiveEvent(e) PROVE TypeOK'
    BY <1>12 DEF ReceiveEvent, Receive, Event, Pc, Work, State, EventState, NoPid,
                 dockerVars, storeVars, historyVars, DockerTypeOK
  <1>13. CASE GetContainerPID
    <2>1. (IF Exists(work.c) THEN dockPid[work.c] ELSE NoPid) \in Pids \cup {NoPid}
      BY <1>13 DEF GetContainerPID, Goto, DockerTypeOK
    <2>2. work' \in Work /\ work'.c = work.c
      BY <1>13, <2>1 DEF GetContainerPID, Work
    <2> QED
      BY <1>13, <2>2 DEF GetContainerPID, Goto, Pc, dockerVars, listenerVars, storeVars,
                         DockerTypeOK
  <1>16. CASE GetContainerPIDFails
    BY <1>16, IdleType DEF GetContainerPIDFails, Goto, Pc,
                           dockerVars, listenerVars, storeVars, DockerTypeOK
  <1>14. CASE Unsubscribe
    BY <1>14 DEF Unsubscribe, RemoveListener, Goto, Pc,
                 dockerVars, storeVars, historyVars, DockerTypeOK
  <1>18. CASE StopMonitor
    <2>1. stale' \in [Containers -> BOOLEAN]
      BY <1>18 DEF StopMonitor, Lost, Newest
    <2> QED
      BY <1>18, <2>1 DEF StopMonitor, DisableEventMonitoring, Goto, Pc,
                         dockerVars, storeVars, DockerTypeOK
  <1>17. ASSUME NEW e \in spawned, NobodyListens(e) PROVE TypeOK'
    BY <1>17 DEF NobodyListens, ErrNoListeners, Lost, Newest,
                 dockerVars, storeVars, clientVars, DockerTypeOK
  <1>15. CASE UNCHANGED vars
    BY <1>15 DEF vars, dockerVars, listenerVars, storeVars, clientVars, historyVars, DockerTypeOK
  <1> QED
    BY <1>1, <1>2, <1>3, <1>4, <1>5, <1>6, <1>7, <1>8, <1>9, <1>10, <1>11, <1>12, <1>13,
       <1>14, <1>15, <1>16, <1>17, <1>18
       DEF Next, Daemon, Library, Senders, Start, DaemonAnswers, LocalStep

\* The types of all variables hold in every reachable state of DockerClient.
THEOREM TypeCorrect == Spec => []TypeOK
  BY TypeInit, TypeStep, PTL DEF Spec

-------------------------------------------------------------------------------
\* Queueing an event adds it to the stream's elements.
LEMMA AppendElements ==
  ASSUME NEW s \in Seq(Event), NEW e \in Event
  PROVE  Elements(Append(s, e)) = Elements(s) \cup {e}
  BY DEF Elements

\* The monitor loop moves the first event on and keeps the others.
LEMMA TakeElements ==
  ASSUME NEW s \in Seq(Event), s # <<>>
  PROVE  Elements(s) = {Head(s)} \cup Elements(Tail(s))
  <1>1. Len(Tail(s)) = Len(s) - 1 /\ Len(s) \in Nat \ {0}
    OBVIOUS
  <1>2. \A i \in 1..Len(Tail(s)) : Tail(s)[i] = s[i + 1]
    OBVIOUS
  <1>3. ASSUME NEW i \in 1..Len(s) PROVE s[i] \in {Head(s)} \cup Elements(Tail(s))
    <2>1. CASE i = 1
      BY <2>1
    <2>2. CASE i # 1
      <3>1. i - 1 \in 1..Len(Tail(s)) /\ Tail(s)[i - 1] = s[i]
        BY <1>1, <1>2, <2>2
      <3> QED
        BY <3>1 DEF Elements
    <2> QED
      BY <2>1, <2>2
  <1>4. ASSUME NEW i \in 1..Len(Tail(s)) PROVE Tail(s)[i] \in Elements(s)
    <2>1. i + 1 \in 1..Len(s) /\ Tail(s)[i] = s[i + 1]
      BY <1>1, <1>2
    <2> QED
      BY <2>1 DEF Elements
  <1>5. Head(s) \in Elements(s)
    BY <1>1 DEF Elements
  <1> QED
    BY <1>3, <1>4, <1>5 DEF Elements

\* A step that touches neither ids nor entries, loses no event and is not
\* part of an update keeps PidInv.
LEMMA QuietStep ==
  ASSUME PidInv, InFlight \subseteq InFlight',
         UNCHANGED <<dockPid, ver, containers, work, stale>>,
         \A c \in Containers : Exists(c) <=> Exists(c)',
         \/ pc' = pc
         \/ pc \notin {"pid", "store", "apply"} /\ pc' \notin {"pid", "store", "apply"}
  PROVE  PidInv'
  BY DEF PidInv, OnItsWay, Newest, Updating, PidRight, Found

\* A step that loses the events es, and knows it, keeps PidInv.
LEMMA LossStep ==
  ASSUME PidInv, NEW es, InFlight \subseteq InFlight' \cup es,
         UNCHANGED <<dock, dockPid, ver, containers, work>>,
         \A c \in Containers : stale'[c] <=> (stale[c] \/ Lost(c, es)),
         \/ pc' = pc
         \/ pc \notin {"pid", "store", "apply"} /\ pc' \notin {"pid", "store", "apply"}
  PROVE  PidInv'
  <1>1. ASSUME NEW c \in Containers, ~stale'[c], ~OnItsWay(c)'
        PROVE  ~stale[c] /\ ~OnItsWay(c)
    BY <1>1 DEF OnItsWay, Newest, Lost
  <1> QED
    BY <1>1 DEF PidInv, Updating, PidRight, Found, Exists

\* A change of c gives no process to a container that does not exist and
\* leaves the other containers alone.
LEMMA ChangeExists ==
  ASSUME DockerTypeOK, NEW c \in Containers, NEW status \in AnnouncedStatus,
         Announced(c, status)
  PROVE  /\ ~Exists(c)' => dockPid'[c] = NoPid
         /\ \A d \in Containers \ {c} :
              dock'[d] = dock[d] /\ dockPid'[d] = dockPid[d] /\ ver'[d] = ver[d]
  <1>1. ASSUME NEW from, NEW to, NEW p, Change(c, from, to, p),
               to \in {"new", "gone"} => p = NoPid
        PROVE  /\ ~Exists(c)' => dockPid'[c] = NoPid
               /\ \A d \in Containers \ {c} :
                    dock'[d] = dock[d] /\ dockPid'[d] = dockPid[d] /\ ver'[d] = ver[d]
    BY <1>1 DEF Change, Exists, DockerTypeOK
  <1>2. CASE Create(c) \/ Destroy(c)
    BY <1>1, <1>2 DEF Create, Destroy
  <1>3. CASE StartContainer(c)
    BY <1>1, <1>3 DEF StartContainer
  <1>4. CASE Die(c)
    BY <1>1, <1>4 DEF Die
  <1>5. CASE Pause(c) \/ Unpause(c)
    BY <1>1, <1>5 DEF Pause, Unpause
  <1> QED
    BY <1>2, <1>3, <1>4, <1>5 DEF Announced

LEMMA PidInit == Init => PidInv
  BY DEF Init, DockerInit, PidInv, Exists

LEMMA PidStep == TypeOK /\ PidInv /\ [Next]_vars => PidInv'
  <1> SUFFICES ASSUME TypeOK, PidInv, [Next]_vars PROVE PidInv'
    OBVIOUS
  <1>1. ASSUME NEW c \in Containers, DockerEvent(c) PROVE PidInv'
    <2>1. PICK status \in AnnouncedStatus :
            /\ Announced(c, status)
            /\ Announce([c |-> c, status |-> status, ver |-> ver[c] + 1])
      BY <1>1 DEF DockerEvent
    <2> DEFINE e == [c |-> c, status |-> status, ver |-> ver[c] + 1]
    <2>2. /\ ver[c] + 1 \in 0..MaxChanges
          /\ ver' = [ver EXCEPT ![c] = @ + 1]
      BY <2>1, ChangeType DEF TypeOK
    <2>3. /\ ~Exists(c)' => dockPid'[c] = NoPid
          /\ \A d \in Containers \ {c} :
               dock'[d] = dock[d] /\ dockPid'[d] = dockPid[d] /\ ver'[d] = ver[d]
      BY <2>1, ChangeExists DEF TypeOK
    <2>4. e \in Event
      BY <2>2 DEF Event, EventStatus
    <2>5. InFlight' = InFlight \cup (IF monitor = "on" THEN {e} ELSE {})
      BY <2>1, <2>4, AppendElements DEF Announce, InFlight, TypeOK, ListenerTypeOK
    <2>6. stale'[c] \/ OnItsWay(c)'
      <3>1. CASE monitor = "on"
        <4>1. e \in InFlight' /\ e.c = c /\ e.ver = ver'[c] /\ e.status \in AnnouncedStatus
          BY <3>1, <2>2, <2>5 DEF TypeOK, DockerTypeOK
        <4> QED
          BY <4>1 DEF OnItsWay, Newest
      <3>2. CASE monitor # "on"
        BY <1>1, <3>2 DEF DockerEvent, TypeOK
      <3> QED
        BY <3>1, <3>2
    <2>7. ASSUME NEW d \in Containers \ {c} PROVE OnItsWay(d)' <=> OnItsWay(d)
      BY <1>1, <2>3, <2>5 DEF DockerEvent, OnItsWay, Newest, clientVars
    <2>8. ASSUME NEW d \in Containers \ {c}, ~stale'[d] /\ ~OnItsWay(d)'
          PROVE  IF Updating(d)' THEN work'.pid = dockPid'[d] ELSE PidRight(d)'
      BY <1>1, <2>3, <2>7, <2>8
         DEF DockerEvent, PidInv, Updating, PidRight, Found, clientVars, storeVars, TypeOK
    <2>9. ASSUME NEW d \in Containers, ~Exists(d)' PROVE dockPid'[d] = NoPid
      BY <2>3, <2>9 DEF PidInv, Exists
    <2> QED
      BY <2>6, <2>8, <2>9 DEF PidInv
  <1>2. ASSUME NEW c \in Containers, OtherEvent(c) PROVE PidInv'
    <2>1. [c |-> c, status |-> "other", ver |-> 0] \in Event
      BY DEF Event, EventStatus, TypeOK, DockerTypeOK
    <2>2. InFlight \subseteq InFlight'
      BY <1>2, <2>1, AppendElements DEF OtherEvent, Announce, InFlight, TypeOK, ListenerTypeOK
    <2> QED
      BY <1>2, <2>2, QuietStep DEF OtherEvent, dockerVars, storeVars, clientVars, historyVars, Exists
  <1>3. ASSUME NEW c \in Containers, DockerSilent(c) PROVE PidInv'
    <2>1. \A d \in Containers : Exists(d) <=> Exists(d)'
      BY <1>3 DEF DockerSilent, MarkDead, Exists, TypeOK, DockerTypeOK
    <2> QED
      BY <1>3, <2>1, QuietStep
         DEF DockerSilent, MarkDead, listenerVars, storeVars, clientVars, historyVars, InFlight
  <1>4. CASE Connect \/ Disconnect \/ MonitorStops
    BY <1>4, QuietStep
       DEF Connect, Disconnect, MonitorStops, MonitorConnect, StreamEnds, MonitorDisable,
           dockerVars, storeVars, clientVars, historyVars, InFlight, Exists
  <1>5. CASE MonitorStep
    <2>1. InFlight \subseteq InFlight'
      BY <1>5, TakeElements DEF MonitorStep, MonitorEvent, InFlight, TypeOK, ListenerTypeOK
    <2> QED
      BY <1>5, <2>1, QuietStep
         DEF MonitorStep, MonitorEvent, dockerVars, storeVars, clientVars, historyVars, Exists
  <1>6. ASSUME NEW e \in spawned, SenderStep(e) PROVE PidInv'
    <2>1. CASE SenderDelivers
      <3>1. InFlight \subseteq InFlight'
        BY <1>6, <2>1 DEF SenderStep, SendEvent, InFlight
      <3>2. UNCHANGED stale
        BY <1>6, <2>1 DEF SenderStep, TypeOK, ListenerTypeOK, Event
      <3> QED
        BY <1>6, <3>1, <3>2, QuietStep
           DEF SenderStep, dockerVars, storeVars, clientVars, Exists
    <2>2. CASE ~SenderDelivers
      <3>1. InFlight \subseteq InFlight' \cup {e}
        BY <1>6 DEF SenderStep, SendEvent, InFlight
      <3>2. e.c \in Containers
        BY DEF TypeOK, ListenerTypeOK, Event
      <3>3. \A c \in Containers : stale'[c] <=> (stale[c] \/ (c = e.c /\ Newest(e)))
        BY <1>6, <2>2, <3>2 DEF SenderStep, TypeOK
      <3>4. ASSUME NEW c \in Containers, ~stale'[c], ~OnItsWay(c)'
            PROVE  ~stale[c] /\ ~OnItsWay(c)
        BY <1>6, <3>1, <3>3, <3>4 DEF SenderStep, OnItsWay, Newest, dockerVars, clientVars
      <3> QED
        BY <1>6, <3>4 DEF SenderStep, PidInv, Updating, PidRight, Found, Exists,
                          dockerVars, storeVars, clientVars
    <2> QED
      BY <2>1, <2>2
  <1>7. CASE Subscribe \/ ListFails \/ ListContainers \/ ListDone \/ ListenerClosed
             \/ Wake \/ Restart
    BY <1>7, QuietStep
       DEF Subscribe, ListFails, ListContainers, ListDone, ListenerClosed, Wake, Restart,
           Goto, AddEventListener, InFlight, Exists,
           dockerVars, listenerVars, storeVars, historyVars
  <1>8. ASSUME NEW c \in Containers, InspectFails(c) PROVE PidInv'
    BY <1>8, QuietStep
       DEF InspectFails, InFlight, Exists, dockerVars, listenerVars, storeVars, historyVars
  <1>9. ASSUME NEW c \in Containers, InspectListed(c) PROVE PidInv'
    <2>1. InFlight' = InFlight /\ UNCHANGED <<ver, dock, dockPid, containers>>
      BY <1>9 DEF InspectListed, InFlight, listenerVars, dockerVars, storeVars
    <2>2. /\ pc = "inspect" /\ pc' = "store"
          /\ work'.c = c /\ work'.pid = dockPid[c]
          /\ \A d \in Containers \ {c} : stale'[d] = stale[d]
      BY <1>9 DEF InspectListed, Goto, TypeOK
    <2> QED
      BY <2>1, <2>2 DEF PidInv, OnItsWay, Newest, Updating, PidRight, Found, Exists
  <1>10. CASE ReaderPanics \/ \E c \in Containers : InspectRemoved(c)
    <2>1. MemoryLost /\ UNCHANGED dockerVars
      BY <1>10 DEF ReaderPanics, InspectRemoved
    <2> QED
      BY <2>1 DEF MemoryLost, PidInv, dockerVars, Exists
  <1>11. CASE StoreListed \/ ApplyEvent
    <2>1. PICK from \in {"store", "apply"}, to \in {"inspect", "recv"} : Update(from, to)
      BY <1>11 DEF StoreListed, ApplyEvent
    <2>2. /\ InFlight' = InFlight
          /\ UNCHANGED <<ver, dock, dockPid, stale>>
          /\ pc \in {"store", "apply"} /\ pc' \in {"inspect", "recv"}
      BY <2>1 DEF Update, Goto, InFlight, listenerVars, dockerVars
    <2>3. \A c \in Containers : OnItsWay(c)' <=> OnItsWay(c)
      BY <2>2 DEF OnItsWay, Newest
    <2>4. ASSUME NEW c \in Containers, ~stale[c], ~OnItsWay(c) PROVE PidRight(c)'
      <3>1. CASE c = work.c
        <4>1. work.pid = dockPid[c]
          BY <2>2, <2>4, <3>1 DEF PidInv, Updating
        <4>2. containers'[c] \in {Absent, [State |-> work.state, PID |-> work.pid]}
          BY <2>1, <3>1 DEF Update, updateContainer, SetContainer, DeleteContainer,
                            TypeOK, StoreTypeOK
        <4> QED
          BY <2>2, <4>1, <4>2 DEF PidRight, Found
      <3>2. CASE c # work.c
        <4>1. containers'[c] = containers[c]
          BY <2>1, <3>2 DEF Update, updateContainer, SetContainer, DeleteContainer,
                            TypeOK, StoreTypeOK
        <4>2. PidRight(c)
          BY <2>4, <3>2 DEF PidInv, Updating
        <4> QED
          BY <2>2, <4>1, <4>2 DEF PidRight, Found
      <3> QED
        BY <3>1, <3>2
    <2> QED
      BY <2>2, <2>3, <2>4 DEF PidInv, Updating, Exists
  <1>12. ASSUME NEW e \in sending, ReceiveEvent(e) PROVE PidInv'
    <2>1. /\ pc = "recv" /\ InFlight \subseteq InFlight' \cup {e}
          /\ UNCHANGED <<ver, dock, dockPid, containers, stale>>
          /\ pc' \in {"recv", "pid"}
      BY <1>12 DEF ReceiveEvent, Receive, InFlight, dockerVars, storeVars, historyVars
    <2>2. Newest(e) => pc' = "pid" /\ work'.c = e.c
      BY <1>12 DEF ReceiveEvent, Newest
    <2>3. ASSUME NEW c \in Containers, ~OnItsWay(c)' PROVE ~OnItsWay(c)
      BY <2>1, <2>2, <2>3 DEF OnItsWay, Newest
    <2> QED
      BY <2>1, <2>3 DEF PidInv, Updating, PidRight, Found, Exists
  <1>13. CASE GetContainerPID
    <2>1. /\ pc = "pid" /\ pc' = "apply" /\ work.c \in Containers /\ work'.c = work.c
          /\ InFlight' = InFlight /\ UNCHANGED <<ver, dock, dockPid, containers>>
          /\ \A d \in Containers \ {work.c} : stale'[d] = stale[d]
      BY <1>13 DEF GetContainerPID, Goto, TypeOK, Work, InFlight,
                   listenerVars, dockerVars, storeVars
    <2>2. work'.pid = dockPid[work.c]
      <3>1. work'.pid = IF Exists(work.c) THEN dockPid[work.c] ELSE NoPid
        BY <1>13 DEF GetContainerPID, TypeOK, Work
      <3> QED
        BY <2>1, <3>1 DEF PidInv
    <2> QED
      BY <2>1, <2>2 DEF PidInv, OnItsWay, Newest, Updating, PidRight, Found, Exists
  <1>14. CASE GetContainerPIDFails
    <2>1. /\ pc = "pid" /\ pc' = "recv" /\ work.c \in Containers
          /\ InFlight' = InFlight /\ UNCHANGED <<ver, dock, dockPid, containers>>
          /\ stale'[work.c]
          /\ \A d \in Containers \ {work.c} : stale'[d] = stale[d]
      BY <1>14 DEF GetContainerPIDFails, Goto, TypeOK, InFlight,
                   listenerVars, dockerVars, storeVars
    <2> QED
      BY <2>1 DEF PidInv, OnItsWay, Newest, Updating, PidRight, Found, Exists
  <1>15. CASE Unsubscribe
    BY <1>15, QuietStep
       DEF Unsubscribe, RemoveListener, Goto, InFlight, Exists, dockerVars, storeVars, historyVars
  <1>17. CASE StopMonitor
    <2>1. /\ UNCHANGED <<dock, dockPid, ver, containers, work>>
          /\ InFlight \subseteq InFlight' \cup Elements(stream)
          /\ pc = "disable" /\ pc' = "sleep"
      BY <1>17 DEF StopMonitor, DisableEventMonitoring, Goto, InFlight, dockerVars, storeVars
    <2>2. \A c \in Containers : stale'[c] <=> (stale[c] \/ Lost(c, Elements(stream)))
      BY <1>17 DEF StopMonitor
    <2> QED
      BY <2>1, <2>2, LossStep
  <1>18. ASSUME NEW e \in spawned, NobodyListens(e) PROVE PidInv'
    <2>1. /\ UNCHANGED <<dock, dockPid, ver, containers, work, pc>>
          /\ InFlight \subseteq InFlight' \cup (Elements(stream) \cup {e})
      BY <1>18 DEF NobodyListens, ErrNoListeners, InFlight, dockerVars, storeVars, clientVars
    <2>2. \A c \in Containers : stale'[c] <=> (stale[c] \/ Lost(c, Elements(stream) \cup {e}))
      BY <1>18 DEF NobodyListens
    <2> QED
      BY <2>1, <2>2, LossStep
  <1>16. CASE UNCHANGED vars
    BY <1>16, QuietStep
       DEF vars, dockerVars, listenerVars, storeVars, clientVars, historyVars, InFlight, Exists
  <1> QED
    BY <1>1, <1>2, <1>3, <1>4, <1>5, <1>6, <1>7, <1>8, <1>9, <1>10, <1>11, <1>12, <1>13,
       <1>14, <1>15, <1>16, <1>17, <1>18
       DEF Next, Daemon, Library, Senders, Start, DaemonAnswers, LocalStep

\* Whatever the order in which events arrive, the process id in the store is
\* the container's own once its newest event has been handled.
THEOREM PidsFresh == Spec => []PidFresh
  <1>1. PidInv => PidFresh
    BY DEF PidInv, PidFresh
  <1> QED
    BY <1>1, TypeCorrect, PidInit, PidStep, PTL DEF Spec
-------------------------------------------------------------------------------
(***************************************************************************)
(* ExactAgrees.  It is not inductive: what an update leaves behind depends *)
(* on the event it is for and on when the process id was read.  ExactInv   *)
(* follows a change from the daemon through the event to the store: as     *)
(* long as it is the container's newest one, what is on its way says what  *)
(* the daemon says.                                                        *)
(***************************************************************************)

\* The status an event leaves its container in, as long as it is the newest.
Fits(status, d) ==
  CASE status = "create" -> d = "created"
    [] status \in {"start", "unpause"} -> d = "running"
    [] status = "pause" -> d = "paused"
    [] status = "destroy" -> d = "gone"
    [] OTHER -> d \in {"restarting", "exited", "oom", "dead"}

\* The states that an event or a listing may record for a container whose
\* status is d.  A container that is not running is recorded by an event and
\* deleted by a listing.
StateFits(state, d) ==
  CASE d = "running" -> state = "Running"
    [] d = "paused" -> state = "Stopped"
    [] d = "created" -> state \in {"Created", "Destroyed"}
    [] d \in {"restarting", "exited", "oom", "dead"} -> state \in {"Stopped", "Destroyed"}
    [] OTHER -> state = "Destroyed"

\* Only a running or paused container has a process.
StatusPid ==
  \A c \in Containers : dock[c] \notin {"running", "paused"} => dockPid[c] = NoPid

\* No event is from the future or about a container that never existed, and the
\* newest one fits its container.
EventFits(e) ==
  e.status \in AnnouncedStatus =>
    /\ dock[e.c] # "new"
    /\ e.ver <= ver[e.c]
    /\ e.ver = ver[e.c] => Fits(e.status, dock[e.c])

\* What Start is about to record.
WorkFits ==
  pc \in {"pid", "store", "apply"} =>
    /\ dock[work.c] # "new"
    /\ work.ver <= ver[work.c]
    /\ work.ver = ver[work.c] =>
         /\ StateFits(work.state, dock[work.c])
         /\ pc # "pid" => work.pid = dockPid[work.c]

ExactInv ==
  /\ StatusPid
  /\ \A e \in InFlight : EventFits(e)
  /\ WorkFits
  /\ ExactAgrees

\* Nothing is on its way and no entry is exact when the process starts.
LEMMA ExactInit == Init => ExactInv
  BY DEF Init, DockerInit, ListenerInit, ExactInv, StatusPid, InFlight, Elements, WorkFits,
         ExactAgrees

\* The change of c that an event announces leaves c in a status that fits the
\* event, without a process unless it is running or paused.
LEMMA ChangeFits ==
  ASSUME DockerTypeOK, NEW c \in Containers, NEW status \in AnnouncedStatus,
         Announced(c, status)
  PROVE  /\ Fits(status, dock'[c]) /\ dock'[c] # "new"
         /\ dock'[c] \notin {"running", "paused"} => dockPid'[c] = NoPid
  <1>1. ASSUME NEW from, NEW to, NEW p, Change(c, from, to, p)
        PROVE  dock'[c] = to /\ dockPid'[c] = p
    BY <1>1 DEF Change, DockerTypeOK
  <1>2. CASE status = "create" /\ Create(c)
    BY <1>1, <1>2 DEF Create, Fits
  <1>3. CASE status = "start" /\ StartContainer(c)
    <2>1. PICK p : Change(c, {"created", "exited", "oom", "restarting"}, "running", p)
      BY <1>3 DEF StartContainer
    <2> QED
      BY <1>1, <1>3, <2>1 DEF Fits
  <1>4. CASE status = "die" /\ Die(c)
    <2>1. PICK to \in {"exited", "oom", "restarting"} : Change(c, {"running"}, to, NoPid)
      BY <1>4 DEF Die
    <2> QED
      BY <1>1, <1>4, <2>1 DEF Fits
  <1>5. CASE status = "pause" /\ Pause(c)
    BY <1>1, <1>5 DEF Pause, Fits
  <1>6. CASE status = "unpause" /\ Unpause(c)
    BY <1>1, <1>6 DEF Unpause, Fits
  <1>7. CASE status = "destroy" /\ Destroy(c)
    BY <1>1, <1>7 DEF Destroy, Fits
  <1> QED
    BY <1>2, <1>3, <1>4, <1>5, <1>6, <1>7 DEF Announced

\* The state that handleEvent computes from the newest event fits.
LEMMA EventStateFits ==
  ASSUME NEW status \in AnnouncedStatus, NEW d, Fits(status, d)
  PROVE  StateFits(EventState(status), d)
  BY DEF AnnouncedStatus, Fits, StateFits, EventState

\* So does the state that getContainers computes from what it inspects.
LEMMA ListedStateFits ==
  ASSUME NEW d \in DockStatus \ {"new", "gone"}
  PROVE  StateFits(ListedState(d), d)
  BY DEF DockStatus, StateFits, ListedState

\* An entry written from a fitting state and the container's own process id
\* agrees with the daemon.
LEMMA FittingAgrees ==
  ASSUME NEW c \in Containers, NEW state \in State, NEW pid,
         DockerTypeOK, StatusPid, StateFits(state, dock[c]), pid = dockPid[c],
         containers'[c] = IF state = "Destroyed" THEN Absent ELSE [State |-> state, PID |-> pid],
         UNCHANGED <<dock, dockPid>>
  PROVE  Agrees(c)'
  <1>1. CASE dock[c] = "running"
    BY <1>1 DEF StateFits, Agrees
  <1>2. CASE dock[c] = "paused"
    BY <1>2 DEF StateFits, Agrees
  <1>3. CASE dock[c] = "created"
    BY <1>3 DEF StateFits, Agrees, StatusPid
  <1>4. CASE dock[c] \in {"restarting", "exited", "oom", "dead"}
    BY <1>4 DEF StateFits, Agrees, StatusPid
  <1>5. CASE dock[c] \in {"new", "gone"}
    BY <1>5 DEF StateFits, Agrees
  <1> QED
    BY <1>1, <1>2, <1>3, <1>4, <1>5 DEF DockerTypeOK, DockStatus

\* What is on its way to the plugin is an event.
LEMMA InFlightEvents == TypeOK => InFlight \subseteq Event
  <1>1. ASSUME TypeOK PROVE Elements(stream) \subseteq Event
    BY <1>1 DEF TypeOK, ListenerTypeOK, Elements
  <1> QED
    BY <1>1 DEF InFlight, TypeOK, ListenerTypeOK

\* A step that brings no event, does not change the daemon or the store and is
\* not part of an update keeps ExactInv.
LEMMA QuietExact ==
  ASSUME ExactInv, InFlight' \subseteq InFlight,
         UNCHANGED <<dock, dockPid, ver, containers, work, exact>>,
         \/ pc' = pc
         \/ pc' \notin {"pid", "store", "apply"}
  PROVE  ExactInv'
  BY DEF ExactInv, StatusPid, EventFits, WorkFits, ExactAgrees, Agrees

\* ExactInv is inductive: one step for every action.
LEMMA ExactStep == TypeOK /\ ExactInv /\ [Next]_vars => ExactInv'
  <1> SUFFICES ASSUME TypeOK, ExactInv, [Next]_vars PROVE ExactInv'
    OBVIOUS
  <1>1. ASSUME NEW c \in Containers, DockerEvent(c) PROVE ExactInv'
    <2>1. PICK status \in AnnouncedStatus :
            /\ Announced(c, status)
            /\ Announce([c |-> c, status |-> status, ver |-> ver[c] + 1])
      BY <1>1 DEF DockerEvent
    <2>2. /\ ver[c] + 1 \in 0..MaxChanges /\ ver' = [ver EXCEPT ![c] = @ + 1]
          /\ \A d \in Containers \ {c} :
               dock'[d] = dock[d] /\ dockPid'[d] = dockPid[d] /\ ver'[d] = ver[d]
      BY <2>1, ChangeType, ChangeExists DEF TypeOK
    <2>3. /\ Fits(status, dock'[c]) /\ dock'[c] # "new"
          /\ dock'[c] \notin {"running", "paused"} => dockPid'[c] = NoPid
      BY <2>1, ChangeFits DEF TypeOK
    <2>4. ver'[c] = ver[c] + 1 /\ \A d \in Containers : ver[d] \in Nat
      BY <2>2 DEF TypeOK, DockerTypeOK
    <2>5. PICK e \in Event : e = [c |-> c, status |-> status, ver |-> ver[c] + 1]
      BY <2>2 DEF Event, EventStatus
    <2>6. InFlight' \subseteq InFlight \cup {e}
      BY <2>1, <2>5, AppendElements
         DEF Announce, InFlight, TypeOK, ListenerTypeOK
    <2>7. StatusPid'
      BY <2>2, <2>3 DEF StatusPid, ExactInv
    <2>8. EventFits(e)'
      BY <2>3, <2>4, <2>5 DEF EventFits
    <2>9. ASSUME NEW g \in InFlight PROVE EventFits(g)'
      <3>1. g.c \in Containers /\ g.ver \in Nat
        BY InFlightEvents DEF Event
      <3>2. EventFits(g)
        BY DEF ExactInv
      <3>3. CASE g.c = c
        BY <2>3, <2>4, <3>1, <3>2, <3>3 DEF EventFits
      <3>4. CASE g.c # c
        BY <2>2, <3>1, <3>2, <3>4 DEF EventFits
      <3> QED
        BY <3>3, <3>4
    <2>10. UNCHANGED <<pc, work, containers>>
      BY <1>1 DEF DockerEvent, clientVars, storeVars
    <2>11. WorkFits'
      <3>1. CASE pc \in {"pid", "store", "apply"}
        <4>1. work.c \in Containers /\ work.ver \in Nat
          BY <3>1 DEF TypeOK, Work
        <4>2. CASE work.c = c
          BY <2>3, <2>4, <2>10, <4>1, <4>2 DEF WorkFits, ExactInv
        <4>3. CASE work.c # c
          BY <2>2, <2>10, <4>1, <4>3 DEF WorkFits, ExactInv
        <4> QED
          BY <4>2, <4>3
      <3> QED
        BY <2>10, <3>1 DEF WorkFits
    <2>12. ASSUME NEW d \in Containers, exact'[d] PROVE Agrees(d)'
      <3>1. d # c /\ exact[d]
        BY <1>1, <2>12 DEF DockerEvent, TypeOK
      <3> QED
        BY <2>2, <2>10, <3>1 DEF ExactInv, ExactAgrees, Agrees
    <2>13. ExactAgrees'
      BY <2>12 DEF ExactAgrees
    <2> QED
      BY <2>6, <2>7, <2>8, <2>9, <2>11, <2>13 DEF ExactInv
  <1>2. ASSUME NEW c \in Containers, OtherEvent(c) PROVE ExactInv'
    <2> DEFINE e == [c |-> c, status |-> "other", ver |-> 0]
    <2>1. e \in Event
      BY DEF Event, EventStatus, TypeOK, DockerTypeOK
    <2>2. InFlight' \subseteq InFlight \cup {e}
      BY <1>2, <2>1, AppendElements DEF OtherEvent, Announce, InFlight, TypeOK, ListenerTypeOK
    <2>3. EventFits(e)'
      BY DEF EventFits, AnnouncedStatus
    <2> QED
      BY <1>2, <2>2, <2>3
         DEF OtherEvent, dockerVars, storeVars, clientVars, historyVars,
             ExactInv, StatusPid, EventFits, WorkFits, ExactAgrees, Agrees
  <1>3. ASSUME NEW c \in Containers, DockerSilent(c) PROVE ExactInv'
    <2>1. /\ dock[c] \in {"exited", "oom"} /\ dock'[c] = "dead"
          /\ \A d \in Containers \ {c} : dock'[d] = dock[d]
          /\ InFlight' = InFlight
          /\ UNCHANGED <<dockPid, ver, containers, pc, work, exact>>
      BY <1>3 DEF DockerSilent, MarkDead, listenerVars, storeVars, clientVars, historyVars,
                  InFlight, TypeOK, DockerTypeOK
    <2>2. StatusPid'
      BY <2>1 DEF ExactInv, StatusPid
    <2>3. \A status \in AnnouncedStatus : Fits(status, dock[c]) => Fits(status, dock'[c])
      BY <2>1 DEF Fits
    <2>4. \A state : StateFits(state, dock[c]) => StateFits(state, dock'[c])
      BY <2>1 DEF StateFits
    <2>5. Agrees(c) => Agrees(c)'
      BY <2>1 DEF Agrees
    <2>6. ASSUME NEW e \in InFlight PROVE EventFits(e)'
      <3>1. e.c \in Containers
        BY InFlightEvents DEF Event
      <3> QED
        BY <2>1, <2>3, <3>1 DEF EventFits, ExactInv
    <2>7. WorkFits'
      BY <2>1, <2>4 DEF WorkFits, ExactInv, TypeOK
    <2>8. ExactAgrees'
      <3>1. ASSUME NEW d \in Containers, exact[d] PROVE Agrees(d)'
        BY <2>1, <2>5, <3>1 DEF ExactInv, ExactAgrees, Agrees
      <3> QED
        BY <2>1, <3>1 DEF ExactAgrees
    <2> QED
      BY <2>1, <2>2, <2>6, <2>7, <2>8 DEF ExactInv
  <1>4. CASE Connect \/ Disconnect \/ MonitorStops
    BY <1>4, QuietExact
       DEF Connect, Disconnect, MonitorStops, MonitorConnect, StreamEnds, MonitorDisable,
           dockerVars, storeVars, clientVars, historyVars, InFlight
  <1>5. CASE MonitorStep
    <2>1. InFlight' \subseteq InFlight
      BY <1>5, TakeElements DEF MonitorStep, MonitorEvent, InFlight, TypeOK, ListenerTypeOK
    <2> QED
      BY <1>5, <2>1, QuietExact
         DEF MonitorStep, MonitorEvent, dockerVars, storeVars, clientVars, historyVars
  <1>6. ASSUME NEW e \in spawned, SenderStep(e) PROVE ExactInv'
    <2>1. InFlight' \subseteq InFlight
      BY <1>6 DEF SenderStep, SendEvent, InFlight
    <2> QED
      BY <1>6, <2>1, QuietExact DEF SenderStep, dockerVars, storeVars, clientVars
  <1>7. CASE Subscribe \/ ListFails \/ ListContainers \/ ListDone \/ ListenerClosed
             \/ Wake \/ Restart
    BY <1>7, QuietExact
       DEF Subscribe, ListFails, ListContainers, ListDone, ListenerClosed, Wake, Restart,
           Goto, AddEventListener, InFlight,
           dockerVars, listenerVars, storeVars, historyVars
  <1>8. ASSUME NEW c \in Containers, InspectFails(c) PROVE ExactInv'
    BY <1>8, QuietExact
       DEF InspectFails, InFlight, dockerVars, listenerVars, storeVars, historyVars
  <1>9. ASSUME NEW c \in Containers, InspectListed(c) PROVE ExactInv'
    <2>1. InFlight' = InFlight /\ UNCHANGED <<ver, dock, dockPid, containers, exact>>
      BY <1>9 DEF InspectListed, InFlight, listenerVars, dockerVars, storeVars
    <2>2. pc' = "store" /\ work' = [c |-> c, state |-> ListedState(dock[c]),
                                    pid |-> dockPid[c], ver |-> ver[c]]
      BY <1>9 DEF InspectListed, Goto
    <2>3. StateFits(ListedState(dock[c]), dock[c]) /\ dock[c] # "new"
      BY <1>9, ListedStateFits DEF InspectListed, Exists, TypeOK, DockerTypeOK
    <2>4. WorkFits'
      BY <2>1, <2>2, <2>3 DEF WorkFits, TypeOK, DockerTypeOK
    <2> QED
      BY <2>1, <2>4 DEF ExactInv, StatusPid, EventFits, ExactAgrees, Agrees
  <1>10. CASE ReaderPanics \/ \E c \in Containers : InspectRemoved(c)
    <2>1. MemoryLost /\ pc' = "crashed" /\ UNCHANGED dockerVars
      BY <1>10 DEF ReaderPanics, InspectRemoved, Goto
    <2> QED
      BY <2>1 DEF MemoryLost, dockerVars, ExactInv, StatusPid, InFlight, Elements, WorkFits,
                  ExactAgrees
  <1>11. CASE StoreListed \/ ApplyEvent
    <2>1. PICK from \in {"store", "apply"}, to \in {"inspect", "recv"} : Update(from, to)
      BY <1>11 DEF StoreListed, ApplyEvent
    <2>2. /\ InFlight' = InFlight
          /\ UNCHANGED <<ver, dock, dockPid>>
          /\ pc \in {"store", "apply"} /\ pc' \in {"inspect", "recv"}
          /\ work.c \in Containers /\ work.state \in State
      BY <2>1 DEF Update, Goto, InFlight, listenerVars, dockerVars, TypeOK, Work
    <2>3. /\ containers'[work.c] = IF work.state = "Destroyed" THEN Absent
                                   ELSE [State |-> work.state, PID |-> work.pid]
          /\ \A d \in Containers \ {work.c} : containers'[d] = containers[d]
      BY <2>1, <2>2 DEF Update, updateContainer, SetContainer, DeleteContainer,
                        TypeOK, StoreTypeOK
    <2>4. /\ exact'[work.c] = (work.ver = ver[work.c])
          /\ \A d \in Containers \ {work.c} : exact'[d] = exact[d]
      BY <2>1, <2>2 DEF Update, TypeOK
    <2>5. ASSUME NEW c \in Containers, c = work.c, work.ver = ver[work.c] PROVE Agrees(c)'
      <3>1. PICK state \in State, pid \in {work.pid} : state = work.state /\ pid = work.pid
        BY <2>2
      <3>2. StateFits(state, dock[c]) /\ pid = dockPid[c]
        BY <2>2, <2>5, <3>1 DEF ExactInv, WorkFits
      <3>3. containers'[c] = IF state = "Destroyed" THEN Absent ELSE [State |-> state, PID |-> pid]
        BY <2>3, <2>5, <3>1
      <3>4. DockerTypeOK /\ StatusPid
        BY DEF TypeOK, ExactInv
      <3> QED
        BY <2>2, <3>2, <3>3, <3>4, FittingAgrees
    <2>6. ASSUME NEW d \in Containers \ {work.c}, exact[d] PROVE Agrees(d)'
      BY <2>2, <2>3, <2>6 DEF ExactInv, ExactAgrees, Agrees
    <2>7. ASSUME NEW d \in Containers, exact'[d] PROVE Agrees(d)'
      <3>1. CASE d = work.c
        BY <2>4, <2>5, <2>7, <3>1
      <3>2. CASE d # work.c
        BY <2>4, <2>6, <2>7, <3>2
      <3> QED
        BY <3>1, <3>2
    <2>8. ExactAgrees'
      BY <2>7 DEF ExactAgrees
    <2> QED
      BY <2>2, <2>8 DEF ExactInv, StatusPid, EventFits, WorkFits
  <1>12. ASSUME NEW e \in sending, ReceiveEvent(e) PROVE ExactInv'
    <2>1. /\ InFlight' \subseteq InFlight /\ e \in InFlight
          /\ UNCHANGED <<ver, dock, dockPid, containers, exact>>
      BY <1>12 DEF ReceiveEvent, Receive, InFlight, dockerVars, storeVars, historyVars
    <2>2. CASE e.status \in AnnouncedStatus
      <3>1. pc' = "pid" /\ work' = [c |-> e.c, state |-> EventState(e.status),
                                    pid |-> NoPid, ver |-> e.ver]
        BY <1>12, <2>2 DEF ReceiveEvent
      <3>2. EventFits(e)
        BY <2>1 DEF ExactInv
      <3>3. WorkFits'
        BY <2>1, <2>2, <3>1, <3>2, EventStateFits DEF WorkFits, EventFits
      <3> QED
        BY <2>1, <3>3 DEF ExactInv, StatusPid, EventFits, ExactAgrees, Agrees
    <2>3. CASE e.status \notin AnnouncedStatus
      BY <1>12, <2>1, <2>3, QuietExact DEF ReceiveEvent
    <2> QED
      BY <2>2, <2>3
  <1>13. CASE GetContainerPID
    <2>1. /\ pc = "pid" /\ pc' = "apply" /\ work.c \in Containers
          /\ work'.c = work.c /\ work'.state = work.state /\ work'.ver = work.ver
          /\ work'.pid = IF Exists(work.c) THEN dockPid[work.c] ELSE NoPid
          /\ InFlight' = InFlight /\ UNCHANGED <<ver, dock, dockPid, containers, exact>>
      BY <1>13 DEF GetContainerPID, Goto, TypeOK, Work, InFlight,
                   listenerVars, dockerVars, storeVars
    <2>2. work'.pid = dockPid[work.c]
      BY <2>1 DEF ExactInv, StatusPid, Exists
    <2>3. WorkFits'
      BY <2>1, <2>2 DEF ExactInv, WorkFits
    <2> QED
      BY <2>1, <2>3 DEF ExactInv, StatusPid, EventFits, ExactAgrees, Agrees
  <1>14. CASE GetContainerPIDFails
    <2>1. /\ pc' = "recv" /\ InFlight' = InFlight
          /\ UNCHANGED <<ver, dock, dockPid, containers, exact>>
      BY <1>14 DEF GetContainerPIDFails, Goto, InFlight, listenerVars, dockerVars, storeVars
    <2> QED
      BY <2>1 DEF ExactInv, StatusPid, EventFits, WorkFits, ExactAgrees, Agrees
  <1>15. CASE Unsubscribe \/ StopMonitor
    BY <1>15, QuietExact
       DEF Unsubscribe, StopMonitor, RemoveListener, DisableEventMonitoring, Goto,
           InFlight, Elements, dockerVars, storeVars, historyVars
  <1>17. ASSUME NEW e \in spawned, NobodyListens(e) PROVE ExactInv'
    <2>1. InFlight' \subseteq InFlight
      BY <1>17 DEF NobodyListens, ErrNoListeners, InFlight, Elements
    <2> QED
      BY <1>17, <2>1, QuietExact DEF NobodyListens, dockerVars, storeVars, clientVars
  <1>16. CASE UNCHANGED vars
    BY <1>16, QuietExact
       DEF vars, dockerVars, listenerVars, storeVars, clientVars, historyVars, InFlight
  <1> QED
    BY <1>1, <1>2, <1>3, <1>4, <1>5, <1>6, <1>7, <1>8, <1>9, <1>10, <1>11, <1>12, <1>13,
       <1>14, <1>15, <1>16, <1>17
       DEF Next, Daemon, Library, Senders, Start, DaemonAnswers, LocalStep

\* An entry whose last update was for the newest change of its container says
\* what the daemon says, although the state comes from the event, the process
\* id from a later call and the write is later still.
THEOREM ExactEntriesAgree == Spec => []ExactAgrees
  <1>1. ExactInv => ExactAgrees
    BY DEF ExactInv
  <1> QED
    BY <1>1, TypeCorrect, ExactInit, ExactStep, PTL DEF Spec

-------------------------------------------------------------------------------
\* Every step of the client is one that StoreClient allows, or changes nothing
\* that StoreClient talks about.  ExactInv says that what the client inspects has
\* existed.
LEMMA PromiseStep ==
    TypeOK /\ ExactInv /\ [Next]_vars => [Promise!ClientNext]_Promise!clientPromise
  <1> SUFFICES ASSUME TypeOK, ExactInv, [Next]_vars
               PROVE  Promise!ClientNext \/ UNCHANGED Promise!clientPromise
    OBVIOUS
  <1> DEFINE f == IF pc \in {"store", "apply"}
                  THEN [c |-> work.c, pid |-> work.pid] ELSE [c |-> Nobody, pid |-> NoPid]
  <1>1. ASSUME UNCHANGED <<dockerVars, storeVars>>, f' = f
        PROVE  UNCHANGED Promise!clientPromise
    BY <1>1 DEF Promise!clientPromise, dockerVars, storeVars,
                Promise!dockerVars, Promise!storeVars
  <1>2. ASSUME NEW c \in Containers, DockerEvent(c) PROVE Promise!ClientNext
    <2>1. PICK status \in AnnouncedStatus : Announced(c, status)
      BY <1>2 DEF DockerEvent
    <2>2. UNCHANGED <<storeVars, pc, work>>
      BY <1>2 DEF DockerEvent, clientVars
    <2>3. Promise!AnnouncedStatus = AnnouncedStatus
      BY DEF Promise!AnnouncedStatus, AnnouncedStatus
    <2>4. Promise!Announced(c, status)
      BY <2>1 DEF Announced, Create, StartContainer, Die, Pause, Unpause, Destroy, Change, FreePids,
                  Promise!Announced, Promise!Create, Promise!StartContainer, Promise!Die,
                  Promise!Pause, Promise!Unpause, Promise!Destroy, Promise!Change,
                  Promise!FreePids, NoPid, Promise!NoPid
    <2>5. Promise!Daemon(c)
      BY <2>2, <2>3, <2>4 DEF Promise!Daemon, Promise!storeVars, storeVars
    <2> QED
      BY <2>5 DEF Promise!ClientNext
  <1>3. ASSUME NEW c \in Containers, DockerSilent(c) PROVE Promise!ClientNext
    <2>1. Promise!MarkDead(c)
      BY <1>3 DEF DockerSilent, MarkDead, Promise!MarkDead
    <2>2. UNCHANGED <<storeVars, pc, work>>
      BY <1>3 DEF DockerSilent, clientVars
    <2>3. Promise!Daemon(c)
      BY <2>1, <2>2 DEF Promise!Daemon, Promise!storeVars, storeVars
    <2> QED
      BY <2>3 DEF Promise!ClientNext
  <1>4. ASSUME NEW c \in Containers, OtherEvent(c) PROVE UNCHANGED Promise!clientPromise
    BY <1>1, <1>4 DEF OtherEvent, clientVars
  <1>5. CASE Library
    BY <1>1, <1>5 DEF Library, Connect, MonitorStep, MonitorStops, Disconnect, Senders,
                      SenderStep, NobodyListens, clientVars
  <1>6. CASE Subscribe \/ ListFails \/ ListContainers \/ ListDone \/ ListenerClosed
             \/ Unsubscribe \/ StopMonitor \/ Wake \/ Restart
    BY <1>1, <1>6 DEF Subscribe, ListFails, ListContainers, ListDone, ListenerClosed,
                      Unsubscribe, StopMonitor, Wake, Restart, Goto
  <1>7. ASSUME NEW c \in Containers, InspectFails(c) PROVE UNCHANGED Promise!clientPromise
    BY <1>1, <1>7 DEF InspectFails
  <1>8. ASSUME NEW c \in Containers, InspectListed(c) PROVE Promise!ClientNext
    <2>1. f' = [c |-> c, pid |-> dockPid[c]] /\ Exists(c)
      BY <1>8 DEF InspectListed, Goto
    <2>2. Promise!Fetch(c)
      BY <1>8, <2>1 DEF InspectListed, Promise!Fetch, Exists, Promise!Exists, dockerVars, storeVars,
                        Promise!dockerVars, Promise!storeVars
    <2> QED
      BY <2>2 DEF Promise!ClientNext
  <1>9. CASE ReaderPanics \/ \E c \in Containers : InspectRemoved(c)
    <2>1. MemoryLost /\ pc' = "crashed" /\ UNCHANGED dockerVars
      BY <1>9 DEF ReaderPanics, InspectRemoved, Goto
    <2>2. Promise!Crash
      BY <2>1 DEF MemoryLost, Promise!Crash, Absent, Promise!Absent, NoPid, Promise!NoPid,
                  Promise!Nothing, dockerVars, Promise!dockerVars
    <2> QED
      BY <2>2 DEF Promise!ClientNext
  <1>10. CASE StoreListed \/ ApplyEvent
    <2>1. PICK from \in {"store", "apply"}, to \in {"inspect", "recv"} : Update(from, to)
      BY <1>10 DEF StoreListed, ApplyEvent
    <2>2. /\ f = [c |-> work.c, pid |-> work.pid] /\ work.c \in Containers
          /\ f' = [c |-> Nobody, pid |-> NoPid] /\ UNCHANGED dockerVars
          /\ work.state \in State
      BY <2>1 DEF Update, Goto, TypeOK, Work
    <2>3. \/ Promise!DeleteContainer(work.c)
          \/ \E s \in Promise!State \ {"Destroyed"} :
               Promise!SetContainer(work.c, [State |-> s, PID |-> work.pid])
      BY <2>1, <2>2 DEF Update, updateContainer, DeleteContainer, SetContainer, State, Absent, NoPid,
                        Promise!DeleteContainer, Promise!SetContainer, Promise!State,
                        Promise!Absent, Promise!NoPid
    <2>4. Promise!Record
      BY <2>2, <2>3 DEF Promise!Record, Promise!Nothing, Promise!NoPid, NoPid,
                        dockerVars, Promise!dockerVars
    <2> QED
      BY <2>4 DEF Promise!ClientNext
  <1>11. ASSUME NEW e \in sending, ReceiveEvent(e) PROVE UNCHANGED Promise!clientPromise
    BY <1>1, <1>11 DEF ReceiveEvent
  <1>12. CASE GetContainerPID
    <2>1. work.c \in Containers /\ work \in Work /\ pc' = "apply" /\ dock[work.c] # "new"
      BY <1>12 DEF GetContainerPID, Goto, TypeOK, ExactInv, WorkFits
    <2>2. f' = [c |-> work.c, pid |-> IF Exists(work.c) THEN dockPid[work.c] ELSE NoPid]
      BY <1>12, <2>1 DEF GetContainerPID, Work
    <2>3. Promise!Fetch(work.c)
      BY <1>12, <2>1, <2>2 DEF GetContainerPID, Promise!Fetch, Exists, Promise!Exists, NoPid, Promise!NoPid,
                         dockerVars, storeVars, Promise!dockerVars, Promise!storeVars
    <2> QED
      BY <2>1, <2>3 DEF Promise!ClientNext
  <1>13. CASE GetContainerPIDFails
    BY <1>1, <1>13 DEF GetContainerPIDFails, Goto
  <1>14. CASE UNCHANGED vars
    BY <1>1, <1>14 DEF vars, clientVars
  <1> QED
    BY <1>2, <1>3, <1>4, <1>5, <1>6, <1>7, <1>8, <1>9, <1>10, <1>11, <1>12, <1>13, <1>14
       DEF Next, Daemon, Start, DaemonAnswers, LocalStep

\* The event-driven client keeps the promise the rest of the plugin relies on:
\* one entry at a time, under the lock, with a process id that the daemon
\* reported for that very container.
THEOREM ClientKeepsPromise == Spec => ImplementsPromise
  <1>1. Init => Promise!ClientInit
    BY DEF Init, DockerInit, NewStore, Absent, Promise!ClientInit, Promise!DockerInit,
           Promise!NewStore, Promise!Absent, Promise!Nothing, NoPid, Promise!NoPid
  <1> QED
    BY <1>1, TypeCorrect, ExactInit, ExactStep, PromiseStep, PTL
       DEF Spec, ImplementsPromise, Promise!ClientSpec
===============================================================================
