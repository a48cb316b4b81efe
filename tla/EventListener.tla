----------------------------- MODULE EventListener -----------------------------
(***************************************************************************)
(* Delivery of Docker events to the plugin's listener channel, as done by  *)
(* the vendored go-dockerclient (event.go).  What the plugin must live     *)
(* with, all of it visible in that file:                                   *)
(*                                                                         *)
(*  - AddEventListener returns before the event stream is connected        *)
(*    (enableEventMonitoring only starts the monitor goroutine), and a     *)
(*    fresh monitor asks for no history (lastSeen = 0), so a change that   *)
(*    happens before the connection is up is never announced;              *)
(*  - every event is handed to a goroutine of its own (go sendEvent), so   *)
(*    events reach the listener in any order;                              *)
(*  - that goroutine holds the monitor's read lock while it waits for the  *)
(*    plugin to receive, so nobody can take the write lock meanwhile:      *)
(*    neither the monitor loop (updateLastSeen), nor RemoveEventListener;  *)
(*  - at the end of the stream, or when connecting fails, the monitor      *)
(*    closes the listener channel and switches itself off.                 *)
(*                                                                         *)
(* Not modelled: the second connection that a stream which breaks with an  *)
(* error other than end-of-file leads to; the channel errC, with room for  *)
(* one error, on which a second sender that finds no listener blocks.      *)
(***************************************************************************)
EXTENDS Docker, Sequences

VARIABLES
  monitor,    \* eventMonitoringState.enabled and the state of its connection;
              \* "ended": EOFEvent follows the events in the stream
  listener,   \* the channel given to AddEventListener
  stream,     \* events the monitor loop has not taken yet: HTTP body and channel C
  spawned,    \* events whose sendEvent goroutine has not got the read lock yet
  sending     \* events whose goroutine holds the read lock, blocked on the channel

listenerVars == <<monitor, listener, stream, spawned, sending>>

\* The statuses handleEvent acts on, and one that stands for all the others.
EventStatus == AnnouncedStatus \cup {"other"}

Event == [c : Containers, status : EventStatus, ver : 0..MaxChanges]

ListenerTypeOK ==
  /\ monitor \in {"off", "connecting", "on", "ended"}
  /\ listener \in {"none", "open", "closed"}
  /\ stream \in Seq(Event)
  /\ spawned \subseteq Event
  /\ sending \subseteq Event

ListenerInit ==
  /\ monitor = "off"
  /\ listener = "none"
  /\ stream = <<>>
  /\ spawned = {}
  /\ sending = {}

Elements(s) == {s[i] : i \in 1..Len(s)}

InFlight == Elements(stream) \cup spawned \cup sending

\* Bound: one event that handleEvent ignores is in flight at a time.
IgnoredBound == \A e \in InFlight : e.status # "other"

\* The daemon announces e: it is heard only while the stream is connected.
Announce(e) ==
  /\ stream' = IF monitor = "on" THEN Append(stream, e) ELSE stream
  /\ UNCHANGED <<monitor, listener, spawned, sending>>

AddEventListener ==
  /\ monitor' = IF monitor = "off" THEN "connecting" ELSE monitor
  /\ listener' = "open"
  /\ UNCHANGED <<stream, spawned, sending>>

\* RemoveEventListener takes the write lock twice.  The first time the listener
\* is removed (it is gone already if the monitor has closed it) ...
RemoveListener ==
  /\ sending = {}
  /\ listener' = "none"
  /\ UNCHANGED <<monitor, stream, spawned, sending>>

\* ... and then, as the plugin has no other, the monitor is switched off: what
\* is still in the stream is never looked at.
DisableEventMonitoring ==
  /\ sending = {}
  /\ monitor' = "off"
  /\ stream' = <<>>
  /\ UNCHANGED <<listener, spawned, sending>>

\* monitorEvents: connectWithRetry succeeds.
MonitorConnect ==
  /\ monitor = "connecting"
  /\ monitor' = "on"
  /\ UNCHANGED <<listener, stream, spawned, sending>>

\* The connection breaks: the reader queues EOFEvent behind what it has read.
StreamEnds ==
  /\ monitor = "on"
  /\ monitor' = "ended"
  /\ UNCHANGED <<listener, stream, spawned, sending>>

\* One turn of the monitor loop: updateLastSeen takes the write lock for a
\* moment, then a new goroutine gets the event.
MonitorEvent ==
  /\ monitor \in {"on", "ended"}
  /\ stream # <<>>
  /\ sending = {}
  /\ spawned' = spawned \cup {Head(stream)}
  /\ stream' = Tail(stream)
  /\ UNCHANGED <<monitor, listener, sending>>

\* connectWithRetry has given up, or the loop has met EOFEvent:
\* disableEventMonitoring closes the listener under the write lock.
MonitorDisable ==
  /\ \/ monitor = "connecting"
     \/ monitor = "ended" /\ stream = <<>>
  /\ sending = {}
  /\ monitor' = "off"
  /\ listener' = IF listener = "open" THEN "closed" ELSE listener
  /\ UNCHANGED <<stream, spawned, sending>>

\* sendEvent gets the read lock: it blocks on the listener channel, or drops
\* the event because the monitor is off or has no listener.
SenderDelivers == monitor # "off" /\ listener = "open"

SendEvent(e) ==
  /\ e \in spawned
  /\ spawned' = spawned \ {e}
  /\ sending' = IF SenderDelivers THEN sending \cup {e} ELSE sending
  /\ UNCHANGED <<monitor, listener, stream>>

\* Between the two halves of RemoveEventListener sendEvent finds the monitor on
\* and nobody listening.  The loop reads its ErrNoListeners at once and switches
\* the monitor off; if it never gets to read it, the step is SendEvent.
ErrNoListeners(e) ==
  /\ e \in spawned
  /\ monitor # "off" /\ listener = "none"
  /\ spawned' = spawned \ {e}
  /\ monitor' = "off"
  /\ stream' = <<>>
  /\ UNCHANGED <<listener, sending>>

\* The rendezvous of a blocked sender with the plugin's receive.
Receive(e) ==
  /\ e \in sending
  /\ sending' = sending \ {e}
  /\ UNCHANGED <<monitor, listener, stream, spawned>>
===============================================================================
