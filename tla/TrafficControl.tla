---------------------------- MODULE TrafficControl ----------------------------
(***************************************************************************)
(* The control handlers of tc.go and the kernel state they change: the     *)
(* netem settings of every network namespace.  A handler has only the      *)
(* process id that GetHandler found in the store; it opens                 *)
(* /proc/<pid>/ns/net and runs tc in whatever namespace that is now.       *)
(*                                                                         *)
(* The cache of settings, trafficControlStatusCache, is declared and never *)
(* made (main.go:126 makes another map), so it is a nil map: a lookup      *)
(* misses, a delete does nothing and an assignment panics.  Every path of  *)
(* ApplyLatency ends before it reaches tc, and every path of               *)
(* ApplyPacketLoss ends in that panic, after tc.                           *)
(*                                                                         *)
(* Each container has a network namespace of its own, as with plain docker *)
(* run; namespaces shared by the containers of a pod are not modelled.     *)
(***************************************************************************)
EXTENDS Docker, Requests

VARIABLE qdisc   \* qdisc[n]: the netem settings on eth0 of namespace n

NoNetem == [delay |-> "none", loss |-> "none"]

\* What the scissor button sets: the loss asked for, and a delay drawn at
\* random instead of the cached one.
LossNetem == [delay |-> "random", loss |-> "10%"]

NetemSettings == [delay : {"none", "random"}, loss : {"none", "10%"}]

TrafficInit == qdisc = [n \in Namespaces |-> NoNetem]

\* The namespaces that /proc/<pid>/ns/net may lead to: that of the container
\* whose process it is, or the host's if some other process was given the id.
NamespacesOf(pid) ==
  IF pid \in {dockPid[c] : c \in Containers} \ {NoPid}
  THEN {c \in Containers : dockPid[c] = pid}
  ELSE IF pid = NoPid THEN {} ELSE {Host}

MayBeMissing(pid) == pid \notin {dockPid[c] : c \in Containers} \ {NoPid}

\* tc run in namespace n; Nobody is one that no container uses any more.
SetNetem(n, netem) ==
  qdisc' = [m \in Namespaces |-> IF m = n THEN netem ELSE qdisc[m]]

\* What a handler makes of a failed step before its end: ApplyPacketLoss
\* ignores the error and goes on to the nil map.
Failed(r) == Finish(r, IF req[r].kind = "loss" THEN "panic" ELSE "error")

(***************************************************************************)
(* ApplyLatency: getStatus comes first, and it never succeeds.             *)
(***************************************************************************)
LatencyNSID(r) ==
  /\ At(r, "run") /\ req[r].kind = "latency"
  /\ \/ NamespacesOf(req[r].pid) # {} /\ Proceed(r, "query")
     \/ MayBeMissing(req[r].pid) /\ Finish(r, "error")
  /\ UNCHANGED qdisc

\* parseAttribute indexes past the end of an answer it does not expect, or
\* returns values that getStatus assigns to the nil map: a panic both ways.
ParseAttribute(r) == Finish(r, "panic")

InfluxAnswers(r) ==
  /\ At(r, "query")
  /\ Finish(r, "error") \/ ParseAttribute(r)
  /\ UNCHANGED qdisc

(***************************************************************************)
(* ApplyPacketLoss and ClearTrafficControlSettings.                        *)
(***************************************************************************)
\* Mutant of OpenNetNS: a namespace that cannot be opened goes unnoticed and
\* tc runs in the plugin's own.
OpenNetNSOrStay(r) ==
  /\ At(r, "run") /\ req[r].kind \in {"loss", "clear"}
  /\ \E n \in NamespacesOf(req[r].pid) \cup {Host} :
       req' = [req EXCEPT ![r].pc = "replace", ![r].ns = n]
  /\ UNCHANGED qdisc

OpenNetNS(r) ==
  /\ At(r, "run") /\ req[r].kind \in {"loss", "clear"}
  /\ \/ \E n \in NamespacesOf(req[r].pid) :
          req' = [req EXCEPT ![r].pc = "replace", ![r].ns = n]
     \/ Failed(r)
  /\ UNCHANGED qdisc

QdiscReplace(r) ==
  /\ At(r, "replace")
  /\ \/ /\ SetNetem(req[r].ns, NoNetem)
        /\ Proceed(r, IF req[r].kind = "loss" THEN "change" ELSE "nsid")
     \/ Failed(r) /\ UNCHANGED qdisc

\* The last command; whatever getNSID says then, the nil map is next.
QdiscChange(r) ==
  /\ At(r, "change")
  /\ SetNetem(req[r].ns, LossNetem) \/ UNCHANGED qdisc
  /\ Finish(r, "panic")

\* ClearTrafficControlSettings: getNSID and the delete that does nothing.
ClearNSID(r) ==
  /\ At(r, "nsid")
  /\ \/ NamespacesOf(req[r].pid) # {} /\ Finish(r, "ok")
     \/ MayBeMissing(req[r].pid) /\ Finish(r, "error")
  /\ UNCHANGED qdisc

Handler(r) ==
  LatencyNSID(r) \/ OpenNetNS(r) \/ QdiscReplace(r) \/ QdiscChange(r) \/ ClearNSID(r)

\* The namespace of container c goes away with its last process; a handler
\* that has it open holds on to a namespace nobody uses.
NamespaceGone(c) ==
  /\ qdisc' = [qdisc EXCEPT ![c] = NoNetem]
  /\ req' = [r \in Requests |->
              IF req[r].ns = c THEN [req[r] EXCEPT !.ns = Nobody] ELSE req[r]]
===============================================================================
