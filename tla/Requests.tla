------------------------------- MODULE Requests -------------------------------
(***************************************************************************)
(* The HTTP requests being served on the plugin's socket (main.go).        *)
(* net/http runs each in a goroutine of its own; a handler that panics is  *)
(* recovered there and its connection closed without an answer.            *)
(***************************************************************************)
EXTENDS ContainerIds

CONSTANTS
  Requests,   \* requests that can be in progress at the same time
  Host        \* the host's own network namespace

ASSUME HostAssumption == Host \notin Containers \cup {Nobody}

VARIABLE req   \* req[r]: request r

\* "latency" stands for the slow, medium and fast buttons: they differ in a
\* value that is never used (see TrafficControl).
Controls == {"latency", "loss", "clear", "unknown"}

\* "lookup": GetHandler; "run", "query", "replace", "change", "nsid": the
\* control handlers; "lock", "foreach": the report handler.
RequestPc == {"idle", "lookup", "run", "query", "replace", "change", "nsid",
              "lock", "foreach", "done"}

Namespaces == Containers \cup {Host}

\* ns is the network namespace that the handler has opened: Nobody for none,
\* or for one whose container is gone and that only the handler keeps alive.
Request ==
  [pc : RequestPc,
   kind : Controls \cup {"none", "report"},
   c : Containers \cup {Nobody},
   pid : Pids \cup {NoPid},
   ns : Namespaces \cup {Nobody},
   todo : SUBSET Containers,
   nodes : SUBSET [c : Containers, dead : BOOLEAN],
   result : {"none", "ok", "error", "panic"}]

NoRequest ==
  [pc |-> "idle", kind |-> "none", c |-> Nobody, pid |-> NoPid, ns |-> Nobody,
   todo |-> {}, nodes |-> {}, result |-> "none"]

RequestsInit == req = [r \in Requests |-> NoRequest]

\* Request r is at a point of its handler.
At(r, pc) == req[r].pc = pc

Proceed(r, pc) == req' = [req EXCEPT ![r].pc = pc]

\* The handler of r returns or panics; what it had open is closed.
Finish(r, result) ==
  req' = [req EXCEPT ![r] = [NoRequest EXCEPT !.pc = "done", !.kind = req[r].kind,
                             !.result = result]]

\* Scope asks for a report, or a user presses a button of container c.
Arrive(r, kind, c, pc) ==
  /\ At(r, "idle")
  /\ req' = [req EXCEPT ![r] = [NoRequest EXCEPT !.pc = pc, !.kind = kind, !.c = c]]

\* The connection is closed.
Close(r) ==
  /\ At(r, "done")
  /\ req' = [req EXCEPT ![r] = NoRequest]
===============================================================================
