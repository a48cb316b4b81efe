------------------------------ MODULE Lifecycle ------------------------------
(***************************************************************************)
(* The plugin's processes and the directory with their socket (main.go:    *)
(* main, setupSignals, setupSocket).  The directory is on the host and     *)
(* outlives the processes, and every process uses the same path: what one  *)
(* instance leaves behind, or removes on its way out, is met by the next.  *)
(*                                                                         *)
(* Each instance has two goroutines that touch the directory: main, which  *)
(* sets the socket up, and the signal handler, which removes the directory *)
(* and exits, whatever main has got to.  An instance lives once; a restart *)
(* is another instance.  Starts, signals and crashes come from outside, at *)
(* any time.                                                               *)
(***************************************************************************)
EXTENDS Naturals

CONSTANTS
  Instances,   \* the processes of the plugin on one host, one after another or not
  NoSocket     \* there is no file at socketPath

ASSUME LifecycleAssumption == NoSocket \notin Instances

VARIABLES
  dir,         \* the directory of socketPath exists
  socket,      \* the instance whose listener the file at socketPath is, or NoSocket
  main,        \* main[i]: where the main goroutine of i is
  handler,     \* handler[i]: where the signal handler of i is
  disturbed,   \* history variable: another instance was about the directory
  early        \* history variable: the signal came before i listened

directory == <<dir, socket>>
vars == <<directory, main, handler, disturbed, early>>

Ended == {"stopped", "crashed", "noDir", "noListen", "noPlugin", "noServe"}
Alive(i) == main[i] \notin Ended \cup {"off"}

\* Instances that leave the directory alone unless a signal comes.
Quiet(i) == main[i] \in {"plugin", "serving"} /\ handler[i] = "wait"

Init ==
  /\ dir \in BOOLEAN
  /\ socket = NoSocket
  /\ main = [i \in Instances |-> "off"]
  /\ handler = [i \in Instances |-> "wait"]
  /\ disturbed = [i \in Instances |-> FALSE]
  /\ early = [i \in Instances |-> FALSE]

\* The process starts, with the handler in place (setupSignals).  The history
\* variable: i is disturbed if it finds others busy, and it disturbs the others.
Start(i) ==
  /\ main[i] = "off"
  /\ main' = [main EXCEPT ![i] = "clean"]
  /\ disturbed' = [j \in Instances |->
       \/ disturbed[j]
       \/ j = i /\ \E k \in Instances : Alive(k) /\ ~Quiet(k)
       \/ j # i /\ Alive(j)]
  /\ UNCHANGED <<directory, handler, early>>

(***************************************************************************)
(* os.RemoveAll of the directory: an empty directory goes at once;         *)
(* otherwise the file in it is unlinked, and then the directory is removed *)
(* if it is still empty.  Its error is ignored.                            *)
(***************************************************************************)
RemovedAtOnce == socket = NoSocket /\ dir' = FALSE /\ UNCHANGED socket
Unlink == socket # NoSocket /\ socket' = NoSocket /\ UNCHANGED dir
Rmdir == dir' = (dir /\ socket # NoSocket) /\ UNCHANGED socket

(***************************************************************************)
(* setupSocket and the rest of main                                        *)
(***************************************************************************)
MainGoes(i, to) ==
  /\ main' = [main EXCEPT ![i] = to]
  /\ UNCHANGED <<handler, disturbed, early>>

\* The process is gone, with its handler and its history.
Ends(i, how) ==
  /\ main' = [main EXCEPT ![i] = how]
  /\ handler' = [handler EXCEPT ![i] = "wait"]
  /\ disturbed' = [disturbed EXCEPT ![i] = FALSE]
  /\ early' = [early EXCEPT ![i] = FALSE]
  /\ UNCHANGED directory

\* Mutant of Clean: a socket left behind by another instance is not removed.
CleanNot(i) == main[i] = "clean" /\ MainGoes(i, "mkdir") /\ UNCHANGED directory

Clean(i) ==
  /\ main[i] = "clean"
  /\ \/ RemovedAtOnce /\ MainGoes(i, "mkdir")
     \/ Unlink /\ MainGoes(i, "rmdir")

CleanDir(i) == main[i] = "rmdir" /\ Rmdir /\ MainGoes(i, "mkdir")

\* If the directory cannot be made, main ends the process.
MkdirAll(i) ==
  /\ main[i] = "mkdir"
  /\ \/ dir' = TRUE /\ UNCHANGED socket /\ MainGoes(i, "listen")
     \/ ~dir /\ Ends(i, "noDir")

\* net.Listen fails without a directory or with a file at the path; main then
\* ends the process.
Listen(i) ==
  /\ main[i] = "listen"
  /\ \/ dir /\ socket = NoSocket /\ socket' = i /\ UNCHANGED dir /\ MainGoes(i, "plugin")
     \/ ~(dir /\ socket = NoSocket) /\ MainGoes(i, "noListen") /\ UNCHANGED directory

\* NewPlugin and http.Serve; without a Docker client main ends the process and
\* leaves the socket behind.
Serve(i) ==
  /\ main[i] = "plugin"
  /\ \/ MainGoes(i, "serving") /\ UNCHANGED directory
     \/ Ends(i, "noPlugin")

\* http.Serve returns with an error: main ends the process in the same way.
ServeFails(i) == main[i] = "serving" /\ Ends(i, "noServe")

(***************************************************************************)
(* The signal handler                                                      *)
(***************************************************************************)
HandlerGoes(i, to) ==
  /\ handler' = [handler EXCEPT ![i] = to]
  /\ UNCHANGED <<main, disturbed, early>>

\* SIGINT or SIGTERM arrives.  It disturbs the others that are alive.
Signal(i) ==
  /\ Alive(i) /\ handler[i] = "wait"
  /\ handler' = [handler EXCEPT ![i] = "clean"]
  /\ early' = [early EXCEPT ![i] = main[i] \notin {"plugin", "serving"}]
  /\ disturbed' = [j \in Instances |-> disturbed[j] \/ (j # i /\ Alive(j))]
  /\ UNCHANGED <<directory, main>>

\* Mutant of HandlerClean: the handler exits without removing anything.
HandlerCleanNot(i) ==
  Alive(i) /\ handler[i] = "clean" /\ HandlerGoes(i, "exit") /\ UNCHANGED directory

HandlerClean(i) ==
  /\ Alive(i) /\ handler[i] = "clean"
  /\ \/ RemovedAtOnce /\ HandlerGoes(i, "exit")
     \/ Unlink /\ HandlerGoes(i, "rmdir")

HandlerCleanDir(i) ==
  Alive(i) /\ handler[i] = "rmdir" /\ Rmdir /\ HandlerGoes(i, "exit")

\* Mutant of Exit: the handler waits for the next signal.
ExitNot(i) ==
  Alive(i) /\ handler[i] = "exit" /\ HandlerGoes(i, "wait") /\ UNCHANGED directory

\* Mutant of Exit: the handler is done and os.Exit is missing.
ExitMissing(i) ==
  Alive(i) /\ handler[i] = "exit" /\ HandlerGoes(i, "done") /\ UNCHANGED directory

\* os.Exit(0); no listener is closed.
Exit(i) ==
  /\ Alive(i) /\ handler[i] = "exit"
  /\ Ends(i, "stopped")

\* The process is killed, or a goroutine panics: everything stays as it is.
Crash(i) == Alive(i) /\ Ends(i, "crashed")

setupSocket(i) == Clean(i) \/ CleanDir(i) \/ MkdirAll(i) \/ Listen(i)
HandleSignal(i) == HandlerClean(i) \/ HandlerCleanDir(i) \/ Exit(i)

Next ==
  \E i \in Instances :
    \/ Start(i) \/ Signal(i) \/ Crash(i)
    \/ setupSocket(i) \/ Serve(i) \/ ServeFails(i)
    \/ HandleSignal(i)

\* The Go scheduler runs both goroutines of a living process.
Fairness ==
  \A i \in Instances : WF_vars(setupSocket(i) \/ Serve(i)) /\ WF_vars(HandleSignal(i))

Spec == Init /\ [][Next]_vars /\ Fairness

(***************************************************************************)
(* Properties                                                              *)
(***************************************************************************)
TypeOK ==
  /\ dir \in BOOLEAN
  /\ socket \in Instances \cup {NoSocket}
  /\ main \in [Instances -> {"off", "clean", "rmdir", "mkdir", "listen", "plugin", "serving"} \cup Ended]
  /\ handler \in [Instances -> {"wait", "clean", "rmdir", "exit"}]
  /\ disturbed \in [Instances -> BOOLEAN]
  /\ early \in [Instances -> BOOLEAN]

\* Whatever earlier instances left behind when they stopped, failed or crashed,
\* and even if it takes over from one that is still serving, an instance gets
\* its socket and keeps it until it is told to stop (main.go:178), as long as no
\* other starts, and none that is alive is told to stop (main.go:151), in its
\* lifetime.
UndisturbedServes ==
  \A i \in Instances :
    handler[i] = "wait" /\ ~disturbed[i] =>
      /\ main[i] = "serving" => socket = i
      /\ main[i] # "noListen"

\* An instance that is told to stop once it listens leaves no directory behind.
\* Before that, the handler may be done when main creates the directory anew.
StopCleansUp ==
  \A i \in Instances :
    handler[i] = "exit" /\ Alive(i) /\ ~early[i] /\ ~disturbed[i] => ~dir

\* A signal ends the process, whatever the main goroutine is doing.
SignalEnds ==
  \A i \in Instances : handler[i] = "clean" ~> ~Alive(i)

\* An instance that is left alone comes to serve; the only ways to fail are a
\* directory that cannot be made and a Docker client that cannot.
ComesToServe ==
  \A i \in Instances :
    main[i] = "clean" ~>
      \/ main[i] = "serving" /\ socket = i
      \/ main[i] \in {"noDir", "noPlugin", "crashed"} \/ handler[i] # "wait" \/ disturbed[i]
==============================================================================
