---------------------------- MODULE LifecycleProofs ----------------------------
(***************************************************************************)
(* Proofs about module Lifecycle, for any number of instances.             *)
(***************************************************************************)
EXTENDS Lifecycle, TLAPS

\* What is known of the directory while i is alive, undisturbed and not told to
\* stop: every other living instance is past setupSocket, so the directory is as
\* i has left it.
Progress(i) ==
  /\ \A j \in Instances \ {i} : Alive(j) => Quiet(j)
  /\ main[i] = "rmdir" => socket = NoSocket
  /\ main[i] = "mkdir" => socket = NoSocket
  /\ main[i] = "listen" => dir /\ socket = NoSocket
  /\ main[i] \in {"plugin", "serving"} => socket = i

\* The same once i has been told to stop, but not before it listened.
Stopping(i) ==
  /\ \A j \in Instances \ {i} : Alive(j) => Quiet(j)
  /\ main[i] \in {"plugin", "serving"}
  /\ handler[i] = "rmdir" => socket = NoSocket
  /\ handler[i] = "exit" => ~dir

LifecycleInv ==
  \A i \in Instances :
    /\ ~Alive(i) => handler[i] = "wait" \/ main[i] = "noListen"
    /\ ~disturbed[i] /\ handler[i] = "wait" => main[i] # "noListen"
    /\ Alive(i) /\ ~disturbed[i] /\ handler[i] = "wait" => Progress(i)
    /\ Alive(i) /\ ~disturbed[i] /\ handler[i] # "wait" /\ ~early[i] => Stopping(i)

\* One step of some instance.
Step(i) ==
  \/ Start(i) \/ Signal(i) \/ Crash(i)
  \/ Clean(i) \/ CleanDir(i) \/ MkdirAll(i) \/ Listen(i) \/ Serve(i) \/ ServeFails(i)
  \/ HandlerClean(i) \/ HandlerCleanDir(i) \/ Exit(i)

\* A step is the step of an instance.
LEMMA NextStep == Next <=> \E i \in Instances : Step(i)
  BY DEF Next, Step, setupSocket, HandleSignal

\* The types of the variables are preserved by every step.
LEMMA TypePreserved ==
  ASSUME TypeOK, [Next]_vars PROVE TypeOK'
  <1>1. CASE UNCHANGED vars
    BY <1>1 DEF vars, directory, TypeOK
  <1>2. ASSUME NEW i \in Instances, Step(i) PROVE TypeOK'
    <2>1. CASE Start(i) \/ Signal(i)
      BY <2>1 DEF Start, Signal, TypeOK, directory
    <2>2. CASE Crash(i) \/ Exit(i) \/ ServeFails(i)
      BY <2>2 DEF Crash, Exit, ServeFails, Ends, TypeOK, directory, Ended
    <2>3. CASE Clean(i) \/ CleanDir(i) \/ MkdirAll(i)
      BY <2>3 DEF Clean, CleanDir, MkdirAll, MainGoes, Ends, RemovedAtOnce, Unlink, Rmdir,
                  TypeOK, directory, Ended
    <2>4. CASE Listen(i) \/ Serve(i)
      BY <2>4 DEF Listen, Serve, MainGoes, Ends, TypeOK, directory, Ended
    <2>5. CASE HandlerClean(i) \/ HandlerCleanDir(i)
      BY <2>5 DEF HandlerClean, HandlerCleanDir, HandlerGoes, RemovedAtOnce, Unlink, Rmdir, TypeOK, directory
    <2>6. QED
      BY <1>2, <2>1, <2>2, <2>3, <2>4, <2>5 DEF Step
  <1>3. QED
    BY <1>1, <1>2, NextStep

\* Whatever instances do, the variables keep their types.
THEOREM TypeCorrect == Spec => []TypeOK
  <1>1. Init => TypeOK
    BY DEF Init, TypeOK
  <1>2. QED
    BY <1>1, TypePreserved, PTL DEF Spec

\* The invariant for one instance k is preserved by a step of another, i.
LEMMA OtherStep ==
  ASSUME TypeOK, TypeOK', LifecycleInv,
         NEW i \in Instances, Step(i), NEW k \in Instances \ {i}
  PROVE  /\ ~Alive(k)' => (handler[k] = "wait" \/ main[k] = "noListen")'
         /\ ~disturbed'[k] /\ handler'[k] = "wait" => main'[k] # "noListen"
         /\ Alive(k)' /\ ~disturbed'[k] /\ handler'[k] = "wait" => Progress(k)'
         /\ Alive(k)' /\ ~disturbed'[k] /\ handler'[k] # "wait" /\ ~early'[k] => Stopping(k)'
  <1> USE LifecycleAssumption DEF TypeOK, LifecycleInv, Progress, Stopping, Alive, Quiet, Ended, directory
  <1>1. CASE Start(i)
    BY <1>1 DEF Start
  <1>2. CASE Signal(i)
    BY <1>2 DEF Signal
  <1>3. CASE Crash(i) \/ ServeFails(i)
    BY <1>3 DEF Crash, ServeFails, Ends
  <1>4. CASE Clean(i) \/ CleanDir(i) \/ MkdirAll(i)
    BY <1>4 DEF Clean, CleanDir, MkdirAll, MainGoes, Ends, RemovedAtOnce, Unlink, Rmdir
  <1>5. CASE Listen(i)
    BY <1>5 DEF Listen, MainGoes
  <1>6. CASE Serve(i)
    BY <1>6 DEF Serve, MainGoes, Ends
  <1>7. CASE HandlerClean(i) \/ HandlerCleanDir(i)
    BY <1>7 DEF HandlerClean, HandlerCleanDir, HandlerGoes, RemovedAtOnce, Unlink, Rmdir
  <1>8. CASE Exit(i)
    BY <1>8 DEF Exit, Ends
  <1>9. QED
    BY <1>1, <1>2, <1>3, <1>4, <1>5, <1>6, <1>7, <1>8 DEF Step

\* The invariant for an instance is preserved by its own steps.
LEMMA OwnStep ==
  ASSUME TypeOK, TypeOK', LifecycleInv, NEW k \in Instances, Step(k)
  PROVE  /\ ~Alive(k)' => (handler[k] = "wait" \/ main[k] = "noListen")'
         /\ ~disturbed'[k] /\ handler'[k] = "wait" => main'[k] # "noListen"
         /\ Alive(k)' /\ ~disturbed'[k] /\ handler'[k] = "wait" => Progress(k)'
         /\ Alive(k)' /\ ~disturbed'[k] /\ handler'[k] # "wait" /\ ~early'[k] => Stopping(k)'
  <1> USE LifecycleAssumption DEF TypeOK, LifecycleInv, Progress, Stopping, Alive, Quiet, Ended, directory
  <1>1. CASE Start(k)
    BY <1>1 DEF Start
  <1>2. CASE Signal(k)
    <2>1. /\ Alive(k) /\ handler[k] = "wait" /\ handler'[k] = "clean"
          /\ main' = main /\ \A j \in Instances \ {k} : handler'[j] = handler[j]
      BY <1>2 DEF Signal
    <2>2. disturbed'[k] = (disturbed[k] \/ (k # k /\ Alive(k)))
      BY <1>2, Zenon DEF Signal
    <2>3. early'[k] = (main[k] \notin {"plugin", "serving"})
      BY <1>2 DEF Signal
    <2>4. ASSUME ~disturbed'[k], ~early'[k] PROVE Stopping(k)'
      <3>1. ~disturbed[k] /\ main[k] \in {"plugin", "serving"}
        BY <2>2, <2>3, <2>4
      <3>2. QED
        BY <2>1, <3>1
    <2>5. QED
      BY <2>1, <2>4
  <1>3. CASE Crash(k) \/ ServeFails(k)
    BY <1>3 DEF Crash, ServeFails, Ends
  <1>4. CASE Clean(k) \/ CleanDir(k) \/ MkdirAll(k)
    BY <1>4 DEF Clean, CleanDir, MkdirAll, MainGoes, Ends, RemovedAtOnce, Unlink, Rmdir
  <1>5. CASE Listen(k)
    BY <1>5 DEF Listen, MainGoes
  <1>6. CASE Serve(k)
    BY <1>6 DEF Serve, MainGoes, Ends
  <1>7. CASE HandlerClean(k) \/ HandlerCleanDir(k)
    BY <1>7 DEF HandlerClean, HandlerCleanDir, HandlerGoes, RemovedAtOnce, Unlink, Rmdir
  <1>8. CASE Exit(k)
    BY <1>8 DEF Exit, Ends
  <1>9. QED
    BY <1>1, <1>2, <1>3, <1>4, <1>5, <1>6, <1>7, <1>8 DEF Step

\* Every step keeps LifecycleInv.
LEMMA InvPreserved ==
  ASSUME TypeOK, TypeOK', LifecycleInv, [Next]_vars PROVE LifecycleInv'
  <1>1. CASE UNCHANGED vars
    BY <1>1 DEF vars, directory, LifecycleInv, Progress, Stopping, Alive, Quiet
  <1>2. ASSUME NEW i \in Instances, Step(i) PROVE LifecycleInv'
    <2> SUFFICES ASSUME NEW k \in Instances
        PROVE  /\ ~Alive(k)' => (handler[k] = "wait" \/ main[k] = "noListen")'
               /\ ~disturbed'[k] /\ handler'[k] = "wait" => main'[k] # "noListen"
               /\ Alive(k)' /\ ~disturbed'[k] /\ handler'[k] = "wait" => Progress(k)'
               /\ Alive(k)' /\ ~disturbed'[k] /\ handler'[k] # "wait" /\ ~early'[k] => Stopping(k)'
      BY DEF LifecycleInv
    <2>1. CASE k = i
      BY <1>2, <2>1, OwnStep
    <2>2. CASE k # i
      BY <1>2, <2>2, OtherStep
    <2>3. QED
      BY <2>1, <2>2
  <1>3. QED
    BY <1>1, <1>2, NextStep

\* LifecycleInv holds in every run of the instances.
LEMMA Invariance == Spec => [](TypeOK /\ LifecycleInv)
  <1>1. Init => TypeOK /\ LifecycleInv
    BY DEF Init, TypeOK, LifecycleInv, Alive, Ended
  <1>2. TypeOK /\ LifecycleInv /\ [Next]_vars => (TypeOK /\ LifecycleInv)'
    BY TypePreserved, InvPreserved
  <1>3. QED
    BY <1>1, <1>2, PTL DEF Spec

\* setupSocket (main.go:175) gets and keeps the socket of an instance that no
\* other disturbs, whatever was left in the directory.
THEOREM UndisturbedKeepSocket == Spec => []UndisturbedServes
  <1>1. TypeOK /\ LifecycleInv => UndisturbedServes
    BY DEF TypeOK, LifecycleInv, UndisturbedServes, Progress, Alive, Ended
  <1>2. QED
    BY <1>1, Invariance, PTL

\* An instance that listens and is told to stop (main.go:151) leaves no
\* directory behind.
THEOREM StopLeavesNothing == Spec => []StopCleansUp
  <1>1. TypeOK /\ LifecycleInv => StopCleansUp
    BY DEF TypeOK, LifecycleInv, StopCleansUp, Stopping
  <1>2. QED
    BY <1>1, Invariance, PTL
================================================================================
