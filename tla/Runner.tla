-------------------------------- MODULE Runner --------------------------------
(***************************************************************************)
(* The integration test runner (tools/runner/runner.go).  In parallel mode *)
(* the main goroutine hands free hosts to tests, largest test first, and   *)
(* takes them back with the result that a test's goroutine sends; in       *)
(* sequential mode every test gets all the hosts, one test at a time.  A   *)
(* test's command is a process of its own: when it takes too long, run     *)
(* gives up waiting for it and reports an error, and nobody stops it.      *)
(*                                                                         *)
(* Lists of hosts and of tests are sets here: which of several free hosts  *)
(* a test gets, and which of several tests of the same size goes first,    *)
(* does not matter to any property.                                        *)
(***************************************************************************)
EXTENDS Naturals, FiniteSets

CONSTANTS
  Hosts,    \* the hosts in $HOSTS
  Tests,    \* the tests to run (on this shard, with the scheduler)
  Suffix,   \* Suffix[t]: the number before _test.sh in t's name, or NoNumber
  NoNumber

\* Without hosts main exits at once; getTests accepts any number as a suffix,
\* and the name of a test is never given a negative one.
ASSUME RunnerAssumption ==
  /\ Hosts # {} /\ IsFiniteSet(Hosts)
  /\ IsFiniteSet(Tests)
  /\ NoNumber \notin Nat
  /\ Suffix \in [Tests -> Nat \cup {NoNumber}]

VARIABLES
  runParallel,    \* the flag -parallel
  useScheduler,   \* the flag -scheduler
  pc,             \* where the main goroutine is
  hosts,          \* parallel: the free hosts
  outstanding,    \* parallel: results still to come
  failed,         \* tests reported as failed
  st,             \* st[t]: where test t is
  on,             \* on[t]: the hosts that t was given
  errored,        \* errored[t]: run's verdict on t
  cmd             \* cmd[t]: the command of t, an operating system process

flags == <<runParallel, useScheduler>>
vars == <<flags, pc, hosts, outstanding, failed, st, on, errored, cmd>>

\* The number of hosts t needs: its suffix, or 1 if that is not a number.
Need(t) == IF Suffix[t] = NoNumber THEN 1 ELSE Suffix[t]

Waiting == {t \in Tests : st[t] = "waiting"}

\* Tests whose goroutine (or call) of run has not handed over its result.
Busy == {t \in Tests : st[t] \in {"running", "posting", "reporting"}}

\* Mutant of LoopCondition: the results still to come are forgotten.
LoopConditionTests(waiting, results) == waiting # {}

\* for len(ts) > 0 || outstanding > 0
LoopCondition(waiting, results) == waiting # {} \/ results > 0

Init ==
  /\ runParallel \in BOOLEAN
  /\ useScheduler \in BOOLEAN
  /\ pc = IF LoopCondition(Tests, 0) THEN "schedule" ELSE "done"
  /\ hosts = Hosts
  /\ outstanding = 0
  /\ failed = {}
  /\ st = [t \in Tests |-> "waiting"]
  /\ on = [t \in Tests |-> {}]
  /\ errored = [t \in Tests |-> FALSE]
  /\ cmd = [t \in Tests |-> "none"]

(***************************************************************************)
(* The main goroutine: parallel and sequential.                            *)
(***************************************************************************)
\* Mutant of Fits: a test never gets the last free host.
FitsStrictly(t) == Need(t) < Cardinality(hosts)

Fits(t) == Need(t) <= Cardinality(hosts)

\* run begins: the command is started on the hosts in H.
Launch(t, H) ==
  /\ st' = [st EXCEPT ![t] = "running"]
  /\ on' = [on EXCEPT ![t] = H]
  /\ cmd' = [cmd EXCEPT ![t] = "alive"]
  /\ UNCHANGED <<flags, failed, errored>>

\* pick: the first test that fits; the list is sorted, most hosts first.
Picked(t) ==
  /\ hosts # {}
  /\ t \in Waiting /\ Fits(t)
  /\ \A u \in Waiting : Fits(u) => Need(u) <= Need(t)

\* Mutant of PickTest: the test is not counted as outstanding.
PickTestUncounted(t) ==
  /\ runParallel /\ pc = "schedule" /\ Picked(t)
  /\ \E H \in SUBSET hosts :
       /\ Cardinality(H) = Need(t)
       /\ hosts' = hosts \ H
       /\ Launch(t, H)
  /\ UNCHANGED <<pc, outstanding>>

PickTest(t) ==
  /\ runParallel /\ pc = "schedule" /\ Picked(t)
  /\ \E H \in SUBSET hosts :
       /\ Cardinality(H) = Need(t)
       /\ hosts' = hosts \ H
       /\ Launch(t, H)
  /\ outstanding' = outstanding + 1
  /\ UNCHANGED pc

NothingFits ==
  /\ runParallel /\ pc = "schedule"
  /\ hosts = {} \/ \A t \in Waiting : ~Fits(t)
  /\ pc' = "wait"
  /\ UNCHANGED <<flags, hosts, outstanding, failed, st, on, errored, cmd>>

\* The result of t is taken in and the loop goes round.
Collect(t) ==
  /\ st[t] = "reporting"
  /\ st' = [st EXCEPT ![t] = "done"]
  /\ failed' = IF errored[t] THEN failed \cup {t} ELSE failed
  /\ UNCHANGED <<flags, on, errored, cmd>>

\* Mutant of ReceiveResult: the hosts are not put back on the list.
ReceiveResultKeep(t) ==
  /\ runParallel /\ pc = "wait"
  /\ Collect(t)
  /\ outstanding' = outstanding - 1
  /\ pc' = IF LoopCondition(Waiting, outstanding') THEN "schedule" ELSE "done"
  /\ UNCHANGED hosts

ReceiveResult(t) ==
  /\ runParallel /\ pc = "wait"
  /\ Collect(t)
  /\ hosts' = hosts \cup on[t]
  /\ outstanding' = outstanding - 1
  /\ pc' = IF LoopCondition(Waiting, outstanding') THEN "schedule" ELSE "done"

NextTest(t) ==
  /\ ~runParallel /\ pc = "schedule" /\ t \in Waiting
  /\ Launch(t, Hosts)
  /\ pc' = "wait"
  /\ UNCHANGED <<hosts, outstanding>>

TestReturns(t) ==
  /\ ~runParallel /\ pc = "wait"
  /\ Collect(t)
  /\ pc' = IF Waiting # {} THEN "schedule" ELSE "done"
  /\ UNCHANGED <<hosts, outstanding>>

(***************************************************************************)
(* run.                                                                    *)
(***************************************************************************)
\* The command ends by itself.
CommandEnds(t) ==
  /\ cmd[t] = "alive"
  /\ \E to \in {"succeeded", "failed"} : cmd' = [cmd EXCEPT ![t] = to]
  /\ UNCHANGED <<flags, pc, hosts, outstanding, failed, st, on, errored>>

\* run has its verdict; the run time of a test with an error is posted.
Verdict(t, err) ==
  /\ st[t] = "running"
  /\ errored' = [errored EXCEPT ![t] = err]
  /\ st' = [st EXCEPT ![t] = IF err /\ useScheduler THEN "posting" ELSE "reporting"]
  /\ UNCHANGED <<flags, pc, hosts, outstanding, failed, on, cmd>>

CommandDone(t) ==
  /\ cmd[t] \in {"succeeded", "failed"}
  /\ Verdict(t, cmd[t] = "failed")

\* time.After fires first; the command is left running.
Timeout(t) == Verdict(t, TRUE)

\* updateScheduler returns, whether the scheduler took the time or not.
UpdateScheduler(t) ==
  /\ st[t] = "posting"
  /\ st' = [st EXCEPT ![t] = "reporting"]
  /\ UNCHANGED <<flags, pc, hosts, outstanding, failed, on, errored, cmd>>

Main ==
  \/ NothingFits
  \/ \E t \in Tests : PickTest(t) \/ ReceiveResult(t) \/ NextTest(t) \/ TestReturns(t)

Run(t) == CommandDone(t) \/ Timeout(t)

Next == Main \/ \E t \in Tests : Run(t) \/ CommandEnds(t) \/ UpdateScheduler(t)

Spec == Init /\ [][Next]_vars

\* Goroutines run and timers fire.  A command need not end, and the request to
\* the scheduler has no timeout.
Fairness == WF_vars(Main) /\ \A t \in Tests : WF_vars(Run(t))

FairSpec == Spec /\ Fairness

-------------------------------------------------------------------------------
TypeOK ==
  /\ runParallel \in BOOLEAN /\ useScheduler \in BOOLEAN
  /\ pc \in {"schedule", "wait", "done"}
  /\ hosts \subseteq Hosts
  /\ outstanding \in Nat
  /\ failed \subseteq Tests
  /\ st \in [Tests -> {"waiting", "running", "posting", "reporting", "done"}]
  /\ on \in [Tests -> SUBSET Hosts]
  /\ errored \in [Tests -> BOOLEAN]
  /\ cmd \in [Tests -> {"none", "alive", "succeeded", "failed"}]

\* In parallel mode every host is either free or held by exactly one test in
\* progress: hosts are neither lost nor handed out twice, whatever the order in
\* which results come in (parallel, runner.go:219-232).
HostsPartitioned ==
  runParallel =>
    /\ \A h \in Hosts : h \in hosts \/ \E t \in Busy : h \in on[t]
    /\ \A t \in Busy : on[t] \cap hosts = {}
    /\ \A s, t \in Busy : s # t => on[s] \cap on[t] = {}

\* When the runner prints its summary every test has been run and reported,
\* and the list of failures is that of the tests that ended with an error:
\* the two counters of the loop (tests left, outstanding) never end it early.
Complete ==
  pc = "done" => /\ \A t \in Tests : st[t] = "done"
                 /\ failed = {t \in Tests : errored[t]}

\* The inductive form of Complete.
RunnerInv ==
  /\ pc = "done" => Waiting = {}
  /\ runParallel => outstanding = Cardinality(Busy) /\ (pc = "done" => outstanding = 0)
  /\ ~runParallel =>
       /\ outstanding = 0
       /\ pc # "wait" => Busy = {}
       /\ \A s, t \in Busy : s = t
  /\ failed = {t \in Tests : st[t] = "done" /\ errored[t]}
  /\ \A t \in Tests : st[t] = "waiting" => cmd[t] = "none" /\ ~errored[t]

\* While the main goroutine waits for a result (runner.go:231) a test is in
\* progress that will send one: with every host free the next test fits, so the
\* loop never ends in a wait for nobody.  A test that needs more hosts than
\* there are is not promised this.
ResultToCome ==
  (\A t \in Tests : Need(t) <= Cardinality(Hosts)) => (pc = "wait" => Busy # {})

\* The runner comes to its summary without any help of the commands, as long as
\* no request to the scheduler is in the way ("wait for the test to finish and
\* return the hosts to the pool", runner.go:229): it never waits for a result
\* that nobody will send.
Terminates == ~useScheduler ~> pc = "done"

\* tools/README.md:22 says that "the tool will run tests in parallel, on
\* different hosts": in parallel mode commands that run at the same time share
\* no host.
DifferentHosts ==
  runParallel =>
    \A s, t \in Tests :
      s # t /\ cmd[s] = "alive" /\ cmd[t] = "alive" => on[s] \cap on[t] = {}
===============================================================================
