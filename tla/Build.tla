-------------------------------- MODULE Build --------------------------------
(***************************************************************************)
(* A build on several shards: every shard asks the scheduler for its tests *)
(* (runner.go's getSchedule, or tools/test through the script sched), runs *)
(* them and reports run times, which changes the averages that the         *)
(* requests of slower shards are still reading.                            *)
(*                                                                         *)
(* The two clients differ.  runner reports the time of a test only if the  *)
(* test ended with an error, and goes on when the report fails.  The       *)
(* script test reports every time, one test after another, and stops with  *)
(* an error when the report fails (set -e).  Both give up when they get no *)
(* schedule.  How runner shares out hosts is the subject of module Runner. *)
(***************************************************************************)
EXTENDS Scheduler

CONSTANTS
  RunTimes,    \* the run times a test may have
  Averages,    \* the averages that earlier builds may have left
  MaxOther     \* bound: records sent by other builds

ASSUME BuildAssumption == RunTimes \subseteq Nat /\ Averages \subseteq Nat /\ MaxOther \in Nat

VARIABLES
  client,    \* the program that runs the tests: "runner" or "test"
  toRun,     \* toRun[s]: tests of shard s still to run
  posting,   \* posting[s]: run times of shard s still to be recorded
  failing,   \* failing[s]: a test of shard s has failed
  status,    \* status[s]: exit status of the program on shard s
  ran,       \* history variable: ran[t]: the shards that have run t
  others     \* number of records sent by other builds

build == <<client, toRun, posting, failing, status, ran, others>>
vars == <<service, handlers, build>>

Init ==
  /\ average \in [Tests -> {NoTime} \cup Averages]
  /\ SchedulerInit
  /\ client \in {"runner", "test"}
  /\ toRun = [s \in Shards |-> {}]
  /\ posting = [s \in Shards |-> {}]
  /\ failing = [s \in Shards |-> FALSE]
  /\ status = [s \in Shards |-> "none"]
  /\ ran = [t \in Tests |-> {}]
  /\ others = 0

\* One step of the request of s; the handler goes on even if s has given up.
Request(s) == schedule(s) /\ UNCHANGED build

\* getSchedule returns, or sched prints its answer.
Receive(s) ==
  /\ at[s] = "replied" /\ status[s] = "none"
  /\ at' = [at EXCEPT ![s] = "received"]
  /\ toRun' = [toRun EXCEPT ![s] = answer[s]]
  /\ UNCHANGED <<service, cost, placed, answer, client, posting, failing, status, ran, others>>

\* Mutant of GiveUp: a shard without a schedule has nothing to do.
GiveUpQuietly(s) ==
  /\ at[s] # "received" /\ status[s] = "none"
  /\ status' = [status EXCEPT ![s] = "ok"]
  /\ UNCHANGED <<service, handlers, client, toRun, posting, failing, ran, others>>

\* The request or its answer is lost on the way, or the handler failed: main
\* exits with 1; sched fails and so does the script.  The runner does not look at
\* the status (runner.go:162-170): it is the error page of the service, which is
\* no JSON, that does not decode; sched asserts status 200.
GiveUp(s) ==
  /\ at[s] # "received" /\ status[s] = "none"
  /\ status' = [status EXCEPT ![s] = "error"]
  /\ UNCHANGED <<service, handlers, client, toRun, posting, failing, ran, others>>

\* A test runs to its end, successfully or not.
RunTest(s, t) ==
  /\ status[s] = "none" /\ t \in toRun[s]
  /\ client = "test" => posting[s] = {}
  /\ toRun' = [toRun EXCEPT ![s] = @ \ {t}]
  /\ ran' = [ran EXCEPT ![t] = @ \cup {s}]
  /\ \E failed \in BOOLEAN, r \in RunTimes :
       /\ failing' = [failing EXCEPT ![s] = @ \/ failed]
       /\ posting' = IF failed \/ client = "test"
                       THEN [posting EXCEPT ![s] = @ \cup {<<t, r>>}]
                       ELSE posting
  /\ UNCHANGED <<service, handlers, client, status, others>>

\* updateScheduler, or sched time: the time is recorded.
Report(s) ==
  /\ \E p \in posting[s] :
       /\ record(p[1], p[2])
       /\ posting' = [posting EXCEPT ![s] = @ \ {p}]
  /\ UNCHANGED <<client, toRun, failing, status, ran, others>>

\* The report fails; only the script minds.
ReportLost(s) ==
  /\ status[s] = "none"
  /\ \E p \in posting[s] : posting' = [posting EXCEPT ![s] = @ \ {p}]
  /\ status' = [status EXCEPT ![s] = IF client = "test" THEN "error" ELSE @]
  /\ UNCHANGED <<service, handlers, client, toRun, failing, ran, others>>

Finish(s) ==
  /\ status[s] = "none" /\ at[s] = "received"
  /\ toRun[s] = {} /\ posting[s] = {}
  /\ status' = [status EXCEPT ![s] = IF failing[s] THEN "error" ELSE "ok"]
  /\ UNCHANGED <<service, handlers, client, toRun, posting, failing, ran, others>>

\* Another build of the repository records a time of the same test.
RecordElsewhere(t, r) ==
  /\ others < MaxOther
  /\ others' = others + 1
  /\ record(t, r)
  /\ UNCHANGED <<client, toRun, posting, failing, status, ran>>

Shard(s) ==
  \/ Request(s) \/ Receive(s) \/ GiveUp(s)
  \/ (\E t \in Tests : RunTest(s, t))
  \/ Report(s) \/ ReportLost(s) \/ Finish(s)

Next ==
  \/ \E s \in Shards : Shard(s)
  \/ \E t \in Tests, r \in RunTimes : RecordElsewhere(t, r)

Spec == Init /\ [][Next]_vars

(***************************************************************************)
(* Properties                                                              *)
(***************************************************************************)
TypeOK ==
  /\ SchedulerTypeOK
  /\ client \in {"runner", "test"}
  /\ toRun \in [Shards -> SUBSET Tests]
  /\ posting \in [Shards -> SUBSET (Tests \X RunTimes)]
  /\ failing \in [Shards -> BOOLEAN]
  /\ status \in [Shards -> {"none", "ok", "error"}]
  /\ ran \in [Tests -> SUBSET Shards]
  /\ others \in 0..MaxOther

\* A build whose shards all exit with 0 has run every test, and no test of a
\* build is ever run by two shards: neither concurrent requests for the schedule
\* (main.py:85) nor lost answers (runner.go:162, tools/sched:14) lose a test
\* without an error.
GreenBuildRanAll ==
  /\ \A t \in Tests : \A s1, s2 \in ran[t] : s1 = s2
  /\ (\A s \in Shards : status[s] = "ok") => \A t \in Tests : ran[t] # {}
==============================================================================
