------------------------------ MODULE Scheduler ------------------------------
(***************************************************************************)
(* The test scheduler (tools/scheduler/main.py), an App Engine service     *)
(* with two kinds of requests.  record keeps a moving average of a test's  *)
(* run time.  schedule tells one shard of a build which tests to run: the  *)
(* first request computes an assignment of the tests to all the shards     *)
(* from the averages and stores it, the later ones read it.  Requests are  *)
(* served concurrently.  The averages are read entity by entity while      *)
(* others are recorded, so two requests may compute different assignments; *)
(* only the insertion of the result is atomic.                             *)
(*                                                                         *)
(* A test is its position in the list that every shard of the build sends. *)
(* Run times are in tenths of a second; an average is rounded down where   *)
(* the code has a float.                                                   *)
(***************************************************************************)
EXTENDS Naturals, Functions

CONSTANTS
  TestCount,     \* length of the list of tests
  ShardCount,    \* number of shards of the build
  Parallelism,   \* Parallelism[t]: the number before _test.sh in t's name, or 1
  NoTime,        \* there is no Test entity
  NoSchedule,    \* there is no Schedule entity
  Unread         \* the average has not been read yet

Tests == 1..TestCount
Shards == 0..(ShardCount - 1)

ASSUME SchedulerAssumption ==
  /\ TestCount \in Nat /\ ShardCount \in Nat \ {0}
  /\ Parallelism \in [Tests -> Nat]
  /\ NoTime \notin Nat /\ Unread \notin Nat
  /\ NoSchedule \notin [Shards -> SUBSET Tests]

VARIABLES
  average,   \* average[t]: total_run_time of t's Test entity, or NoTime
  stored,    \* the build's Schedule entity: the tests of every shard
  at,        \* at[s]: where the request of shard s is
  cost,      \* cost[s]: test_times of the request of s
  placed,    \* placed[s]: the local variable shards of the request of s
  answer     \* answer[s]: the tests in the answer to s

service == <<average, stored>>
handlers == <<at, cost, placed, answer>>

EmptyPlacement == [i \in Shards |-> {}]

SchedulerInit ==
  /\ stored = NoSchedule
  /\ at = [s \in Shards |-> "idle"]
  /\ cost = [s \in Shards |-> [t \in Tests |-> Unread]]
  /\ placed = [s \in Shards |-> EmptyPlacement]
  /\ answer = [s \in Shards |-> {}]

(***************************************************************************)
(* record: one transaction.  alpha is 0.3.                                 *)
(***************************************************************************)
Ewma(old, runtime) == (7 * old + 3 * runtime) \div 10

record(t, runtime) ==
  /\ average' = [average EXCEPT ![t] = Ewma(IF @ = NoTime THEN 0 ELSE @, runtime)]
  /\ UNCHANGED <<stored, handlers>>

(***************************************************************************)
(* schedule                                                                *)
(***************************************************************************)
\* Mutant of Cost: a test without a record has no cost.
CostUnrecorded(t, avg) == IF avg = NoTime THEN avg ELSE Parallelism[t] * avg

\* avg and Test.cost: a test that has never been recorded counts as a second.
Cost(t, avg) == IF avg = NoTime THEN 10 ELSE Parallelism[t] * avg

\* The answer to shard s is taken from a schedule; it is on its way from here.
Reply(s, schedule) ==
  /\ answer' = [answer EXCEPT ![s] = schedule[s]]
  /\ at' = [at EXCEPT ![s] = "replied"]

\* Schedule.get_by_id: later requests find the schedule of the first one.
LookUp(s) ==
  /\ at[s] = "idle"
  /\ \/ stored # NoSchedule /\ Reply(s, stored)
     \/ stored = NoSchedule /\ at' = [at EXCEPT ![s] = "computing"] /\ UNCHANGED answer
  /\ UNCHANGED <<service, cost, placed>>

\* ndb.get_multi: one of the entities is read, in any order.
ReadTime(s, t) ==
  /\ at[s] = "computing" /\ cost[s][t] = Unread
  /\ cost' = [cost EXCEPT ![s][t] = Cost(t, average[t])]
  /\ UNCHANGED <<service, at, placed, answer>>

Left(s) == Tests \ UNION {placed[s][i] : i \in Shards}

\* Shard i's share of the tests so far, by the costs the request has read.
Load(s, i) == SumFunctionOnSet(cost[s], placed[s][i])

\* Mutant of Costliest: the list is not sorted.
CostliestFirst(s, t) == \A u \in Left(s) : t <= u

\* pop takes the last of the list sorted by cost; the sort is stable.
Costliest(s, t) ==
  \A u \in Left(s) : cost[s][u] < cost[s][t] \/ (cost[s][u] = cost[s][t] /\ u <= t)

\* min over the shards: the first of those with the least load.
Shortest(s, i) ==
  \A j \in Shards : Load(s, i) < Load(s, j) \/ (Load(s, i) = Load(s, j) /\ i <= j)

Computed(s) == at[s] = "computing" /\ \A t \in Tests : cost[s][t] # Unread

\* One round of the greedy loop.
Place(s) ==
  /\ Computed(s)
  /\ \E t \in Left(s), i \in Shards :
       /\ Costliest(s, t) /\ Shortest(s, i)
       /\ placed' = [placed EXCEPT ![s][i] = @ \cup {t}]
  /\ UNCHANGED <<service, at, cost, answer>>

\* Mutant of Insert: put instead of get_or_insert.
InsertAlways(s) ==
  /\ Computed(s) /\ Left(s) = {}
  /\ stored' = placed[s]
  /\ Reply(s, placed[s])
  /\ UNCHANGED <<average, cost, placed>>

\* Mutant of Insert: the answer is what this request has computed.
InsertOwn(s) ==
  /\ Computed(s) /\ Left(s) = {}
  /\ stored' = IF stored = NoSchedule THEN placed[s] ELSE stored
  /\ Reply(s, placed[s])
  /\ UNCHANGED <<average, cost, placed>>

\* Schedule.get_or_insert: the schedule that is stored first is everybody's.
Insert(s) ==
  /\ Computed(s) /\ Left(s) = {}
  /\ stored' = IF stored = NoSchedule THEN placed[s] ELSE stored
  /\ Reply(s, stored')
  /\ UNCHANGED <<average, cost, placed>>

\* The handler fails before the insertion: an error of the datastore, or the
\* time limit for a request.
Fail(s) ==
  /\ at[s] = "computing"
  /\ at' = [at EXCEPT ![s] = "failed"]
  /\ UNCHANGED <<service, cost, placed, answer>>

schedule(s) ==
  LookUp(s) \/ (\E t \in Tests : ReadTime(s, t)) \/ Place(s) \/ Insert(s) \/ Fail(s)

(***************************************************************************)
(* Properties                                                              *)
(***************************************************************************)
SchedulerTypeOK ==
  /\ average \in [Tests -> Nat \cup {NoTime}]
  /\ stored \in [Shards -> SUBSET Tests] \cup {NoSchedule}
  /\ at \in [Shards -> {"idle", "computing", "replied", "received", "failed"}]
  /\ cost \in [Shards -> [Tests -> Nat \cup {Unread}]]
  /\ placed \in [Shards -> [Shards -> SUBSET Tests]]
  /\ answer \in [Shards -> SUBSET Tests]

\* The shards whose request has got as far as an answer.
Answered == {s \in Shards : at[s] \in {"replied", "received"}}

\* However the requests of the shards interleave with each other and with
\* records (main.py:60, 65 and 85 are separate calls of the datastore), no test
\* is given to two shards, and none is forgotten once all have their answer.
SharesAreDisjoint ==
  /\ \A s1, s2 \in Answered : s1 # s2 => answer[s1] \cap answer[s2] = {}
  /\ Answered = Shards => UNION {answer[s] : s \in Shards} = Tests

\* The greedy loop (main.py:75-82) balances: without the cheapest of its tests
\* no shard has more to do than any other, by the costs the request has read.
GreedyIsBalanced ==
  \A s \in Shards : \A i, j \in Shards :
    placed[s][i] # {} =>
      \E t \in placed[s][i] : Load(s, i) <= Load(s, j) + cost[s][t]
                              /\ \A u \in placed[s][i] : cost[s][t] <= cost[s][u]

\* To the shards the service is AtomicSchedule.
Promised == INSTANCE AtomicSchedule WITH division <- stored, told <- Answered, share <- answer

\* The scheduler keeps that promise although a request consists of several
\* calls of the datastore (main.py:60, 65 and 85): the tests are divided once,
\* and an answer, once given, stands.
ImplementsAtomic == Promised!Spec
==============================================================================
