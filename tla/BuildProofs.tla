------------------------------ MODULE BuildProofs ------------------------------
(***************************************************************************)
(* Proofs about the scheduler and the builds that use it, for any number   *)
(* of tests and shards.                                                    *)
(***************************************************************************)
EXTENDS Build, SumProofs

\* No test is in two shares.
Apart(share) == \A i, j \in Shards : i # j => share[i] \cap share[j] = {}

\* The schedule that is stored is a partition of the tests, and so is every
\* assignment once it is complete; every answer comes from the stored one.
ScheduleInv ==
  /\ stored # NoSchedule => Apart(stored) /\ Tests \subseteq UNION {stored[i] : i \in Shards}
  /\ \A s \in Shards : Apart(placed[s])
  /\ \A s \in Answered : stored # NoSchedule /\ answer[s] = stored[s]

\* A shard only runs tests of its answer, and does not succeed before it has run
\* them all.
RunInv ==
  \A s \in Shards :
    /\ \A t \in Tests : s \in ran[t] => at[s] = "received" /\ t \in answer[s]
    /\ at[s] # "received" => toRun[s] = {}
    /\ toRun[s] \subseteq answer[s]
    /\ at[s] = "received" => \A t \in answer[s] : t \in toRun[s] \/ s \in ran[t]
    /\ status[s] = "ok" => at[s] = "received" /\ toRun[s] = {}

\* What the scheduler computes with run times are numbers.
LEMMA Numbers ==
  ASSUME NEW t \in Tests, NEW old \in Nat, NEW new \in Nat
  PROVE  /\ Ewma(old, new) \in Nat
         /\ Cost(t, old) \in Nat /\ Cost(t, NoTime) \in Nat
  <1>1. Parallelism[t] \in Nat
    BY SchedulerAssumption
  <1>2. Parallelism[t] * old \in Nat
    BY <1>1
  <1>3. QED
    BY <1>2 DEF Ewma, Cost

\* A recorded run time leaves a number as the average.
LEMMA RecordTyped ==
  ASSUME TypeOK, NEW t \in Tests, NEW r \in Nat, record(t, r)
  PROVE  average' \in [Tests -> Nat \cup {NoTime}] /\ UNCHANGED <<stored, handlers>>
  <1> DEFINE old == IF average[t] = NoTime THEN 0 ELSE average[t]
  <1>1. old \in Nat
    BY DEF TypeOK, SchedulerTypeOK
  <1>2. Ewma(old, r) \in Nat
    BY <1>1, Numbers
  <1>3. average' = [average EXCEPT ![t] = Ewma(old, r)]
    BY Zenon DEF record
  <1> HIDE DEF old
  <1>4. QED
    BY <1>2, <1>3 DEF TypeOK, SchedulerTypeOK, record

\* A step of a request keeps the types of the scheduler.
LEMMA RequestTyped ==
  ASSUME TypeOK, NEW s \in Shards, schedule(s)
  PROVE  SchedulerTypeOK'
  <1> USE DEF TypeOK, SchedulerTypeOK, service, Answered
  <1>1. CASE LookUp(s)
    <2>1. at' \in [Shards -> {"idle", "computing", "replied", "received", "failed"}]
      BY <1>1 DEF LookUp, Reply
    <2>2. stored # NoSchedule => stored[s] \in SUBSET Tests
      OBVIOUS
    <2>3. answer' \in [Shards -> SUBSET Tests]
      BY <1>1, <2>2 DEF LookUp, Reply
    <2>4. UNCHANGED <<average, stored, cost, placed>>
      BY <1>1 DEF LookUp
    <2>5. QED
      BY <2>1, <2>3, <2>4
  <1>2. ASSUME NEW t \in Tests, ReadTime(s, t) PROVE SchedulerTypeOK'
    <2>1. Cost(t, average[t]) \in Nat
      BY Numbers
    <2>2. QED
      BY <1>2, <2>1 DEF ReadTime
  <1>3. CASE Place(s)
    <2>1. PICK t \in Left(s), i \in Shards : placed' = [placed EXCEPT ![s][i] = @ \cup {t}]
      BY <1>3 DEF Place
    <2>2. t \in Tests
      BY <2>1 DEF Left
    <2>3. placed' \in [Shards -> [Shards -> SUBSET Tests]]
      BY <2>1, <2>2
    <2>4. QED
      BY <1>3, <2>3 DEF Place
  <1>4. CASE Insert(s)
    BY <1>4 DEF Insert, Reply
  <1>5. CASE Fail(s)
    BY <1>5 DEF Fail
  <1>6. QED
    BY <1>1, <1>2, <1>3, <1>4, <1>5 DEF schedule

\* Every step of a build keeps the types.
LEMMA TypePreserved ==
  ASSUME TypeOK, [Next]_vars PROVE TypeOK'
  <1>1. CASE UNCHANGED vars
    BY <1>1 DEF vars, service, handlers, build, TypeOK, SchedulerTypeOK
  <1>2. ASSUME NEW s \in Shards, Shard(s) PROVE TypeOK'
    <2>1. CASE Request(s)
      BY <2>1, RequestTyped DEF Request, build, TypeOK
    <2>2. CASE Receive(s)
      BY <2>2 DEF Receive, TypeOK, SchedulerTypeOK, service
    <2>3. ASSUME NEW t \in Tests, RunTest(s, t) PROVE TypeOK'
      BY <2>3 DEF RunTest, TypeOK, SchedulerTypeOK, service, handlers
    <2>4. CASE Report(s)
      <3>1. PICK p \in posting[s] : record(p[1], p[2]) /\ posting' = [posting EXCEPT ![s] = @ \ {p}]
        BY <2>4 DEF Report
      <3>2. p[1] \in Tests /\ p[2] \in Nat
        <4>1. p \in Tests \X RunTimes
          BY DEF TypeOK
        <4>2. p[1] \in Tests /\ p[2] \in RunTimes
          BY <4>1
        <4>3. QED
          BY <4>2, BuildAssumption
      <3>3. average' \in [Tests -> Nat \cup {NoTime}] /\ UNCHANGED <<stored, handlers>>
        BY <3>1, <3>2, RecordTyped
      <3>4. QED
        BY <2>4, <3>1, <3>3 DEF Report, TypeOK, SchedulerTypeOK, handlers
    <2>5. CASE ReportLost(s)
      BY <2>5 DEF ReportLost, TypeOK, SchedulerTypeOK, service, handlers
    <2>6. CASE GiveUp(s) \/ Finish(s)
      <3>1. status' \in [Shards -> {"none", "ok", "error"}]
        BY <2>6 DEF GiveUp, Finish, TypeOK
      <3>2. UNCHANGED <<service, handlers, client, toRun, posting, failing, ran, others>>
        BY <2>6 DEF GiveUp, Finish
      <3>3. QED
        BY <3>1, <3>2 DEF TypeOK, SchedulerTypeOK, service, handlers
    <2>7. QED
      BY <1>2, <2>1, <2>2, <2>3, <2>4, <2>5, <2>6 DEF Shard
  <1>3. ASSUME NEW t \in Tests, NEW r \in RunTimes, RecordElsewhere(t, r) PROVE TypeOK'
    <2>1. r \in Nat
      BY BuildAssumption
    <2>2. average' \in [Tests -> Nat \cup {NoTime}] /\ UNCHANGED <<stored, handlers>>
      BY <1>3, <2>1, RecordTyped DEF RecordElsewhere
    <2>3. QED
      BY <1>3, <2>2, BuildAssumption DEF RecordElsewhere, TypeOK, SchedulerTypeOK, handlers
  <1>4. QED
    BY <1>1, <1>2, <1>3 DEF Next

\* Averages, schedules, answers and the state of every shard keep their types
\* (main.py:42 and 54, runner.go:138 and 155).
THEOREM TypeCorrect == Spec => []TypeOK
  <1>1. Init => TypeOK
    <2> SUFFICES ASSUME Init PROVE TypeOK
      OBVIOUS
    <2>1. average \in [Tests -> Nat \cup {NoTime}]
      BY BuildAssumption DEF Init
    <2>2. others \in 0..MaxOther
      BY BuildAssumption DEF Init
    <2>3. /\ stored = NoSchedule /\ at \in [Shards -> {"idle", "computing", "replied", "received", "failed"}]
          /\ cost \in [Shards -> [Tests -> Nat \cup {Unread}]]
          /\ placed \in [Shards -> [Shards -> SUBSET Tests]]
          /\ answer \in [Shards -> SUBSET Tests]
      BY DEF Init, SchedulerInit, EmptyPlacement
    <2>4. /\ toRun \in [Shards -> SUBSET Tests]
          /\ posting \in [Shards -> SUBSET (Tests \X RunTimes)]
          /\ failing \in [Shards -> BOOLEAN]
          /\ status \in [Shards -> {"none", "ok", "error"}]
          /\ ran \in [Tests -> SUBSET Shards]
          /\ client \in {"runner", "test"}
      BY DEF Init
    <2>5. QED
      BY <2>1, <2>2, <2>3, <2>4 DEF TypeOK, SchedulerTypeOK
  <1>2. QED
    BY <1>1, TypePreserved, PTL DEF Spec

\* A test that is placed was in nobody's share before.
LEMMA PlaceKeepsApart ==
  ASSUME TypeOK, ScheduleInv, NEW s \in Shards, Place(s)
  PROVE  \A x \in Shards : Apart(placed[x])'
  <1>1. PICK t \in Left(s), i \in Shards : placed' = [placed EXCEPT ![s][i] = @ \cup {t}]
    BY DEF Place
  <1>2. \A j \in Shards : t \notin placed[s][j]
    BY DEF Left
  <1>3. \A j \in Shards : placed'[s][j] = IF j = i THEN placed[s][j] \cup {t} ELSE placed[s][j]
    BY <1>1 DEF TypeOK, SchedulerTypeOK
  <1>4. Apart(placed[s])'
    <2> SUFFICES ASSUME NEW x \in Shards, NEW y \in Shards, x # y
                 PROVE  placed'[s][x] \cap placed'[s][y] = {}
      BY DEF Apart
    <2>1. placed[s][x] \cap placed[s][y] = {}
      BY DEF ScheduleInv, Apart
    <2>2. t \notin placed[s][x] /\ t \notin placed[s][y]
      BY <1>2
    <2>3. CASE x = i
      <3>1. placed'[s][x] = placed[s][x] \cup {t} /\ placed'[s][y] = placed[s][y]
        BY <1>3, <2>3
      <3>2. QED
        BY <2>1, <2>2, <3>1
    <2>4. CASE y = i
      <3>1. placed'[s][y] = placed[s][y] \cup {t} /\ placed'[s][x] = placed[s][x]
        BY <1>3, <2>4
      <3>2. QED
        BY <2>1, <2>2, <3>1
    <2>5. CASE x # i /\ y # i
      BY <1>3, <2>1, <2>5
    <2>6. QED
      BY <2>3, <2>4, <2>5
  <1>5. \A x \in Shards \ {s} : placed'[x] = placed[x]
    BY <1>1 DEF TypeOK, SchedulerTypeOK
  <1>6. QED
    BY <1>4, <1>5 DEF ScheduleInv, Apart

\* The stored schedule is inserted once, complete, and everybody reads it.
LEMMA InsertKeeps ==
  ASSUME TypeOK, ScheduleInv, NEW s \in Shards, Insert(s)
  PROVE  ScheduleInv'
  <1>1. placed' = placed /\ stored' = IF stored = NoSchedule THEN placed[s] ELSE stored
    BY DEF Insert
  <1>2. Apart(placed[s]) /\ Tests \subseteq UNION {placed[s][i] : i \in Shards}
    BY DEF Insert, Left, ScheduleInv
  <1>3. placed[s] # NoSchedule
    BY SchedulerAssumption DEF TypeOK, SchedulerTypeOK
  <1>4. stored' # NoSchedule /\ Apart(stored') /\ Tests \subseteq UNION {stored'[i] : i \in Shards}
    BY <1>1, <1>2, <1>3 DEF ScheduleInv, Apart
  <1>5. \A x \in Answered \ {s} : stored' = stored /\ answer'[x] = stored[x]
    BY <1>1 DEF ScheduleInv, Insert, Reply, TypeOK, SchedulerTypeOK
  <1>6. answer'[s] = stored'[s]
    BY DEF Insert, Reply, TypeOK, SchedulerTypeOK
  <1>7. Answered' \subseteq Answered \cup {s}
    BY DEF Insert, Reply, Answered, TypeOK, SchedulerTypeOK
  <1>8. QED
    BY <1>1, <1>4, <1>5, <1>6, <1>7 DEF ScheduleInv, Apart

\* Every step of a build keeps ScheduleInv.
LEMMA ScheduleInvPreserved ==
  ASSUME TypeOK, TypeOK', ScheduleInv, [Next]_vars PROVE ScheduleInv'
  <1> USE DEF TypeOK, SchedulerTypeOK, service
  <1>1. ASSUME UNCHANGED <<stored, placed, answer>>, Answered' \subseteq Answered PROVE ScheduleInv'
    BY <1>1 DEF ScheduleInv, Apart
  <1>2. ASSUME NEW s \in Shards, Request(s) PROVE ScheduleInv'
    <2>1. CASE LookUp(s)
      <3>1. UNCHANGED <<stored, placed>>
        BY <2>1 DEF LookUp
      <3>2. ASSUME NEW x \in Answered' PROVE stored # NoSchedule /\ answer'[x] = stored[x]
        <4>1. CASE x # s
          BY <2>1, <3>2, <4>1 DEF LookUp, Reply, Answered, ScheduleInv
        <4>2. CASE x = s
          BY <2>1, <3>2, <4>2 DEF LookUp, Reply, Answered, ScheduleInv
        <4>3. QED
          BY <4>1, <4>2
      <3>3. QED
        BY <3>1, <3>2 DEF ScheduleInv, Apart
    <2>2. CASE Fail(s) \/ \E t \in Tests : ReadTime(s, t)
      BY <2>2, <1>1 DEF Fail, ReadTime, Answered
    <2>3. CASE Place(s)
      <3>1. UNCHANGED <<stored, answer>> /\ Answered' = Answered
        BY <2>3 DEF Place, Answered
      <3>2. \A x \in Shards : Apart(placed[x])'
        BY <2>3, PlaceKeepsApart
      <3>3. QED
        BY <3>1, <3>2 DEF ScheduleInv, Apart
    <2>4. CASE Insert(s)
      BY <2>4, InsertKeeps
    <2>5. QED
      BY <1>2, <2>1, <2>2, <2>3, <2>4 DEF Request, schedule
  <1>3. ASSUME NEW s \in Shards, Receive(s) PROVE ScheduleInv'
    BY <1>3, <1>1 DEF Receive, Answered
  <1>4. ASSUME NEW s \in Shards, GiveUp(s) \/ ReportLost(s) \/ Finish(s) \/ \E t \in Tests : RunTest(s, t)
        PROVE ScheduleInv'
    BY <1>4, <1>1 DEF GiveUp, ReportLost, Finish, RunTest, Answered, handlers
  <1>5. ASSUME NEW s \in Shards, Report(s) PROVE ScheduleInv'
    BY <1>5, <1>1 DEF Report, record, Answered, handlers
  <1>6. ASSUME NEW t \in Tests, NEW r \in RunTimes, RecordElsewhere(t, r) PROVE ScheduleInv'
    BY <1>6, <1>1 DEF RecordElsewhere, record, Answered, handlers
  <1>7. CASE UNCHANGED vars
    BY <1>7, <1>1 DEF vars, Answered, handlers
  <1>8. QED
    BY <1>2, <1>3, <1>4, <1>5, <1>6, <1>7 DEF Next, Shard

\* ScheduleInv holds in every build.
LEMMA ScheduleInvariance == Spec => [](TypeOK /\ ScheduleInv)
  <1>1. Init => ScheduleInv
    BY DEF Init, SchedulerInit, EmptyPlacement, ScheduleInv, Apart, Answered
  <1>2. TypeOK /\ TypeOK' /\ ScheduleInv /\ [Next]_vars => ScheduleInv'
    BY ScheduleInvPreserved
  <1>3. QED
    BY <1>1, <1>2, TypeCorrect, PTL DEF Spec

\* However the requests of the shards interleave (main.py:60-85), they are given
\* disjoint shares, and all the tests between them.
THEOREM SharesDisjoint == Spec => []SharesAreDisjoint
  <1>1. TypeOK /\ ScheduleInv => SharesAreDisjoint
    <2> SUFFICES ASSUME TypeOK, ScheduleInv PROVE SharesAreDisjoint
      OBVIOUS
    <2>1. \A s1, s2 \in Answered : s1 # s2 => answer[s1] \cap answer[s2] = {}
      BY DEF ScheduleInv, Apart, Answered
    <2>2. ASSUME Answered = Shards PROVE UNION {answer[s] : s \in Shards} = Tests
      <3>1. \A s \in Shards : stored # NoSchedule /\ answer[s] = stored[s]
        BY <2>2 DEF ScheduleInv
      <3>2. 0 \in Shards
        BY SchedulerAssumption DEF Shards
      <3>3. Tests \subseteq UNION {stored[s] : s \in Shards}
        BY <3>1, <3>2 DEF ScheduleInv
      <3>4. \A s \in Shards : answer[s] \subseteq Tests
        BY DEF TypeOK, SchedulerTypeOK
      <3>5. QED
        BY <3>1, <3>3, <3>4
    <2>3. QED
      BY <2>1, <2>2 DEF SharesAreDisjoint
  <1>2. QED
    BY <1>1, ScheduleInvariance, PTL

\* Every step of a build keeps RunInv.
LEMMA RunInvPreserved ==
  ASSUME TypeOK, TypeOK', RunInv, [Next]_vars PROVE RunInv'
  <1> USE DEF TypeOK, SchedulerTypeOK, service
  <1>1. ASSUME UNCHANGED <<at, answer, toRun, status, ran>> PROVE RunInv'
    BY <1>1 DEF RunInv
  <1>2. ASSUME NEW s \in Shards, Request(s) PROVE RunInv'
    <2>1. CASE LookUp(s)
      BY <1>2, <2>1 DEF Request, build, LookUp, Reply, RunInv
    <2>2. CASE Place(s) \/ \E t \in Tests : ReadTime(s, t)
      BY <1>2, <2>2, <1>1 DEF Request, build, Place, ReadTime
    <2>3. CASE Insert(s) \/ Fail(s)
      BY <1>2, <2>3 DEF Request, build, Insert, Fail, Computed, Reply, RunInv
    <2>4. QED
      BY <1>2, <2>1, <2>2, <2>3 DEF Request, schedule
  <1>3. ASSUME NEW s \in Shards, Receive(s) PROVE RunInv'
    BY <1>3 DEF Receive, RunInv
  <1>4. ASSUME NEW s \in Shards, NEW t \in Tests, RunTest(s, t) PROVE RunInv'
    BY <1>4 DEF RunTest, handlers, RunInv
  <1>5. ASSUME NEW s \in Shards, GiveUp(s) \/ Finish(s) \/ ReportLost(s) PROVE RunInv'
    BY <1>5 DEF GiveUp, Finish, ReportLost, handlers, RunInv
  <1>6. ASSUME NEW s \in Shards, Report(s) PROVE RunInv'
    BY <1>6, <1>1 DEF Report, record, handlers
  <1>7. ASSUME NEW t \in Tests, NEW r \in RunTimes, RecordElsewhere(t, r) PROVE RunInv'
    BY <1>7, <1>1 DEF RecordElsewhere, record, handlers
  <1>8. CASE UNCHANGED vars
    BY <1>8, <1>1 DEF vars, handlers, build
  <1>9. QED
    BY <1>2, <1>3, <1>4, <1>5, <1>6, <1>7, <1>8 DEF Next, Shard

\* A build whose shards all succeed has run every test, and none twice, whichever
\* requests, answers and reports got lost (runner.go:162, tools/sched:14).
THEOREM GreenBuildComplete == Spec => []GreenBuildRanAll
  <1>1. Init => RunInv
    BY DEF Init, SchedulerInit, RunInv
  <1>2. TypeOK /\ TypeOK' /\ RunInv /\ [Next]_vars => RunInv'
    BY RunInvPreserved
  <1>3. TypeOK /\ RunInv /\ SharesAreDisjoint => GreenBuildRanAll
    <2> SUFFICES ASSUME TypeOK, RunInv, SharesAreDisjoint PROVE GreenBuildRanAll
      OBVIOUS
    <2>1. \A t \in Tests : \A s1, s2 \in ran[t] : s1 = s2
      <3> SUFFICES ASSUME NEW t \in Tests, NEW s1 \in ran[t], NEW s2 \in ran[t], s1 # s2 PROVE FALSE
        OBVIOUS
      <3>1. s1 \in Shards /\ s2 \in Shards
        BY DEF TypeOK
      <3>2. s1 \in Answered /\ s2 \in Answered /\ t \in answer[s1] \cap answer[s2]
        BY <3>1 DEF RunInv, Answered
      <3>3. QED
        BY <3>2 DEF SharesAreDisjoint
    <2>2. ASSUME \A s \in Shards : status[s] = "ok", NEW t \in Tests PROVE ran[t] # {}
      <3>1. Answered = Shards
        BY <2>2 DEF RunInv, Answered
      <3>2. PICK s \in Shards : t \in answer[s]
        BY <3>1 DEF SharesAreDisjoint
      <3>3. s \in ran[t]
        BY <2>2, <3>2 DEF RunInv
      <3>4. QED
        BY <3>3
    <2>3. QED
      BY <2>1, <2>2 DEF GreenBuildRanAll
  <1>4. QED
    BY <1>1, <1>2, <1>3, TypeCorrect, SharesDisjoint, PTL DEF Spec

-------------------------------------------------------------------------------
\* The costs of a request are final before it places a test, tests are placed
\* from the costliest to the cheapest, and the placement is balanced.
BalanceInv ==
  /\ \A s, i \in Shards : placed[s][i] # {} => \A u \in Tests : cost[s][u] # Unread
  /\ \A s, i \in Shards : \A t \in placed[s][i] : \A u \in Left(s) : cost[s][u] <= cost[s][t]
  /\ GreedyIsBalanced

\* A shard's load is a number once the costs are known, and a test that is added
\* adds its cost.
LEMMA LoadAdds ==
  ASSUME NEW C \in [Tests -> Nat], NEW P \in SUBSET Tests, NEW t \in Tests, t \notin P
  PROVE  /\ SumFunctionOnSet(C, P) \in Nat
         /\ SumFunctionOnSet(C, P \cup {t}) = C[t] + SumFunctionOnSet(C, P)
  <1>1. IsFiniteSet(Tests)
    BY SchedulerAssumption, FS_Interval DEF Tests
  <1>2. IsFiniteSet(P)
    BY <1>1, FS_Subset
  <1>3. \A u \in P \cup {t} : C[u] \in Nat
    OBVIOUS
  <1> QED
    BY <1>2, <1>3, SumAdd

\* A round of the greedy loop keeps BalanceInv: the test is the cheapest so far
\* and goes where the least is to do.
LEMMA PlaceBalances ==
  ASSUME TypeOK, BalanceInv, NEW s \in Shards, Place(s)
  PROVE  BalanceInv'
  <1>1. PICK t \in Left(s), i \in Shards :
          /\ Costliest(s, t) /\ Shortest(s, i)
          /\ placed' = [placed EXCEPT ![s][i] = @ \cup {t}]
    BY DEF Place
  <1>2. cost' = cost /\ \A u \in Tests : cost[s][u] # Unread
    BY DEF Place, Computed
  <1>3. cost[s] \in [Tests -> Nat]
    BY <1>2 DEF TypeOK, SchedulerTypeOK
  <1>4. /\ t \in Tests /\ t \in Left(s)
        /\ \A j \in Shards : t \notin placed[s][j] /\ placed[s][j] \in SUBSET Tests
    BY DEF Left, TypeOK, SchedulerTypeOK
  <1>5. /\ placed'[s][i] = placed[s][i] \cup {t}
        /\ \A j \in Shards \ {i} : placed'[s][j] = placed[s][j]
        /\ \A x \in Shards \ {s} : placed'[x] = placed[x]
    BY <1>1 DEF TypeOK, SchedulerTypeOK
  <1>6. Left(s)' \subseteq Left(s)
    BY <1>5 DEF Left
  <1>7. \A u \in Left(s) : u \in Tests /\ cost[s][u] <= cost[s][t]
    BY <1>1, <1>3, <1>4 DEF Costliest, Left
  <1>8. \A j \in Shards : Load(s, j) \in Nat
    BY <1>3, <1>4, LoadAdds DEF Load
  <1>9. Load(s, i)' = cost[s][t] + Load(s, i) /\ \A j \in Shards \ {i} : Load(s, j)' = Load(s, j)
    BY <1>2, <1>3, <1>4, <1>5, LoadAdds DEF Load
  <1>10. ASSUME NEW j \in Shards PROVE Load(s, i) <= Load(s, j)
    BY <1>1, <1>8 DEF Shortest
  <1>11. \A u \in placed[s][i] : u \in Tests /\ cost[s][t] <= cost[s][u]
    BY <1>4 DEF BalanceInv
  <1>12. ASSUME NEW j \in Shards
         PROVE  /\ Load(s, i)' <= Load(s, j)' + cost'[s][t]
                /\ \A u \in placed'[s][i] : cost'[s][t] <= cost'[s][u]
    <2>1. cost[s][t] \in Nat
      BY <1>3, <1>4
    <2>2. Load(s, i)' <= Load(s, j)' + cost[s][t]
      BY <1>8, <1>9, <1>10, <2>1
    <2>3. \A u \in placed'[s][i] : cost[s][t] <= cost[s][u]
      BY <1>5, <1>11, <2>1
    <2> QED
      BY <1>2, <2>2, <2>3
  <1>13. ASSUME NEW k \in Shards \ {i}, NEW j \in Shards, placed[s][k] # {}
         PROVE  \E u \in placed'[s][k] :
                  /\ Load(s, k)' <= Load(s, j)' + cost'[s][u]
                  /\ \A v \in placed'[s][k] : cost'[s][u] <= cost'[s][v]
    <2>1. PICK u \in placed[s][k] : /\ Load(s, k) <= Load(s, j) + cost[s][u]
                                    /\ \A v \in placed[s][k] : cost[s][u] <= cost[s][v]
      BY <1>13 DEF BalanceInv, GreedyIsBalanced
    <2>2. cost[s][u] \in Nat /\ cost[s][t] \in Nat
      BY <1>3, <1>4
    <2>3. Load(s, k)' <= Load(s, j)' + cost[s][u]
      BY <1>8, <1>9, <2>1, <2>2
    <2>4. placed'[s][k] = placed[s][k]
      BY <1>5
    <2> QED
      BY <1>2, <2>1, <2>3, <2>4
  <1>14. \A k, j \in Shards : placed'[s][k] # {} =>
           \E u \in placed'[s][k] : Load(s, k)' <= Load(s, j)' + cost'[s][u]
                                    /\ \A v \in placed'[s][k] : cost'[s][u] <= cost'[s][v]
    <2> SUFFICES ASSUME NEW k \in Shards, NEW j \in Shards, placed'[s][k] # {}
                 PROVE  \E u \in placed'[s][k] :
                          Load(s, k)' <= Load(s, j)' + cost'[s][u]
                          /\ \A v \in placed'[s][k] : cost'[s][u] <= cost'[s][v]
      OBVIOUS
    <2>1. CASE k = i
      <3>1. t \in placed'[s][i]
        BY <1>5
      <3> QED
        BY <1>12, <2>1, <3>1
    <2>2. CASE k # i
      BY <1>5, <1>13, <2>2
    <2> QED
      BY <2>1, <2>2
  <1>15. \A x \in Shards \ {s} :
           /\ Left(x)' = Left(x)
           /\ \A j \in Shards : Load(x, j)' = Load(x, j)
    BY <1>2, <1>5 DEF Left, Load
  <1>16. GreedyIsBalanced'
    <2>1. ASSUME NEW x \in Shards \ {s}, NEW k \in Shards, NEW j \in Shards, placed'[x][k] # {}
          PROVE  \E u \in placed'[x][k] :
                   Load(x, k)' <= Load(x, j)' + cost'[x][u]
                   /\ \A v \in placed'[x][k] : cost'[x][u] <= cost'[x][v]
      <3>1. placed'[x] = placed[x] /\ cost'[x] = cost[x]
        BY <1>2, <1>5
      <3>2. PICK u \in placed[x][k] : /\ Load(x, k) <= Load(x, j) + cost[x][u]
                                      /\ \A v \in placed[x][k] : cost[x][u] <= cost[x][v]
        BY <2>1, <3>1 DEF BalanceInv, GreedyIsBalanced
      <3> QED
        BY <1>15, <3>1, <3>2
    <2> QED
      BY <1>14, <2>1 DEF GreedyIsBalanced
  <1>17. ASSUME NEW x \in Shards, NEW j \in Shards, NEW v \in placed'[x][j], NEW u \in Left(x)'
         PROVE  cost'[x][u] <= cost'[x][v]
    <2>1. CASE x # s
      BY <1>2, <1>5, <1>15, <1>17, <2>1 DEF BalanceInv
    <2>2. CASE x = s /\ v \in placed[s][j]
      BY <1>2, <1>6, <1>17, <2>2 DEF BalanceInv
    <2>3. CASE x = s /\ v \notin placed[s][j]
      <3>1. v = t
        BY <1>5, <1>17, <2>3
      <3> QED
        BY <1>2, <1>6, <1>7, <1>17, <2>3, <3>1
    <2> QED
      BY <2>1, <2>2, <2>3
  <1>18. \A x, j \in Shards : placed'[x][j] # {} => \A u \in Tests : cost'[x][u] # Unread
    BY <1>2, <1>5 DEF BalanceInv
  <1> QED
    BY <1>16, <1>17, <1>18 DEF BalanceInv

\* Every step of a build keeps BalanceInv.
LEMMA BalancePreserved ==
  ASSUME TypeOK, BalanceInv, [Next]_vars PROVE BalanceInv'
  <1>1. ASSUME UNCHANGED <<cost, placed>> PROVE BalanceInv'
    BY <1>1 DEF BalanceInv, GreedyIsBalanced, Left, Load
  <1>2. ASSUME NEW s \in Shards, NEW t \in Tests, ReadTime(s, t) PROVE BalanceInv'
    <2>1. /\ placed' = placed /\ cost[s][t] = Unread
          /\ \A x \in Shards \ {s} : cost'[x] = cost[x]
      BY <1>2 DEF ReadTime, TypeOK, SchedulerTypeOK
    <2>2. \A i \in Shards : placed[s][i] = {}
      BY <2>1 DEF BalanceInv
    <2>3. \A x \in Shards \ {s}, j \in Shards : Load(x, j)' = Load(x, j)
      BY <2>1 DEF Load
    <2>4. \A x \in Shards : Left(x)' = Left(x)
      BY <2>1 DEF Left
    <2>5. GreedyIsBalanced'
      <3> SUFFICES ASSUME NEW x \in Shards, NEW i \in Shards, NEW j \in Shards, placed[x][i] # {}
                   PROVE  \E u \in placed[x][i] :
                            Load(x, i)' <= Load(x, j)' + cost'[x][u]
                            /\ \A v \in placed[x][i] : cost'[x][u] <= cost'[x][v]
        BY <2>1 DEF GreedyIsBalanced
      <3>1. x # s
        BY <2>2
      <3>2. PICK u \in placed[x][i] : /\ Load(x, i) <= Load(x, j) + cost[x][u]
                                      /\ \A v \in placed[x][i] : cost[x][u] <= cost[x][v]
        BY DEF BalanceInv, GreedyIsBalanced
      <3> QED
        BY <2>1, <2>3, <3>1, <3>2
    <2> QED
      BY <2>1, <2>2, <2>4, <2>5 DEF BalanceInv
  <1>3. ASSUME NEW s \in Shards, Request(s) PROVE BalanceInv'
    <2>1. CASE LookUp(s) \/ Insert(s) \/ Fail(s)
      BY <2>1, <1>1 DEF LookUp, Insert, Fail
    <2> QED
      BY <1>2, <1>3, <2>1, PlaceBalances DEF Request, schedule
  <1>4. ASSUME NEW s \in Shards,
               Receive(s) \/ GiveUp(s) \/ ReportLost(s) \/ Finish(s) \/ \E t \in Tests : RunTest(s, t)
        PROVE  BalanceInv'
    BY <1>4, <1>1 DEF Receive, GiveUp, ReportLost, Finish, RunTest, handlers
  <1>5. ASSUME NEW s \in Shards, Report(s) PROVE BalanceInv'
    BY <1>5, <1>1 DEF Report, record, handlers
  <1>6. ASSUME NEW t \in Tests, NEW r \in RunTimes, RecordElsewhere(t, r) PROVE BalanceInv'
    BY <1>6, <1>1 DEF RecordElsewhere, record, handlers
  <1>7. CASE UNCHANGED vars
    BY <1>7, <1>1 DEF vars, handlers
  <1> QED
    BY <1>3, <1>4, <1>5, <1>6, <1>7 DEF Next, Shard

\* The greedy loop (main.py:75-82) balances for any costs and any number of
\* tests and shards: without the cheapest of its tests no shard has more to do
\* than any other.
THEOREM GreedyBalances == Spec => []GreedyIsBalanced
  <1>1. Init => BalanceInv
    BY DEF Init, SchedulerInit, EmptyPlacement, BalanceInv, GreedyIsBalanced
  <1>2. TypeOK /\ BalanceInv /\ [Next]_vars => BalanceInv'
    BY BalancePreserved
  <1>3. BalanceInv => GreedyIsBalanced
    BY DEF BalanceInv
  <1> QED
    BY <1>1, <1>2, <1>3, TypeCorrect, PTL DEF Spec

-------------------------------------------------------------------------------
\* A complete placement divides the tests.
LEMMA CompleteDivides ==
  ASSUME NEW p \in [Shards -> SUBSET Tests], Apart(p), Tests \subseteq UNION {p[i] : i \in Shards}
  PROVE  p \in Promised!Divisions
  <1> SUFFICES ASSUME NEW t \in Tests
               PROVE  \E i \in Shards : t \in p[i] /\ \A j \in Shards \ {i} : t \notin p[j]
    BY DEF Promised!Divisions
  <1>1. PICK i \in Shards : t \in p[i]
    OBVIOUS
  <1>2. QED
    BY <1>1 DEF Apart

\* Each step of a build is a Tell of the promise, or does not show: the look-up
\* that finds a schedule and the insertion answer a shard, everything else
\* leaves the stored schedule and the answers alone.
LEMMA AtomicStep ==
  ASSUME TypeOK, ScheduleInv, [Next]_vars
  PROVE  [Promised!Next]_(Promised!vars)
  <1> USE DEF TypeOK, SchedulerTypeOK, service
  <1>1. ASSUME UNCHANGED <<stored, answer>>, Answered' = Answered PROVE UNCHANGED Promised!vars
    BY <1>1 DEF Promised!vars
  <1>2. ASSUME NEW s \in Shards, LookUp(s) PROVE [Promised!Next]_(Promised!vars)
    <2>1. CASE stored # NoSchedule
      <3>1. s \notin Answered /\ Answered' = Answered \cup {s}
        BY <1>2, <2>1 DEF LookUp, Reply, Answered
      <3>2. answer' = [answer EXCEPT ![s] = stored[s]] /\ stored' = stored
        BY <1>2, <2>1 DEF LookUp, Reply
      <3>3. Promised!Tell(s)
        BY <2>1, <3>1, <3>2 DEF Promised!Tell
      <3>4. QED
        BY <3>3 DEF Promised!Next
    <2>2. CASE stored = NoSchedule
      BY <1>1, <1>2, <2>2 DEF LookUp, Answered
    <2>3. QED
      BY <2>1, <2>2
  <1>3. ASSUME NEW s \in Shards, Insert(s) PROVE [Promised!Next]_(Promised!vars)
    <2>1. s \notin Answered /\ Answered' = Answered \cup {s}
      BY <1>3 DEF Insert, Computed, Reply, Answered
    <2>2. placed[s] \in Promised!Divisions
      BY <1>3, CompleteDivides DEF Insert, Left, ScheduleInv
    <2>3. IF stored = NoSchedule THEN stored' \in Promised!Divisions ELSE stored' = stored
      BY <1>3, <2>2 DEF Insert
    <2>4. answer' = [answer EXCEPT ![s] = stored'[s]]
      BY <1>3 DEF Insert, Reply
    <2>5. Promised!Tell(s)
      BY <2>1, <2>3, <2>4 DEF Promised!Tell
    <2>6. QED
      BY <2>5 DEF Promised!Next
  <1>4. ASSUME NEW s \in Shards, Place(s) \/ Fail(s) \/ \E t \in Tests : ReadTime(s, t)
        PROVE  UNCHANGED Promised!vars
    BY <1>4, <1>1 DEF Place, Fail, ReadTime, Answered
  <1>5. ASSUME NEW s \in Shards, Receive(s) PROVE UNCHANGED Promised!vars
    BY <1>5, <1>1 DEF Receive, Answered
  <1>6. ASSUME NEW s \in Shards, GiveUp(s) \/ ReportLost(s) \/ Finish(s) \/ \E t \in Tests : RunTest(s, t)
        PROVE  UNCHANGED Promised!vars
    BY <1>6, <1>1 DEF GiveUp, ReportLost, Finish, RunTest, Answered, handlers
  <1>7. ASSUME NEW s \in Shards, Report(s) PROVE UNCHANGED Promised!vars
    BY <1>7, <1>1 DEF Report, record, Answered, handlers
  <1>8. ASSUME NEW t \in Tests, NEW r \in RunTimes, RecordElsewhere(t, r) PROVE UNCHANGED Promised!vars
    BY <1>8, <1>1 DEF RecordElsewhere, record, Answered, handlers
  <1>9. CASE UNCHANGED vars
    BY <1>9, <1>1 DEF vars, Answered, handlers
  <1>10. QED
    BY <1>2, <1>3, <1>4, <1>5, <1>6, <1>7, <1>8, <1>9 DEF Next, Shard, Request, schedule

\* The scheduler implements AtomicSchedule (main.py:53-86): although requests of
\* several datastore calls overlap with each other and with records, the tests
\* are divided once and every answer comes from that division, for any number
\* of tests and shards.
THEOREM SchedulerAtomic == Spec => ImplementsAtomic
  <1>1. Init => Promised!Init
    BY DEF Init, SchedulerInit, Promised!Init, Answered
  <1>2. TypeOK /\ ScheduleInv /\ [Next]_vars => [Promised!Next]_(Promised!vars)
    BY AtomicStep
  <1>3. QED
    BY <1>1, <1>2, ScheduleInvariance, PTL DEF Spec, ImplementsAtomic, Promised!Spec
================================================================================
