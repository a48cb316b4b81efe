----------------------------- MODULE RunnerProofs -----------------------------
(***************************************************************************)
(* Proofs about the test runner, for any hosts and tests.                  *)
(***************************************************************************)
EXTENDS Runner, SumProofs

\* Every step of the runner keeps the types: the count of outstanding results
\* never drops below zero because it is the number of tests in progress.
LEMMA TypeStep ==
  ASSUME TypeOK, RunnerInv, [Next]_vars
  PROVE  TypeOK'
  <1> USE DEF TypeOK, flags
  <1>1. ASSUME NEW t \in Tests, PickTest(t) PROVE TypeOK'
    BY <1>1 DEF PickTest, Launch
  <1>2. ASSUME NothingFits PROVE TypeOK'
    BY <1>2 DEF NothingFits
  <1>3. ASSUME NEW t \in Tests, ReceiveResult(t) PROVE TypeOK'
    <2>1. t \in Busy
      BY <1>3 DEF ReceiveResult, Collect, Busy
    <2>2. IsFiniteSet(Busy)
      BY RunnerAssumption, FS_Subset DEF Busy
    <2>3. Cardinality(Busy) \in Nat /\ Cardinality(Busy) # 0
      BY <2>1, <2>2, FS_CardinalityType, FS_EmptySet
    <2>4. outstanding - 1 \in Nat
      BY <2>3, <1>3 DEF RunnerInv, ReceiveResult
    <2> QED
      BY <1>3, <2>4 DEF ReceiveResult, Collect
  <1>4. ASSUME NEW t \in Tests, NextTest(t) PROVE TypeOK'
    BY <1>4 DEF NextTest, Launch
  <1>5. ASSUME NEW t \in Tests, TestReturns(t) PROVE TypeOK'
    BY <1>5 DEF TestReturns, Collect
  <1>6. ASSUME NEW t \in Tests, CommandDone(t) PROVE TypeOK'
    BY <1>6 DEF CommandDone, Verdict
  <1>7. ASSUME NEW t \in Tests, Timeout(t) PROVE TypeOK'
    BY <1>7 DEF Timeout, Verdict
  <1>8. ASSUME NEW t \in Tests, CommandEnds(t) PROVE TypeOK'
    BY <1>8 DEF CommandEnds
  <1>9. ASSUME NEW t \in Tests, UpdateScheduler(t) PROVE TypeOK'
    BY <1>9 DEF UpdateScheduler
  <1>10. CASE UNCHANGED vars
    BY <1>10 DEF vars
  <1> QED
    BY <1>1, <1>2, <1>3, <1>4, <1>5, <1>6, <1>7, <1>8, <1>9, <1>10 DEF Next, Main, Run

\* A test that is launched joins the tests in progress and leaves the waiting.
LEMMA LaunchMoves ==
  ASSUME TypeOK, NEW t \in Waiting, NEW H, Launch(t, H)
  PROVE  /\ Busy' = Busy \cup {t} /\ t \notin Busy
         /\ Waiting' = Waiting \ {t}
  BY DEF TypeOK, Launch, Busy, Waiting

\* A test whose result is taken in leaves the tests in progress.
LEMMA CollectMoves ==
  ASSUME TypeOK, NEW t \in Tests, Collect(t)
  PROVE  /\ Busy' = Busy \ {t} /\ t \in Busy
         /\ Waiting' = Waiting
  BY DEF TypeOK, Collect, Busy, Waiting

\* The steps of run move no test between waiting, in progress and done.
LEMMA RunMoves ==
  ASSUME TypeOK, NEW t \in Tests,
         Run(t) \/ CommandEnds(t) \/ UpdateScheduler(t)
  PROVE  Busy' = Busy /\ Waiting' = Waiting
  BY DEF TypeOK, Run, CommandDone, Timeout, Verdict, CommandEnds, UpdateScheduler, Busy, Waiting

-------------------------------------------------------------------------------
\* The count of outstanding results follows the set of tests in progress.
LEMMA CountStep ==
  ASSUME TypeOK, NEW t \in Tests
  PROVE  /\ t \notin Busy => Cardinality(Busy \cup {t}) = Cardinality(Busy) + 1
         /\ t \in Busy => Cardinality(Busy \ {t}) = Cardinality(Busy) - 1
         /\ Cardinality(Busy) \in Nat
         /\ Cardinality(Busy) = 0 => Busy = {}
  <1>1. IsFiniteSet(Busy)
    BY RunnerAssumption, FS_Subset DEF Busy
  <1> QED
    BY <1>1, FS_AddElement, FS_RemoveElement, FS_CardinalityType, FS_EmptySet

LEMMA InvInit == Init => TypeOK /\ RunnerInv
  <1> SUFFICES ASSUME Init PROVE TypeOK /\ RunnerInv
    OBVIOUS
  <1>1. TypeOK
    BY DEF Init, TypeOK, LoopCondition
  <1>2. Busy = {} /\ Waiting = Tests
    BY DEF Init, Busy, Waiting
  <1>3. Cardinality(Busy) = 0
    BY <1>2, FS_EmptySet
  <1>5. failed = {t \in Tests : st[t] = "done" /\ errored[t]}
    BY DEF Init
  <1>6. pc = "done" => Tests = {}
    BY DEF Init, LoopCondition
  <1> QED
    BY <1>1, <1>2, <1>3, <1>5, <1>6 DEF RunnerInv, Init

\* The main goroutine launches a test.
LEMMA InvLaunch ==
  ASSUME TypeOK, RunnerInv, NEW t \in Tests, PickTest(t) \/ NextTest(t)
  PROVE  RunnerInv'
  <1>1. PICK H : Launch(t, H)
    BY DEF PickTest, NextTest
  <1>2. t \in Waiting
    BY DEF PickTest, NextTest, Picked
  <1>3. Busy' = Busy \cup {t} /\ t \notin Busy /\ Waiting' = Waiting \ {t}
    BY <1>1, <1>2, LaunchMoves
  <1>4. pc' # "done"
    BY DEF PickTest, NextTest
  <1>5. (runParallel => outstanding = Cardinality(Busy))'
    BY <1>1, <1>3, CountStep DEF PickTest, NextTest, Launch, flags, RunnerInv
  <1>6. (~runParallel => /\ outstanding = 0
                         /\ pc # "wait" => Busy = {}
                         /\ \A s, u \in Busy : s = u)'
    BY <1>1, <1>3 DEF PickTest, NextTest, Launch, flags, RunnerInv
  <1>7. (failed = {u \in Tests : st[u] = "done" /\ errored[u]})'
    BY <1>1, <1>2 DEF Launch, RunnerInv, Waiting, TypeOK
  <1>8. (\A u \in Tests : st[u] = "waiting" => cmd[u] = "none" /\ ~errored[u])'
    BY <1>1 DEF Launch, RunnerInv, TypeOK
  <1> QED
    BY <1>4, <1>5, <1>6, <1>7, <1>8 DEF RunnerInv

\* The main goroutine takes in a result.
LEMMA InvCollect ==
  ASSUME TypeOK, RunnerInv, NEW t \in Tests, ReceiveResult(t) \/ TestReturns(t)
  PROVE  RunnerInv'
  <1>1. Collect(t)
    BY DEF ReceiveResult, TestReturns
  <1>2. Busy' = Busy \ {t} /\ t \in Busy /\ Waiting' = Waiting
    BY <1>1, CollectMoves
  <1>3. (pc = "done" => Waiting = {})'
    BY <1>2 DEF ReceiveResult, TestReturns, LoopCondition
  <1>4. (runParallel => outstanding = Cardinality(Busy) /\ (pc = "done" => outstanding = 0))'
    BY <1>1, <1>2, CountStep DEF ReceiveResult, TestReturns, Collect, flags, RunnerInv, LoopCondition
  <1>5. (~runParallel => /\ outstanding = 0
                         /\ pc # "wait" => Busy = {}
                         /\ \A s, u \in Busy : s = u)'
    BY <1>1, <1>2 DEF ReceiveResult, TestReturns, Collect, flags, RunnerInv
  <1>6. (failed = {u \in Tests : st[u] = "done" /\ errored[u]})'
    <2>1. st' = [st EXCEPT ![t] = "done"] /\ st[t] = "reporting" /\ errored' = errored
      BY <1>1 DEF Collect
    <2>2. \A u \in Tests : st'[u] = "done" <=> st[u] = "done" \/ u = t
      BY <2>1 DEF TypeOK
    <2> QED
      BY <1>1, <2>1, <2>2 DEF Collect, RunnerInv
  <1>7. (\A u \in Tests : st[u] = "waiting" => cmd[u] = "none" /\ ~errored[u])'
    BY <1>1 DEF Collect, RunnerInv, TypeOK
  <1> QED
    BY <1>3, <1>4, <1>5, <1>6, <1>7 DEF RunnerInv

\* A test's goroutine, its command or its request to the scheduler takes a step.
LEMMA InvRun ==
  ASSUME TypeOK, RunnerInv, NEW t \in Tests,
         Run(t) \/ CommandEnds(t) \/ UpdateScheduler(t)
  PROVE  RunnerInv'
  <1> USE DEF Run, CommandDone, Timeout, Verdict, CommandEnds, UpdateScheduler
  <1>1. Busy' = Busy /\ Waiting' = Waiting
    BY RunMoves
  <1>2. UNCHANGED <<flags, pc, outstanding, failed>>
    OBVIOUS
  <1>3. (failed = {u \in Tests : st[u] = "done" /\ errored[u]})'
    <2>1. \A u \in Tests : st'[u] = "done" <=> st[u] = "done"
      BY DEF TypeOK
    <2>2. \A u \in Tests : st[u] = "done" => errored'[u] = errored[u]
      BY DEF TypeOK
    <2> QED
      BY <1>2, <2>1, <2>2 DEF RunnerInv
  <1>4. (\A u \in Tests : st[u] = "waiting" => cmd[u] = "none" /\ ~errored[u])'
    BY DEF RunnerInv, TypeOK
  <1> QED
    BY <1>1, <1>2, <1>3, <1>4 DEF RunnerInv, flags

LEMMA InvStep ==
  ASSUME TypeOK, RunnerInv, [Next]_vars
  PROVE  RunnerInv'
  <1>1. CASE NothingFits
    BY <1>1 DEF NothingFits, RunnerInv, Busy, Waiting, flags
  <1>2. CASE UNCHANGED vars
    BY <1>2 DEF vars, RunnerInv, Busy, Waiting, flags
  <1> QED
    BY <1>1, <1>2, InvLaunch, InvCollect, InvRun DEF Next, Main

\* The runner's variables keep their types, and RunnerInv holds: in parallel
\* mode outstanding is the number of tests in progress, and in sequential mode
\* there is at most one.
THEOREM TypeCorrect == Spec => [](TypeOK /\ RunnerInv)
  <1>1. TypeOK /\ RunnerInv /\ [Next]_vars => (TypeOK /\ RunnerInv)'
    BY TypeStep, InvStep
  <1> QED
    BY InvInit, <1>1, PTL DEF Spec

\* The runner prints its summary only after every test has been run and
\* reported, and the summary lists exactly the tests that ended with an error.
THEOREM SummaryComplete == Spec => []Complete
  <1>1. TypeOK /\ RunnerInv => Complete
    <2> SUFFICES ASSUME TypeOK, RunnerInv, pc = "done"
                 PROVE  /\ \A t \in Tests : st[t] = "done"
                        /\ failed = {t \in Tests : errored[t]}
      BY DEF Complete
    <2>1. Waiting = {}
      BY DEF RunnerInv
    <2>2. IsFiniteSet(Busy)
      BY RunnerAssumption, FS_Subset DEF Busy
    <2>3. Busy = {}
      BY <2>2, FS_EmptySet DEF RunnerInv, TypeOK
    <2>4. \A t \in Tests : st[t] = "done"
      BY <2>1, <2>3 DEF TypeOK, Waiting, Busy
    <2> QED
      BY <2>4 DEF RunnerInv
  <1> QED
    BY TypeCorrect, <1>1, PTL

-------------------------------------------------------------------------------
\* Steps that leave the hosts and the set of tests in progress alone.
LEMMA PartitionKept ==
  ASSUME HostsPartitioned, Busy' = Busy, UNCHANGED <<flags, hosts, on>>
  PROVE  HostsPartitioned'
  BY DEF HostsPartitioned, flags

LEMMA PartitionStep ==
  ASSUME TypeOK, HostsPartitioned, [Next]_vars
  PROVE  HostsPartitioned'
  <1>1. ASSUME NEW t \in Tests, PickTest(t) PROVE HostsPartitioned'
    <2>1. PICK H \in SUBSET hosts : hosts' = hosts \ H /\ Launch(t, H)
      BY <1>1 DEF PickTest
    <2>2. Busy' = Busy \cup {t} /\ t \notin Busy
      BY <1>1, <2>1, LaunchMoves DEF PickTest, Picked
    <2>3. on'[t] = H /\ \A u \in Busy : on'[u] = on[u]
      BY <2>1, <2>2 DEF Launch, TypeOK, Busy
    <2>4. (\A h \in Hosts : h \in hosts \/ \E u \in Busy : h \in on[u])'
      BY <1>1, <2>1, <2>2, <2>3 DEF HostsPartitioned, PickTest
    <2>5. (\A u \in Busy : on[u] \cap hosts = {})'
      BY <1>1, <2>1, <2>2, <2>3 DEF HostsPartitioned, PickTest
    <2>6. (\A u, v \in Busy : u # v => on[u] \cap on[v] = {})'
      BY <1>1, <2>1, <2>2, <2>3 DEF HostsPartitioned, PickTest
    <2> QED
      BY <2>4, <2>5, <2>6 DEF HostsPartitioned
  <1>2. ASSUME NEW t \in Tests, ReceiveResult(t) PROVE HostsPartitioned'
    <2>1. Busy' = Busy \ {t} /\ t \in Busy
      BY <1>2, CollectMoves DEF ReceiveResult
    <2>2. hosts' = hosts \cup on[t] /\ on' = on /\ runParallel
      BY <1>2 DEF ReceiveResult, Collect
    <2> QED
      BY <2>1, <2>2 DEF HostsPartitioned
  <1>3. CASE NothingFits
    BY <1>3, PartitionKept DEF NothingFits, Busy
  <1>4. ASSUME NEW t \in Tests, NextTest(t) \/ TestReturns(t) PROVE HostsPartitioned'
    BY <1>4 DEF NextTest, TestReturns, Launch, Collect, flags, HostsPartitioned
  <1>5. ASSUME NEW t \in Tests, Run(t) \/ CommandEnds(t) \/ UpdateScheduler(t)
        PROVE  HostsPartitioned'
    <2>1. UNCHANGED <<flags, hosts, on>>
      BY <1>5 DEF Run, CommandDone, Timeout, Verdict, CommandEnds, UpdateScheduler
    <2> QED
      BY <1>5, <2>1, RunMoves, PartitionKept
  <1>6. CASE UNCHANGED vars
    BY <1>6, PartitionKept DEF vars, Busy
  <1> QED
    BY <1>1, <1>2, <1>3, <1>4, <1>5, <1>6 DEF Next, Main

\* In parallel mode the free hosts and those held by the tests in progress
\* are all the hosts, each of them once.
THEOREM HostsArePartitioned == Spec => []HostsPartitioned
  <1>1. Init => HostsPartitioned
    BY DEF Init, HostsPartitioned, Busy
  <1>2. TypeOK /\ HostsPartitioned /\ [Next]_vars => HostsPartitioned'
    BY PartitionStep
  <1> QED
    BY TypeCorrect, <1>1, <1>2, PTL DEF Spec

-------------------------------------------------------------------------------
(***************************************************************************)
(* What Terminates rests on, without its fairness: the runner does not     *)
(* wait for nobody, and it cannot go on for ever.                          *)
(***************************************************************************)
\* The loop goes round only with a test left or in progress.
LoopInv == pc = "schedule" => Waiting # {} \/ Busy # {}

\* Every step keeps the loop and its wait from being for nobody.
LEMMA ResultStep ==
  ASSUME TypeOK, RunnerInv, HostsPartitioned, LoopInv, ResultToCome, [Next]_vars
  PROVE  LoopInv' /\ ResultToCome'
  <1>1. ASSUME NEW t \in Tests, PickTest(t) \/ NextTest(t) PROVE LoopInv' /\ ResultToCome'
    <2>1. PICK H : Launch(t, H)
      BY <1>1 DEF PickTest, NextTest
    <2>2. t \in Busy'
      BY <1>1, <2>1, LaunchMoves DEF PickTest, NextTest, Picked
    <2> QED
      BY <2>2 DEF LoopInv, ResultToCome
  <1>2. ASSUME NothingFits PROVE LoopInv' /\ ResultToCome'
    <2>1. pc = "schedule" /\ pc' = "wait" /\ Busy' = Busy
      BY <1>2 DEF NothingFits, Busy
    <2>2. ASSUME Busy = {}, \A t \in Tests : Need(t) <= Cardinality(Hosts) PROVE FALSE
      <3>1. hosts = Hosts
        BY <1>2, <2>2 DEF HostsPartitioned, NothingFits, TypeOK
      <3>2. Waiting = {}
        BY <1>2, <2>2, <3>1, RunnerAssumption DEF NothingFits, Fits, Waiting
      <3> QED
        BY <2>1, <2>2, <3>2 DEF LoopInv
    <2> QED
      BY <2>1, <2>2 DEF LoopInv, ResultToCome
  <1>3. ASSUME NEW t \in Tests, ReceiveResult(t) \/ TestReturns(t) PROVE LoopInv' /\ ResultToCome'
    <2>1. Collect(t) /\ pc' # "wait"
      BY <1>3 DEF ReceiveResult, TestReturns
    <2>2. Busy' = Busy \ {t} /\ t \in Busy /\ Waiting' = Waiting
      BY <2>1, CollectMoves
    <2>3. CASE ReceiveResult(t)
      <3>1. outstanding' = Cardinality(Busy')
        BY <2>2, <2>3, CountStep DEF ReceiveResult, RunnerInv
      <3>2. outstanding' > 0 => Busy' # {}
        BY <3>1, FS_EmptySet
      <3> QED
        BY <2>1, <2>2, <2>3, <3>2 DEF ReceiveResult, LoopCondition, LoopInv, ResultToCome
    <2>4. CASE TestReturns(t)
      BY <2>1, <2>2, <2>4 DEF TestReturns, LoopInv, ResultToCome
    <2> QED
      BY <1>3, <2>3, <2>4
  <1>4. ASSUME NEW t \in Tests, Run(t) \/ CommandEnds(t) \/ UpdateScheduler(t)
        PROVE  LoopInv' /\ ResultToCome'
    <2>1. pc' = pc
      BY <1>4 DEF Run, CommandDone, Timeout, Verdict, CommandEnds, UpdateScheduler
    <2> QED
      BY <1>4, <2>1, RunMoves DEF LoopInv, ResultToCome
  <1>5. CASE UNCHANGED vars
    BY <1>5 DEF vars, LoopInv, ResultToCome, Waiting, Busy
  <1> QED
    BY <1>1, <1>2, <1>3, <1>4, <1>5 DEF Next, Main

\* While the main goroutine waits for a result (runner.go:231), a test is in
\* progress, for any hosts and any tests that fit on them.
THEOREM NeverWaitsForNobody == Spec => []ResultToCome
  <1>1. Init => LoopInv /\ ResultToCome
    BY DEF Init, LoopCondition, LoopInv, ResultToCome, Waiting
  <1>2. /\ TypeOK /\ RunnerInv /\ HostsPartitioned
        /\ LoopInv /\ ResultToCome /\ [Next]_vars
        => (LoopInv /\ ResultToCome)'
    BY ResultStep
  <1> QED
    BY <1>1, <1>2, TypeCorrect, HostsArePartitioned, PTL DEF Spec

\* What is left to do about one test: to launch it, its command to end, its
\* verdict, its request to the scheduler, its result to be taken in.
TestRank(t) ==
  (CASE st[t] = "waiting" -> 6
     [] st[t] = "running" -> 4
     [] st[t] = "posting" -> 3
     [] st[t] = "reporting" -> 2
     [] OTHER -> 0)
  + (IF cmd[t] \in {"none", "alive"} THEN 1 ELSE 0)

\* What is left to do: a bound on the steps still to come.
Rank ==
  SumFunctionOnSet([t \in Tests |-> TestRank(t)], Tests) + (IF pc = "schedule" THEN 1 ELSE 0)

\* A step that only touches t changes the sum by what it changes at t.
LEMMA RankMoves ==
  ASSUME TypeOK, TypeOK', NEW t \in Tests,
         \A u \in Tests \ {t} : st'[u] = st[u] /\ cmd'[u] = cmd[u]
  PROVE  \E rest \in Nat :
           /\ SumFunctionOnSet([u \in Tests |-> TestRank(u)], Tests) = TestRank(t) + rest
           /\ SumFunctionOnSet([u \in Tests |-> TestRank(u)], Tests)' = TestRank(t)' + rest
  <1> DEFINE f == [u \in Tests |-> TestRank(u)]
             g == [u \in Tests |-> TestRank(u)']
  <1>1. /\ \A u \in Tests : f[u] \in Nat /\ g[u] \in Nat
        /\ f[t] = TestRank(t) /\ g[t] = TestRank(t)'
    <2>1. \A u \in Tests : TestRank(u) \in Nat
      BY DEF TypeOK, TestRank
    <2>2. \A u \in Tests : TestRank(u)' \in Nat
      BY DEF TypeOK, TestRank
    <2> QED
      BY <2>1, <2>2
  <1>2. \A u \in Tests \ {t} : f[u] = g[u]
    BY DEF TestRank
  <1>3. SumFunctionOnSet([u \in Tests |-> TestRank(u)], Tests)' = SumFunctionOnSet(g, Tests)
    OBVIOUS
  <1>4. IsFiniteSet(Tests) /\ IsFiniteSet(Tests \ {t})
    BY RunnerAssumption, FS_RemoveElement
  <1> HIDE DEF f, g
  <1>5. SumFunctionOnSet(f, Tests) = f[t] + SumFunctionOnSet(f, Tests \ {t})
    BY <1>1, <1>4, SumRemove
  <1>6. SumFunctionOnSet(g, Tests) = g[t] + SumFunctionOnSet(g, Tests \ {t})
    BY <1>1, <1>4, SumRemove
  <1>7. SumFunctionOnSet(f, Tests \ {t}) = SumFunctionOnSet(g, Tests \ {t})
    BY <1>2, <1>4, SumSame
  <1>8. SumFunctionOnSet(f, Tests \ {t}) \in Nat
    BY <1>1, <1>4, SumNat
  <1> QED
    BY <1>1, <1>3, <1>5, <1>6, <1>7, <1>8 DEF f

\* Every step takes something off what is left to do.
LEMMA RankStep ==
  ASSUME TypeOK, TypeOK', RunnerInv, Next
  PROVE  Rank \in Nat /\ Rank' \in Nat /\ Rank' < Rank
  <1> DEFINE Sum == SumFunctionOnSet([u \in Tests |-> TestRank(u)], Tests)
  <1>1. ASSUME NEW t \in Tests, NEW drop \in Nat,
               \A u \in Tests \ {t} : st'[u] = st[u] /\ cmd'[u] = cmd[u],
               TestRank(t) \in Nat, TestRank(t)' \in Nat, TestRank(t)' + drop = TestRank(t),
               \/ drop > 0 /\ (pc' = "schedule" => pc = "schedule")
               \/ drop > 1
        PROVE  Rank \in Nat /\ Rank' \in Nat /\ Rank' < Rank
    <2>1. PICK rest \in Nat : Sum = TestRank(t) + rest /\ Sum' = TestRank(t)' + rest
      BY <1>1, RankMoves
    <2> HIDE DEF Sum
    <2>2. Rank = Sum + (IF pc = "schedule" THEN 1 ELSE 0)
      BY DEF Rank, Sum
    <2>3. Rank' = Sum' + (IF pc' = "schedule" THEN 1 ELSE 0)
      BY DEF Rank, Sum
    <2> QED
      BY <1>1, <2>1, <2>2, <2>3
  <1>2. ASSUME NEW t \in Tests, PickTest(t) \/ NextTest(t)
        PROVE  Rank \in Nat /\ Rank' \in Nat /\ Rank' < Rank
    <2>1. /\ st[t] = "waiting" /\ cmd[t] = "none" /\ pc = "schedule"
          /\ st' = [st EXCEPT ![t] = "running"] /\ cmd' = [cmd EXCEPT ![t] = "alive"]
      BY <1>2 DEF PickTest, NextTest, Picked, Launch, Waiting, RunnerInv
    <2>2. TestRank(t) = 7 /\ TestRank(t)' = 5
      BY <2>1 DEF TypeOK, TestRank
    <2> QED
      BY <1>1, <2>1, <2>2
  <1>3. ASSUME NEW t \in Tests, ReceiveResult(t) \/ TestReturns(t)
        PROVE  Rank \in Nat /\ Rank' \in Nat /\ Rank' < Rank
    <2>1. st[t] = "reporting" /\ st' = [st EXCEPT ![t] = "done"] /\ cmd' = cmd
      BY <1>3 DEF ReceiveResult, TestReturns, Collect
    <2>2. TestRank(t) \in Nat /\ TestRank(t)' \in Nat /\ TestRank(t)' + 2 = TestRank(t)
      BY <2>1 DEF TypeOK, TestRank
    <2> QED
      BY <1>1, <2>1, <2>2
  <1>4. ASSUME NEW t \in Tests, CommandEnds(t)
        PROVE  Rank \in Nat /\ Rank' \in Nat /\ Rank' < Rank
    <2>1. PICK to \in {"succeeded", "failed"} : cmd' = [cmd EXCEPT ![t] = to]
      BY <1>4 DEF CommandEnds
    <2>2. cmd[t] = "alive" /\ st' = st /\ pc' = pc
      BY <1>4 DEF CommandEnds
    <2>3. TestRank(t) \in Nat /\ TestRank(t)' \in Nat /\ TestRank(t)' + 1 = TestRank(t)
      BY <2>1, <2>2 DEF TypeOK, TestRank
    <2> QED
      BY <1>1, <2>1, <2>2, <2>3
  <1>5. ASSUME NEW t \in Tests, Run(t) \/ UpdateScheduler(t)
        PROVE  Rank \in Nat /\ Rank' \in Nat /\ Rank' < Rank
    <2>1. PICK to \in {"posting", "reporting"} : st' = [st EXCEPT ![t] = to]
      BY <1>5 DEF Run, CommandDone, Timeout, Verdict, UpdateScheduler
    <2>2. /\ st[t] \in {"running", "posting"} /\ (st[t] = "posting" => to = "reporting")
          /\ cmd' = cmd /\ pc' = pc
      BY <1>5, <2>1 DEF Run, CommandDone, Timeout, Verdict, UpdateScheduler, TypeOK
    <2>3. PICK drop \in {1, 2} :
            TestRank(t) \in Nat /\ TestRank(t)' \in Nat /\ TestRank(t)' + drop = TestRank(t)
      BY <2>1, <2>2 DEF TypeOK, TestRank
    <2> QED
      BY <1>1, <2>1, <2>2, <2>3
  <1>6. CASE NothingFits
    <2>1. pc = "schedule" /\ pc' = "wait" /\ st' = st /\ cmd' = cmd
      BY <1>6 DEF NothingFits
    <2>2. Sum' = Sum
      BY <2>1 DEF TestRank
    <2>3. Sum \in Nat
      <3> DEFINE f == [u \in Tests |-> TestRank(u)]
      <3>1. \A u \in Tests : f[u] \in Nat
        BY DEF TypeOK, TestRank
      <3> HIDE DEF f
      <3>2. SumFunctionOnSet(f, Tests) \in Nat
        BY <3>1, RunnerAssumption, SumNat
      <3> QED
        BY <3>2 DEF f
    <2> HIDE DEF Sum
    <2>4. Rank = Sum + 1
      BY <2>1 DEF Rank, Sum
    <2>5. Rank' = Sum' + 0
      BY <2>1 DEF Rank, Sum
    <2> QED
      BY <2>2, <2>3, <2>4, <2>5
  <1> QED
    BY <1>2, <1>3, <1>4, <1>5, <1>6 DEF Next, Main

\* The runner cannot go on for ever, whatever the commands do and whether timers
\* fire or not: each step of the loop of parallel or sequential and each step of
\* run decreases a natural number (runner.go:205-250).  With ResultToCome, a
\* runner that stops short of its summary has been left waiting by a test.
THEOREM StepsRunOut == Spec => [][Rank' \in Nat /\ Rank' < Rank]_vars
  <1>1. TypeOK /\ TypeOK' /\ RunnerInv /\ [Next]_vars => [Rank' \in Nat /\ Rank' < Rank]_vars
    BY RankStep
  <1> QED
    BY <1>1, TypeCorrect, PTL DEF Spec
===============================================================================
