\* Three tests on two shards; tests take 0.6 s or 6 s, earlier averages are 2 s.
SPECIFICATION Spec
CONSTANTS
  TestCount = 3
  ShardCount = 2
  Parallelism <- MCParallelism
  NoTime = NoTime
  NoSchedule = NoSchedule
  Unread = Unread
  RunTimes = {6, 60}
  Averages = {20}
  MaxOther = 1
INVARIANTS
  TypeOK
  SharesAreDisjoint
  GreedyIsBalanced
  GreenBuildRanAll
PROPERTY
  ImplementsAtomic
CHECK_DEADLOCK FALSE
