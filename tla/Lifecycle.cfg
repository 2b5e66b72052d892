\* Two workers in each pool, one waiting task each.
CONSTANTS
  SendWorkers = {s1, s2}
  RecvWorkers = {r1, r2}
  Cmd = cmd
  Nobody = nobody
  MaxPending = 1
SPECIFICATION FairSpec
INVARIANTS
  TypeOK
  PoolsOutliveUsers
  ListOutlivesTasks
PROPERTIES
  QuitEnds
CHECK_DEADLOCK FALSE
