\* The pool at its real size of three workers, two submitting threads and
\* three tasks.  The system stops once the pool is destroyed.
CONSTANTS
  Workers = {w1, w2, w3}
  Clients = {c1, c2}
  Main = main
  Tasks = {t1, t2, t3}
  NoThread = nothread
  NoTask = notask
  MaxSpurious = 2
SPECIFICATION FairSpec
INVARIANTS
  TypeOK
  MutexHeldInside
  CounterAgrees
  TakesANode
  NoLostWakeup
  FreedPoolIsUnused
PROPERTIES
  ImplementsTaskQueue
  EveryTaskRuns
  DestroyReturns
CHECK_DEADLOCK FALSE
