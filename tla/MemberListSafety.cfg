\* Two pool workers, the server thread and /info on a heap of four cells; one id has no NUL.
CONSTANTS
  Ids = {me, ann, max}
  LongIds = {max}
  Ips = {home, ip1, ip2}
  me = me
  home = home
  Self <- MCSelf
  Cells = {c1, c2, c3, c4}
  Threads = {t1, t2}
  Null = null
  Wild = wild
SPECIFICATION Spec
SYMMETRY ListSymmetry
INVARIANTS
  TypeOK
  HeapAccounted
  ChainEnds
  CounterAgrees
  WalkInStep
  PrintComplete
PROPERTIES
  ImplementsMembers
CHECK_DEADLOCK FALSE
