\* Two nodes connect to the same third one at the same time.
CONSTANTS
  a = a
  b = b
  c = c
  Nodes = {a, b, c}
  Ids = {a, b, c}
  IdOf <- OwnNames
  Workers = {w1, w2}
  Free = free
  Leaked = leaked
  Sender = sender
  Cmd = cmd
  MayConnect <- JoinC
  MayQuit = {}
  MaxCommands = 2
  MaxOverlaps = 1
  MaxLost = 0
  Backlog = 4
SPECIFICATION Spec
INVARIANTS
  UpdateReachesAll
CHECK_DEADLOCK FALSE
