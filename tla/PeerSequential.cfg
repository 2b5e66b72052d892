\* Four peers, any three commands one after the other.
CONSTANTS
  a = a
  b = b
  c = c
  Nodes = {a, b, c, d}
  Ids = {a, b, c, d}
  IdOf <- OwnNames
  Workers = {w1, w2}
  Free = free
  Leaked = leaked
  Sender = sender
  Cmd = cmd
  MayConnect <- Anybody
  MayQuit = {a, b, c, d}
  MaxCommands = 3
  MaxOverlaps = 0
  MaxLost = 0
  Backlog = 4
SPECIFICATION Spec
SYMMETRY PeerSymmetry
INVARIANTS
  NewcomersConverge
  GoneForgotten
CHECK_DEADLOCK FALSE
