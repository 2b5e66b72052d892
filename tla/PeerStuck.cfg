\* A sign-out overtakes the sign-in, then the receiver's user quits.
CONSTANTS
  a = a
  b = b
  c = c
  Nodes = {a, b}
  Ids = {a, b}
  IdOf <- OwnNames
  Workers = {w1, w2}
  Free = free
  Leaked = leaked
  Sender = sender
  Cmd = cmd
  MayConnect <- Cross
  MayQuit = {a, b}
  MaxCommands = 3
  MaxOverlaps = 2
  MaxLost = 0
  Backlog = 4
SPECIFICATION Spec
INVARIANTS
  QuitQuits
CHECK_DEADLOCK FALSE
