\* Three peers, any two commands at the same time, one lost connection.  Pairs
\* of commands are taken up to the names of the peers.
CONSTANTS
  a = a
  b = b
  c = c
  Nodes = {a, b, c}
  Ids = {a, b, c}
  IdOf <- OwnNames
  Workers = {w1, w2}
  Free = free
  Leaked = leaked
  Sender = sender
  Cmd = cmd
  MayConnect <- Shapes
  MayQuit = {a, b, c}
  MaxCommands = 2
  MaxOverlaps = 1
  MaxLost = 1
  Backlog = 4
SPECIFICATION FairSpec
INVARIANTS
  TypeOK
  ListStable
  DirectPeersMeet
  UniqueLists
PROPERTIES
  ComesToRest
CHECK_DEADLOCK FALSE
