\* TCP: three numbers, one receiving thread and two senders, three connections.
CONSTANTS
  Numbers = {3, 4, 5}
  RecvWorkers = {r1}
  Senders = {s1, s2}
  Incoming = {c1, c2, c3}
  Sctp = FALSE
  Listener = listening
  Free = free
  NoNumber = nonumber
  Nobody = nobody
  MaxJobs = 2
  MaxSends = 1
SPECIFICATION FairSpec
INVARIANTS
  TypeOK
  OwnDescriptors
  LeaksExplained
PROPERTIES
  Accepted
CHECK_DEADLOCK FALSE
