\* SCTP: a failed connect and a connection that is accepted meanwhile.
CONSTANTS
  Numbers = {3, 4, 5}
  RecvWorkers = {r1}
  Senders = {s1}
  Incoming = {c1}
  Sctp = TRUE
  Listener = listening
  Free = free
  NoNumber = nonumber
  Nobody = nobody
  MaxJobs = 1
  MaxSends = 1
SPECIFICATION Spec
INVARIANTS
  SentToAddressee
CHECK_DEADLOCK FALSE
