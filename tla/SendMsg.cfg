\* Two workers, any three lines.
CONSTANTS
  Workers = {w1, w2}
  Cmd = cmd
  Nobody = nobody
  MaxLines = 3
SPECIFICATION FairSpec
INVARIANTS
  TypeOK
  OwnRestUnlessDisturbed
  CrashExplained
PROPERTIES
  EveryMessageHandled
CHECK_DEADLOCK FALSE
