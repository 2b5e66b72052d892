\* /info while a pool worker removes a member.
CONSTANTS
  Ids = {me, ann, max}
  LongIds = {max}
  Ips = {home, ip1, ip2}
  me = me
  home = home
  Self <- MCSelf
  Cells = {c1, c2, c3}
  Threads = {t1, t2}
  Null = null
  Wild = wild
SPECIFICATION Spec
INVARIANTS
  ReadersProtected
CHECK_DEADLOCK FALSE
