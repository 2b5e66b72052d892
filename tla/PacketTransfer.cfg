\* Lists and texts of up to 60 bytes, broken at any of 9 places, over any other one.
CONSTANTS
  PayloadSize = 60
  Messages <- SomeMessages
  Content <- SomeContent
  Blank = blank
  Hosts <- Mixed
  Cuts = {1, 2, 4, 8, 9, 12, 29, 49, 68}
  Behind = {0, 165}
  Flips = {129}
SPECIFICATION Spec
INVARIANTS
  TypeOK
  LengthCovers
  ChecksumIsCrc32
  WholeIsUnderstood
  ReportsAreRight
CHECK_DEADLOCK FALSE
