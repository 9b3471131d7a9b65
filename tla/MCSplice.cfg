\* two threads, two levels of nesting, one call site
CONSTANTS
  Threads = {t1, t2}
  NoThread = NoThread
  Addresses = {a1}
  Bridges = {b1}
  Hookers = {h1}
  NULL = NULL
  RetaddrExtend = 2
  SkippedExtend = 2
  MaxRetaddr = 4
  MaxDepth = 2
SPECIFICATION FairSpliceSpec
CHECK_DEADLOCK FALSE
INVARIANTS
  HookerNeverOutlives
PROPERTIES
  LeftSlotsStay
  UnhookCompletes
