\* two threads, two levels of nesting, extension by a single slot
CONSTANTS
  Threads = {t1, t2}
  NoThread = NoThread
  Addresses = {a1, a2}
  Bridges = {b1}
  Hookers = {h1}
  NULL = NULL
  RetaddrExtend = 1
  SkippedExtend = 1
  MaxRetaddr = 6
  MaxDepth = 2
SYMMETRY Symmetry
SPECIFICATION Spec
CHECK_DEADLOCK FALSE
INVARIANTS
  TypeOK
  SlotsMatchFrames
  PlaceInv
  HookerOnlyOutermost
  SkippedOnce
  AvailableMeansUnused
  GrowthBound
PROPERTIES
  ReturnsToCaller
  ImplementsStacks
