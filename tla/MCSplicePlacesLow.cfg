\* two splices, the older with a jumper below 16 MB
CONSTANTS
  N = 2
  Low = {1}
SPECIFICATION Spec
CHECK_DEADLOCK FALSE
INVARIANT LongJumpsWhole
