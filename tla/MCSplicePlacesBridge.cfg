\* two splices, one over the other
CONSTANTS
  N = 2
  Low = {}
SPECIFICATION Spec
CHECK_DEADLOCK FALSE
INVARIANT BridgeCallsOriginal
