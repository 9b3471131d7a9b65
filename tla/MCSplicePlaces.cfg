\* three splices one over the other
CONSTANTS
  N = 3
  Low = {}
SPECIFICATION Spec
CHECK_DEADLOCK FALSE
INVARIANTS
  EntryLeadsThrough
  RemovalRestores
  YoungestBridgeCalls
