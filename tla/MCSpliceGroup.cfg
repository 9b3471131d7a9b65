\* three items, two of them on one procedure, two threads
CONSTANTS
  N = 3
  Targets = {"p", "q"}
  TargetOf <- SharedTarget
  CreateDisabled = {2}
  Threads = {t1, t2}
  MaxChain = 2
SPECIFICATION FairSpec
CHECK_DEADLOCK FALSE
INVARIANTS
  PatchLeadsToLiveSplice
PROPERTIES
  HookAllOrNothing
  CloseCompletes
