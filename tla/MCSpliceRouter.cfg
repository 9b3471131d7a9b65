\* two threads, two routes, nodes of two items in a page and a bit; 256
\* addresses, near jumps of 32 back and 31 forth
CONSTANTS
  j1 = j1
  j2 = j2
  Threads = {t1, t2}
  NoThread = NoThread
  Jumpers = {j1, j2}
  Default = Default
  Home <- Home2
  Memories <- Maps
  Space = 256
  Half = 32
  Reach = 28
  JumpSize = 2
  Page = 4
  Granule = 16
  Header = 1
  ItemSize = 2
  NodeItems = 2
SPECIFICATION FairSpec
CHECK_DEADLOCK FALSE
INVARIANTS
  HeldIsListed
  NothingLeaks
  NodesBound
  RoutePersonalElsewhere
  JumpsReachRoutes
  SearchFinds
PROPERTY CallsEnd
