CONSTANTS
  p1 = p1
  p2 = p2
  r = r
  Windows = {w1, w2, w3}
  Plugins = {p1, p2, r}
  RawPlugins = {r}
  Rosters <- MCRosters
  Subscribers = {s}
  NoSlice = NoSlice
SPECIFICATION Spec
CHECK_DEADLOCK FALSE
INVARIANTS
  TypeOK
  TeardownInOrder
PROPERTIES
  RoundRobin
  SweepLeavesOnlySlices
  EveryWindowUnloads
  ImplementsPromise
