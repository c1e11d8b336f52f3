CONSTANTS
  a = a
  b = b
  x = x
  raw = raw
  Plugins = {a, b}
  Windows = {1, 2}
  Fingerprints = {x, raw}
  RawFingerprints = {raw}
  Absent = Absent
  Plans <- MCPlans
  Cap = 1
  MaxRevision = 2
  MaxLoads = 3
  MaxThrows = 1
SPECIFICATION Spec
CHECK_DEADLOCK FALSE
INVARIANTS
  TypeOK
  RegisteredIsWanted
  CapHeld
  RefusalsInOrder
  ContextsOwned
  WantedAccounted
PROPERTY
  DisabledNotRegistered
