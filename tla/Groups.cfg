SPECIFICATION MCSpec
CONSTANTS
  EntityMask = 7
  VersionMask = 2
  PageSize = 4
  RemoteEntities = {0, 1}
  MaxRemote = 1
  MaxLocal = 3
  MaxOwn = 1
  Setups = {"before", "apart"}
  Known = {0, 1}
  MaxVersion = 1
  e1 = e1
  e2 = e2
  e3 = e3
  a = a
  b = b
  c = c
  Entities = {e1, e2, e3}
  Pools <- PoolOrder
  Owned <- OwnedPools
  Get = {}
  Exclude = {c}
  Observed <- ObservedPools
  Filtered = {b}
  Listened = {a}
  Foreign = FALSE
  MaxDepth = 4
SYMMETRY Symmetry
INVARIANTS
  SamePrefix
  OwningExact
  ObservingExact
  InsertTellsEach
  Mirrors
  OwnUntouched
  TrackedExact
