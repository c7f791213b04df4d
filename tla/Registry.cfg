SPECIFICATION MCSpec
CONSTANTS
  EntityMask = 3
  VersionMask = 2
  PageSize = 2
  a = a
  b = b
  Types = {a, b}
  Repeated = FALSE
  MaxBatch = 2
  MaxKnown = 3
  whole = whole
  Tasks = {1, 2, 3}
  Resources = {a, b}
  Whole = whole
  Liberties = {}
  MaxCalls = 5
  MaxFunctions = 3
  Handles = {h1, h2, h3}
  PoolCount = 2
  MaxNesting = 5
SYMMETRY Symmetry
INVARIANTS
  DestroysExactly
  RemovesExactly
  GraphExact
  FunctionsOrdered
  CascadeExact
  NoneStranded
PROPERTIES
  ImplementsWorld
