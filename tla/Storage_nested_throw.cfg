SPECIFICATION MCSpec
CONSTANTS
  EntityMask = 4
  VersionMask = 1
  PageSize = 2
  Policies = {"swap_and_pop"}
  PayloadPage = 2
  NestedThrow = TRUE
  Entities = {0, 1, 2, 3}
  MaxSize = 4
  MaxDepth = 3
  one = one
  two = two
  Keys = {0, 1, 4, 8}
  Values = {one, two}
  MinimumCapacity = 4
  Factors <- LoadFactors
  DefaultFactor <- ThreeQuarters
SYMMETRY Symmetry
INVARIANTS
  ElementsAlive
