SPECIFICATION Spec
CONSTANTS
  EntityMask = 7
  VersionMask = 2
  PageSize = 2
  Policies = {"swap_and_pop", "in_place", "swap_only"}
  MaxSize = 5
  Entities = {0, 1, 2, 5}
  MaxRange = 2
INVARIANTS
  TypeOK
  Faithful
  Bijective
  StructureWhole
PROPERTIES
  InPlaceStable
