SPECIFICATION MCSpec
CONSTANTS
  EntityMask = 3
  VersionMask = 2
  PageSize = 2
  MaxBatch = 2
  MaxKnown = 3
  Policies = {"swap_and_pop", "in_place", "swap_only"}
  Entities = {0, 1, 2}
  MaxSize = 3
  MaxVisits = 4
INVARIANTS
  BackIsMember
