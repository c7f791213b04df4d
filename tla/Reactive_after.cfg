SPECIFICATION Spec
CONSTANTS
  EntityMask = 3
  VersionMask = 2
  Setups = {"after"}
  Known = {0, 1}
  MaxVersion = 1
INVARIANTS
  TrackedLive
