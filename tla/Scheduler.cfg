SPECIFICATION FairSpec
CONSTANTS
  p1 = p1
  p2 = p2
  p3 = p3
  Proc = {p1, p2, p3}
  None = None
  MaxDepth = 4
INVARIANTS
  OneTickEach
  NotifiedOnce
  ChildrenOfSuccess
PROPERTIES
  NeverAgain
  EndedLeaves
  ScheduledRuns
