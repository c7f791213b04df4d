SPECIFICATION FlowSpec
CONSTANTS
  r1 = r1
  Tasks = {1, 2}
  Resources = {r1}
  Liberties = {"rebind"}
  MaxCalls = 3
INVARIANTS
  ValidNodes
