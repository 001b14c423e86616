SPECIFICATION Spec
CONSTANTS
  Vars = {"x"}
  ProcNames <- ThreeNames
  Kinds = {"var"}
  Results = {FALSE}
  Statements = {"use", "call"}
  Distinct = TRUE
  MaxProcs = 3
  MaxDepth = 2
  MaxForwards = 1
  MaxStatements = 2
INVARIANTS
  GeneratesReady
  CallsReachBody
CHECK_DEADLOCK FALSE
