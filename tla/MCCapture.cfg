SPECIFICATION Spec
CONSTANTS
  Vars = {"x"}
  ProcNames <- ThreeNames
  Kinds = {"var"}
  Results = {FALSE}
  Statements = {"use", "call"}
  Distinct = TRUE
  MaxProcs = 3
  MaxDepth = 3
  MaxForwards = 0
  MaxStatements = 2
INVARIANTS
  EveryCapture
CHECK_DEADLOCK FALSE
