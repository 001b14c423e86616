SPECIFICATION Spec
CONSTANTS
  Vars = {"x"}
  ProcNames <- TwoNames
  Kinds = {}
  Results = {TRUE, FALSE}
  Statements = {"return"}
  Distinct = TRUE
  MaxProcs = 2
  MaxDepth = 2
  MaxForwards = 0
  MaxStatements = 1
INVARIANTS
  ReturnsFit
CHECK_DEADLOCK FALSE
