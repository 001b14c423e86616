SPECIFICATION Spec
CONSTANTS
  Vars = {"x"}
  ProcNames <- TwoNames
  Kinds = {"const", "VAR"}
  Results = {TRUE}
  Statements = {"use", "call", "return"}
  Distinct = TRUE
  MaxProcs = 2
  MaxDepth = 2
  MaxForwards = 1
  MaxStatements = 2
INVARIANTS
  VerdictRight
  ClosureExact
  OwnAccess
  GeneratesReady
  CallsReachBody
CHECK_DEADLOCK FALSE
