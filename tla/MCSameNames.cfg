SPECIFICATION Spec
CONSTANTS
  Vars = {"x"}
  ProcNames <- TwoNames
  Kinds = {"var"}
  Results = {FALSE}
  Statements = {"use"}
  Distinct = FALSE
  MaxProcs = 3
  MaxDepth = 2
  MaxForwards = 0
  MaxStatements = 1
INVARIANTS
  ScopesApart
CHECK_DEADLOCK FALSE
