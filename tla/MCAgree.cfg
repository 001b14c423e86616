SPECIFICATION Spec
CONSTANTS
  Vars = {"x"}
  ProcNames <- TwoNames
  Kinds = {"value", "VAR"}
  Results = {FALSE}
  Statements = {"call"}
  Distinct = TRUE
  MaxProcs = 1
  MaxDepth = 1
  MaxForwards = 1
  MaxStatements = 1
INVARIANTS
  HeadingsAgree
CHECK_DEADLOCK FALSE
