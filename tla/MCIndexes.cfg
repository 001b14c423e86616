CONSTANTS
    TypeNames <- Names
    VarNames <- Vars
    Exprs <- Matrix
    VarExprs <- OfA
    MaxTypes = 1
    MaxDepth = 8
    Selectors <- Indexes
    MaxSels = 2
SPECIFICATION Spec
INVARIANT LegalAccepted
CHECK_DEADLOCK FALSE
