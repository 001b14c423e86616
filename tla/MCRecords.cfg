CONSTANTS
    TypeNames <- Names
    VarNames <- Vars
    Exprs <- MCExprs
    VarExprs <- MCVarExprs
    MaxTypes = 3
    MaxDepth = 8
    Selectors <- MCSelectors
    MaxSels = 2
SPECIFICATION Spec
INVARIANT FieldsOwnTypes
CHECK_DEADLOCK FALSE
