CONSTANTS
    TypeNames <- Names
    VarNames <- Vars
    Exprs <- MCExprs
    VarExprs <- MCVarExprs
    MaxTypes = 3
    MaxDepth = 8
    Selectors <- MCSelectors
    MaxSels = 2
SPECIFICATION Spec
INVARIANTS
    TypeOK
    PointersBound
    AcceptedLegal
    DesignatorsTyped
    AddressesRight
    EquivRight
CHECK_DEADLOCK FALSE
