---------------------------- MODULE MCExpressions ---------------------------
(***************************************************************************)
(* A small instance of ExprRules.                                          *)
(***************************************************************************)
EXTENDS ExprRules

MCFunctions ==
    { Function("value", "CHAR", "STRING"), Function("VAR", "INTEGER", "BOOLEAN"), Function(None, None, "INTEGER") }
=============================================================================
