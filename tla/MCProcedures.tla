---------------------------- MODULE MCProcedures ----------------------------
EXTENDS ProcedureScopes

TwoNames   == << "p", "q" >>
ThreeNames == << "p", "q", "r" >>
=============================================================================
