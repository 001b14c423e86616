------------------------------ MODULE MCImports -----------------------------
(***************************************************************************)
(* A small instance of ImportRules: B is imported by A, and both by M,     *)
(* under their own names, under another one, and under each other's.       *)
(***************************************************************************)
EXTENDS ImportRules

Text(imports, decs, uses) == [imports |-> imports, decs |-> decs, uses |-> uses]
Const(id, mark) == Declaration("const", id, mark, NoName)
Var(id, mark)   == Declaration("var", id, mark, NoName)
Proc(id, of)    == Declaration("proc", id, "*", of)
Type(id, mark)  == Declaration("type", id, mark, NoName)

TextsOfB ==
    { Text(<< >>, << Const("c", "*"), Var("v", "*"), Proc("p", NoName) >>, << Use("call", None, Plain("p")) >>),
      Text(<< >>, << Const("d", ""), Declaration("const", "c", "*", Name(None, "d")) >>, << >>),
      Text(<< >>, << Type("T", "*"), Var("v", "-"), Proc("p", NoName) >>, << Use("assign", None, Plain("v")) >>),
      Text(<< >>, << Type("T", ""), Proc("p", Name(None, "T")) >>, << >>),
      Text(<< >>, << Type("T", "*"), Declaration("var", "v", "*", Name(None, "T")) >>, << >>) }

TextsOfA ==
    { Text(<< << "B", "B" >> >>, << Const("c", "*"), Var("v", "*") >>, << Use("read", "B", Plain("c")) >>),
      Text(<< << "B", "B" >> >>, << Proc("p", Name("B", "T")) >>, << >>),
      Text(<< >>, << Type("T", "-"), Const("q", "-") >>, << >>) }

B     == << << "B", "B" >> >>
XisB  == << << "X", "B" >> >>
AandB == << << "A", "A" >>, << "B", "B" >> >>
BandA == << << "B", "B" >>, << "A", "A" >> >>
Cross == << << "A", "B" >>, << "B", "A" >> >>
Undeclared == Use("read", None, Plain("x"))
ItselfAsY == << << "Y", "M" >> >>
TextsOfM ==
    { Text(B, << Var("v", "*") >>, << Use("assign", "B", Plain("v")), Use("read", "B", Plain("p")) >>),
      Text(ItselfAsY, << Var("v", "*") >>, << Use("read", "M", Plain("v")) >>),
      Text(B, << >>, << Use("assign", "B", Plain("v")), Use("call", "B", Plain("p")) >>),
      Text(B, << Declaration("var", "w", "", Name("B", "T")) >>, << >>),
      Text(XisB, << >>, << Use("length", "X", Plain("c")) >>),
      Text(XisB, << >>, << Use("assign", "X", Plain("c")), Undeclared >>),
      Text(XisB, << >>, << Use("read", None, << "B", "v" >>), Use("call", "X", Plain("p")) >>),
      Text(AandB, << >>, << Use("read", "A", Plain("c")), Use("call", "A", Plain("p")) >>),
      Text(BandA, << Type("T", "") >>, << Undeclared, Use("read", "A", Plain("v")) >>),
      Text(Cross, << >>, << Use("length", "B", Plain("c")), Use("read", "A", Plain("v")) >>) }

MCTexts ==
    [m \in {"A", "B", "M"} |->
       CASE m = "A" -> TextsOfA [] m = "B" -> TextsOfB [] m = "M" -> TextsOfM]
=============================================================================
