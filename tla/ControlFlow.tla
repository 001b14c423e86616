---------------------------- MODULE ControlFlow -----------------------------
(***************************************************************************)
(* Statements: the parser reads the statement sequence of one procedure    *)
(* body, and the code generator turns it into basic blocks, one handler    *)
(* per statement, sharing the insertion point of the builder and the stack *)
(* last_end of the blocks that EXIT jumps to.                              *)
(*                                                                         *)
(* The text is a sequence of items; "elsif", "else", a case label ("value" *)
(* or "range") and "end" (also UNTIL) carry the position of the statement  *)
(* they belong to.  What a statement computes is left out: a block is a    *)
(* sequence of instructions that name the item they come from.  The        *)
(* definitions Faulty... are variants with a plausible mistake, which the  *)
(* properties are tried on; they are not part of the specification.        *)
(***************************************************************************)
EXTENDS Integers, Sequences, FiniteSets, SequencesExt

CONSTANTS
    Simple,         \* a subset of {"stmt", "exit", "return"}
    Structured,     \* of {"if", "case", "while", "repeat", "loop", "for", "begin"}
    Labels,         \* of {"value", "range"}
    BackOfEmpty,    \* what back() of an empty block may look like: TRUE for a branch
    MaxItems, MaxDepth    \* bounds of the text

ASSUME FlowAssumption ==
    /\ Simple \subseteq {"stmt", "exit", "return"}
    /\ Structured \subseteq {"if", "case", "while", "repeat", "loop", "for", "begin"}
    /\ Labels \subseteq {"value", "range"}
    /\ BackOfEmpty \subseteq BOOLEAN /\ BackOfEmpty # {}

VARIABLES
    phase,          \* "parse", "generate", "done", "failed"
    text,           \* the statements
    pc,             \* the item that is generated next
    open,           \* the handlers that have not returned, with their local blocks
    code,           \* the basic blocks; block 1 is "entry"
    at,             \* the insertion point: a block
    last_end

vars == << phase, text, pc, open, code, at, last_end >>

-----------------------------------------------------------------------------
(* The parser.                                                             *)

Frame(i) == [item |-> i, end |-> 0, other |-> 0, parts |-> << >>]

Init ==
    /\ phase = "parse"
    /\ text = << >>
    /\ pc = 1
    /\ open = << >>
    /\ code = << << >> >>
    /\ at = 1
    /\ last_end = << >>

Inner == open[Len(open)]
Outer == SubSeq(open, 1, Len(open) - 1)

(* The numbers of S in order: the k-th has k numbers up to it. *)
InOrder(S) ==
    [k \in 1 .. Cardinality(S) |-> CHOOSE i \in S : Cardinality({j \in S : j <= i}) = k]

(* The items that divide the statement at i. *)
Parts(i, ops) == InOrder({j \in DOMAIN text : text[j].of = i /\ text[j].op \in ops})

(* What may come next inside the innermost statement. *)
OpenOp == IF open = << >> THEN "body" ELSE text[Inner.item].op
Elsed  == Parts(Inner.item, {"else"}) # << >>
AwaitsLabel == OpenOp = "case" /\ Parts(Inner.item, {"value", "range", "else"}) = << >>

Room(n) == Len(text) + n + Len(open) <= MaxItems

Read(op, of) == /\ text' = Append(text, [op |-> op, of |-> of])
                /\ UNCHANGED << phase, pc, code, at, last_end >>

Reading == phase = "parse"

(* parse_statement: assignment or call, parse_exit, parse_return *)
ParseSimple(op) ==
    /\ Reading
    /\ Room(1)
    /\ ~AwaitsLabel
    /\ Read(op, 0)
    /\ UNCHANGED open

(* parse_statement: the statements that contain statements *)
ParseStructured(op) ==
    /\ Reading
    /\ Room(2)
    /\ ~AwaitsLabel
    /\ Len(open) < MaxDepth
    /\ Read(op, 0)
    /\ open' = Append(open, Frame(Len(text) + 1))

(* parse_if: ELSIF clauses, then at most one ELSE *)
ParseElsif ==
    /\ Reading
    /\ Room(1)
    /\ OpenOp = "if" /\ ~Elsed
    /\ Read("elsif", Inner.item)
    /\ UNCHANGED open

ParseElse ==
    /\ Reading
    /\ Room(1)
    /\ OpenOp \in {"if", "case"} /\ ~Elsed
    /\ Read("else", Inner.item)
    /\ UNCHANGED open

(* parse_caseElements *)
ParseLabel(op) ==
    /\ Reading
    /\ Room(1)
    /\ OpenOp = "case" /\ ~Elsed
    /\ Read(op, Inner.item)
    /\ UNCHANGED open

ParseEnd ==
    /\ Reading
    /\ open # << >>
    /\ Read("end", Inner.item)
    /\ open' = Outer

ParseEndBody ==
    /\ Reading
    /\ open = << >>
    /\ text' = Append(text, [op |-> "end", of |-> 0])
    /\ phase' = "generate"
    /\ UNCHANGED << pc, open, code, at, last_end >>

Parser ==
    \/ \E op \in Simple : ParseSimple(op)
    \/ \E op \in Structured : ParseStructured(op)
    \/ ParseElsif \/ ParseElse
    \/ \E op \in Labels : ParseLabel(op)
    \/ ParseEnd \/ ParseEndBody

-----------------------------------------------------------------------------
(* Instructions.  "do" is straight-line code, "test" a conditional branch  *)
(* (to[1] when true, else to[2]), "switch" goes to to[k + 1] for label k   *)
(* and to[1] for none of its values, "range" compares with one label.      *)

Instr(op, item, to) == [op |-> op, item |-> item, to |-> to]
Br(b) == Instr("br", 0, << b >>)

Add(c, b, instr) == [c EXCEPT ![b] = Append(@, instr)]
Blocks(n) == [k \in 1 .. n |-> << >>]       \* make_block, n times
FreshBlock == Len(code) + 1

(* The opcode of the last instruction is one of ops; back() of an empty    *)
(* block is undefined and looks like a branch or does not.                 *)
EndsIn(c, b, ops, empty) ==
    IF c[b] = << >> THEN empty ELSE Last(c[b]).op \in ops

IsBr  == {"br", "test", "range"}
IsRet == {"ret"}

(* ejectBranch *)
FaultyEjectBranch(c, b, where, none, empty) ==
    IF ~none /\ ~EndsIn(c, b, IsBr \cup IsRet, empty) THEN Add(c, b, Br(where)) ELSE c

EjectBranch(c, b, where, none, empty) ==
    IF none \/ ~EndsIn(c, b, IsBr \cup IsRet, empty) THEN Add(c, b, Br(where)) ELSE c

(* The clause that ends at pc has no statements. *)
NoStatements == pc - 1 = Inner.item \/ text[pc - 1].of = Inner.item

-----------------------------------------------------------------------------
(* The code generator.                                                     *)

Visiting(op) == /\ phase = "generate"
                /\ text[pc].op = op
                /\ UNCHANGED text

VisitingPart(op, of) == /\ Visiting(op)
                        /\ text[pc].of # 0
                        /\ text[text[pc].of].op = of

Onward == pc' = pc + 1 /\ UNCHANGED phase

GenerateSimple ==
    /\ Visiting("stmt")
    /\ code' = Add(code, at, Instr("do", pc, << >>))
    /\ Onward
    /\ UNCHANGED << open, at, last_end >>

(* visit(ASTReturn) *)
GenerateReturn ==
    /\ Visiting("return")
    /\ code' = Add(code, at, Instr("ret", pc, << >>))
    /\ Onward
    /\ UNCHANGED << open, at, last_end >>

(* visit(ASTExit) *)
GenerateExit ==
    /\ Visiting("exit")
    /\ IF last_end = << >>
         THEN phase' = "failed" /\ UNCHANGED << pc, code >>
         ELSE code' = Add(code, at, Br(Last(last_end))) /\ Onward
    /\ UNCHANGED << open, at, last_end >>

(* visit(ASTIf): then, a block for each ELSIF, else, ifcont *)
GenerateIf ==
    /\ Visiting("if")
    /\ LET then   == FreshBlock
           elsifs == [k \in DOMAIN Parts(pc, {"elsif"}) |-> then + k]
           else   == then + Len(elsifs) + 1
           merge  == else + 1
           no     == IF elsifs # << >> THEN elsifs[1]
                     ELSE IF Parts(pc, {"else"}) # << >> THEN else ELSE merge
       IN  /\ code' = Add(code \o Blocks(merge - Len(code)), at,
                          Instr("test", pc, << then, no >>))
           /\ open' = Append(open, [item |-> pc, end |-> merge,
                                    other |-> else, parts |-> elsifs])
           /\ at' = then
    /\ Onward
    /\ UNCHANGED last_end

(* The clause that ends goes to ifcont; the condition is evaluated in the  *)
(* block for this ELSIF, the statements go into a new one.                 *)
GenerateElsif ==
    /\ VisitingPart("elsif", "if")
    /\ LET here == Head(Inner.parts)
           then == FreshBlock
           no   == IF Len(Inner.parts) > 1 THEN Inner.parts[2]
                   ELSE IF Parts(Inner.item, {"else"}) # << >> THEN Inner.other
                   ELSE Inner.end
       IN  /\ \E empty \in BackOfEmpty :
                code' = Add(EjectBranch(code, at, Inner.end, NoStatements, empty)
                              \o Blocks(1),
                            here, Instr("test", pc, << then, no >>))
           /\ open' = [open EXCEPT ![Len(open)].parts = Tail(@)]
           /\ at' = then
    /\ Onward
    /\ UNCHANGED last_end

GenerateElse ==
    /\ VisitingPart("else", "if")
    /\ \E empty \in BackOfEmpty :
         code' = EjectBranch(code, at, Inner.end, NoStatements, empty)
    /\ at' = Inner.other
    /\ Onward
    /\ UNCHANGED << open, last_end >>

GenerateEndIf ==
    /\ VisitingPart("end", "if")
    /\ \E empty \in BackOfEmpty :
         code' = EjectBranch(code, at, Inner.end, NoStatements, empty)
    /\ at' = Inner.end
    /\ open' = Outer
    /\ Onward
    /\ UNCHANGED last_end

(* visit(ASTCase): a block for each element, else if it has statements,    *)
(* range, end, and a chain of blocks for the range labels.                 *)
ElseStatements(i) ==
    LET e == Parts(i, {"else"})
    IN  e # << >> /\ text[e[1] + 1].of # i

GenerateCase ==
    /\ Visiting("case")
    /\ LET labels == Parts(pc, {"value", "range"})
           n      == Len(labels)
           base   == Len(code)
           elses  == base + n + 1
           range  == elses + 1
           end    == range + 1
           ranges == InOrder({k \in 1 .. n : text[labels[k]].op = "range"})
           none   == IF ElseStatements(pc) THEN elses ELSE end
           to     == << range >> \o
                       [k \in 1 .. n |-> IF text[labels[k]].op = "value"
                                           THEN base + k ELSE range]
           chain  == [k \in DOMAIN ranges |->
                        << Instr("range", ranges[k],
                                 << base + ranges[k],
                                    IF k = Len(ranges) THEN none ELSE end + k + 1 >>) >>]
           first  == << Br(IF ranges = << >> THEN none ELSE end + 1) >>
       IN  /\ code' = Add(code, at, Instr("switch", pc, to))
                        \o Blocks(n + 1) \o << first, << >> >> \o chain
           /\ open' = Append(open, [item |-> pc, end |-> end, other |-> elses,
                                    parts |-> [k \in 0 .. n |-> base + k]])
    /\ Onward
    /\ UNCHANGED << at, last_end >>

(* The end of an element looks at the block in which the element began. *)
LabelNumber(j) == Cardinality({k \in Range(Parts(text[j].of, {"value", "range"})) : k <= j})

EndElement(empty) ==
    LET labels == {j \in Range(Parts(Inner.item, {"value", "range"})) : j < pc}
        began  == Inner.parts[Cardinality(labels)]
    IN  IF labels = {} \/ EndsIn(code, began, IsBr, empty) THEN code
        ELSE Add(code, at, Br(Inner.end))

GenerateLabel ==
    /\ VisitingPart("value", "case") \/ VisitingPart("range", "case")
    /\ \E empty \in BackOfEmpty : code' = EndElement(empty)
    /\ at' = Inner.parts[LabelNumber(pc)]
    /\ Onward
    /\ UNCHANGED << open, last_end >>

GenerateCaseElse ==
    /\ VisitingPart("else", "case")
    /\ \E empty \in BackOfEmpty : code' = EndElement(empty)
    /\ at' = IF ElseStatements(Inner.item) THEN Inner.other ELSE at
    /\ Onward
    /\ UNCHANGED << open, last_end >>

GenerateEndCase ==
    /\ VisitingPart("end", "case")
    /\ IF Parts(Inner.item, {"else"}) = << >>
         THEN \E empty \in BackOfEmpty : code' = EndElement(empty)
         ELSE code' = IF ElseStatements(Inner.item)
                        THEN Add(code, at, Br(Inner.end)) ELSE code
    /\ at' = Inner.end
    /\ open' = Outer
    /\ Onward
    /\ UNCHANGED last_end

(* visit(ASTFor): loop, forpos, forneg, afterloop.  forneg is forpos with  *)
(* the comparison reversed; which of the two is taken is left out.         *)
GenerateFor ==
    /\ Visiting("for")
    /\ LET loop == FreshBlock
           after == loop + 2
       IN  /\ code' = Add(Add(code \o Blocks(3), at, Instr("do", pc, << >>)),
                          at, Br(loop))
           /\ open' = Append(open, [item |-> pc, end |-> after, other |-> loop,
                                    parts |-> << loop + 1 >>])
           /\ at' = loop
           /\ last_end' = Append(last_end, after)
    /\ Onward

GenerateEndFor ==
    /\ VisitingPart("end", "for")
    /\ LET forpos == Inner.parts[1]
           stepped == Add(Add(code, at, Instr("do", pc, << >>)), at, Br(forpos))
       IN  code' = Add(stepped, forpos,
                       Instr("test", Inner.item, << Inner.other, Inner.end >>))
    /\ at' = Inner.end
    /\ open' = Outer
    /\ last_end' = Front(last_end)
    /\ Onward

(* visit(ASTWhile): while, loop, end *)
GenerateWhile ==
    /\ Visiting("while")
    /\ LET while == FreshBlock
           loop == while + 1
           end  == while + 2
       IN  /\ code' = Add(Add(code \o Blocks(3), at, Br(while)),
                          while, Instr("test", pc, << loop, end >>))
           /\ open' = Append(open, [Frame(pc) EXCEPT !.end = end, !.other = while])
           /\ at' = loop
           /\ last_end' = Append(last_end, end)
    /\ Onward

GenerateEndWhile ==
    /\ VisitingPart("end", "while")
    /\ \E empty \in BackOfEmpty :
         code' = EjectBranch(code, at, Inner.other, NoStatements, empty)
    /\ at' = Inner.end
    /\ open' = Outer
    /\ last_end' = Front(last_end)
    /\ Onward

(* visit(ASTRepeat), visit(ASTLoop) and visit(ASTBlock) begin alike: a     *)
(* block for the statements, and end.                                      *)
GenerateRepeatLoopBegin ==
    /\ \E op \in {"repeat", "loop", "begin"} : Visiting(op)
    /\ LET body == FreshBlock
           end  == body + 1
       IN  /\ code' = Add(code \o Blocks(2), at, Br(body))
           /\ open' = Append(open, [Frame(pc) EXCEPT !.end = end, !.other = body])
           /\ at' = body
           /\ last_end' = Append(last_end, end)
    /\ Onward

GenerateUntil ==
    /\ VisitingPart("end", "repeat")
    /\ code' = Add(code, at, Instr("test", Inner.item, << Inner.end, Inner.other >>))
    /\ at' = Inner.end
    /\ open' = Outer
    /\ last_end' = Front(last_end)
    /\ Onward

FaultyGenerateEndLoop ==
    /\ VisitingPart("end", "loop")
    /\ code' = Add(code, at, Br(Inner.other))
    /\ at' = Inner.end
    /\ open' = Outer
    /\ Onward
    /\ UNCHANGED last_end

GenerateEndLoop ==
    /\ VisitingPart("end", "loop")
    /\ code' = Add(code, at, Br(Inner.other))
    /\ at' = Inner.end
    /\ open' = Outer
    /\ last_end' = Front(last_end)
    /\ Onward

(* visit(ASTBlock) pushes end once more instead of popping it. *)
GenerateEndBegin ==
    /\ VisitingPart("end", "begin")
    /\ code' = Add(code, at, Br(Inner.end))
    /\ at' = Inner.end
    /\ open' = Outer
    /\ last_end' = Append(last_end, Inner.end)
    /\ Onward

(* visit(ASTProcedure) after the statements *)
GenerateEndBody ==
    /\ Visiting("end")
    /\ text[pc].of = 0
    /\ \E empty \in BackOfEmpty :
         code' = IF EndsIn(code, at, IsRet, empty) THEN code
                 ELSE Add(code, at, Instr("ret", pc, << >>))
    /\ phase' = "done"
    /\ UNCHANGED << pc, open, at, last_end >>

Generator ==
    \/ GenerateSimple \/ GenerateReturn \/ GenerateExit
    \/ GenerateIf \/ GenerateElsif \/ GenerateElse \/ GenerateEndIf
    \/ GenerateCase \/ GenerateLabel \/ GenerateCaseElse \/ GenerateEndCase
    \/ GenerateFor \/ GenerateEndFor \/ GenerateWhile \/ GenerateEndWhile
    \/ GenerateRepeatLoopBegin
    \/ GenerateUntil \/ GenerateEndLoop \/ GenerateEndBegin \/ GenerateEndBody

Next == Parser \/ Generator

Spec == Init /\ [][Next]_vars
=============================================================================
