----------------------------- MODULE Expressions ----------------------------
(***************************************************************************)
(* Expressions from their text to their LLVM value.  The parser reads an   *)
(* expression from left to right (parse_expr, parse_simpleexpr,            *)
(* parse_term, parse_factor); the inspector and, when all of the module is *)
(* inspected, the code generator visit its operands in the same order, so  *)
(* the model lets the three go side by side, one factor or operator a      *)
(* step.  Each open expression is a frame, which holds the local variables *)
(* of the visits that wait for a right operand.  The visitors also leave   *)
(* state behind: is_const and is_lvalue of the inspector describe what was *)
(* visited last, do_strchar_conv of the code generator the last argument.  *)
(***************************************************************************)
EXTENDS Integers, Sequences, FiniteSets, SequencesExt

CONSTANTS
    Variables,     \* the types of which there is a variable
    Literals,      \* the values of INTEGER literals
    LiteralTypes,  \* the types of other literals, of REAL, CHAR, BOOLEAN, VOID (NIL), SET (empty)
    Functions,     \* function procedures, see Function
    MaxInt,        \* the largest INTEGER, 2^63 - 1
    Symbols,       \* the operators of the text
    MaxFactors,    \* factors of the text, those in parts of others included
    MaxNesting,    \* expressions open at a time
    MaxStatements  \* declarations and statements

ASSUME BoundsAssumption ==
    {MaxInt, MaxFactors, MaxNesting, MaxStatements} \subseteq Nat

None == "none"
Function(mode, param, result) == [mode |-> mode, param |-> param, result |-> result]

Numeric == {"INTEGER", "REAL"}
Strings == {"STRING", "STRING1"}
Types   == Numeric \union Strings \union {"BOOLEAN", "CHAR", "SET", "ENUM", "POINTER", "VOID"}

MulOperators == {"*", "/", "DIV", "MOD", "&"}
AddOperators == {"+", "-", "OR"}
Equality     == {"=", "#"}
Ordering     == {"<", "<=", ">", ">="}
Relations    == Equality \union Ordering \union {"IN"}

(* "STRING1", a string of one character, is the type of a literal only,    *)
(* and "VOID" that of NIL.  The text has no negative literals.             *)
VarTypes == Types \ {"STRING1", "VOID"}
ASSUME TextAssumption ==
    /\ Variables \subseteq VarTypes
    /\ Literals \subseteq 0 .. MaxInt
    /\ LiteralTypes \subseteq {"REAL", "CHAR", "BOOLEAN", "VOID", "SET"}
    /\ \A fn \in Functions :
         \/ \E mode \in {"value", "VAR"}, param, result \in VarTypes : fn = Function(mode, param, result)
         \/ \E result \in VarTypes : fn = Function(None, None, result)

-----------------------------------------------------------------------------
(* The rules of the type table (initialise), which the result of an       *)
(* operator depends on; TypeTable::check adds NIL with a pointer, and      *)
(* enumerations.                                                           *)
BothNumeric(op, l, r) ==
    CASE op \in {"+", "-", "*"} -> IF l = r THEN l ELSE "REAL"
      [] op = "/" -> "REAL"
      [] op \in {"DIV", "MOD"} /\ << l, r >> = << "INTEGER", "INTEGER" >> -> "INTEGER"
      [] op \in Equality \union Ordering -> "BOOLEAN"
      [] op = ":=" /\ l = r -> "VOID"
      [] OTHER -> None
BothOf(t, op) ==
    CASE t = "STRING" /\ op = "+" -> t
      [] t = "SET" /\ op \in {"+", "-", "*", "/"} -> t
      [] t = "BOOLEAN" /\ op \in {"&", "OR"} -> t
      [] t \in {"STRING", "CHAR"} /\ op \in Equality \union Ordering -> "BOOLEAN"
      [] t \in {"BOOLEAN", "SET", "ENUM"} /\ op \in Equality -> "BOOLEAN"
      [] t \in {"BOOLEAN", "CHAR", "STRING", "SET"} /\ op = ":=" -> "VOID"
      [] OTHER -> None
Check(op, l, r) ==
    CASE l \in Numeric /\ r \in Numeric -> BothNumeric(op, l, r)
      [] l = r /\ l \notin Numeric -> BothOf(l, op)
      [] << op, l, r >> \in {<< "+", "STRING", "CHAR" >>, << "+", "CHAR", "STRING" >>} -> "STRING"
      [] << op, l, r >> = << "IN", "INTEGER", "SET" >> -> "BOOLEAN"
      [] op \in Equality /\ << l, r >> = << "POINTER", "VOID" >> -> "BOOLEAN"
      [] << op, l, r >> = << ":=", "POINTER", "VOID" >> -> "VOID"
      [] OTHER -> None

(* Type_::equiv of types that are not structured. *)
Equiv(t, r) == IF r = "STRING1" THEN t \in {"STRING", "CHAR"} ELSE t = r
Assignable(t, r) == Check(":=", t, r) # None \/ Equiv(t, r)

-----------------------------------------------------------------------------
(* eval_const_int computes with the integers of C++, in two's complement   *)
(* of as many bits as make MaxInt the largest.  A sum, difference or       *)
(* product that does not fit wraps round, as the build has it; a quotient  *)
(* is rounded to zero; a zero divisor, and the quotient that does not fit, *)
(* which stops the compiler, give no value.                                *)
MinInt == -MaxInt - 1
FaultyWrap(x) == x \* wider arithmetic than an INTEGER has
Wrap(x) == ((x - MinInt) % (MaxInt - MinInt + 1)) + MinInt
Abs(x) == IF x < 0 THEN -x ELSE x
Quotient(a, b) == LET q == Abs(a) \div Abs(b) IN IF (a < 0) = (b < 0) THEN q ELSE -q

(* A value that need not be there is a set of at most one integer. *)
NoValue == {}
Divisible(A, B) == {p \in A \X B : p[2] # 0 /\ p # << MinInt, -1 >>}
Evaluate(op, A, B) ==
    CASE op = "+" -> {Wrap(a + b) : a \in A, b \in B}
      [] op = "-" -> {Wrap(a - b) : a \in A, b \in B}
      [] op = "*" -> {Wrap(a * b) : a \in A, b \in B}
      [] op = "DIV" -> {Quotient(p[1], p[2]) : p \in Divisible(A, B)}
      [] op = "MOD" -> {p[1] - p[2] * Quotient(p[1], p[2]) : p \in Divisible(A, B)}
      [] OTHER -> NoValue

(* LLVM folds the instructions of the generator on bit patterns, which     *)
(* have no sign: add, sub and mul leave the carry out, sdiv and srem       *)
(* divide magnitudes and negate afterwards.  By zero, and of MinInt by -1, *)
(* they give poison, no value.                                             *)
Width == 2 * MaxInt + 2
Pattern(x) == x % Width
Negative(p) == p > MaxInt
AsInteger(p) == IF Negative(p) THEN p - Width ELSE p
Neg(p) == (Width - p) % Width
Magnitude(p) == IF Negative(p) THEN Neg(p) ELSE p
FaultySDiv(p, q) == p \div q \* udiv, without the signs
SDiv(p, q) ==
    LET m == Magnitude(p) \div Magnitude(q) IN IF Negative(p) = Negative(q) THEN m ELSE Neg(m)
SRem(p, q) ==
    LET m == Magnitude(p) % Magnitude(q) IN IF Negative(p) THEN Neg(m) ELSE m
Defined(P, Q) == {d \in P \X Q : d[2] # 0 /\ d # << MaxInt + 1, Width - 1 >>}
Fold(op, P, Q) ==
    CASE op = "+" -> {(p + q) % Width : p \in P, q \in Q}
      [] op = "-" -> {(p + Width - q) % Width : p \in P, q \in Q}
      [] op = "*" -> {(p * q) % Width : p \in P, q \in Q}
      [] op = "DIV" -> {SDiv(d[1], d[2]) : d \in Defined(P, Q)}
      [] op = "MOD" -> {SRem(d[1], d[2]) : d \in Defined(P, Q)}
      [] OTHER -> NoValue

-----------------------------------------------------------------------------
(* LLVM types of values, and of what a type is stored as.  STRING1 has no  *)
(* LLVM type of its own, and VOID that of no value.                        *)
Llvm(t) ==
    CASE t \in {"INTEGER", "SET"} -> "i64"
      [] t \in {"CHAR", "ENUM"} -> "i32"
      [] t = "BOOLEAN" -> "i1"
      [] t = "REAL" -> "double"
      [] t \in {"STRING", "POINTER"} -> "ptr"
      [] OTHER -> None

Invalid == "invalid" \* an instruction whose operands have the wrong types
Thrown  == "thrown"  \* an exception of the code generator
IsInt(l) == l \in {"i64", "i32", "i1"}
IsFailed(l) == l \in {Invalid, Thrown}
Failed(l, r) == IF Thrown \in {l, r} THEN Thrown ELSE Invalid

Same(l, r) == IF l = r /\ ~IsFailed(l) THEN l ELSE Failed(l, r)
FaultyPromoted(l) == l \* a REAL operation on an INTEGER as it is
Promoted(l) == IF l = "i64" THEN "double" ELSE l
Float(l, r) == IF {Promoted(l), Promoted(r)} = {"double"} THEN "double" ELSE Failed(l, r)
Bit(l) == IF IsFailed(l) THEN l ELSE "i1"

(* What a visit leaves of an operand: what the inspector and the code      *)
(* generator know of it (current is the type visit(ASTSimpleExpr) tracks,  *)
(* global whether its value is an LLVM constant, folded its bits), and     *)
(* what the text says: whether it is a constant, its exact value, and the  *)
(* known differences that it met (see ExprRules).                          *)
Operand(type, const, llvm, global, value) ==
    [type |-> type, const |-> const, llvm |-> llvm, current |-> type, global |-> global,
     value |-> value, folded |-> IF global THEN {Pattern(v) : v \in value} ELSE NoValue,
     pure |-> const, exact |-> value, odd |-> {}]
NoOperand == Operand(None, FALSE, None, FALSE, NoValue)

Exactly(op, A, B) ==
    CASE op = "+" -> {a + b : a \in A, b \in B}
      [] op = "-" -> {a - b : a \in A, b \in B}
      [] op = "*" -> {a * b : a \in A, b \in B}
      [] op = "DIV" -> {a \div b : a \in A, b \in {x \in B : x > 0}}
      [] op = "MOD" -> {a % b : a \in A, b \in {x \in B : x > 0}}
      [] OTHER -> NoValue

(* INTEGERs overflow when the result of two of them is not one. *)
Overflows(op, A, B) == op \in {"+", "-", "*"} /\ ~(Exactly(op, A, B) \subseteq MinInt .. MaxInt)

(* The report rounds down and divides by positive numbers only. *)
Unfloored(A, B) == \E a \in A, b \in B : b < 0 \/ (a < 0 /\ b > 0 /\ a % b # 0)

Differences(op, L, R) ==
    L.odd \union R.odd
      \union (IF op = "/" /\ L.type = "INTEGER" /\ R.type = "INTEGER" THEN {"slash"} ELSE {})
      \union (IF op \in Equality /\ {L.type, R.type} \subseteq Strings THEN {"strings"} ELSE {})
      \union (IF op \in {"DIV", "MOD"} /\ Unfloored(L.value, R.value) THEN {"floor"} ELSE {})
      \union (IF Overflows(op, L.value, R.value) THEN {"wrap"} ELSE {})

FaultyBothConst(L, R) == R.const \* is_const as the right operand left it
BothConst(L, R) == L.const /\ R.const
Combine(op, L, R, llvm, current) ==
    [type |-> Check(op, L.type, R.type), const |-> BothConst(L, R),
     llvm |-> llvm, current |-> current,
     global |-> L.global /\ R.global /\ ~({L.current, R.current} \intersect Strings # {}),
     value |-> Evaluate(op, L.value, R.value), folded |-> Fold(op, L.folded, R.folded),
     pure |-> L.pure /\ R.pure, exact |-> Exactly(op, L.exact, R.exact),
     odd |-> Differences(op, L, R)]

(* visit(ASTTerm), one round of its loop *)
MulValue(op, L, R) ==
    LET l == L.llvm
        r == R.llvm
        rounds == CASE op = "&" -> IF l = "i1" /\ r = "i1" THEN "i1" ELSE Failed(l, r)
                    [] op # "&" /\ R.type = "SET" -> IF op \in {"*", "/"} THEN Same(l, r) ELSE Thrown
                    [] op # "&" /\ R.type # "SET" /\ IsInt(l) /\ IsInt(r) ->
                         IF op = "/" THEN Thrown ELSE Same(l, r)
                    [] OTHER -> IF op \in {"*", "/"} THEN Float(l, r) ELSE Thrown
    IN  Combine(op, L, R, rounds, Check(op, L.type, R.type))

(* visit(ASTSimpleExpr), one round of its loop *)
AddValue(op, L, R) ==
    LET l == L.llvm
        r == R.llvm
        s == << L.current \in Strings, R.type \in Strings >>
    IN  CASE op = "OR" -> Combine(op, L, R, IF l = "i1" /\ r = "i1" THEN "i1" ELSE Failed(l, r), L.current)
          [] op # "OR" /\ R.type = "SET" -> Combine(op, L, R, Same(l, r), "SET")
          [] op # "OR" /\ R.type # "SET" /\ TRUE \in {s[1], s[2]} ->
               Combine(op, L, R,
                       IF s = << TRUE, TRUE >> \/ (s[1] /\ R.type = "CHAR") \/ (s[2] /\ L.current = "CHAR")
                       THEN (IF l = Llvm(L.current) /\ r = Llvm(R.type) THEN "ptr" ELSE Failed(l, r))
                       ELSE Thrown, "STRING")
          [] op # "OR" /\ R.type # "SET" /\ s = << FALSE, FALSE >> /\ IsInt(l) /\ IsInt(r) ->
               Combine(op, L, R, Same(l, r), "INTEGER")
          [] OTHER -> Combine(op, L, R, Float(l, r), "REAL")

(* visit(ASTExpr) of a relation *)
RelationValue(op, L, R) ==
    LET l == L.llvm
        r == R.llvm
        v == CASE L.type \in Strings /\ R.type \in Strings ->
                    IF l # "ptr" \/ r # "ptr" THEN Failed(l, r)
                    ELSE IF op \in Equality THEN "i64" ELSE "i1" \* the result of Strings_Compare itself
               [] {L.type, R.type} = {"POINTER", "VOID"} -> Bit(Same(l, r))
               [] R.type = "SET" -> Bit(Same(l, r))
               [] R.type # "SET" /\ IsInt(l) /\ IsInt(r) -> Bit(Same(l, r))
               [] OTHER -> Bit(Float(l, r))
    IN  Combine(op, L, R, v, Check(op, L.type, R.type))

(* The sign of a simple expression, which belongs to its first term: the   *)
(* inspector does not look at it.                                          *)
Signed(sign, L) ==
    IF sign # "-" THEN L
    ELSE [L EXCEPT
            !.llvm   = IF IsInt(@) THEN (IF @ = "i64" THEN @ ELSE Invalid)
                       ELSE IF @ = "double" THEN @ ELSE Failed(@, @),
            !.value  = Evaluate("-", {0}, @),
            !.folded = Fold("-", {0}, @),
            !.exact  = Exactly("-", {0}, @),
            !.odd    = @ \union (IF L.type \in Numeric \union {"SET"} THEN {} ELSE {"sign"})
                         \union (IF Overflows("-", {0}, L.value) THEN {"wrap"} ELSE {})]

(* visit(ASTFactor) of ~ *)
Negated(L) ==
    [L EXCEPT !.type = IF @ = "BOOLEAN" THEN @ ELSE None,
              !.llvm = IF IsInt(@) THEN @ ELSE Failed(@, @),
              !.value = NoValue, !.folded = NoValue, !.exact = NoValue]

-----------------------------------------------------------------------------
VARIABLES
    frames,      \* the open expressions, innermost last
    is_const,    \* the inspector's state
    is_lvalue,
    conv,        \* do_strchar_conv of the code generator
    constant,    \* the declared constant, an operand, or NoOperand
    rejected,    \* whether the inspector reported an error
    factors,     \* factors begun
    statements,  \* declarations and statements read
    result       \* the construct completed last

vars == << frames, is_const, is_lvalue, conv, constant, rejected, factors, statements, result >>

(* use says what the expression is for, target for which variable, place   *)
(* or function; alone and first describe the text of a VAR argument.       *)
Frame(use, target, strchar) ==
    [use |-> use, target |-> target, conv |-> strchar, not |-> FALSE, sign |-> None, full |-> FALSE,
     rel |-> None, add |-> None, mul |-> None,
     left |-> NoOperand, simple |-> NoOperand, term |-> NoOperand, first |-> None, alone |-> TRUE]

Top == Last(frames)
Below == Front(frames)
Completed(use, target, operand, fr) ==
    [use |-> use, target |-> target, operand |-> operand, first |-> fr.first, alone |-> fr.alone]
NoResult == Completed(None, None, NoOperand, Frame(None, None, FALSE))

Init ==
    /\ frames = << >>
    /\ is_const = FALSE /\ is_lvalue = FALSE
    /\ conv = FALSE
    /\ constant = NoOperand
    /\ rejected = FALSE
    /\ factors = 0 /\ statements = 0
    /\ result = NoResult

-----------------------------------------------------------------------------
(* The operand of a frame after a factor, a term, a simple expression. *)
AfterFactor(fr, f) ==
    LET g == IF fr.not THEN Negated(f) ELSE f
    IN  IF fr.mul = None THEN g ELSE MulValue(fr.mul, fr.term, g)

AfterTerm(fr) ==
    IF fr.add = None THEN Signed(fr.sign, fr.term) ELSE AddValue(fr.add, fr.simple, fr.term)

AfterSimple(fr) ==
    IF fr.rel = None THEN AfterTerm(fr) ELSE RelationValue(fr.rel, fr.left, AfterTerm(fr))

(* After an error nothing is generated, and nothing that follows matters. *)
Reject ==
    /\ rejected' = TRUE
    /\ frames' = << >> /\ constant' = NoOperand /\ result' = NoResult
    /\ factors' = 0 /\ is_const' = FALSE /\ is_lvalue' = FALSE /\ conv' = FALSE
    /\ statements' = MaxStatements

(* A factor f has been visited in the last frame of stack, which leaves lv *)
(* in is_lvalue; read counts it, found is the construct it completes.      *)
FactorIn(stack, f, kind, lv, read, found) ==
    \E fr \in {Last(stack)} : \E t \in {AfterFactor(fr, f)} :
        IF t.type = None THEN Reject
        ELSE /\ frames' = Append(Front(stack),
                                 [fr EXCEPT !.term = t, !.mul = None, !.not = FALSE, !.full = TRUE,
                                            !.first = IF @ # None THEN @ ELSE IF fr.not THEN "other" ELSE kind])
             /\ is_const' = t.const
             /\ is_lvalue' = (lv /\ ~fr.not)
             /\ factors' = factors + read
             /\ result' = found
             /\ UNCHANGED << conv, constant, statements, rejected >>

(* do_arguments generates nothing of what stands in a VAR argument. *)
Generated == \A i \in DOMAIN frames : frames[i].use = "argument" => frames[i].target.mode # "VAR"

CanRead == frames # << >> /\ ~rejected /\ ~Top.full /\ factors < MaxFactors
Leaf(f, kind, lv) == CanRead /\ FactorIn(frames, f, kind, lv, 1, NoResult)

ParseInteger(n) == Leaf(Operand("INTEGER", TRUE, "i64", TRUE, {n}), "other", FALSE)
ParseLiteral(t) ==
    Leaf(Operand(t, TRUE, IF t = "VOID" THEN "ptr" ELSE Llvm(t), TRUE, NoValue), "other", FALSE)

(* visit(ASTString) makes a character of any string while do_strchar_conv  *)
(* is set, and nothing but the next argument resets it.                    *)
ParseString(t) ==
    Leaf([Operand(t, TRUE, IF conv THEN "i32" ELSE "ptr", TRUE, NoValue) EXCEPT
            !.odd = IF conv /\ ~Top.conv /\ Generated THEN {"literal"} ELSE {}], "other", FALSE)

ParseVariable(t) == Leaf(Operand(t, FALSE, Llvm(t), FALSE, NoValue), "identifier", TRUE)
ParseConstant == \* a named constant is loaded
    /\ constant # NoOperand
    /\ Leaf(constant, "identifier", TRUE)

(* A function without parameters leaves is_const as it is. *)
ParseCall(fn) ==
    /\ fn.mode = None
    /\ Leaf([Operand(fn.result, is_const, Llvm(fn.result), FALSE, NoValue) EXCEPT
               !.pure = FALSE, !.odd = IF is_const THEN {"call"} ELSE {}], "other", FALSE)

Prefix(fr) ==
    /\ frames' = Append(Below, fr)
    /\ result' = NoResult
    /\ UNCHANGED << is_const, is_lvalue, conv, constant, rejected, factors, statements >>
ParseNot == CanRead /\ ~Top.not /\ Prefix([Top EXCEPT !.not = TRUE])
ParseSign(sign) ==
    /\ CanRead /\ ~Top.not /\ {Top.sign, Top.add, Top.mul} = {None}
    /\ Prefix([Top EXCEPT !.sign = sign, !.alone = FALSE])

(* An operator: what stands to its left is checked, is_lvalue is reset and *)
(* the right operand is read.                                              *)
Operator(fr, checked) ==
    IF checked.type = None THEN Reject
    ELSE /\ frames' = Append(Below, [fr EXCEPT !.full = FALSE, !.alone = FALSE])
         /\ is_const' = checked.const
         /\ is_lvalue' = FALSE
         /\ result' = NoResult
         /\ UNCHANGED << conv, constant, rejected, factors, statements >>

AfterOperand == frames # << >> /\ ~rejected /\ Top.full
ParseMulOperator(op) ==
    /\ AfterOperand /\ factors < MaxFactors
    /\ Operator([Top EXCEPT !.mul = op], Top.term)
ParseAddOperator(op) ==
    /\ AfterOperand /\ factors < MaxFactors
    /\ \E L \in {AfterTerm(Top)} : Operator([Top EXCEPT !.add = op, !.simple = L, !.term = NoOperand], L)
ParseRelation(op) ==
    /\ AfterOperand /\ factors < MaxFactors
    /\ Top.rel = None /\ Top.use \notin {"set", "range"}
    /\ \E L \in {AfterTerm(Top)} :
         Operator([Top EXCEPT !.rel = op, !.left = L, !.add = None, !.sign = None,
                              !.simple = NoOperand, !.term = NoOperand], L)

-----------------------------------------------------------------------------
(* An expression opens in a declaration or a statement, or in a factor. *)
Open(stack, fr, const, lv) ==
    /\ Len(stack) < MaxNesting
    /\ frames' = Append(stack, fr)
    /\ is_const' = const /\ is_lvalue' = lv
    /\ result' = NoResult
    /\ UNCHANGED << constant, rejected, statements >>

OpenPart(fr, const, lv) ==
    /\ CanRead /\ factors + 1 < MaxFactors
    /\ Open(frames, fr, const, lv)
    /\ factors' = factors + 1
OpenParen == OpenPart(Frame("paren", None, Top.conv), is_const, is_lvalue) /\ UNCHANGED conv
OpenSet   == OpenPart(Frame("set", None, FALSE), is_const, is_lvalue) /\ UNCHANGED conv
OpenIndex == OpenPart(Frame("index", None, FALSE), FALSE, TRUE) /\ UNCHANGED conv \* the array has been visited

(* do_arguments sets do_strchar_conv by the type that the inspector, long  *)
(* done, has given the argument: it is assumed here, and compared where    *)
(* the argument ends.                                                      *)
OpenArgument(fn, strchar) ==
    /\ fn.mode # None
    /\ strchar => fn.mode = "value" /\ fn.param = "CHAR"
    /\ OpenPart(Frame("argument", fn, strchar), is_const, is_lvalue)
    /\ conv' = IF fn.mode = "value" /\ Generated THEN strchar ELSE conv

Begin(use) ==
    /\ frames = << >> /\ ~rejected /\ statements < MaxStatements
    /\ factors < MaxFactors
    /\ Open(<< >>, Frame(use, None, FALSE), is_const, is_lvalue)
    /\ UNCHANGED << conv, factors >>
ParseConst == constant = NoOperand /\ result.use # "assignment" /\ Begin("constant")
ParseAssignment == Begin("assignment")

-----------------------------------------------------------------------------
(* An expression with operand e ends: what the construct around it makes   *)
(* of it.                                                                  *)
Ends(use) == AfterOperand /\ Top.use = use
Closed(e, f, kind, lv, found) == IF e.type = None THEN Reject ELSE FactorIn(Below, f, kind, lv, 0, found)
IntegerOnly(e) == [e EXCEPT !.type = IF @ = "INTEGER" THEN @ ELSE None]

CloseParen ==
    /\ Ends("paren")
    /\ \E e \in {AfterSimple(Top)} : Closed(e, [e EXCEPT !.current = e.type], "other", is_lvalue, NoResult)

(* The element of an array: its index is not required to be numeric, and   *)
(* is_const and is_lvalue stay as it left them.                            *)
Element(e) ==
    [Operand("INTEGER", e.const, IF IsInt(e.llvm) THEN "i64" ELSE Failed(e.llvm, e.llvm), FALSE, NoValue)
       EXCEPT !.pure = FALSE, !.odd = e.odd \union {"index"}]
CloseIndex ==
    /\ Ends("index")
    /\ \E e \in {AfterSimple(Top)} : Closed(e, Element(e), "element", is_lvalue, NoResult)

(* A set of one element, or of a range, which Set_range makes. *)
SetOf(e, llvm, global) ==
    [Operand("SET", e.const, IF e.llvm = "i64" /\ llvm = "i64" THEN "i64" ELSE Failed(e.llvm, llvm), global, NoValue)
       EXCEPT !.pure = e.pure, !.odd = e.odd]
CloseSet ==
    /\ Ends("set")
    /\ \E e \in {IntegerOnly(AfterSimple(Top))} : Closed(e, SetOf(e, "i64", e.global), "other", FALSE, NoResult)
ParseRange == \* "..": the first bound is kept, the second is read
    /\ Ends("set") /\ factors < MaxFactors
    /\ \E low \in {IntegerOnly(AfterSimple(Top))} : Operator(Frame("range", low, FALSE), low)
CloseRange ==
    /\ Ends("range")
    /\ \E low \in {Top.target}, high \in {IntegerOnly(AfterSimple(Top))} :
         LET e == [high EXCEPT !.const = @ /\ low.const, !.pure = @ /\ low.pure, !.odd = @ \union low.odd]
         IN  Closed(e, SetOf(e, low.llvm, FALSE), "other", FALSE, NoResult)

(* visit(ASTCall) of the inspector takes for a VAR argument whatever       *)
(* leaves is_lvalue set and is_const not; do_arguments takes the address   *)
(* of the identifier of its first factor.                                  *)
BadArgument(fn, e) ==
    \/ fn.mode = "VAR" /\ (~is_lvalue \/ e.const)
    \/ ~Equiv(fn.param, e.type)

CallValue(fn, e) ==
    CASE fn.mode = "VAR" -> IF Top.first \in {"identifier", "element"} THEN Llvm(fn.result) ELSE Thrown
      [] fn.mode = "value" -> IF e.llvm = Llvm(fn.param) THEN Llvm(fn.result) ELSE Failed(e.llvm, e.llvm)

CallOdd(fn, e) ==
    e.odd \union {d \in {"argument", "call"} :
                    IF d = "call" THEN e.const ELSE fn.mode = "VAR" /\ ~(Top.alone /\ Top.first = "identifier")}

CloseArgument ==
    /\ Ends("argument")
    /\ \E fn \in {Top.target}, e \in {AfterSimple(Top)} :
         /\ e.type # None => Top.conv = (fn.mode = "value" /\ fn.param = "CHAR" /\ e.type = "STRING1")
         /\ Closed([e EXCEPT !.type = IF @ # None /\ BadArgument(fn, e) THEN None ELSE @],
                   [Operand(fn.result, e.const, CallValue(fn, e), FALSE, NoValue) EXCEPT
                      !.pure = FALSE, !.odd = CallOdd(fn, e)],
                   "other", FALSE, Completed(fn.mode, fn.param, e, Top))

(* visit(ASTConst) of the inspector; of the generator, doTopConsts for a   *)
(* module, where only an LLVM constant will do, and visit(ASTConst) for a  *)
(* procedure.                                                              *)
DeclareConst(place, e) ==
    LET value == IF e.type = "INTEGER" THEN e.value ELSE NoValue
        llvm  == IF place = "module" /\ ~e.global /\ ~IsFailed(e.llvm) THEN Thrown ELSE e.llvm
    IN  /\ frames' = << >>
        /\ constant' = [Operand(e.type, TRUE, Llvm(e.type), FALSE, value) EXCEPT
                          !.odd = e.odd \union (IF Llvm(e.type) = None THEN {"untyped"} ELSE {}),
                          !.pure = e.pure]
        /\ is_const' = TRUE
        /\ result' = Completed("constant", place, [e EXCEPT !.llvm = llvm, !.value = value], Top)
        /\ statements' = statements + 1
        /\ UNCHANGED << is_lvalue, conv, rejected, factors >>
EndConst(place) ==
    /\ Ends("constant")
    /\ \E e \in {AfterSimple(Top)} :
         IF e.type = None \/ ~e.const THEN Reject ELSE DeclareConst(place, e)

(* visit(ASTAssignment): the variable is visited after the expression. *)
Assign(t, e) ==
    /\ frames' = << >>
    /\ is_const' = FALSE /\ is_lvalue' = TRUE
    /\ result' = Completed("assignment", t, e, Top)
    /\ statements' = statements + 1
    /\ UNCHANGED << conv, constant, rejected, factors >>
EndAssignment(t) ==
    /\ Ends("assignment")
    /\ \E e \in {AfterSimple(Top)} :
         IF e.type = None \/ ~Assignable(t, e.type) THEN Reject ELSE Assign(t, e)

-----------------------------------------------------------------------------
Operands ==
    \/ \E n \in Literals : ParseInteger(n)
    \/ \E t \in LiteralTypes : ParseLiteral(t)
    \/ \E t \in Strings : ParseString(t)
    \/ \E t \in Variables : ParseVariable(t)
    \/ ParseConstant
    \/ \E fn \in Functions : ParseCall(fn) \/ \E c \in BOOLEAN : OpenArgument(fn, c)
    \/ OpenParen \/ OpenIndex \/ OpenSet

Operators ==
    \/ ParseNot
    \/ \E s \in {"+", "-"} : ParseSign(s)
    \/ \E op \in MulOperators \intersect Symbols : ParseMulOperator(op)
    \/ \E op \in AddOperators \intersect Symbols : ParseAddOperator(op)
    \/ \E op \in Relations \intersect Symbols : ParseRelation(op)

Closings ==
    \/ CloseParen \/ CloseIndex \/ CloseSet \/ ParseRange \/ CloseRange \/ CloseArgument
    \/ \E place \in {"module", "procedure"} : EndConst(place)
    \/ \E t \in Variables : EndAssignment(t)

Next == ParseConst \/ ParseAssignment \/ Operands \/ Operators \/ Closings

Spec == Init /\ [][Next]_vars
=============================================================================
