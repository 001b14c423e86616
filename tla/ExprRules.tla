------------------------------ MODULE ExprRules -----------------------------
(***************************************************************************)
(* What expressions promise.  odd names the differences from the report    *)
(* that an operand met: "slash" (the quotient of two INTEGERs is not       *)
(* generated), "strings" (= and # of strings give the INTEGER of           *)
(* Strings_Compare), "sign" (a minus that the inspector did not check),    *)
(* "literal" (a string read while do_strchar_conv is still set), "index"   *)
(* and "call" (is_const left by an index or an argument), "floor" and      *)
(* "wrap" (quotients of negative numbers, overflow), "argument" (a VAR     *)
(* argument that is not an identifier), "untyped" (a constant of a type    *)
(* without an LLVM type).                                                  *)
(***************************************************************************)
EXTENDS Expressions

IsOperand(o) ==
    /\ o.type \in Types \union {None}
    /\ {o.const, o.global, o.pure} \subseteq BOOLEAN
    /\ Cardinality(o.value) <= 1 /\ o.value \subseteq MinInt .. MaxInt

OperandsOf(fr) == {fr.left, fr.simple, fr.term}
Complete(o) == o.type # None
AllOperands == {result.operand} \union UNION { OperandsOf(frames[i]) : i \in DOMAIN frames }

-----------------------------------------------------------------------------
(* Frames nest as the text does, with a statement under every part; an     *)
(* operator waits for its right operand in every frame but the last; and   *)
(* values fit the width of an INTEGER.                                     *)
TypeOK ==
    /\ \A i \in DOMAIN frames :
         /\ (i = 1) = (frames[i].use \in {"constant", "assignment"})
         /\ \A o \in OperandsOf(frames[i]) : IsOperand(o)
         /\ frames[i].full => frames[i].mul = None /\ ~frames[i].not
         /\ i < Len(frames) => ~frames[i].full
    /\ IsOperand(constant) /\ IsOperand(result.operand)
    /\ {is_const, is_lvalue, conv, rejected} \subseteq BOOLEAN
    /\ factors \in 0 .. MaxFactors /\ statements \in 0 .. MaxStatements

(* The inspector's type of an accepted expression is that of the value the *)
(* generator makes: what is stored, passed or made a constant has the LLVM *)
(* type of its destination, through any chain of mixed INTEGER and REAL,   *)
(* of sets, strings and characters, of relations in parentheses and of     *)
(* calls, except for the named differences.                                *)
Unfit == {"slash", "strings", "sign", "literal", "untyped", "argument"}
Expected ==
    CASE result.use \in {"assignment", "value"} -> Llvm(result.target)
      [] result.use = "constant" -> Llvm(result.operand.type)
      [] OTHER -> None
GeneratedFits ==
    LET o == result.operand
    IN  \/ ~(result.use \in {"assignment", "value", "constant"})
        \/ ~Generated                                               \* a part of a VAR argument
        \/ o.odd \intersect Unfit # {}
        \/ "index" \in o.odd                                        \* an index of any type
        \/ result.use = "assignment" /\ result.target = "CHAR" /\ o.type = "STRING1"
        \/ result.use = "constant" /\ Llvm(o.type) = None
        \/ result.use = "constant" /\ result.target = "module" /\ ~o.global
        \/ o.llvm = Expected

(* "A string of length 1 can be used wherever a character constant is      *)
(* allowed": what is stored or passed as a CHAR is a character.            *)
StringsAsCharacters ==
    result.use \in {"assignment", "value"} /\ result.target = "CHAR" /\ Generated
      /\ result.operand.type = "STRING1" /\ result.operand.odd = {} => result.operand.llvm = "i32"

(* Two parts of the compiler compute constants: eval_const_int of the      *)
(* inspector, with the signed integers of C++, and the folding of what the *)
(* generator emits, on bit patterns.  Where the generator has a constant,  *)
(* both have the same value or both have none, through any chain of        *)
(* operators and also after an overflow.  As long as no step overflowed    *)
(* and none had a negative divisor or rounded a negative quotient, the     *)
(* value is that of the report's arithmetic.                               *)
ConstantsAgree ==
    \A o \in AllOperands :
      Complete(o) =>
        /\ o.global => {AsInteger(p) : p \in o.folded} = o.value
        /\ o.value # NoValue /\ o.odd \intersect {"wrap", "floor"} = {} => o.value = o.exact

(* The report has quotients rounded down, "-15 DIV 4 = -4", and remainders *)
(* in 0 <= r < y.                                                          *)
QuotientsFloored ==
    \A o \in AllOperands :
      Complete(o) /\ o.value # NoValue /\ "wrap" \notin o.odd /\ o.exact # NoValue => o.value = o.exact

(* is_const, a variable of the inspector that every visit overwrites, says *)
(* at the end of a declaration whether its text is a constant expression:  *)
(* an accepted CONST holds no variable.  An element of an array and a call *)
(* may pass as constants, by what their last index or argument leaves.     *)
ConstantsConstant ==
    result.use = "constant" /\ result.operand.odd \intersect {"index", "call"} = {} => result.operand.pure

(* As the generator has it, "the Inspector checks that VAR arguments are   *)
(* only identifiers".                                                      *)
ArgumentsIdentifiers == result.use = "VAR" => result.alone /\ result.first = "identifier"
=============================================================================
