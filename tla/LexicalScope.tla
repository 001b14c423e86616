---------------------------- MODULE LexicalScope ----------------------------
(***************************************************************************)
(* What the compiler expects of its symbol table: the block structure of   *)
(* the language report (report/report.tex, "Declarations and scope rules").*)
(* Blocks are entered and left in nesting order; a name denotes its        *)
(* declaration in the innermost open block that declares it; the names     *)
(* that an open block took from outside itself are remembered until the    *)
(* next reset.  A block keeps its declarations when it is left, because    *)
(* the later passes of the compiler enter it again.                        *)
(* There are no tables, links or frame objects here.                       *)
(***************************************************************************)
EXTENDS Integers, Sequences

CONSTANTS Names,        \* identifiers
          Symbols,      \* what an identifier can be bound to
          NoSymbol,     \* the answer of a lookup that finds nothing
          Blocks,       \* procedure names
          Module        \* the outermost block

VARIABLES path,         \* the open blocks, outermost first
          scope,        \* the declarations of each block
          outer,        \* the names each block took from outside itself
          answer        \* what the last lookup returned

vars == << path, scope, outer, answer >>

Here == path[Len(path)]

Declaring(n) == {k \in DOMAIN path : n \in DOMAIN scope[path[k]]}

Innermost(n) == CHOOSE k \in Declaring(n) : \A j \in Declaring(n) : j <= k

(* The blocks that see n, but not by a declaration of their own. *)
Borrowers(n) == {path[k] : k \in Innermost(n) + 1 .. Len(path)}

WithBorrowed(n) ==
    [b \in DOMAIN outer |-> IF Declaring(n) # {} /\ b \in Borrowers(n)
                              THEN outer[b] \cup {n} ELSE outer[b]]

WithDeclared(b, n, v) ==
    [scope EXCEPT ![b] = [x \in DOMAIN @ \cup {n} |-> IF x = n THEN v ELSE @[x]]]

Init ==
    /\ path = << Module >>
    /\ scope = [b \in Blocks \cup {Module} |-> [n \in {} |-> n]]
    /\ outer = [b \in Blocks \cup {Module} |-> {}]
    /\ answer = NoSymbol

Enter(b) ==
    /\ b \notin {path[k] : k \in DOMAIN path}
    /\ path' = Append(path, b)
    /\ UNCHANGED << scope, outer, answer >>

Leave ==
    /\ Len(path) > 1
    /\ path' = SubSeq(path, 1, Len(path) - 1)
    /\ UNCHANGED << scope, outer, answer >>

Declare(n, v) ==
    /\ scope' = WithDeclared(Here, n, v)
    /\ UNCHANGED << path, outer, answer >>

Denote(n) ==
    /\ answer' = IF Declaring(n) = {} THEN NoSymbol
                 ELSE scope[path[Innermost(n)]][n]
    /\ outer' = WithBorrowed(n)
    /\ UNCHANGED << path, scope >>

Redefine(n, v) ==
    /\ Declaring(n) # {}
    /\ scope' = WithDeclared(path[Innermost(n)], n, v)
    /\ outer' = WithBorrowed(n)
    /\ UNCHANGED << path, answer >>

Forget(n) ==
    /\ Declaring(n) # {}
    /\ scope' = [scope EXCEPT ![path[Innermost(n)]] =
                   [x \in DOMAIN @ \ {n} |-> @[x]]]
    /\ UNCHANGED << path, outer, answer >>

ForgetBorrowed ==
    /\ outer' = [b \in DOMAIN outer |->
                   IF \E k \in DOMAIN path : path[k] = b THEN {} ELSE outer[b]]
    /\ UNCHANGED << path, scope, answer >>

Next ==
    \/ \E b \in Blocks : Enter(b)
    \/ Leave
    \/ \E n \in Names, v \in Symbols : Declare(n, v) \/ Redefine(n, v)
    \/ \E n \in Names : Denote(n) \/ Forget(n)
    \/ ForgetBorrowed

Spec == Init /\ [][Next]_vars
=============================================================================
