----------------------------- MODULE TokenStream ----------------------------
(***************************************************************************)
(* What a lexer promises its parser, however often the parser looks ahead  *)
(* or gives tokens back: the tokens of the text, each once, in their       *)
(* order.                                                                  *)
(***************************************************************************)
EXTENDS Naturals, Sequences, SequencesExt

CONSTANT MaxTaken \* how many tokens one handler of the parser keeps

VARIABLES
    tokens,   \* the tokens of the text, in order; they do not change
    delivered \* the tokens that the parser has kept so far

vars == << tokens, delivered >>

Init == delivered = << >>

Take ==
    \E n \in 1 .. MaxTaken :
        /\ Len(delivered) + n <= Len(tokens)
        /\ delivered' = SubSeq(tokens, 1, Len(delivered) + n)
        /\ UNCHANGED tokens

Spec == Init /\ [][Take]_vars
=============================================================================
