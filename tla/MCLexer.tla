------------------------------- MODULE MCLexer ------------------------------
(* Texts for LexerRules: all sequences of a few characters, for each group *)
(* of characters that belong together, and some with directives.           *)
EXTENDS LexerRules

TextsOf(chars, n) == UNION {[1 .. k -> chars] : k \in 1 .. n}

Main(sign) == << "<", "*", "M", " ", sign, "*", ">" >>
Pieces     == {Main("+"), Main("-"), << "D" >>, << "(", "*" >>, << "*", ")" >>, << "<" >>}

AllTexts ==
    TextsOf({"1", "D", ".", "+", "H"}, 5)
      \union TextsOf({"D", "o", "O", "1", "Sha", " "}, 4)
      \union TextsOf({"D", "yuml", ".", ";"}, 4)
      \union TextsOf({"(", "*", ")"}, 7)
      \union TextsOf({"(", "*", "/", "\n", "D"}, 4)
      \union TextsOf({"'", "\"", "D", "\n"}, 4)
      \union {a \o b \o c \o d : a, b, c, d \in Pieces}
=============================================================================
