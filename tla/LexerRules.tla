------------------------------ MODULE LexerRules ----------------------------
(***************************************************************************)
(* What the lexer is for: the tokens of a text, by the grammar of symbols. *)
(* A symbol is the longest word that the grammar has from where it starts; *)
(* spaces, comments and directives stand between symbols.                  *)
(***************************************************************************)
EXTENDS Lexer, SequencesExt

CONSTANT
    Strict  \* the grammar of report.tex, or the one that the lexer has (see IsReal etc.)

VARIABLE symbols \* what the grammar makes of the text: tokens and directives

rulesVars == << vars, symbols >>

TypeOK ==
    /\ cursor \in 1 .. Len(text) + 1
    /\ last_char \in {None, "."}
    /\ output_main \in BOOLEAN
    /\ stopped \in BOOLEAN
    /\ last_char = "." => CharAt(cursor - 1) = "."

-----------------------------------------------------------------------------
(* The grammar: the type of a word, from sub to sub.                       *)

AllIn(w, C) == Range(w) \subseteq C
Word(i, j)  == SubSeq(text, i, j)

(* The lexer takes hexadecimal digits before the point, and reads a letter, *)
(* a sign and digits after the fraction, each of them or none.             *)
IsReal(w, strict) ==
    \E p \in DOMAIN w :
        /\ w[p] = "."
        /\ Head(w) \in Digits /\ AllIn(SubSeq(w, 1, p - 1), IF strict THEN Digits ELSE HexDigits)
        /\ \E q \in p + 1 .. Len(w) :
              LET scale == SubSeq(w, q + 1, Len(w))
                  e     == scale # << >> /\ Head(scale) \in {"E", "e", "D"}
                  s     == IF e THEN Tail(scale) ELSE scale
                  sign  == s # << >> /\ Head(s) \in {"+", "-"}
                  power == IF sign THEN Tail(s) ELSE s
              IN  /\ AllIn(SubSeq(w, p + 1, q), Digits)
                  /\ AllIn(power, Digits)
                  /\ strict => (e /\ power # << >>) \/ scale = << >>

(* The lexer takes a line break as one of the first two characters, and    *)
(* counts the opening quote of a string of more than two.                  *)
IsString(w, strict) ==
    /\ Len(w) > 1
    /\ w[1] \in Quotes /\ w[Len(w)] = w[1]
    /\ \A k \in 2 .. Len(w) - 1 : w[k] # w[1]
    /\ \A k \in (IF strict THEN 2 ELSE 4) .. Len(w) - 1 : w[k] # "\n"
    /\ IF strict THEN Len(w) - 2 <= MaxStr ELSE Len(w) > 4 => Len(w) - 1 <= MaxStr

(* Whether c may begin a word or a symbol of its own. *)
Begins(c, strict) == c \in Letters /\ (strict \/ Narrow(c) = c)

Types(w, strict) ==
    LET special == Len(w) = 1 /\ (IF strict THEN w[1] ELSE Narrow(w[1])) \in
                                   Singles \union {":", "<", ">", "."}
        front == SubSeq(w, 1, Len(w) - 1)
        num(C) == front # << >> /\ AllIn(front, C) /\ Head(front) \in Digits
    IN  {t \in {"special", "IDENT", "INTEGER", "HEXINTEGER", "HEXCHR", "REAL", "STRING", "CHR"} :
          CASE t = "special"    -> special \/ w \in Pairs
            [] t = "IDENT"      -> Begins(Head(w), strict) /\ AllIn(w, Alnum \union {"_"})
            [] t = "INTEGER"    -> /\ Head(w) \in Digits
                                   /\ AllIn(w, IF strict THEN Digits ELSE HexDigits)
            [] t = "HEXINTEGER" -> num(HexDigits) /\ w[Len(w)] = "H"
            [] t = "HEXCHR"     -> num(HexDigits) /\ w[Len(w)] = "X"
            [] t = "REAL"       -> IsReal(w, strict)
            [] t = "CHR"        -> IsString(w, strict) /\ Len(w) = 3 /\ w[1] = "'"
            [] t = "STRING"     -> IsString(w, strict) /\ ~(Len(w) = 3 /\ w[1] = "'")}

(* Reserved words are written in capitals or in small letters. *)
SmallOf(w)    == [k \in DOMAIN w |-> CHOOSE c \in Lower : UpperOf(c) = w[k] /\ c # w[k]]
Reserved(w)   == \E k \in Keywords : w \in {k, SmallOf(k)}
InCapitals(w) == CHOOSE k \in Keywords : w \in {k, SmallOf(k)}

TokenOf(w, strict) ==
    LET t == CHOOSE t \in Types(w, strict) : TRUE
    IN  CASE t = "IDENT" /\ Reserved(w)         -> Token("keyword", InCapitals(w))
          [] t \in {"HEXINTEGER", "HEXCHR"}     -> Token(t, SubSeq(w, 1, Len(w) - 1))
          [] t = "special" /\ ~strict           -> Token(t, [k \in DOMAIN w |-> Narrow(w[k])])
          [] t \in {"STRING", "CHR"}            -> Token(t, SubSeq(w, 2, Len(w) - 1))
          [] OTHER                              -> Token(t, w)

(* Comments: "( *" and "* )" open and close, where a star that opens does  *)
(* not close.                                                              *)
Opens(i, j)  == {k \in i .. j - 1 : CharAt(k) = "(" /\ CharAt(k + 1) = "*"}
Closes(i, j) == {k \in i .. j - 1 : CharAt(k) = "*" /\ CharAt(k + 1) = ")"
                                    /\ k - 1 \notin Opens(i, j)}
ClosesAt(i, j) == Cardinality(Opens(i, j)) = Cardinality(Closes(i, j))

IsDirective(w) ==
    \E name \in MainNames, sign \in {"+", "-"} :
        /\ SelectSeq(w, LAMBDA c : c \notin Spaces)
             = << "<", "*" >> \o name \o << sign, "*", ">" >>
        /\ w[2] = "*" /\ w[Len(w) - 1] = "*"

(* The last position of the symbol, comment or directive that begins at i, *)
(* or 0.                                                                   *)
LastOf(i, strict) ==
    LET two == << CharAt(i), CharAt(i + 1) >>
        First(P(_)) == CHOOSE j \in 0 .. Len(text) :
                         /\ j = 0 => \A k \in i + 1 .. Len(text) : ~P(k)
                         /\ j # 0 => j > i /\ P(j) /\ \A k \in i + 1 .. j - 1 : ~P(k)
    IN  CASE two = << "(", "*" >> -> First(LAMBDA j : j > i + 2 /\ ClosesAt(i, j))
          [] two = << "/", "/" >> -> First(LAMBDA j : CharAt(j) = "\n" \/ j = Len(text))
          [] two = << "<", "*" >> -> First(LAMBDA j : IsDirective(Word(i, j)))
          [] OTHER ->
               CHOOSE j \in 0 .. Len(text) :
                   /\ \A k \in i .. Len(text) : k > j => Types(Word(i, k), strict) = {}
                   /\ j # 0 => j >= i /\ Types(Word(i, j), strict) # {}

(* The symbols of the text from i, the first of which ends at j; j = 0 at  *)
(* first.  A directive is a symbol here, with its sign.                    *)
Grammar(strict) ==
    LET G[i \in 1 .. Len(text) + 1, j \in 0 .. Len(text)] ==
          LET two == << CharAt(i), CharAt(i + 1) >>
              sign == IF "+" \in Range(Word(i, j)) THEN "+" ELSE "-"
          IN  IF i > Len(text) THEN << Token("special", << Eof >>) >>
              ELSE IF CharAt(i) \in Spaces THEN G[i + 1, 0]
              ELSE IF j = 0
              THEN IF LastOf(i, strict) = 0 THEN << ErrorToken >> ELSE G[i, LastOf(i, strict)]
              ELSE CASE two \in {<< "(", "*" >>, << "/", "/" >>} -> G[j + 1, 0]
                     [] two = << "<", "*" >> -> << Token("directive", << sign >>) >> \o G[j + 1, 0]
                     [] OTHER -> << TokenOf(Word(i, j), strict) >> \o G[j + 1, 0]
    IN  G[1, 0]

RulesInit == Init /\ symbols = Grammar(Strict)
RulesNext == Next /\ UNCHANGED symbols
RulesSpec == RulesInit /\ [][RulesNext]_rulesVars

Tokens == SelectSeq(symbols, LAMBDA t : t.type # "directive")

Stream == INSTANCE TokenStream WITH tokens <- Tokens, MaxTaken <- 3

-----------------------------------------------------------------------------
(* However peek_token and the tokens given back by parse_qualident mix,    *)
(* the parser gets the symbols of the text, each once and in order, and an *)
(* exception only where the grammar has no symbol.                         *)
ImplementsTokenStream == Stream!Spec

(* Looking ahead passes directives before the tokens around them are used: *)
(* output_main is what the last directive before the last token scanned    *)
(* says.                                                                   *)
MainAsDirected ==
    LET Number(k) == Len(SelectSeq(SubSeq(symbols, 1, k), LAMBDA t : t.type # "directive"))
        before == {k \in DOMAIN symbols :
                     symbols[k].type = "directive" /\ Number(k) < Len(read)}
    IN  before # {} => output_main = (symbols[Max(before)].val = << "+" >>)
=============================================================================
