-------------------------------- MODULE Lexer -------------------------------
(***************************************************************************)
(* LexerUTF8 (lexer.cc) with the part of the parser that gives tokens back *)
(* (Parser::parse_qualident).                                              *)
(*                                                                         *)
(* A text is a sequence of characters; the position of the cursor is the   *)
(* index of the next one.  A scanning function is an operator from the     *)
(* position it starts at to the position behind what it reads, 0 standing  *)
(* for a thrown LexicalException.  Lines and columns are left out.         *)
(***************************************************************************)
EXTENDS Naturals, Sequences, FiniteSets, FiniteSetsExt, Functions

CONSTANTS
    Texts,  \* the texts that may be read
    MaxStr  \* MAX_STR_LITERAL

ASSUME LexerAssumption == MaxStr \in Nat

Eof  == "eof"
None == "none" \* no character is pushed back (last_char = 0)

(***************************************************************************)
(* The characters.  "Sha" and "yuml" are U+0428 and U+00FF: letters whose  *)
(* low byte is "(" and -1.                                                 *)
(***************************************************************************)
Digits    == {"0", "1", "2", "3", "4", "5", "6", "7", "8", "9"}
HexDigits == Digits \union {"A", "B", "C", "D", "E", "F", "a", "b", "c", "d", "e", "f"}
Lower     == {"a", "b", "c", "d", "e", "f", "o", "x"}
Upper     == {"A", "B", "C", "D", "E", "F", "H", "M", "O", "X"}
Letters   == Lower \union Upper \union {"Sha", "yuml"}
Alnum     == Letters \union Digits
Spaces    == {" ", "\n"}
Quotes    == {"'", "\""}
Singles   == {Eof, ";", ",", "+", "-", "*", "(", ")", "=", "#", "~", "&", "[", "]", "|",
              "/", "^", "{", "}"}
(* The one reserved word that the letters above can spell in both cases, *)
(* and the name of the directive, which stands for MAIN.                 *)
Keywords  == {<< "D", "O" >>}
MainNames == {<< "M" >>}

Alphabet  == Alnum \union Spaces \union Quotes \union (Singles \ {Eof})
               \union {"_", ":", "<", ">", "."}

UpperOf(c) == CASE c = "d" -> "D" [] c = "o" -> "O" [] OTHER -> c

(* static_cast<char> of a code point. *)
Narrow(c) == CASE c = "Sha" -> "(" [] c = "yuml" -> Eof [] OTHER -> c

VARIABLES
    text,        \* buffer
    cursor,      \* the position of the next character
    last_char,   \* the character pushed back, or None
    next_token,  \* the tokens pushed back, the top first
    output_main, \* options->output_main, set by directives
    stopped,     \* the parser has the end of the text, or an exception
    read,        \* history: the tokens scanned so far
    delivered    \* history: the tokens the parser has kept

vars == << text, cursor, last_char, next_token, output_main, stopped, read, delivered >>

-----------------------------------------------------------------------------
CharAt(i) == IF i \in DOMAIN text THEN text[i] ELSE Eof

(* The position behind the longest run of characters of C from i. *)
RunEnd(i, C) ==
    CHOOSE j \in i .. Len(text) + 1 :
        CharAt(j) \notin C /\ \A k \in i .. j - 1 : CharAt(k) \in C

(* As CommentEnd, without nesting. *)
FaultyCommentEnd(i) ==
    LET End[j \in 1 .. Len(text) + 2] ==
          CASE j > Len(text)                          -> 0
            [] CharAt(j) = "*" /\ CharAt(j + 1) = ")" -> j + 2
            [] OTHER                                  -> End[j + 1]
    IN  End[i]

(* The position behind a comment whose opening bracket ends before i. *)
CommentEnd(i) ==
    LET End[j \in 1 .. Len(text) + 2, d \in 1 .. Len(text) + 1] ==
          CASE j > Len(text)                               -> 0
            [] CharAt(j) = "*" /\ CharAt(j + 1) = ")"      ->
                 IF d = 1 THEN j + 2 ELSE End[j + 2, d - 1]
            [] CharAt(j) = "(" /\ CharAt(j + 1) = "*"      -> End[j + 2, d + 1]
            [] OTHER                                       -> End[j + 1, d]
    IN  End[i, 1]

LineCommentEnd(i) == Min({RunEnd(i, Alphabet \ {"\n"}), Len(text)}) + 1

(* Where the first character stands that is neither space nor in a comment. *)
Significant(i) ==
    LET S[j \in 0 .. Len(text) + 2] ==
          CASE CharAt(j) \in Spaces                        -> S[j + 1]
            [] CharAt(j) = "(" /\ CharAt(j + 1) = "*"      -> S[CommentEnd(j + 2)]
            [] CharAt(j) = "/" /\ CharAt(j + 1) = "/"      -> S[LineCommentEnd(j + 2)]
            [] OTHER                                       -> j
    IN  S[i]

(* As Directive, which switches on only. *)
FaultyDirective(i) ==
    LET name == RunEnd(i, Spaces)
        sign == RunEnd(RunEnd(name, Alnum \union {"_"}), Spaces)
    IN  [end |-> IF CharAt(sign) \in {"+", "-"} THEN RunEnd(sign + 1, Spaces) + 2 ELSE 0,
         enable |-> TRUE]

(* A directive whose opening bracket ends before i: its end and its sign. *)
Directive(i) ==
    LET name == RunEnd(i, Spaces)
        last == RunEnd(name, Alnum \union {"_"})
        sign == RunEnd(last, Spaces)
        star == RunEnd(sign + 1, Spaces)
    IN  [end    |-> IF /\ SubSeq(text, name, last - 1) \in MainNames
                       /\ CharAt(sign) \in {"+", "-"}
                       /\ CharAt(star) = "*"
                       /\ CharAt(star + 1) = ">"
                    THEN star + 2 ELSE 0,
         enable |-> CharAt(sign) = "+"]

(* get_char, and the directives that get_token passes before a token: the  *)
(* position of its first character and what output_main is then.           *)
TokenStart(i, main0) ==
    LET T[j \in 0 .. Len(text) + 2, main \in BOOLEAN] ==
          LET k == Significant(j)
              d == Directive(k + 2)
          IN  IF k # 0 /\ CharAt(k) = "<" /\ CharAt(k + 1) = "*"
              THEN T[d.end, IF d.end = 0 THEN main ELSE d.enable]
              ELSE [at |-> k, main |-> main]
    IN  T[i, main0]

-----------------------------------------------------------------------------
(* A token with its type and value, the position behind it, and last_char. *)
Token(type, val) == [type |-> type, val |-> val]
Scanned(token, at, last) == [token |-> token, at |-> at, last |-> last]

ErrorToken == Token("error", << >>)
Thrown     == Scanned(ErrorToken, Len(text) + 1, None)

(* As ScanDigit, for the case of a range: the period is pushed back though *)
(* it was not read.                                                        *)
FaultyScanDigit(i) ==
    LET hex == RunEnd(i + 1, HexDigits)
    IN  Scanned(Token("INTEGER", SubSeq(text, i, hex - 1)), hex,
                IF CharAt(hex) = "." THEN "." ELSE None)

(* scan_digit: the first digit stands at i. *)
ScanDigit(i) ==
    LET hex  == RunEnd(i + 1, HexDigits)
        frac == RunEnd(hex + 1, Digits)
        e    == IF CharAt(frac) \in {"e", "E", "D"} THEN frac + 1 ELSE frac
        sign == IF CharAt(e) \in {"+", "-"} THEN e + 1 ELSE e
        last == RunEnd(sign, Digits)
        number == SubSeq(text, i, hex - 1)
    IN  CASE CharAt(hex) = "H" -> Scanned(Token("HEXINTEGER", number), hex + 1, None)
          [] CharAt(hex) = "X" -> Scanned(Token("HEXCHR", number), hex + 1, None)
          [] CharAt(hex) = "." /\ CharAt(hex + 1) \in Digits ->
               Scanned(Token("REAL", SubSeq(text, i, last - 1)), last, None)
          [] CharAt(hex) = "." /\ CharAt(hex + 1) \notin Digits ->
               Scanned(Token("INTEGER", number), hex + 1, ".")
          [] OTHER -> Scanned(Token("INTEGER", number), hex, None)

(* scan_ident: reserved words are all in capitals or all in small letters. *)
ScanIdent(i) ==
    LET end   == RunEnd(i + 1, Alnum \union {"_"})
        ident == SubSeq(text, i, end - 1)
        upper == [k \in DOMAIN ident |-> UpperOf(ident[k])]
        mixed == Range(ident) \intersect Lower # {} /\ Range(ident) \intersect Upper # {}
    IN  IF upper \in Keywords /\ ~mixed
        THEN Scanned(Token("keyword", upper), end, None)
        ELSE Scanned(Token("IDENT", ident), end, None)

(* scan_string: the quote stands at i.  Appending the end of the text (-1) *)
(* to the string throws as well.  The length counts the opening quote, and *)
(* neither it nor the end of the line is looked at in the first two        *)
(* characters.                                                             *)
ScanString(i) ==
    LET quote == CharAt(i)
        close == RunEnd(i + 1, Alphabet \ {quote})
        val   == SubSeq(text, i + 1, close - 1)
    IN  CASE close > Len(text)                           -> Thrown
          [] quote = "'" /\ close = i + 2 /\ close <= Len(text) ->
               Scanned(Token("CHR", val), close + 1, None)
          [] \E k \in 3 .. Len(val) : val[k] = "\n"      -> Thrown
          [] Len(val) > 2 /\ Len(val) + 1 > MaxStr       -> Thrown
          [] OTHER                                       -> Scanned(Token("STRING", val), close + 1, None)

(* The tokens of more than one special character. *)
Pairs == {<< ":", "=" >>, << "<", "=" >>, << ">", "=" >>, << ".", "." >>}
ScanSpecial(c, i) ==
    IF << c, CharAt(i) >> \in Pairs
    THEN Scanned(Token("special", << c, CharAt(i) >>), i + 1, None)
    ELSE Scanned(Token("special", << c >>), i, None)

(* The token whose first character is c; 0 is no position. *)
ScanFrom(c, i) ==
    CASE i = 0                                  -> Thrown
      [] i # 0 /\ Narrow(c) \in Singles         ->
           Scanned(Token("special", << Narrow(c) >>), IF c = Eof THEN i ELSE i + 1, None)
      [] i # 0 /\ c \in {":", "<", ">", "."}    -> ScanSpecial(c, i + 1)
      [] i # 0 /\ c \in Quotes                  -> ScanString(i)
      [] i # 0 /\ c \in Digits                  -> ScanDigit(i)
      [] i # 0 /\ c \in Letters /\ Narrow(c) = c -> ScanIdent(i)
      [] OTHER                                  -> Thrown

(* get_token when no token is pushed back, from the scanner of a buffer b. *)
Took(b, main, next) ==
    [queue |-> << >>, cursor |-> next.at, last |-> next.last, main |-> main,
     read |-> Append(b.read, next.token), token |-> next.token]
ScanAt(b, start) == Took(b, start.main, ScanFrom(CharAt(start.at), start.at))
Scan(b) ==
    IF b.last # None THEN Took(b, b.main, ScanFrom(b.last, b.cursor - 1))
    ELSE ScanAt(b, TokenStart(b.cursor, b.main))

-----------------------------------------------------------------------------
(***************************************************************************)
(* A handler of the parser takes several tokens in one step: it works on a *)
(* buffer, the state of the lexer and the token got last.                  *)
(***************************************************************************)
Buffer == [queue |-> next_token, cursor |-> cursor, last |-> last_char, main |-> output_main,
           read |-> read, token |-> ErrorToken]

(* The buffer b with other tokens pushed back; token is the one got last.  *)
Requeue(b, queue, token) ==
    [queue |-> queue, cursor |-> b.cursor, last |-> b.last, main |-> b.main,
     read |-> b.read, token |-> token]

(* get_token *)
Get(b) ==
    IF b.queue # << >> THEN Requeue(b, Tail(b.queue), Head(b.queue)) ELSE Scan(b)

(* push_token *)
Push(b, token) == Requeue(b, << token >> \o b.queue, b.token)

(* peek_token *)
Shown(r) == Push(r, r.token)
Peek(b) ==
    IF b.queue # << >> THEN Requeue(b, b.queue, Head(b.queue))
    ELSE Shown(Scan(b))

(* The two calls with which parse_qualident gives back ident and ".". *)
FaultyPushBack(b, ident, period) == Push(Push(b, period), ident)
PushBack(b, ident, period) == Push(Push(b, ident), period)

Period == Token("special", << "." >>)

(* The parser ends with the end of the text and with every exception. *)
Ends(token) == token = ErrorToken \/ token = Token("special", << Eof >>)

Keep(b, kept, stop) ==
    /\ next_token' = b.queue
    /\ cursor' = b.cursor
    /\ last_char' = b.last
    /\ output_main' = b.main
    /\ read' = b.read
    /\ delivered' = delivered \o kept
    /\ stopped' = stop
    /\ UNCHANGED text

Init ==
    /\ text \in Texts
    /\ cursor = 1
    /\ last_char = None
    /\ next_token = << >>
    /\ output_main \in BOOLEAN
    /\ stopped = FALSE
    /\ read = << >>
    /\ delivered = << >>

get_token ==
    /\ ~stopped
    /\ LET b == Get(Buffer) IN Keep(b, << b.token >>, Ends(b.token))

peek_token ==
    /\ ~stopped
    /\ LET b == Peek(Buffer)
       IN  IF b.token = ErrorToken THEN Keep(Get(b), << ErrorToken >>, TRUE)
           ELSE Keep(b, << >>, FALSE)

(* parse_qualident, where the first identifier is or is not a module, from *)
(* the buffers behind the first identifier, the period and the second one. *)
Qualified(is_module, first, dot, ident) ==
    IF ident.token.type # "IDENT"
    THEN Keep(ident, << first.token, dot.token, ident.token >>, TRUE)
    ELSE IF is_module
    THEN Keep(ident, << first.token, dot.token, ident.token >>, FALSE)
    ELSE Keep(PushBack(ident, ident.token, dot.token), << first.token >>, FALSE)
PeekedAfter(is_module, first, tok) ==
    CASE tok.token = ErrorToken -> Keep(Get(tok), << first.token, ErrorToken >>, TRUE)
      [] tok.token = Period     -> Qualified(is_module, first, Get(tok), Get(Get(tok)))
      [] OTHER                  -> Keep(tok, << first.token >>, FALSE)
Identified(is_module, first) ==
    IF first.token.type # "IDENT" THEN Keep(first, << first.token >>, TRUE)
    ELSE PeekedAfter(is_module, first, Peek(first))
parse_qualident(is_module) ==
    /\ ~stopped
    /\ Identified(is_module, Get(Buffer))

Next ==
    \/ get_token
    \/ peek_token
    \/ \E is_module \in BOOLEAN : parse_qualident(is_module)

Spec == Init /\ [][Next]_vars

-----------------------------------------------------------------------------
(* The tokens scanned are those the parser has kept, followed by those     *)
(* that are pushed back: at most one that was looked at, or the period and *)
(* the identifier that parse_qualident gives back.                         *)
NoTokenLost ==
    /\ read = delivered \o next_token
    /\ Len(next_token) <= 2
    /\ Len(next_token) = 2 => Head(next_token) = Period
=============================================================================
