----------------------------- MODULE Lexer_proofs ---------------------------
(***************************************************************************)
(* Theorems about the tokens pushed back in Lexer.  What a token is plays  *)
(* no role: scanning stays unexpanded, but for the history it appends to.  *)
(***************************************************************************)
EXTENDS LexerRules, TLAPS

IsSeq(s) == s \in Seq(Range(s))

(* The queue and the history of b, where d are the tokens kept: nothing,   *)
(* one token, or two of which the first is the period.                     *)
Fits(b, d) ==
    \/ b.queue = << >> /\ b.read = d
    \/ \E t : b.queue = << t >> /\ b.read = Append(d, t)
    \/ \E t : b.queue = << Period, t >> /\ b.read = Append(Append(d, Period), t)

IInv == IsSeq(delivered) /\ Fits(Buffer, delivered)

(* Appending any token to a sequence gives a sequence.                     *)
LEMMA AppendIsSeq ==
    ASSUME NEW s, IsSeq(s), NEW t
    PROVE  IsSeq(Append(s, t))
<1> DEFINE S == Range(s) \union {t}
           r == Append(s, t)
<1>1. s \in Seq(S)
  BY DEF IsSeq
<1>2. r \in Seq(S)
  BY <1>1
<1>3. \A i \in 1 .. Len(r) : r[i] \in Range(r)
  BY <1>2 DEF Range
<1>4. QED
  BY <1>2, <1>3 DEF IsSeq

(* What the parser keeps in one step is appended token by token.           *)
LEMMA Kept ==
    ASSUME NEW s, IsSeq(s)
    PROVE  /\ s \o << >> = s
           /\ \A a : s \o << a >> = Append(s, a)
           /\ \A a, b : s \o << a, b >> = Append(Append(s, a), b)
           /\ \A a, b, c : s \o << a, b, c >> = Append(Append(Append(s, a), b), c)
<1>1. s \o << >> = s
  BY DEF IsSeq
<1>2. ASSUME NEW a PROVE s \o << a >> = Append(s, a)
  <2>1. s \in Seq(Range(s) \union {a})
    BY DEF IsSeq
  <2>2. QED
    BY <2>1
<1>3. ASSUME NEW a, NEW b PROVE s \o << a, b >> = Append(Append(s, a), b)
  <2>1. s \in Seq(Range(s) \union {a, b})
    BY DEF IsSeq
  <2>2. QED
    BY <2>1
<1>4. ASSUME NEW a, NEW b, NEW c
      PROVE  s \o << a, b, c >> = Append(Append(Append(s, a), b), c)
  <2>1. s \in Seq(Range(s) \union {a, b, c})
    BY DEF IsSeq
  <2>2. QED
    BY <2>1
<1>5. QED
  BY <1>1, <1>2, <1>3, <1>4

(* A sequence of two, made from a sequence of one.                         *)
LEMMA PairOf ==
    ASSUME NEW a, NEW t
    PROVE  Append(<< a >>, t) = << a, t >>
<1> DEFINE r == Append(<< a >>, t)
<1>1. << a >> \in Seq({a, t})
  OBVIOUS
<1>2. r \in Seq({a, t}) /\ Len(r) = 2 /\ r[1] = a /\ r[2] = t
  BY <1>1
<1>3. << a, t >> \in Seq({a, t}) /\ Len(<< a, t >>) = 2 /\ << a, t >>[1] = a /\ << a, t >>[2] = t
  OBVIOUS
<1> HIDE DEF r
<1>4. DOMAIN r = DOMAIN << a, t >> /\ \A i \in DOMAIN r : r[i] = << a, t >>[i]
  BY <1>2, <1>3
<1>5. r = << a, t >>
  BY <1>2, <1>3, <1>4
<1>6. QED
  BY <1>5 DEF r

-----------------------------------------------------------------------------
(* Scanning makes one token and leaves none pushed back.                   *)
LEMMA ScanReads ==
    ASSUME NEW b
    PROVE  Scan(b).queue = << >> /\ Scan(b).read = Append(b.read, Scan(b).token)
BY DEF Scan, ScanAt, Took

(* get_token takes the next token, whether it was pushed back or not.      *)
LEMMA GetTakes ==
    ASSUME NEW b, NEW d, IsSeq(d), Fits(b, d)
    PROVE  Fits(Get(b), Append(d, Get(b).token))
<1>1. CASE b.queue = << >> /\ b.read = d
  <2>1. /\ Get(b) = Scan(b)
        /\ Scan(b).queue = << >>
        /\ Scan(b).read = Append(b.read, Scan(b).token)
    BY <1>1, ScanReads DEF Get
  <2>2. QED
    BY <1>1, <2>1 DEF Fits
<1>2. ASSUME NEW t, b.queue = << t >>, b.read = Append(d, t)
      PROVE  Fits(Get(b), Append(d, Get(b).token))
  <2>1. Get(b).token = t /\ Get(b).queue = << >> /\ Get(b).read = b.read
    BY <1>2 DEF Get, Requeue
  <2>2. QED
    BY <1>2, <2>1 DEF Fits
<1>3. ASSUME NEW t, b.queue = << Period, t >>, b.read = Append(Append(d, Period), t)
      PROVE  Fits(Get(b), Append(d, Get(b).token))
  <2>1. Get(b).token = Period /\ Get(b).queue = << t >> /\ Get(b).read = b.read
    BY <1>3 DEF Get, Requeue
  <2>2. QED
    BY <1>3, <2>1 DEF Fits
<1>4. QED
  BY <1>1, <1>2, <1>3 DEF Fits

(* peek_token keeps the token it shows in front: it is what get_token      *)
(* returns next.                                                           *)
LEMMA PeekShows ==
    ASSUME NEW b, NEW d, IsSeq(d), Fits(b, d)
    PROVE  Fits(Peek(b), d) /\ Peek(b).queue # << >> /\ Head(Peek(b).queue) = Peek(b).token
<1>1. CASE b.queue = << >> /\ b.read = d
  <2>1. /\ Peek(b).queue = << Scan(b).token >>
        /\ Peek(b).token = Scan(b).token
        /\ Peek(b).read = Append(b.read, Scan(b).token)
    <3>1. Peek(b) = Push(Scan(b), Scan(b).token)
      BY <1>1 DEF Peek, Shown
    <3>2. << Scan(b).token >> \o << >> = << Scan(b).token >>
      OBVIOUS
    <3>3. Scan(b).queue = << >>
      BY ScanReads
    <3>4. << Scan(b).token >> \o Scan(b).queue = << Scan(b).token >>
      BY <3>2, <3>3
    <3>5. Scan(b).read = Append(b.read, Scan(b).token)
      BY ScanReads
    <3>6. QED
      BY <3>1, <3>4, <3>5 DEF Push, Requeue
  <2>2. QED
    BY <1>1, <2>1 DEF Fits
<1>2. CASE b.queue # << >>
  <2>1. Peek(b).queue = b.queue /\ Peek(b).token = Head(b.queue) /\ Peek(b).read = b.read
    BY <1>2 DEF Peek, Requeue
  <2>2. QED
    BY <1>2, <2>1 DEF Fits
<1>3. b.queue = << >> => b.read = d
  BY DEF Fits
<1>4. QED
  BY <1>1, <1>2, <1>3

(* Where the queue was read up to two tokens behind d, of which the first  *)
(* is the period, it fits again when both are given back.                  *)
LEMMA GivenBack ==
    ASSUME NEW b, NEW d, NEW t, Fits(b, Append(Append(d, Period), t)), b.queue = << >>
    PROVE  Fits(PushBack(b, t, Period), d)
<1>1. b.read = Append(Append(d, Period), t)
  BY DEF Fits
<1>2. PushBack(b, t, Period).queue = << Period, t >> /\ PushBack(b, t, Period).read = b.read
  <2>1. << t >> \o b.queue = << t >>
    OBVIOUS
  <2>2. << Period >> \o << t >> = << Period, t >>
    <3>1. IsSeq(<< Period >>)
      BY DEF IsSeq, Range
    <3>2. << Period >> \o << t >> = Append(<< Period >>, t)
      BY <3>1, Kept
    <3>3. QED
      BY <3>2, PairOf
  <2>3. Push(b, t).queue = << t >> /\ Push(b, t).read = b.read
    BY <2>1 DEF Push, Requeue
  <2>4. QED
    BY <2>2, <2>3 DEF PushBack, Push, Requeue
<1>3. QED
  BY <1>1, <1>2 DEF Fits

(* A step that keeps the tokens of the buffer b that fit.                  *)
LEMMA KeepFits ==
    ASSUME NEW b, NEW kept, NEW stop, Keep(b, kept, stop),
           IsSeq(delivered \o kept), Fits(b, delivered \o kept)
    PROVE  IInv'
<1>1. Buffer'.queue = b.queue /\ Buffer'.read = b.read
  BY DEF Keep, Buffer
<1>2. delivered' = delivered \o kept
  BY DEF Keep
<1>3. QED
  BY <1>1, <1>2 DEF IInv, Fits

(* After a token other than the period nothing is pushed back any more.    *)
LEMMA QueueAfterIdent ==
    ASSUME NEW b, NEW d, IsSeq(d), Fits(b, d), Get(b).token # Period
    PROVE  Get(b).queue = << >>
<1>1. CASE b.queue = << >>
  BY <1>1, ScanReads DEF Get
<1>2. CASE \E t : b.queue = << t >>
  BY <1>2 DEF Get, Requeue
<1>3. CASE \E t : b.queue = << Period, t >>
  <2>1. Get(b).token = Period
    BY <1>3 DEF Get, Requeue
  <2>2. QED
    BY <2>1
<1>4. QED
  BY <1>1, <1>2, <1>3 DEF Fits

-----------------------------------------------------------------------------
(* get_token keeps the token it takes.                                     *)
LEMMA GetStep == ASSUME IInv, get_token PROVE IInv'
<1> DEFINE b == Get(Buffer)
<1>1. Keep(b, << b.token >>, Ends(b.token))
  BY DEF get_token
<1>2. Fits(b, Append(delivered, b.token)) /\ IsSeq(Append(delivered, b.token))
  BY GetTakes, AppendIsSeq DEF IInv
<1>3. delivered \o << b.token >> = Append(delivered, b.token)
  BY Kept DEF IInv
<1> HIDE DEF b
<1>4. QED
  BY <1>1, <1>2, <1>3, KeepFits

(* peek_token keeps nothing, or the error that ends the parser.            *)
LEMMA PeekStep == ASSUME IInv, peek_token PROVE IInv'
<1> DEFINE b == Peek(Buffer)
           g == Get(b)
<1>1. Fits(b, delivered) /\ b.queue # << >> /\ Head(b.queue) = b.token
  BY PeekShows DEF IInv
<1>2. g.token = b.token
  BY <1>1 DEF Get, Requeue
<1>0. IF b.token = ErrorToken THEN Keep(g, << ErrorToken >>, TRUE) ELSE Keep(b, << >>, FALSE)
  BY DEF peek_token
<1>3. CASE b.token = ErrorToken
  <2>1. Fits(g, Append(delivered, g.token)) /\ IsSeq(Append(delivered, g.token))
    BY <1>1, GetTakes, AppendIsSeq DEF IInv
  <2>2. delivered \o << ErrorToken >> = Append(delivered, ErrorToken)
    BY Kept DEF IInv
  <2> HIDE DEF b, g
  <2>3. Keep(g, << ErrorToken >>, TRUE)
    BY <1>0, <1>3
  <2>4. QED
    BY <1>2, <1>3, <2>1, <2>2, <2>3, KeepFits
<1>4. CASE b.token # ErrorToken
  <2>1. Keep(b, << >>, FALSE)
    <3> HIDE DEF b
    <3>1. QED
      BY <1>0, <1>4
  <2>2. delivered \o << >> = delivered /\ IsSeq(delivered)
    BY Kept DEF IInv
  <2> HIDE DEF b
  <2>3. QED
    BY <1>1, <2>1, <2>2, KeepFits
<1>5. QED
  BY <1>3, <1>4

(* parse_qualident keeps one token or three, and gives back the period and *)
(* the second identifier when the first is no module.                      *)
LEMMA QualidentStep ==
    ASSUME IInv, NEW is_module \in BOOLEAN, parse_qualident(is_module)
    PROVE  IInv'
<1> DEFINE first == Get(Buffer)
           tok   == Peek(first)
           dot   == Get(tok)
           ident == Get(dot)
           d1    == Append(delivered, first.token)
           d2    == Append(d1, dot.token)
           d3    == Append(d2, ident.token)
           back  == PushBack(ident, ident.token, tok.token)
<1>1. Fits(first, d1) /\ IsSeq(d1)
  BY GetTakes, AppendIsSeq DEF IInv
<1>2. /\ Fits(tok, d1)
      /\ tok.queue # << >> /\ Head(tok.queue) = tok.token
  BY <1>1, PeekShows
<1>3. Fits(dot, d2) /\ IsSeq(d2)
  BY <1>1, <1>2, GetTakes, AppendIsSeq
<1>4. Fits(ident, d3) /\ IsSeq(d3)
  BY <1>3, GetTakes, AppendIsSeq
<1>5. dot.token = tok.token
  BY <1>2 DEF Get, Requeue
<1>6. /\ delivered \o << first.token >> = d1
      /\ delivered \o << first.token, dot.token >> = d2
      /\ delivered \o << first.token, dot.token, ident.token >> = d3
  BY Kept DEF IInv
<1>7. \/ Keep(first, << first.token >>, TRUE)
      \/ Keep(dot, << first.token, dot.token >>, TRUE)
      \/ Keep(tok, << first.token >>, FALSE)
      \/ \E stop : Keep(ident, << first.token, dot.token, ident.token >>, stop)
      \/ /\ first.token.type = "IDENT" /\ tok.token = Period /\ ident.token.type = "IDENT"
         /\ Keep(back, << first.token >>, FALSE)
  <2>1. Identified(is_module, first)
    BY DEF parse_qualident
  <2>2. dot = Get(tok) /\ ident = Get(dot) /\ tok = Peek(first) /\ back = PushBack(ident, ident.token, dot.token)
    BY <1>5
  <2> HIDE DEF first, tok, dot, ident, back
  <2>3. CASE first.token.type # "IDENT"
    BY <2>1, <2>3 DEF Identified
  <2>4. CASE first.token.type = "IDENT"
    <3>1. PeekedAfter(is_module, first, tok)
      BY <2>1, <2>2, <2>4 DEF Identified
    <3>2. ErrorToken # Period
      BY DEF ErrorToken, Period, Token
    <3>3. CASE tok.token = ErrorToken
      BY <1>5, <2>2, <3>1, <3>2, <3>3 DEF PeekedAfter
    <3>4. CASE tok.token = Period
      <4>1. Qualified(is_module, first, dot, ident)
        BY <2>2, <3>1, <3>2, <3>4 DEF PeekedAfter
      <4>2. QED
        BY <2>2, <2>4, <3>4, <4>1 DEF Qualified
    <3>5. CASE tok.token # ErrorToken /\ tok.token # Period
      BY <3>1, <3>5 DEF PeekedAfter
    <3>6. QED
      BY <3>3, <3>4, <3>5
  <2>5. QED
    BY <2>3, <2>4
<1>8. ASSUME tok.token = Period, ident.token.type = "IDENT" PROVE Fits(back, d1)
  <2>1. dot.token = Period
    BY <1>5, <1>8
  <2>2. ident.token # Period
    BY <1>8 DEF Period, Token
  <2>3. ident.queue = << >>
    BY <1>3, <2>2, QueueAfterIdent
  <2>4. Fits(ident, Append(Append(d1, Period), ident.token))
    BY <1>4, <2>1
  <2> HIDE DEF ident, d1
  <2>5. QED
    BY <1>8, <2>3, <2>4, GivenBack
<1> HIDE DEF first, tok, dot, ident, d1, d2, d3, back
<1>9. QED
  BY <1>1, <1>2, <1>3, <1>4, <1>6, <1>7, <1>8, KeepFits

(* No token is lost, read twice or put out of order by looking ahead and   *)
(* by giving back, whatever the texts are and however the parser calls the *)
(* lexer; never more than two tokens are pushed back.                      *)
THEOREM TokensInOrder == RulesSpec => []NoTokenLost
<1>1. RulesInit => IInv
  <2>1. SUFFICES ASSUME RulesInit PROVE IInv
    OBVIOUS
  <2>2. Buffer.queue = << >> /\ Buffer.read = << >> /\ delivered = << >>
    BY <2>1 DEF RulesInit, Init, Buffer
  <2>3. QED
    BY <2>2 DEF IInv, Fits, IsSeq, Range
<1>2. IInv /\ [RulesNext]_rulesVars => IInv'
  <2>1. SUFFICES ASSUME IInv, [RulesNext]_rulesVars PROVE IInv'
    OBVIOUS
  <2>2. CASE get_token
    BY <2>1, <2>2, GetStep
  <2>3. CASE peek_token
    BY <2>1, <2>3, PeekStep
  <2>4. ASSUME NEW is_module \in BOOLEAN, parse_qualident(is_module) PROVE IInv'
    BY <2>1, <2>4, QualidentStep
  <2>5. CASE UNCHANGED rulesVars
    <3>1. UNCHANGED << cursor, last_char, next_token, output_main, read, delivered >>
      BY <2>5 DEF rulesVars, vars
    <3>2. Buffer' = Buffer
      BY <3>1 DEF Buffer
    <3>3. QED
      BY <2>1, <3>1, <3>2 DEF IInv
  <2>6. QED
    BY <2>1, <2>2, <2>3, <2>4, <2>5 DEF RulesNext, Next
<1>3. IInv => NoTokenLost
  <2>1. SUFFICES ASSUME IInv PROVE NoTokenLost
    OBVIOUS
  <2>2. \/ next_token = << >> /\ read = delivered
        \/ \E t : next_token = << t >> /\ read = Append(delivered, t)
        \/ \E t : next_token = << Period, t >> /\ read = Append(Append(delivered, Period), t)
    BY <2>1 DEF IInv, Fits, Buffer
  <2>3. /\ delivered \o << >> = delivered
        /\ \A t : delivered \o << t >> = Append(delivered, t)
        /\ \A t : delivered \o << Period, t >> = Append(Append(delivered, Period), t)
    BY <2>1, Kept DEF IInv
  <2>4. CASE next_token = << >> /\ read = delivered
    BY <2>3, <2>4 DEF NoTokenLost
  <2>5. ASSUME NEW t, next_token = << t >>, read = Append(delivered, t)
        PROVE  NoTokenLost
    BY <2>3, <2>5 DEF NoTokenLost
  <2>6. ASSUME NEW t, next_token = << Period, t >>,
               read = Append(Append(delivered, Period), t)
        PROVE  NoTokenLost
    BY <2>3, <2>6 DEF NoTokenLost
  <2>7. QED
    BY <2>2, <2>4, <2>5, <2>6
<1>4. QED
  BY <1>1, <1>2, <1>3, PTL DEF RulesSpec
=============================================================================
