------------------------- MODULE Expressions_proofs -------------------------
(***************************************************************************)
(* Theorems about expressions of any length and depth, for every size of   *)
(* INTEGER, set of variables and functions.  The invariant Inv has three   *)
(* layers.  An operand is sound (IsSound): its values are integers of the  *)
(* width, that of the generator is one that the inspector has, and what    *)
(* passes as a constant is one.  The stack nests as the text (Links).  And *)
(* operands fit (Fits, FrameFits): the LLVM type of a value is that of its *)
(* type, or a named difference is in it.  Only where do_strchar_conv has   *)
(* been set for an argument this does not hold of every operand, and then  *)
(* it is enough that conv is set as long as a string that is read next     *)
(* could be the whole argument (Leads, Reading).                           *)
(***************************************************************************)
EXTENDS ExprRules, DataLemmas

-----------------------------------------------------------------------------
(* Integers.                                                               *)

Ints == MinInt .. MaxInt

LEMMA Bounds == MaxInt \in Nat /\ MinInt \in Int /\ MinInt = -MaxInt - 1
  BY BoundsAssumption DEF MinInt

LEMMA WrapRange ==
  ASSUME NEW x \in Int
  PROVE  Wrap(x) \in Ints /\ (x \in Ints => Wrap(x) = x)
<1> DEFINE m == MaxInt - MinInt + 1
           r == (x - MinInt) % m
<1>1. m \in Nat /\ m > 0 /\ x - MinInt \in Int
  BY Bounds
<1>2. r \in 0 .. m - 1
  BY <1>1
<1>3. x \in Ints => r = x - MinInt
  <2>1. x \in Ints => x - MinInt \in 0 .. m - 1
    BY Bounds DEF Ints
  <2> QED
    BY <1>1, <2>1
<1> QED
  BY <1>2, <1>3, Bounds DEF Wrap, Ints

LEMMA DivisionUnique ==
  ASSUME NEW x \in Int, NEW w \in Nat, w > 0, NEW k \in Int, NEW r \in 0 .. w - 1, x = k * w + r
  PROVE  x % w = r /\ x \div w = k
<1> DEFINE d == x \div w
           m == x % w
<1>1. d \in Int /\ m \in 0 .. w - 1 /\ x = w * d + m
  OBVIOUS
<1> HIDE DEF d, m
<1>2. (k - d) * w = m - r
  BY <1>1
<1>3. CASE k - d >= 1
  <2>1. (k - d) * w >= w
    BY <1>1, <1>3
  <2> QED
    BY <1>1, <1>2, <2>1
<1>4. CASE k - d <= -1
  <2>1. (k - d) * w <= -w
    BY <1>1, <1>4
  <2> QED
    BY <1>1, <1>2, <2>1
<1>5. CASE k = d
  BY <1>1, <1>5 DEF d, m
<1> QED
  BY <1>1, <1>3, <1>4, <1>5

Times(k, w, r) == k * w + r
LEMMA TimesDivided ==
  ASSUME NEW w \in Nat, w > 0, NEW k \in Int, NEW r \in 0 .. w - 1
  PROVE  Times(k, w, r) % w = r
<1>1. PICK x \in Int : x = k * w + r
  OBVIOUS
<1>2. x % w = r
  BY <1>1, DivisionUnique
<1> QED
  BY <1>1, <1>2 DEF Times

LEMMA DivisionIs ==
  ASSUME NEW x \in Int, NEW w \in Nat, w > 0
  PROVE  \E d \in Int, m \in 0 .. w - 1 : x = d * w + m /\ x \div w = d /\ x % w = m
<1> DEFINE d == x \div w
           m == x % w
<1>1. d \in Int /\ m \in 0 .. w - 1 /\ x = w * d + m
  OBVIOUS
<1> HIDE DEF d, m
<1>2. x = d * w + m
  BY <1>1
<1> QED
  BY <1>1, <1>2 DEF d, m

LEMMA NatQuotient ==
  ASSUME NEW a \in Nat, NEW b \in Nat, b > 0
  PROVE  /\ a \div b \in 0 .. a
         /\ a % b \in 0 .. b - 1
         /\ a = b * (a \div b) + (a % b)
  OBVIOUS

LEMMA AbsIs ==
  ASSUME NEW x \in Ints
  PROVE  /\ Abs(x) \in Nat /\ Abs(x) <= MaxInt + 1
         /\ x # 0 => Abs(x) > 0
         /\ x >= 0 => Abs(x) = x
         /\ x < 0 => Abs(x) = -x
         /\ Abs(x) = MaxInt + 1 => x = MinInt
  BY Bounds DEF Abs, Ints

(* The quotient of two INTEGERs fits, but for that of MinInt and -1, and   *)
(* the remainder has the sign of the dividend.                             *)
LEMMA QuotientRange ==
  ASSUME NEW a \in Ints, NEW b \in Ints, b # 0, << a, b >> # << MinInt, -1 >>
  PROVE  /\ Quotient(a, b) \in Ints
         /\ a - b * Quotient(a, b) \in Ints
         /\ Abs(a) \div Abs(b) \in 0 .. MaxInt + 1
         /\ Quotient(a, b) = IF (a < 0) = (b < 0) THEN Abs(a) \div Abs(b) ELSE -(Abs(a) \div Abs(b))
         /\ Abs(a) % Abs(b) \in 0 .. MaxInt + 1
         /\ a - b * Quotient(a, b) = IF a < 0 THEN -(Abs(a) % Abs(b)) ELSE Abs(a) % Abs(b)
<1> DEFINE A == Abs(a)
           B == Abs(b)
           q == A \div B
           m == A % B
<1>1. /\ a \in Int /\ b \in Int /\ A \in Nat /\ B \in Nat /\ B > 0 /\ A <= MaxInt + 1 /\ B <= MaxInt + 1
      /\ A = IF a < 0 THEN -a ELSE a
      /\ B = IF b < 0 THEN -b ELSE b
  BY AbsIs, Bounds DEF Abs, Ints
<1>2. q \in 0 .. A /\ m \in 0 .. B - 1 /\ A = B * q + m
  BY <1>1, NatQuotient
<1>3. Quotient(a, b) = IF (a < 0) = (b < 0) THEN q ELSE -q
  BY DEF Quotient
<1>4. m \in 0 .. A
  <2>1. B * q \in Nat
    BY <1>1, <1>2
  <2> QED
    BY <1>1, <1>2, <2>1
<1>5. q = MaxInt + 1 => a = MinInt /\ B = 1
  <2> SUFFICES ASSUME q = MaxInt + 1
               PROVE  a = MinInt /\ B = 1
    OBVIOUS
  <2>1. A = MaxInt + 1
    BY <1>1, <1>2, Bounds
  <2>2. a = MinInt
    BY <2>1, AbsIs
  <2>3. B <= 1
    <3>1. CASE B >= 2
      <4>1. B * q >= 2 * q
        BY <1>1, <1>2, <3>1
      <4> QED
        BY <1>1, <1>2, <2>1, <4>1, Bounds
    <3> QED
      BY <1>1, <3>1
  <2> QED
    BY <1>1, <2>2, <2>3
<1>6. Quotient(a, b) \in Ints
  <2>1. CASE q <= MaxInt
    BY <1>1, <1>2, <1>3, <2>1, Bounds DEF Ints
  <2>2. CASE q = MaxInt + 1
    <3>1. b = 1
      BY <1>1, <1>5, <2>2
    <3> QED
      BY <1>1, <1>2, <1>3, <1>5, <2>2, <3>1, Bounds DEF Ints
  <2> QED
    BY <1>1, <1>2, <2>1, <2>2, Bounds
<1>7. a - b * Quotient(a, b) = IF a < 0 THEN -m ELSE m
  <2> HIDE DEF A, B, q, m
  <2>1. CASE a < 0 /\ b < 0
    <3>1. Quotient(a, b) = q /\ a = -A /\ b = -B
      BY <1>1, <1>3, <2>1
    <3>2. (-B) * q = -(B * q)
      BY <1>1, <1>2
    <3> QED
      BY <1>1, <1>2, <2>1, <3>1, <3>2
  <2>2. CASE a < 0 /\ ~(b < 0)
    <3>1. Quotient(a, b) = -q /\ a = -A /\ b = B
      BY <1>1, <1>3, <2>2
    <3>2. B * (-q) = -(B * q)
      BY <1>1, <1>2
    <3> QED
      BY <1>1, <1>2, <2>2, <3>1, <3>2
  <2>3. CASE ~(a < 0) /\ b < 0
    <3>1. Quotient(a, b) = -q /\ a = A /\ b = -B
      BY <1>1, <1>3, <2>3
    <3>2. (-B) * (-q) = B * q
      BY <1>1, <1>2
    <3> QED
      BY <1>1, <1>2, <2>3, <3>1, <3>2
  <2>4. CASE ~(a < 0) /\ ~(b < 0)
    <3>1. Quotient(a, b) = q /\ a = A /\ b = B
      BY <1>1, <1>3, <2>4
    <3> QED
      BY <1>1, <1>2, <2>4, <3>1
  <2> QED
    BY <1>1, <2>1, <2>2, <2>3, <2>4
<1>8. a - b * Quotient(a, b) \in Ints
  <2>1. a < 0 => -m >= a
    BY <1>1, <1>4
  <2>2. ~(a < 0) => m <= a
    BY <1>1, <1>4
  <2> HIDE DEF m
  <2> QED
    BY <1>1, <1>4, <1>7, <2>1, <2>2, Bounds DEF Ints
<1>9. q \in 0 .. MaxInt + 1 /\ m \in 0 .. MaxInt + 1
  BY <1>1, <1>2, <1>4, Bounds
<1> QED
  BY <1>3, <1>6, <1>7, <1>8, <1>9

-----------------------------------------------------------------------------
(* Values that need not be there.                                          *)

AtMostOne(V) == \A a, b \in V : a = b

LEMMA Single ==
  ASSUME NEW V, AtMostOne(V)
  PROVE  Cardinality(V) <= 1
<1>1. CASE V = {}
  BY <1>1, FS_EmptySet
<1>2. CASE V # {}
  <2>1. PICK v \in V : TRUE
    BY <1>2
  <2>2. V = {v}
    BY <2>1 DEF AtMostOne
  <2> QED
    BY <2>2, FS_Singleton
<1> QED
  BY <1>1, <1>2

Arithmetic == {"+", "-", "*", "DIV", "MOD"}

LEMMA EvaluateIs ==
  ASSUME NEW op, NEW A, A \subseteq Ints, AtMostOne(A), NEW B, B \subseteq Ints, AtMostOne(B)
  PROVE  /\ Evaluate(op, A, B) \subseteq Ints /\ AtMostOne(Evaluate(op, A, B))
         /\ Evaluate(op, A, B) # {} => op \in Arithmetic /\ A # {} /\ B # {}
<1>0. \A x \in Ints : x \in Int
  BY Bounds DEF Ints
<1>1. CASE op = "+"
  <2>1. \A a \in A, b \in B : Wrap(a + b) \in Ints
    BY <1>0, WrapRange
  <2>2. Evaluate(op, A, B) = {Wrap(a + b) : a \in A, b \in B}
    BY <1>1 DEF Evaluate
  <2> QED
    BY <1>1, <2>1, <2>2 DEF AtMostOne, Arithmetic
<1>2. CASE op = "-"
  <2>1. \A a \in A, b \in B : Wrap(a - b) \in Ints
    BY <1>0, WrapRange
  <2>2. Evaluate(op, A, B) = {Wrap(a - b) : a \in A, b \in B}
    BY <1>2 DEF Evaluate
  <2> QED
    BY <1>2, <2>1, <2>2 DEF AtMostOne, Arithmetic
<1>3. CASE op = "*"
  <2>1. \A a \in A, b \in B : Wrap(a * b) \in Ints
    <3> SUFFICES ASSUME NEW a \in A, NEW b \in B
                 PROVE  Wrap(a * b) \in Ints
      OBVIOUS
    <3>1. a * b \in Int
      BY <1>0
    <3> QED
      BY <3>1, WrapRange
  <2>2. Evaluate(op, A, B) = {Wrap(a * b) : a \in A, b \in B}
    BY <1>3 DEF Evaluate
  <2> QED
    BY <1>3, <2>1, <2>2 DEF AtMostOne, Arithmetic
<1> DEFINE P == Divisible(A, B)
<1>4. \A p \in P : /\ p[1] \in A /\ p[2] \in B
                   /\ Quotient(p[1], p[2]) \in Ints
                   /\ p[1] - p[2] * Quotient(p[1], p[2]) \in Ints
  <2> SUFFICES ASSUME NEW p \in P
               PROVE  /\ p[1] \in A /\ p[2] \in B
                      /\ Quotient(p[1], p[2]) \in Ints
                      /\ p[1] - p[2] * Quotient(p[1], p[2]) \in Ints
    OBVIOUS
  <2>1. p \in A \X B /\ p[2] # 0 /\ p # << MinInt, -1 >>
    BY DEF Divisible
  <2>2. p = << p[1], p[2] >> /\ p[1] \in A /\ p[2] \in B
    BY <2>1
  <2> QED
    BY <2>1, <2>2, QuotientRange
<1>5. AtMostOne(P) /\ (P # {} => A # {} /\ B # {})
  <2>1. \A p \in P : p \in A \X B
    BY DEF Divisible
  <2>2. \A p, q \in A \X B : p = q
    BY DEF AtMostOne
  <2> QED
    BY <2>1, <2>2, <1>4 DEF AtMostOne
<1> HIDE DEF P
<1>6. CASE op = "DIV"
  <2>2. Evaluate(op, A, B) = {Quotient(p[1], p[2]) : p \in P}
    BY <1>6 DEF Evaluate, P
  <2> QED
    BY <1>6, <1>4, <1>5, <2>2 DEF AtMostOne, Arithmetic
<1>7. CASE op = "MOD"
  <2>2. Evaluate(op, A, B) = {p[1] - p[2] * Quotient(p[1], p[2]) : p \in P}
    BY <1>7 DEF Evaluate, P
  <2> DEFINE f(p) == p[1] - p[2] * Quotient(p[1], p[2])
  <2> HIDE DEF f
  <2>3. Evaluate(op, A, B) = {f(p) : p \in P} /\ \A p \in P : f(p) \in Ints
    BY <1>4, <2>2 DEF f
  <2> QED
    BY <1>7, <1>5, <2>3 DEF AtMostOne, Arithmetic
<1>8. CASE op \notin Arithmetic
  <2>1. Evaluate(op, A, B) = {}
    BY <1>8 DEF Evaluate, Arithmetic, NoValue
  <2> QED
    BY <2>1 DEF AtMostOne
<1> QED
  BY <1>1, <1>2, <1>3, <1>6, <1>7, <1>8 DEF Arithmetic

-----------------------------------------------------------------------------
(* Bit patterns.                                                           *)

Bits == 0 .. Width - 1
Patterns(V) == {Pattern(v) : v \in V}

LEMMA WidthIs == Width \in Nat /\ Width > 0 /\ Width = 2 * MaxInt + 2 /\ Width = MaxInt - MinInt + 1
  BY Bounds DEF Width

LEMMA PatternShift ==
  ASSUME NEW x \in Int, NEW y \in Int, NEW k \in Int, y = k * Width + x
  PROVE  Pattern(y) = Pattern(x) /\ Pattern(x) \in Bits
<1>1. PICK d \in Int, m \in 0 .. Width - 1 : x = d * Width + m /\ x % Width = m
  BY WidthIs, DivisionIs
<1>2. PICK e \in Int : y = Times(e, Width, m)
  <2>1. y = (k + d) * Width + m
    BY <1>1, WidthIs
  <2> QED
    BY <1>1, <2>1 DEF Times
<1>3. y % Width = m
  BY <1>1, <1>2, WidthIs, TimesDivided, Zenon
<1> QED
  BY <1>1, <1>3 DEF Pattern, Bits

LEMMA PatternIs ==
  ASSUME NEW v \in Ints
  PROVE  /\ Pattern(v) \in Bits /\ v \in Int
         /\ Pattern(v) = IF v < 0 THEN v + Width ELSE v
         /\ Negative(Pattern(v)) <=> v < 0
         /\ AsInteger(Pattern(v)) = v
<1>1. v \in Int /\ -MaxInt - 1 <= v /\ v <= MaxInt
  BY Bounds DEF Ints
<1>2. Pattern(v) = IF v < 0 THEN v + Width ELSE v
  <2>1. CASE v < 0
    <3>1. v + Width \in 0 .. Width - 1 /\ v = Times(-1, Width, v + Width) /\ -1 \in Int
      BY <1>1, <2>1, WidthIs, Bounds DEF Times
    <3>2. v % Width = v + Width
      BY <3>1, WidthIs, TimesDivided
    <3> QED
      BY <2>1, <3>2 DEF Pattern
  <2>2. CASE ~(v < 0)
    <3>1. v \in 0 .. Width - 1
      BY <1>1, <2>2, WidthIs, Bounds
    <3>2. v % Width = v
      BY <3>1, WidthIs
    <3> QED
      BY <2>2, <3>2 DEF Pattern
  <2> QED
    BY <2>1, <2>2
<1> QED
  BY <1>1, <1>2, WidthIs, Bounds DEF Negative, AsInteger, Bits

LEMMA NegIs ==
  ASSUME NEW m \in 0 .. MaxInt + 1
  PROVE  Neg(m) = Pattern(-m) /\ Neg(m) \in Bits
<1>1. m \in Int /\ -m \in Int /\ Width - m \in Int /\ Width - m = 1 * Width + (-m)
  BY WidthIs, Bounds
<1>2. Pattern(Width - m) = Pattern(-m) /\ Pattern(-m) \in Bits
  BY <1>1, PatternShift
<1> QED
  BY <1>2 DEF Neg, Pattern

LEMMA MagnitudeIs ==
  ASSUME NEW v \in Ints
  PROVE  Magnitude(Pattern(v)) = Abs(v)
<1>1. v \in Int /\ -MaxInt - 1 <= v /\ v <= MaxInt
  BY Bounds DEF Ints
<1>2. CASE v < 0
  <2>1. Pattern(v) = v + Width /\ Negative(Pattern(v))
    BY <1>2, PatternIs
  <2>2. (Width - (v + Width)) % Width = -v
    <3>1. Width - (v + Width) = 0 * Width + (-v) /\ -v \in 0 .. Width - 1 /\ Width - (v + Width) \in Int
      BY <1>1, <1>2, WidthIs, Bounds
    <3> QED
      BY <3>1, WidthIs, DivisionUnique
  <2> QED
    BY <1>2, <2>1, <2>2 DEF Magnitude, Neg, Abs
<1>3. CASE ~(v < 0)
  BY <1>3, PatternIs DEF Magnitude, Abs
<1> QED
  BY <1>2, <1>3

LEMMA WrapPattern ==
  ASSUME NEW x \in Int
  PROVE  Pattern(Wrap(x)) = Pattern(x)
<1> DEFINE y == x - MinInt
           d == y \div Width
           m == y % Width
<1>1. y \in Int /\ x = y + MinInt
  BY Bounds
<1>2. d \in Int /\ m \in 0 .. Width - 1 /\ y = d * Width + m
  BY <1>1, WidthIs
<1>3. Wrap(x) = m + MinInt
  BY WidthIs DEF Wrap
<1> HIDE DEF y, d, m
<1>4. x = d * Width + (m + MinInt) /\ m + MinInt \in Int
  BY <1>1, <1>2, WidthIs, Bounds
<1> QED
  BY <1>2, <1>3, <1>4, PatternShift

(* Whatever is folded, the result is a pattern.                            *)
LEMMA FoldBits ==
  ASSUME NEW op, NEW P, P \subseteq Bits, NEW Q, Q \subseteq Bits
  PROVE  Fold(op, P, Q) \subseteq Bits
<1>1. \A x \in Int : x % Width \in Bits
  BY WidthIs DEF Bits
<1>2. \A p \in P \cup Q : p \in Int /\ p >= 0 /\ p <= Width - 1
  BY WidthIs DEF Bits
<1>3. CASE op = "+"
  BY <1>1, <1>2, <1>3 DEF Fold
<1>4. CASE op = "-"
  <2>1. \A p \in P, q \in Q : p + Width - q \in Int
    BY <1>2, WidthIs
  <2> QED
    BY <1>1, <1>4, <2>1 DEF Fold
<1>5. CASE op = "*"
  <2>1. \A p \in P, q \in Q : p * q \in Int
    BY <1>2
  <2> QED
    BY <1>1, <1>5, <2>1 DEF Fold
<1>6. \A p \in P \cup Q : Magnitude(p) \in Int /\ Magnitude(p) \in 0 .. Width - 1 /\ (p # 0 => Magnitude(p) > 0)
  <2> SUFFICES ASSUME NEW p \in P \cup Q
               PROVE  Magnitude(p) \in 0 .. Width - 1 /\ (p # 0 => Magnitude(p) > 0)
    BY WidthIs
  <2>1. CASE Negative(p)
    <3>1. p > MaxInt
      BY <2>1 DEF Negative
    <3>2. Width - p = 0 * Width + (Width - p) /\ Width - p \in 0 .. Width - 1 /\ Width - p > 0
      BY <1>2, <3>1, WidthIs, Bounds
    <3>3. Neg(p) = Width - p
      BY <3>2, WidthIs, DivisionUnique DEF Neg
    <3> QED
      BY <2>1, <3>2, <3>3 DEF Magnitude
  <2>2. CASE ~Negative(p)
    BY <1>2, <2>2, WidthIs DEF Magnitude
  <2> QED
    BY <2>1, <2>2
<1>7. \A x \in Int : Neg(x) \in Bits
  BY <1>1, WidthIs DEF Neg
<1>8. \A d \in Defined(P, Q) : SDiv(d[1], d[2]) \in Bits /\ SRem(d[1], d[2]) \in Bits
  <2> SUFFICES ASSUME NEW d \in Defined(P, Q)
               PROVE  SDiv(d[1], d[2]) \in Bits /\ SRem(d[1], d[2]) \in Bits
    OBVIOUS
  <2> DEFINE x == Magnitude(d[1])
             y == Magnitude(d[2])
  <2>1. d[1] \in P /\ d[2] \in Q /\ d[2] # 0
    BY DEF Defined
  <2>2. x \in 0 .. Width - 1 /\ y \in 0 .. Width - 1 /\ y > 0
    BY <1>6, <2>1
  <2> HIDE DEF x, y
  <2>3. x \div y \in 0 .. x /\ x % y \in 0 .. y - 1
    BY <2>2, WidthIs, NatQuotient
  <2>4. x \div y \in Bits /\ x % y \in Bits /\ x \div y \in Int /\ x % y \in Int
    BY <2>2, <2>3, WidthIs DEF Bits
  <2> QED
    BY <1>7, <2>4 DEF SDiv, SRem, x, y
<1>9. CASE op = "DIV"
  BY <1>8, <1>9 DEF Fold
<1>10. CASE op = "MOD"
  BY <1>8, <1>10 DEF Fold
<1>11. CASE op \notin Arithmetic
  BY <1>11 DEF Fold, Arithmetic, NoValue
<1> QED
  BY <1>3, <1>4, <1>5, <1>9, <1>10, <1>11 DEF Arithmetic

(* Each instruction, on the patterns of two INTEGERs, gives the pattern of *)
(* what eval_const_int makes of the two.                                   *)
LEMMA SumFolded ==
  ASSUME NEW a \in Ints, NEW b \in Ints
  PROVE  (Pattern(a) + Pattern(b)) % Width = Pattern(Wrap(a + b))
<1>1. PICK i \in {0, 1} : Pattern(a) = a + i * Width
  BY PatternIs, WidthIs
<1>2. PICK j \in {0, 1} : Pattern(b) = b + j * Width
  BY PatternIs, WidthIs
<1>3. a \in Int /\ b \in Int
  BY PatternIs
<1>4. Pattern(a) + Pattern(b) = (i + j) * Width + (a + b) /\ i + j \in Int
  BY <1>1, <1>2, <1>3, WidthIs
<1>5. Pattern(a) + Pattern(b) \in Int
  BY PatternIs, WidthIs DEF Bits
<1>6. Pattern(Pattern(a) + Pattern(b)) = Pattern(a + b)
  BY <1>3, <1>4, <1>5, PatternShift
<1> QED
  BY <1>3, <1>6, WrapPattern DEF Pattern

LEMMA DifferenceFolded ==
  ASSUME NEW a \in Ints, NEW b \in Ints
  PROVE  (Pattern(a) + Width - Pattern(b)) % Width = Pattern(Wrap(a - b))
<1>1. PICK i \in {0, 1} : Pattern(a) = a + i * Width
  BY PatternIs, WidthIs
<1>2. PICK j \in {0, 1} : Pattern(b) = b + j * Width
  BY PatternIs, WidthIs
<1>3. a \in Int /\ b \in Int
  BY PatternIs
<1>4. Pattern(a) + Width - Pattern(b) = (i + 1 - j) * Width + (a - b) /\ i + 1 - j \in Int
  BY <1>1, <1>2, <1>3, WidthIs
<1>5. Pattern(a) + Width - Pattern(b) \in Int
  BY PatternIs, WidthIs DEF Bits
<1>6. Pattern(Pattern(a) + Width - Pattern(b)) = Pattern(a - b)
  BY <1>3, <1>4, <1>5, PatternShift
<1> QED
  BY <1>3, <1>6, WrapPattern DEF Pattern

LEMMA ProductFolded ==
  ASSUME NEW a \in Ints, NEW b \in Ints
  PROVE  (Pattern(a) * Pattern(b)) % Width = Pattern(Wrap(a * b))
<1>1. PICK i \in {0, 1} : Pattern(a) = a + i * Width
  BY PatternIs, WidthIs
<1>2. PICK j \in {0, 1} : Pattern(b) = b + j * Width
  BY PatternIs, WidthIs
<1>3. a \in Int /\ b \in Int /\ Width \in Int /\ a * b \in Int
  BY PatternIs, WidthIs
<1>4. PICK k \in Int : Pattern(a) * Pattern(b) = k * Width + a * b
  <2>1. CASE i = 0 /\ j = 0
    <3>1. Pattern(a) * Pattern(b) = 0 * Width + a * b
      BY <1>1, <1>2, <1>3, <2>1
    <3> QED
      BY <3>1
  <2>2. CASE i = 0 /\ j = 1
    <3>1. Pattern(a) * Pattern(b) = a * Width + a * b
      BY <1>1, <1>2, <1>3, <2>2
    <3> QED
      BY <1>3, <3>1
  <2>3. CASE i = 1 /\ j = 0
    <3>1. Pattern(a) * Pattern(b) = b * Width + a * b
      BY <1>1, <1>2, <1>3, <2>3
    <3> QED
      BY <1>3, <3>1
  <2>4. CASE i = 1 /\ j = 1
    <3>1. Pattern(a) * Pattern(b) = (a + b + Width) * Width + a * b
      BY <1>1, <1>2, <1>3, <2>4
    <3>2. a + b + Width \in Int
      BY <1>3
    <3> QED
      BY <3>1, <3>2
  <2> QED
    BY <2>1, <2>2, <2>3, <2>4
<1>5. Pattern(a) * Pattern(b) \in Int
  <2>1. Pattern(a) \in Int /\ Pattern(b) \in Int
    BY PatternIs, WidthIs DEF Bits
  <2> QED
    BY <2>1
<1>6. Pattern(Pattern(a) * Pattern(b)) = Pattern(a * b)
  BY <1>3, <1>4, <1>5, PatternShift
<1> QED
  BY <1>3, <1>6, WrapPattern DEF Pattern

LEMMA QuotientFolded ==
  ASSUME NEW a \in Ints, NEW b \in Ints, b # 0, << a, b >> # << MinInt, -1 >>
  PROVE  /\ SDiv(Pattern(a), Pattern(b)) = Pattern(Quotient(a, b))
         /\ SRem(Pattern(a), Pattern(b)) = Pattern(a - b * Quotient(a, b))
<1> DEFINE q == Abs(a) \div Abs(b)
           m == Abs(a) % Abs(b)
<1>1. /\ q \in 0 .. MaxInt + 1 /\ m \in 0 .. MaxInt + 1
      /\ Quotient(a, b) = (IF (a < 0) = (b < 0) THEN q ELSE -q)
      /\ a - b * Quotient(a, b) = (IF a < 0 THEN -m ELSE m)
      /\ Quotient(a, b) \in Ints /\ a - b * Quotient(a, b) \in Ints
  BY QuotientRange
<1>2. /\ SDiv(Pattern(a), Pattern(b)) = (IF (a < 0) = (b < 0) THEN q ELSE Neg(q))
      /\ SRem(Pattern(a), Pattern(b)) = (IF a < 0 THEN Neg(m) ELSE m)
  <2>1. /\ Magnitude(Pattern(a)) = Abs(a) /\ Magnitude(Pattern(b)) = Abs(b)
        /\ (Pattern(a) > MaxInt <=> a < 0) /\ (Pattern(b) > MaxInt <=> b < 0)
    BY PatternIs, MagnitudeIs DEF Negative
  <2> HIDE DEF q, m
  <2>2. (Pattern(a) > MaxInt) = (Pattern(b) > MaxInt) <=> (a < 0) = (b < 0)
    BY <2>1
  <2>3. SDiv(Pattern(a), Pattern(b)) = (IF (a < 0) = (b < 0) THEN q ELSE Neg(q))
    BY <2>1, <2>2 DEF SDiv, Negative, q
  <2>4. SRem(Pattern(a), Pattern(b)) = (IF a < 0 THEN Neg(m) ELSE m)
    BY <2>1 DEF SRem, Negative, m
  <2> QED
    BY <2>3, <2>4
<1> HIDE DEF q, m
<1>3. Neg(q) = Pattern(-q) /\ Neg(m) = Pattern(-m)
  BY <1>1, NegIs
<1>4. q \in Ints => Pattern(q) = q
  BY <1>1, PatternIs
<1>5. m \in Ints => Pattern(m) = m
  BY <1>1, PatternIs
<1> QED
  BY <1>1, <1>2, <1>3, <1>4, <1>5

(* Folding what both know keeps the two the same.                          *)
LEMMA FoldIs ==
  ASSUME NEW op, NEW A, A \subseteq Ints, AtMostOne(A), NEW B, B \subseteq Ints, AtMostOne(B)
  PROVE  Fold(op, Patterns(A), Patterns(B)) = Patterns(Evaluate(op, A, B))
<1> DEFINE D == Divisible(A, B)
           E == Defined(Patterns(A), Patterns(B))
<1>1. CASE A = {} \/ B = {}
  <2>1. Patterns(A) = {} \/ Patterns(B) = {}
    BY <1>1 DEF Patterns
  <2>2. D = {} /\ E = {}
    BY <1>1, <2>1 DEF Divisible, Defined
  <2> HIDE DEF D, E
  <2>3. Evaluate(op, A, B) = {}
    <3>1. Evaluate(op, A, B) # {} => A # {} /\ B # {}
      BY EvaluateIs
    <3> QED
      BY <1>1, <3>1
  <2>4. Fold(op, Patterns(A), Patterns(B)) = {}
    <3>1. CASE op = "+"
      BY <2>1, <3>1 DEF Fold
    <3>2. CASE op = "-"
      BY <2>1, <3>2 DEF Fold
    <3>3. CASE op = "*"
      BY <2>1, <3>3 DEF Fold
    <3>4. CASE op = "DIV"
      BY <2>2, <3>4 DEF Fold, E
    <3>5. CASE op = "MOD"
      BY <2>2, <3>5 DEF Fold, E
    <3>6. CASE op \notin Arithmetic
      BY <3>6 DEF Fold, Arithmetic, NoValue
    <3> QED
      BY <3>1, <3>2, <3>3, <3>4, <3>5, <3>6 DEF Arithmetic
  <2>5. Patterns({}) = {}
    BY DEF Patterns
  <2> QED
    BY <2>3, <2>4, <2>5
<1>2. CASE A # {} /\ B # {}
  <2>1. PICK a \in A, b \in B : TRUE
    BY <1>2
  <2>2. A = {a} /\ B = {b} /\ a \in Ints /\ b \in Ints
    BY <2>1 DEF AtMostOne
  <2> DEFINE p == Pattern(a)
             q == Pattern(b)
  <2>0. \A x : Patterns({x}) = {Pattern(x)}
    BY DEF Patterns
  <2>3. Patterns(A) = {p} /\ Patterns(B) = {q}
    BY <2>0, <2>2
  <2>4. D # {} => D = {<< a, b >>} /\ b # 0 /\ << a, b >> # << MinInt, -1 >>
    <3>1. D = {d \in {<< a, b >>} : d[2] # 0 /\ d # << MinInt, -1 >>}
      BY <2>2 DEF Divisible
    <3> QED
      BY <3>1
  <2>5. D = {} => b = 0 \/ << a, b >> = << MinInt, -1 >>
    <3>1. b # 0 /\ << a, b >> # << MinInt, -1 >> => << a, b >> \in D
      BY <2>2 DEF Divisible
    <3> QED
      BY <3>1
  <2>6. /\ q = 0 <=> b = 0
        /\ << p, q >> = << MaxInt + 1, Width - 1 >> <=> << a, b >> = << MinInt, -1 >>
    <3>1. /\ p = IF a < 0 THEN a + Width ELSE a
          /\ q = IF b < 0 THEN b + Width ELSE b
      BY <2>2, PatternIs
    <3>2. a \in Int /\ b \in Int /\ MinInt <= a /\ a <= MaxInt /\ MinInt <= b /\ b <= MaxInt
      BY <2>2, Bounds DEF Ints
    <3> HIDE DEF p, q
    <3>3. q = 0 <=> b = 0
      BY <3>1, <3>2, WidthIs, Bounds
    <3>4. p = MaxInt + 1 <=> a = MinInt
      BY <3>1, <3>2, WidthIs, Bounds
    <3>5. q = Width - 1 <=> b = -1
      BY <3>1, <3>2, WidthIs, Bounds
    <3> QED
      BY <3>3, <3>4, <3>5
  <2>7. D # {} => E = {<< p, q >>}
    <3>1. D # {} => << p, q >> \in E
      BY <2>3, <2>4, <2>6 DEF Defined
    <3>2. E \subseteq {<< p, q >>}
      BY <2>3 DEF Defined
    <3> QED
      BY <3>1, <3>2
  <2>8. D = {} => E = {}
    <3>1. E = {d \in {<< p, q >>} : d[2] # 0 /\ d # << MaxInt + 1, Width - 1 >>}
      BY <2>3 DEF Defined
    <3> HIDE DEF p, q, D, E
    <3> QED
      BY <2>5, <2>6, <3>1
  <2> HIDE DEF D, E
  <2>9. CASE op = "+"
    <3>1. Fold(op, Patterns(A), Patterns(B)) = {(p + q) % Width}
      BY <2>3, <2>9 DEF Fold
    <3>2. Evaluate(op, A, B) = {Wrap(a + b)}
      BY <2>2, <2>9 DEF Evaluate
    <3> QED
      BY <2>0, <2>2, <3>1, <3>2, SumFolded
  <2>10. CASE op = "-"
    <3>1. Fold(op, Patterns(A), Patterns(B)) = {(p + Width - q) % Width}
      BY <2>3, <2>10 DEF Fold
    <3>2. Evaluate(op, A, B) = {Wrap(a - b)}
      BY <2>2, <2>10 DEF Evaluate
    <3> QED
      BY <2>0, <2>2, <3>1, <3>2, DifferenceFolded
  <2>11. CASE op = "*"
    <3>1. Fold(op, Patterns(A), Patterns(B)) = {(p * q) % Width}
      BY <2>3, <2>11 DEF Fold
    <3>2. Evaluate(op, A, B) = {Wrap(a * b)}
      BY <2>2, <2>11 DEF Evaluate
    <3> QED
      BY <2>0, <2>2, <3>1, <3>2, ProductFolded
  <2>12. CASE op = "DIV"
    <3>1. Fold(op, Patterns(A), Patterns(B)) = {SDiv(d[1], d[2]) : d \in E}
      BY <2>12 DEF Fold, E
    <3>2. Evaluate(op, A, B) = {Quotient(d[1], d[2]) : d \in D}
      BY <2>12 DEF Evaluate, D
    <3>3. CASE D = {}
      BY <2>8, <3>1, <3>2, <3>3 DEF Patterns
    <3>4. CASE D # {}
      <4>1. Fold(op, Patterns(A), Patterns(B)) = {SDiv(p, q)} /\ Evaluate(op, A, B) = {Quotient(a, b)}
        <5>1. E = {<< p, q >>} /\ D = {<< a, b >>}
          BY <2>4, <2>7, <3>4
        <5>2. {SDiv(d[1], d[2]) : d \in {<< p, q >>}} = {SDiv(p, q)}
          OBVIOUS
        <5>3. {Quotient(d[1], d[2]) : d \in {<< a, b >>}} = {Quotient(a, b)}
          OBVIOUS
        <5> QED
          BY <3>1, <3>2, <5>1, <5>2, <5>3
      <4>2. SDiv(p, q) = Pattern(Quotient(a, b))
        BY <2>2, <2>4, <3>4, QuotientFolded
      <4> QED
        BY <2>0, <4>1, <4>2
    <3> QED
      BY <3>3, <3>4
  <2>13. CASE op = "MOD"
    <3> DEFINE r(d) == d[1] - d[2] * Quotient(d[1], d[2])
    <3>1. Fold(op, Patterns(A), Patterns(B)) = {SRem(d[1], d[2]) : d \in E}
      BY <2>13 DEF Fold, E
    <3>2. Evaluate(op, A, B) = {r(d) : d \in D}
      BY <2>13 DEF Evaluate, D
    <3>3. CASE D = {}
      BY <2>8, <3>1, <3>2, <3>3 DEF Patterns
    <3>4. CASE D # {}
      <4> DEFINE v == a - b * Quotient(a, b)
      <4>1. r(<< a, b >>) = v
        OBVIOUS
      <4>2. SRem(p, q) = Pattern(v)
        BY <2>2, <2>4, <3>4, QuotientFolded
      <4>3. {SRem(d[1], d[2]) : d \in {<< p, q >>}} = {SRem(p, q)}
        OBVIOUS
      <4> HIDE DEF r, v
      <4>4. E = {<< p, q >>} /\ D = {<< a, b >>}
        BY <2>4, <2>7, <3>4
      <4>5. {r(d) : d \in {<< a, b >>}} = {v}
        BY <4>1
      <4>6. Fold(op, Patterns(A), Patterns(B)) = {SRem(p, q)} /\ Evaluate(op, A, B) = {v}
        BY <3>1, <3>2, <4>3, <4>4, <4>5
      <4> QED
        BY <2>0, <4>2, <4>6
    <3> QED
      BY <3>3, <3>4
  <2>14. CASE op \notin Arithmetic
    <3>1. Fold(op, Patterns(A), Patterns(B)) = {} /\ Evaluate(op, A, B) = {}
      BY <2>14 DEF Fold, Evaluate, Arithmetic, NoValue
    <3> QED
      BY <3>1 DEF Patterns
  <2> QED
    BY <2>9, <2>10, <2>11, <2>12, <2>13, <2>14 DEF Arithmetic
<1> QED
  BY <1>1, <1>2

(* Unless a negative quotient is rounded, a quotient of the compiler is    *)
(* that of the report.                                                     *)
LEMMA Floored ==
  ASSUME NEW a \in Ints, NEW b \in Ints, b > 0, a < 0 => a % b = 0
  PROVE  Quotient(a, b) = a \div b /\ a - b * Quotient(a, b) = a % b
<1> DEFINE A == Abs(a)
           q == A \div b
           m == A % b
<1>1. a \in Int /\ b \in Nat /\ A \in Nat /\ A = (IF a < 0 THEN -a ELSE a) /\ Abs(b) = b
  BY AbsIs, Bounds DEF Abs, Ints
<1>2. q \in 0 .. A /\ m \in 0 .. b - 1 /\ A = b * q + m
  BY <1>1, NatQuotient
<1>3. Quotient(a, b) = (IF a < 0 THEN -q ELSE q)
  BY <1>1 DEF Quotient
<1>4. CASE ~(a < 0)
  <2> HIDE DEF m
  <2>1. A = a
    BY <1>1, <1>4
  <2>2. q = a \div b /\ m = a % b
    BY <2>1 DEF m
  <2> HIDE DEF q, A
  <2> QED
    BY <1>1, <1>2, <1>3, <1>4, <2>1, <2>2
<1>5. CASE a < 0
  <2> HIDE DEF q, m, A
  <2>1. m # 0 => a % b = b - m
    <3> SUFFICES ASSUME m # 0
                 PROVE  a % b = b - m
      OBVIOUS
    <3>1. (-q - 1) * b = -(b * q) - b
      BY <1>1, <1>2
    <3>2. a = (-q - 1) * b + (b - m) /\ b - m \in 0 .. b - 1 /\ -q - 1 \in Int
      BY <1>1, <1>2, <1>5, <3>1
    <3> QED
      BY <1>1, <3>2, DivisionUnique
  <2>2. m = 0
    BY <1>1, <1>2, <1>5, <2>1
  <2>3. (-q) * b = -(b * q)
    BY <1>1, <1>2
  <2>4. a = (-q) * b + 0 /\ 0 \in 0 .. b - 1 /\ -q \in Int
    BY <1>1, <1>2, <1>5, <2>2, <2>3
  <2>5. a % b = 0 /\ a \div b = -q
    BY <1>1, <2>4, DivisionUnique
  <2>6. b * (-q) = a
    BY <1>1, <1>2, <2>4
  <2> QED
    BY <1>1, <1>3, <1>5, <2>5, <2>6
<1> QED
  BY <1>4, <1>5

LEMMA QuotientsExact ==
  ASSUME NEW op \in {"DIV", "MOD"}, NEW A, A \subseteq Ints, AtMostOne(A), NEW B, B \subseteq Ints, AtMostOne(B),
         ~Unfloored(A, B), Evaluate(op, A, B) # {}
  PROVE  Evaluate(op, A, B) = Exactly(op, A, B)
<1>1. A # {} /\ B # {}
  BY EvaluateIs
<1>2. PICK a \in A, b \in B : TRUE
  BY <1>1
<1>3. A = {a} /\ B = {b} /\ a \in Int /\ b \in Int /\ a \in Ints /\ b \in Ints
  <2>1. A = {a} /\ B = {b}
    BY <1>2 DEF AtMostOne
  <2>2. a \in Int /\ b \in Int
    BY Bounds DEF Ints
  <2> QED
    BY <2>1, <2>2
<1>4. Divisible(A, B) # {}
  BY DEF Evaluate
<1>5. b # 0 /\ Divisible(A, B) = {<< a, b >>}
  <2>1. PICK p \in A \X B : p[2] # 0 /\ p # << MinInt, -1 >>
    BY <1>4 DEF Divisible
  <2>2. p = << a, b >>
    BY <1>3, <2>1
  <2>3. << a, b >> \in Divisible(A, B) /\ b # 0
    BY <2>1, <2>2 DEF Divisible
  <2>4. \A q \in Divisible(A, B) : q = << a, b >>
    BY <1>3 DEF Divisible
  <2> QED
    BY <2>3, <2>4
<1>6. b > 0 /\ (a < 0 => a % b = 0)
  <2>1. ~(b < 0) /\ ~(a < 0 /\ b > 0 /\ a % b # 0)
    BY <1>2 DEF Unfloored
  <2> QED
    BY <1>3, <1>5, <2>1
<1>7. /\ Quotient(a, b) = a \div b
      /\ a - b * Quotient(a, b) = a % b
  BY <1>3, <1>6, Floored
<1>8. {x \in B : x > 0} = {b}
  BY <1>3, <1>6
<1>9. CASE op = "DIV"
  <2>1. Evaluate(op, A, B) = {Quotient(a, b)}
    BY <1>5, <1>9 DEF Evaluate
  <2>2. Exactly(op, A, B) = {a \div b}
    BY <1>3, <1>8, <1>9 DEF Exactly
  <2> QED
    BY <1>7, <2>1, <2>2
<1>10. CASE op = "MOD"
  <2>1. Evaluate(op, A, B) = {a - b * Quotient(a, b)}
    BY <1>5, <1>10 DEF Evaluate
  <2>2. Exactly(op, A, B) = {a % b}
    BY <1>3, <1>8, <1>10 DEF Exactly
  <2> QED
    BY <1>7, <2>1, <2>2
<1> QED
  BY <1>9, <1>10

(* A sum, difference or product that does not overflow is exact.           *)
LEMMA FittingExact ==
  ASSUME NEW op \in {"+", "-", "*"}, NEW A, A \subseteq Ints, NEW B, B \subseteq Ints, ~Overflows(op, A, B)
  PROVE  Evaluate(op, A, B) = Exactly(op, A, B)
<1>1. Exactly(op, A, B) \subseteq Ints
  BY DEF Overflows, Ints
<1>2. \A a \in A, b \in B : a \in Int /\ b \in Int /\ a + b \in Int /\ a - b \in Int /\ a * b \in Int
  BY Bounds DEF Ints
<1>3. CASE op = "+"
  <2>1. Evaluate(op, A, B) = {Wrap(a + b) : a \in A, b \in B} /\ Exactly(op, A, B) = {a + b : a \in A, b \in B}
    BY <1>3 DEF Evaluate, Exactly
  <2>2. \A a \in A, b \in B : Wrap(a + b) = a + b
    BY <1>1, <1>2, <2>1, WrapRange
  <2> QED
    BY <2>1, <2>2
<1>4. CASE op = "-"
  <2>1. Evaluate(op, A, B) = {Wrap(a - b) : a \in A, b \in B} /\ Exactly(op, A, B) = {a - b : a \in A, b \in B}
    BY <1>4 DEF Evaluate, Exactly
  <2>2. \A a \in A, b \in B : Wrap(a - b) = a - b
    BY <1>1, <1>2, <2>1, WrapRange
  <2> QED
    BY <2>1, <2>2
<1>5. CASE op = "*"
  <2>1. Evaluate(op, A, B) = {Wrap(a * b) : a \in A, b \in B} /\ Exactly(op, A, B) = {a * b : a \in A, b \in B}
    BY <1>5 DEF Evaluate, Exactly
  <2>2. \A a \in A, b \in B : Wrap(a * b) = a * b
    BY <1>1, <1>2, <2>1, WrapRange
  <2> QED
    BY <2>1, <2>2
<1> QED
  BY <1>3, <1>4, <1>5

LEMMA ExactlyInts ==
  ASSUME NEW op, NEW A, A \subseteq Int, NEW B, B \subseteq Int
  PROVE  Exactly(op, A, B) \subseteq Int
<1>1. CASE op = "+"
  BY <1>1 DEF Exactly
<1>2. CASE op = "-"
  BY <1>2 DEF Exactly
<1>3. CASE op = "*"
  BY <1>3 DEF Exactly
<1>4. CASE op = "DIV"
  BY <1>4 DEF Exactly
<1>5. CASE op = "MOD"
  BY <1>5 DEF Exactly
<1>6. CASE op \notin Arithmetic
  BY <1>6 DEF Exactly, Arithmetic, NoValue
<1> QED
  BY <1>1, <1>2, <1>3, <1>4, <1>5, <1>6 DEF Arithmetic

-----------------------------------------------------------------------------
(* Operands.                                                               *)

Oddities == {"slash", "strings", "sign", "literal", "index", "call", "floor", "wrap", "argument", "untyped"}
LlvmTypes == {"i64", "i32", "i1", "double", "ptr", None, Invalid, Thrown}
OperandSet ==
    [type : Types \cup {None}, const : BOOLEAN, llvm : LlvmTypes, current : Types \cup {None},
     global : BOOLEAN, value : SUBSET Ints, folded : SUBSET Bits, pure : BOOLEAN,
     exact : SUBSET Int, odd : SUBSET Oddities]

(* What is known of every operand: only an INTEGER has a value, that of    *)
(* the generator is that of the inspector and that of the report, and what *)
(* passes as a constant is one, but for the named differences.             *)
Known(o) ==
    /\ AtMostOne(o.value)
    /\ o.value # {} => o.type = "INTEGER"
    /\ o.global => o.folded = Patterns(o.value)
    /\ o.value # {} /\ "wrap" \notin o.odd /\ "floor" \notin o.odd => o.value = o.exact
    /\ o.const /\ "index" \notin o.odd /\ "call" \notin o.odd => o.pure
IsSound(o) == o \in OperandSet /\ Known(o)

LEMMA LlvmIs ==
  ASSUME NEW t
  PROVE  Llvm(t) \in LlvmTypes
  BY DEF Llvm, LlvmTypes

LEMMA CheckNumeric ==
  ASSUME NEW op, NEW l \in Numeric, NEW r \in Numeric
  PROVE  Check(op, l, r) = BothNumeric(op, l, r)
<1>1. l \in {"INTEGER", "REAL"} /\ r \in {"INTEGER", "REAL"}
  BY DEF Numeric
<1>2. /\ << op, l, r >> \notin {<< "+", "STRING", "CHAR" >>, << "+", "CHAR", "STRING" >>}
      /\ << op, l, r >> # << "IN", "INTEGER", "SET" >>
      /\ << op, l, r >> # << ":=", "POINTER", "VOID" >>
      /\ << l, r >> # << "POINTER", "VOID" >>
  BY <1>1
<1> QED
  BY <1>2, Zenon DEF Check

LEMMA CheckIs ==
  ASSUME NEW op, NEW l \in Types \cup {None}, NEW r \in Types \cup {None}
  PROVE  Check(op, l, r) \in (Types \ {"STRING1"}) \cup {None}
<1>1. CASE l \in Numeric /\ r \in Numeric
  <2>1. Check(op, l, r) = BothNumeric(op, l, r)
    BY <1>1, CheckNumeric
  <2> QED
    BY <1>1, <2>1 DEF BothNumeric, Types, Numeric, Strings
<1>2. CASE l = r /\ l \notin Numeric
  <2>1. Check(op, l, r) = BothOf(l, op)
    BY <1>2 DEF Check
  <2> QED
    BY <1>2, <2>1 DEF BothOf, Types, Numeric, Strings
<1>3. CASE ~(l \in Numeric /\ r \in Numeric) /\ ~(l = r /\ l \notin Numeric)
  <2>1. Check(op, l, r) \in {"STRING", "BOOLEAN", "VOID", None}
    BY <1>3 DEF Check
  <2> QED
    BY <2>1 DEF Types, Numeric, Strings
<1> QED
  BY <1>1, <1>2, <1>3

LEMMA OddStrings ==
  ASSUME NEW L \in OperandSet, NEW R \in OperandSet, NEW op
  PROVE  /\ Differences(op, L, R) \in SUBSET Oddities
         /\ L.odd \subseteq Differences(op, L, R)
         /\ R.odd \subseteq Differences(op, L, R)
<1>1. L.odd \in SUBSET Oddities /\ R.odd \in SUBSET Oddities
  BY DEF OperandSet
<1> DEFINE A == IF op = "/" /\ L.type = "INTEGER" /\ R.type = "INTEGER" THEN {"slash"} ELSE {}
           B == IF op \in Equality /\ {L.type, R.type} \subseteq Strings THEN {"strings"} ELSE {}
           C == IF op \in {"DIV", "MOD"} /\ Unfloored(L.value, R.value) THEN {"floor"} ELSE {}
           D == IF Overflows(op, L.value, R.value) THEN {"wrap"} ELSE {}
<1>2. Differences(op, L, R) = L.odd \cup R.odd \cup A \cup B \cup C \cup D
  BY DEF Differences
<1>3. A \in {{}, {"slash"}} /\ B \in {{}, {"strings"}} /\ C \in {{}, {"floor"}} /\ D \in {{}, {"wrap"}}
  <2>1. A \in {{}, {"slash"}}
    BY Zenon
  <2>2. B \in {{}, {"strings"}}
    BY Zenon
  <2>3. C \in {{}, {"floor"}}
    BY Zenon
  <2>4. D \in {{}, {"wrap"}}
    BY Zenon
  <2> QED
    BY <2>1, <2>2, <2>3, <2>4
<1> HIDE DEF A, B, C, D
<1>4. A \in SUBSET Oddities /\ B \in SUBSET Oddities /\ C \in SUBSET Oddities /\ D \in SUBSET Oddities
  BY <1>3 DEF Oddities
<1> QED
  BY <1>1, <1>2, <1>3, <1>4

LEMMA Combined ==
  ASSUME NEW op, NEW L, IsSound(L), NEW R, IsSound(R), NEW llvm \in LlvmTypes, NEW current \in Types \cup {None}
  PROVE  IsSound(Combine(op, L, R, llvm, current))
<1> DEFINE c == Combine(op, L, R, llvm, current)
           value == Evaluate(op, L.value, R.value)
           exact == Exactly(op, L.exact, R.exact)
           folded == Fold(op, L.folded, R.folded)
           odd == Differences(op, L, R)
           type == Check(op, L.type, R.type)
           global == L.global /\ R.global /\ ~({L.current, R.current} \intersect Strings # {})
<1>1. /\ L \in OperandSet /\ R \in OperandSet /\ Known(L) /\ Known(R)
      /\ L.value \subseteq Ints /\ R.value \subseteq Ints /\ L.folded \subseteq Bits /\ R.folded \subseteq Bits
      /\ AtMostOne(L.value) /\ AtMostOne(R.value) /\ L.exact \subseteq Int /\ R.exact \subseteq Int
      /\ L.type \in Types \cup {None} /\ R.type \in Types \cup {None}
      /\ L.const \in BOOLEAN /\ R.const \in BOOLEAN /\ L.pure \in BOOLEAN /\ R.pure \in BOOLEAN
  BY DEF IsSound, OperandSet, Known
<1>2. /\ value \subseteq Ints /\ AtMostOne(value)
      /\ value # {} => op \in Arithmetic /\ L.value # {} /\ R.value # {}
  BY <1>1, EvaluateIs DEF Known
<1>3. folded \subseteq Bits /\ (global => folded = Patterns(value))
  <2>1. folded \subseteq Bits
    BY <1>1, FoldBits
  <2>2. ASSUME global PROVE folded = Patterns(value)
    <3>1. L.folded = Patterns(L.value) /\ R.folded = Patterns(R.value)
      BY <1>1, <2>2 DEF Known
    <3> QED
      BY <1>1, <3>1, FoldIs
  <2> QED
    BY <2>1, <2>2
<1>4. exact \subseteq Int
  BY <1>1, ExactlyInts
<1>5. odd \in SUBSET Oddities /\ L.odd \subseteq odd /\ R.odd \subseteq odd
  BY <1>1, OddStrings
<1>6. type \in Types \cup {None}
  BY <1>1, CheckIs
<1>7. c = [type |-> type, const |-> L.const /\ R.const, llvm |-> llvm, current |-> current,
           global |-> global, value |-> value, folded |-> folded,
           pure |-> L.pure /\ R.pure, exact |-> exact, odd |-> odd]
  BY DEF Combine, BothConst
<1>8. value # {} => type = "INTEGER"
  <2> SUFFICES ASSUME value # {}
               PROVE  type = "INTEGER"
    OBVIOUS
  <2>1. L.type = "INTEGER" /\ R.type = "INTEGER" /\ op \in Arithmetic
    BY <1>1, <1>2 DEF Known
  <2>2. Check(op, "INTEGER", "INTEGER") = BothNumeric(op, "INTEGER", "INTEGER")
    BY DEF Check, Numeric
  <2>3. BothNumeric(op, "INTEGER", "INTEGER") = "INTEGER"
    BY <2>1 DEF BothNumeric, Arithmetic, Equality, Ordering
  <2> QED
    BY <2>1, <2>2, <2>3
<1>9. value # {} /\ "wrap" \notin odd /\ "floor" \notin odd => value = exact
  <2> SUFFICES ASSUME value # {}, "wrap" \notin odd, "floor" \notin odd
               PROVE  value = exact
    OBVIOUS
  <2>1. L.value = L.exact /\ R.value = R.exact
    BY <1>1, <1>2, <1>5 DEF Known
  <2>2. CASE op \in {"+", "-", "*"}
    <3>1. ~Overflows(op, L.value, R.value)
      BY DEF Differences
    <3> QED
      BY <1>1, <2>1, <2>2, <3>1, FittingExact
  <2>3. CASE op \in {"DIV", "MOD"}
    <3>1. ~Unfloored(L.value, R.value)
      BY <2>3 DEF Differences
    <3> QED
      BY <1>1, <2>1, <2>3, <3>1, QuotientsExact
  <2> QED
    BY <1>2, <2>2, <2>3 DEF Arithmetic
<1>10. L.const /\ R.const /\ "index" \notin odd /\ "call" \notin odd => L.pure /\ R.pure
  BY <1>1, <1>5 DEF Known
<1> HIDE DEF value, exact, folded, odd, type, global
<1>11. global \in BOOLEAN
  BY DEF global
<1>12. c \in OperandSet
  BY <1>1, <1>2, <1>3, <1>4, <1>5, <1>6, <1>7, <1>11 DEF OperandSet
<1>13. Known(c)
  <2>1. /\ c.value = value /\ c.type = type /\ c.folded = folded /\ c.odd = odd /\ c.exact = exact
        /\ c.global = global /\ c.const = (L.const /\ R.const) /\ c.pure = (L.pure /\ R.pure)
    BY <1>7
  <2> HIDE DEF c
  <2> QED
    BY <2>1, <1>2, <1>3, <1>8, <1>9, <1>10 DEF Known
<1> QED
  BY <1>12, <1>13 DEF IsSound

LEMMA FailedIs ==
  ASSUME NEW l, NEW r
  PROVE  Failed(l, r) \in {Invalid, Thrown}
  BY DEF Failed

(* Each round of visit(ASTTerm), visit(ASTSimpleExpr) and visit(ASTExpr)   *)
(* makes an operand of two, whatever it generates.                         *)
LEMMA MulSound ==
  ASSUME NEW op, NEW L, IsSound(L), NEW R, IsSound(R)
  PROVE  /\ IsSound(MulValue(op, L, R))
         /\ MulValue(op, L, R).type = Check(op, L.type, R.type)
         /\ L.odd \cup R.odd \subseteq MulValue(op, L, R).odd
<1>1. L \in OperandSet /\ R \in OperandSet
  BY DEF IsSound
<1>2. L.llvm \in LlvmTypes /\ R.llvm \in LlvmTypes /\ L.type \in Types \cup {None} /\ R.type \in Types \cup {None}
  BY <1>1 DEF OperandSet
<1>3. Check(op, L.type, R.type) \in Types \cup {None}
  BY <1>2, CheckIs
<1>4. PICK v \in LlvmTypes : MulValue(op, L, R) = Combine(op, L, R, v, Check(op, L.type, R.type))
  <2> DEFINE v == CASE op = "&" -> IF L.llvm = "i1" /\ R.llvm = "i1" THEN "i1" ELSE Failed(L.llvm, R.llvm)
                    [] op # "&" /\ R.type = "SET" -> IF op \in {"*", "/"} THEN Same(L.llvm, R.llvm) ELSE Thrown
                    [] op # "&" /\ R.type # "SET" /\ IsInt(L.llvm) /\ IsInt(R.llvm) ->
                         IF op = "/" THEN Thrown ELSE Same(L.llvm, R.llvm)
                    [] OTHER -> IF op \in {"*", "/"} THEN Float(L.llvm, R.llvm) ELSE Thrown
  <2>1. MulValue(op, L, R) = Combine(op, L, R, v, Check(op, L.type, R.type))
    BY DEF MulValue
  <2>2. v \in LlvmTypes
    BY <1>2, FailedIs DEF LlvmTypes, Same, Float
  <2> QED
    BY <2>1, <2>2
<1>5. IsSound(MulValue(op, L, R))
  BY <1>3, <1>4, Combined
<1> QED
  BY <1>1, <1>4, <1>5, OddStrings DEF Combine

LEMMA AddSound ==
  ASSUME NEW op, NEW L, IsSound(L), NEW R, IsSound(R)
  PROVE  /\ IsSound(AddValue(op, L, R))
         /\ AddValue(op, L, R).type = Check(op, L.type, R.type)
         /\ L.odd \cup R.odd \subseteq AddValue(op, L, R).odd
<1>1. L \in OperandSet /\ R \in OperandSet
  BY DEF IsSound
<1>2. L.llvm \in LlvmTypes /\ R.llvm \in LlvmTypes /\ L.current \in Types \cup {None}
  BY <1>1 DEF OperandSet
<1>3. PICK v \in LlvmTypes, t \in Types \cup {None} : AddValue(op, L, R) = Combine(op, L, R, v, t)
  <2> DEFINE l == L.llvm
             r == R.llvm
             s == << L.current \in Strings, R.type \in Strings >>
             bit == IF l = "i1" /\ r = "i1" THEN "i1" ELSE Failed(l, r)
             joined == IF s = << TRUE, TRUE >> \/ (s[1] /\ R.type = "CHAR") \/ (s[2] /\ L.current = "CHAR")
                       THEN (IF l = Llvm(L.current) /\ r = Llvm(R.type) THEN "ptr" ELSE Failed(l, r))
                       ELSE Thrown
  <2>1. bit \in LlvmTypes /\ Same(l, r) \in LlvmTypes /\ Float(l, r) \in LlvmTypes /\ joined \in LlvmTypes
    BY <1>2, FailedIs DEF LlvmTypes, Same, Float
  <2>2. {"SET", "STRING", "INTEGER", "REAL"} \subseteq Types \cup {None}
    BY DEF Types, Numeric, Strings
  <2>3. \/ AddValue(op, L, R) = Combine(op, L, R, bit, L.current)
        \/ AddValue(op, L, R) = Combine(op, L, R, Same(l, r), "SET")
        \/ AddValue(op, L, R) = Combine(op, L, R, joined, "STRING")
        \/ AddValue(op, L, R) = Combine(op, L, R, Same(l, r), "INTEGER")
        \/ AddValue(op, L, R) = Combine(op, L, R, Float(l, r), "REAL")
    BY Zenon DEF AddValue
  <2> HIDE DEF bit, joined, l, r
  <2> QED
    BY <1>2, <2>1, <2>2, <2>3
<1>4. IsSound(AddValue(op, L, R))
  BY <1>3, Combined
<1> QED
  BY <1>1, <1>3, <1>4, OddStrings DEF Combine

LEMMA RelationSound ==
  ASSUME NEW op, NEW L, IsSound(L), NEW R, IsSound(R)
  PROVE  /\ IsSound(RelationValue(op, L, R))
         /\ RelationValue(op, L, R).type = Check(op, L.type, R.type)
         /\ L.odd \cup R.odd \subseteq RelationValue(op, L, R).odd
<1>1. L \in OperandSet /\ R \in OperandSet
  BY DEF IsSound
<1>2. L.llvm \in LlvmTypes /\ R.llvm \in LlvmTypes /\ L.type \in Types \cup {None} /\ R.type \in Types \cup {None}
  BY <1>1 DEF OperandSet
<1>3. Check(op, L.type, R.type) \in Types \cup {None}
  BY <1>2, CheckIs
<1>4. PICK v \in LlvmTypes : RelationValue(op, L, R) = Combine(op, L, R, v, Check(op, L.type, R.type))
  <2> DEFINE l == L.llvm
             r == R.llvm
             v == CASE L.type \in Strings /\ R.type \in Strings ->
                         IF l # "ptr" \/ r # "ptr" THEN Failed(l, r)
                         ELSE IF op \in Equality THEN "i64" ELSE "i1"
                    [] {L.type, R.type} = {"POINTER", "VOID"} -> Bit(Same(l, r))
                    [] R.type = "SET" -> Bit(Same(l, r))
                    [] R.type # "SET" /\ IsInt(l) /\ IsInt(r) -> Bit(Same(l, r))
                    [] OTHER -> Bit(Float(l, r))
  <2>1. RelationValue(op, L, R) = Combine(op, L, R, v, Check(op, L.type, R.type))
    BY DEF RelationValue
  <2>2. Bit(Same(l, r)) \in LlvmTypes /\ Bit(Float(l, r)) \in LlvmTypes
    BY <1>2, FailedIs DEF LlvmTypes, Same, Float, Bit
  <2>3. v \in {Failed(l, r), "i64", "i1", Bit(Same(l, r)), Bit(Float(l, r))}
    <3>1. {L.type, R.type} = {"POINTER", "VOID"} => ~(L.type \in Strings /\ R.type \in Strings)
      BY DEF Strings
    <3>2. R.type = "SET" => R.type \notin Strings /\ {L.type, R.type} # {"POINTER", "VOID"}
      BY DEF Strings
    <3> QED
      BY <3>1, <3>2
  <2> HIDE DEF v, l, r
  <2>4. v \in LlvmTypes
    BY <2>2, <2>3, FailedIs DEF LlvmTypes
  <2> QED
    BY <2>1, <2>4
<1>5. IsSound(RelationValue(op, L, R))
  BY <1>3, <1>4, Combined
<1> QED
  BY <1>1, <1>4, <1>5, OddStrings DEF Combine

LEMMA SignedSound ==
  ASSUME NEW sign, NEW L, IsSound(L)
  PROVE  /\ IsSound(Signed(sign, L)) /\ Signed(sign, L).type = L.type /\ Signed(sign, L).const = L.const
         /\ L.odd \subseteq Signed(sign, L).odd
<1>1. CASE sign # "-"
  BY <1>1 DEF Signed
<1>2. CASE sign = "-"
  <2> DEFINE S == Signed(sign, L)
             llvm == IF IsInt(L.llvm) THEN (IF L.llvm = "i64" THEN L.llvm ELSE Invalid)
                     ELSE IF L.llvm = "double" THEN L.llvm ELSE Failed(L.llvm, L.llvm)
             value == Evaluate("-", {0}, L.value)
             folded == Fold("-", {0}, L.folded)
             exact == Exactly("-", {0}, L.exact)
             A == IF L.type \in Numeric \cup {"SET"} THEN {} ELSE {"sign"}
             B == IF Overflows("-", {0}, L.value) THEN {"wrap"} ELSE {}
             odd == L.odd \cup A \cup B
  <2>0. L \in OperandSet /\ Known(L)
    BY DEF IsSound
  <2>1. S = [L EXCEPT !.llvm = llvm, !.value = value, !.folded = folded, !.exact = exact, !.odd = odd]
    BY <1>2 DEF Signed
  <2>2. L.value \subseteq Ints /\ L.folded \subseteq Bits /\ L.exact \subseteq Int /\ AtMostOne(L.value)
    BY <2>0 DEF OperandSet, Known
  <2>3. {0} \subseteq Ints /\ AtMostOne({0}) /\ {0} \subseteq Int
    BY Bounds DEF Ints, AtMostOne
  <2>4. value \subseteq Ints /\ AtMostOne(value) /\ (value # {} => L.value # {})
    BY <2>2, <2>3, EvaluateIs
  <2>5. folded \subseteq Bits /\ (L.global => folded = Patterns(value))
    <3>1. Pattern(0) = 0 /\ {0} \subseteq Bits
      BY <2>3, PatternIs, WidthIs DEF Bits
    <3>2. Patterns({0}) = {0}
      BY <3>1 DEF Patterns
    <3>3. L.global => L.folded = Patterns(L.value)
      BY <2>0 DEF Known
    <3>4. Fold("-", Patterns({0}), Patterns(L.value)) = Patterns(value)
      BY <2>2, <2>3, FoldIs
    <3> QED
      BY <2>2, <3>1, <3>2, <3>3, <3>4, FoldBits
  <2>6. exact \subseteq Int
    BY <2>2, <2>3, ExactlyInts
  <2>7. odd \in SUBSET Oddities /\ L.odd \subseteq odd
    <3>1. A \in {{}, {"sign"}}
      BY Zenon
    <3>2. B \in {{}, {"wrap"}}
      BY Zenon
    <3>3. L.odd \in SUBSET Oddities
      BY <2>0 DEF OperandSet
    <3> HIDE DEF A, B
    <3> QED
      BY <3>1, <3>2, <3>3 DEF Oddities
  <2>8. llvm \in LlvmTypes
    BY FailedIs DEF LlvmTypes
  <2>9. value # {} /\ "wrap" \notin odd /\ "floor" \notin odd => value = exact
    <3> SUFFICES ASSUME value # {}, "wrap" \notin odd, "floor" \notin odd
                 PROVE  value = exact
      OBVIOUS
    <3>1. L.value # {} /\ L.value = L.exact
      BY <2>0, <2>4, <2>7 DEF Known
    <3>2. ~Overflows("-", {0}, L.value)
      OBVIOUS
    <3> QED
      BY <2>2, <2>3, <3>1, <3>2, FittingExact
  <2> HIDE DEF llvm, value, folded, exact, odd
  <2>10. S \in OperandSet
    BY <2>0, <2>1, <2>4, <2>5, <2>6, <2>7, <2>8 DEF OperandSet
  <2>11. /\ S.value = value /\ S.folded = folded /\ S.exact = exact /\ S.odd = odd
         /\ S.type = L.type /\ S.const = L.const /\ S.pure = L.pure /\ S.global = L.global
    BY <2>0, <2>1 DEF OperandSet
  <2> HIDE DEF S
  <2>12. Known(S)
    BY <2>0, <2>4, <2>5, <2>7, <2>9, <2>11 DEF Known
  <2> QED
    BY <2>7, <2>10, <2>11, <2>12 DEF IsSound, S
<1> QED
  BY <1>1, <1>2

LEMMA NegatedSound ==
  ASSUME NEW L, IsSound(L)
  PROVE  /\ IsSound(Negated(L)) /\ Negated(L).odd = L.odd
         /\ Negated(L).type = IF L.type = "BOOLEAN" THEN "BOOLEAN" ELSE None
<1> DEFINE N == Negated(L)
           type == IF L.type = "BOOLEAN" THEN "BOOLEAN" ELSE None
           llvm == IF IsInt(L.llvm) THEN L.llvm ELSE Failed(L.llvm, L.llvm)
<1>1. L \in OperandSet /\ Known(L)
  BY DEF IsSound
<1>2. N = [L EXCEPT !.type = type, !.llvm = llvm, !.value = {}, !.folded = {}, !.exact = {}]
  BY <1>1 DEF Negated, NoValue, OperandSet
<1>3. llvm \in LlvmTypes
  BY FailedIs DEF LlvmTypes, IsInt
<1>4. type \in Types \cup {None}
  BY DEF Types
<1> HIDE DEF type, llvm
<1>5. N \in OperandSet
  BY <1>1, <1>2, <1>3, <1>4 DEF OperandSet
<1>6. N.value = {} /\ N.folded = {} /\ N.odd = L.odd /\ N.const = L.const /\ N.pure = L.pure /\ N.type = type
  BY <1>1, <1>2 DEF OperandSet
<1> HIDE DEF N
<1>7. Known(N)
  BY <1>1, <1>6 DEF Known, AtMostOne, Patterns
<1> QED
  BY <1>5, <1>6, <1>7 DEF IsSound, N, type

(* What visits make without an operand to their left.                      *)
LEMMA OperandSound ==
  ASSUME NEW t \in Types \cup {None}, NEW c \in BOOLEAN, NEW l \in LlvmTypes, NEW g \in BOOLEAN,
         NEW v, v \subseteq Ints, AtMostOne(v), v # {} => t = "INTEGER"
  PROVE  /\ IsSound(Operand(t, c, l, g, v))
         /\ \A p \in BOOLEAN, d \in SUBSET Oddities :
              (c /\ "index" \notin d /\ "call" \notin d => p) =>
                IsSound([Operand(t, c, l, g, v) EXCEPT !.pure = p, !.odd = d])
<1> DEFINE o == Operand(t, c, l, g, v)
           f == IF g THEN Patterns(v) ELSE {}
<1>1. f \subseteq Bits /\ (g => f = Patterns(v))
  <2>1. Patterns(v) \subseteq Bits
    BY PatternIs DEF Patterns
  <2> QED
    BY <2>1
<1>2. o = [type |-> t, const |-> c, llvm |-> l, current |-> t, global |-> g, value |-> v, folded |-> f,
           pure |-> c, exact |-> v, odd |-> {}]
  BY DEF Operand, NoValue, Patterns
<1> HIDE DEF f
<1>3. v \subseteq Int
  BY Bounds DEF Ints
<1>4. o \in OperandSet
  BY <1>1, <1>2, <1>3 DEF OperandSet
<1>5. Known(o)
  BY <1>1, <1>2 DEF Known
<1>6. ASSUME NEW p \in BOOLEAN, NEW d \in SUBSET Oddities, c /\ "index" \notin d /\ "call" \notin d => p
      PROVE  IsSound([o EXCEPT !.pure = p, !.odd = d])
  <2> DEFINE q == [o EXCEPT !.pure = p, !.odd = d]
  <2> HIDE DEF o
  <2>1. q \in OperandSet
    BY <1>4 DEF OperandSet
  <2>2. /\ q.type = o.type /\ q.const = o.const /\ q.value = o.value /\ q.folded = o.folded /\ q.exact = o.exact
        /\ q.global = o.global
        /\ q.pure = p /\ q.odd = d
    BY <1>4 DEF OperandSet
  <2> HIDE DEF q
  <2>3. Known(q)
    <3>1. o.type = t /\ o.const = c /\ o.value = v /\ o.folded = f /\ o.exact = v /\ o.global = g
      BY <1>2
    <3> QED
      BY <1>1, <1>6, <2>2, <3>1 DEF Known
  <2> QED
    BY <2>1, <2>3 DEF IsSound, q, o
<1> HIDE DEF o
<1>7. IsSound(o)
  BY <1>4, <1>5 DEF IsSound
<1> QED
  BY <1>6, <1>7 DEF o

LEMMA NoOperandSound == IsSound(NoOperand) /\ NoOperand.type = None
<1>1. IsSound(NoOperand)
  <2>1. None \in Types \cup {None} /\ None \in LlvmTypes /\ {} \subseteq Ints /\ AtMostOne({})
    BY DEF AtMostOne, LlvmTypes
  <2> QED
    BY <2>1, OperandSound DEF NoOperand, NoValue
<1> QED
  BY <1>1 DEF NoOperand, Operand

-----------------------------------------------------------------------------
(* The operands that are what the text says they are.  A value fits when   *)
(* it has the LLVM type of its type, or a named difference excuses it.     *)
Exempt(o) == o.odd \cap (Unfit \cup {"index"}) # {}
ValueType(t) == IF t \in {"VOID", "STRING1"} THEN "ptr" ELSE Llvm(t)
Fits(o) == o.type = None \/ Exempt(o) \/ (o.llvm = ValueType(o.type) /\ o.current = o.type)

(* The stack of frames.                                                    *)
Uses == {"constant", "assignment", "paren", "set", "range", "index", "argument"}
Statements == {"constant", "assignment"}
FrameSet(target) ==
    [use : Uses, target : {target}, conv : BOOLEAN, not : BOOLEAN,
     sign : {None, "+", "-"}, full : BOOLEAN, rel : Relations \cup {None}, add : AddOperators \cup {None},
     mul : MulOperators \cup {None}, left : OperandSet, simple : OperandSet, term : OperandSet,
     first : {None, "other", "identifier", "element"}, alone : BOOLEAN]

FrameOK(fr) ==
    /\ fr \in FrameSet(fr.target)
    /\ IsSound(fr.left) /\ IsSound(fr.simple) /\ IsSound(fr.term)
    /\ fr.full => fr.mul = None /\ ~fr.not
    /\ fr.use = "range" => IsSound(fr.target) /\ fr.target.type = "INTEGER"
    /\ fr.use = "argument" => fr.target \in Functions /\ fr.target.mode \in {"value", "VAR"}
    /\ fr.conv => fr.use = "paren"
                  \/ (fr.use = "argument" /\ fr.target.mode = "value" /\ fr.target.param = "CHAR")

Links(s, i) ==
    /\ FrameOK(s[i])
    /\ (i = 1) = (s[i].use \in Statements)
    /\ i < Len(s) => ~s[i].full
    /\ s[i].use = "paren" => s[i].conv = s[i - 1].conv

(* What frame i stands in is generated.  A string that is read in it makes *)
(* the whole argument when it leads and nothing has been read before.      *)
GeneratedTo(s, i) == \A j \in 1 .. i : s[j].use = "argument" => s[j].target.mode # "VAR"
Unused(fr) == fr.rel = None /\ fr.add = None
Leads(s, i) ==
    \A j \in 1 .. i - 1 : (\A k \in j + 1 .. i : s[k].use = "paren") => Unused(s[j]) /\ s[j].mul = None

Fitting(fr, leads) ==
    /\ ~fr.conv =>
         /\ Fits(fr.left) /\ Fits(fr.simple) /\ Fits(fr.term)
         /\ fr.use = "range" => Fits(fr.target)
    /\ fr.conv /\ leads /\ fr.full /\ Unused(fr) /\ fr.term.type = "STRING1" =>
         Exempt(fr.term) \/ fr.term.llvm = "i32"
FrameFits(s, i) == GeneratedTo(s, i) => Fitting(s[i], Leads(s, i))

FitsLast(s, fr) == GeneratedTo(s, Len(s)) => Fitting(fr, Leads(s, Len(s)))

Stack(s) == IsSeq(s) /\ \A i \in 1 .. Len(s) : Links(s, i) /\ FrameFits(s, i)

(* A frame in which a string would be read as a character.                 *)
Alone(s) ==
    LET n == Len(s)
    IN  s[n].conv /\ Unused(s[n]) /\ s[n].mul = None /\ Leads(s, n) /\ GeneratedTo(s, n)
Reading(s) == s # << >> /\ ~s[Len(s)].full /\ Alone(s)

(* GeneratedFits of a result that is generated.                            *)
ResultFits(r) ==
    LET o == r.operand
    IN  \/ ~(r.use \in {"assignment", "value", "constant"})
        \/ Exempt(o)
        \/ r.use = "assignment" /\ r.target = "CHAR" /\ o.type = "STRING1"
        \/ r.use = "constant" /\ Llvm(o.type) = None
        \/ r.use = "constant" /\ r.target = "module" /\ ~o.global
        \/ o.llvm = CASE r.use \in {"assignment", "value"} -> Llvm(r.target)
                      [] r.use = "constant" -> Llvm(o.type)
                      [] OTHER -> None

Inv ==
    /\ Stack(frames)
    /\ frames # << >> => ~rejected /\ statements < MaxStatements
    /\ Reading(frames) => conv
    /\ IsSound(constant) /\ Fits(constant) /\ (constant.type # None => constant.const)
    /\ constant.type = "STRING1" => Exempt(constant)
    /\ IsSound(result.operand) /\ (result.use = "constant" => result.operand.const)
    /\ GeneratedTo(frames, Len(frames)) => ResultFits(result)
    /\ {is_const, is_lvalue, conv, rejected} \subseteq BOOLEAN
    /\ factors \in 0 .. MaxFactors /\ statements \in 0 .. MaxStatements

-----------------------------------------------------------------------------
(* The stack.                                                              *)

LEMMA SamePrefix ==
  ASSUME NEW s, IsSeq(s), NEW t, IsSeq(t), NEW i \in Nat, i >= 1, i <= Len(s), i <= Len(t),
         \A k \in 1 .. i : s[k] = t[k]
  PROVE  /\ GeneratedTo(s, i) = GeneratedTo(t, i)
         /\ Leads(s, i) = Leads(t, i)
         /\ FrameFits(s, i) = FrameFits(t, i)
<1>1. GeneratedTo(s, i) = GeneratedTo(t, i)
  BY Zenon DEF GeneratedTo
<1>2. Leads(s, i) = Leads(t, i)
  <2>1. \A j \in 1 .. i - 1 : j \in 1 .. i /\ s[j] = t[j] /\ j + 1 .. i \subseteq 1 .. i
    OBVIOUS
  <2>2. ASSUME NEW j \in 1 .. i - 1
        PROVE  (\A k \in j + 1 .. i : s[k].use = "paren") <=> (\A k \in j + 1 .. i : t[k].use = "paren")
    BY <2>1
  <2>3. ASSUME NEW j \in 1 .. i - 1
        PROVE  (Unused(s[j]) /\ s[j].mul = None) <=> (Unused(t[j]) /\ t[j].mul = None)
    BY <2>1
  <2> QED
    BY <2>2, <2>3 DEF Leads
<1>3. s[i] = t[i]
  <2>1. i \in 1 .. i
    OBVIOUS
  <2> QED
    BY <2>1
<1> QED
  BY <1>1, <1>2, <1>3 DEF FrameFits

LEMMA Popped ==
  ASSUME NEW s, Stack(s), s # << >>, NEW t, t = Front(s)
  PROVE  /\ Stack(t) /\ Len(s) \in Nat /\ Len(s) >= 1 /\ Len(t) = Len(s) - 1
         /\ \A k \in 1 .. Len(t) : t[k] = s[k]
         /\ t = << >> <=> s[Len(s)].use \in Statements
         /\ t # << >> => ~t[Len(t)].full
         /\ Links(s, Len(s)) /\ FrameFits(s, Len(s)) /\ FrameOK(s[Len(s)])
<1>1. IsSeq(s) /\ Len(s) \in Nat /\ \A i \in 1 .. Len(s) : Links(s, i) /\ FrameFits(s, i)
  BY DEF Stack, IsSeq
<1>2. Len(s) >= 1
  BY <1>1 DEF IsSeq
<1>3. IsSeq(t) /\ Len(t) = Len(s) - 1 /\ \A k \in 1 .. Len(t) : t[k] = s[k]
  BY <1>1, <1>2, Fronted DEF Front
<1>4. ASSUME NEW i \in 1 .. Len(t)
      PROVE  Links(t, i) /\ FrameFits(t, i) /\ ~t[i].full
  <2>1. i \in 1 .. Len(s) /\ i < Len(s) /\ s[i] = t[i] /\ i >= 1 /\ i <= Len(t) /\ i <= Len(s) /\ i \in Nat
    BY <1>1, <1>2, <1>3
  <2>2. \A k \in 1 .. i : s[k] = t[k]
    BY <1>3, <2>1
  <2>3. FrameFits(t, i)
    BY <1>1, <1>3, <2>1, <2>2, SamePrefix
  <2>4. i # 1 => i - 1 \in 1 .. i
    BY <2>1
  <2>5. Links(s, i)
    BY <1>1, <2>1
  <2>6. t[i].use = "paren" => i # 1
    BY <2>1, <2>5 DEF Links, Statements
  <2>7. ~t[i].full
    BY <2>1, <2>5 DEF Links
  <2>8. t[i].use = "paren" => t[i].conv = t[i - 1].conv
    BY <2>1, <2>2, <2>4, <2>5, <2>6 DEF Links
  <2>9. FrameOK(t[i]) /\ (i = 1) = (t[i].use \in Statements)
    BY <2>1, <2>5 DEF Links
  <2> QED
    BY <2>3, <2>7, <2>8, <2>9 DEF Links
<1>5. Stack(t)
  BY <1>3, <1>4 DEF Stack
<1>6. Len(s) \in 1 .. Len(s) /\ Links(s, Len(s)) /\ FrameFits(s, Len(s)) /\ FrameOK(s[Len(s)])
  <2>1. Len(s) \in 1 .. Len(s)
    BY <1>1, <1>2
  <2>2. Links(s, Len(s)) /\ FrameFits(s, Len(s))
    BY <1>1, <2>1
  <2>3. FrameOK(s[Len(s)])
    BY <2>2 DEF Links
  <2> QED
    BY <2>1, <2>2, <2>3
<1>7. t = << >> <=> Len(s) = 1
  BY <1>1, <1>2, <1>3 DEF IsSeq
<1>8. t # << >> => Len(t) \in 1 .. Len(t)
  BY <1>1, <1>2, <1>3, <1>7
<1> QED
  BY <1>1, <1>2, <1>3, <1>4, <1>5, <1>6, <1>7, <1>8 DEF Links

LEMMA Pushed ==
  ASSUME NEW s, Stack(s), s # << >> => ~s[Len(s)].full,
         NEW fr, FrameOK(fr), s = << >> <=> fr.use \in Statements,
         fr.use = "paren" => fr.conv = s[Len(s)].conv,
         NEW t, t = Append(s, fr), FrameFits(t, Len(s) + 1)
  PROVE  Stack(t)
<1>1. IsSeq(s) /\ Len(s) \in Nat /\ \A i \in 1 .. Len(s) : Links(s, i) /\ FrameFits(s, i)
  BY DEF Stack, IsSeq
<1>2. IsSeq(t) /\ Len(t) = Len(s) + 1 /\ t[Len(s) + 1] = fr /\ \A k \in 1 .. Len(s) : t[k] = s[k]
  BY <1>1, Appended
<1>3. ASSUME NEW i \in 1 .. Len(s)
      PROVE  Links(t, i) /\ FrameFits(t, i)
  <2>1. s[i] = t[i] /\ i >= 1 /\ i <= Len(t) /\ i <= Len(s) /\ i \in Nat
    BY <1>1, <1>2
  <2>2. \A k \in 1 .. i : s[k] = t[k]
    BY <1>2, <2>1
  <2>3. FrameFits(t, i)
    BY <1>1, <1>2, <2>1, <2>2, SamePrefix
  <2>4. i # 1 => i - 1 \in 1 .. i
    BY <2>1
  <2>5. Links(s, i)
    BY <1>1, <2>1
  <2>6. t[i].use = "paren" => i # 1
    BY <2>1, <2>5 DEF Links, Statements
  <2>7. ~t[i].full
    <3>1. s # << >>
      BY <1>1, <2>1
    <3>2. CASE i = Len(s)
      BY <2>1, <3>1, <3>2
    <3>3. CASE i < Len(s)
      BY <2>1, <2>5, <3>3 DEF Links
    <3> QED
      BY <1>1, <2>1, <3>2, <3>3
  <2>8. t[i].use = "paren" => t[i].conv = t[i - 1].conv
    BY <2>1, <2>2, <2>4, <2>5, <2>6 DEF Links
  <2>9. FrameOK(t[i]) /\ (i = 1) = (t[i].use \in Statements)
    BY <2>1, <2>5 DEF Links
  <2> QED
    BY <2>3, <2>7, <2>8, <2>9 DEF Links
<1>4. Links(t, Len(s) + 1) /\ FrameFits(t, Len(s) + 1)
  <2>1. s = << >> <=> Len(s) + 1 = 1
    BY <1>1 DEF IsSeq
  <2>2. fr.use = "paren" => Len(s) \in 1 .. Len(s) /\ (Len(s) + 1) - 1 = Len(s)
    BY <1>1, <2>1 DEF Statements
  <2>3. ~(Len(s) + 1 < Len(t))
    BY <1>1, <1>2
  <2>4. t[Len(s) + 1].use = "paren" => t[Len(s) + 1].conv = t[(Len(s) + 1) - 1].conv
    BY <1>2, <2>2
  <2>5. FrameOK(t[Len(s) + 1]) /\ (Len(s) + 1 = 1) = (t[Len(s) + 1].use \in Statements)
    BY <1>2, <2>1
  <2>6. Links(t, Len(s) + 1)
    BY <2>3, <2>4, <2>5 DEF Links
  <2> QED
    BY <2>6
<1>5. \A i \in 1 .. Len(t) : i \in 1 .. Len(s) \/ i = Len(s) + 1
  BY <1>1, <1>2
<1> QED
  BY <1>2, <1>3, <1>4, <1>5 DEF Stack

(* A step of the last frame.                                               *)
LEMMA Replaced ==
  ASSUME NEW s, Stack(s), s # << >>, NEW fr, FrameOK(fr), fr.conv = s[Len(s)].conv,
         \/ fr.use = s[Len(s)].use /\ fr.target = s[Len(s)].target
         \/ fr.use = "range" /\ s[Len(s)].use = "set",
         FitsLast(s, fr)
  PROVE  LET t == Append(Front(s), fr)
         IN  /\ Stack(t) /\ t # << >> /\ Len(t) = Len(s) /\ t[Len(t)] = fr
             /\ GeneratedTo(t, Len(t)) <=> GeneratedTo(s, Len(s))
             /\ Leads(t, Len(t)) <=> Leads(s, Len(s))
<1> DEFINE t == Append(Front(s), fr)
           u == Front(s)
           n == Len(s)
<1>1. /\ Stack(u) /\ n \in Nat /\ n >= 1 /\ Len(u) = n - 1
      /\ \A k \in 1 .. n - 1 : u[k] = s[k]
      /\ u = << >> <=> s[n].use \in Statements
      /\ u # << >> => ~u[Len(u)].full
      /\ Links(s, n)
  BY Popped
<1>2. IsSeq(u)
  BY <1>1 DEF Stack
<1> HIDE DEF u
<1>3. IsSeq(t) /\ Len(t) = n /\ t[n] = fr /\ \A k \in 1 .. n - 1 : t[k] = s[k]
  <2>1. IsSeq(t) /\ Len(t) = Len(u) + 1 /\ t[Len(u) + 1] = fr /\ \A k \in 1 .. Len(u) : t[k] = u[k]
    BY <1>2, Appended DEF u
  <2> QED
    BY <1>1, <2>1
<1> HIDE DEF t
<1>4. /\ fr.use \in Statements <=> s[n].use \in Statements
      /\ fr.use = "paren" <=> s[n].use = "paren"
      /\ fr.use = "argument" <=> s[n].use = "argument"
      /\ fr.use = "argument" => fr.target = s[n].target
  BY DEF Statements
<1> HIDE DEF n
<1>5. GeneratedTo(t, n) <=> GeneratedTo(s, n)
  <2>1. \A j \in 1 .. n : j = n \/ j \in 1 .. n - 1
    BY <1>1
  <2>2. ASSUME NEW j \in 1 .. n
        PROVE  (t[j].use = "argument" => t[j].target.mode # "VAR") <=> (s[j].use = "argument" => s[j].target.mode # "VAR")
    <3>1. CASE j = n
      BY <1>3, <1>4, <3>1
    <3>2. CASE j \in 1 .. n - 1
      BY <1>3, <3>2
    <3> QED
      BY <2>1, <3>1, <3>2
  <2> QED
    BY <2>2 DEF GeneratedTo
<1>6. Leads(t, n) <=> Leads(s, n)
  <2>1. ASSUME NEW j \in 1 .. n - 1
        PROVE  /\ t[j] = s[j]
               /\ \A k \in j + 1 .. n : k = n \/ k \in 1 .. n - 1
    BY <1>1, <1>3
  <2>2. ASSUME NEW j \in 1 .. n - 1, NEW k \in j + 1 .. n
        PROVE  t[k].use = "paren" <=> s[k].use = "paren"
    <3>1. CASE k = n
      BY <1>3, <1>4, <3>1
    <3>2. CASE k \in 1 .. n - 1
      BY <1>3, <3>2
    <3> QED
      BY <2>1, <3>1, <3>2
  <2>3. ASSUME NEW j \in 1 .. n - 1
        PROVE  ((\A k \in j + 1 .. n : t[k].use = "paren") => Unused(t[j]) /\ t[j].mul = None)
                 <=> ((\A k \in j + 1 .. n : s[k].use = "paren") => Unused(s[j]) /\ s[j].mul = None)
    BY <2>1, <2>2
  <2> QED
    BY <2>3 DEF Leads
<1>7. FrameFits(t, n)
  <2>1. GeneratedTo(s, n) => Fitting(fr, Leads(s, n))
    BY DEF n, FitsLast
  <2>2. GeneratedTo(t, n) => Fitting(fr, Leads(t, n))
    BY <1>5, <1>6, <2>1 DEF Fitting
  <2> QED
    BY <1>3, <2>2 DEF FrameFits
<1>8. Stack(t)
  <2>1. fr.use = "paren" => fr.conv = u[Len(u)].conv
    <3> SUFFICES ASSUME fr.use = "paren" PROVE fr.conv = u[Len(u)].conv
      OBVIOUS
    <3>1. n - 1 \in 1 .. n - 1
      <4>1. n # 1
        BY <1>1, <1>4 DEF Links, Statements
      <4> QED
        BY <1>1, <4>1
    <3>2. s[n].conv = s[n - 1].conv
      BY <1>1, <1>4 DEF Links
    <3> QED
      BY <1>1, <3>1, <3>2 DEF n
  <2>2. Len(u) + 1 = n
    BY <1>1
  <2>3. FrameFits(t, Len(u) + 1)
    BY <1>7, <2>2
  <2>4. u = << >> <=> fr.use \in Statements
    BY <1>1, <1>4
  <2>5. t = Append(u, fr)
    BY DEF u, t
  <2> QED
    BY <1>1, <2>1, <2>3, <2>4, <2>5, Pushed
<1>9. t # << >>
  BY <1>1, <1>3
<1> QED
  BY <1>3, <1>5, <1>6, <1>8, <1>9 DEF n, t

-----------------------------------------------------------------------------
(* The rules of the type table, by operator.                               *)

LEMMA MulTypes ==
  ASSUME NEW op \in MulOperators, NEW l, NEW r, Check(op, l, r) # None
  PROVE  \/ l = "INTEGER" /\ r = "INTEGER" /\ op = "/"
         \/ l = "INTEGER" /\ r = "INTEGER" /\ op \in {"*", "DIV", "MOD"} /\ Check(op, l, r) = "INTEGER"
         \/ l \in Numeric /\ r \in Numeric /\ "REAL" \in {l, r} /\ op \in {"*", "/"} /\ Check(op, l, r) = "REAL"
         \/ l = "SET" /\ r = "SET" /\ op \in {"*", "/"} /\ Check(op, l, r) = "SET"
         \/ l = "BOOLEAN" /\ r = "BOOLEAN" /\ op = "&" /\ Check(op, l, r) = "BOOLEAN"
<1>1. op \in {"*", "/", "DIV", "MOD", "&"}
  BY DEF MulOperators
<1>2. CASE l \in Numeric /\ r \in Numeric
  <2>1. Check(op, l, r) = BothNumeric(op, l, r)
    BY <1>2, CheckNumeric
  <2>2. l \in {"INTEGER", "REAL"} /\ r \in {"INTEGER", "REAL"}
    BY <1>2 DEF Numeric
  <2> QED
    BY <1>1, <1>2, <2>1, <2>2 DEF BothNumeric, Equality, Ordering
<1>3. CASE ~(l \in Numeric /\ r \in Numeric)
  <2>1. l = r /\ l \notin Numeric /\ Check(op, l, r) = BothOf(l, op)
    BY <1>1, <1>3 DEF Check, Equality
  <2> QED
    BY <1>1, <2>1 DEF BothOf, Equality, Ordering
<1> QED
  BY <1>2, <1>3

LEMMA AddTypes ==
  ASSUME NEW op \in AddOperators, NEW l, NEW r, Check(op, l, r) # None
  PROVE  \/ l = "INTEGER" /\ r = "INTEGER" /\ op \in {"+", "-"} /\ Check(op, l, r) = "INTEGER"
         \/ l \in Numeric /\ r \in Numeric /\ "REAL" \in {l, r} /\ op \in {"+", "-"} /\ Check(op, l, r) = "REAL"
         \/ l = "SET" /\ r = "SET" /\ op \in {"+", "-"} /\ Check(op, l, r) = "SET"
         \/ l = "BOOLEAN" /\ r = "BOOLEAN" /\ op = "OR" /\ Check(op, l, r) = "BOOLEAN"
         \/ /\ << l, r >> \in {<< "STRING", "STRING" >>, << "STRING", "CHAR" >>, << "CHAR", "STRING" >>}
            /\ op = "+" /\ Check(op, l, r) = "STRING"
<1>1. op \in {"+", "-", "OR"}
  BY DEF AddOperators
<1>2. CASE l \in Numeric /\ r \in Numeric
  <2>1. Check(op, l, r) = BothNumeric(op, l, r)
    BY <1>2, CheckNumeric
  <2>2. l \in {"INTEGER", "REAL"} /\ r \in {"INTEGER", "REAL"}
    BY <1>2 DEF Numeric
  <2> QED
    BY <1>1, <1>2, <2>1, <2>2 DEF BothNumeric, Equality, Ordering
<1>3. CASE ~(l \in Numeric /\ r \in Numeric)
  <2>1. CASE l = r
    <3>1. l = r /\ l \notin Numeric /\ Check(op, l, r) = BothOf(l, op)
      BY <1>1, <1>3, <2>1 DEF Check, Equality
    <3> QED
      BY <1>1, <3>1 DEF BothOf, Equality, Ordering
  <2>2. CASE l # r
    <3>1. << op, l, r >> \in {<< "+", "STRING", "CHAR" >>, << "+", "CHAR", "STRING" >>} /\ Check(op, l, r) = "STRING"
      BY <1>1, <1>3, <2>2 DEF Check, Equality
    <3> QED
      BY <3>1
  <2> QED
    BY <2>1, <2>2
<1> QED
  BY <1>2, <1>3

LEMMA RelationTypes ==
  ASSUME NEW op \in Relations, NEW l, NEW r, Check(op, l, r) # None
  PROVE  /\ Check(op, l, r) = "BOOLEAN"
         /\ \/ l \in Numeric /\ r \in Numeric
            \/ l = r /\ l \in {"STRING", "CHAR", "BOOLEAN", "SET", "ENUM"}
            \/ l = "INTEGER" /\ r = "SET"
            \/ l = "POINTER" /\ r = "VOID"
<1>1. op \in {"=", "#", "<", "<=", ">", ">=", "IN"}
  BY DEF Relations, Equality, Ordering
<1>2. CASE l \in Numeric /\ r \in Numeric
  <2>1. Check(op, l, r) = BothNumeric(op, l, r)
    BY <1>2, CheckNumeric
  <2> QED
    BY <1>1, <1>2, <2>1 DEF BothNumeric, Equality, Ordering
<1>3. CASE ~(l \in Numeric /\ r \in Numeric)
  <2>1. CASE l = r
    <3>1. l = r /\ l \notin Numeric /\ Check(op, l, r) = BothOf(l, op)
      BY <1>1, <1>3, <2>1 DEF Check, Equality
    <3> QED
      BY <1>1, <3>1 DEF BothOf, Equality, Ordering
  <2>2. CASE l # r
    BY <1>1, <1>3, <2>2 DEF Check, Equality, Numeric
  <2> QED
    BY <2>1, <2>2
<1> QED
  BY <1>2, <1>3

LEMMA AssignmentTypes ==
  ASSUME NEW l, NEW r, Check(":=", l, r) # None
  PROVE  \/ l = r /\ l \in {"INTEGER", "REAL", "BOOLEAN", "CHAR", "STRING", "SET"}
         \/ l = "POINTER" /\ r = "VOID"
<1>1. CASE l \in Numeric /\ r \in Numeric
  <2>1. Check(":=", l, r) = BothNumeric(":=", l, r)
    BY <1>1, CheckNumeric
  <2> QED
    BY <1>1, <2>1 DEF BothNumeric, Equality, Ordering, Numeric
<1>2. CASE ~(l \in Numeric /\ r \in Numeric)
  <2>1. CASE l = r
    <3>1. l = r /\ l \notin Numeric /\ Check(":=", l, r) = BothOf(l, ":=")
      BY <1>2, <2>1 DEF Check, Equality
    <3> QED
      BY <3>1 DEF BothOf, Equality, Ordering
  <2>2. CASE l # r
    BY <1>2, <2>2 DEF Check, Equality, Numeric
  <2> QED
    BY <2>1, <2>2
<1> QED
  BY <1>1, <1>2

LEMMA LlvmOf ==
  /\ Llvm("INTEGER") = "i64" /\ Llvm("SET") = "i64" /\ Llvm("CHAR") = "i32" /\ Llvm("ENUM") = "i32"
  /\ Llvm("BOOLEAN") = "i1" /\ Llvm("REAL") = "double" /\ Llvm("STRING") = "ptr" /\ Llvm("POINTER") = "ptr"
  BY DEF Llvm

LEMMA ValueTypeOf ==
  ASSUME NEW t, t \notin {"VOID", "STRING1"}
  PROVE  ValueType(t) = Llvm(t)
  BY DEF ValueType

-----------------------------------------------------------------------------
(* What the generator makes of operands that fit.                          *)

LEMMA ExemptGrows ==
  ASSUME NEW L, NEW o, L.odd \subseteq o.odd, Exempt(L)
  PROVE  Exempt(o)
  BY DEF Exempt

LEMMA Combination ==
  ASSUME NEW op, NEW L, NEW R, NEW llvm, NEW current
  PROVE  LET C == Combine(op, L, R, llvm, current)
         IN  /\ C.llvm = llvm /\ C.current = current /\ C.type = Check(op, L.type, R.type)
             /\ (op = "/" /\ L.type = "INTEGER" /\ R.type = "INTEGER") => "slash" \in C.odd
             /\ (op \in Equality /\ {L.type, R.type} \subseteq Strings) => "strings" \in C.odd
<1>1. (op = "/" /\ L.type = "INTEGER" /\ R.type = "INTEGER") =>
        "slash" \in Differences(op, L, R)
  BY DEF Differences
<1>2. (op \in Equality /\ {L.type, R.type} \subseteq Strings) =>
        "strings" \in Differences(op, L, R)
  BY DEF Differences
<1> QED
  BY <1>1, <1>2 DEF Combine

LEMMA MulFits ==
  ASSUME NEW op \in MulOperators, NEW L, IsSound(L), Fits(L), NEW R, IsSound(R), Fits(R)
  PROVE  Fits(MulValue(op, L, R))
<1> DEFINE M == MulValue(op, L, R)
<1>1. M.type = Check(op, L.type, R.type) /\ L.odd \cup R.odd \subseteq M.odd
  BY MulSound
<1> SUFFICES ASSUME Check(op, L.type, R.type) # None, ~Exempt(M)
             PROVE  M.llvm = ValueType(M.type) /\ M.current = M.type
  BY <1>1 DEF Fits
<1>2. ~Exempt(L) /\ ~Exempt(R)
  BY <1>1, ExemptGrows
<1>3. L.type # None /\ R.type # None
  BY MulTypes DEF Numeric, None
<1>4. /\ L.llvm = ValueType(L.type) /\ L.current = L.type
      /\ R.llvm = ValueType(R.type) /\ R.current = R.type
  BY <1>2, <1>3 DEF Fits
<1> HIDE DEF M
<1>5. CASE L.type = "INTEGER" /\ R.type = "INTEGER" /\ op = "/"
  <2>1. PICK v : M = Combine(op, L, R, v, Check(op, L.type, R.type))
    BY DEF MulValue, M
  <2>2. "slash" \in M.odd
    BY <1>5, <2>1, Combination
  <2> QED
    BY <2>2 DEF Exempt, Unfit
<1>6. CASE L.type = "INTEGER" /\ R.type = "INTEGER" /\ op \in {"*", "DIV", "MOD"} /\ Check(op, L.type, R.type) = "INTEGER"
  <2>1. L.llvm = "i64" /\ R.llvm = "i64"
    BY <1>4, <1>6, LlvmOf, ValueTypeOf
  <2>2. M = Combine(op, L, R, "i64", "INTEGER")
    BY <1>6, <2>1 DEF MulValue, M, IsInt, Same, IsFailed, Invalid, Thrown
  <2> QED
    BY <1>6, <2>2, Combination, LlvmOf, ValueTypeOf
<1>7. CASE L.type \in Numeric /\ R.type \in Numeric /\ "REAL" \in {L.type, R.type} /\ op \in {"*", "/"} /\ Check(op, L.type, R.type) = "REAL"
  <2>1. L.llvm \in {"i64", "double"} /\ R.llvm \in {"i64", "double"} /\ "double" \in {L.llvm, R.llvm}
    BY <1>4, <1>7, LlvmOf, ValueTypeOf DEF Numeric
  <2>2. Float(L.llvm, R.llvm) = "double" /\ ~(IsInt(L.llvm) /\ IsInt(R.llvm))
    BY <2>1 DEF Float, Promoted, IsInt
  <2>3. M = Combine(op, L, R, "double", "REAL")
    BY <1>7, <2>2 DEF MulValue, M, Numeric
  <2> QED
    BY <1>7, <2>3, Combination, LlvmOf, ValueTypeOf
<1>8. CASE L.type = "SET" /\ R.type = "SET" /\ op \in {"*", "/"} /\ Check(op, L.type, R.type) = "SET"
  <2>1. L.llvm = "i64" /\ R.llvm = "i64"
    BY <1>4, <1>8, LlvmOf, ValueTypeOf
  <2>2. M = Combine(op, L, R, "i64", "SET")
    BY <1>8, <2>1 DEF MulValue, M, IsInt, Same, IsFailed, Invalid, Thrown
  <2> QED
    BY <1>8, <2>2, Combination, LlvmOf, ValueTypeOf
<1>9. CASE L.type = "BOOLEAN" /\ R.type = "BOOLEAN" /\ op = "&" /\ Check(op, L.type, R.type) = "BOOLEAN"
  <2>1. L.llvm = "i1" /\ R.llvm = "i1"
    BY <1>4, <1>9, LlvmOf, ValueTypeOf
  <2>2. M = Combine(op, L, R, "i1", "BOOLEAN")
    BY <1>9, <2>1 DEF MulValue, M
  <2> QED
    BY <1>9, <2>2, Combination, LlvmOf, ValueTypeOf
<1> QED
  BY <1>5, <1>6, <1>7, <1>8, <1>9, MulTypes

LEMMA AddFits ==
  ASSUME NEW op \in AddOperators, NEW L, IsSound(L), Fits(L), NEW R, IsSound(R), Fits(R)
  PROVE  Fits(AddValue(op, L, R))
<1> DEFINE M == AddValue(op, L, R)
<1>1. M.type = Check(op, L.type, R.type) /\ L.odd \cup R.odd \subseteq M.odd
  BY AddSound
<1> SUFFICES ASSUME Check(op, L.type, R.type) # None, ~Exempt(M)
             PROVE  M.llvm = ValueType(M.type) /\ M.current = M.type
  BY <1>1 DEF Fits
<1>2. ~Exempt(L) /\ ~Exempt(R)
  BY <1>1, ExemptGrows
<1>3. L.type # None /\ R.type # None
  BY AddTypes DEF Numeric, None
<1>4. /\ L.llvm = ValueType(L.type) /\ L.current = L.type
      /\ R.llvm = ValueType(R.type) /\ R.current = R.type
  BY <1>2, <1>3 DEF Fits
<1> HIDE DEF M
<1>5. CASE L.type = "INTEGER" /\ R.type = "INTEGER" /\ op \in {"+", "-"} /\ Check(op, L.type, R.type) = "INTEGER"
  <2>1. L.llvm = "i64" /\ R.llvm = "i64"
    BY <1>4, <1>5, LlvmOf, ValueTypeOf
  <2> DEFINE s == << L.current \in Strings, R.type \in Strings >>
  <2>2. ~(L.current \in Strings) /\ ~(R.type \in Strings) /\ R.type # "SET" /\ op # "OR"
    BY <1>4, <1>5 DEF Strings
  <2>3. s = << FALSE, FALSE >> /\ s[1] = FALSE /\ s[2] = FALSE
    <3>1. (L.current \in Strings) = FALSE /\ (R.type \in Strings) = FALSE
      BY <2>2
    <3>2. s = << FALSE, FALSE >>
      BY <3>1, Zenon
    <3> HIDE DEF s
    <3> QED
      BY <3>2
  <2>4. IsInt(L.llvm) /\ IsInt(R.llvm) /\ Same(L.llvm, R.llvm) = "i64"
    BY <2>1 DEF IsInt, Same, IsFailed, Invalid, Thrown
  <2> HIDE DEF s
  <2>5. M = Combine(op, L, R, "i64", "INTEGER")
    BY <2>2, <2>3, <2>4 DEF AddValue, M, s
  <2> QED
    BY <1>5, <2>5, Combination, LlvmOf, ValueTypeOf
<1>6. CASE L.type \in Numeric /\ R.type \in Numeric /\ "REAL" \in {L.type, R.type} /\ op \in {"+", "-"} /\ Check(op, L.type, R.type) = "REAL"
  <2>1. L.llvm \in {"i64", "double"} /\ R.llvm \in {"i64", "double"} /\ "double" \in {L.llvm, R.llvm}
    BY <1>4, <1>6, LlvmOf, ValueTypeOf DEF Numeric
  <2>2. Float(L.llvm, R.llvm) = "double" /\ ~(IsInt(L.llvm) /\ IsInt(R.llvm))
    BY <2>1 DEF Float, Promoted, IsInt
  <2>3. M = Combine(op, L, R, "double", "REAL")
    BY <1>4, <1>6, <2>2 DEF AddValue, M, Numeric, Strings
  <2> QED
    BY <1>6, <2>3, Combination, LlvmOf, ValueTypeOf
<1>7. CASE L.type = "SET" /\ R.type = "SET" /\ op \in {"+", "-"} /\ Check(op, L.type, R.type) = "SET"
  <2>1. L.llvm = "i64" /\ R.llvm = "i64"
    BY <1>4, <1>7, LlvmOf, ValueTypeOf
  <2>2. M = Combine(op, L, R, "i64", "SET")
    BY <1>7, <2>1 DEF AddValue, M, IsInt, Same, IsFailed, Invalid, Thrown
  <2> QED
    BY <1>7, <2>2, Combination, LlvmOf, ValueTypeOf
<1>8. CASE L.type = "BOOLEAN" /\ R.type = "BOOLEAN" /\ op = "OR" /\ Check(op, L.type, R.type) = "BOOLEAN"
  <2>1. L.llvm = "i1" /\ R.llvm = "i1"
    BY <1>4, <1>8, LlvmOf, ValueTypeOf
  <2>2. M = Combine(op, L, R, "i1", L.current)
    BY <1>8, <2>1 DEF AddValue, M
  <2> QED
    BY <1>4, <1>8, <2>2, Combination, LlvmOf, ValueTypeOf
<1>9. CASE /\ << L.type, R.type >> \in {<< "STRING", "STRING" >>, << "STRING", "CHAR" >>, << "CHAR", "STRING" >>}
           /\ op = "+" /\ Check(op, L.type, R.type) = "STRING"
  <2>1. L.llvm = Llvm(L.type) /\ R.llvm = Llvm(R.type)
    BY <1>4, <1>9, ValueTypeOf
  <2> DEFINE s == << L.type \in Strings, R.type \in Strings >>
  <2>2. R.type # "SET" /\ TRUE \in {s[1], s[2]}
    BY <1>9 DEF Strings
  <2>3. s = << TRUE, TRUE >> \/ (s[1] /\ R.type = "CHAR") \/ (s[2] /\ L.type = "CHAR")
    BY <1>9 DEF Strings
  <2>4. s[1] = (L.type \in Strings) /\ s[2] = (R.type \in Strings)
    OBVIOUS
  <2>5. M = Combine(op, L, R, "ptr", "STRING")
    BY <1>4, <1>9, <2>1, <2>2, <2>3 DEF AddValue, M
  <2> QED
    BY <1>9, <2>5, Combination, LlvmOf, ValueTypeOf
<1> QED
  BY <1>5, <1>6, <1>7, <1>8, <1>9, AddTypes

LEMMA RelationFits ==
  ASSUME NEW op \in Relations, NEW L, IsSound(L), Fits(L), NEW R, IsSound(R), Fits(R)
  PROVE  Fits(RelationValue(op, L, R))
<1> DEFINE M == RelationValue(op, L, R)
<1>1. M.type = Check(op, L.type, R.type) /\ L.odd \cup R.odd \subseteq M.odd
  BY RelationSound
<1> SUFFICES ASSUME Check(op, L.type, R.type) # None, ~Exempt(M)
             PROVE  M.llvm = ValueType(M.type) /\ M.current = M.type
  BY <1>1 DEF Fits
<1>2. ~Exempt(L) /\ ~Exempt(R)
  BY <1>1, ExemptGrows
<1>3. L.type # None /\ R.type # None
  BY RelationTypes DEF Numeric, None
<1>4. L.llvm = ValueType(L.type) /\ R.llvm = ValueType(R.type)
  BY <1>2, <1>3 DEF Fits
<1>5. Check(op, L.type, R.type) = "BOOLEAN"
  BY RelationTypes
<1>6. \A v : M = Combine(op, L, R, v, Check(op, L.type, R.type)) =>
        /\ M.current = "BOOLEAN" /\ M.llvm = v
        /\ ~(op \in Equality /\ {L.type, R.type} \subseteq Strings)
  <2> SUFFICES ASSUME NEW v, M = Combine(op, L, R, v, Check(op, L.type, R.type))
               PROVE  /\ M.current = "BOOLEAN" /\ M.llvm = v
                      /\ ~(op \in Equality /\ {L.type, R.type} \subseteq Strings)
    OBVIOUS
  <2> HIDE DEF M
  <2>1. "strings" \notin M.odd
    BY DEF Exempt, Unfit
  <2> QED
    BY <1>5, <2>1, Combination
<1> HIDE DEF M
<1>7. ValueType("BOOLEAN") = "i1"
  BY LlvmOf, ValueTypeOf
<1>8. CASE L.type \in Numeric /\ R.type \in Numeric
  <2>1. L.llvm \in {"i64", "double"} /\ R.llvm \in {"i64", "double"} /\ (L.llvm = R.llvm \/ "double" \in {L.llvm, R.llvm})
    BY <1>4, <1>8, LlvmOf, ValueTypeOf DEF Numeric
  <2>2. ~(L.type \in Strings /\ R.type \in Strings) /\ {L.type, R.type} # {"POINTER", "VOID"} /\ R.type # "SET"
    BY <1>8 DEF Strings, Numeric
  <2>3. CASE L.llvm = "i64" /\ R.llvm = "i64"
    <3>1. IsInt(L.llvm) /\ IsInt(R.llvm) /\ Bit(Same(L.llvm, R.llvm)) = "i1"
      BY <2>3 DEF IsInt, Bit, Same, IsFailed, Invalid, Thrown
    <3>2. M = Combine(op, L, R, "i1", Check(op, L.type, R.type))
      BY <2>2, <3>1 DEF RelationValue, M
    <3> QED
      BY <1>1, <1>5, <1>6, <1>7, <3>2
  <2>4. CASE "double" \in {L.llvm, R.llvm}
    <3>1. ~(IsInt(L.llvm) /\ IsInt(R.llvm)) /\ Bit(Float(L.llvm, R.llvm)) = "i1"
      BY <2>1, <2>4 DEF IsInt, Bit, Float, Promoted, IsFailed, Invalid, Thrown
    <3>2. M = Combine(op, L, R, "i1", Check(op, L.type, R.type))
      BY <2>2, <3>1 DEF RelationValue, M
    <3> QED
      BY <1>1, <1>5, <1>6, <1>7, <3>2
  <2> QED
    BY <2>1, <2>3, <2>4
<1>9. CASE L.type = R.type /\ L.type = "STRING"
  <2>1. L.llvm = "ptr" /\ R.llvm = "ptr" /\ L.type \in Strings /\ R.type \in Strings
    BY <1>4, <1>9, LlvmOf, ValueTypeOf DEF Strings
  <2>2. R.type # "SET" /\ {L.type, R.type} # {"POINTER", "VOID"}
    BY <1>9
  <2>3. M = Combine(op, L, R, IF op \in Equality THEN "i64" ELSE "i1", Check(op, L.type, R.type))
    <3> DEFINE l == L.llvm
               r == R.llvm
               v == CASE L.type \in Strings /\ R.type \in Strings ->
                           IF l # "ptr" \/ r # "ptr" THEN Failed(l, r)
                           ELSE IF op \in Equality THEN "i64" ELSE "i1"
                      [] {L.type, R.type} = {"POINTER", "VOID"} -> Bit(Same(l, r))
                      [] R.type = "SET" -> Bit(Same(l, r))
                      [] R.type # "SET" /\ IsInt(l) /\ IsInt(r) -> Bit(Same(l, r))
                      [] OTHER -> Bit(Float(l, r))
    <3>1. M = Combine(op, L, R, v, Check(op, L.type, R.type))
      BY DEF RelationValue, M
    <3>2. ~(IsInt(l) /\ IsInt(r))
      BY <2>1 DEF IsInt
    <3>3. v = IF l # "ptr" \/ r # "ptr" THEN Failed(l, r) ELSE IF op \in Equality THEN "i64" ELSE "i1"
      <4> HIDE DEF l, r
      <4> QED
        BY <2>1, <2>2, <3>2
    <3>4. v = IF op \in Equality THEN "i64" ELSE "i1"
      BY <2>1, <3>3
    <3> QED
      BY <3>1, <3>4
  <2> QED
    BY <1>1, <1>5, <1>6, <1>7, <2>1, <2>3
<1>10. CASE \/ L.type = R.type /\ L.type \in {"CHAR", "BOOLEAN", "SET", "ENUM"}
            \/ L.type = "INTEGER" /\ R.type = "SET"
            \/ L.type = "POINTER" /\ R.type = "VOID"
  <2>1. L.llvm = R.llvm /\ L.llvm \in {"i32", "i1", "i64", "ptr"} /\ (R.type # "VOID" => IsInt(L.llvm))
    BY <1>4, <1>10, LlvmOf, ValueTypeOf DEF ValueType, IsInt
  <2>2. Bit(Same(L.llvm, R.llvm)) = "i1"
    BY <2>1 DEF Bit, Same, IsFailed, Invalid, Thrown
  <2>3. ~(L.type \in Strings /\ R.type \in Strings)
    BY <1>10 DEF Strings
  <2>4. {L.type, R.type} = {"POINTER", "VOID"} \/ R.type = "SET" \/ (R.type # "SET" /\ IsInt(L.llvm) /\ IsInt(R.llvm))
    BY <1>10, <2>1
  <2>5. M = Combine(op, L, R, "i1", Check(op, L.type, R.type))
    BY <2>2, <2>3, <2>4 DEF RelationValue, M
  <2> QED
    BY <1>1, <1>5, <1>6, <1>7, <2>5
<1> QED
  BY <1>8, <1>9, <1>10, RelationTypes

LEMMA SignedFits ==
  ASSUME NEW sign, NEW L, IsSound(L), Fits(L)
  PROVE  Fits(Signed(sign, L))
<1> DEFINE S == Signed(sign, L)
<1>1. S.type = L.type /\ L.odd \subseteq S.odd /\ L \in OperandSet
  BY SignedSound DEF IsSound
<1> SUFFICES ASSUME sign = "-", L.type # None, ~Exempt(S)
             PROVE  S.llvm = ValueType(S.type) /\ S.current = S.type
  BY <1>1 DEF Fits, Signed
<1>2. ~Exempt(L)
  BY <1>1, ExemptGrows
<1>3. L.llvm = ValueType(L.type) /\ L.current = L.type
  BY <1>2 DEF Fits
<1>4. S.current = L.current
  BY <1>1 DEF Signed, OperandSet
<1>5. S.llvm = IF IsInt(L.llvm) THEN (IF L.llvm = "i64" THEN L.llvm ELSE Invalid)
               ELSE IF L.llvm = "double" THEN L.llvm ELSE Failed(L.llvm, L.llvm)
  BY <1>1 DEF Signed, OperandSet
<1>6. L.type \in Numeric \cup {"SET"}
  <2> SUFFICES ASSUME L.type \notin Numeric \cup {"SET"}
               PROVE  "sign" \in S.odd
    BY DEF Exempt, Unfit
  <2>1. S.odd = L.odd \cup {"sign"} \cup (IF Overflows("-", {0}, L.value) THEN {"wrap"} ELSE {})
    BY <1>1 DEF Signed, OperandSet
  <2> QED
    BY <2>1
<1>7. L.llvm \in {"i64", "double"}
  BY <1>3, <1>6, LlvmOf, ValueTypeOf DEF Numeric
<1>8. S.llvm = L.llvm
  BY <1>5, <1>7 DEF IsInt
<1> QED
  BY <1>1, <1>3, <1>4, <1>8

LEMMA NegatedFits ==
  ASSUME NEW L, IsSound(L), Fits(L)
  PROVE  Fits(Negated(L))
<1> DEFINE N == Negated(L)
<1>1. N.odd = L.odd /\ (N.type = IF L.type = "BOOLEAN" THEN "BOOLEAN" ELSE None) /\ L \in OperandSet
  BY NegatedSound DEF IsSound
<1> SUFFICES ASSUME L.type = "BOOLEAN", ~Exempt(N)
             PROVE  N.llvm = ValueType("BOOLEAN") /\ N.current = "BOOLEAN"
  BY <1>1 DEF Fits
<1>2. ~Exempt(L)
  BY <1>1 DEF Exempt
<1>3. L.llvm = ValueType("BOOLEAN") /\ L.current = "BOOLEAN"
  BY <1>2 DEF Fits, None
<1>4. L.llvm = "i1"
  BY <1>3, LlvmOf, ValueTypeOf
<1>5. N.current = L.current /\ N.llvm = IF IsInt(L.llvm) THEN L.llvm ELSE Failed(L.llvm, L.llvm)
  BY <1>1 DEF Negated, OperandSet
<1> QED
  BY <1>3, <1>4, <1>5 DEF IsInt

-----------------------------------------------------------------------------
(* What a frame makes of its operands.                                     *)

LEMMA NoOperandFits == Fits(NoOperand)
  BY NoOperandSound DEF Fits

(* An operator never gives the type of a string of one character, so where *)
(* it is the type, the string is all there is, but for a sign.             *)
LEMMA AfterFactorIs ==
  ASSUME NEW fr, FrameOK(fr), NEW f, IsSound(f)
  PROVE  LET t == AfterFactor(fr, f)
         IN  /\ IsSound(t)
             /\ Fits(f) /\ Fits(fr.term) => Fits(t)
             /\ t.type = "STRING1" => fr.mul = None /\ t = f
<1> DEFINE g == IF fr.not THEN Negated(f) ELSE f
           t == AfterFactor(fr, f)
<1>1. IsSound(g) /\ (Fits(f) => Fits(g)) /\ (g.type = "STRING1" => g = f) /\ IsSound(fr.term) /\ fr.mul \in MulOperators \cup {None}
  BY NegatedSound, NegatedFits DEF FrameOK, FrameSet, None
<1>2. t = IF fr.mul = None THEN g ELSE MulValue(fr.mul, fr.term, g)
  BY DEF AfterFactor
<1> HIDE DEF g, t
<1>3. CASE fr.mul = None
  BY <1>1, <1>2, <1>3 DEF t
<1>4. CASE fr.mul # None
  <2>1. t = MulValue(fr.mul, fr.term, g) /\ fr.mul \in MulOperators
    BY <1>1, <1>2, <1>4
  <2>2. IsSound(t) /\ t.type = Check(fr.mul, fr.term.type, g.type)
    <3> DEFINE op == fr.mul
               L == fr.term
    <3>1. t = MulValue(op, L, g) /\ IsSound(L) /\ IsSound(g)
      BY <1>1, <2>1
    <3> HIDE DEF op, L
    <3>2. IsSound(t) /\ t.type = Check(op, L.type, g.type)
      BY <3>1, MulSound
    <3> QED
      BY <3>2 DEF op, L
  <2>3. fr.term.type \in Types \cup {None} /\ g.type \in Types \cup {None}
    BY <1>1 DEF IsSound, OperandSet
  <2>4. t.type # "STRING1"
    BY <2>2, <2>3, CheckIs DEF None
  <2>5. Fits(g) /\ Fits(fr.term) => Fits(t)
    BY <1>1, <2>1, MulFits
  <2> QED
    BY <1>1, <2>2, <2>4, <2>5 DEF t
<1> QED
  BY <1>3, <1>4

LEMMA AfterTermIs ==
  ASSUME NEW fr, FrameOK(fr)
  PROVE  LET t == AfterTerm(fr)
         IN  /\ IsSound(t)
             /\ Fits(fr.simple) /\ Fits(fr.term) => Fits(t)
             /\ t.type = "STRING1" => /\ fr.add = None /\ fr.term.type = "STRING1"
                                      /\ Exempt(fr.term) => Exempt(t)
                                      /\ Exempt(t) \/ t.llvm = fr.term.llvm
<1> DEFINE t == AfterTerm(fr)
<1>1. IsSound(fr.simple) /\ IsSound(fr.term) /\ fr.add \in AddOperators \cup {None}
  BY DEF FrameOK, FrameSet
<1>2. t = IF fr.add = None THEN Signed(fr.sign, fr.term) ELSE AddValue(fr.add, fr.simple, fr.term)
  BY DEF AfterTerm
<1> HIDE DEF t
<1>3. CASE fr.add = None
  <2>1. t = Signed(fr.sign, fr.term)
    BY <1>2, <1>3
  <2>2. IsSound(t) /\ t.type = fr.term.type /\ fr.term.odd \subseteq t.odd /\ (Fits(fr.term) => Fits(t))
    BY <1>1, <2>1, SignedSound, SignedFits
  <2>3. t.type = "STRING1" => Exempt(t) \/ t.llvm = fr.term.llvm
    <3> SUFFICES ASSUME t.type = "STRING1", fr.sign = "-"
                 PROVE  Exempt(t)
      BY <2>1 DEF Signed
    <3>1. fr.term.type \notin Numeric \cup {"SET"} /\ fr.term \in OperandSet
      BY <1>1, <2>2 DEF Numeric, IsSound
    <3>2. t.odd = fr.term.odd \cup {"sign"} \cup (IF Overflows("-", {0}, fr.term.value) THEN {"wrap"} ELSE {})
      BY <2>1, <3>1 DEF Signed, OperandSet
    <3>3. "sign" \in t.odd
      BY <3>2
    <3> QED
      BY <3>3 DEF Exempt, Unfit
  <2>4. Exempt(fr.term) => Exempt(t)
    BY <2>2, ExemptGrows
  <2> QED
    BY <1>3, <2>2, <2>3, <2>4 DEF t
<1>4. CASE fr.add # None
  <2>1. t = AddValue(fr.add, fr.simple, fr.term) /\ fr.add \in AddOperators
    BY <1>1, <1>2, <1>4
  <2>2. IsSound(t) /\ t.type = Check(fr.add, fr.simple.type, fr.term.type)
    <3> DEFINE op == fr.add
               L == fr.simple
               R == fr.term
    <3>1. t = AddValue(op, L, R) /\ IsSound(L) /\ IsSound(R)
      BY <1>1, <2>1
    <3> HIDE DEF op, L, R
    <3>2. IsSound(t) /\ t.type = Check(op, L.type, R.type)
      BY <3>1, AddSound
    <3> QED
      BY <3>2 DEF op, L, R
  <2>3. fr.simple.type \in Types \cup {None} /\ fr.term.type \in Types \cup {None}
    BY <1>1 DEF IsSound, OperandSet
  <2>4. t.type # "STRING1"
    BY <2>2, <2>3, CheckIs DEF None
  <2>5. Fits(fr.simple) /\ Fits(fr.term) => Fits(t)
    BY <1>1, <2>1, AddFits
  <2> QED
    BY <2>2, <2>4, <2>5 DEF t
<1> QED
  BY <1>3, <1>4

LEMMA AfterSimpleIs ==
  ASSUME NEW fr, FrameOK(fr)
  PROVE  LET t == AfterSimple(fr)
         IN  /\ IsSound(t)
             /\ Fits(fr.left) /\ Fits(fr.simple) /\ Fits(fr.term) => Fits(t)
             /\ t.type = "STRING1" => /\ Unused(fr) /\ fr.term.type = "STRING1"
                                      /\ Exempt(fr.term) => Exempt(t)
                                      /\ Exempt(t) \/ t.llvm = fr.term.llvm
<1> DEFINE t == AfterSimple(fr)
           u == AfterTerm(fr)
<1>1. IsSound(fr.left) /\ fr.rel \in Relations \cup {None}
  BY DEF FrameOK, FrameSet
<1>2. /\ IsSound(u)
      /\ Fits(fr.simple) /\ Fits(fr.term) => Fits(u)
      /\ u.type = "STRING1" => /\ fr.add = None /\ fr.term.type = "STRING1"
                               /\ Exempt(fr.term) => Exempt(u)
                               /\ Exempt(u) \/ u.llvm = fr.term.llvm
  BY AfterTermIs
<1>3. t = IF fr.rel = None THEN u ELSE RelationValue(fr.rel, fr.left, u)
  BY DEF AfterSimple
<1> HIDE DEF t, u
<1>4. CASE fr.rel = None
  <2>1. t = u
    BY <1>3, <1>4
  <2> QED
    BY <1>2, <1>4, <2>1 DEF t, Unused
<1>5. CASE fr.rel # None
  <2>1. t = RelationValue(fr.rel, fr.left, u) /\ fr.rel \in Relations
    BY <1>1, <1>3, <1>5
  <2>2. IsSound(t) /\ t.type = Check(fr.rel, fr.left.type, u.type)
    <3> DEFINE op == fr.rel
               L == fr.left
    <3>1. t = RelationValue(op, L, u) /\ IsSound(L) /\ IsSound(u)
      BY <1>1, <1>2, <2>1
    <3> HIDE DEF op, L
    <3>2. IsSound(t) /\ t.type = Check(op, L.type, u.type)
      BY <3>1, RelationSound
    <3> QED
      BY <3>2 DEF op, L
  <2>3. fr.left.type \in Types \cup {None} /\ u.type \in Types \cup {None}
    BY <1>1, <1>2 DEF IsSound, OperandSet
  <2>4. t.type # "STRING1"
    BY <2>2, <2>3, CheckIs DEF None
  <2>5. Fits(fr.left) /\ Fits(u) => Fits(t)
    BY <1>1, <1>2, <2>1, RelationFits
  <2> QED
    BY <1>2, <2>2, <2>4, <2>5 DEF t
<1> QED
  BY <1>4, <1>5

LEMMA NewFrame ==
  ASSUME NEW use \in Uses, NEW target, NEW strchar \in BOOLEAN,
         use = "range" => IsSound(target) /\ target.type = "INTEGER",
         use = "argument" => target \in Functions /\ target.mode \in {"value", "VAR"},
         strchar => use = "paren" \/ (use = "argument" /\ target.mode = "value" /\ target.param = "CHAR")
  PROVE  LET fr == Frame(use, target, strchar)
         IN  /\ FrameOK(fr)
             /\ fr.use = use /\ fr.target = target /\ fr.conv = strchar
             /\ ~fr.full /\ ~fr.not /\ Unused(fr) /\ fr.mul = None
             /\ \A leads : (use = "range" => Fits(target)) => Fitting(fr, leads)
<1> DEFINE fr == Frame(use, target, strchar)
<1>1. fr = [use |-> use, target |-> target, conv |-> strchar, not |-> FALSE, sign |-> None, full |-> FALSE,
            rel |-> None, add |-> None, mul |-> None,
            left |-> NoOperand, simple |-> NoOperand, term |-> NoOperand, first |-> None, alone |-> TRUE]
  BY DEF Frame
<1>2. NoOperand \in OperandSet /\ IsSound(NoOperand) /\ Fits(NoOperand)
  BY NoOperandSound, NoOperandFits DEF IsSound
<1> HIDE DEF fr
<1>3. /\ fr.use = use /\ fr.target = target /\ fr.conv = strchar /\ ~fr.full /\ ~fr.not
      /\ fr.rel = None /\ fr.add = None /\ fr.mul = None
      /\ fr.left = NoOperand /\ fr.simple = NoOperand /\ fr.term = NoOperand
  BY <1>1
<1>4. fr \in FrameSet(target)
  BY <1>1, <1>2 DEF FrameSet
<1>5. FrameOK(fr)
  BY <1>2, <1>3, <1>4 DEF FrameOK
<1>6. \A leads : (use = "range" => Fits(target)) => Fitting(fr, leads)
  BY <1>2, <1>3 DEF Fitting
<1> QED
  BY <1>3, <1>5, <1>6 DEF fr, Unused

-----------------------------------------------------------------------------
(* Steps.                                                                  *)

LEMMA NoResultIs == NoResult.use = None /\ NoResult.operand = NoOperand /\ ResultFits(NoResult)
<1>1. NoResult.use = None /\ NoResult.operand = NoOperand
  BY DEF NoResult, Completed
<1> QED
  BY <1>1 DEF ResultFits, None

LEMMA EmptyStack == Stack(<< >>) /\ ~Reading(<< >>)
  BY DEF Stack, IsSeq, Reading

LEMMA RejectStep == Inv /\ Reject => Inv'
<1> SUFFICES ASSUME Inv, Reject
             PROVE  Inv'
  OBVIOUS
<1>1. /\ frames' = << >> /\ constant' = NoOperand /\ result' = NoResult /\ rejected' = TRUE
      /\ factors' = 0 /\ is_const' = FALSE /\ is_lvalue' = FALSE /\ conv' = FALSE /\ statements' = MaxStatements
  BY DEF Reject
<1>2. MaxFactors \in Nat /\ MaxStatements \in Nat
  BY BoundsAssumption
<1>3. Stack(frames') /\ ~Reading(frames')
  BY <1>1, EmptyStack
<1>4. IsSound(constant') /\ Fits(constant') /\ constant'.type = None /\ None # "STRING1"
  BY <1>1, NoOperandSound, NoOperandFits DEF None
<1>5. IsSound(result'.operand) /\ result'.use # "constant" /\ ResultFits(result')
  BY <1>1, NoResultIs, NoOperandSound DEF None
<1>6. {is_const', is_lvalue', conv', rejected'} \subseteq BOOLEAN
  BY <1>1
<1>7. factors' \in 0 .. MaxFactors /\ statements' \in 0 .. MaxStatements
  BY <1>1, <1>2
<1> QED
  BY <1>1, <1>3, <1>4, <1>5, <1>6, <1>7 DEF Inv

LEMMA FactorStep ==
  ASSUME Inv, frames # << >>,
         NEW stack, Stack(stack), stack # << >>, ~stack[Len(stack)].full,
         NEW f, IsSound(f),
         GeneratedTo(stack, Len(stack)) /\ ~stack[Len(stack)].conv => Fits(f),
         Alone(stack) /\ f.type = "STRING1" => Exempt(f) \/ f.llvm = "i32",
         NEW kind \in {"other", "identifier", "element"}, NEW lv \in BOOLEAN,
         NEW read \in 0 .. 1, factors + read <= MaxFactors,
         NEW found, IsSound(found.operand), found.use # "constant",
         GeneratedTo(stack, Len(stack)) => ResultFits(found),
         FactorIn(stack, f, kind, lv, read, found)
  PROVE  Inv'
<1> DEFINE fr == stack[Len(stack)]
           t == AfterFactor(fr, f)
           first == IF fr.first # None THEN fr.first ELSE IF fr.not THEN "other" ELSE kind
           nfr == [fr EXCEPT !.term = t, !.mul = None, !.not = FALSE, !.full = TRUE, !.first = first]
           s == Append(Front(stack), nfr)
<1>1. CASE t.type = None
  <2>1. Reject
    BY <1>1 DEF FactorIn, Last
  <2> QED
    BY <2>1, RejectStep
<1>2. CASE t.type # None
  <2>1. /\ frames' = s /\ is_const' = t.const /\ is_lvalue' = (lv /\ ~fr.not)
        /\ factors' = factors + read /\ result' = found
        /\ UNCHANGED << conv, constant, statements, rejected >>
    BY <1>2 DEF FactorIn, Last
  <2>2. FrameOK(fr) /\ FrameFits(stack, Len(stack))
    BY Popped
  <2>3. /\ IsSound(t)
        /\ Fits(f) /\ Fits(fr.term) => Fits(t)
        /\ t.type = "STRING1" => fr.mul = None /\ t = f
    BY <2>2, AfterFactorIs
  <2>t. t \in OperandSet /\ t.const \in BOOLEAN
    BY <2>3 DEF IsSound, OperandSet
  <2>f. fr \in FrameSet(fr.target)
    BY <2>2 DEF FrameOK
  <2>i. first \in {None, "other", "identifier", "element"}
    BY <2>f DEF FrameSet
  <2> HIDE DEF t, fr, first
  <2>4. /\ nfr.use = fr.use /\ nfr.target = fr.target /\ nfr.conv = fr.conv /\ nfr.full /\ ~nfr.not /\ nfr.mul = None
        /\ nfr.rel = fr.rel /\ nfr.add = fr.add /\ nfr.left = fr.left /\ nfr.simple = fr.simple /\ nfr.term = t
    BY <2>f DEF FrameSet
  <2>5. nfr \in FrameSet(fr.target)
    BY <2>f, <2>t, <2>i DEF FrameSet
  <2> HIDE DEF nfr
  <2>6. FrameOK(nfr)
    BY <2>2, <2>3, <2>4, <2>5 DEF FrameOK
  <2>7. FitsLast(stack, nfr)
    <3> SUFFICES ASSUME GeneratedTo(stack, Len(stack))
                 PROVE  Fitting(nfr, Leads(stack, Len(stack)))
      BY DEF FitsLast
    <3>1. Fitting(fr, Leads(stack, Len(stack)))
      BY <2>2 DEF FrameFits, fr
    <3>2. ~nfr.conv => Fits(nfr.left) /\ Fits(nfr.simple) /\ Fits(nfr.term) /\ (nfr.use = "range" => Fits(nfr.target))
      BY <2>3, <2>4, <3>1 DEF Fitting, fr
    <3>3. nfr.conv /\ Leads(stack, Len(stack)) /\ Unused(nfr) /\ nfr.term.type = "STRING1"
            => Exempt(nfr.term) \/ nfr.term.llvm = "i32"
      <4> SUFFICES ASSUME nfr.conv, Leads(stack, Len(stack)), Unused(nfr), nfr.term.type = "STRING1"
                   PROVE  Exempt(nfr.term) \/ nfr.term.llvm = "i32"
        OBVIOUS
      <4>1. fr.conv /\ Unused(fr) /\ fr.mul = None /\ t = f /\ nfr.term = t /\ f.type = "STRING1"
        BY <2>3, <2>4 DEF Unused
      <4>2. Alone(stack)
        BY <4>1 DEF Alone, fr
      <4> QED
        BY <4>1, <4>2
    <3> QED
      BY <3>2, <3>3 DEF Fitting
  <2>8. /\ Stack(s) /\ s # << >> /\ s[Len(s)] = nfr
        /\ GeneratedTo(s, Len(s)) <=> GeneratedTo(stack, Len(stack))
    <3>2. nfr.conv = stack[Len(stack)].conv /\ nfr.use = stack[Len(stack)].use /\ nfr.target = stack[Len(stack)].target
      BY <2>4 DEF fr
    <3>3. /\ nfr.conv = stack[Len(stack)].conv
          /\ \/ nfr.use = stack[Len(stack)].use /\ nfr.target = stack[Len(stack)].target
             \/ nfr.use = "range" /\ stack[Len(stack)].use = "set"
      BY <3>2
    <3> QED
      BY <2>6, <2>7, <3>3, Replaced
  <2> HIDE DEF s
  <2>9. ~Reading(s)
    BY <2>4, <2>8 DEF Reading, Alone
  <2>10. is_const' \in BOOLEAN /\ is_lvalue' \in BOOLEAN
    BY <2>1, <2>t, <2>f DEF FrameSet
  <2>11. factors' \in 0 .. MaxFactors
    BY <2>1, BoundsAssumption DEF Inv
  <2>12. GeneratedTo(frames', Len(frames')) => ResultFits(result')
    BY <2>1, <2>8
  <2>13. Stack(frames') /\ ~Reading(frames') /\ frames' # << >>
    BY <2>1, <2>8, <2>9
  <2> QED
    BY <2>1, <2>10, <2>11, <2>12, <2>13 DEF Inv
<1> QED
  BY <1>1, <1>2

LEMMA OneMore ==
  ASSUME NEW s, IsSeq(s), Len(s) >= 1, NEW t, IsSeq(t), Len(t) = Len(s) + 1, \A k \in 1 .. Len(s) : t[k] = s[k]
  PROVE  /\ GeneratedTo(t, Len(t)) <=>
              GeneratedTo(s, Len(s)) /\ (t[Len(t)].use = "argument" => t[Len(t)].target.mode # "VAR")
         /\ t[Len(t)].use = "paren" =>
              (Leads(t, Len(t)) <=> Leads(s, Len(s)) /\ Unused(s[Len(s)]) /\ s[Len(s)].mul = None)
         /\ t[Len(t)].use # "paren" => Leads(t, Len(t))
<1> DEFINE n == Len(s)
<1>1. n \in Nat /\ n >= 1 /\ Len(t) = n + 1
  BY DEF IsSeq
<1> HIDE DEF n
<1>2. \A k \in 1 .. n : t[k] = s[k]
  BY DEF n
<1>3. GeneratedTo(t, n + 1) <=> GeneratedTo(s, n) /\ (t[n + 1].use = "argument" => t[n + 1].target.mode # "VAR")
  <2>1. \A j \in 1 .. n + 1 : j \in 1 .. n \/ j = n + 1
    BY <1>1
  <2>2. n + 1 \in 1 .. n + 1 /\ \A j \in 1 .. n : j \in 1 .. n + 1
    BY <1>1
  <2> QED
    BY <1>2, <2>1, <2>2 DEF GeneratedTo
<1>4. t[n + 1].use # "paren" => Leads(t, n + 1)
  <2>1. \A j \in 1 .. (n + 1) - 1 : n + 1 \in j + 1 .. n + 1
    BY <1>1
  <2> QED
    BY <2>1 DEF Leads
<1>5. ASSUME t[n + 1].use = "paren"
      PROVE  Leads(t, n + 1) <=> Leads(s, n) /\ Unused(s[n]) /\ s[n].mul = None
  <2> DEFINE Quiet(fr) == Unused(fr) /\ fr.mul = None
  <2>1. ASSUME NEW j \in 1 .. n
        PROVE  (\A k \in j + 1 .. n + 1 : t[k].use = "paren") <=> (\A k \in j + 1 .. n : s[k].use = "paren")
    <3>1. \A k \in j + 1 .. n + 1 : k \in j + 1 .. n \/ k = n + 1
      BY <1>1
    <3>2. \A k \in j + 1 .. n : k \in 1 .. n /\ k \in j + 1 .. n + 1
      BY <1>1
    <3> QED
      BY <1>2, <1>5, <3>1, <3>2
  <2>2. Leads(t, n + 1) <=> \A j \in 1 .. n : (\A k \in j + 1 .. n : s[k].use = "paren") => Quiet(s[j])
    <3>1. (n + 1) - 1 = n
      BY <1>1
    <3>2. Leads(t, n + 1) <=> \A j \in 1 .. n : (\A k \in j + 1 .. n + 1 : t[k].use = "paren") => Quiet(t[j])
      BY <3>1 DEF Leads
    <3> QED
      BY <1>2, <2>1, <3>2
  <2>3. Leads(s, n) <=> \A j \in 1 .. n - 1 : (\A k \in j + 1 .. n : s[k].use = "paren") => Quiet(s[j])
    BY DEF Leads
  <2> HIDE DEF Quiet
  <2>4. \A j \in 1 .. n : j \in 1 .. n - 1 \/ j = n
    BY <1>1
  <2>5. n \in 1 .. n /\ (\A j \in 1 .. n - 1 : j \in 1 .. n) /\ ~\E k \in n + 1 .. n : TRUE
    BY <1>1
  <2>6. Leads(t, n + 1) <=> Leads(s, n) /\ Quiet(s[n])
    BY <2>2, <2>3, <2>4, <2>5
  <2> QED
    BY <2>6 DEF Quiet
<1> QED
  BY <1>1, <1>3, <1>4, <1>5 DEF n

LEMMA TopIs ==
  ASSUME Inv, frames # << >>
  PROVE  /\ Stack(frames) /\ IsSeq(frames) /\ Len(frames) \in Nat /\ Len(frames) >= 1 /\ Top = frames[Len(frames)]
         /\ ~rejected /\ statements < MaxStatements
         /\ FrameOK(Top) /\ FitsLast(frames, Top)
         /\ Generated <=> GeneratedTo(frames, Len(frames))
         /\ Stack(Below) /\ (Below = << >> <=> Top.use \in Statements)
<1>1. Stack(frames) /\ IsSeq(frames) /\ ~rejected /\ statements < MaxStatements
  BY DEF Inv, Stack
<1>2. /\ Len(frames) \in Nat /\ Len(frames) >= 1
      /\ FrameOK(frames[Len(frames)]) /\ FrameFits(frames, Len(frames))
      /\ Stack(Below) /\ (Below = << >> <=> frames[Len(frames)].use \in Statements)
  BY <1>1, Popped DEF Below
<1>3. Top = frames[Len(frames)]
  BY DEF Top, Last
<1>4. FitsLast(frames, Top)
  BY <1>2, <1>3 DEF FitsLast, FrameFits
<1>5. DOMAIN frames = 1 .. Len(frames)
  BY <1>1 DEF IsSeq
<1>6. Generated <=> GeneratedTo(frames, Len(frames))
  BY <1>5 DEF Generated, GeneratedTo
<1> QED
  BY <1>1, <1>2, <1>3, <1>4, <1>6

LEMMA BelowIs ==
  ASSUME Inv, frames # << >>, Top.use \notin Statements
  PROVE  /\ Stack(Below) /\ Below # << >> /\ ~Below[Len(Below)].full
         /\ GeneratedTo(frames, Len(frames)) <=>
              GeneratedTo(Below, Len(Below)) /\ (Top.use = "argument" => Top.target.mode # "VAR")
         /\ Top.use = "paren" =>
              /\ Top.conv = Below[Len(Below)].conv
              /\ Leads(frames, Len(frames)) <=>
                   Leads(Below, Len(Below)) /\ Unused(Below[Len(Below)]) /\ Below[Len(Below)].mul = None
         /\ Top.use # "paren" => Leads(frames, Len(frames))
<1>1. /\ Stack(frames) /\ IsSeq(frames) /\ Len(frames) \in Nat /\ Len(frames) >= 1 /\ Top = frames[Len(frames)]
      /\ Stack(Below) /\ Below # << >>
  BY TopIs
<1>2. /\ Len(Below) = Len(frames) - 1 /\ (\A k \in 1 .. Len(Below) : Below[k] = frames[k])
      /\ ~Below[Len(Below)].full /\ Links(frames, Len(frames))
  BY <1>1, Popped DEF Below
<1>3. IsSeq(Below)
  BY <1>1 DEF Stack
<1>4. Len(Below) >= 1 /\ Len(Below) \in Nat /\ Len(frames) = Len(Below) + 1
  BY <1>1, <1>2, <1>3 DEF IsSeq
<1>5. Len(Below) \in 1 .. Len(Below)
  BY <1>4
<1>6. Top.use = "paren" => Top.conv = Below[Len(Below)].conv
  BY <1>1, <1>2, <1>5 DEF Links
<1> QED
  BY <1>1, <1>2, <1>3, <1>4, <1>6, OneMore

LEMMA EndIs ==
  ASSUME Inv, AfterOperand, NEW e, e = AfterSimple(Top)
  PROVE  /\ IsSound(e) /\ e \in OperandSet
         /\ GeneratedTo(frames, Len(frames)) /\ ~Top.conv => Fits(e)
         /\ GeneratedTo(frames, Len(frames)) /\ Top.conv /\ Leads(frames, Len(frames)) /\ e.type = "STRING1" =>
              Exempt(e) \/ e.llvm = "i32"
<1>1. frames # << >> /\ Top.full
  BY DEF AfterOperand
<1>2. FrameOK(Top) /\ FitsLast(frames, Top)
  BY <1>1, TopIs
<1>3. /\ IsSound(e)
      /\ Fits(Top.left) /\ Fits(Top.simple) /\ Fits(Top.term) => Fits(e)
      /\ e.type = "STRING1" => /\ Unused(Top) /\ Top.term.type = "STRING1"
                               /\ Exempt(Top.term) => Exempt(e)
                               /\ Exempt(e) \/ e.llvm = Top.term.llvm
  BY <1>2, AfterSimpleIs
<1>4. GeneratedTo(frames, Len(frames)) /\ ~Top.conv => Fits(e)
  BY <1>2, <1>3 DEF FitsLast, Fitting
<1>5. GeneratedTo(frames, Len(frames)) /\ Top.conv /\ Leads(frames, Len(frames)) /\ e.type = "STRING1" =>
        Exempt(e) \/ e.llvm = "i32"
  BY <1>1, <1>2, <1>3 DEF FitsLast, Fitting
<1> QED
  BY <1>3, <1>4, <1>5 DEF IsSound

LEMMA LeafStep ==
  ASSUME Inv, CanRead, NEW f, IsSound(f), ~Top.conv /\ Generated => Fits(f),
         Reading(frames) /\ f.type = "STRING1" => Exempt(f) \/ f.llvm = "i32",
         NEW kind \in {"other", "identifier", "element"}, NEW lv \in BOOLEAN, Leaf(f, kind, lv)
  PROVE  Inv'
<1>1. frames # << >> /\ ~Top.full /\ factors < MaxFactors
  BY DEF CanRead
<1>2. /\ Stack(frames) /\ Top = frames[Len(frames)]
      /\ Generated <=> GeneratedTo(frames, Len(frames))
  BY <1>1, TopIs
<1>3. factors + 1 <= MaxFactors
  BY <1>1, BoundsAssumption DEF Inv
<1>4. FactorIn(frames, f, kind, lv, 1, NoResult)
  BY DEF Leaf
<1>5. IsSound(NoResult.operand) /\ NoResult.use # "constant" /\ ResultFits(NoResult)
  BY NoResultIs, NoOperandSound DEF None
<1>6. Alone(frames) => Reading(frames)
  BY <1>1, <1>2 DEF Reading
<1> QED
  BY <1>1, <1>2, <1>3, <1>4, <1>5, <1>6, FactorStep

(* A step that leaves the operand in the frame, or waits for a right one.  *)
LEMMA FrameStep ==
  ASSUME Inv, frames # << >>, NEW fr, FrameOK(fr), FitsLast(frames, fr), fr.conv = Top.conv,
         \/ fr.use = Top.use /\ fr.target = Top.target
         \/ fr.use = "range" /\ Top.use = "set",
         fr.conv /\ ~fr.full /\ Unused(fr) /\ fr.mul = None => ~Top.full /\ Unused(Top) /\ Top.mul = None,
         frames' = Append(Below, fr), result' = NoResult, is_const' \in BOOLEAN, is_lvalue' \in BOOLEAN,
         UNCHANGED << conv, constant, rejected, factors, statements >>
  PROVE  Inv'
<1>1. Stack(frames) /\ Top = frames[Len(frames)]
  BY TopIs
<1>2. /\ Stack(frames') /\ frames' # << >> /\ frames'[Len(frames')] = fr
      /\ GeneratedTo(frames', Len(frames')) <=> GeneratedTo(frames, Len(frames))
      /\ Leads(frames', Len(frames')) <=> Leads(frames, Len(frames))
  BY <1>1, Replaced DEF Below
<1>3. Reading(frames') => Reading(frames)
  BY <1>1, <1>2 DEF Reading, Alone
<1>4. IsSound(result'.operand) /\ result'.use # "constant" /\ ResultFits(result')
  BY NoResultIs, NoOperandSound DEF None
<1> QED
  BY <1>2, <1>3, <1>4 DEF Inv

LEMMA OpenStep ==
  ASSUME Inv, CanRead, NEW fr, FrameOK(fr), ~fr.full, fr.use \notin Statements, \A leads : Fitting(fr, leads),
         fr.use = "paren" => fr.conv = Top.conv,
         NEW const \in BOOLEAN, NEW lv \in BOOLEAN, OpenPart(fr, const, lv), conv' \in BOOLEAN,
         Reading(frames') => conv'
  PROVE  Inv'
<1>1. frames # << >> /\ ~Top.full
  BY DEF CanRead
<1>2. /\ frames' = Append(frames, fr) /\ is_const' = const /\ is_lvalue' = lv /\ result' = NoResult
      /\ UNCHANGED << constant, rejected, statements >> /\ factors' = factors + 1 /\ factors + 1 < MaxFactors
  BY DEF OpenPart, Open
<1>3. Stack(frames) /\ IsSeq(frames) /\ Len(frames) \in Nat /\ Len(frames) >= 1 /\ Top = frames[Len(frames)]
  BY <1>1, TopIs
<1>4. Len(frames') = Len(frames) + 1 /\ frames'[Len(frames) + 1] = fr
  BY <1>2, <1>3, Appended
<1>5. FrameFits(frames', Len(frames) + 1)
  BY <1>4 DEF FrameFits, Fitting
<1>6. Stack(frames') /\ frames' # << >>
  <2>1. Stack(frames')
    BY <1>1, <1>2, <1>3, <1>5, Pushed
  <2> QED
    BY <1>3, <1>4, <2>1
<1>7. GeneratedTo(frames', Len(frames')) => ResultFits(result')
  BY <1>2, NoResultIs
<1>8. IsSound(result'.operand) /\ result'.use # "constant"
  BY <1>2, NoResultIs, NoOperandSound DEF None
<1>9. factors' \in 0 .. MaxFactors
  BY <1>2, BoundsAssumption DEF Inv
<1> QED
  BY <1>1, <1>2, <1>6, <1>7, <1>8, <1>9 DEF Inv

-----------------------------------------------------------------------------
(* The actions.                                                            *)

LEMMA VarTypeIs ==
  ASSUME NEW t \in VarTypes
  PROVE  t \in Types /\ t \notin {"VOID", "STRING1", None} /\ ValueType(t) = Llvm(t)
  BY ValueTypeOf DEF VarTypes, Types, Numeric, Strings, None

LEMMA TextIs ==
  /\ Variables \subseteq VarTypes
  /\ Literals \subseteq 0 .. MaxInt
  /\ LiteralTypes \subseteq {"REAL", "CHAR", "BOOLEAN", "VOID", "SET"}
  /\ \A fn \in Functions : /\ fn.result \in VarTypes /\ fn.mode \in {"value", "VAR", None}
                           /\ fn.mode # None => fn.param \in VarTypes
<1>1. ASSUME NEW fn \in Functions
      PROVE  /\ fn.result \in VarTypes /\ fn.mode \in {"value", "VAR", None}
             /\ fn.mode # None => fn.param \in VarTypes
  <2>1. CASE \E mode \in {"value", "VAR"}, param, result0 \in VarTypes : fn = Function(mode, param, result0)
    BY <2>1 DEF Function
  <2>2. CASE \E result0 \in VarTypes : fn = Function(None, None, result0)
    BY <2>2 DEF Function
  <2> QED
    BY <2>1, <2>2, TextAssumption
<1> QED
  BY <1>1, TextAssumption

LEMMA OperandFits ==
  ASSUME NEW t, NEW c \in BOOLEAN, NEW l, NEW g \in BOOLEAN, NEW v
  PROVE  LET o == Operand(t, c, l, g, v)
         IN  o.type = t /\ o.llvm = l /\ o.current = t /\ (l = ValueType(t) => Fits(o))
<1> DEFINE o == Operand(t, c, l, g, v)
           f == IF g THEN {Pattern(x) : x \in v} ELSE {}
<1>1. o = [type |-> t, const |-> c, llvm |-> l, current |-> t, global |-> g, value |-> v, folded |-> f,
           pure |-> c, exact |-> v, odd |-> {}]
  BY DEF Operand, NoValue
<1> HIDE DEF f
<1>2. o.type = t /\ o.llvm = l /\ o.current = t
  BY <1>1
<1> HIDE DEF o
<1>3. l = ValueType(t) => Fits(o)
  BY <1>2 DEF Fits
<1> QED
  BY <1>2, <1>3 DEF o

LEMMA TaggedFits ==
  ASSUME NEW t, NEW c \in BOOLEAN, NEW l, NEW g \in BOOLEAN, NEW v, NEW p \in BOOLEAN, NEW d
  PROVE  LET o == [Operand(t, c, l, g, v) EXCEPT !.pure = p, !.odd = d]
         IN  o.type = t /\ o.llvm = l /\ o.odd = d /\ (l = ValueType(t) => Fits(o))
<1> DEFINE o == Operand(t, c, l, g, v)
           f == IF g THEN {Pattern(x) : x \in v} ELSE {}
           q == [o EXCEPT !.pure = p, !.odd = d]
<1>1. o = [type |-> t, const |-> c, llvm |-> l, current |-> t, global |-> g, value |-> v, folded |-> f,
           pure |-> c, exact |-> v, odd |-> {}]
  BY DEF Operand, NoValue
<1> HIDE DEF f
<1>2. q.type = t /\ q.llvm = l /\ q.current = t /\ q.odd = d
  BY <1>1
<1> HIDE DEF q
<1>3. l = ValueType(t) => Fits(q)
  BY <1>2 DEF Fits
<1> QED
  BY <1>2, <1>3 DEF q

LEMMA TaggedIs ==
  ASSUME NEW t, NEW c \in BOOLEAN, NEW l, l = ValueType(t), NEW g \in BOOLEAN, NEW v
  PROVE  \A p \in BOOLEAN, d \in SUBSET Oddities : Fits([Operand(t, c, l, g, v) EXCEPT !.pure = p, !.odd = d])
<1> DEFINE o == Operand(t, c, l, g, v)
           f == IF g THEN {Pattern(x) : x \in v} ELSE {}
<1>1. o = [type |-> t, const |-> c, llvm |-> l, current |-> t, global |-> g, value |-> v, folded |-> f,
           pure |-> c, exact |-> v, odd |-> {}]
  BY DEF Operand, NoValue
<1> HIDE DEF f
<1>2. SUFFICES ASSUME NEW p \in BOOLEAN, NEW d \in SUBSET Oddities
               PROVE  Fits([o EXCEPT !.pure = p, !.odd = d])
  OBVIOUS
<1> DEFINE q == [o EXCEPT !.pure = p, !.odd = d]
<1>3. q.type = t /\ q.llvm = l /\ q.current = t
  BY <1>1
<1> HIDE DEF q
<1>4. Fits(q)
  BY <1>3 DEF Fits
<1> QED
  BY <1>4 DEF q

LEMMA IntegerStep == ASSUME Inv, NEW n \in Literals, ParseInteger(n) PROVE Inv'
<1> DEFINE f == Operand("INTEGER", TRUE, "i64", TRUE, {n})
<1>1. Leaf(f, "other", FALSE) /\ CanRead
  BY DEF ParseInteger, Leaf
<1>2. "INTEGER" \in Types \cup {None} /\ "i64" \in LlvmTypes /\ AtMostOne({n}) /\ ValueType("INTEGER") = "i64"
  BY LlvmOf, ValueTypeOf DEF Types, Numeric, LlvmTypes, AtMostOne
<1>3. {n} \subseteq Ints
  BY TextIs, Bounds DEF Ints
<1>4. IsSound(f)
  BY <1>2, <1>3, OperandSound
<1>5. Fits(f) /\ f.type = "INTEGER"
  <2>1. Fits(f)
    BY <1>2, OperandFits
  <2>2. f.type = "INTEGER"
    BY DEF Operand
  <2> QED
    BY <2>1, <2>2
<1> HIDE DEF f
<1> QED
  BY <1>1, <1>4, <1>5, LeafStep

LEMMA LiteralStep == ASSUME Inv, NEW t \in LiteralTypes, ParseLiteral(t) PROVE Inv'
<1> DEFINE l == IF t = "VOID" THEN "ptr" ELSE Llvm(t)
           f == Operand(t, TRUE, l, TRUE, {})
<1>1. Leaf(f, "other", FALSE) /\ CanRead
  BY DEF ParseLiteral, Leaf, NoValue
<1>2. t \in {"REAL", "CHAR", "BOOLEAN", "VOID", "SET"}
  BY TextIs
<1>3. t \in Types \cup {None} /\ t # "STRING1" /\ AtMostOne({}) /\ {} \subseteq Ints
  BY <1>2 DEF Types, Numeric, AtMostOne
<1>4. l = ValueType(t) /\ l \in LlvmTypes
  BY <1>2, LlvmIs DEF ValueType, LlvmTypes
<1> HIDE DEF l
<1>5. IsSound(f)
  BY <1>3, <1>4, OperandSound
<1>6. Fits(f) /\ f.type = t
  <2>1. Fits(f)
    BY <1>4, OperandFits
  <2>2. f.type = t
    BY DEF Operand
  <2> QED
    BY <2>1, <2>2
<1> HIDE DEF f
<1> QED
  BY <1>1, <1>3, <1>5, <1>6, LeafStep

(* A string is read as a character where the argument is assumed to be     *)
(* one, or else by a difference.                                           *)
LEMMA StringStep == ASSUME Inv, NEW t \in Strings, ParseString(t) PROVE Inv'
<1> DEFINE l == IF conv THEN "i32" ELSE "ptr"
           d == IF conv /\ ~Top.conv /\ Generated THEN {"literal"} ELSE {}
           o == Operand(t, TRUE, l, TRUE, {})
           f == [o EXCEPT !.odd = d]
           q == [o EXCEPT !.pure = TRUE, !.odd = d]
<1>1. Leaf(f, "other", FALSE) /\ CanRead
  BY DEF ParseString, Leaf, NoValue
<1>2. t \in Types \cup {None} /\ AtMostOne({}) /\ {} \subseteq Ints
  BY DEF Types, AtMostOne
<1>3. l \in LlvmTypes /\ d \in SUBSET Oddities
  BY DEF LlvmTypes, Oddities
<1> HIDE DEF l, d
<1>4. IsSound(o) /\ IsSound(q)
  BY <1>2, <1>3, OperandSound
<1>5. o.pure = TRUE
  BY DEF Operand
<1>6. q = f
  <2>1. o \in OperandSet
    BY <1>4 DEF IsSound
  <2> HIDE DEF o
  <2> QED
    BY <1>5, <2>1 DEF OperandSet
<1>7. q.type = t /\ q.llvm = l /\ q.odd = d /\ (l = ValueType(t) => Fits(q))
  BY TaggedFits
<1> HIDE DEF f, q, o
<1>8. ~Top.conv /\ Generated => Fits(f)
  <2>1. CASE conv
    <3>1. ~Top.conv /\ Generated => "literal" \in f.odd
      BY <1>6, <1>7, <2>1 DEF d
    <3> QED
      BY <3>1 DEF Fits, Exempt, Unfit
  <2>2. CASE ~conv
    <3>1. l = ValueType(t)
      BY <2>2, LlvmOf DEF l, Strings, ValueType
    <3> QED
      BY <1>6, <1>7, <3>1
  <2> QED
    BY <2>1, <2>2
<1>9. Reading(frames) => f.llvm = "i32"
  BY <1>6, <1>7 DEF Inv, l
<1> QED
  BY <1>1, <1>4, <1>6, <1>8, <1>9, LeafStep

LEMMA VariableStep == ASSUME Inv, NEW t \in Variables, ParseVariable(t) PROVE Inv'
<1> DEFINE f == Operand(t, FALSE, Llvm(t), FALSE, {})
<1>1. Leaf(f, "identifier", TRUE) /\ CanRead
  BY DEF ParseVariable, Leaf, NoValue
<1>2. t \in Types \cup {None} /\ t # "STRING1" /\ Llvm(t) = ValueType(t) /\ AtMostOne({}) /\ {} \subseteq Ints
  BY TextIs, VarTypeIs DEF AtMostOne
<1>3. IsSound(f)
  BY <1>2, OperandSound, LlvmIs
<1>4. Fits(f) /\ f.type = t
  <2>1. Fits(f)
    BY <1>2, OperandFits
  <2>2. f.type = t
    BY DEF Operand
  <2> QED
    BY <2>1, <2>2
<1> HIDE DEF f
<1> QED
  BY <1>1, <1>2, <1>3, <1>4, LeafStep

(* A constant of one character is a difference already.                    *)
LEMMA ConstantStep == ASSUME Inv, ParseConstant PROVE Inv'
<1>1. Leaf(constant, "identifier", TRUE) /\ CanRead
  BY DEF ParseConstant, Leaf
<1>2. IsSound(constant) /\ Fits(constant) /\ (constant.type = "STRING1" => Exempt(constant))
  BY DEF Inv
<1> QED
  BY <1>1, <1>2, LeafStep

LEMMA CallStep == ASSUME Inv, NEW fn \in Functions, ParseCall(fn) PROVE Inv'
<1> DEFINE t == fn.result
           d == IF is_const THEN {"call"} ELSE {}
           f == [Operand(t, is_const, Llvm(t), FALSE, {}) EXCEPT !.pure = FALSE, !.odd = d]
<1>1. Leaf(f, "other", FALSE) /\ CanRead
  BY DEF ParseCall, Leaf, NoValue
<1>2. t \in Types \cup {None} /\ t # "STRING1" /\ Llvm(t) = ValueType(t) /\ AtMostOne({}) /\ {} \subseteq Ints
  BY TextIs, VarTypeIs DEF AtMostOne
<1>3. d \in SUBSET Oddities /\ is_const \in BOOLEAN /\ (is_const => "call" \in d)
  BY DEF Inv, Oddities
<1> HIDE DEF t, d
<1>4. IsSound(f)
  BY <1>2, <1>3, OperandSound, LlvmIs
<1>5. Fits(f) /\ f.type = t
  <2>1. Fits(f)
    BY <1>2, <1>3, TaggedFits
  <2>2. f.type = t
    BY DEF Operand
  <2> QED
    BY <2>1, <2>2
<1> HIDE DEF f
<1> QED
  BY <1>1, <1>2, <1>4, <1>5, LeafStep

LEMMA OpenParenStep == ASSUME Inv, OpenParen PROVE Inv'
<1> DEFINE fr == Frame("paren", None, Top.conv)
<1>1. CanRead /\ frames # << >> /\ ~Top.full /\ OpenPart(fr, is_const, is_lvalue) /\ conv' = conv
  BY DEF OpenParen, OpenPart, CanRead
<1>2. FrameOK(Top) /\ Top.conv \in BOOLEAN /\ IsSeq(frames) /\ Len(frames) \in Nat /\ Len(frames) >= 1 /\ Top = frames[Len(frames)]
  BY <1>1, TopIs DEF FrameOK, FrameSet
<1>3. "paren" \in Uses /\ "paren" \notin Statements /\ "paren" \notin {"range", "argument"}
  BY DEF Uses, Statements
<1>4. /\ FrameOK(fr) /\ fr.use = "paren" /\ fr.conv = Top.conv /\ ~fr.full
      /\ \A leads : Fitting(fr, leads)
  BY <1>2, <1>3, NewFrame
<1> HIDE DEF fr
<1>5. frames' = Append(frames, fr)
  BY <1>1 DEF OpenPart, Open
<1>6. /\ Len(frames') = Len(frames) + 1 /\ frames'[Len(frames')] = fr /\ IsSeq(frames')
      /\ \A k \in 1 .. Len(frames) : frames'[k] = frames[k]
  BY <1>2, <1>5, Appended
<1>7. Reading(frames') => conv'
  <2>1. GeneratedTo(frames', Len(frames')) => GeneratedTo(frames, Len(frames))
    BY <1>2, <1>6, OneMore
  <2>2. Leads(frames', Len(frames')) => Leads(frames, Len(frames)) /\ Unused(Top) /\ Top.mul = None
    BY <1>2, <1>4, <1>6, OneMore
  <2>3. Reading(frames') => Reading(frames)
    BY <1>1, <1>2, <1>4, <1>6, <2>1, <2>2 DEF Reading, Alone
  <2> QED
    BY <1>1, <2>3 DEF Inv
<1>8. is_const \in BOOLEAN /\ is_lvalue \in BOOLEAN /\ conv' \in BOOLEAN
  BY <1>1 DEF Inv
<1> QED
  BY <1>1, <1>3, <1>4, <1>7, <1>8, OpenStep

LEMMA OpenPartStep ==
  ASSUME Inv, CanRead, NEW use \in {"set", "index"}, NEW c \in BOOLEAN, NEW lv \in BOOLEAN,
         OpenPart(Frame(use, None, FALSE), c, lv), conv' = conv
  PROVE  Inv'
<1> DEFINE fr == Frame(use, None, FALSE)
<1>1. use \in Uses /\ use \notin Statements /\ use \notin {"range", "argument", "paren"}
  BY DEF Uses, Statements
<1>2. /\ FrameOK(fr) /\ fr.use = use /\ fr.conv = FALSE /\ ~fr.full
      /\ \A leads : Fitting(fr, leads)
  BY <1>1, NewFrame
<1> HIDE DEF fr
<1>3. frames' = Append(frames, fr) /\ IsSeq(frames)
  BY TopIs DEF OpenPart, Open, fr, CanRead
<1>4. ~Reading(frames')
  BY <1>2, <1>3, Appended DEF Reading, Alone
<1>5. conv' \in BOOLEAN
  BY DEF Inv
<1> QED
  BY <1>1, <1>2, <1>4, <1>5, OpenStep DEF fr

LEMMA OpenSetStep == ASSUME Inv, OpenSet PROVE Inv'
<1>1. CanRead /\ OpenPart(Frame("set", None, FALSE), is_const, is_lvalue) /\ conv' = conv
  BY DEF OpenSet, OpenPart
<1>2. is_const \in BOOLEAN /\ is_lvalue \in BOOLEAN
  BY DEF Inv
<1> QED
  BY <1>1, <1>2, OpenPartStep

LEMMA OpenIndexStep == ASSUME Inv, OpenIndex PROVE Inv'
<1>1. CanRead /\ OpenPart(Frame("index", None, FALSE), FALSE, TRUE) /\ conv' = conv
  BY DEF OpenIndex, OpenPart
<1> QED
  BY <1>1, OpenPartStep

LEMMA OpenArgumentStep == ASSUME Inv, NEW fn \in Functions, NEW c \in BOOLEAN, OpenArgument(fn, c) PROVE Inv'
<1> DEFINE fr == Frame("argument", fn, c)
<1>1. /\ CanRead /\ frames # << >> /\ fn.mode # None /\ OpenPart(fr, is_const, is_lvalue)
      /\ c => fn.mode = "value" /\ fn.param = "CHAR"
      /\ conv' = IF fn.mode = "value" /\ Generated THEN c ELSE conv
  BY DEF OpenArgument, OpenPart, CanRead
<1>2. IsSeq(frames) /\ Len(frames) \in Nat /\ Len(frames) >= 1 /\ (Generated <=> GeneratedTo(frames, Len(frames)))
  BY <1>1, TopIs
<1>3. "argument" \in Uses /\ "argument" \notin Statements /\ "argument" \notin {"range", "paren"} /\ fn.mode \in {"value", "VAR"}
  BY <1>1, TextIs DEF Uses, Statements
<1>4. /\ FrameOK(fr) /\ fr.use = "argument" /\ fr.target = fn /\ fr.conv = c /\ ~fr.full
      /\ \A leads : Fitting(fr, leads)
  BY <1>1, <1>3, NewFrame
<1> HIDE DEF fr
<1>5. frames' = Append(frames, fr)
  BY <1>1 DEF OpenPart, Open
<1>6. /\ Len(frames') = Len(frames) + 1 /\ frames'[Len(frames')] = fr /\ IsSeq(frames')
      /\ \A k \in 1 .. Len(frames) : frames'[k] = frames[k]
  BY <1>2, <1>5, Appended
<1>7. GeneratedTo(frames', Len(frames')) <=> GeneratedTo(frames, Len(frames)) /\ fn.mode # "VAR"
  BY <1>2, <1>4, <1>6, OneMore
<1>8. Reading(frames') => conv'
  <2> SUFFICES ASSUME Reading(frames')
               PROVE  conv'
    OBVIOUS
  <2>1. c /\ GeneratedTo(frames', Len(frames'))
    BY <1>4, <1>6 DEF Reading, Alone
  <2>2. fn.mode = "value" /\ Generated
    BY <1>2, <1>3, <1>7, <2>1
  <2> QED
    BY <1>1, <2>1, <2>2
<1>9. is_const \in BOOLEAN /\ is_lvalue \in BOOLEAN /\ conv' \in BOOLEAN
  BY <1>1 DEF Inv
<1> QED
  BY <1>1, <1>3, <1>4, <1>8, <1>9, OpenStep

(* A frame in which only the waiting operators change.                     *)
LEMMA WaitingFits ==
  ASSUME Inv, frames # << >>, NEW fr, ~fr.full, fr.use = Top.use, fr.target = Top.target, fr.conv = Top.conv,
         Generated /\ ~Top.conv => Fits(fr.left) /\ Fits(fr.simple) /\ Fits(fr.term)
  PROVE  FitsLast(frames, fr)
<1>1. FitsLast(frames, Top) /\ (Generated <=> GeneratedTo(frames, Len(frames)))
  BY TopIs
<1> QED
  BY <1>1 DEF FitsLast, Fitting

LEMMA TopFits ==
  ASSUME Inv, frames # << >>
  PROVE  /\ Generated /\ ~Top.conv => Fits(Top.left) /\ Fits(Top.simple) /\ Fits(Top.term)
         /\ FrameOK(Top) /\ Top \in FrameSet(Top.target)
         /\ IsSound(Top.left) /\ IsSound(Top.simple) /\ IsSound(Top.term)
         /\ Top.left \in OperandSet /\ Top.simple \in OperandSet /\ Top.term \in OperandSet
         /\ Top.use = "range" => IsSound(Top.target) /\ Top.target.type = "INTEGER"
<1>1. FitsLast(frames, Top) /\ (Generated <=> GeneratedTo(frames, Len(frames))) /\ FrameOK(Top)
  BY TopIs
<1>2. Generated /\ ~Top.conv => Fits(Top.left) /\ Fits(Top.simple) /\ Fits(Top.term)
  BY <1>1 DEF FitsLast, Fitting
<1> QED
  BY <1>1, <1>2 DEF FrameOK, IsSound

LEMMA NotStep == ASSUME Inv, ParseNot PROVE Inv'
<1> DEFINE fr == [Top EXCEPT !.not = TRUE]
<1>1. /\ frames # << >> /\ ~Top.full /\ frames' = Append(Below, fr) /\ result' = NoResult
      /\ UNCHANGED << is_const, is_lvalue, conv, constant, rejected, factors, statements >>
  BY DEF ParseNot, Prefix, CanRead
<1>2. /\ Top \in FrameSet(Top.target) /\ FrameOK(Top)
      /\ Generated /\ ~Top.conv => Fits(Top.left) /\ Fits(Top.simple) /\ Fits(Top.term)
  BY <1>1, TopFits
<1>3. fr \in FrameSet(Top.target)
  BY <1>2 DEF FrameSet
<1>4. /\ fr.use = Top.use /\ fr.target = Top.target /\ fr.conv = Top.conv /\ fr.full = Top.full /\ fr.rel = Top.rel
      /\ fr.add = Top.add /\ fr.mul = Top.mul /\ fr.left = Top.left /\ fr.simple = Top.simple /\ fr.term = Top.term
  BY <1>2 DEF FrameSet
<1> HIDE DEF fr
<1>5. FrameOK(fr)
  BY <1>1, <1>2, <1>3, <1>4 DEF FrameOK
<1>6. FitsLast(frames, fr)
  BY <1>1, <1>2, <1>4, WaitingFits
<1>7. is_const' \in BOOLEAN /\ is_lvalue' \in BOOLEAN
  BY <1>1 DEF Inv
<1>8. Unused(fr) <=> Unused(Top)
  BY <1>4 DEF Unused
<1> QED
  BY <1>1, <1>4, <1>5, <1>6, <1>7, <1>8, FrameStep

LEMMA SignStep == ASSUME Inv, NEW sign \in {"+", "-"}, ParseSign(sign) PROVE Inv'
<1> DEFINE fr == [Top EXCEPT !.sign = sign, !.alone = FALSE]
<1>1. /\ frames # << >> /\ ~Top.full /\ frames' = Append(Below, fr) /\ result' = NoResult
      /\ UNCHANGED << is_const, is_lvalue, conv, constant, rejected, factors, statements >>
  BY DEF ParseSign, Prefix, CanRead
<1>2. /\ Top \in FrameSet(Top.target) /\ FrameOK(Top)
      /\ Generated /\ ~Top.conv => Fits(Top.left) /\ Fits(Top.simple) /\ Fits(Top.term)
  BY <1>1, TopFits
<1>3. fr \in FrameSet(Top.target)
  BY <1>2 DEF FrameSet
<1>4. /\ fr.use = Top.use /\ fr.target = Top.target /\ fr.conv = Top.conv /\ fr.full = Top.full /\ fr.rel = Top.rel
      /\ fr.add = Top.add /\ fr.mul = Top.mul /\ fr.left = Top.left /\ fr.simple = Top.simple /\ fr.term = Top.term
  BY <1>2 DEF FrameSet
<1> HIDE DEF fr
<1>5. FrameOK(fr)
  BY <1>1, <1>2, <1>3, <1>4 DEF FrameOK
<1>6. FitsLast(frames, fr)
  BY <1>1, <1>2, <1>4, WaitingFits
<1>7. is_const' \in BOOLEAN /\ is_lvalue' \in BOOLEAN
  BY <1>1 DEF Inv
<1>8. Unused(fr) <=> Unused(Top)
  BY <1>4 DEF Unused
<1> QED
  BY <1>1, <1>4, <1>5, <1>6, <1>7, <1>8, FrameStep

(* An operator: the frame fr, without an operand, waits for the right one. *)
LEMMA OperatorStep ==
  ASSUME Inv, AfterOperand, NEW fr, fr \in FrameSet(fr.target), IsSound(fr.left), IsSound(fr.simple), IsSound(fr.term),
         fr.use = Top.use, fr.target = Top.target, fr.conv = Top.conv,
         Generated /\ ~Top.conv => Fits(fr.left) /\ Fits(fr.simple) /\ Fits(fr.term),
         ~Unused(fr) \/ fr.mul # None, NEW checked, checked.const \in BOOLEAN, Operator(fr, checked)
  PROVE  Inv'
<1>1. CASE checked.type = None
  <2>1. Reject
    BY <1>1 DEF Operator
  <2> QED
    BY <2>1, RejectStep
<1>2. CASE checked.type # None
  <2> DEFINE nfr == [fr EXCEPT !.full = FALSE, !.alone = FALSE]
  <2>1. /\ frames # << >> /\ frames' = Append(Below, nfr) /\ is_const' = checked.const /\ is_lvalue' = FALSE
        /\ result' = NoResult /\ UNCHANGED << conv, constant, rejected, factors, statements >>
    BY <1>2 DEF Operator, AfterOperand
  <2>2. nfr \in FrameSet(fr.target)
    BY DEF FrameSet
  <2>3. /\ nfr.use = fr.use /\ nfr.target = fr.target /\ nfr.conv = fr.conv /\ ~nfr.full /\ nfr.rel = fr.rel
        /\ nfr.add = fr.add /\ nfr.mul = fr.mul /\ nfr.left = fr.left /\ nfr.simple = fr.simple /\ nfr.term = fr.term
    BY DEF FrameSet
  <2> HIDE DEF nfr
  <2>4. FrameOK(Top)
    BY <2>1, TopFits
  <2>5. FrameOK(nfr)
    BY <2>2, <2>3, <2>4 DEF FrameOK
  <2>6. FitsLast(frames, nfr)
    BY <2>1, <2>3, WaitingFits
  <2>7. ~(Unused(nfr) /\ nfr.mul = None)
    BY <2>3 DEF Unused
  <2>8. is_const' \in BOOLEAN /\ is_lvalue' \in BOOLEAN
    BY <2>1
  <2> QED
    BY <2>1, <2>3, <2>5, <2>6, <2>7, <2>8, FrameStep
<1> QED
  BY <1>1, <1>2

LEMMA MulStep == ASSUME Inv, NEW op \in MulOperators, ParseMulOperator(op) PROVE Inv'
<1> DEFINE fr == [Top EXCEPT !.mul = op]
<1>1. AfterOperand /\ frames # << >> /\ Operator(fr, Top.term)
  BY DEF ParseMulOperator, AfterOperand
<1>2. /\ Top \in FrameSet(Top.target) /\ IsSound(Top.left) /\ IsSound(Top.simple) /\ IsSound(Top.term)
      /\ Generated /\ ~Top.conv => Fits(Top.left) /\ Fits(Top.simple) /\ Fits(Top.term)
  BY <1>1, TopFits
<1>3. fr \in FrameSet(Top.target)
  BY <1>2 DEF FrameSet
<1>4. /\ fr.use = Top.use /\ fr.target = Top.target /\ fr.conv = Top.conv /\ fr.mul = op
      /\ fr.left = Top.left /\ fr.simple = Top.simple /\ fr.term = Top.term
  BY <1>2 DEF FrameSet
<1> HIDE DEF fr
<1>5. op # None
  BY DEF MulOperators, None
<1>6. Top.term.const \in BOOLEAN
  BY <1>2 DEF IsSound, OperandSet
<1> QED
  BY <1>1, <1>2, <1>3, <1>4, <1>5, <1>6, OperatorStep

LEMMA AddStep == ASSUME Inv, NEW op \in AddOperators, ParseAddOperator(op) PROVE Inv'
<1> DEFINE L == AfterTerm(Top)
           fr == [Top EXCEPT !.add = op, !.simple = L, !.term = NoOperand]
<1>1. AfterOperand /\ frames # << >> /\ Operator(fr, L)
  BY DEF ParseAddOperator, AfterOperand
<1>2. /\ Top \in FrameSet(Top.target) /\ FrameOK(Top) /\ IsSound(Top.left)
      /\ Generated /\ ~Top.conv => Fits(Top.left) /\ Fits(Top.simple) /\ Fits(Top.term)
  BY <1>1, TopFits
<1>3. IsSound(L) /\ (Fits(Top.simple) /\ Fits(Top.term) => Fits(L))
  BY <1>2, AfterTermIs
<1>4. IsSound(NoOperand) /\ Fits(NoOperand) /\ NoOperand \in OperandSet /\ L \in OperandSet /\ L.const \in BOOLEAN
  BY <1>3, NoOperandSound, NoOperandFits DEF IsSound, OperandSet
<1> HIDE DEF L
<1>5. fr \in FrameSet(Top.target)
  BY <1>2, <1>4 DEF FrameSet
<1>6. /\ fr.use = Top.use /\ fr.target = Top.target /\ fr.conv = Top.conv /\ fr.add = op
      /\ fr.left = Top.left /\ fr.simple = L /\ fr.term = NoOperand
  BY <1>2 DEF FrameSet
<1> HIDE DEF fr
<1>7. ~Unused(fr)
  BY <1>6 DEF Unused, AddOperators, None
<1> QED
  BY <1>1, <1>2, <1>3, <1>4, <1>5, <1>6, <1>7, OperatorStep

LEMMA RelationStep == ASSUME Inv, NEW op \in Relations, ParseRelation(op) PROVE Inv'
<1> DEFINE L == AfterTerm(Top)
           fr == [Top EXCEPT !.rel = op, !.left = L, !.add = None, !.sign = None,
                             !.simple = NoOperand, !.term = NoOperand]
<1>1. AfterOperand /\ frames # << >> /\ Operator(fr, L)
  BY DEF ParseRelation, AfterOperand
<1>2. /\ Top \in FrameSet(Top.target) /\ FrameOK(Top)
      /\ Generated /\ ~Top.conv => Fits(Top.left) /\ Fits(Top.simple) /\ Fits(Top.term)
  BY <1>1, TopFits
<1>3. IsSound(L) /\ (Fits(Top.simple) /\ Fits(Top.term) => Fits(L))
  BY <1>2, AfterTermIs
<1>4. IsSound(NoOperand) /\ Fits(NoOperand) /\ NoOperand \in OperandSet /\ L \in OperandSet /\ L.const \in BOOLEAN
  BY <1>3, NoOperandSound, NoOperandFits DEF IsSound, OperandSet
<1> HIDE DEF L
<1>5. fr \in FrameSet(Top.target)
  BY <1>2, <1>4 DEF FrameSet
<1>6. /\ fr.use = Top.use /\ fr.target = Top.target /\ fr.conv = Top.conv /\ fr.rel = op
      /\ fr.left = L /\ fr.simple = NoOperand /\ fr.term = NoOperand
  BY <1>2 DEF FrameSet
<1> HIDE DEF fr
<1>7. ~Unused(fr)
  BY <1>6 DEF Unused, Relations, Equality, Ordering, None
<1> QED
  BY <1>1, <1>2, <1>3, <1>4, <1>5, <1>6, <1>7, OperatorStep

(* An expression that is a factor of the one below it.                     *)
LEMMA ClosedStep ==
  ASSUME Inv, AfterOperand, Top.use \notin Statements, NEW e, NEW f, e.type # None => IsSound(f),
         e.type # None /\ GeneratedTo(Below, Len(Below)) /\ ~Below[Len(Below)].conv => Fits(f),
         e.type # None /\ Alone(Below) /\ f.type = "STRING1" => Exempt(f) \/ f.llvm = "i32",
         NEW kind \in {"other", "identifier", "element"}, NEW lv \in BOOLEAN,
         NEW found, e.type # None => IsSound(found.operand), found.use # "constant",
         e.type # None /\ GeneratedTo(Below, Len(Below)) => ResultFits(found),
         Closed(e, f, kind, lv, found)
  PROVE  Inv'
<1>1. CASE e.type = None
  <2>1. Reject
    BY <1>1 DEF Closed
  <2> QED
    BY <2>1, RejectStep
<1>2. CASE e.type # None
  <2>1. frames # << >> /\ FactorIn(Below, f, kind, lv, 0, found)
    BY <1>2 DEF Closed, AfterOperand
  <2>2. Stack(Below) /\ Below # << >> /\ ~Below[Len(Below)].full
    BY <2>1, BelowIs
  <2>3. factors + 0 <= MaxFactors
    BY BoundsAssumption DEF Inv
  <2> QED
    BY <1>2, <2>1, <2>2, <2>3, FactorStep
<1> QED
  BY <1>1, <1>2

LEMMA CloseParenStep == ASSUME Inv, CloseParen PROVE Inv'
<1> DEFINE e == AfterSimple(Top)
           f == [e EXCEPT !.current = e.type]
<1>1. AfterOperand /\ frames # << >> /\ Top.use = "paren" /\ Top.use \notin Statements /\ Closed(e, f, "other", is_lvalue, NoResult)
  BY DEF CloseParen, Ends, AfterOperand, Statements
<1>2. /\ IsSound(e) /\ e \in OperandSet
      /\ GeneratedTo(frames, Len(frames)) /\ ~Top.conv => Fits(e)
      /\ GeneratedTo(frames, Len(frames)) /\ Top.conv /\ Leads(frames, Len(frames)) /\ e.type = "STRING1" =>
           Exempt(e) \/ e.llvm = "i32"
  BY <1>1, EndIs
<1>3. /\ GeneratedTo(frames, Len(frames)) <=> GeneratedTo(Below, Len(Below))
      /\ Top.conv = Below[Len(Below)].conv
      /\ Leads(frames, Len(frames)) <=>
           Leads(Below, Len(Below)) /\ Unused(Below[Len(Below)]) /\ Below[Len(Below)].mul = None
  BY <1>1, BelowIs
<1> HIDE DEF e
<1>4. f \in OperandSet
  BY <1>2 DEF OperandSet
<1>5. /\ f.type = e.type /\ f.llvm = e.llvm /\ f.odd = e.odd /\ f.current = e.type /\ f.const = e.const
      /\ f.value = e.value /\ f.folded = e.folded /\ f.exact = e.exact /\ f.pure = e.pure
      /\ f.global = e.global
  BY <1>2 DEF OperandSet
<1> HIDE DEF f
<1>6. IsSound(f) /\ (Fits(e) => Fits(f)) /\ (Exempt(e) => Exempt(f))
  BY <1>2, <1>4, <1>5 DEF IsSound, Known, Fits, Exempt
<1>7. is_lvalue \in BOOLEAN
  BY DEF Inv
<1>8. IsSound(NoResult.operand) /\ NoResult.use # "constant" /\ ResultFits(NoResult)
  BY NoResultIs, NoOperandSound DEF None
<1>9. Alone(Below) => GeneratedTo(frames, Len(frames)) /\ Top.conv /\ Leads(frames, Len(frames))
  BY <1>3 DEF Alone
<1> QED
  BY <1>1, <1>2, <1>3, <1>5, <1>6, <1>7, <1>8, <1>9, ClosedStep

LEMMA CloseIndexStep == ASSUME Inv, CloseIndex PROVE Inv'
<1> DEFINE e == AfterSimple(Top)
           f == Element(e)
<1>1. AfterOperand /\ frames # << >> /\ Top.use \notin Statements /\ Closed(e, f, "element", is_lvalue, NoResult)
  BY DEF CloseIndex, Ends, AfterOperand, Statements
<1>2. IsSound(e) /\ e \in OperandSet
  BY <1>1, EndIs
<1> HIDE DEF e
<1>3. /\ e.const \in BOOLEAN /\ e.odd \cup {"index"} \in SUBSET Oddities /\ "INTEGER" \in Types \cup {None}
      /\ {} \subseteq Ints /\ AtMostOne({})
  BY <1>2 DEF OperandSet, Oddities, Types, Numeric, AtMostOne
<1> DEFINE l == IF IsInt(e.llvm) THEN "i64" ELSE Failed(e.llvm, e.llvm)
<1>4. l \in LlvmTypes
  BY FailedIs DEF LlvmTypes
<1> HIDE DEF l
<1>5. f = [Operand("INTEGER", e.const, l, FALSE, {}) EXCEPT !.pure = FALSE, !.odd = e.odd \cup {"index"}]
  BY DEF Element, l, NoValue
<1>6. IsSound(f)
  <2> DEFINE c == e.const
             d == e.odd \cup {"index"}
  <2>1. c \in BOOLEAN /\ d \in SUBSET Oddities /\ "index" \in d
    BY <1>3
  <2>2. f = [Operand("INTEGER", c, l, FALSE, {}) EXCEPT !.pure = FALSE, !.odd = d]
    BY <1>5
  <2> HIDE DEF c, d, f
  <2>3. IsSound([Operand("INTEGER", c, l, FALSE, {}) EXCEPT !.pure = FALSE, !.odd = d])
    BY <1>3, <1>4, <2>1, OperandSound
  <2> QED
    BY <2>2, <2>3
<1>7. f.type = "INTEGER" /\ "index" \in f.odd
  BY <1>5 DEF Operand
<1> HIDE DEF f
<1>8. Fits(f)
  BY <1>7 DEF Fits, Exempt
<1>9. is_lvalue \in BOOLEAN
  BY DEF Inv
<1>10. IsSound(NoResult.operand) /\ NoResult.use # "constant" /\ ResultFits(NoResult)
  BY NoResultIs, NoOperandSound DEF None
<1> QED
  BY <1>1, <1>6, <1>7, <1>8, <1>9, <1>10, ClosedStep

LEMMA IntegerOnlyIs ==
  ASSUME NEW e \in OperandSet, IntegerOnly(e).type # None
  PROVE  IntegerOnly(e) = e /\ e.type = "INTEGER"
<1>1. IntegerOnly(e).type = IF e.type = "INTEGER" THEN "INTEGER" ELSE None
  BY DEF IntegerOnly, OperandSet
<1>2. e.type = "INTEGER"
  BY <1>1
<1> QED
  BY <1>2 DEF IntegerOnly, OperandSet

LEMMA IntegerFits ==
  ASSUME NEW e, Fits(e), e.type = "INTEGER"
  PROVE  Exempt(e) \/ e.llvm = "i64"
  BY LlvmOf, ValueTypeOf DEF Fits, None

LEMMA SetOfIs ==
  ASSUME NEW e \in OperandSet, e.const /\ "index" \notin e.odd /\ "call" \notin e.odd => e.pure,
         NEW l, NEW g \in BOOLEAN
  PROVE  /\ IsSound(SetOf(e, l, g)) /\ SetOf(e, l, g).type = "SET"
         /\ Exempt(e) \/ (e.llvm = "i64" /\ l = "i64") => Fits(SetOf(e, l, g))
<1> DEFINE m == IF e.llvm = "i64" /\ l = "i64" THEN "i64" ELSE Failed(e.llvm, l)
           s == SetOf(e, l, g)
<1>1. s = [Operand("SET", e.const, m, g, {}) EXCEPT !.pure = e.pure, !.odd = e.odd]
  BY DEF SetOf, NoValue
<1>2. /\ "SET" \in Types \cup {None} /\ m \in LlvmTypes /\ AtMostOne({}) /\ {} \subseteq Ints
      /\ e.const \in BOOLEAN /\ e.pure \in BOOLEAN /\ e.odd \in SUBSET Oddities
  BY FailedIs DEF Types, LlvmTypes, OperandSet, AtMostOne
<1>3. (e.llvm = "i64" /\ l = "i64") => m = ValueType("SET")
  BY LlvmOf, ValueTypeOf
<1> HIDE DEF m
<1> DEFINE c == e.const
           p == e.pure
           d == e.odd
<1>0. /\ c \in BOOLEAN /\ p \in BOOLEAN /\ d \in SUBSET Oddities /\ (c /\ "index" \notin d /\ "call" \notin d => p)
      /\ s = [Operand("SET", c, m, g, {}) EXCEPT !.pure = p, !.odd = d]
  BY <1>1, <1>2
<1>4. IsSound(s)
  <2> HIDE DEF c, p, d, s
  <2>1. IsSound([Operand("SET", c, m, g, {}) EXCEPT !.pure = p, !.odd = d])
    BY <1>2, <1>0, OperandSound
  <2> QED
    BY <1>0, <2>1
<1>5. s.type = "SET" /\ s.odd = e.odd
  BY <1>1 DEF Operand
<1>6. m = ValueType("SET") => Fits(s)
  <2> DEFINE t == "SET"
  <2>1. s = [Operand(t, c, m, g, {}) EXCEPT !.pure = p, !.odd = d]
    BY <1>0
  <2> HIDE DEF c, p, d, s, t
  <2>2. ASSUME m = ValueType(t)
        PROVE  Fits([Operand(t, c, m, g, {}) EXCEPT !.pure = p, !.odd = d])
    BY <1>0, <2>2, TaggedIs
  <2> QED
    BY <2>1, <2>2 DEF t
<1> HIDE DEF s
<1>7. Exempt(e) => Fits(s)
  BY <1>5 DEF Exempt, Fits
<1> QED
  BY <1>3, <1>4, <1>5, <1>6, <1>7 DEF s

LEMMA CloseSetStep == ASSUME Inv, CloseSet PROVE Inv'
<1> DEFINE o == AfterSimple(Top)
           e == IntegerOnly(o)
           f == SetOf(e, "i64", e.global)
<1>1. AfterOperand /\ frames # << >> /\ Top.use = "set" /\ Top.use \notin Statements /\ Closed(e, f, "other", FALSE, NoResult)
  BY DEF CloseSet, Ends, AfterOperand, Statements
<1>2. /\ IsSound(o) /\ o \in OperandSet
      /\ GeneratedTo(frames, Len(frames)) /\ ~Top.conv => Fits(o)
  BY <1>1, EndIs
<1>3. GeneratedTo(frames, Len(frames)) <=> GeneratedTo(Below, Len(Below))
  BY <1>1, BelowIs
<1>4. ~Top.conv
  BY <1>1, TopFits DEF FrameOK
<1>5. ASSUME e.type # None
      PROVE  IsSound(f) /\ f.type = "SET" /\ (GeneratedTo(Below, Len(Below)) => Fits(f))
  <2> HIDE DEF o
  <2>1. e = o /\ o.type = "INTEGER"
    BY <1>2, <1>5, IntegerOnlyIs
  <2> HIDE DEF e
  <2>2. e \in OperandSet /\ (e.const /\ "index" \notin e.odd /\ "call" \notin e.odd => e.pure) /\ e.global \in BOOLEAN
    BY <1>2, <2>1 DEF IsSound, Known, OperandSet
  <2>3. GeneratedTo(Below, Len(Below)) => Exempt(e) \/ e.llvm = "i64"
    BY <1>2, <1>3, <1>4, <2>1, IntegerFits
  <2> QED
    BY <2>2, <2>3, SetOfIs
<1> HIDE DEF f, e
<1>6. IsSound(NoResult.operand) /\ NoResult.use # "constant" /\ ResultFits(NoResult)
  BY NoResultIs, NoOperandSound DEF None
<1> QED
  BY <1>1, <1>5, <1>6, ClosedStep

LEMMA RangeStep == ASSUME Inv, ParseRange PROVE Inv'
<1> DEFINE o == AfterSimple(Top)
           low == IntegerOnly(o)
           fr == [Frame("range", low, FALSE) EXCEPT !.full = FALSE, !.alone = FALSE]
<1>1. AfterOperand /\ frames # << >> /\ Top.use = "set" /\ Operator(Frame("range", low, FALSE), low)
  BY DEF ParseRange, Ends, AfterOperand
<1>2. /\ IsSound(o) /\ o \in OperandSet
      /\ GeneratedTo(frames, Len(frames)) /\ ~Top.conv => Fits(o)
  BY <1>1, EndIs
<1>3. ~Top.conv /\ Top.conv \in BOOLEAN
  BY <1>1, TopFits DEF FrameOK, FrameSet
<1>4. CASE low.type = None
  <2>1. Reject
    BY <1>1, <1>4 DEF Operator
  <2> QED
    BY <2>1, RejectStep
<1>5. CASE low.type # None
  <2>1. /\ frames' = Append(Below, fr) /\ is_const' = low.const /\ is_lvalue' = FALSE
        /\ result' = NoResult /\ UNCHANGED << conv, constant, rejected, factors, statements >>
    BY <1>1, <1>5 DEF Operator
  <2> HIDE DEF o
  <2>2. low = o
    BY <1>2, <1>5, IntegerOnlyIs
  <2> HIDE DEF low
  <2>3. IsSound(low) /\ low.const \in BOOLEAN /\ (GeneratedTo(frames, Len(frames)) => Fits(low))
    BY <1>2, <1>3, <2>2 DEF OperandSet
  <2> DEFINE F == Frame("range", low, FALSE)
  <2>0. low.type = "INTEGER"
    BY <1>2, <1>5, <2>2, IntegerOnlyIs DEF low
  <2>4. "range" \in Uses
    BY DEF Uses
  <2>5. /\ FrameOK(F) /\ F.use = "range" /\ F.target = low /\ F.conv = FALSE /\ ~F.full
        /\ \A leads : Fits(low) => Fitting(F, leads)
    BY <2>2, <2>3, <2>4, <2>0, NewFrame
  <2>6. fr = [F EXCEPT !.full = FALSE, !.alone = FALSE]
    OBVIOUS
  <2> HIDE DEF F, fr
  <2>7. F \in FrameSet(low)
    BY <2>5 DEF FrameOK
  <2>8. fr \in FrameSet(low)
    BY <2>6, <2>7 DEF FrameSet
  <2>9. /\ fr.use = "range" /\ fr.target = low /\ fr.conv = FALSE /\ ~fr.full /\ fr.mul = F.mul /\ fr.not = F.not
        /\ fr.left = F.left /\ fr.simple = F.simple /\ fr.term = F.term
    BY <2>5, <2>6, <2>7 DEF FrameSet
  <2>10. FrameOK(fr)
    BY <2>5, <2>8, <2>9 DEF FrameOK
  <2>11. FitsLast(frames, fr)
    BY <2>3, <2>5, <2>9 DEF FitsLast, Fitting
  <2>12. is_const' \in BOOLEAN /\ is_lvalue' \in BOOLEAN /\ fr.conv = Top.conv
    BY <1>3, <2>1, <2>3, <2>9
  <2> QED
    BY <1>1, <2>1, <2>9, <2>10, <2>11, <2>12, FrameStep
<1> QED
  BY <1>4, <1>5

LEMMA CloseRangeStep == ASSUME Inv, CloseRange PROVE Inv'
<1> DEFINE o == AfterSimple(Top)
           low == Top.target
           high == IntegerOnly(o)
           e == [high EXCEPT !.const = @ /\ low.const, !.pure = @ /\ low.pure, !.odd = @ \union low.odd]
           f == SetOf(e, low.llvm, FALSE)
<1>1. AfterOperand /\ frames # << >> /\ Top.use = "range" /\ Top.use \notin Statements /\ Closed(e, f, "other", FALSE, NoResult)
  BY DEF CloseRange, Ends, AfterOperand, Statements
<1>2. /\ IsSound(o) /\ o \in OperandSet
      /\ GeneratedTo(frames, Len(frames)) /\ ~Top.conv => Fits(o)
  BY <1>1, EndIs
<1>3. GeneratedTo(frames, Len(frames)) <=> GeneratedTo(Below, Len(Below))
  BY <1>1, BelowIs
<1>4. ~Top.conv /\ IsSound(low) /\ low \in OperandSet
  BY <1>1, TopFits DEF FrameOK, IsSound
<1>5. GeneratedTo(frames, Len(frames)) => Fits(low)
  BY <1>1, <1>4, TopIs DEF FitsLast, Fitting
<1>6. high.type = e.type /\ high.type = IF o.type = "INTEGER" THEN "INTEGER" ELSE None
  BY <1>2 DEF IntegerOnly, OperandSet
<1> HIDE DEF low
<1>7. ASSUME e.type # None
      PROVE  IsSound(f) /\ f.type = "SET" /\ (GeneratedTo(Below, Len(Below)) => Fits(f))
  <2> HIDE DEF o
  <2>1. high = o /\ o.type = "INTEGER"
    BY <1>2, <1>6, <1>7, IntegerOnlyIs
  <2> HIDE DEF high
  <2>2. e \in OperandSet
    BY <1>2, <1>4, <2>1 DEF OperandSet
  <2>3. e.llvm = o.llvm /\ e.const = (o.const /\ low.const) /\ e.pure = (o.pure /\ low.pure) /\ e.odd = o.odd \cup low.odd
    BY <1>2, <1>4, <2>1 DEF OperandSet
  <2> HIDE DEF e
  <2>4. e.const /\ "index" \notin e.odd /\ "call" \notin e.odd => e.pure
    BY <1>2, <1>4, <2>3 DEF IsSound, Known
  <2>5. GeneratedTo(Below, Len(Below)) => Exempt(o) \/ o.llvm = "i64"
    BY <1>2, <1>3, <1>4, <2>1, IntegerFits
  <2>6. GeneratedTo(Below, Len(Below)) => Exempt(low) \/ low.llvm = "i64" \/ low.type # "INTEGER"
    BY <1>3, <1>5, IntegerFits
  <2>7. Exempt(o) => Exempt(e)
    BY <2>3 DEF Exempt
  <2>8. Exempt(low) => Exempt(e)
    BY <2>3 DEF Exempt
  <2>9. low.type = "INTEGER"
    BY <1>1, TopIs DEF FrameOK, low
  <2> QED
    BY <2>2, <2>3, <2>4, <2>5, <2>6, <2>7, <2>8, <2>9, SetOfIs
<1> HIDE DEF f, e
<1>8. IsSound(NoResult.operand) /\ NoResult.use # "constant" /\ ResultFits(NoResult)
  BY NoResultIs, NoOperandSound DEF None
<1> QED
  BY <1>1, <1>7, <1>8, ClosedStep

(* A value argument has the LLVM type of its parameter.                    *)
LEMMA ArgumentFits ==
  ASSUME Inv, Ends("argument"), NEW fn, fn = Top.target, fn.mode = "value",
         NEW e, e = AfterSimple(Top), e.type # None, Equiv(fn.param, e.type),
         Top.conv = (fn.mode = "value" /\ fn.param = "CHAR" /\ e.type = "STRING1"),
         GeneratedTo(frames, Len(frames))
  PROVE  Exempt(e) \/ e.llvm = Llvm(fn.param)
<1>1. AfterOperand /\ frames # << >> /\ Top.use = "argument" /\ Top.use \notin Statements /\ Top.use # "paren"
  BY DEF Ends, AfterOperand, Statements
<1>2. /\ IsSound(e)
      /\ ~Top.conv => Fits(e)
      /\ Top.conv /\ Leads(frames, Len(frames)) /\ e.type = "STRING1" => Exempt(e) \/ e.llvm = "i32"
  BY <1>1, EndIs
<1>3. Leads(frames, Len(frames))
  BY <1>1, BelowIs
<1>4. fn.param \in VarTypes
  <2>1. fn \in Functions /\ fn.mode # None
    BY <1>1, TopFits DEF FrameOK, None
  <2> QED
    BY <2>1, TextIs
<1>5. CASE Top.conv
  BY <1>2, <1>3, <1>5, LlvmOf
<1>6. CASE ~Top.conv
  <2>1. Exempt(e) \/ e.llvm = ValueType(e.type)
    BY <1>2, <1>6 DEF Fits
  <2>2. CASE e.type = "STRING1"
    <3>1. fn.param = "STRING"
      BY <1>6, <2>2 DEF Equiv
    <3>2. ValueType("STRING1") = "ptr"
      BY DEF ValueType
    <3> QED
      BY <2>1, <2>2, <3>1, <3>2, LlvmOf
  <2>3. CASE e.type # "STRING1"
    <3>1. fn.param = e.type
      BY <2>3 DEF Equiv
    <3> QED
      BY <1>4, <2>1, <3>1, VarTypeIs
  <2> QED
    BY <2>2, <2>3
<1> QED
  BY <1>5, <1>6, <1>1, TopFits DEF FrameOK, FrameSet

LEMMA CallOddIs ==
  ASSUME NEW fn, NEW e \in OperandSet
  PROVE  /\ CallOdd(fn, e) \in SUBSET Oddities
         /\ e.const => "call" \in CallOdd(fn, e)
         /\ fn.mode = "VAR" /\ ~(Top.alone /\ Top.first = "identifier") => "argument" \in CallOdd(fn, e)
         /\ e.odd \subseteq CallOdd(fn, e)
<1>1. e.odd \in SUBSET Oddities
  BY DEF OperandSet
<1> QED
  BY <1>1 DEF CallOdd, Oddities

LEMMA CallIs ==
  ASSUME NEW fn \in Functions, fn.mode \in {"value", "VAR"}, NEW e \in OperandSet,
         NEW f, f = [Operand(fn.result, e.const, CallValue(fn, e), FALSE, NoValue) EXCEPT
                       !.pure = FALSE, !.odd = CallOdd(fn, e)]
  PROVE  /\ IsSound(f) /\ f.type # "STRING1"
         /\ (fn.mode = "value" => Exempt(e) \/ e.llvm = Llvm(fn.param)) => Fits(f)
<1> DEFINE t == fn.result
           c == e.const
           m == CallValue(fn, e)
           d == CallOdd(fn, e)
<1>1. /\ t \in Types \cup {None} /\ t # "STRING1" /\ ValueType(t) = Llvm(t)
      /\ {} \subseteq Ints /\ AtMostOne({})
  BY TextIs, VarTypeIs DEF AtMostOne
<1>2. c \in BOOLEAN /\ d \in SUBSET Oddities /\ (c => "call" \in d)
  BY CallOddIs DEF OperandSet
<1>3. m \in LlvmTypes
  <2>1. Llvm(t) \in LlvmTypes /\ Failed(e.llvm, e.llvm) \in LlvmTypes /\ Thrown \in LlvmTypes
    BY LlvmIs, FailedIs, <1>1 DEF LlvmTypes
  <2> QED
    BY <2>1 DEF CallValue
<1>4. f = [Operand(t, c, m, FALSE, {}) EXCEPT !.pure = FALSE, !.odd = d]
  BY DEF NoValue
<1>5. f.type = t /\ f.odd = d
  BY <1>4 DEF Operand
<1>6. IsSound(f)
  <2> HIDE DEF t, c, m, d
  <2>1. IsSound([Operand(t, c, m, FALSE, {}) EXCEPT !.pure = FALSE, !.odd = d])
    BY <1>1, <1>2, <1>3, OperandSound
  <2> QED
    BY <1>4, <2>1
<1>7. m = ValueType(t) => Fits(f)
  <2> HIDE DEF t, c, m, d
  <2>1. ASSUME m = ValueType(t)
        PROVE  Fits([Operand(t, c, m, FALSE, {}) EXCEPT !.pure = FALSE, !.odd = d])
    BY <1>2, <2>1, TaggedIs
  <2> QED
    BY <1>4, <2>1
<1>8. Exempt(e) \/ "argument" \in d => Fits(f)
  <2>1. e.odd \subseteq d
    BY CallOddIs
  <2> HIDE DEF d
  <2> QED
    BY <1>5, <2>1 DEF Fits, Exempt, Unfit
<1>9. fn.mode = "value" /\ e.llvm = Llvm(fn.param) => m = ValueType(t)
  BY <1>1 DEF CallValue
<1>10. fn.mode = "VAR" => m = ValueType(t) \/ "argument" \in d
  <2>1. fn.mode = "VAR" /\ Top.first \notin {"identifier", "element"} => "argument" \in d
    BY CallOddIs
  <2> HIDE DEF d
  <2> QED
    BY <1>1, <2>1 DEF CallValue
<1> QED
  BY <1>1, <1>5, <1>6, <1>7, <1>8, <1>9, <1>10

LEMMA CompletedIs ==
  ASSUME NEW use, NEW target, NEW o, NEW fr
  PROVE  LET r == Completed(use, target, o, fr)
         IN  r.use = use /\ r.target = target /\ r.operand = o
  BY DEF Completed

LEMMA CloseArgumentStep == ASSUME Inv, CloseArgument PROVE Inv'
<1> DEFINE fn == Top.target
           e == AfterSimple(Top)
           c == [e EXCEPT !.type = IF @ # None /\ BadArgument(fn, e) THEN None ELSE @]
           f == [Operand(fn.result, e.const, CallValue(fn, e), FALSE, NoValue) EXCEPT
                   !.pure = FALSE, !.odd = CallOdd(fn, e)]
           found == Completed(fn.mode, fn.param, e, Top)
<1>1. /\ Ends("argument") /\ AfterOperand /\ frames # << >> /\ Top.use = "argument" /\ Top.use \notin Statements
      /\ e.type # None => Top.conv = (fn.mode = "value" /\ fn.param = "CHAR" /\ e.type = "STRING1")
      /\ Closed(c, f, "other", FALSE, found)
  BY DEF CloseArgument, Ends, AfterOperand, Statements
<1>2. IsSound(e) /\ e \in OperandSet
  BY <1>1, EndIs
<1>3. GeneratedTo(frames, Len(frames)) <=> GeneratedTo(Below, Len(Below)) /\ fn.mode # "VAR"
  BY <1>1, BelowIs
<1>4. fn \in Functions /\ fn.mode \in {"value", "VAR"}
  BY <1>1, TopFits DEF FrameOK
<1>5. c.type # None => e.type # None /\ Equiv(fn.param, e.type)
  BY <1>2 DEF OperandSet, BadArgument
<1>6. /\ IsSound(f) /\ f.type # "STRING1"
      /\ (fn.mode = "value" => Exempt(e) \/ e.llvm = Llvm(fn.param)) => Fits(f)
  BY <1>2, <1>4, CallIs
<1>7. ASSUME c.type # None, fn.mode = "value", GeneratedTo(Below, Len(Below))
      PROVE  Exempt(e) \/ e.llvm = Llvm(fn.param)
  BY <1>1, <1>3, <1>5, <1>7, ArgumentFits
<1>8. found.use = fn.mode /\ found.target = fn.param /\ found.operand = e
  BY CompletedIs
<1> HIDE DEF c, f, e, fn, found
<1>9. c.type # None /\ GeneratedTo(Below, Len(Below)) => Fits(f)
  BY <1>6, <1>7
<1>10. c.type # None /\ GeneratedTo(Below, Len(Below)) => ResultFits(found)
  BY <1>4, <1>7, <1>8 DEF ResultFits
<1>11. IsSound(found.operand) /\ found.use # "constant"
  BY <1>2, <1>4, <1>8
<1> QED
  BY <1>1, <1>6, <1>9, <1>10, <1>11, ClosedStep

(* The expression of a declaration or a statement is generated, and a      *)
(* string in it stays one.                                                 *)
LEMMA StatementIs ==
  ASSUME Inv, NEW use \in Statements, Ends(use), NEW e, e = AfterSimple(Top)
  PROVE  IsSound(e) /\ e \in OperandSet /\ Fits(e)
<1>1. AfterOperand /\ frames # << >> /\ Top.use \in Statements
  BY DEF Ends, AfterOperand
<1>2. IsSound(e) /\ e \in OperandSet /\ (GeneratedTo(frames, Len(frames)) /\ ~Top.conv => Fits(e))
  BY <1>1, EndIs
<1>3. ~Top.conv
  <2>1. Top.use \notin {"paren", "argument"}
    BY <1>1 DEF Statements
  <2> QED
    BY <1>1, <2>1, TopFits DEF FrameOK
<1>4. Len(frames) = 1 /\ Top = frames[1]
  <2>1. Stack(frames) /\ Len(frames) \in Nat /\ Len(frames) >= 1 /\ Top = frames[Len(frames)]
    BY <1>1, TopIs
  <2>2. Links(frames, Len(frames))
    BY <2>1 DEF Stack
  <2>3. Len(frames) = 1
    BY <1>1, <2>1, <2>2 DEF Links
  <2> QED
    BY <2>1, <2>3
<1>5. GeneratedTo(frames, Len(frames))
  <2>1. \A j \in 1 .. 1 : j = 1
    OBVIOUS
  <2>2. Top.use # "argument"
    BY <1>1 DEF Statements
  <2> QED
    BY <1>4, <2>1, <2>2 DEF GeneratedTo
<1> QED
  BY <1>2, <1>3, <1>5

LEMMA StatementStep ==
  ASSUME Inv, frames # << >>, frames' = << >>, UNCHANGED << conv, rejected, factors >>,
         is_const' \in BOOLEAN, is_lvalue' \in BOOLEAN, statements' = statements + 1,
         IsSound(constant'), Fits(constant'), constant'.type # None => constant'.const,
         constant'.type = "STRING1" => Exempt(constant'),
         IsSound(result'.operand), result'.use = "constant" => result'.operand.const, ResultFits(result')
  PROVE  Inv'
<1>1. Stack(frames') /\ ~Reading(frames')
  BY EmptyStack
<1>2. statements' \in 0 .. MaxStatements
  <2>1. statements \in 0 .. MaxStatements /\ statements < MaxStatements /\ MaxStatements \in Nat
    BY BoundsAssumption DEF Inv
  <2> QED
    BY <2>1
<1>3. {is_const', is_lvalue', conv', rejected'} \subseteq BOOLEAN /\ factors' \in 0 .. MaxFactors
  BY DEF Inv
<1> QED
  BY <1>1, <1>2, <1>3 DEF Inv

LEMMA DeclaredIs ==
  ASSUME NEW e \in OperandSet, IsSound(e), e.type # None, e.const,
         NEW v, v = e.value, NEW d, d = e.odd \cup (IF Llvm(e.type) = None THEN {"untyped"} ELSE {}),
         NEW q, q = [Operand(e.type, TRUE, Llvm(e.type), FALSE, v) EXCEPT !.odd = d, !.pure = e.pure]
  PROVE  IsSound(q) /\ Fits(q) /\ q.const /\ (q.type = "STRING1" => Exempt(q))
<1> DEFINE t == e.type
           m == Llvm(t)
           p == e.pure
           o == Operand(t, TRUE, m, FALSE, v)
<1>1. t \in Types \cup {None} /\ m \in LlvmTypes /\ v \subseteq Ints /\ AtMostOne(v) /\ (v # {} => t = "INTEGER")
  BY LlvmIs DEF OperandSet, IsSound, Known
<1>2. p \in BOOLEAN /\ d \in SUBSET Oddities /\ ("index" \notin d /\ "call" \notin d => p)
  <2>1. e.odd \subseteq d /\ d \in SUBSET Oddities /\ p \in BOOLEAN
    BY DEF OperandSet, Oddities
  <2> QED
    BY <2>1 DEF IsSound, Known
<1>3. q = [o EXCEPT !.pure = p, !.odd = d]
  BY DEF Operand
<1>4. q.type = t /\ q.const = TRUE /\ q.odd = d
  BY DEF Operand
<1>5. IsSound(q)
  <2> HIDE DEF t, m, p
  <2>1. IsSound([Operand(t, TRUE, m, FALSE, v) EXCEPT !.pure = p, !.odd = d])
    BY <1>1, <1>2, OperandSound
  <2> QED
    BY <1>3, <2>1
<1>6. m = None => Exempt(q)
  <2>1. m = None => "untyped" \in d
    OBVIOUS
  <2> QED
    BY <1>4, <2>1 DEF Exempt, Unfit
<1>7. t \in {"VOID", "STRING1"} => m = None
  BY DEF Llvm
<1>8. t \notin {"VOID", "STRING1"} => Fits(q)
  <2>1. t \notin {"VOID", "STRING1"} => m = ValueType(t)
    BY ValueTypeOf
  <2> HIDE DEF t, m, p
  <2>2. ASSUME m = ValueType(t)
        PROVE  Fits([Operand(t, TRUE, m, FALSE, v) EXCEPT !.pure = p, !.odd = d])
    BY <1>2, <2>2, TaggedIs
  <2> QED
    BY <1>3, <2>1, <2>2
<1> HIDE DEF t, m, p
<1> QED
  BY <1>4, <1>5, <1>6, <1>7, <1>8 DEF Fits

LEMMA EndConstStep == ASSUME Inv, NEW place \in {"module", "procedure"}, EndConst(place) PROVE Inv'
<1> DEFINE e == AfterSimple(Top)
           v == IF e.type = "INTEGER" THEN e.value ELSE NoValue
           l == IF place = "module" /\ ~e.global /\ ~IsFailed(e.llvm) THEN Thrown ELSE e.llvm
           d == e.odd \union (IF Llvm(e.type) = None THEN {"untyped"} ELSE {})
           o == [e EXCEPT !.llvm = l, !.value = v]
<1>1. Ends("constant") /\ frames # << >> /\ "constant" \in Statements
  BY DEF EndConst, Ends, AfterOperand, Statements
<1>2. IsSound(e) /\ e \in OperandSet /\ Fits(e)
  BY <1>1, StatementIs
<1>3. CASE e.type = None \/ ~e.const
  <2>1. Reject
    BY <1>3 DEF EndConst
  <2> QED
    BY <2>1, RejectStep
<1>4. CASE e.type # None /\ e.const
  <2>1. DeclareConst(place, e)
    BY <1>4 DEF EndConst
  <2>2. /\ frames' = << >>
        /\ constant' = [Operand(e.type, TRUE, Llvm(e.type), FALSE, v) EXCEPT !.odd = d, !.pure = e.pure]
        /\ is_const' = TRUE /\ result' = Completed("constant", place, o, Top)
        /\ statements' = statements + 1 /\ UNCHANGED << is_lvalue, conv, rejected, factors >>
    BY <2>1 DEF DeclareConst
  <2> HIDE DEF e
  <2>3. v = e.value
    BY <1>2 DEF IsSound, Known, NoValue
  <2>4. IsSound(constant') /\ Fits(constant') /\ constant'.const /\ (constant'.type = "STRING1" => Exempt(constant'))
    <3> HIDE DEF v, d
    <3>1. d = e.odd \cup (IF Llvm(e.type) = None THEN {"untyped"} ELSE {})
      BY DEF d
    <3> QED
      BY <1>2, <1>4, <2>2, <2>3, <3>1, DeclaredIs
  <2>5. l \in LlvmTypes
    BY <1>2 DEF OperandSet, LlvmTypes
  <2>6. l = e.llvm \/ (place = "module" /\ ~e.global)
    OBVIOUS
  <2>7. /\ o \in OperandSet /\ o.type = e.type /\ o.const = e.const /\ o.llvm = l /\ o.global = e.global
        /\ o.value = e.value /\ o.folded = e.folded /\ o.pure = e.pure /\ o.exact = e.exact /\ o.odd = e.odd
    <3> HIDE DEF v, l
    <3> QED
      BY <1>2, <2>3, <2>5 DEF OperandSet
  <2> HIDE DEF v, l, d, o
  <2>8. IsSound(o)
    BY <1>2, <2>7 DEF IsSound, Known
  <2>9. result'.use = "constant" /\ result'.target = place /\ result'.operand = o
    BY <2>2, CompletedIs
  <2>10. ResultFits(result')
    <3>1. CASE Exempt(e)
      <4>1. Exempt(o)
        BY <2>7, <3>1 DEF Exempt
      <4> QED
        BY <2>9, <4>1 DEF ResultFits
    <3>2. CASE Llvm(e.type) = None
      BY <2>7, <2>9, <3>2 DEF ResultFits
    <3>3. CASE place = "module" /\ ~e.global
      BY <2>7, <2>9, <3>3 DEF ResultFits
    <3>4. CASE ~Exempt(e) /\ Llvm(e.type) # None /\ l = e.llvm
      <4>1. e.llvm = ValueType(e.type)
        BY <1>2, <1>4, <3>4 DEF Fits
      <4>2. e.type \notin {"VOID", "STRING1"}
        BY <3>4 DEF Llvm
      <4>3. o.llvm = Llvm(o.type)
        BY <2>7, <3>4, <4>1, <4>2, ValueTypeOf
      <4> QED
        BY <2>9, <4>3 DEF ResultFits
    <3> QED
      BY <2>6, <3>1, <3>2, <3>3, <3>4
  <2>11. is_const' \in BOOLEAN /\ is_lvalue' \in BOOLEAN
    BY <2>2 DEF Inv
  <2> QED
    BY <1>1, <1>4, <2>2, <2>4, <2>7, <2>8, <2>9, <2>10, <2>11, StatementStep
<1> QED
  BY <1>3, <1>4

LEMMA EndAssignmentStep == ASSUME Inv, NEW t \in Variables, EndAssignment(t) PROVE Inv'
<1> DEFINE e == AfterSimple(Top)
<1>1. Ends("assignment") /\ frames # << >> /\ "assignment" \in Statements
  BY DEF EndAssignment, Ends, AfterOperand, Statements
<1>2. IsSound(e) /\ e \in OperandSet /\ Fits(e)
  BY <1>1, StatementIs
<1>3. CASE e.type = None \/ ~Assignable(t, e.type)
  <2>1. Reject
    BY <1>3 DEF EndAssignment
  <2> QED
    BY <2>1, RejectStep
<1>4. CASE e.type # None /\ Assignable(t, e.type)
  <2>1. Assign(t, e)
    BY <1>4 DEF EndAssignment
  <2>2. /\ frames' = << >> /\ is_const' = FALSE /\ is_lvalue' = TRUE
        /\ result' = Completed("assignment", t, e, Top) /\ statements' = statements + 1
        /\ UNCHANGED << conv, constant, rejected, factors >>
    BY <2>1 DEF Assign
  <2> HIDE DEF e
  <2>3. result'.use = "assignment" /\ result'.target = t /\ result'.operand = e
    BY <2>2, CompletedIs
  <2>4. t \in VarTypes
    BY TextIs
  <2>5. Exempt(e) \/ e.llvm = ValueType(e.type)
    BY <1>2, <1>4 DEF Fits
  <2>6. (t = "CHAR" /\ e.type = "STRING1") \/ Llvm(t) = ValueType(e.type)
    <3>1. CASE Check(":=", t, e.type) # None
      <4>1. t = e.type \/ (t = "POINTER" /\ e.type = "VOID")
        BY <3>1, AssignmentTypes
      <4>2. ValueType("VOID") = "ptr"
        BY DEF ValueType
      <4> QED
        BY <2>4, <4>1, <4>2, VarTypeIs, LlvmOf
    <3>2. CASE Equiv(t, e.type)
      <4>1. (e.type = "STRING1" /\ t \in {"STRING", "CHAR"}) \/ t = e.type
        BY <3>2 DEF Equiv
      <4>2. ValueType("STRING1") = "ptr"
        BY DEF ValueType
      <4> QED
        BY <2>4, <4>1, <4>2, VarTypeIs, LlvmOf
    <3> QED
      BY <1>4, <3>1, <3>2 DEF Assignable
  <2>7. ResultFits(result')
    BY <2>3, <2>5, <2>6 DEF ResultFits
  <2>8. is_const' \in BOOLEAN /\ is_lvalue' \in BOOLEAN /\ result'.use # "constant"
    BY <2>2, <2>3
  <2>9. /\ IsSound(constant') /\ Fits(constant') /\ (constant'.type # None => constant'.const)
        /\ constant'.type = "STRING1" => Exempt(constant')
    BY <2>2 DEF Inv
  <2> QED
    BY <1>1, <1>2, <2>2, <2>3, <2>7, <2>8, <2>9, StatementStep
<1> QED
  BY <1>3, <1>4

LEMMA BeginStep == ASSUME Inv, NEW use \in Statements, Begin(use) PROVE Inv'
<1> DEFINE fr == Frame(use, None, FALSE)
<1>1. /\ frames = << >> /\ ~rejected /\ statements < MaxStatements
      /\ frames' = Append(<< >>, fr) /\ is_const' = is_const /\ is_lvalue' = is_lvalue /\ result' = NoResult
      /\ UNCHANGED << constant, rejected, statements, conv, factors >>
  BY DEF Begin, Open
<1>2. use \in Uses /\ use \notin {"range", "argument", "paren"}
  BY DEF Statements, Uses
<1>3. /\ FrameOK(fr) /\ fr.use = use /\ fr.conv = FALSE /\ ~fr.full
      /\ \A leads : Fitting(fr, leads)
  BY <1>2, NewFrame
<1> HIDE DEF fr
<1>4. IsSeq(<< >>) /\ Len(<< >>) = 0
  BY DEF IsSeq
<1>5. Len(frames') = 1 /\ frames'[1] = fr /\ frames' # << >>
  BY <1>1, <1>4, Appended
<1>6. FrameFits(frames', 1)
  BY <1>3, <1>5 DEF FrameFits
<1>7. Stack(frames')
  <2> DEFINE s == << >>
             t == Append(s, fr)
  <2>1. Stack(s) /\ Len(s) + 1 = 1 /\ t = frames' /\ ~(s # << >>)
    BY <1>1, <1>4, EmptyStack
  <2>2. FrameFits(t, Len(s) + 1)
    BY <1>6, <2>1
  <2> HIDE DEF s, t
  <2>3. Stack(t)
    BY <1>2, <1>3, <2>1, <2>2, Pushed DEF t
  <2> QED
    BY <2>1, <2>3
<1>8. ~Reading(frames')
  BY <1>3, <1>5 DEF Reading, Alone
<1>9. IsSound(result'.operand) /\ result'.use # "constant" /\ ResultFits(result')
  BY <1>1, NoResultIs, NoOperandSound DEF None
<1> QED
  BY <1>1, <1>5, <1>7, <1>8, <1>9 DEF Inv

-----------------------------------------------------------------------------
(* The invariant.                                                          *)

LEMMA Initially == Init => Inv
<1> SUFFICES ASSUME Init
             PROVE  Inv
  OBVIOUS
<1>1. /\ frames = << >> /\ is_const = FALSE /\ is_lvalue = FALSE /\ conv = FALSE /\ constant = NoOperand
      /\ rejected = FALSE /\ factors = 0 /\ statements = 0 /\ result = NoResult
  BY DEF Init
<1>2. MaxFactors \in Nat /\ MaxStatements \in Nat
  BY BoundsAssumption
<1>3. Stack(frames) /\ ~Reading(frames)
  BY <1>1, EmptyStack
<1>4. IsSound(constant) /\ Fits(constant) /\ constant.type = None /\ None # "STRING1"
  BY <1>1, NoOperandSound, NoOperandFits DEF None
<1>5. IsSound(result.operand) /\ result.use # "constant" /\ ResultFits(result)
  BY <1>1, NoResultIs, NoOperandSound DEF None
<1>6. factors \in 0 .. MaxFactors /\ statements \in 0 .. MaxStatements
  BY <1>1, <1>2
<1> QED
  BY <1>1, <1>3, <1>4, <1>5, <1>6 DEF Inv

LEMMA Unchanged == Inv /\ UNCHANGED vars => Inv'
<1> SUFFICES ASSUME Inv, UNCHANGED vars
             PROVE  Inv'
  OBVIOUS
<1>1. /\ frames' = frames /\ is_const' = is_const /\ is_lvalue' = is_lvalue /\ conv' = conv /\ constant' = constant
      /\ rejected' = rejected /\ factors' = factors /\ statements' = statements /\ result' = result
  BY DEF vars
<1> QED
  BY <1>1 DEF Inv

LEMMA OperandsStep == ASSUME Inv, Operands PROVE Inv'
<1>1. CASE \E n \in Literals : ParseInteger(n)
  BY <1>1, IntegerStep
<1>2. CASE \E t \in LiteralTypes : ParseLiteral(t)
  BY <1>2, LiteralStep
<1>3. CASE \E t \in Strings : ParseString(t)
  BY <1>3, StringStep
<1>4. CASE \E t \in Variables : ParseVariable(t)
  BY <1>4, VariableStep
<1>5. CASE ParseConstant
  BY <1>5, ConstantStep
<1>6. CASE \E fn \in Functions : ParseCall(fn) \/ \E c \in BOOLEAN : OpenArgument(fn, c)
  BY <1>6, CallStep, OpenArgumentStep
<1>7. CASE OpenParen \/ OpenIndex \/ OpenSet
  BY <1>7, OpenParenStep, OpenIndexStep, OpenSetStep
<1> QED
  BY <1>1, <1>2, <1>3, <1>4, <1>5, <1>6, <1>7 DEF Operands

LEMMA OperatorsStep == ASSUME Inv, Operators PROVE Inv'
<1>1. CASE ParseNot
  BY <1>1, NotStep
<1>2. CASE \E s \in {"+", "-"} : ParseSign(s)
  BY <1>2, SignStep
<1>3. CASE \E op \in MulOperators \intersect Symbols : ParseMulOperator(op)
  BY <1>3, MulStep
<1>4. CASE \E op \in AddOperators \intersect Symbols : ParseAddOperator(op)
  BY <1>4, AddStep
<1>5. CASE \E op \in Relations \intersect Symbols : ParseRelation(op)
  BY <1>5, RelationStep
<1> QED
  BY <1>1, <1>2, <1>3, <1>4, <1>5 DEF Operators

LEMMA ClosingsStep == ASSUME Inv, Closings PROVE Inv'
<1>1. CASE CloseParen \/ CloseIndex \/ CloseSet
  BY <1>1, CloseParenStep, CloseIndexStep, CloseSetStep
<1>2. CASE ParseRange \/ CloseRange
  BY <1>2, RangeStep, CloseRangeStep
<1>3. CASE CloseArgument
  BY <1>3, CloseArgumentStep
<1>4. CASE \E place \in {"module", "procedure"} : EndConst(place)
  BY <1>4, EndConstStep
<1>5. CASE \E t \in Variables : EndAssignment(t)
  BY <1>5, EndAssignmentStep
<1> QED
  BY <1>1, <1>2, <1>3, <1>4, <1>5 DEF Closings

LEMMA Inductive == Inv /\ [Next]_vars => Inv'
<1> SUFFICES ASSUME Inv, [Next]_vars
             PROVE  Inv'
  OBVIOUS
<1>1. CASE UNCHANGED vars
  BY <1>1, Unchanged
<1>2. CASE ParseConst \/ ParseAssignment
  <2>1. PICK use \in {"constant", "assignment"} : Begin(use)
    BY <1>2 DEF ParseConst, ParseAssignment
  <2>2. use \in Statements
    BY DEF Statements
  <2> QED
    BY <2>1, <2>2, BeginStep
<1>3. CASE Operands
  BY <1>3, OperandsStep
<1>4. CASE Operators
  BY <1>4, OperatorsStep
<1>5. CASE Closings
  BY <1>5, ClosingsStep
<1> QED
  BY <1>1, <1>2, <1>3, <1>4, <1>5 DEF Next

(* What the invariant says of the properties.                              *)

LEMMA SoundOperand ==
  ASSUME NEW o, IsSound(o)
  PROVE  IsOperand(o)
<1>1. o \in OperandSet /\ AtMostOne(o.value)
  BY DEF IsSound, Known
<1>2. o.value \subseteq MinInt .. MaxInt /\ o.type \in Types \cup {None}
      /\ o.const \in BOOLEAN /\ o.global \in BOOLEAN /\ o.pure \in BOOLEAN
  BY <1>1 DEF OperandSet, Ints
<1>3. Cardinality(o.value) <= 1
  BY <1>1, Single
<1> QED
  BY <1>2, <1>3 DEF IsOperand

LEMMA FramesAre ==
  ASSUME Inv, NEW i \in DOMAIN frames
  PROVE  /\ i \in 1 .. Len(frames) /\ Links(frames, i) /\ FrameOK(frames[i])
         /\ \A o \in OperandsOf(frames[i]) : IsSound(o)
<1>1. i \in 1 .. Len(frames) /\ Links(frames, i)
  BY DEF Inv, Stack, IsSeq
<1>2. FrameOK(frames[i])
  BY <1>1 DEF Links
<1> QED
  BY <1>1, <1>2 DEF FrameOK, OperandsOf

LEMMA Typed == Inv => TypeOK
<1> SUFFICES ASSUME Inv
             PROVE  TypeOK
  OBVIOUS
<1>1. ASSUME NEW i \in DOMAIN frames
      PROVE  /\ (i = 1) = (frames[i].use \in {"constant", "assignment"})
             /\ \A o \in OperandsOf(frames[i]) : IsOperand(o)
             /\ frames[i].full => frames[i].mul = None /\ ~frames[i].not
             /\ i < Len(frames) => ~frames[i].full
  <2>1. Links(frames, i) /\ FrameOK(frames[i]) /\ \A o \in OperandsOf(frames[i]) : IsSound(o)
    BY FramesAre
  <2>2. \A o \in OperandsOf(frames[i]) : IsOperand(o)
    BY <2>1, SoundOperand
  <2>3. frames[i].full => frames[i].mul = None /\ ~frames[i].not
    BY <2>1 DEF FrameOK
  <2> QED
    BY <2>1, <2>2, <2>3 DEF Links, Statements
<1>2. IsOperand(constant) /\ IsOperand(result.operand)
  BY SoundOperand DEF Inv
<1>3. {is_const, is_lvalue, conv, rejected} \subseteq BOOLEAN
      /\ factors \in 0 .. MaxFactors /\ statements \in 0 .. MaxStatements
  BY DEF Inv
<1> QED
  BY <1>1, <1>2, <1>3 DEF TypeOK

LEMMA Agreeing == Inv => ConstantsAgree
<1> SUFFICES ASSUME Inv, NEW o \in AllOperands
             PROVE  /\ o.global => {AsInteger(p) : p \in o.folded} = o.value
                    /\ o.value # NoValue /\ o.odd \intersect {"wrap", "floor"} = {} => o.value = o.exact
  BY DEF ConstantsAgree
<1>1. IsSound(o)
  <2>1. CASE o = result.operand
    BY <2>1 DEF Inv
  <2>2. CASE \E i \in DOMAIN frames : o \in OperandsOf(frames[i])
    BY <2>2, FramesAre
  <2> QED
    BY <2>1, <2>2 DEF AllOperands
<1>2. ASSUME o.global
      PROVE  {AsInteger(p) : p \in o.folded} = o.value
  <2>1. o.folded = Patterns(o.value) /\ o.value \subseteq Ints
    BY <1>1, <1>2 DEF IsSound, Known, OperandSet
  <2>2. \A v \in o.value : AsInteger(Pattern(v)) = v
    BY <2>1, PatternIs
  <2> QED
    BY <2>1, <2>2 DEF Patterns
<1>3. o.value # NoValue /\ o.odd \intersect {"wrap", "floor"} = {} => o.value = o.exact
  BY <1>1 DEF IsSound, Known, NoValue
<1> QED
  BY <1>2, <1>3

LEMMA Constants == Inv => ConstantsConstant
<1> SUFFICES ASSUME Inv
             PROVE  ConstantsConstant
  OBVIOUS
<1>1. IsSound(result.operand) /\ (result.use = "constant" => result.operand.const)
      /\ (constant.type # None => constant.const)
  BY DEF Inv
<1> QED
  BY <1>1 DEF ConstantsConstant, IsSound, Known

LEMMA Fit == Inv => GeneratedFits
<1> SUFFICES ASSUME Inv, Generated
             PROVE  GeneratedFits
  BY DEF GeneratedFits
<1>1. GeneratedTo(frames, Len(frames))
  BY DEF Inv, Stack, IsSeq, Generated, GeneratedTo
<1>2. ResultFits(result)
  BY <1>1 DEF Inv
<1>3. Exempt(result.operand) =>
        result.operand.odd \intersect Unfit # {} \/ "index" \in result.operand.odd
  BY DEF Exempt
<1> QED
  BY <1>2, <1>3 DEF ResultFits, GeneratedFits, Expected

(* The frames are nested as the text is, and what the inspector and the    *)
(* generator hold of an operand is of its kind: at most one constant, which*)
(* an INTEGER can hold.                                                    *)
THEOREM TypeCorrect == Spec => []TypeOK
<1>1. Spec => []Inv
  BY Initially, Inductive, PTL DEF Spec
<1> QED
  BY <1>1, Typed, PTL

(* The constant that the generator folds is the one that eval_const_int of *)
(* the inspector computes, whatever the text and the width of an INTEGER,  *)
(* and it is the value of the report unless a step overflowed, had a       *)
(* negative divisor or rounded a negative quotient.                        *)
THEOREM FoldersAgree == Spec => []ConstantsAgree
<1>1. Spec => []Inv
  BY Initially, Inductive, PTL DEF Spec
<1> QED
  BY <1>1, Agreeing, PTL

(* What is_const leaves of an accepted CONST declaration: no variable is in*)
(* its text, but in an index or an argument.                               *)
THEOREM ConstantsAreConstant == Spec => []ConstantsConstant
<1>1. Spec => []Inv
  BY Initially, Inductive, PTL DEF Spec
<1> QED
  BY <1>1, Constants, PTL

(* The value that the generator stores, passes or makes a constant of has  *)
(* the LLVM type that the inspector's type asks for, in every text, but for*)
(* the named differences.                                                  *)
THEOREM GeneratedTypesFit == Spec => []GeneratedFits
<1>1. Spec => []Inv
  BY Initially, Inductive, PTL DEF Spec
<1> QED
  BY <1>1, Fit, PTL
=============================================================================
