------------------------------ MODULE DataLemmas -----------------------------
(***************************************************************************)
(* Facts about data that the proofs about the modules share: about numbers,*)
(* sets and sequences, and about the operators of SymbolTables.  Induction *)
(* over the natural numbers has a set in the place of a predicate; it is   *)
(* used where the code walks along pointers, stacks or text.               *)
(***************************************************************************)
EXTENDS SymbolTables, FiniteSetTheorems, SequencesExt, SequenceTheorems, TLAPS

(* A set of natural numbers has a least element.                           *)
LEMMA Least ==
  ASSUME NEW S, S \subseteq Nat, S # {}
  PROVE  \E m \in S : \A k \in S : m <= k
<1>1. IsWellFoundedOn(OpToRel(<, Nat), Nat)
  BY NatLessThanWellFounded
<1>2. PICK m \in S : \A k \in S : << k, m >> \notin OpToRel(<, Nat)
  BY <1>1, WFMin
<1>3. ASSUME NEW k \in S
      PROVE  m <= k
  <2>1. << k, m >> \in Nat \X Nat
    OBVIOUS
  <2>2. ~(k < m)
    BY <1>2, <2>1 DEF OpToRel
  <2> QED
    BY <2>2
<1> QED
  BY <1>3

(* A bounded set of natural numbers has a greatest element.                *)
LEMMA Greatest ==
  ASSUME NEW S, S # {}, NEW n \in Nat, S \subseteq 0 .. n
  PROVE  \E m \in S : \A k \in S : k <= m
<1> DEFINE T == {n - k : k \in S}
<1>1. T \subseteq Nat /\ T # {}
  <2>1. \A k \in S : n - k \in Nat
    OBVIOUS
  <2> QED
    BY <2>1
<1> HIDE DEF T
<1>2. PICK t \in T : \A u \in T : t <= u
  BY <1>1, Least
<1>3. PICK m \in S : t = n - m
  BY DEF T
<1>4. ASSUME NEW k \in S
      PROVE  k <= m
  <2>1. n - k \in T
    BY DEF T
  <2>2. t <= n - k
    BY <1>2, <2>1
  <2> QED
    BY <1>3, <2>2
<1> QED
  BY <1>4

(* A set with 0 and the successor of each of its numbers has them all.     *)
LEMMA SetInduction ==
  ASSUME NEW S, 0 \in S, \A n \in S \cap Nat : n + 1 \in S
  PROVE  Nat \subseteq S
<1> SUFFICES ASSUME Nat \ S # {}
             PROVE  FALSE
  OBVIOUS
<1>1. PICK m \in Nat \ S : \A k \in Nat \ S : m <= k
  BY Least
<1>2. m # 0 /\ m - 1 \in Nat
  BY <1>1
<1>3. m - 1 \in S
  <2>1. m - 1 \notin S => m <= m - 1
    BY <1>1, <1>2
  <2> QED
    BY <2>1
<1>4. (m - 1) + 1 \in S
  BY <1>2, <1>3
<1> QED
  BY <1>1, <1>2, <1>4

-----------------------------------------------------------------------------
(* Sequences as functions.                                                 *)

LEMMA AppendAt ==
  ASSUME NEW S, NEW s \in Seq(S), NEW e \in S
  PROVE  Append(s, e) = [k \in 1 .. Len(s) + 1 |-> IF k = Len(s) + 1 THEN e ELSE s[k]]
<1> DEFINE A == Append(s, e)
<1>1. A \in Seq(S) /\ Len(A) = Len(s) + 1
  OBVIOUS
<1>2. \A k \in 1 .. Len(s) + 1 : A[k] = IF k = Len(s) + 1 THEN e ELSE s[k]
  OBVIOUS
<1> HIDE DEF A
<1>3. A = [k \in 1 .. Len(s) + 1 |-> A[k]]
  BY <1>1
<1> QED
  BY <1>2, <1>3 DEF A

(* SetToSeq enumerates a finite set.                                       *)
LEMMA Enumerated ==
  ASSUME NEW S, IsFiniteSet(S)
  PROVE  /\ SetToSeq(S) \in Seq(S)
         /\ Range(SetToSeq(S)) = S
         /\ Len(SetToSeq(S)) = Cardinality(S)
<1> DEFINE n == Cardinality(S)
           f == SetToSeq(S)
<1>1. n \in Nat /\ ExistsBijection(1 .. n, S)
  BY FS_CardinalityType
<1>2. \E g \in [1 .. n -> S] : IsInjective(g)
  BY <1>1 DEF ExistsBijection, Bijection, Injection
<1>3. f \in [1 .. n -> S] /\ IsInjective(f)
  BY <1>2 DEF SetToSeq
<1> HIDE DEF f
<1>4. f \in Injection(1 .. n, S)
  BY <1>3 DEF Injection
<1>5. Cardinality(1 .. n) = n
  BY <1>1, FS_Interval
<1>6. f \in Surjection(1 .. n, S)
  BY <1>4, <1>5, FS_Injection
<1>7. Range(f) = S
  BY <1>3, <1>6 DEF Surjection, Range
<1>8. f \in Seq(S) /\ Len(f) = n
  BY <1>1, <1>3
<1> QED
  BY <1>7, <1>8 DEF f
-----------------------------------------------------------------------------
(* Sequences of anything.                                                  *)

IsSeq(s) == Len(s) \in Nat /\ s = [k \in 1 .. Len(s) |-> s[k]]

Values(s) == {s[k] : k \in 1 .. Len(s)}

LEMMA SeqOfValues ==
  ASSUME NEW s, IsSeq(s), NEW S, Values(s) \subseteq S
  PROVE  s \in Seq(S)
<1>1. s \in [1 .. Len(s) -> S]
  BY DEF IsSeq, Values
<1> QED
  BY <1>1 DEF IsSeq

LEMMA SeqIsSeq ==
  ASSUME NEW S, NEW s \in Seq(S)
  PROVE  IsSeq(s)
<1>1. Len(s) \in Nat /\ s \in [1 .. Len(s) -> S]
  OBVIOUS
<1> QED
  BY <1>1 DEF IsSeq

LEMMA Appended ==
  ASSUME NEW s, IsSeq(s), NEW e
  PROVE  /\ IsSeq(Append(s, e))
         /\ Len(Append(s, e)) = Len(s) + 1
         /\ Append(s, e)[Len(s) + 1] = e
         /\ \A k \in 1 .. Len(s) : Append(s, e)[k] = s[k]
<1> DEFINE S == Values(s) \cup {e}
<1>1. s \in Seq(S)
  BY SeqOfValues
<1>2. e \in S
  OBVIOUS
<1> HIDE DEF S
<1>3. /\ Append(s, e) \in Seq(S)
      /\ Len(Append(s, e)) = Len(s) + 1
      /\ Append(s, e)[Len(s) + 1] = e
      /\ \A k \in 1 .. Len(s) : Append(s, e)[k] = s[k]
  BY <1>1, <1>2, AppendProperties
<1>4. IsSeq(Append(s, e))
  BY <1>3, SeqIsSeq
<1> QED
  BY <1>3, <1>4

LEMMA Joined ==
  ASSUME NEW s, IsSeq(s), NEW t, IsSeq(t)
  PROVE  /\ IsSeq(s \o t)
         /\ Len(s \o t) = Len(s) + Len(t)
         /\ \A k \in 1 .. Len(s) : (s \o t)[k] = s[k]
         /\ \A k \in 1 .. Len(t) : (s \o t)[Len(s) + k] = t[k]
<1> DEFINE S == Values(s) \cup Values(t)
<1>1. s \in Seq(S) /\ t \in Seq(S)
  BY SeqOfValues
<1> HIDE DEF S
<1>2. /\ s \o t \in Seq(S)
      /\ Len(s \o t) = Len(s) + Len(t)
      /\ \A k \in 1 .. Len(s) + Len(t) :
            (s \o t)[k] = IF k <= Len(s) THEN s[k] ELSE t[k - Len(s)]
  BY <1>1, ConcatProperties
<1>3. Len(s) \in Nat /\ Len(t) \in Nat
  BY DEF IsSeq
<1>4. ASSUME NEW k \in 1 .. Len(s)
      PROVE  (s \o t)[k] = s[k]
  BY <1>2, <1>3
<1>5. ASSUME NEW k \in 1 .. Len(t)
      PROVE  (s \o t)[Len(s) + k] = t[k]
  <2>1. /\ Len(s) + k \in 1 .. Len(s) + Len(t)
        /\ ~(Len(s) + k <= Len(s))
        /\ Len(s) + k - Len(s) = k
    BY <1>3
  <2> QED
    BY <1>2, <2>1
<1>6. IsSeq(s \o t)
  BY <1>2, SeqIsSeq
<1> QED
  BY <1>2, <1>4, <1>5, <1>6

LEMMA Fronted ==
  ASSUME NEW s, IsSeq(s), Len(s) >= 1
  PROVE  /\ IsSeq(SubSeq(s, 1, Len(s) - 1))
         /\ Len(SubSeq(s, 1, Len(s) - 1)) = Len(s) - 1
         /\ \A k \in 1 .. Len(s) - 1 : SubSeq(s, 1, Len(s) - 1)[k] = s[k]
<1> DEFINE S == Values(s)
           n == Len(s) - 1
<1>1. n \in Nat /\ \A k \in 1 .. n : s[k] \in S
  BY DEF IsSeq, Values
<1> HIDE DEF S
<1>2. /\ SubSeq(s, 1, n) \in Seq(S)
      /\ Len(SubSeq(s, 1, n)) = IF 1 <= n THEN n - 1 + 1 ELSE 0
      /\ \A k \in 1 .. n - 1 + 1 : SubSeq(s, 1, n)[k] = s[1 + k - 1]
  BY <1>1, SubSeqProperties
<1>3. /\ Len(SubSeq(s, 1, n)) = n
      /\ \A k \in 1 .. n : SubSeq(s, 1, n)[k] = s[k]
  <2> HIDE DEF n
  <2>1. n - 1 + 1 = n /\ \A k \in 1 .. n : 1 + k - 1 = k
    BY <1>1
  <2> QED
    BY <1>1, <1>2, <2>1
<1>4. IsSeq(SubSeq(s, 1, n))
  BY <1>2, SeqIsSeq
<1> QED
  BY <1>3, <1>4

-----------------------------------------------------------------------------
(* What the operators of SymbolTables do to any record s that stands for a *)
(* symbol table: which tables a lookup visits, what it finds, and what     *)
(* each operation leaves alone.                                            *)


(* Every next leads to an older table, and the current table exists.       *)
WellLinked(s) ==
    /\ Len(s.tables) \in Nat
    /\ DOMAIN s.tables = 1 .. Len(s.tables)
    /\ \A i \in 1 .. Len(s.tables) : s.tables[i].next \in 0 .. i - 1
    /\ s.current \in 1 .. Len(s.tables)

(* The next pointers from the current table are the open frames.           *)
Nested(s) ==
    /\ WellLinked(s)
    /\ Len(s.stack) \in Nat \ {0}
    /\ \A k \in 1 .. Len(s.stack) : s.stack[k] \in 1 .. Len(s.tables)
    /\ s.current = s.stack[Len(s.stack)]
    /\ s.tables[s.stack[1]].next = 0
    /\ \A k \in 2 .. Len(s.stack) : s.tables[s.stack[k]].next = s.stack[k - 1]

-----------------------------------------------------------------------------
(* The recursion in Chain.                                                 *)

IsChain(C, m, next) ==
    C = [i \in 0 .. m |-> IF i = 0 THEN << >> ELSE << i >> \o C[next[i]]]

LEMMA ChainExists ==
  ASSUME NEW N \in Nat, NEW next, \A i \in 1 .. N : next[i] \in 0 .. i - 1
  PROVE  \E C : IsChain(C, N, next)
<1> DEFINE M == {m \in Nat : m <= N => \E C : IsChain(C, m, next)}
<1>1. 0 \in M
  <2> DEFINE C == [i \in 0 .. 0 |-> << >>]
  <2>1. IsChain(C, 0, next)
    BY DEF IsChain
  <2> QED
    BY <2>1
<1>2. ASSUME NEW m \in M \cap Nat
      PROVE  m + 1 \in M
  <2> SUFFICES ASSUME m + 1 <= N
               PROVE  \E C : IsChain(C, m + 1, next)
    OBVIOUS
  <2>1. PICK C : IsChain(C, m, next)
    OBVIOUS
  <2> DEFINE D == [i \in 0 .. m + 1 |->
                     IF i = m + 1 THEN << i >> \o C[next[i]] ELSE C[i]]
             E == [i \in 0 .. m + 1 |->
                     IF i = 0 THEN << >> ELSE << i >> \o D[next[i]]]
  <2>2. ASSUME NEW i \in 0 .. m + 1
        PROVE  D[i] = E[i]
    <3>1. i # 0 => next[i] \in 0 .. m /\ D[next[i]] = C[next[i]]
      OBVIOUS
    <3>2. i \in 0 .. m => C[i] = IF i = 0 THEN << >> ELSE << i >> \o C[next[i]]
      BY <2>1 DEF IsChain
    <3> QED
      BY <3>1, <3>2
  <2>3. D = E
    BY <2>2
  <2>4. IsChain(D, m + 1, next)
    BY <2>3 DEF IsChain
  <2> QED
    BY <2>4
<1> HIDE DEF M
<1>3. N \in M
  BY <1>1, <1>2, SetInduction
<1> QED
  BY <1>3 DEF M

LEMMA ChainUnfolds ==
  ASSUME NEW s, WellLinked(s)
  PROVE  \E C : /\ Chain(s) = C[s.current]
                /\ C[0] = << >>
                /\ \A i \in 1 .. Len(s.tables) :
                     C[i] = << i >> \o C[s.tables[i].next]
<1> DEFINE N    == Len(s.tables)
           next == [i \in 1 .. N |-> s.tables[i].next]
           C    == CHOOSE C : C = [i \in 0 .. N |->
                     IF i = 0 THEN << >> ELSE << i >> \o C[s.tables[i].next]]
<1>1. N \in Nat /\ \A i \in 1 .. N : next[i] \in 0 .. i - 1
  BY DEF WellLinked
<1> HIDE DEF next
<1>2. PICK D : IsChain(D, N, next)
  BY <1>1, ChainExists
<1>3. D = [i \in 0 .. N |->
             IF i = 0 THEN << >> ELSE << i >> \o D[s.tables[i].next]]
  <2>1. D = [i \in 0 .. N |-> IF i = 0 THEN << >> ELSE << i >> \o D[next[i]]]
    BY <1>2 DEF IsChain
  <2>2. ASSUME NEW i \in 0 .. N
        PROVE  i # 0 => next[i] = s.tables[i].next
    BY <1>1 DEF next
  <2> QED
    BY <2>1, <2>2
<1>4. C = [i \in 0 .. N |->
             IF i = 0 THEN << >> ELSE << i >> \o C[s.tables[i].next]]
  BY <1>3
<1>5. Chain(s) = C[s.current]
  BY DEF Chain
<1> HIDE DEF C
<1>6. 0 \in 0 .. N /\ \A i \in 1 .. N : i \in 0 .. N /\ i # 0
  BY <1>1
<1>7. C[0] = << >>
  BY <1>4, <1>6
<1>8. \A i \in 1 .. N : C[i] = << i >> \o C[s.tables[i].next]
  BY <1>4, <1>6
<1> QED
  BY <1>5, <1>7, <1>8

(* A lookup starts at the current table and visits tables that exist.      *)
LEMMA ChainTables ==
  ASSUME NEW s, WellLinked(s)
  PROVE  /\ Chain(s) \in Seq(1 .. Len(s.tables))
         /\ Len(Chain(s)) \in Nat \ {0}
         /\ Chain(s)[1] = s.current
<1>1. PICK C : /\ Chain(s) = C[s.current]
               /\ C[0] = << >>
               /\ \A i \in 1 .. Len(s.tables) :
                     C[i] = << i >> \o C[s.tables[i].next]
  BY ChainUnfolds
<1> DEFINE N == Len(s.tables)
           M == {m \in Nat : \A i \in 0 .. m : i <= N => C[i] \in Seq(1 .. N)}
<1>2. N \in Nat
  BY DEF WellLinked
<1>3. 0 \in M
  <2>1. C[0] \in Seq(1 .. N)
    BY <1>1
  <2>2. \A i \in 0 .. 0 : i = 0
    OBVIOUS
  <2> QED
    BY <2>1, <2>2
<1>4. ASSUME NEW m \in M \cap Nat
      PROVE  m + 1 \in M
  <2> SUFFICES ASSUME NEW i \in 0 .. m + 1, i <= N
               PROVE  C[i] \in Seq(1 .. N)
    OBVIOUS
  <2>1. CASE i = m + 1
    <3>1. i \in 1 .. N /\ s.tables[i].next \in 0 .. m /\ s.tables[i].next <= N
      BY <1>2, <2>1 DEF WellLinked
    <3>2. C[s.tables[i].next] \in Seq(1 .. N)
      BY <3>1
    <3>3. C[i] = << i >> \o C[s.tables[i].next]
      BY <1>1, <3>1
    <3> HIDE DEF N
    <3> QED
      BY <3>1, <3>2, <3>3
  <2>2. CASE i # m + 1
    <3>1. i \in 0 .. m
      BY <2>2
    <3> QED
      BY <3>1
  <2> QED
    BY <2>1, <2>2
<1> HIDE DEF M
<1>5. \A m \in Nat : m <= N => C[m] \in Seq(1 .. N)
  <2>1. Nat \subseteq M
    BY <1>3, <1>4, SetInduction
  <2> QED
    BY <2>1 DEF M
<1>6. s.current \in 1 .. N /\ s.tables[s.current].next \in Nat /\ s.tables[s.current].next <= N
  BY <1>2 DEF WellLinked
<1>7. C[s.tables[s.current].next] \in Seq(1 .. N)
  BY <1>5, <1>6
<1>8. Chain(s) = << s.current >> \o C[s.tables[s.current].next]
  BY <1>1, <1>6
<1> HIDE DEF N
<1>9. /\ Chain(s) \in Seq(1 .. N)
      /\ Len(Chain(s)) \in Nat \ {0}
      /\ Chain(s)[1] = s.current
  <2> DEFINE one  == << s.current >>
             rest == C[s.tables[s.current].next]
  <2>1. one \in Seq(1 .. N) /\ Len(one) = 1 /\ one[1] = s.current
    BY <1>6
  <2>2. rest \in Seq(1 .. N) /\ Chain(s) = one \o rest
    BY <1>7, <1>8, Zenon
  <2> HIDE DEF one, rest
  <2>5. Len(rest) \in Nat
    BY <2>2
  <2>3. /\ one \o rest \in Seq(1 .. N)
        /\ Len(one \o rest) = 1 + Len(rest)
        /\ \A i \in 1 .. 1 + Len(rest) : (one \o rest)[i] = IF i <= 1 THEN one[i] ELSE rest[i - 1]
    <3>1. /\ one \o rest \in Seq(1 .. N)
          /\ Len(one \o rest) = Len(one) + Len(rest)
          /\ \A i \in 1 .. Len(one) + Len(rest) :
                (one \o rest)[i] = IF i <= Len(one) THEN one[i] ELSE rest[i - Len(one)]
      BY <2>1, <2>2, ConcatProperties, Zenon
    <3> QED
      BY <2>1, <3>1, Zenon
  <2>4. 1 + Len(rest) \in Nat \ {0} /\ 1 \in 1 .. 1 + Len(rest)
    BY <2>5
  <2> QED
    BY <2>1, <2>2, <2>3, <2>4
<1> QED
  BY <1>9 DEF N

(* When the frames nest, these are the open frames, innermost first.       *)
LEMMA ChainIsStack ==
  ASSUME NEW s, Nested(s)
  PROVE  Chain(s) = [k \in 1 .. Len(s.stack) |-> s.stack[Len(s.stack) + 1 - k]]
<1>1. PICK C : /\ Chain(s) = C[s.current]
               /\ C[0] = << >>
               /\ \A i \in 1 .. Len(s.tables) :
                     C[i] = << i >> \o C[s.tables[i].next]
  BY ChainUnfolds DEF Nested
<1> DEFINE L == Len(s.stack)
           Outward(m) == [k \in 1 .. m |-> s.stack[m + 1 - k]]
           M == {m \in Nat : m + 1 <= L => C[s.stack[m + 1]] = Outward(m + 1)}
<1>2. /\ L \in Nat \ {0}
      /\ Len(s.tables) \in Nat
      /\ \A k \in 1 .. L : s.stack[k] \in 1 .. Len(s.tables)
      /\ s.current = s.stack[L]
  BY DEF Nested, WellLinked
<1>3. 0 \in M
  <2> DEFINE i == s.stack[1]
  <2>1. s.tables[i].next = 0 /\ i \in 1 .. Len(s.tables)
    BY <1>2 DEF Nested
  <2>2. C[i] = << i >> \o << >>
    BY <1>1, <2>1
  <2>3. C[i] = << i >>
    BY <2>1, <2>2
  <2>4. Outward(1) = << i >>
    <3>1. \A k \in 1 .. 1 : Outward(1)[k] = i
      OBVIOUS
    <3> QED
      BY <3>1
  <2> QED
    BY <2>3, <2>4
<1>4. ASSUME NEW m \in M \cap Nat
      PROVE  m + 1 \in M
  <2> SUFFICES ASSUME m + 2 <= L
               PROVE  C[s.stack[m + 2]] = Outward(m + 2)
    <3>1. (m + 1) + 1 = m + 2
      OBVIOUS
    <3> QED
      BY <3>1
  <2> DEFINE i == s.stack[m + 2]
  <2>1. m + 1 \in 1 .. L /\ m + 2 \in 2 .. L /\ m + 2 \in 1 .. L
    BY <1>2
  <2>2. C[s.stack[m + 1]] = Outward(m + 1)
    BY <2>1
  <2>3. i \in 1 .. Len(s.tables) /\ s.tables[i].next = s.stack[m + 1]
    <3>1. (m + 2) - 1 = m + 1
      OBVIOUS
    <3> QED
      BY <1>2, <2>1, <3>1 DEF Nested
  <2>4. C[i] = << i >> \o Outward(m + 1)
    <3>1. C[i] = << i >> \o C[s.tables[i].next]
      BY <1>1, <2>3
    <3>2. s.tables[i].next = s.stack[m + 1]
      BY <2>3
    <3> HIDE DEF i, Outward
    <3> QED
      BY <2>2, <3>1, <3>2
  <2>5. Outward(m + 1) \in Seq(1 .. Len(s.tables)) /\ Len(Outward(m + 1)) = m + 1
    <3>1. \A k \in 1 .. m + 1 : (m + 1) + 1 - k \in 1 .. L
      BY <2>1
    <3>2. Outward(m + 1) \in [1 .. m + 1 -> 1 .. Len(s.tables)]
      BY <1>2, <3>1
    <3> QED
      BY <3>2
  <2> DEFINE S == << i >> \o Outward(m + 1)
  <2>6. S = [k \in 1 .. m + 2 |-> S[k]]
    BY <2>3, <2>5
  <2>7. ASSUME NEW k \in 1 .. m + 2
        PROVE  S[k] = Outward(m + 2)[k]
    <3>1. CASE k = 1
      BY <2>3, <2>5, <3>1
    <3>2. CASE k # 1
      <4>1. k - 1 \in 1 .. m + 1 /\ (m + 1) + 1 - (k - 1) = m + 2 + 1 - k
        BY <3>2
      <4>2. S[k] = Outward(m + 1)[k - 1]
        BY <2>3, <2>5, <3>2
      <4> QED
        BY <4>1, <4>2
    <3> QED
      BY <3>1, <3>2
  <2> HIDE DEF S
  <2>8. S = Outward(m + 2)
    BY <2>6, <2>7
  <2> QED
    BY <2>4, <2>8 DEF S
<1> HIDE DEF M
<1>5. L - 1 \in M
  BY <1>2, <1>3, <1>4, SetInduction
<1>6. C[s.current] = Outward(L)
  <2>1. (L - 1) + 1 = L
    BY <1>2
  <2>2. (L - 1) + 1 <= L => C[s.stack[(L - 1) + 1]] = Outward((L - 1) + 1)
    BY <1>5 DEF M
  <2> QED
    BY <1>2, <2>1, <2>2
<1> QED
  BY <1>1, <1>6

-----------------------------------------------------------------------------
(* What a lookup finds.                                                    *)

LEMMA FoundSomewhere ==
  ASSUME NEW s, WellLinked(s), NEW n, Found(s, n)
  PROVE  /\ Definer(s, n) \in 1 .. Len(s.tables)
         /\ n \in DOMAIN s.tables[Definer(s, n)].syms
<1> DEFINE H == Hits(s, n)
<1>1. H # {} /\ H \subseteq Nat
  BY ChainTables DEF Found, Hits
<1>2. \E k \in H : \A j \in H : k <= j
  BY <1>1, Least
<1>3. Nearest(H) \in H
  BY <1>2 DEF Nearest
<1>4. /\ Nearest(H) \in DOMAIN Chain(s)
      /\ n \in DOMAIN s.tables[Chain(s)[Nearest(H)]].syms
  BY <1>3 DEF Hits
<1> QED
  BY <1>4, ChainTables DEF Definer

(* What the current table holds is found there.                            *)
LEMMA FoundHere ==
  ASSUME NEW s, WellLinked(s), NEW n, n \in DOMAIN s.tables[s.current].syms
  PROVE  /\ Found(s, n)
         /\ Lookup(s, n) = s.tables[s.current].syms[n]
<1> DEFINE H == Hits(s, n)
<1>1. 1 \in H /\ \A j \in H : j \in Nat /\ 1 <= j
  BY ChainTables DEF Hits
<1>2. \E k \in H : \A j \in H : k <= j
  BY <1>1
<1>3. Nearest(H) \in H /\ \A j \in H : Nearest(H) <= j
  BY <1>2 DEF Nearest
<1>4. Nearest(H) = 1
  BY <1>1, <1>3
<1>5. Definer(s, n) = s.current
  BY <1>4, ChainTables DEF Definer
<1> QED
  BY <1>1, <1>5 DEF Found, Lookup

(* The positions on the stack of the frames that hold n, and the innermost *)
(* of them.                                                                *)
Holding(s, n) == {k \in 1 .. Len(s.stack) : n \in DOMAIN s.tables[s.stack[k]].syms}

InnermostHolding(s, n) ==
    CHOOSE k \in Holding(s, n) : \A j \in Holding(s, n) : j <= k

(* Scoping: when the frames nest, the table that is found is the innermost *)
(* open frame that holds the name, and the tables passed on the way are    *)
(* the frames inside it.                                                   *)
LEMMA FoundInnermost ==
  ASSUME NEW s, Nested(s), NEW n
  PROVE  /\ Found(s, n) <=> Holding(s, n) # {}
         /\ Found(s, n) =>
               /\ InnermostHolding(s, n) \in Holding(s, n)
               /\ \A k \in Holding(s, n) : k <= InnermostHolding(s, n)
               /\ Definer(s, n) = s.stack[InnermostHolding(s, n)]
               /\ {Chain(s)[k] : k \in 1 .. Nearest(Hits(s, n)) - 1} =
                    {s.stack[k] : k \in InnermostHolding(s, n) + 1 .. Len(s.stack)}
<1> DEFINE L == Len(s.stack)
           H == Hits(s, n)
           D == Holding(s, n)
<1>1. /\ L \in Nat \ {0}
      /\ \A k \in 1 .. L : s.stack[k] \in 1 .. Len(s.tables)
  BY DEF Nested
<1>2. DOMAIN Chain(s) = 1 .. L /\ \A k \in 1 .. L : Chain(s)[k] = s.stack[L + 1 - k]
  BY ChainIsStack
<1>3. D = {k \in 1 .. L : n \in DOMAIN s.tables[s.stack[k]].syms}
  BY DEF Holding
<1>4. H = {k \in 1 .. L : n \in DOMAIN s.tables[s.stack[L + 1 - k]].syms}
  BY <1>2 DEF Hits
<1>5. \A k \in 1 .. L : L + 1 - k \in 1 .. L /\ L + 1 - (L + 1 - k) = k
  BY <1>1
<1> HIDE DEF D, H
<1>6. \A k \in 1 .. L : k \in H <=> L + 1 - k \in D
  BY <1>3, <1>4, <1>5
<1>7. Found(s, n) <=> D # {}
  <2>1. Found(s, n) <=> H # {}
    BY DEF Found, H
  <2> QED
    BY <2>1, <1>3, <1>4, <1>5, <1>6
<1>8. ASSUME Found(s, n)
      PROVE  /\ InnermostHolding(s, n) \in D
             /\ \A k \in D : k <= InnermostHolding(s, n)
             /\ Definer(s, n) = s.stack[InnermostHolding(s, n)]
             /\ {Chain(s)[k] : k \in 1 .. Nearest(H) - 1} =
                    {s.stack[k] : k \in InnermostHolding(s, n) + 1 .. L}
  <2> DEFINE I == InnermostHolding(s, n)
             J == Nearest(H)
  <2>1. I \in D /\ \A k \in D : k <= I
    <3>1. D \subseteq 0 .. L /\ L \in Nat /\ D # {}
      BY <1>1, <1>3, <1>7, <1>8
    <3>2. \E m \in D : \A k \in D : k <= m
      BY <3>1, Greatest
    <3> QED
      BY <3>2 DEF InnermostHolding, D
  <2>2. J \in H /\ \A k \in H : J <= k
    <3>1. H \subseteq Nat /\ H # {}
      <4>1. H \subseteq Nat
        BY <1>4
      <4>2. H # {}
        BY <1>8 DEF Found, H
      <4> QED
        BY <4>1, <4>2
    <3>2. \E m \in H : \A k \in H : m <= k
      BY <3>1, Least
    <3> QED
      BY <3>2 DEF Nearest
  <2> HIDE DEF I, J
  <2>3. I \in 1 .. L /\ J \in 1 .. L
    BY <1>3, <1>4, <2>1, <2>2
  <2>4. J = L + 1 - I
    <3>1. L + 1 - I \in H /\ L + 1 - J \in D
      BY <1>5, <1>6, <2>1, <2>2, <2>3
    <3>2. J <= L + 1 - I /\ L + 1 - J <= I
      BY <2>1, <2>2, <3>1
    <3>3. I \in Nat /\ J \in Nat /\ L \in Nat
      BY <1>1, <2>3
    <3> QED
      BY ONLY <3>2, <3>3
  <2>5. Definer(s, n) = s.stack[I]
    <3>1. Definer(s, n) = Chain(s)[J]
      BY DEF Definer, H, J
    <3>2. L + 1 - J = I
      BY <1>1, <2>3, <2>4
    <3> QED
      BY <1>2, <2>3, <3>1, <3>2
  <2>6. {Chain(s)[k] : k \in 1 .. J - 1} = {s.stack[k] : k \in I + 1 .. L}
    <3>1. ASSUME NEW k \in 1 .. J - 1
          PROVE  Chain(s)[k] \in {s.stack[j] : j \in I + 1 .. L}
      <4>1. k \in 1 .. L /\ L + 1 - k \in I + 1 .. L
        BY <1>1, <2>3, <2>4
      <4> QED
        BY <1>2, <4>1
    <3>2. ASSUME NEW k \in I + 1 .. L
          PROVE  s.stack[k] \in {Chain(s)[j] : j \in 1 .. J - 1}
      <4>1. L + 1 - k \in 1 .. J - 1 /\ L + 1 - k \in 1 .. L /\ L + 1 - (L + 1 - k) = k
        BY <1>1, <2>3, <2>4
      <4>2. Chain(s)[L + 1 - k] = s.stack[k]
        BY <1>2, <4>1
      <4> QED
        BY <4>1, <4>2
    <3> QED
      BY <3>1, <3>2
  <2> QED
    BY <2>1, <2>5, <2>6 DEF I, J
<1> QED
  BY <1>7, <1>8 DEF D, H

-----------------------------------------------------------------------------
(* What the operations leave alone.                                        *)

(* t is s with other symbols and free variables in the same tables.        *)
SameFrames(s, t) ==
    /\ t.map = s.map /\ t.stack = s.stack /\ t.current = s.current
    /\ t = [tables |-> t.tables, map |-> t.map, stack |-> t.stack, current |-> t.current]
    /\ DOMAIN t.tables = DOMAIN s.tables
    /\ t.tables = [i \in DOMAIN t.tables |-> t.tables[i]]
    /\ Len(t.tables) = Len(s.tables)
    /\ \A i \in DOMAIN s.tables : t.tables[i].next = s.tables[i].next

IsTable(s) ==
    /\ s = [tables |-> s.tables, map |-> s.map, stack |-> s.stack, current |-> s.current]
    /\ Len(s.tables) \in Nat
    /\ DOMAIN s.tables = 1 .. Len(s.tables)
    /\ s.tables = [i \in DOMAIN s.tables |-> s.tables[i]]

LEMMA SameFramesTrans ==
  ASSUME NEW s, NEW t, NEW u, SameFrames(s, t), SameFrames(t, u)
  PROVE  SameFrames(s, u)
BY DEF SameFrames

LEMMA LenOfDomain ==
  ASSUME NEW f, NEW n \in Nat, f = [k \in 1 .. n |-> f[k]]
  PROVE  Len(f) = n
<1> DEFINE S == {f[k] : k \in 1 .. n}
<1>1. f \in [1 .. n -> S]
  OBVIOUS
<1> HIDE DEF S
<1>2. f \in Seq(S)
  BY <1>1
<1> QED
  BY <1>1, <1>2

LEMMA WithTablesFrames ==
  ASSUME NEW s, IsTable(s), NEW T, T = [i \in DOMAIN s.tables |-> T[i]],
         \A i \in DOMAIN s.tables : T[i].next = s.tables[i].next
  PROVE  /\ SameFrames(s, WithTables(s, T))
         /\ WithTables(s, T).tables = T
<1>1. /\ WithTables(s, T).tables = T
      /\ WithTables(s, T).map = s.map
      /\ WithTables(s, T).stack = s.stack
      /\ WithTables(s, T).current = s.current
      /\ WithTables(s, T) = [tables |-> T, map |-> s.map, stack |-> s.stack, current |-> s.current]
  BY DEF WithTables
<1>2. Len(T) = Len(s.tables)
  BY LenOfDomain DEF IsTable
<1> QED
  BY <1>1, <1>2 DEF SameFrames

LEMMA WithSymsFrames ==
  ASSUME NEW s, IsTable(s), NEW i, NEW b
  PROVE  /\ SameFrames(s, WithSyms(s, i, b))
         /\ \A j \in DOMAIN s.tables :
               /\ WithSyms(s, i, b).tables[j].syms = IF j = i THEN b ELSE s.tables[j].syms
               /\ WithSyms(s, i, b).tables[j].free = s.tables[j].free
<1> DEFINE T == [s.tables EXCEPT ![i] = [syms |-> b, next |-> @.next, free |-> @.free]]
<1>1. T = [j \in DOMAIN s.tables |-> T[j]]
  OBVIOUS
<1>2. ASSUME NEW j \in DOMAIN s.tables
      PROVE  /\ T[j].syms = IF j = i THEN b ELSE s.tables[j].syms
             /\ T[j].next = s.tables[j].next
             /\ T[j].free = s.tables[j].free
  <2>1. CASE j = i
    <3>1. T[j] = [syms |-> b, next |-> s.tables[j].next, free |-> s.tables[j].free]
      BY <2>1
    <3> QED
      BY <2>1, <3>1
  <2>2. CASE j # i
    <3>1. T[j] = s.tables[j]
      BY <2>2
    <3> QED
      BY <2>2, <3>1
  <2> QED
    BY <2>1, <2>2
<1>3. WithSyms(s, i, b) = WithTables(s, T)
  BY DEF WithSyms
<1> HIDE DEF T
<1>4. \A j \in DOMAIN s.tables : T[j].next = s.tables[j].next
  BY <1>2
<1>5. SameFrames(s, WithTables(s, T)) /\ WithTables(s, T).tables = T
  BY <1>1, <1>4, WithTablesFrames
<1> QED
  BY <1>2, <1>3, <1>5

LEMMA WithFreeFrames ==
  ASSUME NEW s, IsTable(s), NEW free
  PROVE  /\ SameFrames(s, WithFree(s, free))
         /\ \A j \in DOMAIN s.tables :
               /\ WithFree(s, free).tables[j].syms = s.tables[j].syms
               /\ WithFree(s, free).tables[j].free = free[j]
<1> DEFINE T == [j \in DOMAIN s.tables |->
                   [syms |-> s.tables[j].syms, next |-> s.tables[j].next, free |-> free[j]]]
<1>1. T = [j \in DOMAIN s.tables |-> T[j]]
  OBVIOUS
<1>2. ASSUME NEW j \in DOMAIN s.tables
      PROVE  /\ T[j].syms = s.tables[j].syms
             /\ T[j].next = s.tables[j].next
             /\ T[j].free = free[j]
  OBVIOUS
<1>3. WithFree(s, free) = WithTables(s, T)
  BY DEF WithFree
<1> HIDE DEF T
<1>4. SameFrames(s, WithTables(s, T)) /\ WithTables(s, T).tables = T
  BY <1>1, <1>2, WithTablesFrames
<1> QED
  BY <1>2, <1>3, <1>4

(* A lookup binds nothing, and records nothing but its name.               *)
LEMMA MarkFreeFrames ==
  ASSUME NEW s, IsTable(s), NEW n
  PROVE  /\ SameFrames(s, MarkFree(s, n))
         /\ \A j \in DOMAIN s.tables :
               /\ MarkFree(s, n).tables[j].syms = s.tables[j].syms
               /\ MarkFree(s, n).tables[j].free \subseteq s.tables[j].free \cup {n}
<1>1. CASE ~Found(s, n)
  <2>1. MarkFree(s, n) = s
    BY <1>1 DEF MarkFree
  <2> QED
    BY <2>1 DEF SameFrames, IsTable
<1>2. CASE Found(s, n)
  <2> DEFINE passed == {Chain(s)[k] : k \in 1 .. Nearest(Hits(s, n)) - 1}
             free == [j \in DOMAIN s.tables |->
                        s.tables[j].free \cup (IF j \in passed THEN {n} ELSE {})]
  <2>1. MarkFree(s, n) = WithFree(s, free)
    BY <1>2 DEF MarkFree
  <2>2. \A j \in DOMAIN s.tables : free[j] \subseteq s.tables[j].free \cup {n}
    OBVIOUS
  <2> HIDE DEF free
  <2> QED
    BY <2>1, <2>2, WithFreeFrames
<1> QED
  BY <1>1, <1>2

LEMMA ResetFreeFrames ==
  ASSUME NEW s, IsTable(s)
  PROVE  /\ SameFrames(s, ResetFree(s))
         /\ \A j \in DOMAIN s.tables :
               /\ ResetFree(s).tables[j].syms = s.tables[j].syms
               /\ ResetFree(s).tables[j].free \subseteq s.tables[j].free
<1> DEFINE chain == {Chain(s)[k] : k \in DOMAIN Chain(s)}
           free == [j \in DOMAIN s.tables |-> IF j \in chain THEN {} ELSE s.tables[j].free]
<1>1. ResetFree(s) = WithFree(s, free)
  BY DEF ResetFree
<1>2. \A j \in DOMAIN s.tables : free[j] \subseteq s.tables[j].free
  OBVIOUS
<1> HIDE DEF free
<1> QED
  BY <1>1, <1>2, WithFreeFrames
=============================================================================
