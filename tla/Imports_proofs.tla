---------------------------- MODULE Imports_proofs --------------------------
(***************************************************************************)
(* Theorems about Imports, for any compilers, modules and texts: first     *)
(* about the definition files, where what a compiler makes of a definition *)
(* plays no role; then about names, from the inspector that reads a        *)
(* definition to the generator that reads it again.                        *)
(***************************************************************************)
EXTENDS ImportRules, DataLemmas

(***************************************************************************)
(* What FoldLeft computes for the two folds of Imports, told apart by      *)
(* kind: the chain of partial results from x, one for each element of the  *)
(* sequence s.  The community modules define the fold by recursion over    *)
(* the subsets of the domain; that such a function exists has to be        *)
(* proved.                                                                 *)
(***************************************************************************)
Fold(kind, x, d) == IF kind = "print" THEN Printed(x, d) ELSE VisitDeclaration(x, d)

IsIter(kind, f, x, s, D) ==
  f = [t \in SUBSET D |-> IF t = {} THEN x ELSE Fold(kind, f[t \ {Max(t)}], s[Max(t)])]

Iter(kind, x, s) == CHOOSE f : IsIter(kind, f, x, s, DOMAIN s)

(* The result after k elements. *)
Partial(kind, x, s, k) == Iter(kind, x, s)[1 .. k]

LEMMA MaxOf ==
  ASSUME NEW n \in Nat, NEW t, t \subseteq 1 .. n, t # {}
  PROVE  Max(t) \in t /\ \A k \in t : k <= Max(t)
<1>1. t \subseteq 0 .. n
  OBVIOUS
<1>2. \E m \in t : \A k \in t : k <= m
  BY <1>1, Greatest
<1>3. \E m \in t : \A k \in t : m >= k
  BY <1>2
<1>4. Max(t) \in t /\ \A k \in t : Max(t) >= k
  BY <1>3 DEF Max
<1> QED
  BY <1>4

(* The function on the subsets of 1 .. n extends to those of 1 .. n + 1.   *)
LEMMA IterExtends ==
  ASSUME NEW kind, NEW x, NEW s, NEW n \in Nat, NEW f, IsIter(kind, f, x, s, 1 .. n)
  PROVE  \E g : IsIter(kind, g, x, s, 1 .. n + 1)
<1> DEFINE m == n + 1
           g == [t \in SUBSET (1 .. m) |-> IF m \in t THEN Fold(kind, f[t \ {m}], s[m]) ELSE f[t]]
<1>1. ASSUME NEW t \in SUBSET (1 .. m)
      PROVE  g[t] = IF t = {} THEN x ELSE Fold(kind, g[t \ {Max(t)}], s[Max(t)])
  <2>1. CASE m \in t
    <3>1. Max(t) = m
      <4>1. m \in Nat /\ t # {} /\ t \subseteq 1 .. m
        BY <2>1
      <4>2. Max(t) \in t /\ \A k \in t : k <= Max(t)
        BY <4>1, MaxOf
      <4>3. Max(t) \in 1 .. m /\ m <= Max(t)
        BY <2>1, <4>2
      <4> QED
        BY <4>3
    <3>2. t \ {m} \in SUBSET (1 .. m) /\ m \notin t \ {m}
      OBVIOUS
    <3>3. g[t \ {m}] = f[t \ {m}]
      BY <3>2
    <3> QED
      BY <2>1, <3>1, <3>3
  <2>2. CASE m \notin t
    <3>1. t \in SUBSET (1 .. n)
      BY <2>2
    <3>2. f[t] = IF t = {} THEN x ELSE Fold(kind, f[t \ {Max(t)}], s[Max(t)])
      BY <3>1 DEF IsIter
    <3>3. t \ {Max(t)} \in SUBSET (1 .. m) /\ m \notin t \ {Max(t)}
      BY <2>2
    <3>4. g[t] = f[t] /\ g[t \ {Max(t)}] = f[t \ {Max(t)}]
      BY <2>2, <3>3
    <3> QED
      BY <3>2, <3>4
  <2> QED
    BY <2>1, <2>2
<1>2. g = [t \in SUBSET (1 .. m) |-> g[t]]
  OBVIOUS
<1> HIDE DEF g
<1>3. g = [t \in SUBSET (1 .. m) |-> IF t = {} THEN x ELSE Fold(kind, g[t \ {Max(t)}], s[Max(t)])]
  BY <1>1, <1>2
<1> QED
  BY <1>3 DEF IsIter

LEMMA IterExists ==
  ASSUME NEW kind, NEW x, NEW s, NEW n \in Nat
  PROVE  \E f : IsIter(kind, f, x, s, 1 .. n)
<1> DEFINE S == {m \in Nat : \E f : IsIter(kind, f, x, s, 1 .. m)}
<1>1. 0 \in S
  <2> DEFINE f == [t \in SUBSET (1 .. 0) |-> x]
  <2>1. \A t \in SUBSET (1 .. 0) : t = {}
    OBVIOUS
  <2>2. f = [t \in SUBSET (1 .. 0) |-> IF t = {} THEN x ELSE Fold(kind, f[t \ {Max(t)}], s[Max(t)])]
    BY <2>1
  <2>3. IsIter(kind, f, x, s, 1 .. 0)
    BY <2>2 DEF IsIter
  <2> QED
    BY <2>3
<1>2. \A m \in S \cap Nat : m + 1 \in S
  BY IterExtends
<1> HIDE DEF S
<1>3. n \in S
  BY <1>1, <1>2, SetInduction
<1> QED
  BY <1>3 DEF S

(* The chain of partial results.                                           *)
LEMMA StartAt ==
  ASSUME NEW kind, NEW x, NEW s, NEW n \in Nat, DOMAIN s = 1 .. n
  PROVE  Partial(kind, x, s, 0) = x
<1> DEFINE f == Iter(kind, x, s)
<1>1. IsIter(kind, f, x, s, 1 .. n)
  BY IterExists DEF Iter
<1> HIDE DEF f
<1>2. 1 .. 0 = {} /\ 1 .. 0 \in SUBSET (1 .. n)
  OBVIOUS
<1>3. f[1 .. 0] = x
  BY <1>1, <1>2 DEF IsIter
<1> QED
  BY <1>3 DEF f, Partial

LEMMA StepAt ==
  ASSUME NEW kind, NEW x, NEW s, NEW n \in Nat, DOMAIN s = 1 .. n, NEW k \in 1 .. n
  PROVE  Partial(kind, x, s, k) = Fold(kind, Partial(kind, x, s, k - 1), s[k])
<1> DEFINE f == Iter(kind, x, s)
<1>1. IsIter(kind, f, x, s, 1 .. n)
  BY IterExists DEF Iter
<1> HIDE DEF f
<1>2. k \in Nat /\ 1 <= k /\ k <= n
  OBVIOUS
<1>3. 1 .. k \in SUBSET (1 .. n) /\ 1 .. k # {} /\ k \in 1 .. k
  <2>1. k \in 1 .. k
    BY <1>2
  <2>2. 1 .. k \subseteq 1 .. n
    BY <1>2
  <2> QED
    BY <2>1, <2>2
<1>4. Max(1 .. k) = k
  <2>1. Max(1 .. k) \in 1 .. k /\ k <= Max(1 .. k)
    BY <1>2, <1>3, MaxOf
  <2> QED
    BY <2>1
<1>5. (1 .. k) \ {k} = 1 .. k - 1
  OBVIOUS
<1>6. f[1 .. k] = Fold(kind, f[1 .. k - 1], s[k])
  BY <1>1, <1>3, <1>4, <1>5 DEF IsIter
<1> QED
  BY <1>6 DEF f, Partial

-----------------------------------------------------------------------------
(* Definition files.                                                       *)

Kinds == {"const", "type", "var", "proc"}

(* Only the last line of a definition is END, and none is a hole. *)
WellFormed(lines) ==
    /\ lines \in Seq(Range(lines)) /\ lines # << >>
    /\ \A i \in DOMAIN lines : lines[i] # Hole /\ (lines[i] = End <=> i = Len(lines))

(* The definition of a text has its exported declarations, and an end.     *)
LEMMA DefinitionPrinted ==
    ASSUME NEW m \in Modules, NEW t \in Texts[m]
    PROVE  /\ WellFormed(Definition(t))
           /\ \A i \in 1 .. Len(Definition(t)) - 1 :
                Definition(t)[i] \in Range(t.decs) /\ Exported(Definition(t)[i])
<1> DEFINE E == {d \in Range(t.decs) : Exported(d)}
           n == Len(t.decs)
<1>1. IsText(t) /\ t.decs \in Seq(Range(t.decs)) /\ n \in Nat /\ DOMAIN t.decs = 1 .. n
  <2>1. IsText(t)
    BY TextsAssumption
  <2>2. t.decs \in Seq(Range(t.decs))
    BY <2>1 DEF IsText, IsList
  <2>3. QED
    BY <2>1, <2>2
<1>0. PICK e : e = [k \in 0 .. n |-> Partial("print", << >>, t.decs, k)]
  OBVIOUS
<1>2. e[0] = << >> /\ \A k \in 1 .. n : e[k] = Printed(e[k - 1], t.decs[k])
  <2>1. \A k \in 1 .. n : k - 1 \in 0 .. n /\ k \in 0 .. n
    BY <1>1
  <2>2. /\ Partial("print", << >>, t.decs, 0) = << >>
        /\ \A k \in 1 .. n : Partial("print", << >>, t.decs, k) = Printed(Partial("print", << >>, t.decs, k - 1), t.decs[k])
    <3>1. Partial("print", << >>, t.decs, 0) = << >>
      BY <1>1, StartAt
    <3>2. ASSUME NEW k \in 1 .. n
          PROVE  Partial("print", << >>, t.decs, k) = Fold("print", Partial("print", << >>, t.decs, k - 1), t.decs[k])
      BY <1>1, StepAt
    <3>3. QED
      BY <3>1, <3>2 DEF Fold
  <2>3. e[0] = << >>
    BY <1>0, <1>1, <2>2
  <2>4. QED
    BY <1>0, <2>1, <2>2, <2>3
<1>3. Definition(t) = Append(e[n], End)
  <2>1. FoldLeft(Printed, << >>, t.decs) = Partial("print", << >>, t.decs, n)
    BY <1>1 DEF FoldLeft, MapThenFoldSet, Max, Partial, Iter, IsIter, Fold
  <2>2. n \in 0 .. n
    BY <1>1
  <2>3. QED
    BY <1>0, <2>1, <2>2 DEF Definition
<1> HIDE DEF E
<1>4. e[n] \in Seq(E)
  <2> DEFINE S == {k \in Nat : k <= n => e[k] \in Seq(E)}
  <2>1. 0 \in S
    <3>1. << >> \in Seq(E)
      OBVIOUS
    <3>2. e[0] \in Seq(E)
      BY <1>2, <3>1
    <3>3. QED
      BY <3>2
  <2>2. ASSUME NEW k \in S \cap Nat PROVE k + 1 \in S
    <3> SUFFICES ASSUME k + 1 <= n PROVE e[k + 1] \in Seq(E)
      OBVIOUS
    <3>1. k + 1 \in 1 .. n /\ (k + 1) - 1 = k /\ e[k] \in Seq(E)
      BY <1>1
    <3>2. e[k + 1] = Printed(e[k], t.decs[k + 1])
      BY <1>2, <3>1
    <3>3. t.decs[k + 1] \in Range(t.decs)
      BY <1>1, <3>1 DEF Range
    <3>4. QED
      BY <3>1, <3>2, <3>3 DEF Printed, E
  <2> HIDE DEF S
  <2>3. n \in S
    BY <1>1, <2>1, <2>2, SetInduction
  <2>4. QED
    BY <1>1, <2>3 DEF S
<1>5. PICK f : f = e[n] /\ f \in Seq(E)
  BY <1>4
<1>6. \A d \in E : d \in Range(t.decs) /\ Exported(d) /\ d # End /\ d # Hole
  <2>1. \A d \in Range(t.decs) : d.kind \in Kinds
    BY <1>1 DEF IsText, Kinds
  <2>2. End.kind = "END" /\ Hole.kind = "hole"
    BY DEF End, Hole, Declaration
  <2>3. QED
    BY <2>1, <2>2 DEF E, Kinds
<1>7. End # Hole
  BY DEF End, Hole, Declaration
<1> DEFINE D == Append(f, End)
<1>8. /\ Len(f) \in Nat /\ D \in Seq(E \union {End}) /\ Len(D) = Len(f) + 1 /\ D[Len(f) + 1] = End
      /\ \A i \in 1 .. Len(f) : D[i] = f[i] /\ f[i] \in E
  BY <1>5
<1>9. Definition(t) = D
  BY <1>3, <1>5
<1> HIDE DEF D
<1>10. WellFormed(D)
  <2>1. D \in Seq(Range(D))
    <3>1. \A i \in 1 .. Len(D) : D[i] \in Range(D)
      BY <1>8 DEF Range
    <3>2. QED
      BY <1>8, <3>1
  <2>2. D # << >> /\ DOMAIN D = 1 .. Len(f) + 1
    BY <1>8
  <2>3. \A i \in 1 .. Len(f) + 1 : D[i] # Hole /\ (D[i] = End <=> i = Len(f) + 1)
    BY <1>6, <1>7, <1>8
  <2>4. QED
    BY <1>8, <2>1, <2>2, <2>3 DEF WellFormed
<1>11. \A i \in 1 .. Len(D) - 1 : D[i] \in Range(t.decs) /\ Exported(D[i])
  BY <1>6, <1>8
<1>12. QED
  BY <1>9, <1>10, <1>11

IsJob(j) ==
    /\ j = [module |-> j.module, text |-> j.text, in |-> j.in, pos |-> j.pos,
            cache |-> j.cache, read |-> j.read, globals |-> j.globals]
    /\ j.pos \in Nat

Shape ==
    /\ phase = [c \in Compilers |-> phase[c]]
    /\ job = [c \in Compilers |-> job[c]]
    /\ \A c \in Compilers : IsJob(job[c])
    /\ files = [m \in DOMAIN files |-> files[m]]
    /\ DOMAIN files \subseteq Modules

(* A compiler works on a text of its module, and those that work on one    *)
(* module on one text.                                                     *)
Working ==
    /\ \A c \in Compilers : Running(c) => job[c].module \in Modules /\ job[c].text \in Texts[job[c].module]
    /\ \A c, d \in Compilers :
         Running(c) /\ Running(d) /\ job[c].module = job[d].module => job[c].text = job[d].text

Writes(c, m) == phase[c] = "write" /\ job[c].module = m
Opened ==
    \A c \in Compilers : phase[c] = "write" =>
      job[c].module \in DOMAIN files /\ job[c].pos <= Len(Definition(job[c].text))

(* A file holds what there is of the definition of one text, the text of   *)
(* every compiler that writes it; and where a line is missing, a compiler  *)
(* has yet to write it.                                                    *)
FileOf(m, t) ==
    /\ files[m] \in Seq(Range(files[m])) /\ Len(files[m]) <= Len(Definition(t))
    /\ \A i \in 1 .. Len(files[m]) : files[m][i] \in {Hole, Definition(t)[i]}
    /\ \A c \in Compilers : Writes(c, m) => job[c].text = t
    /\ \A i \in 1 .. Len(Definition(t)) :
         (i > Len(files[m]) \/ files[m][i] = Hole) => \E c \in Compilers : Writes(c, m) /\ job[c].pos < i
FilesGrow == \A m \in DOMAIN files : \E t \in Texts[m] : FileOf(m, t)

ReadWhole(j) == \A m \in DOMAIN j.read : Defines(m, Append(j.read[m], End))

IInv == Shape /\ Working /\ Opened /\ FilesGrow /\ ImportsWhole

-----------------------------------------------------------------------------
(* A file that can be parsed holds a whole definition up to its END.       *)
LEMMA ReadableWhole ==
    ASSUME NEW m \in Modules, NEW t \in Texts[m], FileOf(m, t), Readable(files[m])
    PROVE  Append(Parsed(files[m]), End) = Definition(t)
<1> DEFINE f == files[m]
           D == Definition(t)
           n == LineOfEnd(f)
<1>1. WellFormed(D)
  BY DefinitionPrinted
<1>2. D \in Seq(Range(D)) /\ f \in Seq(Range(f)) /\ Len(D) \in Nat /\ Len(f) \in Nat /\ Len(D) >= 1
  BY <1>1 DEF FileOf, WellFormed
<1>3. End # Hole
  BY DEF End, Hole, Declaration
<1>4. \A i \in 1 .. Len(f) : f[i] = End => i = Len(D)
  BY <1>1, <1>2, <1>3 DEF FileOf, WellFormed
<1>5. \E k \in 1 .. Len(f) + 1 : /\ k \in DOMAIN f => f[k] = End
                                /\ \A i \in 1 .. k - 1 : f[i] # End
  <2>1. CASE Len(D) \in DOMAIN f /\ f[Len(D)] = End
    <3>1. Len(D) \in 1 .. Len(f) + 1 /\ \A i \in 1 .. Len(D) - 1 : f[i] # End
      BY <2>1, <1>2, <1>4
    <3>2. QED
      BY <3>1, <2>1
  <2>2. CASE ~(Len(D) \in DOMAIN f /\ f[Len(D)] = End)
    <3>1. Len(f) + 1 \in 1 .. Len(f) + 1 /\ Len(f) + 1 \notin DOMAIN f
      BY <1>2
    <3>2. \A i \in 1 .. (Len(f) + 1) - 1 : f[i] # End
      BY <2>2, <1>2, <1>4
    <3>3. QED
      BY <3>1, <3>2
  <2>3. QED
    BY <2>1, <2>2
<1>6. n \in 1 .. Len(f) + 1 /\ (n \in DOMAIN f => f[n] = End)
  BY <1>5 DEF LineOfEnd
<1>7. n = Len(D) /\ n \in 1 .. Len(f)
  BY <1>2, <1>4, <1>6 DEF Readable
<1>8. \A i \in 1 .. n - 1 : f[i] = D[i]
  BY <1>2, <1>7 DEF Readable, NoHole, FileOf
<1> DEFINE p == Parsed(f)
<1>9. p \in Seq(Range(f)) /\ Len(p) = n - 1 /\ \A i \in 1 .. n - 1 : p[i] = f[i]
  BY <1>2, <1>7 DEF Parsed
<1> DEFINE r == Append(p, End)
<1>10. r \in Seq(Range(f) \union {End}) /\ Len(r) = n /\ r[n] = End /\ \A i \in 1 .. n - 1 : r[i] = D[i]
  BY <1>2, <1>7, <1>8, <1>9
<1>11. D[n] = End
  BY <1>1, <1>2, <1>7 DEF WellFormed
<1> HIDE DEF r, D, f, p, n
<1>12. \A i \in 1 .. n : r[i] = D[i]
  BY <1>10, <1>11, <1>7, <1>2
<1>13. r = D
  BY <1>2, <1>7, <1>10, <1>12
<1>14. QED
  BY <1>13 DEF r, D, p, f

(* A step of one compiler that writes nothing.                             *)
LEMMA QuietStep ==
    ASSUME IInv, NEW c \in Compilers, NEW p, NEW j,
           Running(c), p # "write",
           phase[c] = "write" => job[c].pos = Len(Definition(job[c].text)),
           phase' = [phase EXCEPT ![c] = p], job' = [job EXCEPT ![c] = j], UNCHANGED files,
           IsJob(j), ReadWhole(j), j.module = job[c].module, j.text = job[c].text
    PROVE  IInv'
<1> USE DEF IInv
<1>1. /\ phase'[c] = p /\ job'[c] = j
      /\ \A d \in Compilers : d # c => phase'[d] = phase[d] /\ job'[d] = job[d]
      /\ \A d \in Compilers : job'[d].module = job[d].module /\ job'[d].text = job[d].text
      /\ \A d \in Compilers : Running(d)' => Running(d)
      /\ \A d \in Compilers : phase'[d] = "write" => phase[d] = "write" /\ job'[d] = job[d]
  BY DEF Shape, Running
<1>2. Shape'
  BY <1>1 DEF Shape
<1>3. Working'
  BY <1>1 DEF Working
<1>4. Opened'
  BY <1>1 DEF Opened
<1>5. FilesGrow'
  <2> SUFFICES ASSUME NEW m \in DOMAIN files
               PROVE  \E t \in Texts[m] : FileOf(m, t)'
    BY DEF FilesGrow
  <2>1. PICK t \in Texts[m] : FileOf(m, t)
    BY DEF FilesGrow
  <2>2. \A d \in Compilers : Writes(d, m)' => Writes(d, m)
    BY <1>1 DEF Writes
  <2>3. ASSUME NEW i \in 1 .. Len(Definition(t)), i > Len(files[m]) \/ files[m][i] = Hole
        PROVE  \E d \in Compilers : Writes(d, m)' /\ job'[d].pos < i
    <3>1. PICK d \in Compilers : Writes(d, m) /\ job[d].pos < i
      BY <2>1, <2>3 DEF FileOf
    <3>2. d # c
      <4>1. SUFFICES ASSUME d = c PROVE FALSE
        OBVIOUS
      <4>2. job[d].text = t
        BY <3>1, <2>1 DEF FileOf
      <4>3. Len(Definition(t)) < i /\ Len(Definition(t)) \in Nat
        BY <4>1, <4>2, <3>1, DefinitionPrinted DEF Writes, WellFormed, Shape
      <4>4. QED
        BY <4>3, <2>3
    <3>3. QED
      BY <3>1, <3>2, <1>1 DEF Writes
  <2>4. FileOf(m, t)'
    BY <2>1, <2>2, <2>3, <1>1 DEF FileOf
  <2>5. QED
    BY <2>4
<1>6. ImportsWhole'
  BY <1>1 DEF ImportsWhole, ReadWhole, Defines
<1>7. QED
  BY <1>2, <1>3, <1>4, <1>5, <1>6

(* What find_module adds to the definitions read is a whole one.           *)
LEMMA KeptWhole ==
    ASSUME IInv, NEW c \in Compilers, NEW r, Running(c),
           NEW found, found = Find(c, r), ~found.thrown
    PROVE  LET j == Kept(c, r, found)
           IN  IsJob(j) /\ ReadWhole(j) /\ j.module = job[c].module /\ j.text = job[c].text /\ j.pos = job[c].pos
<1>1. IsJob(job[c]) /\ ReadWhole(job[c])
  BY DEF IInv, Shape, ImportsWhole, ReadWhole
<1>2. CASE Cached(c, r)
  BY <1>1, <1>2 DEF Kept
<1>3. CASE ~Cached(c, r)
  <2>1. r \in DOMAIN files /\ Readable(files[r])
    <3>1. NotFound.thrown
      BY DEF NotFound, Inspector
    <3>2. QED
      BY <1>3, <3>1 DEF Find
  <2>2. Defines(r, Append(Parsed(files[r]), End))
    <3>1. PICK t \in Texts[r] : FileOf(r, t)
      BY <2>1 DEF IInv, FilesGrow
    <3>2. r \in Modules
      BY <2>1 DEF IInv, Shape
    <3>3. QED
      BY <2>1, <3>1, <3>2, ReadableWhole DEF Defines
  <2> DEFINE j == Kept(c, r, found)
  <2>3. j = [job[c] EXCEPT !.cache = Remember(@, r, found.symbols), !.read = Remember(@, r, Parsed(files[r]))]
    BY <1>3 DEF Kept
  <2> HIDE DEF j
  <2>4. /\ IsJob(j) /\ j.module = job[c].module /\ j.text = job[c].text /\ j.pos = job[c].pos
        /\ j.read = Remember(job[c].read, r, Parsed(files[r]))
    BY <1>1, <2>3 DEF IsJob
  <2>5. ReadWhole(j)
    BY <1>1, <2>2, <2>4 DEF ReadWhole, Remember
  <2>6. QED
    BY <2>4, <2>5 DEF j
<1>4. QED
  BY <1>2, <1>3

LEMMA StopStep ==
    ASSUME IInv, NEW c \in Compilers, NEW p, p # "write", Running(c), phase[c] # "write",
           Stop(c, p), UNCHANGED files
    PROVE  IInv'
<1> DEFINE j == [job[c] EXCEPT !.globals = {}]
<1>1. IsJob(job[c]) /\ ReadWhole(job[c])
  BY DEF IInv, Shape, ImportsWhole, ReadWhole
<1>2. IsJob(j) /\ ReadWhole(j) /\ j.module = job[c].module /\ j.text = job[c].text
  BY <1>1 DEF IsJob, ReadWhole
<1>3. phase' = [phase EXCEPT ![c] = p] /\ job' = [job EXCEPT ![c] = j]
  BY DEF Stop, Goto
<1> HIDE DEF j
<1>4. QED
  BY <1>2, <1>3, QuietStep

-----------------------------------------------------------------------------
LEMMA InitInv == Init => IInv
<1> SUFFICES ASSUME Init PROVE IInv
  OBVIOUS
<1>1. IsJob(NoJob) /\ NoJob.read = << >>
  BY DEF NoJob, Job, IsJob
<1>2. \A c \in Compilers : job[c] = NoJob /\ phase[c] = "idle"
  BY DEF Init
<1>3. files = << >> /\ DOMAIN files = {}
  BY DEF Init
<1>4. Shape
  <2>1. files = [m \in DOMAIN files |-> files[m]]
    BY <1>3
  <2>2. QED
    BY <1>1, <1>2, <1>3, <2>1 DEF Shape, Init
<1>5. Working /\ Opened
  BY <1>2 DEF Working, Opened, Running
<1>6. FilesGrow
  BY <1>3 DEF FilesGrow
<1>7. ImportsWhole
  BY <1>1, <1>2 DEF ImportsWhole
<1>8. QED
  BY <1>4, <1>5, <1>6, <1>7 DEF IInv

LEMMA BeginStep ==
    ASSUME IInv, NEW c \in Compilers, NEW m \in Modules, NEW text \in Texts[m], Begin(c, m, text)
    PROVE  IInv'
<1> USE DEF IInv
<1> DEFINE j == Job(m, text, Inspector(SymbolsOf(m, text), {}))
<1>1. /\ phase' = [phase EXCEPT ![c] = "import"] /\ job' = [job EXCEPT ![c] = j] /\ UNCHANGED files
      /\ \A d \in Compilers : Running(d) /\ job[d].module = m => job[d].text = text
      /\ ~Running(c)
  BY DEF Begin
<1>2. IsJob(j) /\ j.module = m /\ j.text = text /\ j.read = << >>
  BY DEF Job, IsJob
<1> HIDE DEF j
<1>3. /\ phase'[c] = "import" /\ job'[c] = j
      /\ \A d \in Compilers : d # c => phase'[d] = phase[d] /\ job'[d] = job[d]
      /\ \A d \in Compilers : d # c => (Running(d)' <=> Running(d))
      /\ phase[c] # "write"
  BY <1>1 DEF Shape, Running
<1>4. Shape'
  BY <1>1, <1>2, <1>3 DEF Shape
<1>5. Working'
  BY <1>1, <1>2, <1>3 DEF Working
<1>6. Opened'
  BY <1>1, <1>3 DEF Opened
<1>7. FilesGrow'
  <2>1. \A d \in Compilers : \A n : Writes(d, n)' <=> Writes(d, n)
    BY <1>3 DEF Writes
  <2>2. \A d \in Compilers : \A n : Writes(d, n) => job'[d] = job[d]
    BY <1>3 DEF Writes
  <2>3. \A n \in DOMAIN files : \A t \in Texts[n] : FileOf(n, t) => FileOf(n, t)'
    BY <1>1, <2>1, <2>2 DEF FileOf
  <2>4. QED
    BY <1>1, <2>3 DEF FilesGrow
<1>8. ImportsWhole'
  BY <1>2, <1>3 DEF ImportsWhole, Defines
<1>9. QED
  BY <1>4, <1>5, <1>6, <1>7, <1>8

(* Opening the definition file empties it, also under other writers.       *)
LEMMA OpenStep ==
    ASSUME IInv, NEW c \in Compilers, EndInspection(c)
    PROVE  IInv'
<1> USE DEF IInv
<1>1. CASE job[c].in.errors
  BY <1>1, StopStep DEF EndInspection, Running
<1>2. CASE ~job[c].in.errors
  <2>0. PICK j, m, t : j = [job[c] EXCEPT !.pos = 0] /\ m = job[c].module /\ t = job[c].text
    OBVIOUS
  <2>1. /\ phase[c] = "inspect" /\ phase' = [phase EXCEPT ![c] = "write"] /\ job' = [job EXCEPT ![c] = j]
        /\ files' = [n \in {m} \union DOMAIN files |-> IF n = m THEN << >> ELSE files[n]]
    BY <1>2, <2>0 DEF EndInspection, Goto
  <2>2. IsJob(j) /\ j.pos = 0 /\ j.module = m /\ j.text = t /\ j.read = job[c].read
    BY <2>0 DEF Shape, IsJob
  <2>3. m \in Modules /\ t \in Texts[m]
    BY <2>0, <2>1 DEF Working, Running
  <2>4. Len(Definition(t)) \in Nat
    BY <2>3, DefinitionPrinted DEF WellFormed
  <2>5. /\ phase'[c] = "write" /\ job'[c] = j
        /\ \A d \in Compilers : d # c => phase'[d] = phase[d] /\ job'[d] = job[d]
        /\ \A d \in Compilers : job'[d].module = job[d].module /\ job'[d].text = job[d].text
        /\ \A d \in Compilers : Running(d)' <=> Running(d)
    BY <2>0, <2>1, <2>2 DEF Shape, Running
  <2>6. Shape'
    BY <2>1, <2>2, <2>3, <2>5 DEF Shape
  <2>7. Working'
    BY <2>5 DEF Working
  <2>8. Opened'
    <3> SUFFICES ASSUME NEW d \in Compilers, phase'[d] = "write"
                 PROVE  job'[d].module \in DOMAIN files' /\ job'[d].pos <= Len(Definition(job'[d].text))
      BY DEF Opened
    <3>1. CASE d = c
      <4>1. job'[d] = j /\ j.pos <= Len(Definition(j.text)) /\ j.module \in DOMAIN files'
        BY <3>1, <2>1, <2>2, <2>4, <2>5
      <4>2. QED
        BY <4>1
    <3>2. CASE d # c
      BY <3>2, <2>1, <2>5 DEF Opened
    <3>3. QED
      BY <3>1, <3>2
  <2>9. FilesGrow'
    <3>1. FileOf(m, t)'
      <4>1. files'[m] = << >>
        BY <2>1
      <4>2. \A d \in Compilers : Writes(d, m)' => job'[d].text = t
        BY <2>0, <2>1, <2>5 DEF Writes, Working, Running
      <4>3. Writes(c, m)' /\ job'[c].pos = 0
        BY <2>2, <2>5 DEF Writes
      <4>4. << >> \in Seq(Range(<< >>)) /\ Len(<< >>) = 0
        OBVIOUS
      <4>5. QED
        BY <2>4, <4>1, <4>2, <4>3, <4>4 DEF FileOf
    <3>2. ASSUME NEW n \in DOMAIN files, n # m, NEW u \in Texts[n], FileOf(n, u)
          PROVE  FileOf(n, u)'
      <4>1. files'[n] = files[n]
        BY <2>1, <3>2
      <4>2. \A d \in Compilers : Writes(d, n)' <=> Writes(d, n)
        BY <2>0, <2>1, <2>5, <3>2 DEF Writes
      <4>3. \A d \in Compilers : Writes(d, n) => job'[d] = job[d]
        BY <2>0, <2>1, <2>5, <3>2 DEF Writes
      <4>4. QED
        BY <3>2, <4>1, <4>2, <4>3 DEF FileOf
    <3>3. DOMAIN files' = {m} \union DOMAIN files
      BY <2>1
    <3>4. QED
      BY <2>3, <3>1, <3>2, <3>3 DEF FilesGrow
  <2>10. ImportsWhole'
    <3>1. \A d \in Compilers : job'[d].read = job[d].read
      BY <2>2, <2>5
    <3>2. QED
      BY <3>1 DEF ImportsWhole, Defines
  <2>11. QED
    BY <2>6, <2>7, <2>8, <2>9, <2>10
<1>3. QED
  BY <1>1, <1>2

-----------------------------------------------------------------------------
(* A line written at position i, which may leave holes before it.          *)
LEMMA WrittenLine ==
    ASSUME NEW lines, lines \in Seq(Range(lines)), NEW i \in Nat \ {0}, NEW line
    PROVE  LET w == Written(lines, i, line)
           IN  /\ w \in Seq(Range(w))
               /\ Len(w) = IF i > Len(lines) THEN i ELSE Len(lines)
               /\ \A k \in 1 .. Len(w) :
                    w[k] = IF k = i THEN line ELSE IF k <= Len(lines) THEN lines[k] ELSE Hole
<1> DEFINE n == IF i > Len(lines) THEN i ELSE Len(lines)
           w == Written(lines, i, line)
<1>1. n \in Nat
  OBVIOUS
<1>2. w = [k \in 1 .. n |-> IF k = i THEN line ELSE IF k <= Len(lines) THEN lines[k] ELSE Hole]
  BY DEF Written
<1> HIDE DEF w, n
<1>3. \A k \in 1 .. n : w[k] \in Range(w)
  BY <1>2 DEF Range
<1>4. w \in [1 .. n -> Range(w)]
  BY <1>2, <1>3
<1>5. w \in Seq(Range(w)) /\ Len(w) = n
  BY <1>1, <1>4
<1>6. QED
  BY <1>2, <1>5 DEF w, n

LEMMA WriteStep ==
    ASSUME IInv, NEW c \in Compilers, WriteLine(c)
    PROVE  IInv'
<1> USE DEF IInv
<1>0. PICK j, m, i, D : /\ j = [job[c] EXCEPT !.pos = @ + 1] /\ m = job[c].module
                        /\ i = job[c].pos + 1 /\ D = Definition(job[c].text)
  OBVIOUS
<1>1. /\ phase[c] = "write" /\ phase' = [phase EXCEPT ![c] = "write"] /\ job' = [job EXCEPT ![c] = j]
      /\ files' = [files EXCEPT ![m] = Written(@, i, D[i])]
      /\ job[c].pos < Len(D)
  BY <1>0 DEF WriteLine, Goto
<1>2. IsJob(j) /\ j.pos = i /\ j.module = m /\ j.text = job[c].text /\ j.read = job[c].read
  BY <1>0 DEF Shape, IsJob
<1>3. m \in Modules /\ job[c].text \in Texts[m] /\ m \in DOMAIN files
  BY <1>0, <1>1 DEF Working, Running, Opened
<1>4. Len(D) \in Nat /\ i \in Nat \ {0} /\ i <= Len(D)
  BY <1>0, <1>1, <1>3, DefinitionPrinted DEF WellFormed, Shape, IsJob
<1>5. /\ phase' = phase /\ job'[c] = j
      /\ \A d \in Compilers : d # c => job'[d] = job[d]
      /\ \A d \in Compilers : job'[d].module = job[d].module /\ job'[d].text = job[d].text
  BY <1>0, <1>1, <1>2 DEF Shape
<1>6. Shape'
  BY <1>1, <1>2, <1>5 DEF Shape
<1>7. Working'
  BY <1>5 DEF Working, Running
<1>8. DOMAIN files' = DOMAIN files
  BY <1>1
<1>9. Opened'
  <2> SUFFICES ASSUME NEW d \in Compilers, phase[d] = "write"
               PROVE  job'[d].module \in DOMAIN files /\ job'[d].pos <= Len(Definition(job'[d].text))
    BY <1>5, <1>8 DEF Opened
  <2>1. CASE d = c
    <3>1. job'[d] = j /\ j.pos <= Len(Definition(j.text)) /\ j.module \in DOMAIN files
      BY <2>1, <1>0, <1>2, <1>3, <1>4, <1>5
    <3>2. QED
      BY <3>1
  <2>2. CASE d # c
    BY <2>2, <1>5 DEF Opened
  <2>3. QED
    BY <2>1, <2>2
<1>10. \A d \in Compilers : \A n : Writes(d, n)' <=> Writes(d, n)
  BY <1>5 DEF Writes
<1>11. FilesGrow'
  <2>1. \E t \in Texts[m] : FileOf(m, t)'
    <3>1. PICK t \in Texts[m] : FileOf(m, t)
      BY <1>3 DEF FilesGrow
    <3>2. t = job[c].text
      BY <1>0, <1>1, <3>1 DEF FileOf, Writes
    <3>a. D = Definition(t)
      BY <1>0, <3>2
    <3> DEFINE f == files[m]
               w == Written(f, i, D[i])
    <3>3. files'[m] = w
      BY <1>1, <1>3
    <3>4. /\ w \in Seq(Range(w))
          /\ Len(w) = IF i > Len(f) THEN i ELSE Len(f)
          /\ \A k \in 1 .. Len(w) : w[k] = IF k = i THEN D[i] ELSE IF k <= Len(f) THEN f[k] ELSE Hole
      BY <1>4, <3>1, WrittenLine DEF FileOf
    <3>5. f \in Seq(Range(f)) /\ Len(f) \in Nat /\ Len(f) <= Len(D)
      BY <3>1, <3>a DEF FileOf
    <3> HIDE DEF w, f
    <3>6. Len(w) <= Len(D) /\ \A k \in 1 .. Len(w) : w[k] \in {Hole, D[k]}
      BY <1>4, <3>1, <3>a, <3>4, <3>5 DEF FileOf, f
    <3>7. ASSUME NEW k \in 1 .. Len(D), k > Len(w) \/ w[k] = Hole
          PROVE  \E d \in Compilers : Writes(d, m)' /\ job'[d].pos < k
      <4>1. k # i
        <5>1. SUFFICES ASSUME k = i PROVE FALSE
          OBVIOUS
        <5>2. i <= Len(w) /\ w[i] = D[i]
          BY <1>4, <3>4, <3>5
        <5>3. D[i] # Hole
          BY <1>0, <1>3, <1>4, DefinitionPrinted DEF WellFormed
        <5>4. QED
          BY <5>1, <5>2, <5>3, <3>7
      <4>2. k > Len(f) \/ f[k] = Hole
        BY <4>1, <1>4, <3>4, <3>5, <3>7
      <4>3. PICK d \in Compilers : Writes(d, m) /\ job[d].pos < k
        BY <3>1, <3>a, <4>2 DEF FileOf, f
      <4>4. CASE d = c
        <5>1. job'[c].pos = i /\ Writes(c, m)'
          BY <4>3, <4>4, <1>2, <1>5, <1>10
        <5>2. i = job[c].pos + 1 /\ job[c].pos < k /\ job[c].pos \in Nat
          BY <4>3, <4>4, <1>0 DEF Shape, IsJob
        <5>3. i < k
          BY <4>1, <5>2, <1>4
        <5>4. QED
          BY <5>1, <5>3
      <4>5. CASE d # c
        BY <4>3, <4>5, <1>5, <1>10
      <4>6. QED
        BY <4>4, <4>5
    <3>8. \A d \in Compilers : Writes(d, m)' => job'[d].text = t
      BY <1>5, <1>10, <3>1 DEF FileOf
    <3>9. FileOf(m, t)'
      BY <3>a, <3>3, <3>4, <3>6, <3>7, <3>8 DEF FileOf
    <3>10. QED
      BY <3>9
  <2>2. ASSUME NEW n \in DOMAIN files, n # m, NEW u \in Texts[n], FileOf(n, u)
        PROVE  FileOf(n, u)'
    <3>1. files'[n] = files[n]
      BY <1>1, <2>2
    <3>2. \A d \in Compilers : Writes(d, n) => job'[d] = job[d]
      BY <1>0, <1>5, <2>2 DEF Writes
    <3>3. QED
      BY <1>10, <2>2, <3>1, <3>2 DEF FileOf
  <2>3. QED
    BY <1>8, <2>1, <2>2 DEF FilesGrow
<1>12. ImportsWhole'
  <2>1. \A d \in Compilers : job'[d].read = job[d].read
    BY <1>2, <1>5
  <2>2. QED
    BY <2>1 DEF ImportsWhole, Defines
<1>13. QED
  BY <1>6, <1>7, <1>9, <1>11, <1>12

LEMMA EndDefinitionStep ==
    ASSUME IInv, NEW c \in Compilers, EndDefinition(c)
    PROVE  IInv'
<1> DEFINE j == [job[c] EXCEPT !.pos = 0]
<1>1. IsJob(job[c]) /\ ReadWhole(job[c])
  BY DEF IInv, Shape, ImportsWhole, ReadWhole
<1>2. IsJob(j) /\ ReadWhole(j) /\ j.module = job[c].module /\ j.text = job[c].text
  BY <1>1 DEF IsJob, ReadWhole
<1>3. /\ phase' = [phase EXCEPT ![c] = "generate"] /\ job' = [job EXCEPT ![c] = j] /\ UNCHANGED files
      /\ job[c].pos = Len(Definition(job[c].text)) /\ Running(c)
  BY DEF EndDefinition, Goto, Running
<1> HIDE DEF j
<1>4. QED
  BY <1>2, <1>3, QuietStep

LEMMA StepInv ==
    ASSUME IInv, NEW c \in Compilers, Step(c)
    PROVE  IInv'
<1>1. IsJob(job[c]) /\ ReadWhole(job[c])
  BY DEF IInv, Shape, ImportsWhole, ReadWhole
<1>2. ASSUME Import(c) PROVE IInv'
  <2>1. phase[c] = "import" /\ Running(c) /\ UNCHANGED files
    BY <1>2 DEF Import, Importing, Running
  <2>2. PICK r, found : /\ found = Find(c, r)
                        /\ IF found.thrown THEN Stop(c, "missing")
                           ELSE Goto(c, "import", [Kept(c, r, found) EXCEPT !.in = TakenIn(@, r, found), !.pos = @ + 1])
    BY <1>2 DEF Import
  <2>3. CASE found.thrown
    BY <2>1, <2>2, <2>3, StopStep
  <2>4. CASE ~found.thrown
    <3>1. PICK k : k = Kept(c, r, found)
      OBVIOUS
    <3>2. IsJob(k) /\ ReadWhole(k) /\ k.module = job[c].module /\ k.text = job[c].text
      BY <2>1, <2>2, <2>4, <3>1, KeptWhole
    <3>3. PICK new, j : /\ j = [k EXCEPT !.in = new, !.pos = @ + 1]
                        /\ phase' = [phase EXCEPT ![c] = "import"] /\ job' = [job EXCEPT ![c] = j]
      BY <2>2, <2>4, <3>1 DEF Goto
    <3>4. IsJob(j) /\ ReadWhole(j) /\ j.module = job[c].module /\ j.text = job[c].text
      <4>1. k.pos + 1 \in Nat
        BY <3>2 DEF IsJob
      <4>2. IsJob(j) /\ j.module = k.module /\ j.text = k.text /\ j.read = k.read
        BY <3>2, <3>3, <4>1 DEF IsJob
      <4>3. QED
        BY <3>2, <4>2 DEF ReadWhole
    <3>5. QED
      BY <2>1, <3>3, <3>4, QuietStep
  <2>5. QED
    BY <2>3, <2>4
<1>3. ASSUME InspectDeclarations(c) PROVE IInv'
  <2>1. phase[c] = "import" /\ Running(c) /\ UNCHANGED files
    BY <1>3 DEF InspectDeclarations, Running
  <2>2. PICK in : IF in.thrown THEN Stop(c, "rejected")
                  ELSE Goto(c, "inspect", [job[c] EXCEPT !.in = in, !.pos = 0])
    BY <1>3 DEF InspectDeclarations
  <2>3. CASE in.thrown
    BY <2>1, <2>2, <2>3, StopStep
  <2>4. CASE ~in.thrown
    <3>1. PICK j : /\ j = [job[c] EXCEPT !.in = in, !.pos = 0]
                   /\ phase' = [phase EXCEPT ![c] = "inspect"] /\ job' = [job EXCEPT ![c] = j]
      BY <2>2, <2>4 DEF Goto
    <3>2. IsJob(j) /\ ReadWhole(j) /\ j.module = job[c].module /\ j.text = job[c].text
      BY <1>1, <3>1 DEF IsJob, ReadWhole
    <3>3. QED
      BY <2>1, <3>1, <3>2, QuietStep
  <2>5. QED
    BY <2>3, <2>4
<1>4. ASSUME InspectUse(c) PROVE IInv'
  <2>1. PICK in, j : /\ phase[c] = "inspect" /\ UNCHANGED files
                     /\ j = [job[c] EXCEPT !.in = in, !.pos = @ + 1]
                     /\ phase' = [phase EXCEPT ![c] = "inspect"] /\ job' = [job EXCEPT ![c] = j]
    BY <1>4 DEF InspectUse, Goto
  <2>2. IsJob(j) /\ ReadWhole(j) /\ j.module = job[c].module /\ j.text = job[c].text
    <3>1. job[c].pos + 1 \in Nat
      BY <1>1 DEF IsJob
    <3>2. IsJob(j) /\ j.module = job[c].module /\ j.text = job[c].text /\ j.read = job[c].read
      BY <1>1, <2>1, <3>1 DEF IsJob
    <3>3. QED
      BY <1>1, <3>2 DEF ReadWhole
  <2>3. Running(c) /\ phase[c] # "write"
    BY <2>1 DEF Running
  <2>4. QED
    BY <2>1, <2>2, <2>3, QuietStep
<1>5. ASSUME GenerateImport(c) PROVE IInv'
  <2>1. phase[c] = "generate" /\ Running(c) /\ UNCHANGED files
    BY <1>5 DEF GenerateImport, Importing, Running
  <2>2. PICK r, found :
          /\ found = Find(c, r)
          /\ \/ Stop(c, "aborted")
             \/ ~found.thrown /\ Goto(c, "generate", [Kept(c, r, found) EXCEPT !.pos = @ + 1,
                                                        !.globals = @ \union Globals(job[c].in, r, found.symbols)])
    BY <1>5 DEF GenerateImport
  <2>3. CASE Stop(c, "aborted")
    BY <2>1, <2>3, StopStep
  <2>4. CASE ~Stop(c, "aborted")
    <3>1. PICK k : k = Kept(c, r, found)
      OBVIOUS
    <3>2. IsJob(k) /\ ReadWhole(k) /\ k.module = job[c].module /\ k.text = job[c].text
      BY <2>1, <2>2, <2>4, <3>1, KeptWhole
    <3>3. PICK new, j : /\ j = [k EXCEPT !.pos = @ + 1, !.globals = @ \union new]
                        /\ phase' = [phase EXCEPT ![c] = "generate"] /\ job' = [job EXCEPT ![c] = j]
      BY <2>2, <2>4, <3>1 DEF Goto
    <3>4. IsJob(j) /\ ReadWhole(j) /\ j.module = job[c].module /\ j.text = job[c].text
      <4>1. k.pos + 1 \in Nat
        BY <3>2 DEF IsJob
      <4>2. IsJob(j) /\ j.module = k.module /\ j.text = k.text /\ j.read = k.read
        BY <3>2, <3>3, <4>1 DEF IsJob
      <4>3. QED
        BY <3>2, <4>2 DEF ReadWhole
    <3>5. QED
      BY <2>1, <3>3, <3>4, QuietStep
  <2>5. QED
    BY <2>3, <2>4
<1>6. ASSUME GenerateModule(c) PROVE IInv'
  <2>1. phase[c] = "generate" /\ Running(c) /\ UNCHANGED files
    BY <1>6 DEF GenerateModule, Running
  <2>2. CASE Stop(c, "thrown")
    BY <2>1, <2>2, StopStep
  <2>3. CASE Goto(c, "done", job[c])
    BY <2>1, <2>3, <1>1, QuietStep DEF Goto
  <2>4. QED
    BY <1>6, <2>2, <2>3 DEF GenerateModule
<1>7. QED
  BY <1>2, <1>3, <1>4, <1>5, <1>6, OpenStep, WriteStep, EndDefinitionStep DEF Step

-----------------------------------------------------------------------------
LEMMA Invariance == Spec => []IInv
<1>1. IInv /\ [Next]_vars => IInv'
  <2> SUFFICES ASSUME IInv, [Next]_vars PROVE IInv'
    OBVIOUS
  <2>1. ASSUME NEW c \in Compilers, Step(c) PROVE IInv'
    BY <2>1, StepInv
  <2>2. ASSUME NEW c \in Compilers, NEW m \in Modules, NEW text \in Texts[m], Begin(c, m, text)
        PROVE  IInv'
    BY <2>2, BeginStep
  <2>3. CASE UNCHANGED vars
    BY <2>3 DEF vars, IInv, Shape, Working, Opened, FilesGrow, FileOf, Writes, ImportsWhole, Defines, Running
  <2>4. QED
    BY <2>1, <2>2, <2>3 DEF Next
<1>2. QED
  BY <1>1, InitInv, PTL DEF Spec

(* Whatever the modules, the texts and the interleaving of any number of   *)
(* compilers, no compiler takes in a definition that is half written.      *)
THEOREM WholeImports == Spec => []ImportsWhole
BY Invariance, PTL DEF IInv

(* A definition file that nobody writes is the definition of one text.     *)
THEOREM WholeFiles == Spec => []FilesWhole
<1>1. IInv => FilesWhole
  <2> SUFFICES ASSUME IInv, NEW m \in DOMAIN files, \A c \in Compilers : ~Writes(c, m)
               PROVE  Defines(m, files[m])
    BY DEF FilesWhole, Writes
  <2>1. PICK t \in Texts[m] : FileOf(m, t)
    BY DEF IInv, FilesGrow
  <2> DEFINE f == files[m]
             D == Definition(t)
  <2>2. D \in Seq(Range(D)) /\ Len(D) \in Nat
    BY DefinitionPrinted DEF IInv, Shape, WellFormed
  <2>3. f \in Seq(Range(f)) /\ Len(f) \in Nat /\ Len(f) <= Len(D)
    BY <2>1 DEF FileOf
  <2>4. \A i \in 1 .. Len(D) : i <= Len(f) /\ f[i] # Hole
    BY <2>1, <2>2, <2>3 DEF FileOf
  <2>5. Len(f) = Len(D)
    BY <2>2, <2>3, <2>4
  <2>6. \A i \in 1 .. Len(D) : f[i] = D[i]
    BY <2>1, <2>4, <2>5 DEF FileOf
  <2> HIDE DEF f, D
  <2>7. f = D
    BY <2>2, <2>3, <2>5, <2>6
  <2>8. QED
    BY <2>7 DEF f, D, Defines
<1>2. QED
  BY <1>1, Invariance, PTL

-----------------------------------------------------------------------------
(* What the inspector and the generator know of imported names.            *)

IsInspector(in) ==
    in = [symbols |-> in.symbols, types |-> in.types, is_qualid |-> in.is_qualid,
          errors |-> in.errors, thrown |-> in.thrown, used |-> in.used]

(* The symbol under k is that of the declaration d.                        *)
SymbolOf(symbols, k, d) ==
    d.kind \in Kinds \ {"type"} /\ d.id # "" /\ k = Plain(d.id) /\ symbols[k].kind = d.kind

(* Inspecting declarations leaves a symbol, or makes it one of theirs.     *)
MadeBy(old, new, decs) ==
    \A k \in DOMAIN new : \/ k \in DOMAIN old /\ new[k] = old[k]
                          \/ \E d \in decs : SymbolOf(new, k, d)

LEMMA NameVisited ==
    ASSUME NEW in, IsInspector(in), NEW q, NEW id
    PROVE  /\ IsInspector(VisitName(in, q, id))
           /\ VisitName(in, q, id).symbols = in.symbols
           /\ VisitName(in, q, id).used = in.used
           /\ VisitName(in, q, id).errors = (in.errors \/ Undefined(in, q, Qualident(in, q, id)))
<1>1. PICK out : out = VisitName(in, q, id)
  OBVIOUS
<1>2. PICK b, e : b = (in.is_qualid \/ q # None) /\ e = (in.errors \/ Undefined(in, q, Qualident(in, q, id)))
  OBVIOUS
<1>3. out = [in EXCEPT !.is_qualid = b, !.errors = e]
  BY <1>1, <1>2 DEF VisitName
<1>4. IsInspector(out) /\ out.symbols = in.symbols /\ out.used = in.used /\ out.errors = e
  BY <1>3 DEF IsInspector
<1>5. QED
  BY <1>1, <1>2, <1>4

LEMMA TypeVisited ==
    ASSUME NEW in, IsInspector(in), NEW of
    PROVE  IsInspector(VisitType(in, of)) /\ VisitType(in, of).symbols = in.symbols
BY DEF IsInspector, VisitType

LEMMA SymbolPut ==
    ASSUME NEW old, NEW in, IsInspector(in), in.symbols = old, NEW symbol, NEW d,
           d.kind \in Kinds \ {"type"}, d.id # "", symbol.kind = d.kind
    PROVE  /\ IsInspector(PutSymbol(in, Plain(d.id), symbol))
           /\ MadeBy(old, PutSymbol(in, Plain(d.id), symbol).symbols, {d})
<1> DEFINE key == Plain(d.id)
           new == [k \in {key} \union DOMAIN in.symbols |-> IF k = key THEN symbol ELSE in.symbols[k]]
           out == PutSymbol(in, key, symbol)
<1>1. IsInspector(out) /\ out.symbols = new
  <2>1. PICK x, y : x = out /\ y = new
    OBVIOUS
  <2>2. x = [in EXCEPT !.symbols = y]
    BY <2>1 DEF PutSymbol
  <2>3. IsInspector(x) /\ x.symbols = y
    BY <2>2 DEF IsInspector
  <2>4. QED
    BY <2>1, <2>3
<1>2. MadeBy(old, new, {d})
  BY DEF MadeBy, SymbolOf
<1>3. QED
  BY <1>1, <1>2

LEMMA DeclarationVisited ==
    ASSUME NEW in, IsInspector(in), NEW d, d.kind \in Kinds, d.id # ""
    PROVE  /\ IsInspector(VisitDeclaration(in, d))
           /\ MadeBy(in.symbols, VisitDeclaration(in, d).symbols, {d})
<1>0. \A new : new = in.symbols => MadeBy(in.symbols, new, {d})
  BY DEF MadeBy
<1>1. CASE in.thrown
  BY <1>0, <1>1 DEF VisitDeclaration
<1>2. CASE ~in.thrown /\ d.kind = "const"
  <2>1. PICK named : named = IF d.of = NoName THEN in ELSE VisitName(in, d.of.qual, Plain(d.of.id))
    OBVIOUS
  <2>2. IsInspector(named) /\ named.symbols = in.symbols
    BY <2>1, NameVisited
  <2>3. PICK e, mid : /\ mid = [named EXCEPT !.errors = e]
                      /\ VisitConst(in, d) = PutSymbol(mid, Plain(d.id), Symbol("const", "INTEGER"))
    BY <2>1 DEF VisitConst
  <2>4. IsInspector(mid) /\ mid.symbols = in.symbols
    BY <2>2, <2>3 DEF IsInspector
  <2>5. PICK symbol : symbol = Symbol("const", "INTEGER") /\ symbol.kind = d.kind /\ d.kind \in Kinds \ {"type"}
    <3>1. Symbol("const", "INTEGER").kind = "const"
      BY DEF Symbol
    <3>2. d.kind = "const" /\ d.kind \in Kinds \ {"type"}
      BY <1>2 DEF Kinds
    <3>3. QED
      BY <3>1, <3>2
  <2>6. VisitDeclaration(in, d) = PutSymbol(mid, Plain(d.id), symbol)
    BY <1>2, <2>3, <2>5 DEF VisitDeclaration
  <2>7. QED
    BY <2>4, <2>5, <2>6, SymbolPut
<1>3. CASE ~in.thrown /\ d.kind = "type"
  <2>1. VisitDeclaration(in, d) = VisitTypeDec(in, d)
    BY <1>3 DEF VisitDeclaration
  <2>2. IsInspector(VisitTypeDec(in, d)) /\ VisitTypeDec(in, d).symbols = in.symbols
    <3>1. CASE d.id \in in.types
      BY <3>1 DEF VisitTypeDec, IsInspector
    <3>2. CASE d.id \notin in.types
      <4>1. PICK mid : mid = VisitType(in, d.of)
        OBVIOUS
      <4>2. IsInspector(mid) /\ mid.symbols = in.symbols
        BY <4>1, TypeVisited
      <4>3. VisitTypeDec(in, d) = [mid EXCEPT !.types = @ \union {d.id}]
        BY <3>2, <4>1 DEF VisitTypeDec
      <4>4. QED
        BY <4>2, <4>3 DEF IsInspector
    <3>3. QED
      BY <3>1, <3>2
  <2>3. QED
    BY <1>0, <2>1, <2>2
<1>4. CASE ~in.thrown /\ d.kind = "var"
  <2>1. PICK mid, symbol : /\ mid = VisitType(in, d.of) /\ symbol.kind = "var"
                           /\ VisitVar(in, d) = PutSymbol(mid, Plain(d.id), symbol)
    <3>1. PICK type : type = IF d.of.id = None THEN "INTEGER" ELSE d.of.id
      OBVIOUS
    <3>2. Symbol("var", type).kind = "var"
      BY DEF Symbol
    <3>3. VisitVar(in, d) = PutSymbol(VisitType(in, d.of), Plain(d.id), Symbol("var", type))
      BY <3>1 DEF VisitVar
    <3>4. QED
      BY <3>2, <3>3
  <2>2. IsInspector(mid) /\ mid.symbols = in.symbols
    BY <2>1, TypeVisited
  <2>3. VisitDeclaration(in, d) = VisitVar(in, d) /\ symbol.kind = d.kind /\ d.kind \in Kinds \ {"type"}
    BY <1>4, <2>1 DEF VisitDeclaration, Kinds
  <2>4. QED
    BY <2>1, <2>2, <2>3, SymbolPut
<1>5. CASE ~in.thrown /\ d.kind = "proc"
  <2>1. PICK typed : typed = VisitType(in, d.of)
    OBVIOUS
  <2>2. IsInspector(typed) /\ typed.symbols = in.symbols
    BY <2>1, TypeVisited
  <2>3. PICK mid, e : /\ mid = [typed EXCEPT !.errors = e]
                      /\ VisitProcedure(in, d) = PutSymbol(mid, Plain(d.id), Symbol("proc", None))
    BY <2>1 DEF VisitProcedure
  <2>4. IsInspector(mid) /\ mid.symbols = in.symbols
    BY <2>2, <2>3 DEF IsInspector
  <2>5. PICK symbol : symbol = Symbol("proc", None) /\ symbol.kind = d.kind /\ d.kind \in Kinds \ {"type"}
    <3>1. Symbol("proc", None).kind = "proc"
      BY DEF Symbol
    <3>2. d.kind = "proc" /\ d.kind \in Kinds \ {"type"}
      BY <1>5 DEF Kinds
    <3>3. QED
      BY <3>1, <3>2
  <2>6. VisitDeclaration(in, d) = PutSymbol(mid, Plain(d.id), symbol)
    BY <1>5, <2>3, <2>5 DEF VisitDeclaration
  <2>7. QED
    BY <2>4, <2>5, <2>6, SymbolPut
<1>6. QED
  BY <1>1, <1>2, <1>3, <1>4, <1>5 DEF Kinds

LEMMA Interval ==
    ASSUME NEW n \in Nat
    PROVE  /\ 0 \in 0 .. n /\ n \in 0 .. n
           /\ \A k \in 1 .. n : k - 1 \in 0 .. n /\ k \in 0 .. n
           /\ \A k \in Nat : k + 1 <= n => k <= n /\ k + 1 \in 1 .. n
           /\ \A k \in Nat : k + 1 \in Nat /\ (k + 1) - 1 = k
           /\ n <= n
OBVIOUS

(* The same for a list of declarations, by induction on its length.        *)
LEMMA AllVisited ==
    ASSUME NEW in, IsInspector(in), NEW decs, NEW n \in Nat, DOMAIN decs = 1 .. n,
           \A i \in 1 .. n : decs[i].kind \in Kinds /\ decs[i].id # ""
    PROVE  /\ IsInspector(Declared(in, decs))
           /\ MadeBy(in.symbols, Declared(in, decs).symbols, Range(decs))
<1>1. PICK r : r = [k \in 0 .. n |-> Partial("visit", in, decs, k)]
  OBVIOUS
<1>2. r[0] = in /\ \A k \in 1 .. n : r[k] = VisitDeclaration(r[k - 1], decs[k])
  <2>1. 0 \in 0 .. n /\ \A k \in 1 .. n : k - 1 \in 0 .. n /\ k \in 0 .. n
    BY Interval
  <2>2. /\ Partial("visit", in, decs, 0) = in
        /\ \A k \in 1 .. n : Partial("visit", in, decs, k) = VisitDeclaration(Partial("visit", in, decs, k - 1), decs[k])
    <3>1. Partial("visit", in, decs, 0) = in
      BY StartAt
    <3>2. ASSUME NEW k \in 1 .. n
          PROVE  Partial("visit", in, decs, k) = Fold("visit", Partial("visit", in, decs, k - 1), decs[k])
      BY StepAt
    <3>3. QED
      BY <3>1, <3>2 DEF Fold
  <2>3. r[0] = in
    BY <1>1, <2>1, <2>2
  <2>4. QED
    BY <1>1, <2>1, <2>2, <2>3
<1>3. Declared(in, decs) = r[n]
  <2>1. Declared(in, decs) = Partial("visit", in, decs, n)
    BY DEF Declared, FoldLeft, MapThenFoldSet, Max, Partial, Iter, IsIter, Fold
  <2>2. n \in 0 .. n
    BY Interval
  <2>3. QED
    BY <1>1, <2>1, <2>2
<1> DEFINE Good(k) == IsInspector(r[k]) /\ MadeBy(in.symbols, r[k].symbols, Range(decs))
           S == {k \in Nat : k <= n => Good(k)}
<1>4. 0 \in S
  <2>1. Good(0)
    BY <1>2 DEF MadeBy
  <2>2. QED
    BY <2>1
<1>5. ASSUME NEW k \in S \cap Nat PROVE k + 1 \in S
  <2>1. k \in Nat /\ k + 1 \in Nat /\ (k + 1) - 1 = k /\ (k <= n => Good(k))
    BY <1>5, Interval
  <2>2. ASSUME k + 1 <= n PROVE Good(k + 1)
    <3>1. k + 1 \in 1 .. n /\ Good(k)
      BY <2>1, <2>2, Interval
    <3> HIDE DEF S
    <3>2. PICK x, y, d : x = r[k] /\ y = r[k + 1] /\ d = decs[k + 1]
      OBVIOUS
    <3>3. y = VisitDeclaration(x, d) /\ d.kind \in Kinds /\ d.id # "" /\ d \in Range(decs)
      BY <1>2, <2>1, <3>1, <3>2 DEF Range
    <3>4. IsInspector(y) /\ MadeBy(x.symbols, y.symbols, {d}) /\ MadeBy(in.symbols, x.symbols, Range(decs))
      BY <3>1, <3>2, <3>3, DeclarationVisited
    <3>5. MadeBy(in.symbols, y.symbols, Range(decs))
      <4> SUFFICES ASSUME NEW key \in DOMAIN y.symbols
                   PROVE  \/ key \in DOMAIN in.symbols /\ y.symbols[key] = in.symbols[key]
                          \/ \E e \in Range(decs) : SymbolOf(y.symbols, key, e)
        BY DEF MadeBy
      <4>1. CASE key \in DOMAIN x.symbols /\ y.symbols[key] = x.symbols[key]
        BY <3>4, <4>1 DEF MadeBy, SymbolOf
      <4>2. CASE SymbolOf(y.symbols, key, d)
        BY <3>3, <4>2
      <4>3. QED
        BY <3>4, <4>1, <4>2 DEF MadeBy
    <3>6. QED
      BY <3>2, <3>4, <3>5
  <2>3. QED
    BY <2>1, <2>2
<1>6. n \in S
  <2> HIDE DEF S
  <2>1. QED
    BY <1>4, <1>5, SetInduction
<1>7. Good(n)
  <2>1. n <= n
    BY Interval
  <2>2. QED
    BY <1>6, <2>1
<1>8. QED
  BY <1>3, <1>7

-----------------------------------------------------------------------------
(* The invariant of names, one compiler at a time: its phase p and job j.  *)

(* A qualifier of a module: an alias of it, or its own name in itself.     *)
Stands(j, r, qual) ==
    \/ \E i \in Range(j.text.imports) : i[1] = qual /\ i[2] = r
    \/ r = qual /\ r = j.module

(* The cache has what was read, of modules that the text imports.          *)
CacheOK(j) ==
    /\ IsList(j.text.imports) /\ IsList(j.text.uses)
    /\ DOMAIN j.cache = DOMAIN j.read
    /\ \A r \in DOMAIN j.cache :
         /\ r \in Modules
         /\ j.read[r] \in Seq(Range(j.read[r]))
         /\ \E i \in Range(j.text.imports) : i[2] = r
         /\ \A k \in DOMAIN j.cache[r] : \E d \in Range(j.read[r]) : SymbolOf(j.cache[r], k, d)

(* A symbol is the text's own, or the one that the cache has for its module.*)
Own(j, k) ==
    k = Plain(k[2]) /\ (j.in.symbols[k].kind = "module" => Stands(j, j.in.symbols[k].type, k[2]))
FromModule(j, k) ==
    /\ k = << k[1], k[2] >> /\ k[1] \in DOMAIN j.cache /\ Plain(k[2]) \in DOMAIN j.cache[k[1]]
    /\ j.in.symbols[k] = j.cache[k[1]][Plain(k[2])]
SymbolsOK(j) == \A k \in DOMAIN j.in.symbols : k[2] # "" /\ (Own(j, k) \/ FromModule(j, k))

(* What the generator has declared comes from the cache, and it declares   *)
(* all that it should of an import.                                        *)
GlobalsOK(p, j) ==
    /\ j.globals # {} => p \in {"generate", "done"}
    /\ \A k \in j.globals : k[1] \in DOMAIN j.cache /\ Plain(k[2]) \in DOMAIN j.cache[k[1]]
ImportGenerated(j, r) == r \in DOMAIN j.cache /\ Globals(j.in, r, j.cache[r]) \subseteq j.globals
GeneratedOK(p, j) ==
    p \in {"generate", "done"} =>
      /\ p = "done" => j.pos = Len(j.text.imports)
      /\ \A i \in 1 .. Len(j.text.imports) : i <= j.pos => ImportGenerated(j, j.text.imports[i][2])

(* A qualified name that the inspector took without an error is in the     *)
(* cache, and a procedure is marked as used unless it is only named.       *)
UseOK(j, u) ==
    u.qual # None /\ u.how # "length" =>
      \E r \in DOMAIN j.cache :
        /\ Stands(j, r, u.qual) /\ Plain(u.id[2]) \in DOMAIN j.cache[r]
        /\ j.cache[r][Plain(u.id[2])].kind = "proc" => u.how = "read" \/ << r, u.id[2] >> \in j.in.used
TakenBy(p, j, i) == (p = "inspect" /\ ~j.in.errors /\ i <= j.pos) \/ p \in {"write", "generate", "done"}
Checked(p, j) == \A i \in 1 .. Len(j.text.uses) : TakenBy(p, j, i) => UseOK(j, j.text.uses[i])

JInv(p, j) ==
    /\ IsJob(j) /\ IsInspector(j.in)
    /\ CacheOK(j) /\ SymbolsOK(j) /\ GlobalsOK(p, j) /\ GeneratedOK(p, j) /\ Checked(p, j)
NInv == begun \in 0 .. MaxCompilations /\ \A c \in Compilers : JInv(phase[c], job[c])

(* The symbols that the parser makes.                                      *)
LEMMA ParserNames ==
    ASSUME NEW m \in Modules, NEW text \in Texts[m]
    PROVE  JInv("import", Job(m, text, Inspector(SymbolsOf(m, text), {})))
<1>1. PICK s, x, j : s = SymbolsOf(m, text) /\ x = Inspector(s, {}) /\ j = Job(m, text, x)
  OBVIOUS
<1>2. IsInspector(x) /\ x.symbols = s
  BY <1>1 DEF IsInspector, Inspector
<1>3. /\ IsJob(j) /\ j.in = x /\ j.module = m /\ j.text = text /\ j.pos = 0
      /\ j.cache = << >> /\ j.read = << >> /\ j.globals = {}
  BY <1>1 DEF Job, IsJob
<1>4. CacheOK(j)
  <2>1. IsList(text.imports) /\ IsList(text.uses)
    BY TextsAssumption DEF IsText
  <2>2. QED
    BY <1>3, <2>1 DEF CacheOK
<1>a. GlobalsOK("import", j) /\ GeneratedOK("import", j) /\ Checked("import", j)
  BY <1>3 DEF GlobalsOK, GeneratedOK, Checked, TakenBy
<1>5. SymbolsOK(j)
  <2>1. /\ m # "" /\ \A i \in Range(text.imports) : i[1] # ""
        /\ \A d \in Range(text.decs) : d.id # ""
        /\ text.imports \in Seq(Range(text.imports))
    BY TextsAssumption DEF IsText, IsList
  <2> DEFINE declared == {d.id : d \in {y \in Range(text.decs) : y.kind # "type"}}
             under(n) == {k \in DOMAIN text.imports : text.imports[k][1] = n}
             names == {m} \union {i[1] : i \in Range(text.imports)} \union declared
  <2>2. s = [k \in {Plain(n) : n \in names} |->
               IF k[2] \in declared THEN Symbol("parsed", None)
               ELSE Symbol("module", IF under(k[2]) = {} THEN m ELSE text.imports[Max(under(k[2]))][2])]
    BY <1>1 DEF SymbolsOf
  <2>3. "" \notin names
    BY <2>1
  <2>4. ASSUME NEW n \in names, n \notin declared, under(n) = {}
        PROVE  n = m
    <3>1. \A i \in Range(text.imports) : i[1] # n
      BY <2>4 DEF Range
    <3>2. QED
      BY <2>4, <3>1
  <2>5. ASSUME NEW n \in names, under(n) # {}
        PROVE  \E i \in Range(text.imports) : i[1] = n /\ i[2] = text.imports[Max(under(n))][2]
    <3>1. PICK z : z \in Nat /\ DOMAIN text.imports = 1 .. z
      <4>1. Len(text.imports) \in Nat /\ DOMAIN text.imports = 1 .. Len(text.imports)
        BY <2>1, LenProperties
      <4>2. QED
        BY <4>1
    <3>2. PICK U : U = under(n) /\ U # {} /\ U \subseteq DOMAIN text.imports
      BY <2>5
    <3>3. U \subseteq 0 .. z
      BY <3>1, <3>2
    <3>4. \E y \in U : \A k \in U : k <= y
      BY <3>1, <3>2, <3>3, Greatest
    <3>5. \E y \in U : \A k \in U : y >= k
      BY <3>1, <3>3, <3>4
    <3>6. Max(U) \in U
      BY <3>5 DEF Max
    <3>7. Max(U) \in DOMAIN text.imports /\ text.imports[Max(U)][1] = n
      BY <3>2, <3>6
    <3>8. QED
      BY <3>2, <3>7 DEF Range
  <2> HIDE DEF declared, names, under
  <2>6. ASSUME NEW k \in DOMAIN s PROVE k[2] # "" /\ Own(j, k)
    <3>1. PICK n \in names : k = Plain(n)
      BY <2>2
    <3>2. k[2] = n /\ n # ""
      BY <2>3, <3>1 DEF Plain
    <3>3. CASE n \in declared
      <4>1. s[k] = Symbol("parsed", None)
        BY <2>2, <3>1, <3>2, <3>3
      <4>2. s[k].kind # "module"
        BY <4>1 DEF Symbol
      <4>3. QED
        BY <1>2, <1>3, <3>1, <3>2, <4>2 DEF Own
    <3>4. CASE n \notin declared
      <4>1. s[k] = Symbol("module", IF under(n) = {} THEN m ELSE text.imports[Max(under(n))][2])
        BY <2>2, <3>1, <3>2, <3>4
      <4>2. s[k].type = IF under(n) = {} THEN m ELSE text.imports[Max(under(n))][2]
        BY <4>1 DEF Symbol
      <4>3. Stands(j, s[k].type, n)
        BY <1>3, <2>4, <2>5, <3>4, <4>2 DEF Stands
      <4>4. QED
        BY <1>2, <1>3, <3>1, <3>2, <4>3 DEF Own
    <3>5. QED
      BY <3>3, <3>4
  <2>7. QED
    BY <1>2, <1>3, <2>6 DEF SymbolsOK
<1>6. QED
  BY <1>1, <1>2, <1>3, <1>4, <1>a, <1>5 DEF JInv

(* The error that a wrong name makes stays.                                *)
LEMMA UseVisited ==
    ASSUME NEW in, IsInspector(in), NEW u, u.how \in {"read", "assign", "length", "call"}
    PROVE  LET out == VisitUse(in, u)
               key == Qualident(in, u.qual, u.id)
           IN  /\ IsInspector(out) /\ out.symbols = in.symbols /\ in.used \subseteq out.used
               /\ ~out.errors =>
                    /\ ~in.errors
                    /\ u.how \in {"read", "assign"} => ~Undefined(in, u.qual, key)
                    /\ u.how = "assign" => KindOf(in, key) # "proc"
                    /\ u.how = "call" => KindOf(in, key) = "proc" /\ key \in out.used
<1> DEFINE q == u.qual
<1>1. PICK key, named : key = Qualident(in, q, u.id) /\ named = VisitName(in, q, u.id)
  OBVIOUS
<1>2. /\ IsInspector(named) /\ named.symbols = in.symbols /\ named.used = in.used
      /\ named.errors = (in.errors \/ Undefined(in, q, key))
  BY <1>1, NameVisited
<1>3. PICK out : out = VisitUse(in, u)
  OBVIOUS
<1>4. CASE u.how = "read"
  <2>1. out = named
    BY <1>1, <1>3, <1>4 DEF VisitUse
  <2>2. QED
    BY <1>1, <1>2, <1>3, <1>4, <2>1
<1>5. CASE u.how = "assign"
  <2>1. PICK written : written = IF q = None THEN u.id ELSE << q, u.id[2] >>
    OBVIOUS
  <2>2. CASE KindOf(in, written) = "const"
    <3>1. out = [in EXCEPT !.errors = TRUE]
      BY <1>3, <1>5, <2>1, <2>2 DEF VisitUse
    <3>2. IsInspector(out) /\ out.symbols = in.symbols /\ out.used = in.used /\ out.errors = TRUE
      BY <3>1 DEF IsInspector
    <3>3. QED
      BY <1>3, <3>2
  <2>3. CASE KindOf(in, written) # "const"
    <3>1. PICK e : e = (named.errors \/ KindOf(in, key) \in {"proc", "module"})
      OBVIOUS
    <3>2. out = [named EXCEPT !.errors = e]
      BY <1>1, <1>3, <1>5, <2>1, <2>3, <3>1 DEF VisitUse
    <3>3. IsInspector(out) /\ out.symbols = named.symbols /\ out.used = named.used /\ out.errors = e
      BY <1>2, <3>2 DEF IsInspector
    <3>4. QED
      BY <1>1, <1>2, <1>3, <1>5, <3>1, <3>3
  <2>4. QED
    BY <2>2, <2>3
<1>6. CASE u.how = "length"
  <2>1. PICK e : out = [named EXCEPT !.errors = @ \/ e]
    BY <1>1, <1>3, <1>6 DEF VisitUse
  <2>2. PICK f : f = (named.errors \/ e) /\ out = [named EXCEPT !.errors = f]
    BY <2>1
  <2>3. IsInspector(out) /\ out.symbols = named.symbols /\ out.used = named.used /\ out.errors = f
    BY <1>2, <2>2 DEF IsInspector
  <2>4. QED
    BY <1>1, <1>2, <1>3, <1>6, <2>2, <2>3
<1>7. CASE u.how = "call"
  <2>1. PICK e, used : /\ e = (in.errors \/ KindOf(in, key) # "proc")
                       /\ used = IF KindOf(in, key) = "proc" THEN in.used \union {key} ELSE in.used
    OBVIOUS
  <2>2. out = [in EXCEPT !.errors = e, !.used = used]
    BY <1>1, <1>3, <1>7, <2>1 DEF VisitUse
  <2>3. IsInspector(out) /\ out.symbols = in.symbols /\ out.used = used /\ out.errors = e
    BY <2>2 DEF IsInspector
  <2>4. QED
    BY <1>1, <1>3, <1>7, <2>1, <2>3
<1>8. QED
  BY <1>4, <1>5, <1>6, <1>7

(* A qualified name that is found, is one of the cache.                    *)
LEMMA QualifiedFound ==
    ASSUME NEW j, CacheOK(j), SymbolsOK(j), NEW q, q # None, NEW id, InTable(j.in, Qualident(j.in, q, id))
    PROVE  \E r \in DOMAIN j.cache :
             /\ Stands(j, r, q) /\ Plain(id[2]) \in DOMAIN j.cache[r]
             /\ Qualident(j.in, q, id) = << r, id[2] >>
             /\ KindOf(j.in, Qualident(j.in, q, id)) = j.cache[r][Plain(id[2])].kind
<1>1. PICK r, k : r = ModuleOf(j.in, q) /\ k = Qualident(j.in, q, id)
  OBVIOUS
<1>2. k \in DOMAIN j.in.symbols /\ k[2] # "" /\ (Own(j, k) \/ FromModule(j, k))
  BY <1>1 DEF InTable, SymbolsOK
<1>3. r # None /\ k = << r, id[2] >>
  <2>1. k = IF r # None THEN << r, id[2] >> ELSE Plain("")
    BY <1>1 DEF Qualident
  <2>2. Plain("")[2] = ""
    BY DEF Plain
  <2>3. QED
    BY <1>2, <2>1, <2>2
<1>4. k[1] = r /\ k[2] = id[2]
  BY <1>3
<1>5. ~Own(j, k)
  <2>1. Plain(k[2])[1] = None
    BY DEF Plain
  <2>2. QED
    BY <1>3, <1>4, <2>1 DEF Own
<1>6. r \in DOMAIN j.cache /\ Plain(id[2]) \in DOMAIN j.cache[r] /\ j.in.symbols[k] = j.cache[r][Plain(id[2])]
  BY <1>2, <1>4, <1>5 DEF FromModule
<1>7. Stands(j, r, q)
  <2>1. PICK n : n = Plain(q) /\ n[2] = q
    <3>1. Plain(q)[2] = q
      BY DEF Plain
    <3>2. QED
      BY <3>1
  <2>2. KindOf(j.in, n) = "module" /\ r = j.in.symbols[n].type
    BY <1>1, <1>3, <2>1 DEF ModuleOf
  <2>3. n \in DOMAIN j.in.symbols /\ j.in.symbols[n].kind = "module"
    BY <2>2 DEF KindOf, InTable, None
  <2>4. ~FromModule(j, n)
    <3>1. SUFFICES ASSUME FromModule(j, n) PROVE FALSE
      OBVIOUS
    <3>2. PICK t, y : t = n[1] /\ y = Plain(n[2]) /\ t \in DOMAIN j.cache /\ y \in DOMAIN j.cache[t] /\ j.in.symbols[n] = j.cache[t][y]
      BY <3>1 DEF FromModule
    <3>3. PICK d : SymbolOf(j.cache[t], y, d)
      BY <3>2 DEF CacheOK
    <3>4. j.cache[t][y].kind \in Kinds
      BY <3>3 DEF SymbolOf
    <3>5. QED
      BY <2>3, <3>2, <3>4 DEF Kinds
  <2>5. Own(j, n)
    BY <2>3, <2>4 DEF SymbolsOK
  <2>6. QED
    BY <2>1, <2>2, <2>3, <2>5 DEF Own
<1>8. KindOf(j.in, k) = j.cache[r][Plain(id[2])].kind
  BY <1>2, <1>6 DEF KindOf, InTable
<1>9. QED
  BY <1>1, <1>3, <1>6, <1>7, <1>8

(* What find_module finds: the symbols of a definition that was read.      *)
LEMMA FoundSymbols ==
    ASSUME IInv, NEW c \in Compilers, NEW r, NEW found, found = Find(c, r), ~found.thrown,
           JInv(phase[c], job[c]), \E i \in Range(job[c].text.imports) : i[2] = r
    PROVE  LET k == Kept(c, r, found)
           IN  /\ IsJob(k) /\ CacheOK(k)
               /\ k.in = job[c].in /\ k.module = job[c].module /\ k.text = job[c].text
               /\ k.pos = job[c].pos /\ k.globals = job[c].globals
               /\ \A m \in DOMAIN job[c].cache : m \in DOMAIN k.cache /\ k.cache[m] = job[c].cache[m]
               /\ r \in DOMAIN k.cache /\ k.cache[r] = found.symbols
<1> USE DEF JInv
<1>1. CASE Cached(c, r)
  <2>1. found = [job[c].in EXCEPT !.symbols = job[c].cache[r]]
    BY <1>1 DEF Find
  <2>2. found.symbols = job[c].cache[r]
    BY <2>1 DEF IsInspector
  <2>3. QED
    BY <1>1, <2>2 DEF Kept, Cached
<1>2. CASE ~Cached(c, r)
  <2>1. r \in DOMAIN files /\ Readable(files[r]) /\ found = ReadModule(job[c].in, files[r])
    <3>1. NotFound.thrown
      BY DEF NotFound, Inspector
    <3>2. QED
      BY <1>2, <3>1 DEF Find
  <2>2. PICK p : p = Parsed(files[r])
    OBVIOUS
  <2>3. PICK t \in Texts[r] : FileOf(r, t)
    BY <2>1 DEF IInv, FilesGrow
  <2>4. r \in Modules
    BY <2>1 DEF IInv, Shape
  <2>5. Append(p, End) = Definition(t)
    BY <2>1, <2>2, <2>3, <2>4, ReadableWhole
  <2>6. p \in Seq(Range(p)) /\ Len(p) \in Nat /\ DOMAIN p = 1 .. Len(p)
    <3>1. files[r] \in Seq(Range(files[r])) /\ LineOfEnd(files[r]) \in 1 .. Len(files[r])
      BY <2>1, <2>3 DEF FileOf, Readable
    <3>2. p \in Seq(Range(files[r]))
      BY <2>2, <3>1 DEF Parsed
    <3>3. \A i \in 1 .. Len(p) : p[i] \in Range(p)
      BY <3>2 DEF Range
    <3>4. QED
      BY <3>2, <3>3
  <2>7. \A i \in 1 .. Len(p) : p[i].kind \in Kinds /\ p[i].id # ""
    <3>1. \A i \in 1 .. Len(Definition(t)) - 1 : Definition(t)[i] \in Range(t.decs)
      BY <2>4, DefinitionPrinted
    <3>2. \A d \in Range(t.decs) : d.kind \in Kinds /\ d.id # ""
      BY <2>4, TextsAssumption DEF IsText, Kinds
    <3>3. /\ Len(Append(p, End)) = Len(p) + 1
          /\ \A i \in 1 .. Len(p) : Append(p, End)[i] = p[i]
      BY <2>6
    <3>4. \A i \in 1 .. Len(p) : i \in 1 .. Len(Definition(t)) - 1 /\ Definition(t)[i] = p[i]
      <4>1. (Len(p) + 1) - 1 = Len(p)
        BY <2>6
      <4>2. QED
        BY <2>5, <3>3, <4>1
    <3>5. QED
      BY <3>1, <3>2, <3>4
  <2>8. PICK x : x = Inspector(NoSymbols, job[c].in.types)
    OBVIOUS
  <2>9. IsInspector(x) /\ DOMAIN x.symbols = {}
    BY <2>8 DEF Inspector, IsInspector, NoSymbols
  <2>10. found = Declared(x, p)
    BY <2>1, <2>2, <2>8 DEF ReadModule
  <2>11. MadeBy(x.symbols, found.symbols, Range(p))
    BY <2>6, <2>7, <2>9, <2>10, AllVisited
  <2>12. \A y \in DOMAIN found.symbols : \E d \in Range(p) : SymbolOf(found.symbols, y, d)
    BY <2>9, <2>11 DEF MadeBy
  <2>13. PICK s, k, cache, read :
           /\ s = found.symbols /\ k = Kept(c, r, found)
           /\ cache = Remember(job[c].cache, r, s) /\ read = Remember(job[c].read, r, p)
    OBVIOUS
  <2>14. k = [job[c] EXCEPT !.cache = cache, !.read = read]
    BY <1>2, <2>2, <2>13 DEF Kept
  <2>15. /\ IsJob(k) /\ k.in = job[c].in /\ k.module = job[c].module /\ k.text = job[c].text
         /\ k.pos = job[c].pos /\ k.globals = job[c].globals /\ k.cache = cache /\ k.read = read
    BY <2>14 DEF IsJob
  <2>16. /\ DOMAIN cache = {r} \union DOMAIN job[c].cache /\ cache[r] = s
         /\ \A m \in DOMAIN job[c].cache : m # r /\ cache[m] = job[c].cache[m]
         /\ DOMAIN read = {r} \union DOMAIN job[c].read /\ read[r] = p
         /\ \A m \in DOMAIN job[c].read : m # r => read[m] = job[c].read[m]
    BY <1>2, <2>13 DEF Remember, Cached
  <2>17. CacheOK(k)
    <3>1. DOMAIN cache = DOMAIN read
      BY <2>16 DEF CacheOK
    <3>2. ASSUME NEW m \in DOMAIN cache
          PROVE  /\ m \in Modules
                 /\ read[m] \in Seq(Range(read[m]))
                 /\ \E i \in Range(job[c].text.imports) : i[2] = m
                 /\ \A y \in DOMAIN cache[m] : \E d \in Range(read[m]) : SymbolOf(cache[m], y, d)
      <4>1. CASE m = r
        BY <2>4, <2>6, <2>12, <2>13, <2>16, <4>1
      <4>2. CASE m # r
        <5>1. m \in DOMAIN job[c].cache /\ cache[m] = job[c].cache[m] /\ read[m] = job[c].read[m]
          BY <2>16, <4>2 DEF CacheOK
        <5>2. QED
          BY <5>1 DEF CacheOK
      <4>3. QED
        BY <4>1, <4>2
    <3>3. IsList(k.text.imports) /\ IsList(k.text.uses)
      BY <2>15 DEF CacheOK
    <3>4. QED
      BY <2>15, <3>1, <3>2, <3>3 DEF CacheOK
  <2>18. QED
    BY <2>13, <2>15, <2>16, <2>17
<1>3. QED
  BY <1>1, <1>2

(* What holds of a symbol table is not lost when the cache grows, nor when *)
(* symbols of the cache or of declarations are added.                      *)
LEMMA SymbolsStay ==
    ASSUME NEW j, SymbolsOK(j), NEW k, k.text = j.text, k.module = j.module,
           \A m \in DOMAIN j.cache : m \in DOMAIN k.cache /\ k.cache[m] = j.cache[m],
           \A key \in DOMAIN k.in.symbols :
             \/ key \in DOMAIN j.in.symbols /\ k.in.symbols[key] = j.in.symbols[key]
             \/ key[2] # "" /\ (Own(k, key) \/ FromModule(k, key))
    PROVE  SymbolsOK(k)
<1> SUFFICES ASSUME NEW key \in DOMAIN j.in.symbols, k.in.symbols[key] = j.in.symbols[key]
             PROVE  key[2] # "" /\ (Own(k, key) \/ FromModule(k, key))
  BY DEF SymbolsOK
<1>1. Own(j, key) => Own(k, key)
  BY DEF Own, Stands
<1>2. FromModule(j, key) => FromModule(k, key)
  BY DEF FromModule
<1>3. QED
  BY <1>1, <1>2 DEF SymbolsOK

LEMMA NamesTransferred ==
    ASSUME NEW in, IsInspector(in), NEW r, NEW symbols
    PROVE  LET out == Transferred(in, r, symbols)
           IN  /\ IsInspector(out)
               /\ \A key \in DOMAIN out.symbols :
                    \/ key \in DOMAIN in.symbols /\ out.symbols[key] = in.symbols[key]
                    \/ \E k \in DOMAIN symbols : key = << r, k[2] >> /\ out.symbols[key] = symbols[Plain(k[2])]
<1>1. PICK keys : keys = {<< r, k[2] >> : k \in DOMAIN symbols}
  OBVIOUS
<1>2. PICK new : new = [k \in keys \union DOMAIN in.symbols |-> IF k \in keys THEN symbols[Plain(k[2])] ELSE in.symbols[k]]
  OBVIOUS
<1>3. PICK out : out = Transferred(in, r, symbols) /\ out = [in EXCEPT !.symbols = new]
  BY <1>1, <1>2 DEF Transferred
<1>4. IsInspector(out) /\ out.symbols = new
  BY <1>3 DEF IsInspector
<1>5. ASSUME NEW key \in keys PROVE \E k \in DOMAIN symbols : key = << r, k[2] >> /\ new[key] = symbols[Plain(k[2])]
  <2>1. PICK k \in DOMAIN symbols : key = << r, k[2] >>
    BY <1>1
  <2>2. key[2] = k[2] /\ new[key] = symbols[Plain(key[2])]
    BY <1>2, <2>1
  <2>3. QED
    BY <2>1, <2>2
<1>6. \A key \in DOMAIN new : key \in keys \/ (key \in DOMAIN in.symbols /\ new[key] = in.symbols[key])
  BY <1>2
<1>7. QED
  BY <1>3, <1>4, <1>5, <1>6

-----------------------------------------------------------------------------
(* Every step of a compiler keeps the invariant of names of its own job.   *)
Becomes(c, p, j) == phase' = [phase EXCEPT ![c] = p] /\ job' = [job EXCEPT ![c] = j] /\ UNCHANGED begun

LEMMA NamesStep ==
    ASSUME IInv, NInv, NEW c \in Compilers, NEW p, NEW j, Becomes(c, p, j), JInv(p, j)
    PROVE  NInv'
<1>1. /\ phase'[c] = p /\ job'[c] = j
      /\ \A d \in Compilers : d # c => phase'[d] = phase[d] /\ job'[d] = job[d]
  BY DEF Becomes, IInv, Shape
<1>2. \A d \in Compilers : JInv(phase'[d], job'[d])
  BY <1>1 DEF NInv
<1>3. QED
  BY <1>2 DEF NInv, Becomes

LEMMA NamesStop ==
    ASSUME IInv, NInv, NEW c \in Compilers, NEW p \in {"missing", "rejected", "aborted", "thrown"}, Stop(c, p)
    PROVE  NInv'
<1>1. PICK i, j : i = job[c] /\ j = [i EXCEPT !.globals = {}]
  OBVIOUS
<1>2. JInv(phase[c], i)
  BY <1>1 DEF NInv
<1>3. /\ IsJob(j) /\ j.in = i.in /\ j.module = i.module /\ j.text = i.text /\ j.pos = i.pos
      /\ j.cache = i.cache /\ j.read = i.read /\ j.globals = {}
  BY <1>1, <1>2 DEF JInv, IsJob
<1>4. CacheOK(j)
  BY <1>2, <1>3 DEF JInv, CacheOK
<1>5. SymbolsOK(j)
  <2>1. ASSUME NEW k
        PROVE  (Own(i, k) => Own(j, k)) /\ (FromModule(i, k) => FromModule(j, k))
    BY <1>3 DEF Own, Stands, FromModule
  <2>2. SymbolsOK(i)
    BY <1>2 DEF JInv
  <2>3. QED
    BY <1>3, <2>1, <2>2 DEF SymbolsOK
<1>6. GlobalsOK(p, j) /\ GeneratedOK(p, j) /\ Checked(p, j)
  BY <1>3 DEF GlobalsOK, GeneratedOK, Checked, TakenBy
<1>7. JInv(p, j)
  BY <1>2, <1>3, <1>4, <1>5, <1>6 DEF JInv
<1>8. Becomes(c, p, j)
  BY <1>1 DEF Stop, Goto, Becomes
<1>9. QED
  BY <1>7, <1>8, NamesStep

LEMMA NamesImport ==
    ASSUME IInv, NInv, NEW c \in Compilers, Import(c)
    PROVE  NInv'
<1>1. phase[c] = "import" /\ JInv("import", job[c]) /\ job[c].pos < Len(job[c].text.imports)
  BY DEF Import, Importing, NInv
<1>2. PICK r, found :
        /\ r = NextModule(c) /\ found = Find(c, r)
        /\ IF found.thrown THEN Stop(c, "missing")
           ELSE Goto(c, "import", [Kept(c, r, found) EXCEPT !.in = TakenIn(@, r, found), !.pos = @ + 1])
  BY DEF Import
<1>3. CASE found.thrown
  BY <1>2, <1>3, NamesStop
<1>4. CASE ~found.thrown
  <2>1. \E i \in Range(job[c].text.imports) : i[2] = r
    <3>1. Running(c)
      BY <1>1 DEF Running
    <3>2. IsText(job[c].text)
      BY <3>1, TextsAssumption DEF IInv, Working
    <3>3. PICK s : s = job[c].text.imports /\ s \in Seq(Range(s))
      BY <3>2 DEF IsText, IsList
    <3>4. job[c].pos + 1 \in 1 .. Len(s) /\ DOMAIN s = 1 .. Len(s)
      BY <1>1, <3>3, LenProperties DEF JInv, IsJob
    <3>5. r = s[job[c].pos + 1][2]
      BY <1>2, <3>3 DEF NextModule
    <3>6. QED
      BY <3>3, <3>4, <3>5 DEF Range
  <2>2. PICK k : k = Kept(c, r, found)
    OBVIOUS
  <2>3. /\ IsJob(k) /\ CacheOK(k)
        /\ k.in = job[c].in /\ k.module = job[c].module /\ k.text = job[c].text
        /\ k.pos = job[c].pos /\ k.globals = job[c].globals
        /\ \A m \in DOMAIN job[c].cache : m \in DOMAIN k.cache /\ k.cache[m] = job[c].cache[m]
        /\ r \in DOMAIN k.cache /\ k.cache[r] = found.symbols
    BY <1>1, <1>2, <1>4, <2>1, <2>2, FoundSymbols
  <2>4. PICK e, in : e = (k.in.errors \/ found.errors) /\ in = [k.in EXCEPT !.types = found.types, !.errors = e]
    OBVIOUS
  <2>5. PICK out : out = Transferred(in, r, found.symbols)
    OBVIOUS
  <2>a. out = TakenIn(k.in, r, found)
    BY <2>4, <2>5 DEF TakenIn
  <2>6. PICK j : j = [k EXCEPT !.in = out, !.pos = @ + 1] /\ Becomes(c, "import", j)
    BY <1>2, <1>4, <2>2, <2>a DEF Goto, Becomes
  <2>7. IsInspector(in) /\ in.symbols = job[c].in.symbols
    <3>1. PICK x, types : x = k.in /\ types = found.types
      OBVIOUS
    <3>2. IsInspector(x) /\ in = [x EXCEPT !.types = types, !.errors = e] /\ x = job[c].in
      BY <1>1, <2>3, <2>4, <3>1 DEF JInv
    <3>3. IsInspector(in) /\ in.symbols = x.symbols
      BY <3>2 DEF IsInspector
    <3>4. QED
      BY <3>2, <3>3
  <2>8. k.pos + 1 \in Nat
    BY <2>3 DEF IsJob
  <2>9. /\ IsJob(j) /\ j.in = out /\ j.module = job[c].module /\ j.text = job[c].text
        /\ j.cache = k.cache /\ j.read = k.read /\ j.globals = job[c].globals
    BY <2>3, <2>6, <2>8 DEF IsJob
  <2>10. CacheOK(j)
    BY <2>3, <2>9 DEF CacheOK
  <2>11. /\ IsInspector(out)
         /\ \A key \in DOMAIN out.symbols :
              \/ key \in DOMAIN in.symbols /\ out.symbols[key] = in.symbols[key]
              \/ \E x \in DOMAIN found.symbols : key = << r, x[2] >> /\ out.symbols[key] = found.symbols[Plain(x[2])]
    BY <2>5, <2>7, NamesTransferred
  <2>12. ASSUME NEW key \in DOMAIN out.symbols, NEW x \in DOMAIN found.symbols, key = << r, x[2] >>,
                out.symbols[key] = found.symbols[Plain(x[2])]
         PROVE  key[2] # "" /\ FromModule(j, key)
    <3>1. PICK d : SymbolOf(k.cache[r], x, d)
      BY <2>3, <2>12 DEF CacheOK
    <3>2. d.id # "" /\ x = Plain(d.id)
      BY <3>1 DEF SymbolOf
    <3>3. x[2] = d.id
      BY <3>2 DEF Plain
    <3>4. key[1] = r /\ key[2] = d.id /\ key = << key[1], key[2] >> /\ Plain(key[2]) = x
      BY <2>12, <3>2, <3>3
    <3>5. QED
      BY <2>3, <2>9, <2>12, <3>2, <3>3, <3>4 DEF FromModule
  <2>13. SymbolsOK(j)
    <3>1. SymbolsOK(job[c])
      BY <1>1 DEF JInv
    <3>2. \A key \in DOMAIN j.in.symbols :
             \/ key \in DOMAIN job[c].in.symbols /\ j.in.symbols[key] = job[c].in.symbols[key]
             \/ key[2] # "" /\ (Own(j, key) \/ FromModule(j, key))
      BY <2>7, <2>9, <2>11, <2>12
    <3>3. QED
      BY <2>3, <2>9, <3>1, <3>2, SymbolsStay, ZenonT(60)
  <2>14. j.globals = {}
    BY <1>1, <2>9 DEF JInv, GlobalsOK
  <2>15. GlobalsOK("import", j) /\ GeneratedOK("import", j) /\ Checked("import", j)
    BY <2>14 DEF GlobalsOK, GeneratedOK, Checked, TakenBy
  <2>16. JInv("import", j)
    BY <2>9, <2>10, <2>11, <2>13, <2>15 DEF JInv
  <2>17. QED
    BY <2>6, <2>16, NamesStep
<1>5. QED
  BY <1>3, <1>4

LEMMA NamesDeclared ==
    ASSUME IInv, NInv, NEW c \in Compilers, InspectDeclarations(c)
    PROVE  NInv'
<1>1. phase[c] = "import" /\ JInv("import", job[c])
  BY DEF InspectDeclarations, NInv
<1>2. PICK in : /\ in = Declared(job[c].in, job[c].text.decs)
                /\ IF in.thrown THEN Stop(c, "rejected")
                   ELSE Goto(c, "inspect", [job[c] EXCEPT !.in = in, !.pos = 0])
  BY DEF InspectDeclarations
<1>3. CASE in.thrown
  BY <1>2, <1>3, NamesStop
<1>4. CASE ~in.thrown
  <2>1. PICK i, j : i = job[c] /\ j = [i EXCEPT !.in = in, !.pos = 0] /\ Becomes(c, "inspect", j)
    BY <1>2, <1>4 DEF Goto, Becomes
  <2>2. JInv("import", i)
    BY <1>1, <2>1
  <2>3. /\ IsJob(j) /\ j.in = in /\ j.module = i.module /\ j.text = i.text /\ j.pos = 0
        /\ j.cache = i.cache /\ j.read = i.read /\ j.globals = i.globals
    BY <2>1, <2>2 DEF JInv, IsJob
  <2>4. PICK decs, n : /\ decs = i.text.decs /\ n \in Nat /\ DOMAIN decs = 1 .. n
                       /\ \A x \in 1 .. n : decs[x].kind \in Kinds /\ decs[x].id # ""
    <3>1. Running(c)
      BY <1>1 DEF Running
    <3>2. IsText(i.text)
      BY <2>1, <3>1, TextsAssumption DEF IInv, Working
    <3>3. PICK s : s = i.text.decs /\ s \in Seq(Range(s))
      BY <3>2 DEF IsText, IsList
    <3>4. Len(s) \in Nat /\ DOMAIN s = 1 .. Len(s)
      BY <3>3, LenProperties
    <3>5. \A x \in 1 .. Len(s) : s[x] \in Range(s)
      BY <3>4 DEF Range
    <3>6. \A x \in 1 .. Len(s) : s[x].kind \in Kinds /\ s[x].id # ""
      BY <3>2, <3>3, <3>5 DEF IsText, Kinds
    <3>7. QED
      BY <3>3, <3>4, <3>6
  <2>5. IsInspector(in) /\ MadeBy(i.in.symbols, in.symbols, Range(decs))
    BY <1>2, <2>1, <2>2, <2>4, AllVisited DEF JInv
  <2>6. CacheOK(j)
    BY <2>2, <2>3 DEF JInv, CacheOK
  <2>7. ASSUME NEW key \in DOMAIN in.symbols, NEW d \in Range(decs), SymbolOf(in.symbols, key, d)
        PROVE  key[2] # "" /\ Own(j, key)
    <3>1. d.id # "" /\ key = Plain(d.id) /\ in.symbols[key].kind \in Kinds
      BY <2>7 DEF SymbolOf
    <3>2. key[2] = d.id /\ in.symbols[key].kind # "module"
      BY <3>1 DEF Plain, Kinds
    <3>3. QED
      BY <2>3, <3>1, <3>2 DEF Own
  <2>8. SymbolsOK(j)
    <3>1. SymbolsOK(i)
      BY <2>2 DEF JInv
    <3>2. \A key \in DOMAIN j.in.symbols :
             \/ key \in DOMAIN i.in.symbols /\ j.in.symbols[key] = i.in.symbols[key]
             \/ key[2] # "" /\ (Own(j, key) \/ FromModule(j, key))
      BY <2>3, <2>5, <2>7 DEF MadeBy
    <3>3. QED
      BY <2>3, <3>1, <3>2, SymbolsStay
  <2>9. j.globals = {}
    BY <2>2, <2>3 DEF JInv, GlobalsOK
  <2>10. GlobalsOK("inspect", j) /\ GeneratedOK("inspect", j) /\ Checked("inspect", j)
    <3>1. \A x \in 1 .. Len(j.text.uses) : ~(x <= j.pos)
      BY <2>3
    <3>2. QED
      BY <2>9, <3>1 DEF GlobalsOK, GeneratedOK, Checked, TakenBy
  <2>11. JInv("inspect", j)
    BY <2>3, <2>5, <2>6, <2>8, <2>10 DEF JInv
  <2>12. QED
    BY <2>1, <2>11, NamesStep
<1>5. QED
  BY <1>3, <1>4

LEMMA SameNames ==
    ASSUME NEW i, CacheOK(i), SymbolsOK(i),
           NEW j, j.module = i.module, j.text = i.text, j.in.symbols = i.in.symbols, j.cache = i.cache, j.read = i.read
    PROVE  CacheOK(j) /\ SymbolsOK(j)
<1>1. CacheOK(j)
  BY DEF CacheOK
<1>2. SymbolsOK(j)
  BY SymbolsStay DEF SymbolsOK
<1>3. QED
  BY <1>1, <1>2

LEMMA NamesUsed ==
    ASSUME IInv, NInv, NEW c \in Compilers, InspectUse(c)
    PROVE  NInv'
<1>1. phase[c] = "inspect" /\ JInv("inspect", job[c]) /\ job[c].pos < Len(job[c].text.uses)
  BY DEF InspectUse, NInv
<1>2. PICK i, u : i = job[c] /\ u = i.text.uses[i.pos + 1]
  OBVIOUS
<1>3. JInv("inspect", i)
  BY <1>1, <1>2
<1>4. PICK out : out = VisitUse(i.in, u) /\ Goto(c, "inspect", [i EXCEPT !.in = out, !.pos = @ + 1])
  BY <1>2 DEF InspectUse
<1>5. PICK j : j = [i EXCEPT !.in = out, !.pos = @ + 1] /\ Becomes(c, "inspect", j)
  BY <1>2, <1>4 DEF Goto, Becomes
<1>6. i.pos \in Nat /\ i.pos + 1 \in Nat
  BY <1>3 DEF JInv, IsJob
<1>7. /\ IsJob(j) /\ j.in = out /\ j.module = i.module /\ j.text = i.text /\ j.pos = i.pos + 1
      /\ j.cache = i.cache /\ j.read = i.read /\ j.globals = i.globals
  BY <1>3, <1>5, <1>6 DEF JInv, IsJob
<1>8. u.how \in {"read", "assign", "length", "call"}
  <2>1. Running(c)
    BY <1>1 DEF Running
  <2>2. IsText(i.text)
    BY <1>2, <2>1, TextsAssumption DEF IInv, Working
  <2>3. PICK s : s = i.text.uses /\ s \in Seq(Range(s))
    BY <2>2 DEF IsText, IsList
  <2>4. i.pos + 1 \in 1 .. Len(s) /\ DOMAIN s = 1 .. Len(s)
    BY <1>1, <1>2, <1>6, <2>3, LenProperties
  <2>5. u \in Range(s)
    BY <1>2, <2>3, <2>4 DEF Range
  <2>6. QED
    BY <2>2, <2>3, <2>5 DEF IsText
<1>9. PICK key : key = Qualident(i.in, u.qual, u.id)
  OBVIOUS
<1>10. /\ IsInspector(out) /\ out.symbols = i.in.symbols /\ i.in.used \subseteq out.used
       /\ ~out.errors =>
            /\ ~i.in.errors
            /\ u.how \in {"read", "assign"} => ~Undefined(i.in, u.qual, key)
            /\ u.how = "assign" => KindOf(i.in, key) # "proc"
            /\ u.how = "call" => KindOf(i.in, key) = "proc" /\ key \in out.used
  BY <1>3, <1>4, <1>8, <1>9, UseVisited DEF JInv
<1>11. CacheOK(j) /\ SymbolsOK(j)
  BY <1>3, <1>7, <1>10, SameNames DEF JInv
<1>12. GlobalsOK("inspect", j) /\ GeneratedOK("inspect", j)
  BY <1>3, <1>7 DEF JInv, GlobalsOK, GeneratedOK
<1>13. ASSUME ~out.errors PROVE UseOK(j, u)
  <2> SUFFICES ASSUME u.qual # None, u.how # "length"
               PROVE  \E r \in DOMAIN j.cache :
                        /\ Stands(j, r, u.qual) /\ Plain(u.id[2]) \in DOMAIN j.cache[r]
                        /\ j.cache[r][Plain(u.id[2])].kind = "proc" => u.how = "read" \/ << r, u.id[2] >> \in out.used
    BY <1>7 DEF UseOK
  <2>1. InTable(i.in, key)
    BY <1>8, <1>10, <1>13 DEF Undefined, KindOf, None
  <2>2. PICK r \in DOMAIN i.cache :
          /\ Stands(i, r, u.qual) /\ Plain(u.id[2]) \in DOMAIN i.cache[r]
          /\ key = << r, u.id[2] >> /\ KindOf(i.in, key) = i.cache[r][Plain(u.id[2])].kind
    BY <1>3, <1>9, <2>1, QualifiedFound DEF JInv
  <2>3. Stands(j, r, u.qual)
    BY <1>7, <2>2 DEF Stands
  <2>4. i.cache[r][Plain(u.id[2])].kind = "proc" => u.how = "read" \/ << r, u.id[2] >> \in out.used
    BY <1>8, <1>10, <1>13, <2>2
  <2>5. QED
    BY <1>7, <2>2, <2>3, <2>4
<1>14. Checked("inspect", j)
  <2> SUFFICES ASSUME NEW x \in 1 .. Len(j.text.uses), ~out.errors, x <= i.pos + 1
               PROVE  UseOK(j, j.text.uses[x])
    BY <1>7 DEF Checked, TakenBy
  <2>1. CASE x = i.pos + 1
    BY <1>2, <1>7, <1>13, <2>1
  <2>2. CASE x # i.pos + 1
    <3>1. x <= i.pos
      BY <1>6, <2>2
    <3>2. UseOK(i, i.text.uses[x])
      BY <1>3, <1>7, <1>10, <3>1 DEF JInv, Checked, TakenBy
    <3>3. QED
      BY <1>7, <1>10, <3>2 DEF UseOK, Stands
  <2>3. QED
    BY <2>1, <2>2
<1>15. JInv("inspect", j)
  BY <1>7, <1>10, <1>11, <1>12, <1>14 DEF JInv
<1>16. QED
  BY <1>5, <1>15, NamesStep

(* A step that only moves on: of the phase and of the position.            *)
LEMMA NamesMoved ==
    ASSUME IInv, NInv, NEW c \in Compilers, NEW p, NEW n \in Nat, Becomes(c, p, [job[c] EXCEPT !.pos = n]),
           job[c].globals # {} => p \in {"generate", "done"},
           p \in {"generate", "done"} => n = 0,
           p # "done",
           \A x \in 1 .. Len(job[c].text.uses) :
             TakenBy(p, [job[c] EXCEPT !.pos = n], x) => UseOK(job[c], job[c].text.uses[x])
    PROVE  NInv'
<1>1. PICK i, j : i = job[c] /\ j = [i EXCEPT !.pos = n]
  OBVIOUS
<1>2. JInv(phase[c], i)
  BY <1>1 DEF NInv
<1>3. /\ IsJob(j) /\ j.in = i.in /\ j.module = i.module /\ j.text = i.text /\ j.pos = n
      /\ j.cache = i.cache /\ j.read = i.read /\ j.globals = i.globals
  BY <1>1, <1>2 DEF JInv, IsJob
<1>4. CacheOK(j) /\ SymbolsOK(j)
  BY <1>2, <1>3, SameNames DEF JInv
<1>5. GlobalsOK(p, j)
  BY <1>1, <1>2, <1>3 DEF JInv, GlobalsOK
<1>6. GeneratedOK(p, j)
  <2>1. \A x \in 1 .. Len(j.text.imports) : ~(x <= 0)
    OBVIOUS
  <2>2. QED
    BY <1>3, <2>1 DEF GeneratedOK
<1>7. Checked(p, j)
  <2> SUFFICES ASSUME NEW x \in 1 .. Len(i.text.uses), TakenBy(p, j, x)
               PROVE  UseOK(j, i.text.uses[x])
    BY <1>3 DEF Checked
  <2>1. UseOK(i, i.text.uses[x])
    BY <1>1
  <2>2. QED
    BY <1>3, <2>1 DEF UseOK, Stands
<1>8. JInv(p, j) /\ Becomes(c, p, j)
  BY <1>1, <1>2, <1>3, <1>4, <1>5, <1>6, <1>7 DEF JInv
<1>9. QED
  BY <1>8, NamesStep

LEMMA NamesEnded ==
    ASSUME IInv, NInv, NEW c \in Compilers,
           EndInspection(c) \/ WriteLine(c) \/ EndDefinition(c)
    PROVE  NInv'
<1>1. JInv(phase[c], job[c]) /\ job[c].pos \in Nat
  BY DEF NInv, JInv, IsJob
<1>2. CASE EndInspection(c)
  <2>1. phase[c] = "inspect" /\ job[c].pos = Len(job[c].text.uses)
    BY <1>2 DEF EndInspection
  <2>2. CASE job[c].in.errors
    BY <1>2, <2>2, NamesStop DEF EndInspection
  <2>3. CASE ~job[c].in.errors
    <3>1. Becomes(c, "write", [job[c] EXCEPT !.pos = 0])
      BY <1>2, <2>3 DEF EndInspection, Goto, Becomes
    <3>2. job[c].globals = {}
      BY <1>1, <2>1 DEF JInv, GlobalsOK
    <3>3. \A x \in 1 .. Len(job[c].text.uses) : UseOK(job[c], job[c].text.uses[x])
      BY <1>1, <2>1, <2>3 DEF JInv, Checked, TakenBy
    <3>4. QED
      BY <3>1, <3>2, <3>3, NamesMoved
  <2>4. QED
    BY <2>2, <2>3
<1>3. CASE WriteLine(c) \/ EndDefinition(c)
  <2>1. PICK p, n : /\ phase[c] = "write" /\ n \in Nat /\ p \in {"write", "generate"}
                    /\ p = "generate" => n = 0
                    /\ Becomes(c, p, [job[c] EXCEPT !.pos = n])
    <3>1. CASE WriteLine(c)
      <4>1. job[c].pos + 1 \in Nat
        BY <1>1
      <4>2. phase[c] = "write" /\ Becomes(c, "write", [job[c] EXCEPT !.pos = job[c].pos + 1])
        BY <3>1 DEF WriteLine, Goto, Becomes
      <4>3. QED
        BY <4>1, <4>2
    <3>2. CASE EndDefinition(c)
      <4>1. phase[c] = "write" /\ Becomes(c, "generate", [job[c] EXCEPT !.pos = 0])
        BY <3>2 DEF EndDefinition, Goto, Becomes
      <4>2. QED
        BY <4>1
    <3>3. QED
      BY <1>3, <3>1, <3>2
  <2>2. job[c].globals = {}
    BY <1>1, <2>1 DEF JInv, GlobalsOK
  <2>3. \A x \in 1 .. Len(job[c].text.uses) : UseOK(job[c], job[c].text.uses[x])
    BY <1>1, <2>1 DEF JInv, Checked, TakenBy
  <2>4. p \in {"generate", "done"} => n = 0
    BY <2>1
  <2>5. p # "done"
    BY <2>1
  <2>6. QED
    BY <2>1, <2>2, <2>3, <2>4, <2>5, NamesMoved
<1>4. QED
  BY <1>2, <1>3

LEMMA NamesGenerate ==
    ASSUME IInv, NInv, NEW c \in Compilers, GenerateImport(c)
    PROVE  NInv'
<1>1. PICK i : i = job[c] /\ phase[c] = "generate" /\ JInv("generate", i) /\ i.pos < Len(i.text.imports)
  BY DEF GenerateImport, Importing, NInv
<1>2. PICK r, found :
        /\ r = NextModule(c) /\ found = Find(c, r)
        /\ \/ Stop(c, "aborted")
           \/ ~found.thrown /\ Goto(c, "generate", [Kept(c, r, found) EXCEPT !.pos = @ + 1,
                                                      !.globals = @ \union Globals(i.in, r, found.symbols)])
  BY <1>1 DEF GenerateImport
<1>3. CASE Stop(c, "aborted")
  BY <1>3, NamesStop
<1>4. CASE ~Stop(c, "aborted")
  <2>0. i.pos \in Nat /\ i.pos + 1 \in Nat
    BY <1>1 DEF JInv, IsJob
  <2>1. r = i.text.imports[i.pos + 1][2] /\ \E x \in Range(i.text.imports) : x[2] = r
    <3>1. Running(c)
      BY <1>1 DEF Running
    <3>2. IsText(i.text)
      BY <1>1, <3>1, TextsAssumption DEF IInv, Working
    <3>3. PICK s : s = i.text.imports /\ s \in Seq(Range(s))
      BY <3>2 DEF IsText, IsList
    <3>4. i.pos + 1 \in 1 .. Len(s) /\ DOMAIN s = 1 .. Len(s)
      BY <1>1, <2>0, <3>3, LenProperties
    <3>5. r = s[i.pos + 1][2]
      BY <1>1, <1>2, <3>3 DEF NextModule
    <3>6. QED
      BY <3>3, <3>4, <3>5 DEF Range
  <2>2. PICK k, new : k = Kept(c, r, found) /\ new = Globals(i.in, r, found.symbols)
    OBVIOUS
  <2>3. /\ IsJob(k) /\ CacheOK(k)
        /\ k.in = i.in /\ k.module = i.module /\ k.text = i.text
        /\ k.pos = i.pos /\ k.globals = i.globals
        /\ \A m \in DOMAIN i.cache : m \in DOMAIN k.cache /\ k.cache[m] = i.cache[m]
        /\ r \in DOMAIN k.cache /\ k.cache[r] = found.symbols
    <3>1. JInv(phase[c], job[c]) /\ \E x \in Range(job[c].text.imports) : x[2] = r
      BY <1>1, <2>1
    <3>2. found = Find(c, r) /\ ~found.thrown
      BY <1>2, <1>4
    <3>3. QED
      BY <1>1, <2>2, <3>1, <3>2, FoundSymbols
  <2>4. PICK j : j = [k EXCEPT !.pos = @ + 1, !.globals = @ \union new] /\ Becomes(c, "generate", j)
    BY <1>2, <1>4, <2>2 DEF Goto, Becomes
  <2>5. /\ IsJob(j) /\ j.in = i.in /\ j.module = i.module /\ j.text = i.text /\ j.pos = i.pos + 1
        /\ j.cache = k.cache /\ j.read = k.read /\ j.globals = i.globals \union new
    BY <2>0, <2>3, <2>4 DEF IsJob
  <2>6. CacheOK(j)
    BY <2>3, <2>5 DEF CacheOK
  <2>7. SymbolsOK(j)
    <3>1. SymbolsOK(i)
      BY <1>1 DEF JInv
    <3>2. \A key \in DOMAIN j.in.symbols : key \in DOMAIN i.in.symbols /\ j.in.symbols[key] = i.in.symbols[key]
      BY <2>5
    <3>3. QED
      BY <2>3, <2>5, <3>1, <3>2, SymbolsStay
  <2>8. GlobalsOK("generate", j)
    <3>1. ASSUME NEW g \in i.globals
          PROVE  g[1] \in DOMAIN k.cache /\ Plain(g[2]) \in DOMAIN k.cache[g[1]]
      BY <1>1, <2>3 DEF JInv, GlobalsOK
    <3>2. ASSUME NEW g \in new
          PROVE  g[1] \in DOMAIN k.cache /\ Plain(g[2]) \in DOMAIN k.cache[g[1]]
      <4>1. PICK x \in DOMAIN k.cache[r] : g = << r, x[2] >>
        BY <2>2, <2>3 DEF Globals
      <4>2. PICK d : SymbolOf(k.cache[r], x, d)
        BY <2>3, <4>1 DEF CacheOK
      <4>3. x = Plain(x[2])
        BY <4>2 DEF SymbolOf, Plain
      <4>4. g[1] = r /\ g[2] = x[2]
        BY <4>1
      <4>5. QED
        BY <2>3, <4>3, <4>4
    <3>3. QED
      BY <2>5, <3>1, <3>2 DEF GlobalsOK
  <2>9. GeneratedOK("generate", j)
    <3> SUFFICES ASSUME NEW x \in 1 .. Len(i.text.imports), x <= i.pos + 1
                 PROVE  ImportGenerated(j, i.text.imports[x][2])
      BY <2>5 DEF GeneratedOK
    <3>1. CASE x = i.pos + 1
      BY <2>1, <2>2, <2>3, <2>5, <3>1 DEF ImportGenerated
    <3>2. CASE x # i.pos + 1
      <4>1. x <= i.pos
        BY <2>0, <3>2
      <4>2. ImportGenerated(i, i.text.imports[x][2])
        BY <1>1, <4>1 DEF JInv, GeneratedOK
      <4>3. QED
        BY <2>3, <2>5, <4>2 DEF ImportGenerated
    <3>3. QED
      BY <3>1, <3>2
  <2>10. Checked("generate", j)
    <3> SUFFICES ASSUME NEW x \in 1 .. Len(i.text.uses)
                 PROVE  UseOK(j, i.text.uses[x])
      BY <2>5 DEF Checked
    <3>1. UseOK(i, i.text.uses[x])
      BY <1>1 DEF JInv, Checked, TakenBy
    <3>2. QED
      BY <2>3, <2>5, <3>1 DEF UseOK, Stands
  <2>11. JInv("generate", j)
    BY <1>1, <2>5, <2>6, <2>7, <2>8, <2>9, <2>10 DEF JInv
  <2>12. QED
    BY <2>4, <2>11, NamesStep
<1>5. QED
  BY <1>3, <1>4

LEMMA NamesInvariance == Spec => [](IInv /\ NInv)
<1>1. Init => IInv /\ NInv
  <2> SUFFICES ASSUME Init PROVE NInv
    BY InitInv
  <2>1. PICK x, j : x = Inspector(NoSymbols, {}) /\ j = NoJob
    OBVIOUS
  <2>2. IsInspector(x) /\ DOMAIN x.symbols = {}
    BY <2>1 DEF IsInspector, Inspector, NoSymbols
  <2>3. /\ IsJob(j) /\ j.in = x /\ j.text = NoText /\ j.pos = 0
        /\ j.cache = << >> /\ j.read = << >> /\ j.globals = {}
    BY <2>1 DEF NoJob, Job, IsJob
  <2>a. << >> \in Seq(Range(<< >>))
    OBVIOUS
  <2>b. IsList(j.text.imports) /\ IsList(j.text.uses)
    BY <2>3, <2>a DEF IsList, NoText
  <2>c. CacheOK(j)
    BY <2>3, <2>b DEF CacheOK
  <2>d. SymbolsOK(j)
    BY <2>2, <2>3 DEF SymbolsOK
  <2>e. GlobalsOK("idle", j) /\ GeneratedOK("idle", j) /\ Checked("idle", j)
    BY <2>3 DEF GlobalsOK, GeneratedOK, Checked, TakenBy
  <2>4. JInv("idle", j)
    BY <2>2, <2>3, <2>c, <2>d, <2>e DEF JInv
  <2>5. begun = 0 /\ \A c \in Compilers : phase[c] = "idle" /\ job[c] = j
    BY <2>1 DEF Init
  <2>6. 0 \in 0 .. MaxCompilations
    BY BoundsAssumption
  <2>7. QED
    BY <2>4, <2>5, <2>6 DEF NInv
<1>2. IInv /\ NInv /\ [Next]_vars => NInv'
  <2> SUFFICES ASSUME IInv, NInv, [Next]_vars PROVE NInv'
    OBVIOUS
  <2>1. ASSUME NEW c \in Compilers, GenerateModule(c) PROVE NInv'
    <3>1. CASE Stop(c, "thrown")
      BY <3>1, NamesStop
    <3>2. CASE Goto(c, "done", job[c])
      <4>1. PICK i : i = job[c] /\ JInv("generate", i) /\ i.pos = Len(i.text.imports)
        BY <2>1 DEF GenerateModule, NInv
      <4>2. JInv("done", i)
        BY <4>1 DEF JInv, GlobalsOK, GeneratedOK, Checked, TakenBy
      <4>3. Becomes(c, "done", i)
        BY <3>2, <4>1, <2>1 DEF GenerateModule, Goto, Becomes
      <4>4. QED
        BY <4>2, <4>3, NamesStep
    <3>3. QED
      BY <2>1, <3>1, <3>2 DEF GenerateModule
  <2>2. ASSUME NEW c \in Compilers, Step(c) PROVE NInv'
    BY <2>1, <2>2, NamesImport, NamesDeclared, NamesUsed, NamesEnded, NamesGenerate DEF Step
  <2>3. ASSUME NEW c \in Compilers, NEW m \in Modules, NEW text \in Texts[m], Begin(c, m, text)
        PROVE  NInv'
    <3>1. PICK j : j = Job(m, text, Inspector(SymbolsOf(m, text), {}))
      OBVIOUS
    <3>2. /\ phase' = [phase EXCEPT ![c] = "import"] /\ job' = [job EXCEPT ![c] = j]
          /\ begun' = begun + 1 /\ begun < MaxCompilations
      BY <2>3, <3>1 DEF Begin
    <3>3. JInv("import", j)
      BY <3>1, ParserNames
    <3>4. /\ phase'[c] = "import" /\ job'[c] = j
          /\ \A d \in Compilers : d # c => phase'[d] = phase[d] /\ job'[d] = job[d]
      BY <3>2 DEF IInv, Shape
    <3>5. \A d \in Compilers : JInv(phase'[d], job'[d])
      BY <3>3, <3>4 DEF NInv
    <3>6. begun' \in 0 .. MaxCompilations
      BY <3>2, BoundsAssumption DEF NInv
    <3>7. QED
      BY <3>5, <3>6 DEF NInv
  <2>4. CASE UNCHANGED vars
    BY <2>4 DEF vars, NInv
  <2>5. QED
    BY <2>2, <2>3, <2>4 DEF Next
<1>3. Init /\ [][Next]_vars /\ []IInv => []NInv
  BY <1>1, <1>2, PTL
<1>4. QED
  BY <1>3, Invariance, PTL DEF Spec

-----------------------------------------------------------------------------
(* The files hold lines of definitions, the importer's cache and what it   *)
(* has read go together, and qualified names come from the cache.          *)
THEOREM TypeCorrect == Spec => []TypeOK
<1>1. IInv /\ NInv => TypeOK
  <2> SUFFICES ASSUME IInv, NInv PROVE TypeOK
    OBVIOUS
  <2>1. ASSUME NEW m \in DOMAIN files
        PROVE  m \in Modules /\ files[m] \in Seq({Hole} \union UNION {Range(Definition(t)) : t \in Texts[m]})
    <3>1. m \in Modules
      BY DEF IInv, Shape
    <3>2. PICK t \in Texts[m] : FileOf(m, t)
      BY DEF IInv, FilesGrow
    <3>3. PICK f, D : f = files[m] /\ D = Definition(t)
      OBVIOUS
    <3>4. WellFormed(D)
      BY <3>1, <3>3, DefinitionPrinted
    <3>5. D \in Seq(Range(D)) /\ Len(D) \in Nat /\ DOMAIN D = 1 .. Len(D)
      BY <3>4, LenProperties DEF WellFormed
    <3>6. /\ f \in Seq(Range(f)) /\ Len(f) \in Nat /\ DOMAIN f = 1 .. Len(f) /\ Len(f) <= Len(D)
          /\ \A i \in 1 .. Len(f) : f[i] \in {Hole, D[i]}
      BY <3>2, <3>3, LenProperties DEF FileOf
    <3> DEFINE U == UNION {Range(Definition(u)) : u \in Texts[m]}
               L == {Hole} \union U
    <3>7. Range(D) \subseteq L /\ Hole \in L
      <4>1. Range(Definition(t)) \subseteq U
        OBVIOUS
      <4> HIDE DEF U
      <4>2. QED
        BY <3>3, <4>1
    <3> HIDE DEF L
    <3>8. \A i \in 1 .. Len(f) : f[i] \in Range(D) \union {Hole}
      <4>1. \A i \in 1 .. Len(f) : i \in DOMAIN D
        BY <3>5, <3>6
      <4>2. QED
        BY <3>6, <4>1 DEF Range
    <3>9. \A i \in 1 .. Len(f) : f[i] \in L
      BY <3>7, <3>8
    <3>10. f \in Seq(L)
      BY <3>6, <3>9
    <3>11. QED
      BY <3>1, <3>3, <3>10 DEF L
  <2>2. ASSUME NEW c \in Compilers
        PROVE  /\ DOMAIN job[c].read = DOMAIN job[c].cache
               /\ \A k \in DOMAIN job[c].in.symbols : k[1] = None \/ k[1] \in DOMAIN job[c].cache
               /\ job[c].globals # {} => phase[c] \in {"generate", "done"}
    <3>1. PICK i : i = job[c] /\ JInv(phase[c], i)
      BY DEF NInv
    <3>2. DOMAIN i.read = DOMAIN i.cache /\ (i.globals # {} => phase[c] \in {"generate", "done"})
      BY <3>1 DEF JInv, CacheOK, GlobalsOK
    <3>3. ASSUME NEW k \in DOMAIN i.in.symbols PROVE k[1] = None \/ k[1] \in DOMAIN i.cache
      <4>1. Own(i, k) \/ FromModule(i, k)
        BY <3>1 DEF JInv, SymbolsOK
      <4>2. Plain(k[2])[1] = None
        BY DEF Plain
      <4>3. QED
        BY <4>1, <4>2 DEF Own, FromModule
    <3>4. QED
      BY <3>1, <3>2, <3>3
  <2>3. begun \in 0 .. MaxCompilations
    BY DEF NInv
  <2>4. QED
    BY <2>1, <2>2, <2>3 DEF TypeOK
<1>2. QED
  BY <1>1, NamesInvariance, PTL

(* The generator has declared every qualified name that the inspector took *)
(* although it imports the modules anew, from files that may have changed, *)
(* but for the procedures that are only named.                             *)
THEOREM NamesDeclaredInTime == Spec => []NamesGenerated
<1>1. IInv /\ NInv => NamesGenerated
  <2> SUFFICES ASSUME IInv, NInv, NEW c \in Compilers, phase[c] = "done",
                      NEW u \in Range(job[c].text.uses), u.qual # None, u.how # "length"
               PROVE  \E m \in DOMAIN job[c].read :
                        /\ Qualifies(c, m, u.qual)
                        /\ \/ << m, u.id[2] >> \in job[c].globals
                           \/ /\ u.how = "read"
                              /\ \E d \in Range(job[c].read[m]) : d.id = u.id[2] /\ d.kind = "proc"
    BY DEF NamesGenerated
  <2>1. PICK i : i = job[c] /\ JInv("done", i)
    BY DEF NInv
  <2>2. UseOK(i, u)
    <3>1. PICK x \in DOMAIN i.text.uses : u = i.text.uses[x]
      BY <2>1 DEF Range
    <3>2. x \in 1 .. Len(i.text.uses)
      <4>1. i.text.uses \in Seq(Range(i.text.uses))
        BY <2>1 DEF JInv, CacheOK, IsList
      <4>2. QED
        BY <3>1, <4>1, LenProperties
    <3>3. QED
      BY <2>1, <3>1, <3>2 DEF JInv, Checked, TakenBy
  <2>3. PICK r \in DOMAIN i.cache :
          /\ Stands(i, r, u.qual) /\ Plain(u.id[2]) \in DOMAIN i.cache[r]
          /\ i.cache[r][Plain(u.id[2])].kind = "proc" => u.how = "read" \/ << r, u.id[2] >> \in i.in.used
    BY <2>2 DEF UseOK
  <2>4. r \in DOMAIN job[c].read /\ Qualifies(c, r, u.qual)
    BY <2>1, <2>3 DEF JInv, CacheOK, Stands, Qualifies, Imported
  <2>5. CASE i.cache[r][Plain(u.id[2])].kind = "proc" /\ u.how = "read"
    <3>1. PICK d \in Range(i.read[r]) : SymbolOf(i.cache[r], Plain(u.id[2]), d)
      BY <2>1, <2>3 DEF JInv, CacheOK
    <3>2. d.id = u.id[2] /\ d.kind = "proc"
      BY <2>5, <3>1 DEF SymbolOf, Plain
    <3>3. QED
      BY <2>1, <2>4, <2>5, <3>1, <3>2
  <2>6. CASE ~(i.cache[r][Plain(u.id[2])].kind = "proc" /\ u.how = "read")
    <3>1. PICK g : g = << r, u.id[2] >> /\ g[2] = u.id[2]
      <4>1. << r, u.id[2] >>[2] = u.id[2]
        OBVIOUS
      <4>2. QED
        BY <4>1
    <3>2. PICK symbols : symbols = i.cache[r]
      OBVIOUS
    <3>3. g \in {<< r, n[2] >> : n \in DOMAIN symbols}
      <4>1. Plain(u.id[2])[2] = u.id[2]
        BY DEF Plain
      <4>2. QED
        BY <2>3, <3>1, <3>2, <4>1
    <3>4. g \in Globals(i.in, r, symbols)
      BY <2>3, <2>6, <3>1, <3>2, <3>3 DEF Globals
    <3>5. PICK x \in Range(i.text.imports) : x[2] = r
      BY <2>1 DEF JInv, CacheOK
    <3>6. PICK n \in 1 .. Len(i.text.imports) : x = i.text.imports[n]
      <4>1. i.text.imports \in Seq(Range(i.text.imports))
        BY <2>1 DEF JInv, CacheOK, IsList
      <4>2. QED
        BY <3>5, <4>1, LenProperties DEF Range
    <3>7. n <= i.pos
      BY <2>1 DEF JInv, GeneratedOK
    <3>8. Globals(i.in, r, symbols) \subseteq i.globals
      BY <2>1, <3>2, <3>5, <3>6, <3>7 DEF JInv, GeneratedOK, ImportGenerated
    <3>9. QED
      BY <2>1, <2>4, <3>1, <3>4, <3>8
  <2>7. QED
    BY <2>5, <2>6
<1>2. QED
  BY <1>1, NamesInvariance, PTL

(* What the object code of a compilation refers to is external in that of  *)
(* a text with the definition read, or it is a variable exported with -.   *)
THEOREM LinksFound == Spec => []LinksResolve
<1>1. IInv /\ NInv => LinksResolve
  <2> SUFFICES ASSUME IInv, NInv, NEW c \in Compilers, NEW k \in job[c].globals
               PROVE  \E t \in Texts[k[1]] :
                        /\ Definition(t) = Append(job[c].read[k[1]], End)
                        /\ k[2] \in External(t) \/ \E d \in Range(t.decs) : d.id = k[2] /\ d.mark = "-"
    BY DEF LinksResolve
  <2>1. PICK i, r : i = job[c] /\ r = k[1] /\ JInv(phase[c], i)
    BY DEF NInv
  <2>2. r \in DOMAIN i.cache /\ r \in DOMAIN i.read /\ Plain(k[2]) \in DOMAIN i.cache[r]
    BY <2>1 DEF JInv, GlobalsOK, CacheOK
  <2>3. PICK d \in Range(i.read[r]) : SymbolOf(i.cache[r], Plain(k[2]), d)
    BY <2>1, <2>2 DEF JInv, CacheOK
  <2>4. d.id = k[2] /\ d.kind \in Kinds \ {"type"}
    BY <2>3 DEF SymbolOf, Plain
  <2>5. PICK t \in Texts[r] : Append(i.read[r], End) = Definition(t)
    BY <2>1, <2>2 DEF IInv, ImportsWhole, Defines
  <2>6. r \in Modules
    BY <2>1, <2>2 DEF JInv, CacheOK
  <2>7. d \in Range(t.decs) /\ Exported(d)
    <3>1. PICK s : s = i.read[r] /\ s \in Seq(Range(s))
      BY <2>1, <2>2 DEF JInv, CacheOK
    <3>2. PICK n \in 1 .. Len(s) : d = s[n]
      BY <2>3, <3>1, LenProperties DEF Range
    <3>3. Len(Append(s, End)) = Len(s) + 1 /\ Append(s, End)[n] = s[n] /\ n \in 1 .. (Len(s) + 1) - 1
      BY <3>1
    <3>4. QED
      BY <2>5, <2>6, <3>1, <3>2, <3>3, DefinitionPrinted
  <2>8. CASE d.mark = "*"
    BY <2>1, <2>4, <2>5, <2>7, <2>8 DEF External
  <2>9. CASE d.mark # "*"
    BY <2>1, <2>4, <2>5, <2>7, <2>9 DEF Exported
  <2>10. QED
    BY <2>8, <2>9
<1>2. QED
  BY <1>1, NamesInvariance, PTL
=============================================================================
