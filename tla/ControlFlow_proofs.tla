------------------------- MODULE ControlFlow_proofs --------------------------
(***************************************************************************)
(* Theorems about statements, for texts of any length and depth.  The      *)
(* handlers that have not returned are the statements around the item that *)
(* is generated, although the parser and the code generator come to them   *)
(* by different conditions; last_end holds one block for each loop among   *)
(* them, and all blocks that handlers keep exist.                          *)
(***************************************************************************)
EXTENDS FlowRules, DataLemmas

-----------------------------------------------------------------------------
(* The text t.                                                             *)

Closes(x, i) == x.op = "end" /\ x.of = i

IsStmts(t) ==
    /\ IsSeq(t)
    /\ \A i \in 1 .. Len(t) :
          /\ t[i] = [op |-> t[i].op, of |-> t[i].of]
          /\ t[i].op \in Simple \cup Structured \cup Labels \cup {"elsif", "else", "end"}
          /\ t[i].of \in 0 .. i - 1

(* The structured statements that have begun and not ended before p. *)
Unclosed(t, p) ==
    {i \in 1 .. Len(t) : /\ i < p /\ t[i].op \in Structured
                         /\ \A j \in 1 .. Len(t) : j < p => ~Closes(t[j], i)}

(* Each part and each end belongs to the innermost of them. *)
Innermost(i, U) == i \in U /\ \A m \in U : m <= i
NestedStmts(t) ==
    \A j \in 1 .. Len(t) : t[j].of # 0 => Innermost(t[j].of, Unclosed(t, j))

(* The text of a body that has ended. *)
Whole(t) ==
    /\ Len(t) >= 1 /\ Closes(t[Len(t)], 0)
    /\ \A i \in 1 .. Len(t) : Closes(t[i], 0) => i = Len(t)
    /\ Unclosed(t, Len(t)) = {}

LEMMA Opening ==
  ASSUME NEW t, IsStmts(t), NEW p \in 1 .. Len(t), t[p].op \in Structured
  PROVE  Unclosed(t, p + 1) = Unclosed(t, p) \cup {p}
<1>1. Len(t) \in Nat /\ t[p].op # "end"
  BY FlowAssumption DEF IsStmts, IsSeq
<1>2. \A j \in 1 .. Len(t) : j < p + 1 <=> j < p \/ j = p
  BY <1>1
<1>3. \A j \in 1 .. Len(t) : j < p + 1 => ~Closes(t[j], p)
  <2>1. \A j \in 1 .. Len(t) : t[j].of \in 0 .. j - 1
    BY DEF IsStmts
  <2>2. \A j \in 1 .. Len(t) : j < p + 1 => t[j].of # p
    BY <1>1, <2>1
  <2> QED
    BY <2>2 DEF Closes
<1>4. \A i : ~Closes(t[p], i)
  BY <1>1 DEF Closes
<1> QED
  BY <1>2, <1>3, <1>4 DEF Unclosed

LEMMA Closing ==
  ASSUME NEW t, IsStmts(t), NEW p \in 1 .. Len(t), t[p].op = "end"
  PROVE  Unclosed(t, p + 1) = Unclosed(t, p) \ {t[p].of}
<1>1. Len(t) \in Nat /\ t[p].op \notin Structured
  BY FlowAssumption DEF IsStmts, IsSeq
<1>2. \A j \in 1 .. Len(t) : j < p + 1 <=> j < p \/ j = p
  BY <1>1
<1>3. \A i : Closes(t[p], i) <=> i = t[p].of
  BY DEF Closes
<1> QED
  BY <1>1, <1>2, <1>3 DEF Unclosed

LEMMA Passing ==
  ASSUME NEW t, IsStmts(t), NEW p \in 1 .. Len(t), t[p].op # "end", t[p].op \notin Structured
  PROVE  Unclosed(t, p + 1) = Unclosed(t, p)
<1>1. Len(t) \in Nat
  BY DEF IsStmts, IsSeq
<1>2. \A j \in 1 .. Len(t) : j < p + 1 <=> j < p \/ j = p
  BY <1>1
<1>3. \A i : ~Closes(t[p], i)
  BY DEF Closes
<1> QED
  BY <1>2, <1>3 DEF Unclosed

LEMMA SameUnclosed ==
  ASSUME NEW t, NEW q, Len(t) \in Nat, Len(q) \in Nat, Len(t) <= Len(q),
         \A k \in 1 .. Len(t) : q[k] = t[k], NEW p \in 1 .. Len(t) + 1
  PROVE  Unclosed(q, p) = Unclosed(t, p)
<1>1. \A j : j \in 1 .. Len(q) /\ j < p <=> j \in 1 .. Len(t) /\ j < p
  OBVIOUS
<1>2. \A j \in 1 .. Len(t) : q[j] = t[j]
  OBVIOUS
<1> QED
  BY <1>1, <1>2 DEF Unclosed

-----------------------------------------------------------------------------
(* The handlers o that have not returned, for the statements U.            *)

IsFrame(e) == e = [item |-> e.item, end |-> e.end, other |-> e.other, parts |-> e.parts]

OpenItems(o, U) ==
    /\ IsSeq(o)
    /\ \A k \in 1 .. Len(o) : IsFrame(o[k])
    /\ \A k \in 1 .. Len(o) : o[k].item \in U
    /\ \A i \in U : \E k \in 1 .. Len(o) : o[k].item = i
    /\ \A j, k \in 1 .. Len(o) : j < k => o[j].item < o[k].item

LEMMA OpenPush ==
  ASSUME NEW U \in SUBSET Nat, NEW o, OpenItems(o, U),
         NEW e, IsFrame(e), e.item \in Nat, \A i \in U : i < e.item
  PROVE  OpenItems(Append(o, e), U \cup {e.item})
<1> DEFINE r == Append(o, e)
           L == Len(o)
<1>1. /\ IsSeq(o) /\ L \in Nat
      /\ IsSeq(r) /\ Len(r) = L + 1 /\ r[L + 1] = e /\ \A k \in 1 .. L : r[k] = o[k]
  BY Appended DEF OpenItems, IsSeq
<1> HIDE DEF r
<1>2. \A k \in 1 .. L + 1 : k \in 1 .. L \/ k = L + 1
  BY <1>1
<1>3. \A k \in 1 .. L + 1 : IsFrame(r[k]) /\ r[k].item \in U \cup {e.item}
  BY <1>1, <1>2 DEF OpenItems
<1>4. ASSUME NEW i \in U \cup {e.item}
      PROVE  \E k \in 1 .. L + 1 : r[k].item = i
  <2>1. L + 1 \in 1 .. L + 1 /\ \A k \in 1 .. L : k \in 1 .. L + 1
    BY <1>1
  <2> QED
    BY <1>1, <2>1 DEF OpenItems
<1>5. ASSUME NEW j \in 1 .. L + 1, NEW k \in 1 .. L + 1, j < k
      PROVE  r[j].item < r[k].item
  <2>1. j \in 1 .. L
    BY <1>1, <1>5
  <2> QED
    BY <1>1, <1>2, <1>5, <2>1 DEF OpenItems
<1>6. OpenItems(r, U \cup {e.item})
  BY <1>1, <1>3, <1>4, <1>5 DEF OpenItems
<1> QED
  BY <1>6 DEF r

LEMMA OpenTop ==
  ASSUME NEW U \in SUBSET Nat, NEW o, OpenItems(o, U), NEW i, Innermost(i, U)
  PROVE  Len(o) \in 1 .. Len(o) /\ o[Len(o)].item = i /\ o # << >>
<1>1. Len(o) \in Nat
  BY DEF OpenItems, IsSeq
<1>2. PICK k \in 1 .. Len(o) : o[k].item = i
  BY DEF OpenItems, Innermost
<1>3. Len(o) \in 1 .. Len(o)
  BY <1>1
<1>4. o[Len(o)].item \in U /\ o[Len(o)].item <= i
  BY <1>3 DEF OpenItems, Innermost
<1>5. k = Len(o)
  <2>1. k < Len(o) => o[k].item < o[Len(o)].item
    BY <1>3 DEF OpenItems
  <2>2. i \in Nat /\ o[Len(o)].item \in Nat
    BY <1>4 DEF Innermost
  <2> QED
    BY <1>1, <1>2, <1>4, <2>1, <2>2
<1>6. o # << >>
  BY <1>3
<1> QED
  BY <1>2, <1>3, <1>5, <1>6

LEMMA TopInnermost ==
  ASSUME NEW U \in SUBSET Nat, NEW o, OpenItems(o, U), o # << >>
  PROVE  Len(o) \in 1 .. Len(o) /\ Innermost(o[Len(o)].item, U)
<1>1. Len(o) \in Nat /\ Len(o) # 0
  BY DEF OpenItems, IsSeq
<1>2. Len(o) \in 1 .. Len(o) /\ o[Len(o)].item \in U
  BY <1>1 DEF OpenItems
<1>3. ASSUME NEW m \in U
      PROVE  m <= o[Len(o)].item
  <2>1. PICK k \in 1 .. Len(o) : o[k].item = m
    BY DEF OpenItems
  <2>2. k < Len(o) => o[k].item < o[Len(o)].item
    BY <1>2 DEF OpenItems
  <2>3. k = Len(o) \/ k < Len(o)
    BY <1>1
  <2>4. m \in Nat /\ o[Len(o)].item \in Nat
    BY <1>2
  <2> QED
    BY <2>1, <2>2, <2>3, <2>4
<1> QED
  BY <1>2, <1>3 DEF Innermost

LEMMA OpenPop ==
  ASSUME NEW U \in SUBSET Nat, NEW o, OpenItems(o, U), NEW i, Innermost(i, U)
  PROVE  OpenItems(SubSeq(o, 1, Len(o) - 1), U \ {i})
<1> DEFINE r == SubSeq(o, 1, Len(o) - 1)
           L == Len(o)
<1>1. L \in 1 .. L /\ o[L].item = i /\ L \in Nat /\ IsSeq(o)
  BY OpenTop DEF OpenItems, IsSeq
<1>2. IsSeq(r) /\ Len(r) = L - 1 /\ \A k \in 1 .. L - 1 : r[k] = o[k]
  BY <1>1, Fronted
<1> HIDE DEF r
<1>3. \A k \in 1 .. L : k \in 1 .. L - 1 \/ k = L
  BY <1>1
<1>4. \A k \in 1 .. L - 1 : k \in 1 .. L /\ k < L
  BY <1>1
<1>5. ASSUME NEW k \in 1 .. L - 1
      PROVE  r[k].item \in U \ {i}
  <2>1. o[k].item \in U /\ o[k].item < o[L].item
    BY <1>1, <1>4 DEF OpenItems
  <2>2. o[k].item \in Nat /\ o[k].item # i
    BY <1>1, <2>1 DEF Innermost
  <2> QED
    BY <1>2, <2>1, <2>2
<1>6. ASSUME NEW m \in U \ {i}
      PROVE  \E k \in 1 .. L - 1 : r[k].item = m
  <2>1. PICK k \in 1 .. L : o[k].item = m
    BY DEF OpenItems
  <2> QED
    BY <1>1, <1>2, <1>3, <2>1
<1>7. /\ \A k \in 1 .. L - 1 : IsFrame(r[k])
      /\ \A j, k \in 1 .. L - 1 : j < k => r[j].item < r[k].item
  BY <1>2, <1>4 DEF OpenItems
<1>8. OpenItems(r, U \ {i})
  BY <1>2, <1>5, <1>6, <1>7 DEF OpenItems
<1> QED
  BY <1>8 DEF r

LEMMA FrameKept ==
  ASSUME NEW f, IsFrame(f), NEW p, NEW g, g = [f EXCEPT !.parts = p]
  PROVE  IsFrame(g) /\ g.item = f.item
<1>1. PICK a, b, c, d : f = [item |-> a, end |-> b, other |-> c, parts |-> d]
  BY Zenon DEF IsFrame
<1>2. g = [item |-> a, end |-> b, other |-> c, parts |-> p]
  BY <1>1
<1> QED
  BY <1>1, <1>2 DEF IsFrame

LEMMA FrameBlocks ==
  ASSUME NEW f, IsFrame(f), NEW p, NEW g, g = [f EXCEPT !.parts = p]
  PROVE  g.item = f.item /\ g.end = f.end /\ g.other = f.other /\ g.parts = p
<1>1. PICK a, b, c, d : f = [item |-> a, end |-> b, other |-> c, parts |-> d]
  BY Zenon DEF IsFrame
<1>2. g = [item |-> a, end |-> b, other |-> c, parts |-> p]
  BY <1>1
<1> QED
  BY <1>1, <1>2

LEMMA OpenKept ==
  ASSUME NEW U, NEW o, OpenItems(o, U), NEW r, IsSeq(r), Len(r) = Len(o),
         \A k \in 1 .. Len(o) : IsFrame(r[k]) /\ r[k].item = o[k].item
  PROVE  OpenItems(r, U)
BY DEF OpenItems

-----------------------------------------------------------------------------
(* The text while it is read, and while it is walked.                      *)

TextInv ==
    /\ phase \in {"parse", "generate", "done", "failed"}
    /\ IsStmts(text) /\ NestedStmts(text)
    /\ phase = "parse" =>
          /\ pc = 1 /\ last_end = << >> /\ code = << << >> >> /\ at = 1
          /\ OpenItems(open, Unclosed(text, Len(text) + 1))
          /\ \A i \in 1 .. Len(text) : ~Closes(text[i], 0)
    /\ phase # "parse" =>
          /\ Whole(text)
          /\ pc \in 1 .. Len(text)
          /\ OpenItems(open, Unclosed(text, pc))
    /\ phase = "done" => pc = Len(text)

LEMMA UnclosedNat ==
  ASSUME NEW t, NEW p
  PROVE  Unclosed(t, p) \in SUBSET Nat /\ \A i \in Unclosed(t, p) : i < p
BY DEF Unclosed

LEMMA NoElements ==
  ASSUME NEW s, IsSeq(s), Len(s) = 0
  PROVE  s = << >>
BY DEF IsSeq

LEMMA TextInit == Init => TextInv
<1> SUFFICES ASSUME Init
             PROVE  TextInv
  OBVIOUS
<1>1. /\ text = << >> /\ open = << >> /\ phase = "parse" /\ pc = 1 /\ at = 1
      /\ last_end = << >> /\ code = << << >> >>
  BY DEF Init
<1>2. Len(text) = 0 /\ Len(open) = 0 /\ 1 .. 0 = {}
  BY <1>1
<1>3. IsSeq(text) /\ IsSeq(open)
  BY <1>1 DEF IsSeq
<1>4. Unclosed(text, Len(text) + 1) = {}
  BY <1>2 DEF Unclosed
<1> QED
  BY <1>1, <1>2, <1>3, <1>4 DEF TextInv, IsStmts, NestedStmts, OpenItems

(* q is t with one more item. *)
Grown(t, q, op, of) ==
    /\ IsStmts(q) /\ NestedStmts(q) /\ Len(t) \in Nat /\ Len(q) = Len(t) + 1
    /\ q[Len(q)] = [op |-> op, of |-> of]
    /\ \A k \in 1 .. Len(t) : q[k] = t[k]
    /\ Unclosed(q, Len(q)) = Unclosed(t, Len(t) + 1)

LEMMA AppendText ==
  ASSUME NEW t, IsStmts(t), NestedStmts(t),
         NEW op, op \in Simple \cup Structured \cup Labels \cup {"elsif", "else", "end"},
         NEW of, of = 0 \/ Innermost(of, Unclosed(t, Len(t) + 1)),
         NEW q, q = Append(t, [op |-> op, of |-> of])
  PROVE  Grown(t, q, op, of)
<1> DEFINE x == [op |-> op, of |-> of]
           L == Len(t)
<1>1. L \in Nat /\ IsSeq(t)
  BY DEF IsStmts, IsSeq
<1>2. IsSeq(q) /\ Len(q) = L + 1 /\ q[L + 1] = x /\ \A k \in 1 .. L : q[k] = t[k]
  BY <1>1, Appended
<1>3. of \in 0 .. L
  BY <1>1 DEF Innermost, Unclosed
<1>4. \A k \in 1 .. L + 1 : k \in 1 .. L \/ k = L + 1
  BY <1>1
<1>5. \A p \in 1 .. L + 1 : Unclosed(q, p) = Unclosed(t, p)
  <2>1. Len(q) \in Nat /\ L <= Len(q)
    BY <1>1, <1>2
  <2> QED
    BY <1>1, <1>2, <2>1, SameUnclosed
<1>6. IsStmts(q)
  <2>1. x = [op |-> x.op, of |-> x.of] /\ x.op = op /\ x.of = of
    OBVIOUS
  <2> HIDE DEF x
  <2>2. of \in 0 .. (L + 1) - 1
    BY <1>1, <1>3
  <2>3. \A i \in 1 .. L + 1 :
          /\ q[i] = [op |-> q[i].op, of |-> q[i].of]
          /\ q[i].op \in Simple \cup Structured \cup Labels \cup {"elsif", "else", "end"}
          /\ q[i].of \in 0 .. i - 1
    BY <1>2, <1>4, <2>1, <2>2 DEF IsStmts
  <2> QED
    BY <1>2, <2>3 DEF IsStmts
<1>7. NestedStmts(q)
  <2>1. ASSUME NEW j \in 1 .. L + 1, q[j].of # 0
        PROVE  Innermost(q[j].of, Unclosed(q, j))
    <3>1. CASE j = L + 1
      <4>1. q[j].of = of /\ Unclosed(q, j) = Unclosed(t, L + 1)
        BY <1>1, <1>2, <1>5, <3>1
      <4> QED
        BY <2>1, <4>1
    <3>2. CASE j \in 1 .. L
      <4>1. q[j] = t[j] /\ Unclosed(q, j) = Unclosed(t, j)
        BY <1>2, <1>5, <3>2
      <4> QED
        BY <2>1, <3>2, <4>1 DEF NestedStmts
    <3> QED
      BY <1>4, <3>1, <3>2
  <2> QED
    BY <1>2, <2>1 DEF NestedStmts
<1>8. L + 1 \in 1 .. L + 1
  BY <1>1
<1> QED
  BY <1>1, <1>2, <1>5, <1>6, <1>7, <1>8 DEF Grown

LEMMA ReadPart ==
  ASSUME TextInv, phase = "parse", NEW op \in Simple \cup Labels \cup {"elsif", "else"},
         NEW of, of = 0 \/ Innermost(of, Unclosed(text, Len(text) + 1)),
         Read(op, of), open' = open
  PROVE  TextInv'
<1>1. /\ text' = Append(text, [op |-> op, of |-> of])
      /\ phase' = "parse" /\ pc' = 1 /\ last_end' = << >> /\ code' = << << >> >> /\ at' = 1
  BY DEF Read, TextInv
<1>2. Grown(text, text', op, of)
  <2>1. IsStmts(text) /\ NestedStmts(text)
    BY DEF TextInv
  <2>2. op \in Simple \cup Structured \cup Labels \cup {"elsif", "else", "end"}
    OBVIOUS
  <2> QED
    BY <1>1, <2>1, <2>2, AppendText, Zenon
<1> USE DEF Grown
<1>3. Len(text') \in 1 .. Len(text') /\ \A k \in 1 .. Len(text') : k \in 1 .. Len(text) \/ k = Len(text')
  BY <1>2
<1>4. op # "end" /\ op \notin Structured
  BY FlowAssumption
<1>5. Unclosed(text', Len(text') + 1) = Unclosed(text', Len(text'))
  BY <1>2, <1>3, <1>4, Passing
<1>6. \A i \in 1 .. Len(text') : ~Closes(text'[i], 0)
  BY <1>2, <1>3, <1>4 DEF TextInv, Closes
<1>7. OpenItems(open', Unclosed(text', Len(text') + 1))
  BY <1>2, <1>5 DEF TextInv
<1> QED
  BY <1>1, <1>2, <1>6, <1>7 DEF TextInv

LEMMA ReadBegun ==
  ASSUME TextInv, NEW op \in Structured, ParseStructured(op)
  PROVE  TextInv'
<1> DEFINE L == Len(text)
<1>1. /\ phase = "parse" /\ text' = Append(text, [op |-> op, of |-> 0])
      /\ open' = Append(open, Frame(L + 1))
      /\ phase' = "parse" /\ pc' = 1 /\ last_end' = << >> /\ code' = << << >> >> /\ at' = 1
  BY DEF ParseStructured, Reading, Read, TextInv
<1>2. Grown(text, text', op, 0)
  <2>1. IsStmts(text) /\ NestedStmts(text)
    BY DEF TextInv
  <2>2. op \in Simple \cup Structured \cup Labels \cup {"elsif", "else", "end"}
    OBVIOUS
  <2> QED
    BY <1>1, <2>1, <2>2, AppendText, Zenon
<1> USE DEF Grown
<1>3. Len(text') \in 1 .. Len(text') /\ \A k \in 1 .. Len(text') : k \in 1 .. L \/ k = Len(text')
  BY <1>2
<1>4. op # "end"
  BY FlowAssumption
<1>5. Unclosed(text', Len(text') + 1) = Unclosed(text, L + 1) \cup {L + 1}
  BY <1>2, <1>3, Opening
<1>6. \A i \in 1 .. Len(text') : ~Closes(text'[i], 0)
  BY <1>1, <1>2, <1>3, <1>4 DEF TextInv, Closes
<1>7. OpenItems(open', Unclosed(text', Len(text') + 1))
  <2>1. IsFrame(Frame(L + 1)) /\ Frame(L + 1).item = L + 1 /\ L + 1 \in Nat
    BY <1>2 DEF IsFrame, Frame
  <2>2. \A i \in Unclosed(text, L + 1) : i < L + 1
    BY UnclosedNat
  <2>3. Unclosed(text, L + 1) \in SUBSET Nat /\ OpenItems(open, Unclosed(text, L + 1))
    BY <1>1, UnclosedNat DEF TextInv
  <2>4. OpenItems(Append(open, Frame(L + 1)), Unclosed(text, L + 1) \cup {Frame(L + 1).item})
    BY <2>1, <2>2, <2>3, OpenPush, Zenon
  <2> QED
    BY <1>1, <1>5, <2>1, <2>4, Zenon
<1> QED
  BY <1>1, <1>2, <1>6, <1>7 DEF TextInv

LEMMA ReadEnd ==
  ASSUME TextInv, ParseEnd
  PROVE  TextInv'
<1> DEFINE L == Len(text)
           i == Inner.item
<1>1. /\ phase = "parse" /\ text' = Append(text, [op |-> "end", of |-> i])
      /\ open # << >> /\ open' = SubSeq(open, 1, Len(open) - 1)
      /\ phase' = "parse" /\ pc' = 1 /\ last_end' = << >> /\ code' = << << >> >> /\ at' = 1
  BY DEF ParseEnd, Reading, Read, TextInv, Outer
<1>2. Unclosed(text, L + 1) \in SUBSET Nat /\ OpenItems(open, Unclosed(text, L + 1))
  BY <1>1, UnclosedNat DEF TextInv
<1>3. Innermost(i, Unclosed(text, L + 1)) /\ i # 0
  <2>1. Innermost(i, Unclosed(text, L + 1))
    BY <1>1, <1>2, TopInnermost DEF Inner
  <2> QED
    BY <2>1 DEF Innermost, Unclosed
<1> HIDE DEF i
<1>4. Grown(text, text', "end", i)
  <2>1. IsStmts(text) /\ NestedStmts(text)
    BY DEF TextInv
  <2>2. "end" \in Simple \cup Structured \cup Labels \cup {"elsif", "else", "end"}
    OBVIOUS
  <2> QED
    BY <1>1, <1>3, <2>1, <2>2, AppendText, Zenon
<1> USE DEF Grown
<1>5. Len(text') \in 1 .. Len(text') /\ \A k \in 1 .. Len(text') : k \in 1 .. L \/ k = Len(text')
  BY <1>4
<1>6. Unclosed(text', Len(text') + 1) = Unclosed(text, L + 1) \ {i}
  BY <1>4, <1>5, Closing
<1>7. \A k \in 1 .. Len(text') : ~Closes(text'[k], 0)
  BY <1>1, <1>3, <1>4, <1>5 DEF TextInv, Closes
<1>8. OpenItems(open', Unclosed(text', Len(text') + 1))
  BY <1>1, <1>2, <1>3, <1>6, OpenPop
<1> QED
  BY <1>1, <1>4, <1>7, <1>8 DEF TextInv

LEMMA ReadBodyEnd ==
  ASSUME TextInv, ParseEndBody
  PROVE  TextInv'
<1> DEFINE L == Len(text)
<1>1. /\ phase = "parse" /\ text' = Append(text, [op |-> "end", of |-> 0])
      /\ open = << >> /\ open' = open
      /\ phase' = "generate" /\ pc' = 1
  BY DEF ParseEndBody, Reading, TextInv
<1>2. Grown(text, text', "end", 0)
  <2>1. IsStmts(text) /\ NestedStmts(text)
    BY DEF TextInv
  <2>2. "end" \in Simple \cup Structured \cup Labels \cup {"elsif", "else", "end"}
    OBVIOUS
  <2> QED
    BY <1>1, <2>1, <2>2, AppendText, Zenon
<1> USE DEF Grown
<1>3. Len(text') \in 1 .. Len(text') /\ \A k \in 1 .. Len(text') : k \in 1 .. L \/ k = Len(text')
  BY <1>2
<1>4. Unclosed(text, L + 1) = {}
  <2>1. OpenItems(open, Unclosed(text, L + 1)) /\ 1 .. Len(open) = {}
    BY <1>1 DEF TextInv
  <2> QED
    BY <2>1 DEF OpenItems
<1>5. Whole(text')
  <2>1. Closes(text'[Len(text')], 0)
    BY <1>2 DEF Closes
  <2>2. \A i \in 1 .. Len(text') : Closes(text'[i], 0) => i = Len(text')
    BY <1>1, <1>2, <1>3 DEF TextInv
  <2>3. Len(text') >= 1
    BY <1>3
  <2> QED
    BY <1>2, <1>4, <2>1, <2>2, <2>3 DEF Whole
<1>6. Unclosed(text', 1) = {} /\ 1 \in 1 .. Len(text')
  BY <1>3 DEF Unclosed
<1>7. OpenItems(open', Unclosed(text', pc'))
  BY <1>1, <1>4, <1>6 DEF TextInv
<1> QED
  BY <1>1, <1>2, <1>5, <1>6, <1>7 DEF TextInv

LEMMA ParserStep ==
  ASSUME TextInv, Parser
  PROVE  TextInv'
<1> DEFINE U == Unclosed(text, Len(text) + 1)
<1>1. ASSUME NEW op \in Simple, ParseSimple(op)
      PROVE  TextInv'
  BY <1>1, ReadPart DEF ParseSimple, Reading
<1>2. ASSUME phase = "parse", OpenOp # "body"
      PROVE  Innermost(Inner.item, U)
  <2>1. open # << >>
    BY <1>2 DEF OpenOp
  <2>2. OpenItems(open, U) /\ U \in SUBSET Nat
    BY <1>2, UnclosedNat DEF TextInv
  <2> HIDE DEF U
  <2> QED
    BY <2>1, <2>2, TopInnermost DEF Inner
<1>3. CASE ParseElsif
  <2>1. phase = "parse" /\ OpenOp # "body" /\ Read("elsif", Inner.item) /\ open' = open
    BY <1>3 DEF ParseElsif, Reading
  <2> QED
    BY <1>2, <2>1, ReadPart
<1>4. CASE ParseElse
  <2>1. phase = "parse" /\ OpenOp # "body" /\ Read("else", Inner.item) /\ open' = open
    BY <1>4 DEF ParseElse, Reading
  <2> QED
    BY <1>2, <2>1, ReadPart
<1>5. ASSUME NEW op \in Labels, ParseLabel(op)
      PROVE  TextInv'
  <2>1. phase = "parse" /\ OpenOp # "body" /\ Read(op, Inner.item) /\ open' = open
    BY <1>5 DEF ParseLabel, Reading
  <2> QED
    BY <1>2, <2>1, ReadPart
<1> QED
  BY <1>1, <1>3, <1>4, <1>5, ReadBegun, ReadEnd, ReadBodyEnd DEF Parser

-----------------------------------------------------------------------------
(* What a handler of the code generator does to the stacks.                *)

Fails == text[pc].op = "exit" /\ last_end = << >> /\ phase' = "failed" /\ UNCHANGED << pc, open, last_end >>
Finishes == Closes(text[pc], 0) /\ phase' = "done" /\ UNCHANGED << pc, open, last_end >>
Inside ==
    /\ text[pc].op \notin Structured \cup {"end"}
    /\ text[pc].op = "exit" => last_end # << >>
    /\ IsSeq(open) => IsSeq(open') /\ Len(open') = Len(open)
    /\ \A k \in 1 .. Len(open) : IsFrame(open[k]) => IsFrame(open'[k]) /\ open'[k].item = open[k].item
    /\ UNCHANGED last_end
Begins ==
    /\ text[pc].op \in Structured
    /\ \E e : IsFrame(e) /\ e.item = pc /\ open' = Append(open, e)
    /\ IF text[pc].op \in {"if", "case"} THEN UNCHANGED last_end ELSE \E x : last_end' = Append(last_end, x)
Ends ==
    /\ text[pc].op = "end" /\ text[pc].of # 0
    /\ open' = SubSeq(open, 1, Len(open) - 1)
    /\ text[text[pc].of].op \in Loops => last_end' = SubSeq(last_end, 1, Len(last_end) - 1)
    /\ text[text[pc].of].op \in {"if", "case"} => UNCHANGED last_end

GenStep ==
    /\ phase = "generate" /\ UNCHANGED text
    /\ \/ Fails \/ Finishes
       \/ /\ phase' = "generate" /\ pc' = pc + 1
          /\ Inside \/ Begins \/ Ends

LEMMA SameInside ==
  ASSUME text[pc].op \notin Structured \cup {"end"}, text[pc].op = "exit" => last_end # << >>,
         UNCHANGED << open, last_end >>
  PROVE  Inside
BY DEF Inside

LEMMA FrameWith ==
  ASSUME NEW i, NEW b, NEW c
  PROVE  [Frame(i) EXCEPT !.end = b, !.other = c] = [item |-> i, end |-> b, other |-> c, parts |-> << >>]
<1> DEFINE f == [Frame(i) EXCEPT !.end = b]
<1>1. Frame(i) = [item |-> i, end |-> 0, other |-> 0, parts |-> << >>]
  BY DEF Frame
<1>2. f = [item |-> i, end |-> b, other |-> 0, parts |-> << >>]
  BY <1>1
<1>3. [Frame(i) EXCEPT !.end = b, !.other = c] = [f EXCEPT !.other = c]
  OBVIOUS
<1> HIDE DEF f
<1>4. [f EXCEPT !.other = c] = [item |-> i, end |-> b, other |-> c, parts |-> << >>]
  BY <1>2
<1> QED
  BY <1>3, <1>4, Zenon

LEMMA Opened ==
  ASSUME \E b, c, d : open' = Append(open, [item |-> pc, end |-> b, other |-> c, parts |-> d])
  PROVE  \E e : IsFrame(e) /\ e.item = pc /\ open' = Append(open, e)
<1>1. PICK b, c, d : open' = Append(open, [item |-> pc, end |-> b, other |-> c, parts |-> d])
  OBVIOUS
<1> DEFINE e == [item |-> pc, end |-> b, other |-> c, parts |-> d]
<1>2. e.item = pc /\ e.end = b /\ e.other = c /\ e.parts = d
  OBVIOUS
<1>3. IsFrame(e)
  BY <1>2 DEF IsFrame
<1> HIDE DEF e
<1>4. open' = Append(open, e)
  BY <1>1 DEF e
<1> QED
  BY <1>2, <1>3, <1>4

LEMMA GenSteps ==
  ASSUME TextInv, Generator
  PROVE  GenStep
<1> DEFINE op == text[pc].op
<1>1. phase = "generate" /\ UNCHANGED text
  BY DEF Generator, Visiting, VisitingPart, GenerateSimple, GenerateReturn, GenerateExit,
     GenerateIf, GenerateElsif, GenerateElse, GenerateEndIf, GenerateCase, GenerateLabel,
     GenerateCaseElse, GenerateEndCase, GenerateFor, GenerateEndFor, GenerateWhile,
     GenerateEndWhile, GenerateRepeatLoopBegin, GenerateUntil, GenerateEndLoop,
     GenerateEndBegin, GenerateEndBody
<1>2. op \in Simple \cup Structured \cup Labels \cup {"elsif", "else", "end"}
  BY <1>1 DEF TextInv, IsStmts
<1>3. op \in {"stmt", "return", "exit", "elsif", "else", "value", "range", "end"} => op \notin Structured
  BY FlowAssumption
<1>4. op \in {"if", "case", "for", "while", "repeat", "loop", "begin"} => op \in Structured
  BY <1>2, FlowAssumption
<1> HIDE DEF op
<1> USE DEF Onward
<1>5. CASE GenerateSimple \/ GenerateReturn
  <2>1. /\ op \in {"stmt", "return"} /\ UNCHANGED << open, last_end >>
        /\ phase' = "generate" /\ pc' = pc + 1
    BY <1>1, <1>5 DEF GenerateSimple, GenerateReturn, Visiting, op
  <2>2. Inside
    BY <1>3, <2>1, SameInside DEF op
  <2> QED
    BY <1>1, <2>1, <2>2 DEF GenStep
<1>6. CASE GenerateExit
  <2>1. op = "exit" /\ UNCHANGED << open, last_end >>
    BY <1>6 DEF GenerateExit, Visiting, op
  <2>2. CASE last_end = << >>
    <3>1. phase' = "failed" /\ pc' = pc
      BY <1>6, <2>2 DEF GenerateExit
    <3> QED
      BY <1>1, <2>1, <2>2, <3>1 DEF GenStep, Fails, op
  <2>3. CASE last_end # << >>
    <3>1. phase' = "generate" /\ pc' = pc + 1
      BY <1>1, <1>6, <2>3 DEF GenerateExit
    <3>2. Inside
      BY <1>3, <2>1, <2>3, SameInside DEF op
    <3> QED
      BY <1>1, <3>1, <3>2 DEF GenStep
  <2> QED
    BY <2>2, <2>3
<1>7. CASE GenerateElse \/ GenerateLabel \/ GenerateCaseElse
  <2>1. /\ op \in {"else", "value", "range"} /\ UNCHANGED << open, last_end >>
        /\ phase' = "generate" /\ pc' = pc + 1
    BY <1>1, <1>7 DEF GenerateElse, GenerateLabel, GenerateCaseElse, VisitingPart, Visiting, op
  <2>2. Inside
    BY <1>3, <2>1, SameInside DEF op
  <2> QED
    BY <1>1, <2>1, <2>2 DEF GenStep
<1>8. CASE GenerateElsif
  <2>1. /\ op = "elsif" /\ UNCHANGED last_end
        /\ phase' = "generate" /\ pc' = pc + 1
        /\ open' = [open EXCEPT ![Len(open)].parts = Tail(@)]
    BY <1>1, <1>8 DEF GenerateElsif, VisitingPart, Visiting, op
  <2>2. ASSUME IsSeq(open)
        PROVE  /\ IsSeq(open') /\ Len(open') = Len(open)
               /\ \A k \in 1 .. Len(open) :
                     open'[k] = IF k = Len(open) THEN [open[k] EXCEPT !.parts = Tail(@)] ELSE open[k]
    <3>1. Len(open) \in Nat /\ DOMAIN open = 1 .. Len(open)
      BY <2>2 DEF IsSeq
    <3>2. open' = [k \in 1 .. Len(open) |->
                     IF k = Len(open) THEN [open[k] EXCEPT !.parts = Tail(@)] ELSE open[k]]
      BY <2>1, <3>1
    <3>3. Len(open') = Len(open)
      BY <3>1, <3>2
    <3> QED
      BY <3>1, <3>2, <3>3 DEF IsSeq
  <2>3. ASSUME NEW k \in 1 .. Len(open), IsFrame(open[k])
        PROVE  IsFrame(open'[k]) /\ open'[k].item = open[k].item
    <3>1. IsSeq(open)
      BY <1>1 DEF TextInv, OpenItems
    <3>2. \/ open'[k] = [open[k] EXCEPT !.parts = Tail(open[k].parts)]
          \/ open'[k] = open[k]
      BY <2>2, <3>1
    <3>3. CASE open'[k] = open[k]
      BY <2>3, <3>3
    <3>4. CASE open'[k] = [open[k] EXCEPT !.parts = Tail(open[k].parts)]
      BY <2>3, <3>4, FrameKept, ZenonT(30)
    <3> QED
      BY <3>2, <3>3, <3>4
  <2>4. Inside
    BY <1>3, <2>1, <2>2, <2>3 DEF Inside, op
  <2> QED
    BY <1>1, <2>1, <2>4 DEF GenStep
<1>9. CASE GenerateIf \/ GenerateCase
  <2>1. op \in {"if", "case"} /\ UNCHANGED last_end /\ phase' = "generate" /\ pc' = pc + 1
    BY <1>1, <1>9 DEF GenerateIf, GenerateCase, Visiting, op
  <2>2. \E b, c, d : open' = Append(open, [item |-> pc, end |-> b, other |-> c, parts |-> d])
    <3>1. CASE GenerateIf
      BY <3>1, Zenon DEF GenerateIf
    <3>2. CASE GenerateCase
      BY <3>2, Zenon DEF GenerateCase
    <3> QED
      BY <1>9, <3>1, <3>2
  <2>3. \E e : IsFrame(e) /\ e.item = pc /\ open' = Append(open, e)
    BY <2>2, Opened
  <2>4. Begins
    BY <1>4, <2>1, <2>3 DEF Begins, op
  <2> QED
    BY <1>1, <2>1, <2>4 DEF GenStep
<1>10. CASE GenerateFor \/ GenerateWhile \/ GenerateRepeatLoopBegin
  <2>1. op \in {"for", "while", "repeat", "loop", "begin"} /\ phase' = "generate" /\ pc' = pc + 1
    BY <1>1, <1>10 DEF GenerateFor, GenerateWhile, GenerateRepeatLoopBegin, Visiting, op
  <2>2. /\ \E b, c, d : open' = Append(open, [item |-> pc, end |-> b, other |-> c, parts |-> d])
        /\ \E x : last_end' = Append(last_end, x)
    <3>1. CASE GenerateFor
      BY <3>1, Zenon DEF GenerateFor
    <3>2. ASSUME NEW b, NEW c, open' = Append(open, [Frame(pc) EXCEPT !.end = b, !.other = c])
          PROVE  open' = Append(open, [item |-> pc, end |-> b, other |-> c, parts |-> << >>])
      <4>1. [Frame(pc) EXCEPT !.end = b, !.other = c] = [item |-> pc, end |-> b, other |-> c, parts |-> << >>]
        BY FrameWith, Zenon
      <4> QED
        BY <3>2, <4>1, Zenon
    <3>3. CASE GenerateWhile \/ GenerateRepeatLoopBegin
      <4>1. \E b, c : open' = Append(open, [Frame(pc) EXCEPT !.end = b, !.other = c])
        <5>1. CASE GenerateWhile
          BY <5>1, Zenon DEF GenerateWhile
        <5>2. CASE GenerateRepeatLoopBegin
          BY <5>2, Zenon DEF GenerateRepeatLoopBegin
        <5> QED
          BY <3>3, <5>1, <5>2
      <4>2. \E x : last_end' = Append(last_end, x)
        BY <3>3, Zenon DEF GenerateWhile, GenerateRepeatLoopBegin
      <4> QED
        BY <3>2, <4>1, <4>2, Zenon
    <3> QED
      BY <1>10, <3>1, <3>3
  <2>3. \E e : IsFrame(e) /\ e.item = pc /\ open' = Append(open, e)
    BY <2>2, Opened
  <2>4. Begins
    BY <1>4, <2>1, <2>2, <2>3 DEF Begins, op
  <2> QED
    BY <1>1, <2>1, <2>4 DEF GenStep
<1>11. CASE GenerateEndIf \/ GenerateEndCase
  <2>1. /\ op = "end" /\ text[pc].of # 0 /\ text[text[pc].of].op \in {"if", "case"}
        /\ phase' = "generate" /\ pc' = pc + 1 /\ UNCHANGED last_end
        /\ open' = SubSeq(open, 1, Len(open) - 1)
    BY <1>1, <1>11 DEF GenerateEndIf, GenerateEndCase, VisitingPart, Visiting, Outer, op
  <2>2. Ends
    BY <2>1 DEF Ends, Loops, op
  <2> QED
    BY <1>1, <2>1, <2>2 DEF GenStep
<1>12. CASE GenerateEndFor \/ GenerateEndWhile \/ GenerateUntil \/ GenerateEndLoop
  <2>1. /\ op = "end" /\ text[pc].of # 0 /\ text[text[pc].of].op \in Loops
        /\ phase' = "generate" /\ pc' = pc + 1
        /\ last_end' = SubSeq(last_end, 1, Len(last_end) - 1)
        /\ open' = SubSeq(open, 1, Len(open) - 1)
    BY <1>1, <1>12 DEF GenerateEndFor, GenerateEndWhile, GenerateUntil, GenerateEndLoop,
       VisitingPart, Visiting, Outer, Front, Loops, op
  <2>2. Ends
    BY <2>1 DEF Ends, Loops, op
  <2> QED
    BY <1>1, <2>1, <2>2 DEF GenStep
<1>13. CASE GenerateEndBegin
  <2>1. /\ op = "end" /\ text[pc].of # 0 /\ text[text[pc].of].op = "begin"
        /\ phase' = "generate" /\ pc' = pc + 1
        /\ open' = SubSeq(open, 1, Len(open) - 1)
    BY <1>1, <1>13 DEF GenerateEndBegin, VisitingPart, Visiting, Outer, op
  <2>2. Ends
    BY <2>1 DEF Ends, Loops, op
  <2> QED
    BY <1>1, <2>1, <2>2 DEF GenStep
<1>14. CASE GenerateEndBody
  BY <1>1, <1>14 DEF GenerateEndBody, Visiting, GenStep, Finishes, Closes
<1> QED
  BY <1>5, <1>6, <1>7, <1>8, <1>9, <1>10, <1>11, <1>12, <1>13, <1>14 DEF Generator

LEMMA WalkStep ==
  ASSUME TextInv, GenStep
  PROVE  TextInv'
<1> DEFINE U == Unclosed(text, pc)
<1>1. /\ phase = "generate" /\ text' = text
      /\ IsStmts(text) /\ NestedStmts(text) /\ Whole(text) /\ pc \in 1 .. Len(text)
      /\ OpenItems(open, U) /\ IsSeq(open) /\ Len(text) \in Nat
  BY DEF GenStep, TextInv, OpenItems, IsStmts, IsSeq
<1>2. U \in SUBSET Nat /\ \A i \in U : i < pc
  BY UnclosedNat
<1> HIDE DEF U
<1>3. CASE Fails \/ Finishes
  <2>1. pc' = pc /\ open' = open /\ phase' \in {"failed", "done"}
    BY <1>3 DEF Fails, Finishes
  <2>2. phase' = "done" => pc = Len(text)
    BY <1>1, <1>3 DEF Fails, Finishes, Whole
  <2>3. OpenItems(open', Unclosed(text', pc'))
    BY <1>1, <2>1 DEF U
  <2> QED
    BY <1>1, <2>1, <2>2, <2>3 DEF TextInv
<1>4. ASSUME phase' = "generate", pc' = pc + 1, ~Closes(text[pc], 0),
             OpenItems(open', Unclosed(text, pc + 1))
      PROVE  TextInv'
  <2>1. pc # Len(text)
    BY <1>1, <1>4 DEF Whole
  <2>2. pc + 1 \in 1 .. Len(text)
    BY <1>1, <2>1
  <2> QED
    BY <1>1, <1>4, <2>2 DEF TextInv
<1>5. ASSUME phase' = "generate", pc' = pc + 1, Inside
      PROVE  TextInv'
  <2>1. text[pc].op \notin Structured /\ text[pc].op # "end"
    BY <1>5 DEF Inside
  <2>2. Unclosed(text, pc + 1) = U
    BY <1>1, <2>1, Passing DEF U
  <2>3. OpenItems(open', U)
    <3>1. /\ IsSeq(open') /\ Len(open') = Len(open)
          /\ \A k \in 1 .. Len(open) : IsFrame(open'[k]) /\ open'[k].item = open[k].item
      BY <1>1, <1>5 DEF Inside, OpenItems
    <3> QED
      BY <1>1, <3>1, OpenKept, Zenon
  <2> QED
    BY <1>4, <1>5, <2>1, <2>2, <2>3 DEF Closes
<1>6. ASSUME phase' = "generate", pc' = pc + 1, Begins
      PROVE  TextInv'
  <2>1. PICK e : IsFrame(e) /\ e.item = pc /\ open' = Append(open, e)
    BY <1>6 DEF Begins
  <2>2. text[pc].op \in Structured /\ text[pc].op # "end"
    BY <1>6, FlowAssumption DEF Begins
  <2>3. Unclosed(text, pc + 1) = U \cup {pc}
    BY <1>1, <2>2, Opening DEF U
  <2>4. OpenItems(open', U \cup {pc})
    <3>1. e.item \in Nat /\ \A i \in U : i < e.item
      BY <1>1, <1>2, <2>1
    <3> QED
      BY <1>1, <1>2, <2>1, <3>1, OpenPush
  <2> QED
    BY <1>4, <1>6, <2>2, <2>3, <2>4 DEF Closes
<1>7. ASSUME phase' = "generate", pc' = pc + 1, Ends
      PROVE  TextInv'
  <2>1. /\ text[pc].op = "end" /\ text[pc].of # 0
        /\ open' = SubSeq(open, 1, Len(open) - 1)
    BY <1>7 DEF Ends
  <2>2. Innermost(text[pc].of, U)
    BY <1>1, <2>1 DEF NestedStmts, U
  <2>3. Unclosed(text, pc + 1) = U \ {text[pc].of}
    BY <1>1, <2>1, Closing DEF U
  <2>4. OpenItems(open', U \ {text[pc].of})
    BY <1>1, <1>2, <2>1, <2>2, OpenPop
  <2> QED
    BY <1>4, <1>7, <2>1, <2>3, <2>4 DEF Closes
<1> QED
  BY <1>3, <1>5, <1>6, <1>7 DEF GenStep

LEMMA TextSteps == TextInv /\ [Next]_vars => TextInv'
<1>1. ASSUME TextInv, UNCHANGED vars
      PROVE  TextInv'
  BY <1>1 DEF vars, TextInv
<1> QED
  BY <1>1, ParserStep, GenSteps, WalkStep DEF Next

(* The handlers that have not returned belong to the statements around the *)
(* item that is generated, outermost first, whatever is generated: visit   *)
(* (ASTIf), (ASTWhile) ... return at the END the parser read for them.     *)
THEOREM HandlersNest == Spec => []TextInv
<1> QED
  BY TextInit, TextSteps, PTL DEF Spec

-----------------------------------------------------------------------------
(* last_end has a block for each loop among them, if there is no BEGIN.    *)

NoBegin(t)     == \A i \in 1 .. Len(t) : t[i].op # "begin"
LoopsOf(t, p)  == {i \in Unclosed(t, p) : t[i].op \in Loops}

LoopInv ==
    phase # "parse" /\ NoBegin(text) =>
      /\ IsSeq(last_end)
      /\ Len(last_end) = Cardinality(LoopsOf(text, pc))
      /\ \A i \in 1 .. Len(text) :
            i < pc /\ text[i].op = "exit" => LoopsOf(text, i) # {}
      /\ phase = "failed" => text[pc].op = "exit" /\ LoopsOf(text, pc) = {}

LEMMA LoopsFinite ==
  ASSUME NEW t, Len(t) \in Nat, NEW p
  PROVE  IsFiniteSet(LoopsOf(t, p)) /\ Cardinality(LoopsOf(t, p)) \in Nat
<1>1. LoopsOf(t, p) \subseteq 1 .. Len(t)
  BY DEF LoopsOf, Unclosed
<1>2. IsFiniteSet(1 .. Len(t))
  BY FS_Interval
<1> QED
  BY <1>1, <1>2, FS_Subset, FS_CardinalityType

LEMMA LoopParsed ==
  ASSUME TextInv, TextInv', Parser
  PROVE  LoopInv'
<1>1. phase' = "parse" \/ ParseEndBody
  BY DEF Parser, ParseSimple, ParseStructured, ParseElsif, ParseElse, ParseLabel, ParseEnd,
     Reading, Read
<1>2. CASE ParseEndBody
  <2>1. phase' = "generate" /\ pc' = 1 /\ last_end' = << >>
    BY <1>2 DEF ParseEndBody, Reading, TextInv
  <2>2. LoopsOf(text', 1) = {} /\ Cardinality({}) = 0
    BY FS_EmptySet DEF LoopsOf, Unclosed
  <2>3. IsSeq(last_end') /\ Len(last_end') = 0
    BY <2>1 DEF IsSeq
  <2>4. \A i \in 1 .. Len(text') : ~(i < 1)
    OBVIOUS
  <2> QED
    BY <2>1, <2>2, <2>3, <2>4 DEF LoopInv
<1> QED
  BY <1>1, <1>2 DEF LoopInv

LEMMA LoopBegun ==
  ASSUME TextInv, phase = "generate", NoBegin(text), IsSeq(last_end),
         Len(last_end) = Cardinality(LoopsOf(text, pc)), Begins
  PROVE  IsSeq(last_end') /\ Len(last_end') = Cardinality(LoopsOf(text, pc + 1))
<1> DEFINE L == LoopsOf(text, pc)
<1>1. /\ IsStmts(text) /\ pc \in 1 .. Len(text) /\ Len(text) \in Nat
      /\ text[pc].op \in Structured
  BY DEF TextInv, Begins, IsStmts, IsSeq
<1>2. Unclosed(text, pc + 1) = Unclosed(text, pc) \cup {pc}
  BY <1>1, Opening
<1>3. text[pc].op \in Loops <=> text[pc].op \notin {"if", "case"}
  BY <1>1, FlowAssumption DEF NoBegin, Loops
<1>4. IsFiniteSet(L) /\ pc \notin L
  <2>1. IsFiniteSet(L)
    BY <1>1, LoopsFinite
  <2>2. ~(pc < pc)
    BY <1>1
  <2> QED
    BY <2>1, <2>2 DEF LoopsOf, Unclosed
<1>5. CASE text[pc].op \in {"if", "case"}
  <2>1. LoopsOf(text, pc + 1) = L
    BY <1>2, <1>3, <1>5 DEF LoopsOf
  <2>2. last_end' = last_end
    BY <1>5 DEF Begins
  <2> QED
    BY <2>1, <2>2
<1>6. CASE text[pc].op \notin {"if", "case"}
  <2>1. LoopsOf(text, pc + 1) = L \cup {pc}
    BY <1>2, <1>3, <1>6 DEF LoopsOf
  <2>2. PICK x : last_end' = Append(last_end, x)
    BY <1>6 DEF Begins
  <2>3. IsSeq(last_end') /\ Len(last_end') = Len(last_end) + 1
    BY <2>2, Appended
  <2>4. Cardinality(L \cup {pc}) = Cardinality(L) + 1
    BY <1>4, FS_AddElement
  <2> QED
    BY <2>1, <2>3, <2>4
<1> QED
  BY <1>5, <1>6

LEMMA LoopEnded ==
  ASSUME TextInv, phase = "generate", NoBegin(text), IsSeq(last_end),
         Len(last_end) = Cardinality(LoopsOf(text, pc)), Ends
  PROVE  IsSeq(last_end') /\ Len(last_end') = Cardinality(LoopsOf(text, pc + 1))
<1> DEFINE L == LoopsOf(text, pc)
           i == text[pc].of
<1>1. /\ IsStmts(text) /\ pc \in 1 .. Len(text) /\ Len(text) \in Nat
      /\ text[pc].op = "end" /\ i # 0
  BY DEF TextInv, Ends, IsStmts, IsSeq
<1>2. Unclosed(text, pc + 1) = Unclosed(text, pc) \ {i} /\ i \in Unclosed(text, pc)
  BY <1>1, Closing DEF TextInv, NestedStmts, Innermost
<1>3. text[i].op \in Loops <=> text[i].op \notin {"if", "case"}
  BY <1>1, <1>2, FlowAssumption DEF NoBegin, Loops, Unclosed
<1>4. IsFiniteSet(L) /\ Cardinality(L) \in Nat
  BY <1>1, LoopsFinite
<1>5. CASE text[i].op \in {"if", "case"}
  <2>1. LoopsOf(text, pc + 1) = L
    BY <1>2, <1>3, <1>5 DEF LoopsOf
  <2>2. last_end' = last_end
    BY <1>5 DEF Ends
  <2> QED
    BY <2>1, <2>2
<1>6. CASE text[i].op \notin {"if", "case"}
  <2>1. LoopsOf(text, pc + 1) = L \ {i} /\ i \in L
    BY <1>2, <1>3, <1>6 DEF LoopsOf
  <2>2. last_end' = SubSeq(last_end, 1, Len(last_end) - 1)
    BY <1>3, <1>6 DEF Ends
  <2>3. Cardinality(L \ {i}) = Cardinality(L) - 1 /\ Cardinality(L) # 0
    BY <1>4, <2>1, FS_RemoveElement, FS_EmptySet
  <2>4. Len(last_end) >= 1
    BY <1>4, <2>3
  <2>5. IsSeq(last_end') /\ Len(last_end') = Len(last_end) - 1
    BY <2>2, <2>4, Fronted
  <2> QED
    BY <2>1, <2>3, <2>5
<1> QED
  BY <1>5, <1>6

LEMMA LoopWalked ==
  ASSUME TextInv, LoopInv, GenStep
  PROVE  LoopInv'
<1> SUFFICES ASSUME NoBegin(text)
             PROVE  LoopInv'
  BY DEF LoopInv, GenStep
<1> DEFINE L == LoopsOf(text, pc)
<1>1. /\ phase = "generate" /\ text' = text /\ IsStmts(text) /\ Whole(text)
      /\ pc \in 1 .. Len(text) /\ Len(text) \in Nat
  BY DEF GenStep, TextInv, IsStmts, IsSeq
<1>2. /\ IsSeq(last_end) /\ Len(last_end) = Cardinality(L)
      /\ \A i \in 1 .. Len(text) : i < pc /\ text[i].op = "exit" => LoopsOf(text, i) # {}
  BY <1>1 DEF LoopInv
<1>3. last_end = << >> <=> L = {}
  <2>1. last_end = << >> <=> Len(last_end) = 0
    BY <1>2, NoElements
  <2>2. IsFiniteSet(L)
    BY <1>1, LoopsFinite
  <2> QED
    BY <1>2, <2>1, <2>2, FS_EmptySet
<1>4. CASE Fails
  <2>1. phase' = "failed" /\ pc' = pc /\ last_end' = last_end /\ text[pc].op = "exit" /\ L = {}
    BY <1>3, <1>4 DEF Fails
  <2> QED
    BY <1>1, <1>2, <2>1 DEF LoopInv
<1>5. CASE Finishes
  <2>1. phase' = "done" /\ pc' = pc /\ last_end' = last_end
    BY <1>5 DEF Finishes
  <2> QED
    BY <1>1, <1>2, <2>1 DEF LoopInv
<1>6. ASSUME phase' = "generate", pc' = pc + 1, text[pc].op = "exit" => L # {},
             IsSeq(last_end'), Len(last_end') = Cardinality(LoopsOf(text, pc + 1))
      PROVE  LoopInv'
  <2>1. \A i \in 1 .. Len(text) : i < pc + 1 => i < pc \/ i = pc
    BY <1>1
  <2>2. \A i \in 1 .. Len(text) : i < pc + 1 /\ text[i].op = "exit" => LoopsOf(text, i) # {}
    BY <1>2, <1>6, <2>1
  <2> QED
    BY <1>1, <1>6, <2>2 DEF LoopInv
<1>7. ASSUME phase' = "generate", pc' = pc + 1, Inside
      PROVE  LoopInv'
  <2>1. /\ text[pc].op \notin Structured /\ text[pc].op # "end" /\ last_end' = last_end
        /\ text[pc].op = "exit" => last_end # << >>
    BY <1>7 DEF Inside
  <2>2. LoopsOf(text, pc + 1) = L
    BY <1>1, <2>1, Passing DEF LoopsOf
  <2> QED
    BY <1>2, <1>3, <1>6, <1>7, <2>1, <2>2
<1>8. ASSUME phase' = "generate", pc' = pc + 1, Begins \/ Ends
      PROVE  LoopInv'
  <2>1. text[pc].op # "exit"
    BY <1>8, FlowAssumption DEF Begins, Ends
  <2>2. IsSeq(last_end') /\ Len(last_end') = Cardinality(LoopsOf(text, pc + 1))
    BY <1>1, <1>2, <1>8, LoopBegun, LoopEnded
  <2> QED
    BY <1>6, <1>8, <2>1, <2>2
<1> QED
  BY <1>4, <1>5, <1>7, <1>8 DEF GenStep

LEMMA LoopSteps == TextInv /\ TextInv' /\ LoopInv /\ [Next]_vars => LoopInv'
<1>1. ASSUME LoopInv, UNCHANGED vars
      PROVE  LoopInv'
  BY <1>1 DEF vars, LoopInv
<1> QED
  BY <1>1, LoopParsed, GenSteps, LoopWalked DEF Next

-----------------------------------------------------------------------------
(* The loops that have not ended at p are the loops around p.              *)

LEMMA EndOfUnclosed ==
  ASSUME NEW t, Len(t) \in Nat, NestedStmts(t), NEW i \in 1 .. Len(t), i # 0,
         NEW j \in 1 .. Len(t), Closes(t[j], i), NEW k \in 1 .. Len(t), Closes(t[k], i)
  PROVE  j = k
<1>1. \A m \in 1 .. Len(t) : Closes(t[m], i) => i \in Unclosed(t, m)
  BY DEF NestedStmts, Innermost, Closes
<1>2. ~(j < k) /\ ~(k < j)
  BY <1>1 DEF Unclosed
<1> QED
  BY <1>2

LEMMA LoopsAgree ==
  ASSUME IsStmts(text), NestedStmts(text), Whole(text),
         NEW p \in DOMAIN text, text[p].op # "end"
  PROVE  LoopsAround(p) = LoopsOf(text, p)
<1>1. DOMAIN text = 1 .. Len(text) /\ Len(text) \in Nat
  BY DEF IsStmts, IsSeq
<1>2. ASSUME NEW i \in 1 .. Len(text), text[i].op \in Structured
      PROVE  EndOf(i) \in 1 .. Len(text) /\ Closes(text[EndOf(i)], i)
  <2>1. i # Len(text)
    BY <1>2, FlowAssumption DEF Whole, Closes
  <2>2. PICK j \in 1 .. Len(text) : Closes(text[j], i)
    <3>1. i < Len(text)
      BY <1>1, <2>1
    <3>2. i \notin Unclosed(text, Len(text))
      BY DEF Whole
    <3> QED
      BY <1>2, <3>1, <3>2 DEF Unclosed
  <2>3. text[j] = [op |-> "end", of |-> i]
    BY <2>2 DEF IsStmts, Closes
  <2>4. EndOf(i) \in 1 .. Len(text) /\ text[EndOf(i)] = [op |-> "end", of |-> i]
    BY <1>1, <2>3 DEF EndOf
  <2> QED
    BY <2>4 DEF Closes
<1>3. ASSUME NEW i \in 1 .. Len(text), text[i].op \in Structured
      PROVE  p < EndOf(i) <=> \A j \in 1 .. Len(text) : j < p => ~Closes(text[j], i)
  <2>1. EndOf(i) \in 1 .. Len(text) /\ Closes(text[EndOf(i)], i)
    BY <1>2, <1>3
  <2>2. \A j \in 1 .. Len(text) : Closes(text[j], i) => j = EndOf(i)
    BY <1>1, <2>1, EndOfUnclosed
  <2>3. EndOf(i) # p
    BY <2>1 DEF Closes
  <2>4. p < EndOf(i) \/ EndOf(i) < p
    BY <1>1, <2>1, <2>3
  <2>5. ~(p < EndOf(i) /\ EndOf(i) < p)
    BY <1>1, <2>1
  <2> QED
    BY <2>1, <2>2, <2>4, <2>5
<1>4. Surrounding(p) = Unclosed(text, p)
  BY <1>1, <1>3 DEF Surrounding, Unclosed
<1> QED
  BY <1>4 DEF LoopsAround, LoopsOf

(* The code generator stops at an EXIT exactly when no loop is around it   *)
(* in the text, although it looks only at last_end (ExitChecked).          *)
THEOREM ExitsChecked == Spec => []ExitChecked
<1>1. Init => LoopInv
  BY DEF Init, LoopInv
<1>2. TextInv /\ LoopInv => ExitChecked
  <2> SUFFICES ASSUME TextInv, LoopInv, Complete, \A i \in DOMAIN text : text[i].op # "begin"
               PROVE  LET loose == {i \in DOMAIN text : text[i].op = "exit" /\ LoopsAround(i) = {}}
                      IN  IF phase = "failed" THEN pc \in loose ELSE loose = {}
    BY DEF ExitChecked
  <2>1. /\ phase \in {"done", "failed"} /\ IsStmts(text) /\ NestedStmts(text) /\ Whole(text)
        /\ DOMAIN text = 1 .. Len(text) /\ Len(text) \in Nat /\ pc \in 1 .. Len(text)
        /\ phase = "done" => pc = Len(text)
    BY DEF Complete, TextInv, IsStmts, IsSeq
  <2>2. /\ \A i \in 1 .. Len(text) : i < pc /\ text[i].op = "exit" => LoopsOf(text, i) # {}
        /\ phase = "failed" => text[pc].op = "exit" /\ LoopsOf(text, pc) = {}
    BY <2>1 DEF LoopInv, NoBegin
  <2>3. \A i \in DOMAIN text : text[i].op = "exit" => LoopsAround(i) = LoopsOf(text, i)
    BY <2>1, LoopsAgree
  <2>4. phase = "done" => \A i \in 1 .. Len(text) : text[i].op = "exit" => i < pc
    <3>1. text[Len(text)].op = "end"
      BY <2>1 DEF Whole, Closes
    <3>2. \A n \in Nat : \A i \in 1 .. n : i = n \/ i < n
      OBVIOUS
    <3> QED
      BY <2>1, <3>1, <3>2
  <2> QED
    BY <2>1, <2>2, <2>3, <2>4
<1> QED
  BY <1>1, <1>2, TextInit, TextSteps, LoopSteps, PTL DEF Spec

-----------------------------------------------------------------------------
(* The numbers of a finite set in order.                                   *)

LEMMA InOrderIs ==
  ASSUME NEW S, IsFiniteSet(S), S \subseteq Nat
  PROVE  /\ Cardinality(S) \in Nat /\ IsSeq(InOrder(S)) /\ Len(InOrder(S)) = Cardinality(S)
         /\ \A k \in 1 .. Cardinality(S) : InOrder(S)[k] \in S
<1> DEFINE n == Cardinality(S)
           Upto(i) == {j \in S : j <= i}
           f == [i \in S |-> Cardinality(Upto(i))]
<1>1. n \in Nat
  BY FS_CardinalityType
<1>2. ASSUME NEW i \in S
      PROVE  IsFiniteSet(Upto(i)) /\ Cardinality(Upto(i)) \in 1 .. n
  <2>1. IsFiniteSet(Upto(i)) /\ Cardinality(Upto(i)) <= n
    BY FS_Subset
  <2>2. Cardinality(Upto(i)) \in Nat
    BY <2>1, FS_CardinalityType
  <2>3. i \in Upto(i)
    OBVIOUS
  <2>4. Cardinality(Upto(i)) # 0
    BY <2>1, <2>3, FS_EmptySet
  <2> QED
    BY <1>1, <2>1, <2>2, <2>4
<1>3. ASSUME NEW i \in S, NEW m \in S, i < m
      PROVE  Cardinality(Upto(i)) # Cardinality(Upto(m))
  <2>1. Upto(i) \in SUBSET Upto(m)
    <3>1. \A j \in S : j \in Nat
      OBVIOUS
    <3>2. \A j \in S : j <= i => j <= m
      BY <1>3, <3>1
    <3> QED
      BY <3>2
  <2>2. m \in Upto(m) /\ m \notin Upto(i)
    BY <1>3
  <2>3. IsFiniteSet(Upto(m))
    BY <1>2
  <2> HIDE DEF Upto
  <2>4. Cardinality(Upto(m)) = Cardinality(Upto(i)) => Upto(m) = Upto(i)
    BY <2>1, <2>3, FS_Subset
  <2> QED
    BY <2>2, <2>4
<1>4. f \in Injection(S, 1 .. n)
  <2>1. f \in [S -> 1 .. n]
    BY <1>2
  <2>2. ASSUME NEW i \in S, NEW m \in S, f[i] = f[m]
        PROVE  i = m
    <3>1. i < m \/ m < i \/ i = m
      OBVIOUS
    <3>2. f[i] = Cardinality(Upto(i)) /\ f[m] = Cardinality(Upto(m))
      OBVIOUS
    <3> HIDE DEF f, Upto
    <3> QED
      BY <1>3, <2>2, <3>1, <3>2
  <2> HIDE DEF f
  <2> QED
    BY <2>1, <2>2 DEF Injection, IsInjective
<1>5. f \in Surjection(S, 1 .. n)
  <2>1. IsFiniteSet(1 .. n) /\ Cardinality(1 .. n) = n
    BY <1>1, FS_Interval
  <2> HIDE DEF f
  <2> QED
    BY <1>4, <2>1, FS_Injection
<1>6. ASSUME NEW k \in 1 .. n
      PROVE  \E i \in S : Cardinality(Upto(i)) = k
  BY <1>5 DEF Surjection
<1>7. InOrder(S) = [k \in 1 .. n |-> CHOOSE i \in S : Cardinality(Upto(i)) = k]
  BY DEF InOrder
<1>8. \A k \in 1 .. n : InOrder(S)[k] \in S
  BY <1>6, <1>7
<1>9. IsSeq(InOrder(S)) /\ Len(InOrder(S)) = n
  <2> DEFINE g(k) == CHOOSE i \in S : Cardinality(Upto(i)) = k
  <2>1. InOrder(S) = [k \in 1 .. n |-> g(k)]
    BY <1>7
  <2> HIDE DEF g, n
  <2>2. Len(InOrder(S)) = n
    BY <1>1, <2>1
  <2> QED
    BY <1>1, <2>1, <2>2 DEF IsSeq
<1> QED
  BY <1>1, <1>8, <1>9

(* The elements of a sequence that has one. *)
LEMMA HeadTailIs ==
  ASSUME NEW s, IsSeq(s), Len(s) >= 1, NEW S, Values(s) \subseteq S
  PROVE  /\ Head(s) \in S
         /\ IsSeq(Tail(s)) /\ Len(Tail(s)) = Len(s) - 1
         /\ \A k \in 1 .. Len(s) - 1 : Tail(s)[k] \in S
<1>1. s \in Seq(S) /\ Len(s) \in Nat
  BY SeqOfValues DEF IsSeq
<1>2. s # << >>
  OBVIOUS
<1>3. Head(s) \in S /\ Tail(s) \in Seq(S) /\ Len(Tail(s)) = Len(s) - 1
  BY <1>1, <1>2, HeadTailProperties
<1>4. IsSeq(Tail(s))
  BY <1>3, SeqIsSeq
<1>5. \A k \in 1 .. Len(Tail(s)) : Tail(s)[k] \in S
  BY <1>3
<1> QED
  BY <1>3, <1>4, <1>5

-----------------------------------------------------------------------------
(* Blocks c whose branches lead to the blocks 1 .. n.                      *)

IsCode(c, n) ==
    /\ IsSeq(c)
    /\ \A b \in 1 .. Len(c) : /\ IsSeq(c[b])
                              /\ \A k \in 1 .. Len(c[b]) : Range(c[b][k].to) \subseteq 1 .. n

LEMMA CodeWider ==
  ASSUME NEW n \in Nat, NEW m \in Nat, n <= m, NEW c, IsCode(c, n)
  PROVE  IsCode(c, m)
<1>1. 1 .. n \subseteq 1 .. m
  OBVIOUS
<1> QED
  BY <1>1 DEF IsCode

LEMMA CodeAdded ==
  ASSUME NEW n, NEW c, IsCode(c, n), NEW b \in 1 .. Len(c),
         NEW x, Range(x.to) \subseteq 1 .. n
  PROVE  IsCode(Add(c, b, x), n) /\ Len(Add(c, b, x)) = Len(c)
<1> DEFINE d == Add(c, b, x)
<1>1. Len(c) \in Nat /\ DOMAIN c = 1 .. Len(c) /\ IsSeq(c[b]) /\ Len(c[b]) \in Nat
  BY DEF IsCode, IsSeq
<1>2. d = [k \in 1 .. Len(c) |-> IF k = b THEN Append(c[b], x) ELSE c[k]]
  BY <1>1 DEF Add
<1>3. IsSeq(d) /\ Len(d) = Len(c)
  <2> DEFINE g(k) == IF k = b THEN Append(c[b], x) ELSE c[k]
  <2>1. d = [k \in 1 .. Len(c) |-> g(k)]
    BY <1>2
  <2> HIDE DEF g, d
  <2>2. Len(d) = Len(c)
    BY <1>1, <2>1
  <2> QED
    BY <1>1, <2>1, <2>2 DEF IsSeq
<1> HIDE DEF d
<1>4. ASSUME NEW k \in 1 .. Len(c), k # b
      PROVE  d[k] = c[k]
  BY <1>2, <1>4
<1>5. d[b] = Append(c[b], x)
  BY <1>2
<1>6. /\ IsSeq(d[b]) /\ Len(d[b]) = Len(c[b]) + 1 /\ d[b][Len(c[b]) + 1] = x
      /\ \A k \in 1 .. Len(c[b]) : d[b][k] = c[b][k]
  BY <1>1, <1>5, Appended
<1>7. \A k \in 1 .. Len(c[b]) + 1 : k \in 1 .. Len(c[b]) \/ k = Len(c[b]) + 1
  BY <1>1
<1>8. \A k \in 1 .. Len(d[b]) : Range(d[b][k].to) \subseteq 1 .. n
  BY <1>6, <1>7 DEF IsCode
<1>9. IsCode(d, n)
  BY <1>3, <1>4, <1>6, <1>8 DEF IsCode
<1> QED
  BY <1>3, <1>9 DEF d

LEMMA CodeJoined ==
  ASSUME NEW n, NEW c, IsCode(c, n), NEW d, IsCode(d, n)
  PROVE  IsCode(c \o d, n) /\ Len(c \o d) = Len(c) + Len(d)
<1> DEFINE e == c \o d
           L == Len(c)
           M == Len(d)
<1>1. IsSeq(c) /\ IsSeq(d) /\ L \in Nat /\ M \in Nat
  BY DEF IsCode, IsSeq
<1>2. /\ IsSeq(e) /\ Len(e) = L + M
      /\ \A k \in 1 .. L : e[k] = c[k]
      /\ \A k \in 1 .. M : e[L + k] = d[k]
  BY <1>1, Joined
<1> HIDE DEF e
<1>3. ASSUME NEW k \in 1 .. L + M
      PROVE  (\E j \in 1 .. L : e[k] = c[j]) \/ (\E j \in 1 .. M : e[k] = d[j])
  <2>1. CASE k \in 1 .. L
    BY <1>2, <2>1
  <2>2. CASE k \notin 1 .. L
    <3>1. k - L \in 1 .. M /\ L + (k - L) = k
      BY <1>1, <2>2
    <3> QED
      BY <1>2, <3>1
  <2> QED
    BY <2>1, <2>2
<1>4. IsCode(e, n)
  <2>1. ASSUME NEW k \in 1 .. Len(e)
        PROVE  IsSeq(e[k]) /\ \A i \in 1 .. Len(e[k]) : Range(e[k][i].to) \subseteq 1 .. n
    <3>1. (\E j \in 1 .. L : e[k] = c[j]) \/ (\E j \in 1 .. M : e[k] = d[j])
      BY <1>2, <1>3
    <3> QED
      BY <3>1 DEF IsCode
  <2> QED
    BY <1>2, <2>1 DEF IsCode
<1> QED
  BY <1>2, <1>4 DEF e

LEMMA CodeBlocks ==
  ASSUME NEW n, NEW k \in Nat
  PROVE  IsCode(Blocks(k), n) /\ Len(Blocks(k)) = k
<1>1. Blocks(k) = [b \in 1 .. k |-> << >>] /\ Len(Blocks(k)) = k
  BY DEF Blocks
<1>2. \A b \in 1 .. k : Blocks(k)[b] = << >>
  BY <1>1
<1>3. IsSeq(Blocks(k))
  BY <1>1 DEF IsSeq
<1>4. IsSeq(<< >>) /\ Len(<< >>) = 0
  BY DEF IsSeq
<1> QED
  BY <1>1, <1>2, <1>3, <1>4 DEF IsCode

LEMMA CodeGrown ==
  ASSUME NEW n, NEW c, IsCode(c, n), NEW k \in Nat
  PROVE  IsCode(c \o Blocks(k), n) /\ Len(c \o Blocks(k)) = Len(c) + k
BY CodeBlocks, CodeJoined

LEMMA Leads ==
  ASSUME NEW op, NEW item
  PROVE  /\ Range(Instr(op, item, << >>).to) = {}
         /\ \A x : Range(Instr(op, item, << x >>).to) = {x} /\ Range(Br(x).to) = {x}
         /\ \A x, y : Range(Instr(op, item, << x, y >>).to) = {x, y}
<1>1. \A to : Instr(op, item, to).to = to
  BY DEF Instr
<1>2. \A x : Br(x).to = << x >>
  BY DEF Br, Instr
<1>3. Range(<< >>) = {}
  BY DEF Range
<1>4. \A x : Range(<< x >>) = {x}
  BY DEF Range
<1>5. ASSUME NEW x, NEW y
      PROVE  Range(<< x, y >>) = {x, y}
  <2>1. DOMAIN << x, y >> = {1, 2} /\ << x, y >>[1] = x /\ << x, y >>[2] = y
    OBVIOUS
  <2> QED
    BY <2>1 DEF Range
<1> QED
  BY <1>1, <1>2, <1>3, <1>4, <1>5

LEMMA BrLeads ==
  ASSUME NEW S, NEW x \in S
  PROVE  Range(Br(x).to) \subseteq S
<1>1. Range(Br(x).to) = {x}
  BY Leads
<1> QED
  BY <1>1

LEMMA TestLeads ==
  ASSUME NEW S, NEW x \in S, NEW y \in S, NEW op, NEW item
  PROVE  Range(Instr(op, item, << x, y >>).to) \subseteq S
<1>1. Instr(op, item, << x, y >>).to = << x, y >>
  BY DEF Instr
<1>2. Range(<< x, y >>) \subseteq S
  BY DEF Range
<1> QED
  BY <1>1, <1>2

LEMMA CodeEjected ==
  ASSUME NEW n, NEW c, IsCode(c, n), NEW b \in 1 .. Len(c), NEW to \in 1 .. n,
         NEW none, NEW empty
  PROVE  /\ IsCode(EjectBranch(c, b, to, none, empty), n)
         /\ Len(EjectBranch(c, b, to, none, empty)) = Len(c)
<1>1. Range(Br(to).to) \subseteq 1 .. n
  BY BrLeads
<1>2. IsCode(Add(c, b, Br(to)), n) /\ Len(Add(c, b, Br(to))) = Len(c)
  BY <1>1, CodeAdded
<1> QED
  BY <1>2 DEF EjectBranch

-----------------------------------------------------------------------------
(* The blocks that handlers keep: those of the clauses of an IF that have  *)
(* not begun, of each label of a CASE, and of the beginning of a loop.     *)

ElsifsFrom(t, i, p) == {j \in 1 .. Len(t) : t[j].of = i /\ t[j].op = "elsif" /\ p <= j}
PartsAt(t, i, ops)  == {j \in DOMAIN t : t[j].of = i /\ t[j].op \in ops}
LabelsOf(t, i)      == PartsAt(t, i, {"value", "range"})

FrameOK(t, e, n, p) ==
    /\ e.end \in 1 .. n /\ e.other \in 1 .. n
    /\ t[e.item].op = "if" =>
          /\ IsSeq(e.parts) /\ Values(e.parts) \subseteq 1 .. n
          /\ Len(e.parts) = Cardinality(ElsifsFrom(t, e.item, p))
    /\ t[e.item].op = "case" => \A k \in 0 .. Cardinality(LabelsOf(t, e.item)) : e.parts[k] \in 1 .. n
    /\ t[e.item].op = "for" => e.parts[1] \in 1 .. n

CodeOK ==
    /\ IsCode(code, Len(code)) /\ at \in 1 .. Len(code)
    /\ IsSeq(last_end) /\ Values(last_end) \subseteq 1 .. Len(code)

CodeInv ==
    /\ CodeOK
    /\ phase = "generate" => \A k \in 1 .. Len(open) : FrameOK(text, open[k], Len(code), pc)

LEMMA PartSets ==
  ASSUME IsStmts(text), NEW i, NEW ops
  PROVE  LET S == PartsAt(text, i, ops)
         IN  /\ S \subseteq 1 .. Len(text) /\ IsFiniteSet(S) /\ Cardinality(S) \in Nat
             /\ IsSeq(Parts(i, ops)) /\ Len(Parts(i, ops)) = Cardinality(S)
             /\ \A k \in 1 .. Cardinality(S) : Parts(i, ops)[k] \in S
<1> DEFINE S == PartsAt(text, i, ops)
<1>1. S \subseteq 1 .. Len(text)
  BY DEF IsStmts, IsSeq, PartsAt
<1>2. IsFiniteSet(1 .. Len(text)) /\ S \subseteq Nat
  BY <1>1, FS_Interval DEF IsStmts, IsSeq
<1>3. Parts(i, ops) = InOrder(S)
  BY DEF Parts, PartsAt
<1> HIDE DEF S
<1>4. IsFiniteSet(S)
  BY <1>1, <1>2, FS_Subset
<1>5. /\ Cardinality(S) \in Nat /\ IsSeq(InOrder(S)) /\ Len(InOrder(S)) = Cardinality(S)
      /\ \A k \in 1 .. Cardinality(S) : InOrder(S)[k] \in S
  BY <1>2, <1>4, InOrderIs
<1>6. /\ S \subseteq 1 .. Len(text) /\ IsFiniteSet(S) /\ Cardinality(S) \in Nat
      /\ IsSeq(Parts(i, ops)) /\ Len(Parts(i, ops)) = Cardinality(S)
      /\ \A k \in 1 .. Cardinality(S) : Parts(i, ops)[k] \in S
  BY <1>1, <1>3, <1>4, <1>5
<1> QED
  BY <1>6 DEF S

LEMMA FrameStays ==
  ASSUME NEW n \in Nat, NEW m \in Nat, n <= m, NEW t, Len(t) \in Nat, NEW p \in 1 .. Len(t),
         NEW e, FrameOK(t, e, n, p), t[p].op = "elsif" => t[p].of # e.item
  PROVE  FrameOK(t, e, m, p + 1)
<1>1. 1 .. n \subseteq 1 .. m
  OBVIOUS
<1>2. \A j \in 1 .. Len(t) : p <= j <=> p + 1 <= j \/ j = p
  OBVIOUS
<1>3. ElsifsFrom(t, e.item, p) = ElsifsFrom(t, e.item, p + 1)
  BY <1>2 DEF ElsifsFrom
<1> QED
  BY <1>1, <1>3 DEF FrameOK

(* The top handler, for an item that is part of a statement. *)
LEMMA InnerOK ==
  ASSUME TextInv, CodeInv, phase = "generate", text[pc].of # 0
  PROVE  /\ Len(open) \in 1 .. Len(open) /\ open[Len(open)].item = text[pc].of
         /\ \A k \in 1 .. Len(open) : k # Len(open) => open[k].item # text[pc].of
         /\ Inner.item = text[pc].of /\ FrameOK(text, Inner, Len(code), pc)
<1> DEFINE U == Unclosed(text, pc)
<1>1. OpenItems(open, U) /\ Innermost(text[pc].of, U) /\ U \in SUBSET Nat
  BY UnclosedNat DEF TextInv, NestedStmts
<1> HIDE DEF U
<1>2. Len(open) \in 1 .. Len(open) /\ open[Len(open)].item = text[pc].of
  BY <1>1, OpenTop
<1>3. ASSUME NEW k \in 1 .. Len(open), k # Len(open)
      PROVE  open[k].item # text[pc].of
  <2>1. k < Len(open)
    BY <1>2, <1>3
  <2>2. open[k].item < open[Len(open)].item /\ open[k].item \in Nat
    BY <1>1, <1>2, <2>1 DEF OpenItems
  <2> QED
    BY <1>2, <2>2
<1> QED
  BY <1>2, <1>3 DEF Inner, CodeInv

(* A handler that emits code and leaves the other handlers alone. *)
Emits == CodeOK' /\ Len(code) <= Len(code')
Walks == phase = "generate" /\ phase' = "generate" /\ pc' = pc + 1 /\ UNCHANGED text

LEMMA Lengths ==
  ASSUME TextInv, CodeInv, Emits
  PROVE  Len(code) \in Nat /\ Len(code') \in Nat /\ Len(text) \in Nat /\ Len(open) \in Nat
BY DEF CodeInv, CodeOK, IsCode, IsSeq, Emits, TextInv, IsStmts, OpenItems

LEMMA FramesStayOK ==
  ASSUME TextInv, CodeInv, Walks, Emits, text[pc].op # "elsif",
         \/ open' = open
         \/ open' = SubSeq(open, 1, Len(open) - 1) /\ text[pc].of # 0
  PROVE  CodeInv'
<1>1. /\ Len(code) \in Nat /\ Len(code') \in Nat /\ Len(code) <= Len(code')
      /\ Len(text) \in Nat /\ pc \in 1 .. Len(text) /\ IsSeq(open)
      /\ \A k \in 1 .. Len(open) : FrameOK(text, open[k], Len(code), pc)
  BY Lengths DEF Emits, TextInv, OpenItems, CodeInv, Walks
<1>2. \A k \in 1 .. Len(open) : FrameOK(text, open[k], Len(code'), pc + 1)
  BY <1>1, FrameStays
<1>3. \A k \in 1 .. Len(open') : k \in 1 .. Len(open) /\ open'[k] = open[k]
  <2>1. CASE open' = open
    BY <2>1
  <2>2. CASE open' = SubSeq(open, 1, Len(open) - 1) /\ text[pc].of # 0
    <3>1. Len(open) \in 1 .. Len(open) /\ Len(open) \in Nat
      BY <1>1, <2>2, InnerOK DEF Walks, IsSeq
    <3>2. Len(open') = Len(open) - 1 /\ \A k \in 1 .. Len(open) - 1 : open'[k] = open[k]
      BY <1>1, <2>2, <3>1, Fronted
    <3>3. \A k \in 1 .. Len(open) - 1 : k \in 1 .. Len(open)
      BY <3>1
    <3> QED
      BY <3>2, <3>3
  <2> QED
    BY <2>1, <2>2
<1> QED
  BY <1>2, <1>3 DEF CodeInv, Emits, Walks

LEMMA FramesPushOK ==
  ASSUME TextInv, CodeInv, Walks, Emits, text[pc].op # "elsif",
         NEW e, open' = Append(open, e), FrameOK(text, e, Len(code'), pc + 1)
  PROVE  CodeInv'
<1>1. /\ Len(code) \in Nat /\ Len(code') \in Nat /\ Len(code) <= Len(code')
      /\ Len(text) \in Nat /\ pc \in 1 .. Len(text) /\ IsSeq(open) /\ Len(open) \in Nat
      /\ \A k \in 1 .. Len(open) : FrameOK(text, open[k], Len(code), pc)
  BY Lengths DEF Emits, TextInv, OpenItems, CodeInv, Walks
<1>2. \A k \in 1 .. Len(open) : FrameOK(text, open[k], Len(code'), pc + 1)
  BY <1>1, FrameStays
<1>3. /\ Len(open') = Len(open) + 1 /\ open'[Len(open) + 1] = e
      /\ \A k \in 1 .. Len(open) : open'[k] = open[k]
  BY <1>1, Appended
<1>4. \A k \in 1 .. Len(open) + 1 : k \in 1 .. Len(open) \/ k = Len(open) + 1
  BY <1>1
<1> QED
  BY <1>2, <1>3, <1>4 DEF CodeInv, Emits, Walks

LEMMA LastEndKept ==
  ASSUME CodeInv, UNCHANGED last_end, Len(code') \in Nat, Len(code) <= Len(code'),
         IsCode(code', Len(code')), at' \in 1 .. Len(code')
  PROVE  Emits
<1>1. Len(code) \in Nat
  BY DEF CodeInv, CodeOK, IsCode, IsSeq
<1>2. 1 .. Len(code) \subseteq 1 .. Len(code')
  BY <1>1
<1> QED
  BY <1>2 DEF CodeInv, CodeOK, Emits

LEMMA LastEndPushed ==
  ASSUME CodeInv, NEW x, last_end' = Append(last_end, x), x \in 1 .. Len(code'),
         Len(code') \in Nat, Len(code) <= Len(code'),
         IsCode(code', Len(code')), at' \in 1 .. Len(code')
  PROVE  Emits
<1>1. Len(code) \in Nat /\ IsSeq(last_end) /\ Len(last_end) \in Nat
  BY DEF CodeInv, CodeOK, IsCode, IsSeq
<1>2. 1 .. Len(code) \subseteq 1 .. Len(code')
  BY <1>1
<1>3. /\ IsSeq(last_end') /\ Len(last_end') = Len(last_end) + 1
      /\ last_end'[Len(last_end) + 1] = x
      /\ \A k \in 1 .. Len(last_end) : last_end'[k] = last_end[k]
  BY <1>1, Appended
<1>4. \A k \in 1 .. Len(last_end) + 1 : k \in 1 .. Len(last_end) \/ k = Len(last_end) + 1
  BY <1>1
<1>5. Values(last_end') \subseteq 1 .. Len(code')
  BY <1>2, <1>3, <1>4 DEF CodeInv, CodeOK, Values
<1> QED
  BY <1>3, <1>5 DEF CodeOK, Emits

LEMMA LastEndPopped ==
  ASSUME CodeInv, last_end' = Front(last_end),
         Len(code') \in Nat, Len(code) <= Len(code'),
         IsCode(code', Len(code')), at' \in 1 .. Len(code')
  PROVE  Emits
<1>1. Len(code) \in Nat /\ IsSeq(last_end) /\ Len(last_end) \in Nat
  BY DEF CodeInv, CodeOK, IsCode, IsSeq
<1>2. 1 .. Len(code) \subseteq 1 .. Len(code')
  BY <1>1
<1> DEFINE T == 1 .. Len(code')
<1>3. last_end' \in Seq(T)
  <2>1. \A k \in 1 .. Len(last_end) - 1 : k \in 1 .. Len(last_end)
    BY <1>1
  <2>2. \A k \in 1 .. Len(last_end) - 1 : last_end[k] \in T
    BY <1>2, <2>1 DEF CodeInv, CodeOK, Values
  <2> HIDE DEF T
  <2>3. Len(last_end) - 1 \in Int
    BY <1>1
  <2> QED
    BY <2>2, <2>3, SubSeqProperties DEF Front
<1>4. IsSeq(last_end') /\ \A k \in 1 .. Len(last_end') : last_end'[k] \in T
  BY <1>3, SeqIsSeq
<1>5. Values(last_end') \subseteq 1 .. Len(code')
  BY <1>4 DEF Values
<1> QED
  BY <1>4, <1>5 DEF CodeOK, Emits

-----------------------------------------------------------------------------
(* The handlers that make no blocks.                                       *)

LEMMA NoNewBlocks ==
  ASSUME TextInv, CodeInv, Walks, text[pc].op # "elsif",
         IsCode(code', Len(code)), Len(code') = Len(code), at' \in 1 .. Len(code),
         \/ open' = open
         \/ open' = SubSeq(open, 1, Len(open) - 1) /\ text[pc].of # 0,
         \/ last_end' = last_end
         \/ last_end' = Front(last_end)
         \/ \E x \in 1 .. Len(code) : last_end' = Append(last_end, x)
  PROVE  CodeInv'
<1>1. /\ Len(code) \in Nat /\ Len(code') \in Nat /\ Len(code) <= Len(code')
      /\ IsCode(code', Len(code')) /\ at' \in 1 .. Len(code')
  <2>1. IsCode(code, Len(code))
    BY DEF CodeInv, CodeOK
  <2>2. Len(code) \in Nat
    BY <2>1 DEF IsCode, IsSeq
  <2> QED
    BY <2>2
<1>2. Emits
  <2>1. CASE last_end' = last_end
    BY <1>1, <2>1, LastEndKept
  <2>2. CASE last_end' = Front(last_end)
    BY <1>1, <2>2, LastEndPopped
  <2>3. CASE \E x \in 1 .. Len(code) : last_end' = Append(last_end, x)
    <3>1. PICK x \in 1 .. Len(code) : last_end' = Append(last_end, x)
      BY <2>3
    <3>2. x \in 1 .. Len(code')
      OBVIOUS
    <3> QED
      BY <1>1, <3>1, <3>2, LastEndPushed
  <2> QED
    BY <2>1, <2>2, <2>3
<1> QED
  BY <1>2, FramesStayOK

(* One instruction that leads to existing blocks. *)
LEMMA OneAdded ==
  ASSUME CodeInv, NEW b \in 1 .. Len(code), NEW x, Range(x.to) \subseteq 1 .. Len(code)
  PROVE  IsCode(Add(code, b, x), Len(code)) /\ Len(Add(code, b, x)) = Len(code)
BY CodeAdded DEF CodeInv, CodeOK

LEMMA Here ==
  ASSUME CodeInv
  PROVE  at \in 1 .. Len(code) /\ IsCode(code, Len(code)) /\ Len(code) \in Nat
BY DEF CodeInv, CodeOK, IsCode, IsSeq

LEMMA SimpleCode ==
  ASSUME TextInv, CodeInv, GenerateSimple \/ GenerateReturn
  PROVE  CodeInv'
<1>1. /\ Walks /\ text[pc].op \in {"stmt", "return"} /\ UNCHANGED << open, at, last_end >>
      /\ \E op : code' = Add(code, at, Instr(op, pc, << >>))
  BY DEF GenerateSimple, GenerateReturn, Visiting, Onward, Walks
<1>2. PICK op : code' = Add(code, at, Instr(op, pc, << >>))
  BY <1>1
<1>3. IsCode(code', Len(code)) /\ Len(code') = Len(code)
  <2>1. Range(Instr(op, pc, << >>).to) \subseteq 1 .. Len(code)
    BY Leads
  <2> QED
    BY <1>2, <2>1, Here, OneAdded
<1> QED
  BY <1>1, <1>3, Here, NoNewBlocks

LEMMA ExitCode ==
  ASSUME TextInv, CodeInv, GenerateExit
  PROVE  CodeInv'
<1>1. text[pc].op = "exit" /\ phase = "generate" /\ UNCHANGED << text, open, at, last_end >>
  BY DEF GenerateExit, Visiting
<1>2. CASE last_end = << >>
  <2>1. phase' = "failed" /\ code' = code
    BY <1>2 DEF GenerateExit
  <2> QED
    BY <1>1, <2>1 DEF CodeInv, CodeOK
<1>3. CASE last_end # << >>
  <2>1. code' = Add(code, at, Br(Last(last_end))) /\ Walks
    BY <1>1, <1>3 DEF GenerateExit, Onward, Walks
  <2>2. Last(last_end) \in 1 .. Len(code)
    <3>1. IsSeq(last_end) /\ Len(last_end) \in Nat /\ Len(last_end) # 0
      BY <1>3, NoElements DEF CodeInv, CodeOK, IsSeq
    <3>2. Len(last_end) \in 1 .. Len(last_end)
      BY <3>1
    <3> QED
      BY <3>2 DEF CodeInv, CodeOK, Values, Last
  <2>3. IsCode(code', Len(code)) /\ Len(code') = Len(code)
    <3>1. Range(Br(Last(last_end)).to) \subseteq 1 .. Len(code)
      BY <2>2, BrLeads
    <3> QED
      BY <2>1, <3>1, Here, OneAdded
  <2> QED
    BY <1>1, <2>1, <2>3, Here, NoNewBlocks
<1> QED
  BY <1>2, <1>3

(* The branch at the end of the statements before a part, or before END. *)
LEMMA EjectedHere ==
  ASSUME TextInv, CodeInv, NEW to \in 1 .. Len(code),
         \E empty \in BackOfEmpty : code' = EjectBranch(code, at, to, NoStatements, empty)
  PROVE  IsCode(code', Len(code)) /\ Len(code') = Len(code)
BY Here, CodeEjected

LEMMA ClauseCode ==
  ASSUME TextInv, CodeInv, GenerateElse \/ GenerateEndIf \/ GenerateEndWhile
  PROVE  CodeInv'
<1>1. /\ Walks /\ text[pc].op \in {"else", "end"} /\ text[pc].of # 0
      /\ \E to \in {Inner.end, Inner.other} : \E empty \in BackOfEmpty :
            code' = EjectBranch(code, at, to, NoStatements, empty)
      /\ at' \in {Inner.end, Inner.other}
      /\ open' = open \/ open' = SubSeq(open, 1, Len(open) - 1)
      /\ last_end' = last_end \/ last_end' = Front(last_end)
  BY DEF GenerateElse, GenerateEndIf, GenerateEndWhile, VisitingPart, Visiting, Onward, Walks, Outer
<1>2. Inner.end \in 1 .. Len(code) /\ Inner.other \in 1 .. Len(code)
  BY <1>1, InnerOK DEF Walks, FrameOK
<1>3. IsCode(code', Len(code)) /\ Len(code') = Len(code)
  BY <1>1, <1>2, EjectedHere
<1> QED
  BY <1>1, <1>2, <1>3, NoNewBlocks

LEMMA ElementEnded ==
  ASSUME CodeInv, Inner.end \in 1 .. Len(code), NEW empty
  PROVE  IsCode(EndElement(empty), Len(code)) /\ Len(EndElement(empty)) = Len(code)
<1>1. EndElement(empty) \in {code, Add(code, at, Br(Inner.end))}
  BY DEF EndElement
<1>2. Range(Br(Inner.end).to) \subseteq 1 .. Len(code)
  BY BrLeads
<1> QED
  BY <1>1, <1>2, Here, OneAdded

LEMMA LabelBlock ==
  ASSUME TextInv, CodeInv, phase = "generate", text[pc].of # 0, text[text[pc].of].op = "case"
  PROVE  Inner.parts[LabelNumber(pc)] \in 1 .. Len(code)
<1> DEFINE i == text[pc].of
           L == LabelsOf(text, i)
           P == Parts(i, {"value", "range"})
           T == {k \in Range(P) : k <= pc}
<1>1. IsStmts(text)
  BY DEF TextInv
<1>2. L = PartsAt(text, i, {"value", "range"})
  BY DEF LabelsOf
<1>3. /\ IsFiniteSet(L) /\ Cardinality(L) \in Nat /\ IsSeq(P) /\ Len(P) = Cardinality(L)
      /\ \A k \in 1 .. Cardinality(L) : P[k] \in L
  BY <1>1, <1>2, PartSets
<1>4. T \in SUBSET L
  <2> HIDE DEF P, L
  <2>1. DOMAIN P = 1 .. Len(P)
    BY <1>3 DEF IsSeq
  <2> QED
    BY <1>3, <2>1 DEF Range
<1>5. Cardinality(T) \in 0 .. Cardinality(L)
  <2> HIDE DEF T, L
  <2>1. IsFiniteSet(T) /\ Cardinality(T) <= Cardinality(L)
    BY <1>3, <1>4, FS_Subset
  <2>2. Cardinality(T) \in Nat
    BY <2>1, FS_CardinalityType
  <2> QED
    BY <1>3, <2>1, <2>2
<1>6. LabelNumber(pc) = Cardinality(T)
  BY DEF LabelNumber
<1>7. Inner.item = i /\ FrameOK(text, Inner, Len(code), pc)
  BY InnerOK
<1> HIDE DEF T, L
<1>8. \A k \in 0 .. Cardinality(L) : Inner.parts[k] \in 1 .. Len(code)
  BY <1>7 DEF FrameOK, L
<1> QED
  BY <1>5, <1>6, <1>8

LEMMA LabelCode ==
  ASSUME TextInv, CodeInv, GenerateLabel \/ GenerateCaseElse \/ GenerateEndCase
  PROVE  CodeInv'
<1>1. /\ Walks /\ text[pc].op \in {"value", "range", "else", "end"} /\ text[pc].of # 0
      /\ text[text[pc].of].op = "case"
      /\ \/ \E empty \in BackOfEmpty : code' = EndElement(empty)
         \/ code' = code \/ code' = Add(code, at, Br(Inner.end))
      /\ at' \in {Inner.parts[LabelNumber(pc)], Inner.other, Inner.end, at}
      /\ open' = open \/ open' = SubSeq(open, 1, Len(open) - 1)
      /\ last_end' = last_end
  BY DEF GenerateLabel, GenerateCaseElse, GenerateEndCase, VisitingPart, Visiting, Onward, Walks, Outer
<1>2. Inner.end \in 1 .. Len(code) /\ Inner.other \in 1 .. Len(code)
  BY <1>1, InnerOK DEF Walks, FrameOK
<1>3. Inner.parts[LabelNumber(pc)] \in 1 .. Len(code)
  BY <1>1, LabelBlock DEF Walks
<1>4. IsCode(code', Len(code)) /\ Len(code') = Len(code)
  <2>1. Range(Br(Inner.end).to) \subseteq 1 .. Len(code)
    BY <1>2, BrLeads
  <2>2. CASE code' = Add(code, at, Br(Inner.end))
    BY <2>1, <2>2, Here, OneAdded
  <2>3. CASE code' = code
    BY <2>3, Here
  <2>4. CASE \E empty \in BackOfEmpty : code' = EndElement(empty)
    BY <1>2, <2>4, ElementEnded
  <2> QED
    BY <1>1, <2>2, <2>3, <2>4
<1>5. at' \in 1 .. Len(code)
  BY <1>1, <1>2, <1>3, Here
<1> QED
  BY <1>1, <1>4, <1>5, NoNewBlocks

LEMMA LoopEndCode ==
  ASSUME TextInv, CodeInv, GenerateUntil \/ GenerateEndLoop \/ GenerateEndBegin
  PROVE  CodeInv'
<1>1. /\ Walks /\ text[pc].op = "end" /\ text[pc].of # 0
      /\ \E x : /\ code' = Add(code, at, x)
               /\ \/ x = Br(Inner.end) \/ x = Br(Inner.other)
                  \/ x = Instr("test", Inner.item, << Inner.end, Inner.other >>)
      /\ at' = Inner.end
      /\ open' = SubSeq(open, 1, Len(open) - 1)
      /\ last_end' = Front(last_end) \/ last_end' = Append(last_end, Inner.end)
  BY DEF GenerateUntil, GenerateEndLoop, GenerateEndBegin, VisitingPart, Visiting, Onward, Walks, Outer
<1>2. Inner.end \in 1 .. Len(code) /\ Inner.other \in 1 .. Len(code)
  BY <1>1, InnerOK DEF Walks, FrameOK
<1>3. PICK x : /\ code' = Add(code, at, x)
               /\ \/ x = Br(Inner.end) \/ x = Br(Inner.other)
                  \/ x = Instr("test", Inner.item, << Inner.end, Inner.other >>)
  BY <1>1
<1>4. Range(x.to) \subseteq 1 .. Len(code)
  <2>1. /\ Range(Br(Inner.end).to) \subseteq 1 .. Len(code)
        /\ Range(Br(Inner.other).to) \subseteq 1 .. Len(code)
        /\ Range(Instr("test", Inner.item, << Inner.end, Inner.other >>).to) \subseteq 1 .. Len(code)
    BY <1>2, BrLeads, TestLeads
  <2> QED
    BY <1>3, <2>1
<1>5. IsCode(code', Len(code)) /\ Len(code') = Len(code)
  BY <1>3, <1>4, Here, OneAdded
<1> QED
  BY <1>1, <1>2, <1>5, NoNewBlocks

LEMMA ForEndCode ==
  ASSUME TextInv, CodeInv, GenerateEndFor
  PROVE  CodeInv'
<1> DEFINE n == Len(code)
           forpos == Inner.parts[1]
           c == Add(code, at, Instr("do", pc, << >>))
           d == Add(c, at, Br(forpos))
<1>1. /\ Walks /\ text[pc].op = "end" /\ text[pc].of # 0 /\ text[text[pc].of].op = "for"
      /\ code' = Add(d, forpos, Instr("test", Inner.item, << Inner.other, Inner.end >>))
      /\ at' = Inner.end /\ open' = SubSeq(open, 1, Len(open) - 1) /\ last_end' = Front(last_end)
  BY DEF GenerateEndFor, VisitingPart, Visiting, Onward, Walks, Outer
<1>2. Inner.end \in 1 .. n /\ Inner.other \in 1 .. n /\ forpos \in 1 .. n
  BY <1>1, InnerOK DEF Walks, FrameOK
<1>3. at \in 1 .. n /\ IsCode(code, n)
  BY Here
<1> HIDE DEF forpos, n
<1>4. IsCode(c, n) /\ Len(c) = n
  <2>1. Range(Instr("do", pc, << >>).to) \subseteq 1 .. n
    BY Leads
  <2> QED
    BY <1>3, <2>1, CodeAdded DEF n
<1> HIDE DEF c
<1>5. IsCode(d, n) /\ Len(d) = n
  <2>1. Range(Br(forpos).to) \subseteq 1 .. n
    BY <1>2, BrLeads
  <2> QED
    BY <1>3, <1>4, <2>1, CodeAdded
<1> HIDE DEF d
<1>6. IsCode(code', n) /\ Len(code') = n
  <2>1. Range(Instr("test", Inner.item, << Inner.other, Inner.end >>).to) \subseteq 1 .. n
    BY <1>2, TestLeads
  <2> DEFINE x == Instr("test", Inner.item, << Inner.other, Inner.end >>)
  <2>2. Range(x.to) \subseteq 1 .. n /\ code' = Add(d, forpos, x) /\ forpos \in 1 .. Len(d)
    BY <1>1, <1>2, <1>5, <2>1
  <2> HIDE DEF x
  <2>3. IsCode(Add(d, forpos, x), n) /\ Len(Add(d, forpos, x)) = Len(d)
    BY <1>5, <2>2, CodeAdded
  <2> QED
    BY <1>5, <2>2, <2>3
<1> USE DEF n
<1> QED
  BY <1>1, <1>2, <1>6, NoNewBlocks

-----------------------------------------------------------------------------
(* The handlers that make blocks.                                          *)

LEMMA FrameIs ==
  ASSUME NEW a, NEW b, NEW c, NEW d, NEW e, e = [item |-> a, end |-> b, other |-> c, parts |-> d]
  PROVE  e.item = a /\ e.end = b /\ e.other = c /\ e.parts = d
OBVIOUS

LEMMA NewBlocks ==
  ASSUME CodeInv, NEW k \in Nat, NEW m, m = Len(code) + k
  PROVE  /\ IsCode(code \o Blocks(k), m) /\ Len(code \o Blocks(k)) = m
         /\ m \in Nat /\ Len(code) <= m /\ 1 .. Len(code) \subseteq 1 .. m /\ at \in 1 .. m
<1>1. Len(code) \in Nat /\ at \in 1 .. Len(code) /\ IsCode(code, Len(code))
  BY Here
<1>2. m \in Nat /\ Len(code) <= m /\ 1 .. Len(code) \subseteq 1 .. m /\ at \in 1 .. m
  BY <1>1
<1>3. IsCode(code, m)
  BY <1>1, <1>2, CodeWider
<1> QED
  BY <1>2, <1>3, CodeGrown

(* A loop or a BEGIN; both branches of a test, if there is one, are new. *)
LEMMA LoopBeginCode ==
  ASSUME TextInv, CodeInv, GenerateWhile \/ GenerateRepeatLoopBegin
  PROVE  CodeInv'
<1> DEFINE n == Len(code)
<1>1. /\ Walks /\ text[pc].op \in {"while", "repeat", "loop", "begin"}
      /\ at' \in {n + 1, n + 2}
  BY DEF GenerateWhile, GenerateRepeatLoopBegin, Visiting, Onward, Walks, FreshBlock
<1>2. n \in Nat /\ at \in 1 .. n
  BY Here
<1>3. \E m \in {n + 2, n + 3} :
        /\ IsCode(code', m) /\ Len(code') = m
        /\ last_end' = Append(last_end, m)
        /\ open' = Append(open, [Frame(pc) EXCEPT !.end = m, !.other = n + 1])
  <2>1. CASE GenerateWhile
    <3> DEFINE m == n + 3
               c == code \o Blocks(3)
               d == Add(c, at, Br(n + 1))
    <3>0. m = Len(code) + 3 /\ 3 \in Nat /\ n + 1 + 1 = n + 2 /\ n + 1 + 2 = m
      BY <1>2
    <3>1. /\ code' = Add(d, n + 1, Instr("test", pc, << n + 2, m >>))
          /\ last_end' = Append(last_end, m)
          /\ open' = Append(open, [Frame(pc) EXCEPT !.end = m, !.other = n + 1])
      BY <2>1, <3>0 DEF GenerateWhile, FreshBlock
    <3>2. n + 1 \in 1 .. m /\ n + 2 \in 1 .. m /\ m \in 1 .. m
      BY <1>2
    <3>3. IsCode(c, m) /\ Len(c) = m /\ at \in 1 .. m
      BY <3>0, NewBlocks
    <3> HIDE DEF c, m
    <3>4. IsCode(d, m) /\ Len(d) = m
      <4>1. Range(Br(n + 1).to) \subseteq 1 .. m
        BY <3>2, BrLeads
      <4> QED
        BY <3>3, <4>1, CodeAdded
    <3> HIDE DEF d
    <3>5. IsCode(code', m) /\ Len(code') = m
      <4>1. Range(Instr("test", pc, << n + 2, m >>).to) \subseteq 1 .. m
        BY <3>2, TestLeads
      <4> DEFINE x == Instr("test", pc, << n + 2, m >>)
      <4>2. Range(x.to) \subseteq 1 .. m /\ code' = Add(d, n + 1, x) /\ n + 1 \in 1 .. Len(d)
        BY <3>1, <3>2, <3>4, <4>1
      <4> HIDE DEF x
      <4>3. IsCode(Add(d, n + 1, x), m) /\ Len(Add(d, n + 1, x)) = Len(d)
        BY <3>4, <4>2, CodeAdded
      <4> QED
        BY <3>4, <4>2, <4>3
    <3> QED
      BY <3>1, <3>5 DEF m
  <2>2. CASE GenerateRepeatLoopBegin
    <3> DEFINE m == n + 2
               c == code \o Blocks(2)
    <3>0. m = Len(code) + 2 /\ 2 \in Nat /\ n + 1 + 1 = m
      BY <1>2
    <3>1. /\ code' = Add(c, at, Br(n + 1))
          /\ last_end' = Append(last_end, m)
          /\ open' = Append(open, [Frame(pc) EXCEPT !.end = m, !.other = n + 1])
      BY <2>2, <3>0 DEF GenerateRepeatLoopBegin, FreshBlock
    <3>2. n + 1 \in 1 .. m
      BY <1>2
    <3>3. IsCode(c, m) /\ Len(c) = m /\ at \in 1 .. m
      BY <3>0, NewBlocks
    <3> HIDE DEF c, m
    <3>4. IsCode(code', m) /\ Len(code') = m
      <4>1. Range(Br(n + 1).to) \subseteq 1 .. m
        BY <3>2, BrLeads
      <4> QED
        BY <3>1, <3>3, <4>1, CodeAdded
    <3> QED
      BY <3>1, <3>4 DEF m
  <2> QED
    BY <2>1, <2>2
<1>4. PICK m \in {n + 2, n + 3} :
        /\ IsCode(code', m) /\ Len(code') = m
        /\ last_end' = Append(last_end, m)
        /\ open' = Append(open, [Frame(pc) EXCEPT !.end = m, !.other = n + 1])
  BY <1>3
<1>5. m \in Nat /\ n <= m /\ m \in 1 .. m /\ n + 1 \in 1 .. m /\ n + 2 \in 1 .. m
  BY <1>2
<1>6. Emits
  <2>1. at' \in 1 .. Len(code') /\ m \in 1 .. Len(code') /\ Len(code') \in Nat /\ Len(code) <= Len(code')
    BY <1>1, <1>4, <1>5
  <2> QED
    BY <1>4, <2>1, LastEndPushed
<1> DEFINE e == [item |-> pc, end |-> m, other |-> n + 1, parts |-> << >>]
<1>7. open' = Append(open, e)
  BY <1>4, FrameWith, Zenon
<1>8. e.item = pc /\ e.end = m /\ e.other = n + 1
  OBVIOUS
<1> HIDE DEF e
<1>9. FrameOK(text, e, Len(code'), pc + 1)
  BY <1>1, <1>4, <1>5, <1>8 DEF FrameOK
<1> QED
  BY <1>1, <1>6, <1>7, <1>9, FramesPushOK

LEMMA ForCode ==
  ASSUME TextInv, CodeInv, GenerateFor
  PROVE  CodeInv'
<1> DEFINE n == Len(code)
           m == n + 3
           c == code \o Blocks(3)
           d == Add(c, at, Instr("do", pc, << >>))
           e == [item |-> pc, end |-> m, other |-> n + 1, parts |-> << n + 2 >>]
<1>1. n \in Nat /\ m = Len(code) + 3 /\ 3 \in Nat /\ n + 1 + 1 = n + 2 /\ n + 1 + 2 = m
  BY Here
<1>2. /\ Walks /\ text[pc].op = "for" /\ at' = n + 1
      /\ code' = Add(d, at, Br(n + 1))
      /\ open' = Append(open, e) /\ last_end' = Append(last_end, m)
  BY <1>1 DEF GenerateFor, Visiting, Onward, Walks, FreshBlock
<1>3. IsCode(c, m) /\ Len(c) = m /\ at \in 1 .. m /\ m \in Nat /\ n <= m
  BY <1>1, NewBlocks
<1>4. n + 1 \in 1 .. m /\ n + 2 \in 1 .. m /\ m \in 1 .. m
  BY <1>1
<1>5. e.item = pc /\ e.end = m /\ e.other = n + 1 /\ e.parts[1] = n + 2
  OBVIOUS
<1> HIDE DEF c, m, e
<1>6. IsCode(d, m) /\ Len(d) = m
  <2>1. Range(Instr("do", pc, << >>).to) \subseteq 1 .. m
    BY Leads
  <2> QED
    BY <1>3, <2>1, CodeAdded
<1> HIDE DEF d
<1>7. IsCode(code', m) /\ Len(code') = m
  <2>1. Range(Br(n + 1).to) \subseteq 1 .. m
    BY <1>4, BrLeads
  <2>2. code' = Add(d, at, Br(n + 1)) /\ at \in 1 .. Len(d)
    BY <1>2, <1>3, <1>6
  <2>3. IsCode(Add(d, at, Br(n + 1)), m) /\ Len(Add(d, at, Br(n + 1))) = Len(d)
    BY <1>6, <2>1, <2>2, CodeAdded
  <2> QED
    BY <1>6, <2>2, <2>3
<1>8. Emits
  BY <1>2, <1>3, <1>4, <1>7, LastEndPushed
<1>9. FrameOK(text, e, Len(code'), pc + 1)
  BY <1>2, <1>4, <1>5, <1>7 DEF FrameOK
<1> QED
  BY <1>2, <1>8, <1>9, FramesPushOK

LEMMA IfCode ==
  ASSUME TextInv, CodeInv, GenerateIf
  PROVE  CodeInv'
<1> DEFINE n == Len(code)
           P == Parts(pc, {"elsif"})
           k == Len(P)
           m == n + (k + 3)
           s == [j \in DOMAIN P |-> n + 1 + j]
           no == IF s # << >> THEN s[1]
                 ELSE IF Parts(pc, {"else"}) # << >> THEN n + 1 + k + 1 ELSE m
           c == code \o Blocks(k + 3)
           e == [item |-> pc, end |-> m, other |-> n + 1 + k + 1, parts |-> s]
           S == PartsAt(text, pc, {"elsif"})
<1>1. /\ n \in Nat /\ IsStmts(text) /\ Len(text) \in Nat /\ pc \in 1 .. Len(text)
      /\ DOMAIN text = 1 .. Len(text)
  <2>1. phase = "generate"
    BY DEF GenerateIf, Visiting
  <2> QED
    BY <2>1, Here DEF TextInv, IsStmts, IsSeq
<1>2. k \in Nat /\ IsSeq(P) /\ k = Cardinality(S)
  BY <1>1, PartSets
<1>3. DOMAIN P = 1 .. k
  BY <1>2 DEF IsSeq
<1>4. /\ IsSeq(s) /\ Len(s) = k /\ \A j \in 1 .. k : s[j] = n + 1 + j
  <2> HIDE DEF P, k
  <2>1. s = [j \in 1 .. k |-> n + 1 + j]
    BY <1>3
  <2>2. Len(s) = k
    BY <1>2, <2>1
  <2> QED
    BY <1>2, <2>1, <2>2 DEF IsSeq
<1>5. n + 1 + k + 1 + 1 = m /\ m - n = k + 3 /\ m = Len(code) + (k + 3) /\ k + 3 \in Nat
  BY <1>1, <1>2
<1>6. /\ Walks /\ text[pc].op = "if" /\ at' = n + 1 /\ UNCHANGED last_end
      /\ code' = Add(c, at, Instr("test", pc, << n + 1, no >>))
      /\ open' = Append(open, e)
  <2>1. /\ Walks /\ text[pc].op = "if" /\ at' = n + 1 /\ UNCHANGED last_end
    BY DEF GenerateIf, Visiting, Onward, Walks, FreshBlock
  <2> HIDE DEF P
  <2>2. GenerateIf => LET els == n + 1 + Len(s) + 1
                          mrg == els + 1
                          n2  == IF s # << >> THEN s[1]
                                 ELSE IF Parts(pc, {"else"}) # << >> THEN els ELSE mrg
                      IN  /\ code' = Add(code \o Blocks(mrg - n), at, Instr("test", pc, << n + 1, n2 >>))
                          /\ open' = Append(open, [item |-> pc, end |-> mrg, other |-> els, parts |-> s])
    BY DEF GenerateIf, FreshBlock, P
  <2> HIDE DEF s, m, k
  <2> QED
    BY <1>4, <1>5, <2>1, <2>2
<1>7. IsCode(c, m) /\ Len(c) = m /\ at \in 1 .. m /\ m \in Nat /\ n <= m
  <2> HIDE DEF k, m
  <2> QED
    BY <1>5, NewBlocks
<1>8. /\ n + 1 \in 1 .. m /\ n + 1 + k + 1 \in 1 .. m /\ m \in 1 .. m
      /\ \A j \in 1 .. k : n + 1 + j \in 1 .. m
  <2> HIDE DEF P, k
  <2> QED
    BY <1>1, <1>2
<1>9. e.item = pc /\ e.end = m /\ e.other = n + 1 + k + 1 /\ e.parts = s
  <2> HIDE DEF m, k, s
  <2> QED
    BY FrameIs
<1> HIDE DEF P, k, m, s, c, e, S
<1>10. no \in 1 .. m
  <2>1. s # << >> => 1 \in 1 .. k
    <3>1. k # 0 => 1 \in 1 .. k
      BY <1>2
    <3> QED
      BY <1>4, <3>1, NoElements
  <2>2. s # << >> => s[1] \in 1 .. m
    BY <1>4, <1>8, <2>1
  <2> QED
    BY <1>8, <2>2
<1> HIDE DEF no
<1>11. IsCode(code', m) /\ Len(code') = m
  <2>1. Range(Instr("test", pc, << n + 1, no >>).to) \subseteq 1 .. m
    BY <1>8, <1>10, TestLeads
  <2>2. at \in 1 .. Len(c)
    BY <1>7
  <2> DEFINE x == Instr("test", pc, << n + 1, no >>)
  <2>3. Range(x.to) \subseteq 1 .. m /\ code' = Add(c, at, x)
    BY <1>6, <2>1
  <2> HIDE DEF x
  <2>4. IsCode(c, m)
    BY <1>7
  <2>5. IsCode(Add(c, at, x), m) /\ Len(Add(c, at, x)) = Len(c)
    BY <2>2, <2>3, <2>4, CodeAdded
  <2> QED
    BY <1>7, <2>3, <2>5
<1>12. Emits
  BY <1>6, <1>7, <1>8, <1>11, LastEndKept
<1>13. ElsifsFrom(text, pc, pc + 1) = S
  <2>1. \A j \in 1 .. Len(text) : text[j].of \in 0 .. j - 1
    BY <1>1 DEF IsStmts
  <2>2. \A j \in 1 .. Len(text) : text[j].of = pc => pc + 1 <= j
    BY <1>1, <2>1
  <2> QED
    BY <1>1, <2>2 DEF ElsifsFrom, PartsAt, S
<1>14. Values(s) \subseteq 1 .. m
  BY <1>4, <1>8 DEF Values
<1>15. FrameOK(text, e, Len(code'), pc + 1)
  BY <1>2, <1>4, <1>6, <1>8, <1>9, <1>11, <1>13, <1>14 DEF FrameOK
<1> QED
  BY <1>6, <1>12, <1>15, FramesPushOK

LEMMA ElsifCode ==
  ASSUME TextInv, CodeInv, GenerateElsif
  PROVE  CodeInv'
<1> DEFINE n == Len(code)
           m == n + 1
           f == Inner
           g == [f EXCEPT !.parts = Tail(f.parts)]
           i == text[pc].of
           no == IF Len(f.parts) > 1 THEN f.parts[2]
                 ELSE IF Parts(f.item, {"else"}) # << >> THEN f.other ELSE f.end
<1>1. /\ Walks /\ text[pc].op = "elsif" /\ i # 0 /\ text[i].op = "if" /\ at' = m /\ UNCHANGED last_end
      /\ open' = [open EXCEPT ![Len(open)].parts = Tail(@)]
  BY DEF GenerateElsif, VisitingPart, Visiting, Onward, Walks, FreshBlock
<1>2. PICK empty \in BackOfEmpty :
        code' = Add(EjectBranch(code, at, f.end, NoStatements, empty) \o Blocks(1),
                    Head(f.parts), Instr("test", pc, << m, no >>))
  BY Zenon DEF GenerateElsif, FreshBlock
<1>3. /\ n \in Nat /\ IsStmts(text) /\ Len(text) \in Nat /\ pc \in 1 .. Len(text)
      /\ at \in 1 .. n /\ IsCode(code, n) /\ DOMAIN text = 1 .. Len(text)
      /\ IsSeq(open) /\ Len(open) \in Nat /\ \A k \in 1 .. Len(open) : IsFrame(open[k])
  BY <1>1, Here DEF TextInv, IsStmts, IsSeq, OpenItems, Walks
<1>4. /\ Len(open) \in 1 .. Len(open) /\ f.item = i /\ FrameOK(text, f, n, pc)
      /\ \A k \in 1 .. Len(open) : k # Len(open) => open[k].item # i
  BY <1>1, InnerOK DEF Walks
<1>5. /\ f.end \in 1 .. n /\ f.other \in 1 .. n /\ IsSeq(f.parts) /\ Values(f.parts) \subseteq 1 .. n
      /\ Len(f.parts) = Cardinality(ElsifsFrom(text, i, pc))
  BY <1>1, <1>4 DEF FrameOK
<1>6. /\ ElsifsFrom(text, i, pc + 1) = ElsifsFrom(text, i, pc) \ {pc}
      /\ pc \in ElsifsFrom(text, i, pc)
      /\ IsFiniteSet(ElsifsFrom(text, i, pc))
  <2>1. \A j \in 1 .. Len(text) : pc <= j <=> pc + 1 <= j \/ j = pc
    BY <1>3
  <2>2. pc <= pc /\ ~(pc + 1 <= pc)
    BY <1>3
  <2>3. IsFiniteSet(1 .. Len(text))
    BY <1>3, FS_Interval
  <2>4. ElsifsFrom(text, i, pc) \subseteq 1 .. Len(text)
    BY DEF ElsifsFrom
  <2>5. IsFiniteSet(ElsifsFrom(text, i, pc))
    BY <2>3, <2>4, FS_Subset
  <2>6. pc \in ElsifsFrom(text, i, pc)
    BY <1>1, <1>3, <2>2 DEF ElsifsFrom
  <2>7. ElsifsFrom(text, i, pc + 1) = ElsifsFrom(text, i, pc) \ {pc}
    BY <1>3, <2>1, <2>2 DEF ElsifsFrom
  <2> QED
    BY <2>5, <2>6, <2>7
<1>7. /\ Len(f.parts) >= 1
      /\ Cardinality(ElsifsFrom(text, i, pc + 1)) = Len(f.parts) - 1
  <2> DEFINE E == ElsifsFrom(text, i, pc)
  <2>1. IsFiniteSet(E) /\ pc \in E
    BY <1>6
  <2> HIDE DEF E
  <2>2. Cardinality(E) \in Nat /\ Cardinality(E) # 0 /\ Cardinality(E \ {pc}) = Cardinality(E) - 1
    BY <2>1, FS_CardinalityType, FS_EmptySet, FS_RemoveElement
  <2>3. Len(f.parts) = Cardinality(E) /\ Cardinality(ElsifsFrom(text, i, pc + 1)) = Cardinality(E \ {pc})
    BY <1>5, <1>6 DEF E
  <2> HIDE DEF f
  <2> QED
    BY <2>2, <2>3
<1>8. /\ Head(f.parts) \in 1 .. n /\ IsSeq(Tail(f.parts)) /\ Len(Tail(f.parts)) = Len(f.parts) - 1
      /\ Values(Tail(f.parts)) \subseteq 1 .. n
  <2>1. /\ Head(f.parts) \in 1 .. n /\ IsSeq(Tail(f.parts)) /\ Len(Tail(f.parts)) = Len(f.parts) - 1
        /\ \A k \in 1 .. Len(f.parts) - 1 : Tail(f.parts)[k] \in 1 .. n
    BY <1>5, <1>7, HeadTailIs
  <2> QED
    BY <2>1 DEF Values
<1>9. no \in 1 .. n
  <2>1. Len(f.parts) > 1 => f.parts[2] \in 1 .. n
    <3>1. Len(f.parts) \in Nat
      BY <1>5 DEF IsSeq
    <3>2. Len(f.parts) > 1 => 2 \in 1 .. Len(f.parts)
      BY <3>1
    <3> QED
      BY <1>5, <3>2 DEF Values
  <2> QED
    BY <1>5, <2>1
<1> HIDE DEF no, f, i
<1>10. m \in Nat /\ n <= m /\ 1 .. n \subseteq 1 .. m /\ m \in 1 .. m
  BY <1>3
<1>11. IsCode(code', m) /\ Len(code') = m
  <2> DEFINE c == EjectBranch(code, at, f.end, NoStatements, empty)
             d == c \o Blocks(1)
             x == Instr("test", pc, << m, no >>)
  <2>1. IsCode(c, n) /\ Len(c) = n
    BY <1>3, <1>5, CodeEjected
  <2> HIDE DEF c
  <2>2. IsCode(c, m)
    BY <1>3, <1>10, <2>1, CodeWider
  <2>3. IsCode(d, m) /\ Len(d) = m
    <3>1. 1 \in Nat
      OBVIOUS
    <3>2. IsCode(d, m) /\ Len(d) = Len(c) + 1
      BY <2>2, <3>1, CodeGrown
    <3> QED
      BY <2>1, <3>2
  <2> HIDE DEF d
  <2>4. Range(x.to) \subseteq 1 .. m
    BY <1>9, <1>10, TestLeads
  <2> HIDE DEF x
  <2>5. Head(f.parts) \in 1 .. Len(d)
    BY <1>8, <1>10, <2>3
  <2>6. IsCode(Add(d, Head(f.parts), x), m) /\ Len(Add(d, Head(f.parts), x)) = Len(d)
    BY <2>3, <2>4, <2>5, CodeAdded
  <2> QED
    BY <1>2, <2>3, <2>6 DEF c, d, x
<1>12. Emits
  BY <1>1, <1>10, <1>11, LastEndKept
<1>13. g.item = i /\ g.end = f.end /\ g.other = f.other /\ g.parts = Tail(f.parts)
  <2>1. IsFrame(f)
    BY <1>3, <1>4 DEF f, Inner
  <2>2. g = [f EXCEPT !.parts = Tail(f.parts)]
    OBVIOUS
  <2> HIDE DEF g
  <2>3. g.item = f.item /\ g.end = f.end /\ g.other = f.other /\ g.parts = Tail(f.parts)
    BY <2>1, <2>2, FrameBlocks
  <2> QED
    BY <1>4, <2>3
<1> HIDE DEF g
<1>14. FrameOK(text, g, m, pc + 1)
  <2>1. text[i].op # "case" /\ text[i].op # "for"
    BY <1>1
  <2>2. g.end \in 1 .. m /\ g.other \in 1 .. m /\ IsSeq(g.parts) /\ Values(g.parts) \subseteq 1 .. m
    BY <1>5, <1>8, <1>10, <1>13
  <2>3. Len(g.parts) = Cardinality(ElsifsFrom(text, i, pc + 1))
    BY <1>7, <1>8, <1>13
  <2> QED
    BY <1>13, <2>1, <2>2, <2>3 DEF FrameOK
<1>15. /\ Len(open') = Len(open) /\ open'[Len(open)] = g
       /\ \A k \in 1 .. Len(open) : k # Len(open) => open'[k] = open[k]
  <2>1. DOMAIN open = 1 .. Len(open)
    BY <1>3 DEF IsSeq
  <2>2. open' = [k \in 1 .. Len(open) |->
                   IF k = Len(open) THEN [open[k] EXCEPT !.parts = Tail(@)] ELSE open[k]]
    BY <1>1, <2>1
  <2>3. Len(open') = Len(open)
    BY <1>3, <2>2
  <2>4. open'[Len(open)] = [open[Len(open)] EXCEPT !.parts = Tail(@)]
    BY <1>4, <2>2
  <2>5. \A k \in 1 .. Len(open) : k # Len(open) => open'[k] = open[k]
    BY <2>2
  <2> QED
    BY <2>3, <2>4, <2>5 DEF g, f, Inner
<1>16. ASSUME NEW k \in 1 .. Len(open), k # Len(open)
       PROVE  FrameOK(text, open[k], m, pc + 1)
  <2>1. FrameOK(text, open[k], n, pc) /\ text[pc].of # open[k].item
    BY <1>1, <1>4, <1>16 DEF CodeInv, Walks, i
  <2> QED
    BY <1>3, <1>10, <2>1, FrameStays
<1>17. \A k \in 1 .. Len(open') : FrameOK(text, open'[k], m, pc + 1)
  BY <1>14, <1>15, <1>16
<1> QED
  BY <1>1, <1>11, <1>12, <1>17 DEF CodeInv, Emits, Walks

LEMMA OneOrTwo ==
  ASSUME NEW x, NEW y
  PROVE  /\ IsSeq(<< x >>) /\ Len(<< x >>) = 1 /\ << x >>[1] = x
         /\ IsSeq(<< x, y >>) /\ Len(<< x, y >>) = 2 /\ << x, y >>[1] = x /\ << x, y >>[2] = y
<1>1. << x >> \in Seq({x}) /\ << x, y >> \in Seq({x, y})
  OBVIOUS
<1>2. IsSeq(<< x >>) /\ IsSeq(<< x, y >>)
  BY <1>1, SeqIsSeq
<1> QED
  BY <1>2

LEMMA OneBlock ==
  ASSUME NEW n, NEW x, Range(x.to) \subseteq 1 .. n
  PROVE  /\ IsSeq(<< x >>)
         /\ \A k \in 1 .. Len(<< x >>) : Range(<< x >>[k].to) \subseteq 1 .. n
<1>1. IsSeq(<< x >>) /\ Len(<< x >>) = 1 /\ << x >>[1] = x
  BY OneOrTwo
<1>2. \A k \in 1 .. 1 : k = 1
  OBVIOUS
<1> QED
  BY <1>1, <1>2

LEMMA CaseCode ==
  ASSUME TextInv, CodeInv, GenerateCase
  PROVE  CodeInv'
<1> DEFINE b == Len(code)
           P == Parts(pc, {"value", "range"})
           n == Len(P)
           S == {k \in 1 .. n : text[P[k]].op = "range"}
           R == InOrder(S)
           r == Len(R)
           m == b + n + 1 + 1 + 1 + r
           none == IF ElseStatements(pc) THEN b + n + 1 ELSE b + n + 1 + 1 + 1
           to == << b + n + 1 + 1 >> \o
                  [k \in 1 .. n |-> IF text[P[k]].op = "value" THEN b + k ELSE b + n + 1 + 1]
           x(k) == Instr("range", R[k], << b + R[k], IF k = r THEN none ELSE b + n + 1 + 1 + 1 + k + 1 >>)
           chain == [k \in DOMAIN R |-> << x(k) >>]
           y == Br(IF R = << >> THEN none ELSE b + n + 1 + 1 + 1 + 1)
           first == << y >>
           c == Add(code, at, Instr("switch", pc, to))
           e == [item |-> pc, end |-> b + n + 1 + 1 + 1, other |-> b + n + 1,
                 parts |-> [k \in 0 .. n |-> b + k]]
<1>1. phase = "generate"
  BY DEF GenerateCase, Visiting
<1>2. /\ Walks /\ text[pc].op = "case" /\ UNCHANGED << at, last_end >>
      /\ open' = Append(open, e)
      /\ code' = ((c \o Blocks(n + 1)) \o << first, << >> >>) \o chain
  <2>1. Walks /\ text[pc].op = "case" /\ UNCHANGED << at, last_end >>
    BY DEF GenerateCase, Visiting, Onward, Walks
  <2>2. /\ open' = Append(open, e)
        /\ code' = ((c \o Blocks(n + 1)) \o << first, << >> >>) \o chain
    BY Zenon DEF GenerateCase
  <2> QED
    BY <2>1, <2>2
<1>3. b \in Nat /\ b >= 1 /\ at \in 1 .. b /\ IsCode(code, b) /\ IsStmts(text)
  BY Here DEF TextInv
<1>4. n \in Nat /\ n = Cardinality(LabelsOf(text, pc))
  BY <1>3, PartSets DEF LabelsOf
<1>5. r \in Nat /\ IsSeq(R) /\ \A k \in 1 .. r : R[k] \in 1 .. n
  <2> HIDE DEF P, n
  <2>0. S \subseteq 1 .. n /\ IsFiniteSet(1 .. n)
    BY <1>4, FS_Interval
  <2>1. S \subseteq 1 .. n /\ S \subseteq Nat /\ IsFiniteSet(1 .. n)
    <3> HIDE DEF S
    <3> QED
      BY <1>4, <2>0
  <2>2. IsFiniteSet(S)
    BY <2>1, FS_Subset
  <2> HIDE DEF S
  <2>3. /\ Cardinality(S) \in Nat /\ IsSeq(R) /\ r = Cardinality(S)
        /\ \A k \in 1 .. Cardinality(S) : R[k] \in S
    BY <2>1, <2>2, InOrderIs
  <2> QED
    BY <2>1, <2>3
<1> HIDE DEF P, n, S, R, r
<1>6. /\ m \in Nat /\ b <= m /\ 1 .. b \subseteq 1 .. m
      /\ b + n + 1 \in 1 .. m /\ b + n + 1 + 1 \in 1 .. m /\ b + n + 1 + 1 + 1 \in 1 .. m
      /\ \A k \in 0 .. n : b + k \in 1 .. m
      /\ \A k \in 1 .. r : k # r => b + n + 1 + 1 + 1 + k + 1 \in 1 .. m
      /\ r # 0 => b + n + 1 + 1 + 1 + 1 \in 1 .. m
      /\ m = b + (n + 1) + 2 + r
  <2>1. m \in Nat /\ b <= m /\ 1 .. b \subseteq 1 .. m
    BY <1>3, <1>4, <1>5
  <2>2. b + n + 1 \in 1 .. m /\ b + n + 1 + 1 \in 1 .. m /\ b + n + 1 + 1 + 1 \in 1 .. m
    BY <1>3, <1>4, <1>5
  <2>3. \A k \in 0 .. n : b + k \in 1 .. m
    BY <1>3, <1>4, <1>5
  <2>4. \A k \in 1 .. r : k # r => b + n + 1 + 1 + 1 + k + 1 \in 1 .. m
    BY <1>3, <1>4, <1>5
  <2>5. r # 0 => b + n + 1 + 1 + 1 + 1 \in 1 .. m
    BY <1>3, <1>4, <1>5
  <2>6. m = b + (n + 1) + 2 + r
    BY <1>3, <1>4, <1>5
  <2> QED
    BY <2>1, <2>2, <2>3, <2>4, <2>5, <2>6
<1> HIDE DEF m
<1>7. none \in 1 .. m
  BY <1>6
<1> HIDE DEF none
<1>8. Range(to) \subseteq 1 .. m
  <2> DEFINE q(k) == IF text[P[k]].op = "value" THEN b + k ELSE b + n + 1 + 1
             s == [k \in 1 .. n |-> q(k)]
             one == << b + n + 1 + 1 >>
  <2>1. ASSUME NEW k \in 1 .. n
        PROVE  q(k) \in 1 .. m
    <3>1. k \in 0 .. n
      BY <1>4
    <3>2. b + k \in 1 .. m /\ b + n + 1 + 1 \in 1 .. m
      BY <1>6, <3>1
    <3> QED
      BY <3>2
  <2>2. to = one \o s
    OBVIOUS
  <2> HIDE DEF q, to
  <2>3. s \in Seq(1 .. m)
    <3> DEFINE T == 1 .. m
    <3> HIDE DEF T
    <3>1. s \in [1 .. n -> T]
      BY <2>1 DEF T
    <3> HIDE DEF s
    <3>2. s \in Seq(T)
      BY <1>4, <3>1
    <3> QED
      BY <3>2 DEF T
  <2>4. one \in Seq(1 .. m)
    BY <1>6
  <2> HIDE DEF s, one
  <2>5. to \in Seq(1 .. m)
    BY <2>2, <2>3, <2>4, ConcatProperties
  <2>6. to \in [1 .. Len(to) -> 1 .. m]
    BY <2>5, LenProperties
  <2> QED
    BY <2>6 DEF Range
<1> HIDE DEF to
<1>9. IsCode(c, m) /\ Len(c) = b
  <2>1. IsCode(code, m)
    BY <1>3, <1>6, CodeWider
  <2>2. Range(Instr("switch", pc, to).to) \subseteq 1 .. m
    BY <1>8 DEF Instr
  <2> QED
    BY <1>3, <2>1, <2>2, CodeAdded
<1> HIDE DEF c
<1>10. Range(y.to) \subseteq 1 .. m
  <2>1. R # << >> => r # 0
    BY <1>5, NoElements DEF r
  <2>2. (IF R = << >> THEN none ELSE b + n + 1 + 1 + 1 + 1) \in 1 .. m
    BY <1>6, <1>7, <2>1
  <2> QED
    BY <2>2, BrLeads
<1> HIDE DEF y
<1>11. IsCode(<< first, << >> >>, m) /\ Len(<< first, << >> >>) = 2
  <2>1. /\ IsSeq(first)
        /\ \A k \in 1 .. Len(first) : Range(first[k].to) \subseteq 1 .. m
    BY <1>10, OneBlock
  <2> HIDE DEF first
  <2> DEFINE t == << first, << >> >>
  <2>2. IsSeq(t) /\ Len(t) = 2 /\ t[1] = first /\ t[2] = << >>
    BY OneOrTwo
  <2> HIDE DEF t
  <2>3. \A k \in 1 .. 2 : k = 1 \/ k = 2
    OBVIOUS
  <2>4. IsSeq(<< >>) /\ Len(<< >>) = 0
    BY DEF IsSeq
  <2>5. IsCode(t, m)
    BY <2>1, <2>2, <2>3, <2>4 DEF IsCode
  <2> QED
    BY <2>2, <2>5 DEF t
<1>12. IsCode(chain, m) /\ Len(chain) = r
  <2>1. ASSUME NEW k \in 1 .. r
        PROVE  Range(x(k).to) \subseteq 1 .. m
    <3>1. b + R[k] \in 1 .. m
      <4>1. R[k] \in 0 .. n
        BY <1>4, <1>5
      <4> QED
        BY <1>6, <4>1
    <3>2. (IF k = r THEN none ELSE b + n + 1 + 1 + 1 + k + 1) \in 1 .. m
      BY <1>6, <1>7
    <3> QED
      BY <3>1, <3>2, TestLeads
  <2> HIDE DEF x
  <2>2. DOMAIN R = 1 .. r
    BY <1>5 DEF IsSeq, r
  <2>3. chain = [k \in 1 .. r |-> << x(k) >>]
    BY <2>2
  <2> HIDE DEF chain
  <2>4. Len(chain) = r
    BY <1>5, <2>3
  <2>5. IsSeq(chain)
    <3> DEFINE z(k) == << x(k) >>
    <3>1. chain = [k \in 1 .. r |-> z(k)]
      BY <2>3
    <3> HIDE DEF z
    <3> QED
      BY <1>5, <2>4, <3>1 DEF IsSeq
  <2>6. ASSUME NEW k \in 1 .. r
        PROVE  /\ IsSeq(chain[k])
               /\ \A j \in 1 .. Len(chain[k]) : Range(chain[k][j].to) \subseteq 1 .. m
    <3>1. chain[k] = << x(k) >>
      BY <2>3
    <3> QED
      BY <2>1, <3>1, OneBlock
  <2> QED
    BY <2>4, <2>5, <2>6 DEF IsCode
<1> HIDE DEF chain, first, x
<1>13. IsCode(code', m) /\ Len(code') = m
  <2> DEFINE c1 == c \o Blocks(n + 1)
             two == << first, << >> >>
             c2 == c1 \o two
  <2>0. IsCode(two, m) /\ Len(two) = 2
    BY <1>11
  <2> HIDE DEF two
  <2>1. IsCode(c1, m) /\ Len(c1) = b + (n + 1)
    <3>1. n + 1 \in Nat
      BY <1>4
    <3> QED
      BY <1>9, <3>1, CodeGrown
  <2> HIDE DEF c1
  <2>2. IsCode(c2, m) /\ Len(c2) = b + (n + 1) + 2
    <3>1. IsCode(c2, m) /\ Len(c2) = Len(c1) + Len(two)
      BY <2>0, <2>1, CodeJoined
    <3> QED
      BY <2>0, <2>1, <3>1
  <2> HIDE DEF c2
  <2>3. IsCode(c2 \o chain, m) /\ Len(c2 \o chain) = b + (n + 1) + 2 + r
    BY <1>12, <2>2, CodeJoined
  <2>4. code' = c2 \o chain
    BY <1>2 DEF c1, c2, two
  <2> QED
    BY <1>6, <2>3, <2>4
<1>14. Emits
  <2>1. at' \in 1 .. m
    BY <1>2, <1>3, <1>6
  <2> QED
    BY <1>2, <1>6, <1>13, <2>1, LastEndKept
<1>15. FrameOK(text, e, Len(code'), pc + 1)
  <2>1. e.item = pc /\ e.end = b + n + 1 + 1 + 1 /\ e.other = b + n + 1 /\ e.parts = [k \in 0 .. n |-> b + k]
    OBVIOUS
  <2> HIDE DEF e
  <2>2. \A k \in 0 .. n : e.parts[k] \in 1 .. m
    BY <1>6, <2>1
  <2>3. text[pc].op # "if" /\ text[pc].op # "for"
    BY <1>2
  <2> QED
    BY <1>4, <1>6, <1>13, <2>1, <2>2, <2>3 DEF FrameOK
<1> HIDE DEF e
<1> QED
  BY <1>2, <1>14, <1>15, FramesPushOK

-----------------------------------------------------------------------------
(* Type correctness.                                                       *)

LEMMA ParserCode ==
  ASSUME TextInv, CodeInv, Parser
  PROVE  CodeInv'
<1>1. /\ UNCHANGED << code, at, last_end >>
      /\ phase' = "parse" \/ open' = << >>
  BY DEF Parser, ParseSimple, ParseStructured, ParseElsif, ParseElse, ParseLabel, ParseEnd,
     ParseEndBody, Reading, Read
<1>2. CodeOK'
  BY <1>1 DEF CodeInv, CodeOK
<1>3. CASE phase' = "parse"
  BY <1>2, <1>3 DEF CodeInv
<1>4. CASE open' = << >>
  <2>1. Len(open') = 0
    BY <1>4
  <2>2. 1 .. 0 = {}
    OBVIOUS
  <2> QED
    BY <1>2, <2>1, <2>2 DEF CodeInv
<1> QED
  BY <1>1, <1>3, <1>4

LEMMA BodyEndCode ==
  ASSUME TextInv, CodeInv, GenerateEndBody
  PROVE  CodeInv'
<1>1. /\ phase' = "done" /\ UNCHANGED << at, last_end >>
      /\ code' \in {code, Add(code, at, Instr("ret", pc, << >>))}
  BY DEF GenerateEndBody
<1>2. Range(Instr("ret", pc, << >>).to) \subseteq 1 .. Len(code)
  BY Leads
<1>3. IsCode(code', Len(code)) /\ Len(code') = Len(code)
  BY <1>1, <1>2, Here, OneAdded
<1> QED
  BY <1>1, <1>3 DEF CodeInv, CodeOK

LEMMA CodeSteps == TextInv /\ CodeInv /\ [Next]_vars => CodeInv'
<1>1. ASSUME CodeInv, UNCHANGED vars
      PROVE  CodeInv'
  BY <1>1 DEF vars, CodeInv, CodeOK
<1>2. ASSUME TextInv, CodeInv, Generator
      PROVE  CodeInv'
  BY <1>2, SimpleCode, ExitCode, ClauseCode, LabelCode, LoopEndCode, ForEndCode, LoopBeginCode,
     ForCode, IfCode, ElsifCode, CaseCode, BodyEndCode DEF Generator
<1> QED
  BY <1>1, <1>2, ParserCode DEF Next

LEMMA CodeInit == Init => CodeInv
<1> SUFFICES ASSUME Init
             PROVE  CodeInv
  OBVIOUS
<1>1. code = << << >> >> /\ at = 1 /\ last_end = << >> /\ phase = "parse"
  BY DEF Init
<1>2. IsSeq(code) /\ Len(code) = 1 /\ code[1] = << >>
  BY <1>1, OneOrTwo
<1>3. IsSeq(<< >>) /\ Len(<< >>) = 0
  BY DEF IsSeq
<1>4. \A b \in 1 .. 1 : b = 1
  OBVIOUS
<1>5. IsCode(code, 1)
  BY <1>2, <1>3, <1>4 DEF IsCode
<1>6. Values(last_end) = {}
  BY <1>1, <1>3 DEF Values
<1> QED
  BY <1>1, <1>2, <1>3, <1>5, <1>6 DEF CodeInv, CodeOK

(* The handlers of loops are as many as the loops around pc. *)
LEMMA LoopHandlers ==
  ASSUME TextInv, phase = "generate"
  PROVE  Cardinality({k \in DOMAIN open : text[open[k].item].op \in Loops})
           = Cardinality(LoopsOf(text, pc))
<1> DEFINE K == {k \in DOMAIN open : text[open[k].item].op \in Loops}
           L == LoopsOf(text, pc)
           U == Unclosed(text, pc)
           f == [k \in K |-> open[k].item]
<1>1. OpenItems(open, U) /\ Len(text) \in Nat /\ U \in SUBSET Nat
  BY UnclosedNat DEF TextInv, IsStmts, IsSeq
<1>2. DOMAIN open = 1 .. Len(open) /\ Len(open) \in Nat
  BY <1>1 DEF OpenItems, IsSeq
<1>3. L = {i \in U : text[i].op \in Loops}
  BY DEF LoopsOf
<1> HIDE DEF U, L
<1>4. IsFiniteSet(K)
  <2>1. K \subseteq 1 .. Len(open)
    BY <1>2
  <2>2. IsFiniteSet(1 .. Len(open))
    BY <1>2, FS_Interval
  <2> HIDE DEF K
  <2> QED
    BY <2>1, <2>2, FS_Subset
<1>5. f \in [K -> L] /\ \A i \in L : \E k \in K : f[k] = i
  <2>1. \A k \in K : open[k].item \in L
    BY <1>1, <1>2, <1>3 DEF OpenItems
  <2>2. ASSUME NEW i \in L
        PROVE  \E k \in K : open[k].item = i
    BY <1>1, <1>2, <1>3 DEF OpenItems
  <2> QED
    BY <2>1, <2>2
<1>6. ASSUME NEW j \in K, NEW k \in K, f[j] = f[k]
      PROVE  j = k
  <2>1. j \in 1 .. Len(open) /\ k \in 1 .. Len(open) /\ open[j].item = open[k].item
    BY <1>2, <1>6
  <2>2. open[j].item \in Nat
    BY <1>1, <2>1 DEF OpenItems
  <2>3. ~(j < k) /\ ~(k < j)
    <3>1. j < k => open[j].item < open[k].item
      BY <1>1, <2>1 DEF OpenItems
    <3>2. k < j => open[k].item < open[j].item
      BY <1>1, <2>1 DEF OpenItems
    <3> QED
      BY <2>1, <2>2, <3>1, <3>2
  <2> QED
    BY <2>1, <2>3
<1> HIDE DEF K, f
<1>7. f \in Bijection(K, L)
  BY <1>5, <1>6 DEF Bijection, Injection, Surjection, IsInjective
<1>8. Cardinality(L) = Cardinality(K)
  BY <1>4, <1>7, FS_Bijection DEF ExistsBijection
<1> QED
  BY <1>8 DEF K, L

(* Every branch leads to a block, and handlers and last_end keep blocks    *)
(* that exist; a text without BEGIN has a block on last_end for each loop  *)
(* whose handler has not returned (TypeOK).                                *)
THEOREM TypeCorrect == Spec => []TypeOK
<1>1. Init => LoopInv
  BY DEF Init, LoopInv
<1>2. TextInv /\ LoopInv /\ CodeInv => TypeOK
  <2> SUFFICES ASSUME TextInv, LoopInv, CodeInv
               PROVE  TypeOK
    OBVIOUS
  <2>1. phase \in {"parse", "generate", "done", "failed"} /\ (phase = "generate" => pc \in DOMAIN text)
    BY DEF TextInv, IsStmts, IsSeq
  <2>2. DOMAIN code = 1 .. Len(code) /\ at \in DOMAIN code
    BY DEF CodeInv, CodeOK, IsCode, IsSeq
  <2>3. \A b \in DOMAIN code : \A k \in DOMAIN code[b] : Range(code[b][k].to) \subseteq DOMAIN code
    <3>1. ASSUME NEW b \in 1 .. Len(code)
          PROVE  \A k \in DOMAIN code[b] : Range(code[b][k].to) \subseteq 1 .. Len(code)
      <4>1. IsSeq(code[b]) /\ \A k \in 1 .. Len(code[b]) : Range(code[b][k].to) \subseteq 1 .. Len(code)
        BY DEF CodeInv, CodeOK, IsCode
      <4>2. DOMAIN code[b] = 1 .. Len(code[b])
        BY <4>1 DEF IsSeq
      <4> QED
        BY <4>1, <4>2
    <3> QED
      BY <2>2, <3>1
  <2>4. Range(last_end) \subseteq DOMAIN code
    <3>1. DOMAIN last_end = 1 .. Len(last_end)
      BY DEF CodeInv, CodeOK, IsSeq
    <3> QED
      BY <2>2, <3>1 DEF CodeInv, CodeOK, Values, Range
  <2>5. phase = "generate" /\ (\A i \in DOMAIN text : text[i].op # "begin") =>
          Len(last_end) = Cardinality({k \in DOMAIN open : text[open[k].item].op \in Loops})
    <3> SUFFICES ASSUME phase = "generate", \A i \in DOMAIN text : text[i].op # "begin"
                 PROVE  Len(last_end) = Cardinality({k \in DOMAIN open : text[open[k].item].op \in Loops})
      OBVIOUS
    <3>1. NoBegin(text)
      BY DEF NoBegin, TextInv, IsStmts, IsSeq
    <3>2. Len(last_end) = Cardinality(LoopsOf(text, pc))
      BY <3>1 DEF LoopInv
    <3> QED
      BY <3>2, LoopHandlers
  <2> QED
    BY <2>1, <2>2, <2>3, <2>4, <2>5 DEF TypeOK
<1> QED
  BY <1>1, <1>2, TextInit, TextSteps, LoopSteps, CodeInit, CodeSteps, PTL DEF Spec
=============================================================================
