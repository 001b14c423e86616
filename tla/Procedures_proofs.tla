------------------------- MODULE Procedures_proofs --------------------------
(***************************************************************************)
(* Procedures for every set of names and every bound on the program: that  *)
(* the specification is type correct, and, when the procedures have        *)
(* different names, that the frames nest in all three passes, that the     *)
(* inspector binds names as the scope rules say, and that a closure holds  *)
(* what the procedure uses of those around it.  The invariant is built in  *)
(* layers: the text and the handlers walking it, the frames and the        *)
(* symbols, the shape of the frames, what they hold, and what is marked.   *)
(* ProcedureCode_proofs goes on.                                           *)
(***************************************************************************)
EXTENDS ProcedureScopes, DataLemmas

Idents == Vars \cup Range(ProcNames)

-----------------------------------------------------------------------------
(* The text p.                                                             *)

IsBlock(p, b) == p[b].op \in {"module", "procedure"}

(* The end of the module, after which there is nothing. *)
Ends(p, i) == p[i].op = "end" /\ p[i].block = 1

(* The block that the item after item i is in. *)
Following(p, i) ==
    IF IsBlock(p, i) THEN i
    ELSE IF p[i].op = "end" THEN p[p[i].block].block
    ELSE p[i].block

ItemOK(it) ==
    /\ DOMAIN it.decs \subseteq Vars
    /\ it.op \in {"procedure", "forward", "call"} => it.name \in Range(ProcNames)
    /\ it.op = "use" => it.name \in Vars
    /\ it.arg \in Vars \cup {NoName}

IsText(p) ==
    /\ IsSeq(p) /\ Len(p) >= 1
    /\ p[1].op = "module" /\ p[1].block = 0
    /\ \A i \in 2 .. Len(p) : /\ p[i].op # "module"
                              /\ p[i].block \in 1 .. i - 1
                              /\ IsBlock(p, p[i].block)
    /\ \A i \in 1 .. Len(p) - 1 : p[i + 1].block = Following(p, i) /\ ~Ends(p, i)
    /\ \A i \in 1 .. Len(p) : ItemOK(p[i])

(* The handlers o stand for the blocks from the module to the innermost. *)
IsOpen(p, o) ==
    /\ IsSeq(o) /\ Len(o) >= 1
    /\ o[1].item = 1
    /\ \A k \in 1 .. Len(o) : o[k].item \in 1 .. Len(p)
    /\ \A k \in 2 .. Len(o) : /\ p[o[k].item].op = "procedure"
                              /\ p[o[k].item].block = o[k - 1].item
    /\ \A j, k \in 1 .. Len(o) : j < k => o[j].item < o[k].item

Top(o) == o[Len(o)].item

(* A parser that has written p; a pass over p that is at item i. *)
Writing(p, o) ==
    /\ IsText(p) /\ IsOpen(p, o)
    /\ ~Ends(p, Len(p))
    /\ Top(o) = Following(p, Len(p))

Walking(p, i, o) ==
    /\ IsText(p) /\ IsOpen(p, o)
    /\ Ends(p, Len(p))
    /\ i \in 1 .. Len(p)
    /\ Top(o) = IF i = 1 THEN 1 ELSE p[i].block

Stopped == phase \in {"done", "failed", "aborted"}

TextInv ==
    /\ phase \in {"parse", "inspect", "generate", "done", "failed", "aborted"}
    /\ phase = "parse" => Writing(prog, open) /\ pc = Len(prog)
    /\ phase # "parse" => Walking(prog, pc, open)

(* What is open is ascending, and only the module's handler is below. *)
LEMMA TopIsBlock ==
  ASSUME NEW p, NEW o, IsText(p), IsOpen(p, o)
  PROVE  /\ Top(o) \in 1 .. Len(p) /\ IsBlock(p, Top(o))
         /\ Len(o) = 1 => Top(o) = 1
         /\ Len(o) # 1 => Top(o) # 1 /\ p[Top(o)].op = "procedure"
<1>1. Len(o) \in 1 .. Len(o) /\ Len(o) \in Nat /\ Len(o) >= 1
  BY DEF IsOpen, IsSeq
<1>2. CASE Len(o) = 1
  BY <1>1, <1>2 DEF IsOpen, IsText, IsBlock, Top
<1>3. CASE Len(o) # 1
  <2>1. Len(o) \in 2 .. Len(o) /\ 1 \in 1 .. Len(o) /\ 1 < Len(o)
    BY <1>3 DEF IsOpen, IsSeq
  <2>2. o[1].item < o[Len(o)].item /\ o[1].item = 1
    BY <1>1, <2>1 DEF IsOpen
  <2> QED
    BY <1>1, <1>3, <2>1, <2>2 DEF IsOpen, IsBlock, Top
<1> QED
  BY <1>2, <1>3

LEMMA WriteItem ==
  ASSUME NEW p, NEW o, Writing(p, o), NEW it, ItemOK(it),
         it.op # "module", it.block = Top(o)
  PROVE  /\ IsText(Append(p, it))
         /\ Len(Append(p, it)) = Len(p) + 1
         /\ Append(p, it)[Len(p) + 1] = it
         /\ \A k \in 1 .. Len(p) : Append(p, it)[k] = p[k]
<1> DEFINE q == Append(p, it)
           n == Len(p)
<1>1. n \in Nat /\ n >= 1 /\ IsSeq(p)
  BY DEF Writing, IsText, IsSeq
<1>2. IsSeq(q) /\ Len(q) = n + 1 /\ q[n + 1] = it /\ \A k \in 1 .. n : q[k] = p[k]
  BY <1>1, Appended
<1> HIDE DEF q
<1>3. q[1].op = "module" /\ q[1].block = 0
  BY <1>1, <1>2 DEF Writing, IsText
<1>4. Top(o) \in 1 .. n /\ IsBlock(p, Top(o))
  BY TopIsBlock DEF Writing
<1>5. ASSUME NEW i \in 2 .. n + 1
      PROVE  q[i].op # "module" /\ q[i].block \in 1 .. i - 1 /\ IsBlock(q, q[i].block)
  <2>1. CASE i = n + 1
    BY <1>1, <1>2, <1>4, <2>1 DEF IsBlock
  <2>2. CASE i # n + 1
    <3>1. i \in 2 .. n
      BY <1>1, <2>2
    <3>2. p[i].op # "module" /\ p[i].block \in 1 .. i - 1 /\ IsBlock(p, p[i].block)
      BY <3>1 DEF Writing, IsText
    <3>3. p[i].block \in 1 .. n /\ q[i] = p[i]
      BY <1>1, <1>2, <3>1, <3>2
    <3> QED
      BY <1>2, <3>2, <3>3 DEF IsBlock
  <2> QED
    BY <2>1, <2>2
<1>6. ASSUME NEW i \in 1 .. n
      PROVE  Following(q, i) = Following(p, i) /\ Ends(q, i) = Ends(p, i)
  <2>1. q[i] = p[i]
    BY <1>2
  <2>2. p[i].op = "end" => p[i].block \in 1 .. n
    <3>1. i = 1 => p[i].op # "end"
      BY DEF Writing, IsText
    <3>2. i # 1 => p[i].block \in 1 .. i - 1
      BY <1>1 DEF Writing, IsText
    <3> QED
      BY <1>1, <3>1, <3>2
  <2> QED
    BY <1>2, <2>1, <2>2 DEF Following, Ends, IsBlock
<1>7. ASSUME NEW i \in 1 .. n
      PROVE  q[i + 1].block = Following(q, i) /\ ~Ends(q, i)
  <2>1. CASE i = n
    BY <1>2, <1>6, <2>1 DEF Writing
  <2>2. CASE i # n
    <3>1. i \in 1 .. n - 1 /\ i + 1 \in 1 .. n
      BY <1>1, <2>2
    <3>2. p[i + 1].block = Following(p, i) /\ ~Ends(p, i)
      BY <3>1 DEF Writing, IsText
    <3> QED
      BY <1>2, <1>6, <3>1, <3>2
  <2> QED
    BY <2>1, <2>2
<1>8. \A i \in 1 .. n + 1 : ItemOK(q[i])
  <2>1. \A i \in 1 .. n : ItemOK(p[i])
    BY DEF Writing, IsText
  <2>2. \A i \in 1 .. n + 1 : i \in 1 .. n \/ i = n + 1
    BY <1>1
  <2> QED
    BY <1>2, <2>1, <2>2
<1>9. IsText(q)
  BY <1>1, <1>2, <1>3, <1>5, <1>7, <1>8 DEF IsText
<1> QED
  BY <1>2, <1>9 DEF q

(* The handlers depend on the items only. *)
LEMMA SameOpen ==
  ASSUME NEW p, NEW q, NEW o, NEW r, IsOpen(p, o), IsSeq(r), Len(r) = Len(o),
         \A k \in 1 .. Len(o) : r[k].item = o[k].item,
         Len(p) \in Nat, Len(q) \in Nat, Len(p) <= Len(q),
         \A k \in 1 .. Len(p) : q[k] = p[k]
  PROVE  IsOpen(q, r) /\ Top(r) = Top(o)
<1>1. \A k \in 1 .. Len(o) : o[k].item \in 1 .. Len(p)
  BY DEF IsOpen
<1>2. /\ 1 \in 1 .. Len(o) /\ Len(o) \in 1 .. Len(o)
      /\ \A k \in 2 .. Len(o) : k \in 1 .. Len(o) /\ k - 1 \in 1 .. Len(o)
  BY DEF IsOpen, IsSeq
<1>3. r[1].item = 1 /\ Top(r) = Top(o)
  BY <1>2 DEF IsOpen, Top
<1>4. \A k \in 1 .. Len(r) : r[k].item \in 1 .. Len(q)
  BY <1>1
<1>5. ASSUME NEW k \in 2 .. Len(r)
      PROVE  q[r[k].item].op = "procedure" /\ q[r[k].item].block = r[k - 1].item
  <2>1. p[o[k].item].op = "procedure" /\ p[o[k].item].block = o[k - 1].item
    BY DEF IsOpen
  <2>2. r[k].item = o[k].item /\ r[k - 1].item = o[k - 1].item
    BY <1>2
  <2>3. q[o[k].item] = p[o[k].item]
    BY <1>1, <1>2
  <2> QED
    BY <2>1, <2>2, <2>3
<1>6. \A j, k \in 1 .. Len(r) : j < k => r[j].item < r[k].item
  BY DEF IsOpen
<1> QED
  BY <1>3, <1>4, <1>5, <1>6 DEF IsOpen

LEMMA OpenInner ==
  ASSUME NEW p, NEW o, IsText(p), IsOpen(p, o), NEW e, e.item \in 1 .. Len(p),
         p[e.item].op = "procedure", p[e.item].block = Top(o)
  PROVE  IsOpen(p, Append(o, e)) /\ Top(Append(o, e)) = e.item
<1> DEFINE r == Append(o, e)
           L == Len(o)
<1>1. L \in Nat /\ L >= 1 /\ IsSeq(o) /\ L \in 1 .. L
  BY DEF IsOpen, IsSeq
<1>2. IsSeq(r) /\ Len(r) = L + 1 /\ r[L + 1] = e /\ \A k \in 1 .. L : r[k] = o[k]
  BY <1>1, Appended
<1> HIDE DEF r
<1>3. r[1].item = 1 /\ \A k \in 1 .. L + 1 : r[k].item \in 1 .. Len(p)
  <2>1. \A k \in 1 .. L + 1 : k \in 1 .. L \/ k = L + 1
    BY <1>1
  <2>2. o[1].item = 1 /\ \A k \in 1 .. L : o[k].item \in 1 .. Len(p)
    BY DEF IsOpen
  <2>3. r[1] = o[1]
    BY <1>1, <1>2
  <2> QED
    BY <1>2, <2>1, <2>2, <2>3
<1>4. ASSUME NEW k \in 2 .. L + 1
      PROVE  p[r[k].item].op = "procedure" /\ p[r[k].item].block = r[k - 1].item
  <2>1. CASE k = L + 1
    <3>1. r[k] = e /\ r[k - 1] = o[L]
      BY <1>1, <1>2, <2>1
    <3> QED
      BY <3>1 DEF Top
  <2>2. CASE k # L + 1
    <3>1. k \in 2 .. L /\ k \in 1 .. L /\ k - 1 \in 1 .. L
      BY <1>1, <2>2
    <3> QED
      BY <1>2, <3>1 DEF IsOpen
  <2> QED
    BY <2>1, <2>2
<1>5. \A k \in 1 .. L : o[k].item < e.item
  <2>1. o[L].item < e.item
    <3>1. e.item # 1
      BY DEF IsText
    <3>2. e.item \in 2 .. Len(p)
      BY <3>1 DEF IsText
    <3>3. p[e.item].block \in 1 .. e.item - 1
      BY <3>2 DEF IsText
    <3> QED
      BY <3>2, <3>3 DEF Top
  <2>2. \A k \in 1 .. L : k # L => o[k].item < o[L].item
    BY <1>1 DEF IsOpen
  <2>3. \A k \in 1 .. L : o[k].item \in 1 .. Len(p)
    BY DEF IsOpen
  <2> QED
    BY <1>1, <2>1, <2>2, <2>3
<1>6. ASSUME NEW j \in 1 .. L + 1, NEW k \in 1 .. L + 1, j < k
      PROVE  r[j].item < r[k].item
  <2>1. j \in 1 .. L
    BY <1>1, <1>6
  <2>2. CASE k = L + 1
    BY <1>2, <1>5, <2>1, <2>2
  <2>3. CASE k # L + 1
    <3>1. k \in 1 .. L
      BY <1>1, <2>3
    <3> QED
      BY <1>2, <1>6, <2>1, <3>1 DEF IsOpen
  <2> QED
    BY <2>2, <2>3
<1>7. Top(r) = e.item
  BY <1>2 DEF Top
<1>8. IsOpen(p, r)
  BY <1>1, <1>2, <1>3, <1>4, <1>6 DEF IsOpen
<1> QED
  BY <1>7, <1>8 DEF r

LEMMA LeaveInner ==
  ASSUME NEW p, NEW o, IsText(p), IsOpen(p, o), Len(o) # 1
  PROVE  /\ IsOpen(p, SubSeq(o, 1, Len(o) - 1))
         /\ Top(SubSeq(o, 1, Len(o) - 1)) = p[Top(o)].block
<1> DEFINE r == SubSeq(o, 1, Len(o) - 1)
           L == Len(o)
<1>1. L \in Nat /\ L >= 2 /\ L >= 1 /\ IsSeq(o) /\ L \in 2 .. L
  BY DEF IsOpen, IsSeq
<1>2. IsSeq(r) /\ Len(r) = L - 1 /\ \A k \in 1 .. L - 1 : r[k] = o[k]
  BY <1>1, Fronted
<1> HIDE DEF r
<1>3. Top(r) = p[Top(o)].block
  <2>1. L - 1 \in 1 .. L - 1
    BY <1>1
  <2> QED
    BY <1>1, <1>2, <2>1 DEF Top, IsOpen
<1>4. /\ 1 \in 1 .. L - 1
      /\ \A k \in 1 .. L - 1 : k \in 1 .. L
      /\ \A k \in 2 .. L - 1 : k \in 2 .. L /\ k - 1 \in 1 .. L - 1 /\ k \in 1 .. L - 1
  BY <1>1
<1>5. IsOpen(p, r)
  <2>1. r[1].item = 1 /\ Len(r) >= 1
    BY <1>1, <1>2, <1>4 DEF IsOpen
  <2>2. \A k \in 1 .. Len(r) : r[k].item \in 1 .. Len(p)
    BY <1>2, <1>4 DEF IsOpen
  <2>3. \A k \in 2 .. Len(r) : /\ p[r[k].item].op = "procedure"
                               /\ p[r[k].item].block = r[k - 1].item
    BY <1>2, <1>4 DEF IsOpen
  <2>4. \A j, k \in 1 .. Len(r) : j < k => r[j].item < r[k].item
    BY <1>2, <1>4 DEF IsOpen
  <2> QED
    BY <1>2, <2>1, <2>2, <2>3, <2>4 DEF IsOpen
<1> QED
  BY <1>3, <1>5 DEF r

-----------------------------------------------------------------------------
(* The parser writes an item in a block, opens one, and closes one.        *)

LEMMA WriteInside ==
  ASSUME NEW p, NEW o, Writing(p, o), NEW it, ItemOK(it), it.block = Top(o),
         it.op \notin {"module", "procedure", "end"},
         NEW r, IsSeq(r), Len(r) = Len(o), \A k \in 1 .. Len(o) : r[k].item = o[k].item
  PROVE  Writing(Append(p, it), r)
<1> DEFINE q == Append(p, it)
<1>1. /\ IsText(q) /\ Len(q) = Len(p) + 1
      /\ q[Len(p) + 1] = it
      /\ \A k \in 1 .. Len(p) : q[k] = p[k]
  BY WriteItem
<1>2. Len(p) \in Nat /\ Len(q) \in Nat
  BY <1>1 DEF Writing, IsText, IsSeq
<1> HIDE DEF q
<1>3. IsOpen(q, r) /\ Top(r) = Top(o)
  BY <1>1, <1>2, SameOpen DEF Writing
<1>4. ~Ends(q, Len(q)) /\ Following(q, Len(q)) = Top(r)
  BY <1>1, <1>3 DEF Ends, Following, IsBlock
<1>5. Writing(q, r)
  BY <1>1, <1>3, <1>4 DEF Writing
<1> QED
  BY <1>5 DEF q

LEMMA WriteInto ==
  ASSUME NEW p, NEW o, Writing(p, o), NEW it, ItemOK(it), it.block = Top(o),
         it.op = "procedure", NEW e, e.item = Len(p) + 1
  PROVE  Writing(Append(p, it), Append(o, e))
<1> DEFINE q == Append(p, it)
<1>1. /\ IsText(q) /\ Len(q) = Len(p) + 1
      /\ q[Len(p) + 1] = it
      /\ \A k \in 1 .. Len(p) : q[k] = p[k]
  BY WriteItem
<1>2. Len(p) \in Nat /\ Len(q) \in Nat /\ IsSeq(o)
  BY <1>1 DEF Writing, IsText, IsOpen, IsSeq
<1> HIDE DEF q
<1>3. IsOpen(q, o)
  BY <1>1, <1>2, SameOpen DEF Writing
<1>4. e.item \in 1 .. Len(q)
  BY <1>1, <1>2
<1>5. IsOpen(q, Append(o, e)) /\ Top(Append(o, e)) = e.item
  BY <1>1, <1>3, <1>4, OpenInner
<1>6. ~Ends(q, Len(q)) /\ Following(q, Len(q)) = e.item
  BY <1>1 DEF Ends, Following, IsBlock
<1>7. Writing(q, Append(o, e))
  BY <1>1, <1>5, <1>6 DEF Writing
<1> QED
  BY <1>7 DEF q

LEMMA WriteOut ==
  ASSUME NEW p, NEW o, Writing(p, o), NEW it, ItemOK(it), it.block = Top(o),
         it.op = "end", Len(o) # 1
  PROVE  Writing(Append(p, it), SubSeq(o, 1, Len(o) - 1))
<1> DEFINE q == Append(p, it)
           r == SubSeq(o, 1, Len(o) - 1)
<1>1. /\ IsText(q) /\ Len(q) = Len(p) + 1
      /\ q[Len(p) + 1] = it
      /\ \A k \in 1 .. Len(p) : q[k] = p[k]
  BY WriteItem
<1>2. Len(p) \in Nat /\ Len(q) \in Nat /\ IsSeq(o)
  BY <1>1 DEF Writing, IsText, IsOpen, IsSeq
<1> HIDE DEF q
<1>3. IsOpen(q, o)
  BY <1>1, <1>2, SameOpen DEF Writing
<1>4. IsOpen(q, r) /\ Top(r) = q[Top(o)].block
  BY <1>1, <1>3, LeaveInner
<1> HIDE DEF r
<1>5. Top(o) # 1
  BY <1>1, <1>3, TopIsBlock
<1>6. ~Ends(q, Len(q)) /\ Following(q, Len(q)) = Top(r)
  BY <1>1, <1>4, <1>5 DEF Ends, Following, IsBlock
<1>7. Writing(q, r)
  BY <1>1, <1>4, <1>6 DEF Writing
<1> QED
  BY <1>7 DEF q, r

LEMMA ModuleOpen ==
  ASSUME NEW p, IsText(p)
  PROVE  IsOpen(p, OnlyModule) /\ Top(OnlyModule) = 1 /\ Len(OnlyModule) = 1
<1>1. Len(p) \in Nat /\ Len(p) >= 1
  BY DEF IsText, IsSeq
<1>2. Len(OnlyModule) = 1 /\ OnlyModule[1].item = 1 /\ IsSeq(OnlyModule)
  BY DEF OnlyModule, IsSeq
<1> QED
  BY <1>1, <1>2 DEF IsOpen, Top

LEMMA WriteLast ==
  ASSUME NEW p, NEW o, Writing(p, o), NEW it, ItemOK(it), it.block = Top(o),
         it.op = "end", Len(o) = 1
  PROVE  Walking(Append(p, it), 1, OnlyModule)
<1> DEFINE q == Append(p, it)
<1>1. IsText(q) /\ Len(q) = Len(p) + 1 /\ q[Len(p) + 1] = it
  BY WriteItem
<1>2. Len(q) \in Nat /\ Len(q) >= 1
  BY <1>1 DEF IsText, IsSeq
<1>3. Top(o) = 1
  BY TopIsBlock DEF Writing
<1>4. IsOpen(q, OnlyModule) /\ Top(OnlyModule) = 1
  BY <1>1, ModuleOpen
<1> HIDE DEF q
<1>5. Walking(q, 1, OnlyModule)
  BY <1>1, <1>2, <1>3, <1>4 DEF Walking, Ends
<1> QED
  BY <1>5 DEF q

(* The passes follow: they stay in a block, enter one, and leave one.      *)
LEMMA WalkInside ==
  ASSUME NEW p, NEW i, NEW o, Walking(p, i, o), p[i].op \notin {"procedure", "end"}
  PROVE  Walking(p, i + 1, o)
<1>1. i \in 1 .. Len(p) - 1 /\ i + 1 \in 1 .. Len(p) /\ i + 1 # 1
  BY DEF Walking, Ends, IsText, IsSeq
<1>2. p[i + 1].block = Following(p, i)
  BY <1>1 DEF Walking, IsText
<1>3. Following(p, i) = IF i = 1 THEN 1 ELSE p[i].block
  <2>1. i # 1 => i \in 2 .. Len(p)
    BY <1>1
  <2> QED
    BY <2>1 DEF Walking, IsText, Following, IsBlock
<1> QED
  BY <1>1, <1>2, <1>3 DEF Walking

LEMMA WalkInto ==
  ASSUME NEW p, NEW i, NEW o, Walking(p, i, o), p[i].op = "procedure",
         NEW e, e.item = i
  PROVE  Walking(p, i + 1, Append(o, e))
<1>1. i \in 1 .. Len(p) - 1 /\ i + 1 \in 1 .. Len(p) /\ i + 1 # 1 /\ i # 1
  BY DEF Walking, Ends, IsText, IsSeq
<1>2. p[i + 1].block = i
  BY <1>1 DEF Walking, IsText, Following, IsBlock
<1>3. IsOpen(p, Append(o, e)) /\ Top(Append(o, e)) = i
  BY <1>1, OpenInner DEF Walking
<1> QED
  BY <1>1, <1>2, <1>3 DEF Walking

LEMMA WalkOut ==
  ASSUME NEW p, NEW i, NEW o, Walking(p, i, o), p[i].op = "end", Len(o) # 1
  PROVE  Walking(p, i + 1, SubSeq(o, 1, Len(o) - 1))
<1>1. i # 1
  BY DEF Walking, IsText
<1>2. Top(o) = p[i].block /\ Top(o) # 1
  BY <1>1, TopIsBlock DEF Walking
<1>3. i \in 1 .. Len(p) - 1 /\ i + 1 \in 1 .. Len(p) /\ i + 1 # 1
  BY <1>2 DEF Walking, Ends, IsText, IsSeq
<1>4. i \in 2 .. Len(p)
  BY <1>1, <1>3
<1>5. p[i + 1].block = p[Top(o)].block
  BY <1>2, <1>3 DEF Walking, IsText, Following, IsBlock
<1>6. /\ IsOpen(p, SubSeq(o, 1, Len(o) - 1))
      /\ Top(SubSeq(o, 1, Len(o) - 1)) = p[Top(o)].block
  BY LeaveInner DEF Walking
<1> QED
  BY <1>3, <1>5, <1>6 DEF Walking

LEMMA TextInit == Init => TextInv
<1> SUFFICES ASSUME Init
             PROVE  TextInv
  OBVIOUS
<1>1. PICK decs \in DecsOf(Kinds \cap {"var", "const"}) :
         /\ phase = "parse"
         /\ prog = << Heading("module", NoName, 0, decs, FALSE) >>
         /\ pc = 1
         /\ open = OnlyModule
  BY DEF Init
<1>2. DOMAIN decs \subseteq Vars
  BY DEF DecsOf
<1>3. Len(prog) = 1 /\ IsSeq(prog)
  BY <1>1 DEF IsSeq
<1>4. /\ prog[1].op = "module" /\ prog[1].block = 0 /\ prog[1].arg = NoName
      /\ prog[1].decs = decs
  BY <1>1 DEF Heading
<1>5. IsText(prog)
  BY <1>2, <1>3, <1>4 DEF IsText, ItemOK
<1>6. Writing(prog, open)
  BY <1>1, <1>3, <1>4, <1>5, ModuleOpen DEF Writing, Ends, Following, IsBlock
<1> QED
  BY <1>1, <1>3, <1>6 DEF TextInv

(* What each handler does to the text and to the handlers. *)
ParserStep ==
    \/ /\ phase = "parse" /\ phase' = "parse" /\ pc' = pc + 1
       /\ \E it : /\ ItemOK(it) /\ it.block = Here
                  /\ prog' = Append(prog, it)
                  /\ \/ /\ it.op \notin {"module", "procedure", "end"}
                        /\ open' \in {open, InStatements}
                     \/ /\ it.op = "procedure"
                        /\ open' = Entered(pc + 1, 0, Main)
                     \/ /\ it.op = "end" /\ Len(open) # 1
                        /\ open' = Left
    \/ /\ phase = "parse" /\ phase' = "inspect" /\ pc' = 1
       /\ Len(open) = 1 /\ open' = OnlyModule
       /\ \E it : /\ ItemOK(it) /\ it.block = Here /\ it.op = "end"
                  /\ prog' = Append(prog, it)

PassStep ==
    /\ phase \in {"inspect", "generate"} /\ UNCHANGED prog
    /\ \/ /\ UNCHANGED phase /\ pc' = pc + 1
          /\ \/ prog[pc].op \notin {"procedure", "end"} /\ UNCHANGED open
             \/ prog[pc].op = "procedure" /\ \E s, f : open' = Entered(pc, s, f)
             \/ prog[pc].op = "end" /\ Len(open) # 1 /\ open' = Left
       \/ phase' = "aborted" /\ UNCHANGED << pc, open >>
       \/ phase' = "done" /\ UNCHANGED << pc, open >>
       \/ phase' \in {"generate", "failed"} /\ pc' = 1 /\ open' = OnlyModule

LEMMA ItemsOK ==
  ASSUME NEW b
  PROVE  /\ \A n \in Range(ProcNames) : \A decs, r : DOMAIN decs \subseteq Vars =>
               ItemOK(Heading("procedure", n, b, decs, r))
         /\ \A n \in Range(ProcNames) : \A decs, r : DOMAIN decs \subseteq Vars =>
               ItemOK(Heading("forward", n, b, decs, r))
         /\ \A n \in Vars : ItemOK(Item("use", n, b))
         /\ \A n \in Range(ProcNames), a \in Vars \cup {NoName} :
               ItemOK([Item("call", n, b) EXCEPT !.arg = a])
         /\ \A r : ItemOK([Item("return", NoName, b) EXCEPT !.result = r])
         /\ \A n : ItemOK(Item("begin", n, b)) /\ ItemOK(Item("end", n, b))
BY DEF ItemOK, Item, Heading, NoBindings

LEMMA ParserSteps == TextInv /\ Parser => ParserStep
<1> SUFFICES ASSUME TextInv, Parser
             PROVE  ParserStep
  OBVIOUS
<1> USE DEF Parsing, Parsed
<1>1. ASSUME NEW n \in Range(ProcNames), NEW decs \in DecsOf(Kinds), NEW r,
             ParseProcedure(n, decs, r)
      PROVE  ParserStep
  <2>1. DOMAIN decs \subseteq Vars
    BY DEF DecsOf
  <2> DEFINE it == Heading("procedure", n, Here, decs, r)
  <2>2. ItemOK(it) /\ it.block = Here /\ it.op = "procedure"
    BY <2>1, ItemsOK DEF Heading
  <2>3. /\ phase = "parse" /\ phase' = "parse" /\ pc' = pc + 1 /\ prog' = Append(prog, it)
        /\ open' = Entered(pc + 1, 0, Main)
    BY <1>1 DEF ParseProcedure
  <2> QED
    BY <2>2, <2>3 DEF ParserStep
<1>2. ASSUME NEW n \in Range(ProcNames), NEW decs \in DecsOf(Kinds \cap {"value", "VAR"}), NEW r,
             ParseForward(n, decs, r)
      PROVE  ParserStep
  <2> DEFINE it == Heading("forward", n, Here, decs, r)
  <2>0. DOMAIN decs \subseteq Vars
    BY DEF DecsOf
  <2>1. ItemOK(it) /\ it.block = Here /\ it.op = "forward"
    BY <2>0, ItemsOK DEF Heading
  <2>2. /\ phase = "parse" /\ phase' = "parse" /\ pc' = pc + 1 /\ prog' = Append(prog, it)
        /\ open' = open
    BY <1>2 DEF ParseForward
  <2> QED
    BY <2>1, <2>2 DEF ParserStep
<1>3. CASE ParseBegin
  <2> DEFINE it == Item("begin", NoName, Here)
  <2>1. ItemOK(it) /\ it.block = Here /\ it.op = "begin"
    BY ItemsOK DEF Item, Heading
  <2>2. /\ phase = "parse" /\ phase' = "parse" /\ pc' = pc + 1 /\ prog' = Append(prog, it)
        /\ open' = InStatements
    BY <1>3 DEF ParseBegin
  <2> QED
    BY <2>1, <2>2 DEF ParserStep
<1>4. ASSUME NEW n \in Vars, ParseUse(n)
      PROVE  ParserStep
  <2> DEFINE it == Item("use", n, Here)
  <2>1. ItemOK(it) /\ it.block = Here /\ it.op = "use"
    BY ItemsOK DEF Item, Heading
  <2>2. /\ phase = "parse" /\ phase' = "parse" /\ pc' = pc + 1 /\ prog' = Append(prog, it)
        /\ open' = open
    BY <1>4 DEF ParseUse, ParseStatement
  <2> QED
    BY <2>1, <2>2 DEF ParserStep
<1>5. ASSUME NEW n \in Range(ProcNames), NEW a \in Arguments, ParseCall(n, a)
      PROVE  ParserStep
  <2> DEFINE it == [Item("call", n, Here) EXCEPT !.arg = a]
  <2>1. a \in Vars \cup {NoName}
    BY DEF Arguments
  <2>2. ItemOK(it) /\ it.block = Here /\ it.op = "call"
    BY <2>1, ItemsOK DEF Item, Heading
  <2>3. /\ phase = "parse" /\ phase' = "parse" /\ pc' = pc + 1 /\ prog' = Append(prog, it)
        /\ open' = open
    BY <1>5 DEF ParseCall, ParseStatement
  <2> QED
    BY <2>2, <2>3 DEF ParserStep
<1>6. ASSUME NEW r \in BOOLEAN, ParseReturn(r)
      PROVE  ParserStep
  <2> DEFINE it == [Item("return", NoName, Here) EXCEPT !.result = r]
  <2>1. ItemOK(it) /\ it.block = Here /\ it.op = "return"
    BY ItemsOK DEF Item, Heading
  <2>2. /\ phase = "parse" /\ phase' = "parse" /\ pc' = pc + 1 /\ prog' = Append(prog, it)
        /\ open' = open
    BY <1>6 DEF ParseReturn, ParseStatement
  <2> QED
    BY <2>1, <2>2 DEF ParserStep
<1>7. CASE ParseEndProcedure
  <2> DEFINE it == Item("end", prog[Here].name, Here)
  <2>1. ItemOK(it) /\ it.block = Here /\ it.op = "end"
    BY ItemsOK DEF Item, Heading
  <2>2. /\ phase = "parse" /\ phase' = "parse" /\ pc' = pc + 1 /\ prog' = Append(prog, it)
        /\ open' = Left /\ Len(open) # 1
    BY <1>7 DEF ParseEndProcedure, InModule
  <2> QED
    BY <2>1, <2>2 DEF ParserStep
<1>8. CASE ParseEndModule
  <2> DEFINE it == Item("end", NoName, Here)
  <2>1. ItemOK(it) /\ it.block = Here /\ it.op = "end"
    BY ItemsOK DEF Item, Heading
  <2>2. /\ phase = "parse" /\ phase' = "inspect" /\ pc' = 1 /\ prog' = Append(prog, it)
        /\ open' = OnlyModule /\ Len(open) = 1
    BY <1>8 DEF ParseEndModule, InModule
  <2> QED
    BY <2>1, <2>2 DEF ParserStep
<1> QED
  BY <1>1, <1>2, <1>3, <1>4, <1>5, <1>6, <1>7, <1>8 DEF Parser

LEMMA PassSteps == Inspector \/ Generator => PassStep
<1> SUFFICES ASSUME Inspector \/ Generator
             PROVE  PassStep
  OBVIOUS
<1> USE DEF Inspecting, Generating, Onward, At, InModule, PassStep
<1>1. CASE Inspector
  <2>1. CASE InspectModule
    BY <2>1 DEF InspectModule
  <2>2. CASE InspectProcedure
    BY <2>2 DEF InspectProcedure
  <2>3. CASE InspectForward
    BY <2>3 DEF InspectForward
  <2>4. CASE InspectBegin
    BY <2>4 DEF InspectBegin
  <2>5. CASE InspectUse
    BY <2>5 DEF InspectUse
  <2>6. CASE InspectCall
    BY <2>6 DEF InspectCall
  <2>7. CASE InspectReturn
    BY <2>7 DEF InspectReturn
  <2>8. CASE InspectEndProcedure
    BY <2>8 DEF InspectEndProcedure
  <2>9. CASE InspectEndModule
    BY <2>9 DEF InspectEndModule
  <2> QED
    BY <1>1, <2>1, <2>2, <2>3, <2>4, <2>5, <2>6, <2>7, <2>8, <2>9 DEF Inspector
<1>2. CASE Generator
  <2>1. CASE GenerateModule
    BY <2>1 DEF GenerateModule
  <2>2. CASE GenerateProcedure
    BY <2>2 DEF GenerateProcedure
  <2>3. CASE GenerateForward
    BY <2>3 DEF GenerateForward
  <2>4. CASE GenerateBegin
    BY <2>4 DEF GenerateBegin
  <2>5. CASE GenerateUse
    BY <2>5 DEF GenerateUse
  <2>6. CASE GenerateCall
    BY <2>6 DEF GenerateCall
  <2>7. CASE GenerateReturn
    BY <2>7 DEF GenerateReturn
  <2>8. CASE GenerateEndProcedure
    BY <2>8 DEF GenerateEndProcedure
  <2>9. CASE GenerateEndModule
    BY <2>9 DEF GenerateEndModule
  <2>10. CASE Abort
    BY <2>10 DEF Abort
  <2> QED
    BY <1>2, <2>1, <2>2, <2>3, <2>4, <2>5, <2>6, <2>7, <2>8, <2>9, <2>10 DEF Generator
<1> QED
  BY <1>1, <1>2

LEMMA TextStep == TextInv /\ [Next]_vars => TextInv'
<1> SUFFICES ASSUME TextInv, [Next]_vars
             PROVE  TextInv'
  OBVIOUS
<1>1. CASE Parser
  <2>1. PICK it : /\ ItemOK(it) /\ it.block = Top(open)
                  /\ prog' = Append(prog, it)
                  /\ phase = "parse"
                  /\ \/ /\ phase' = "parse" /\ pc' = pc + 1
                        /\ \/ /\ it.op \notin {"module", "procedure", "end"}
                              /\ open' \in {open, InStatements}
                           \/ /\ it.op = "procedure"
                              /\ open' = Entered(pc + 1, 0, Main)
                           \/ /\ it.op = "end" /\ Len(open) # 1
                              /\ open' = Left
                     \/ /\ phase' = "inspect" /\ pc' = 1
                        /\ Len(open) = 1 /\ open' = OnlyModule /\ it.op = "end"
    BY <1>1, ParserSteps DEF ParserStep, Here, Inner, Top
  <2>2. Writing(prog, open) /\ pc = Len(prog) /\ IsSeq(prog) /\ IsSeq(open)
    BY <2>1 DEF TextInv, Writing, IsText, IsOpen
  <2>3. Len(prog') = Len(prog) + 1
    BY <2>1, <2>2, Appended
  <2>4. CASE it.op \notin {"module", "procedure", "end"} /\ open' \in {open, InStatements}
    <3>1. /\ IsSeq(open') /\ Len(open') = Len(open)
          /\ \A k \in 1 .. Len(open) : open'[k].item = open[k].item
      <4>1. CASE open' = open
        BY <2>2, <4>1
      <4>2. CASE open' = InStatements
        <5> DEFINE r == [open EXCEPT ![Len(open)].stats = TRUE]
        <5>1. Len(open) \in Nat /\ open = [k \in 1 .. Len(open) |-> open[k]]
          BY <2>2 DEF IsSeq
        <5>2. r = [k \in 1 .. Len(open) |-> r[k]]
          BY <5>1
        <5>3. Len(r) = Len(open)
          BY <5>1, <5>2, LenOfDomain
        <5>4. \A k \in 1 .. Len(open) : r[k].item = open[k].item
          BY <5>1
        <5> QED
          BY <4>2, <5>1, <5>2, <5>3, <5>4 DEF InStatements, IsSeq
      <4> QED
        BY <2>4, <4>1, <4>2
    <3>2. Writing(prog', open')
      BY <2>1, <2>2, <2>4, <3>1, WriteInside
    <3> QED
      BY <2>1, <2>2, <2>3, <2>4, <3>2 DEF TextInv
  <2>5. CASE it.op = "procedure" /\ open' = Entered(pc + 1, 0, Main)
    <3>1. Writing(prog', open')
      BY <2>1, <2>2, <2>5, WriteInto DEF Entered
    <3> QED
      BY <2>1, <2>2, <2>3, <2>5, <3>1 DEF TextInv
  <2>6. CASE it.op = "end" /\ Len(open) # 1 /\ open' = Left
    <3>1. Writing(prog', open')
      BY <2>1, <2>2, <2>6, WriteOut DEF Left
    <3> QED
      BY <2>1, <2>2, <2>3, <2>6, <3>1 DEF TextInv
  <2>7. CASE /\ phase' = "inspect" /\ pc' = 1
             /\ Len(open) = 1 /\ open' = OnlyModule /\ it.op = "end"
    <3>1. Walking(prog', pc', open')
      BY <2>1, <2>2, <2>7, WriteLast
    <3> QED
      BY <2>7, <3>1 DEF TextInv
  <2> QED
    BY <2>1, <2>4, <2>5, <2>6, <2>7
<1>2. CASE Inspector \/ Generator
  <2>1. PassStep
    BY <1>2, PassSteps
  <2>2. Walking(prog, pc, open) /\ prog' = prog
    BY <2>1 DEF TextInv, PassStep
  <2>3. CASE prog[pc].op \notin {"procedure", "end"} /\ pc' = pc + 1 /\ UNCHANGED << phase, open >>
    BY <2>1, <2>2, <2>3, WalkInside DEF TextInv, PassStep
  <2>4. CASE /\ prog[pc].op = "procedure" /\ pc' = pc + 1 /\ UNCHANGED phase
             /\ \E s, f : open' = Entered(pc, s, f)
    <3>1. Walking(prog, pc + 1, open')
      BY <2>2, <2>4, WalkInto DEF Entered
    <3> QED
      BY <2>1, <2>2, <2>4, <3>1 DEF TextInv, PassStep
  <2>5. CASE /\ prog[pc].op = "end" /\ Len(open) # 1 /\ pc' = pc + 1 /\ UNCHANGED phase
             /\ open' = Left
    BY <2>1, <2>2, <2>5, WalkOut DEF TextInv, PassStep, Left
  <2>6. CASE phase' \in {"aborted", "done"} /\ UNCHANGED << pc, open >>
    BY <2>2, <2>6 DEF TextInv
  <2>7. CASE phase' \in {"generate", "failed"} /\ pc' = 1 /\ open' = OnlyModule
    <3>1. Walking(prog', pc', open')
      BY <2>2, <2>7, ModuleOpen DEF Walking, IsText, IsSeq
    <3> QED
      BY <2>7, <3>1 DEF TextInv
  <2> QED
    BY <2>1, <2>3, <2>4, <2>5, <2>6, <2>7 DEF PassStep
<1>3. CASE UNCHANGED vars
  BY <1>3 DEF vars, TextInv
<1> QED
  BY <1>1, <1>2, <1>3 DEF Next

-----------------------------------------------------------------------------
(* The frames s and the symbols H.                                         *)

FrameOf(p, b) == IF b = 1 THEN Root ELSE p[b].name

ProceduresIn(p) == {i \in 1 .. Len(p) : p[i].op = "procedure"}

BlocksIn(p) == {1} \cup ProceduresIn(p)

HeadingsIn(p) == {i \in 1 .. Len(p) : p[i].op \in {"procedure", "forward"}}

TableOf(p, s, b) == s.map[FrameOf(p, b)]

SymsOf(p, s, b) == s.tables[TableOf(p, s, b)].syms

Framed(p, o, s) ==
    /\ IsTable(s)
    /\ \A i \in 1 .. Len(s.tables) : s.tables[i].next \in 0 .. i - 1
    /\ DOMAIN s.map = {Root} \cup {p[i].name : i \in ProceduresIn(p)}
    /\ s.map[Root] = 1
    /\ \A f \in DOMAIN s.map : s.map[f] \in 1 .. Len(s.tables)
    /\ IsSeq(s.stack) /\ Len(s.stack) = Len(o)
    /\ \A k \in 1 .. Len(o) : s.stack[k] = TableOf(p, s, o[k].item)
    /\ s.current = s.stack[Len(s.stack)]

IsSymbol(x) ==
    /\ DOMAIN x = {"kind", "block", "name", "global", "params", "caps", "value"}
    /\ x.caps \subseteq Idents

Symbols(H) == IsSeq(H) /\ \A h \in 1 .. Len(H) : IsSymbol(H[h])

(* The tables hold indices of a heap with m symbols. *)
Held(s, m) ==
    \A i \in 1 .. Len(s.tables) :
        /\ \A n \in DOMAIN s.tables[i].syms : s.tables[i].syms[n] \in 1 .. m
        /\ s.tables[i].free \subseteq Idents

(* The headings but those of the open procedures are in the frames. *)
HeadingsPut(p, o, s, ph) ==
    \A i \in HeadingsIn(p) :
        (ph = "parse" => \A k \in 1 .. Len(o) : i # o[k].item)
          => p[i].name \in DOMAIN SymsOf(p, s, p[i].block)

(* When the procedures have different names, each has a frame of its own,  *)
(* inside that of the block around it.                                     *)
NestedIn(p, s) ==
    /\ \A i, j \in ProceduresIn(p) : p[i].name = p[j].name => i = j
    /\ s.tables[1].next = 0
    /\ \A i \in ProceduresIn(p) :
          s.tables[s.map[p[i].name]].next = TableOf(p, s, p[i].block)
    /\ \A f, g \in DOMAIN s.map : s.map[f] = s.map[g] => f = g

Scoped(p, o, s, H, ph) ==
    /\ Framed(p, o, s)
    /\ Distinct => NestedIn(p, s)
    /\ Symbols(H) /\ Held(s, Len(H))
    /\ HeadingsPut(p, o, s, ph)

-----------------------------------------------------------------------------
(* What the operations do to the tables.                                   *)

(* No frame is lost, and no name of a frame. *)
Grows(s, t) ==
    /\ \A f \in DOMAIN s.map : f \in DOMAIN t.map /\ t.map[f] = s.map[f]
    /\ DOMAIN s.tables \subseteq DOMAIN t.tables
    /\ \A i \in DOMAIN s.tables : DOMAIN s.tables[i].syms \subseteq DOMAIN t.tables[i].syms

LEMMA GrowsTrans ==
  ASSUME NEW s, NEW t, NEW u, Grows(s, t), Grows(t, u)
  PROVE  Grows(s, u)
<1>1. \A f \in DOMAIN s.map : f \in DOMAIN u.map /\ u.map[f] = s.map[f]
  BY DEF Grows
<1>2. \A i \in DOMAIN s.tables : i \in DOMAIN t.tables
  BY DEF Grows
<1>3. DOMAIN s.tables \subseteq DOMAIN u.tables
  BY <1>2 DEF Grows
<1>4. \A i \in DOMAIN s.tables : DOMAIN s.tables[i].syms \subseteq DOMAIN u.tables[i].syms
  BY <1>2 DEF Grows
<1> QED
  BY <1>1, <1>3, <1>4 DEF Grows

(* t has the frames of s, in which the current one is bound to syms. *)
PutInto(s, t, syms) ==
    /\ SameFrames(s, t)
    /\ \A j \in DOMAIN s.tables :
          /\ t.tables[j].syms = IF j = s.current THEN syms ELSE s.tables[j].syms
          /\ t.tables[j].free = s.tables[j].free

LEMMA PutIs ==
  ASSUME NEW s, IsTable(s), NEW n, NEW v
  PROVE  PutInto(s, Put(s, n, v), Bind(s.tables[s.current].syms, n, v))
BY WithSymsFrames DEF Put, PutInto

(* The names ns come to those in old, with the numbers after h. *)
Added(old, syms, ns, h) ==
    /\ DOMAIN syms = DOMAIN old \cup Values(ns)
    /\ \A n \in Values(ns) : /\ syms[n] \in h + 1 .. h + Len(ns)
                             /\ ns[syms[n] - h] = n
    /\ \A n \in DOMAIN syms \ Values(ns) : syms[n] = old[n]

LEMMA PutAllIs ==
  ASSUME NEW s, IsTable(s), NEW ns, IsSeq(ns), NEW h \in Nat
  PROVE  \E syms : /\ PutInto(s, PutAll(s, ns, h), syms)
                   /\ Added(s.tables[s.current].syms, syms, ns, h)
<1> DEFINE at(n) == h + CHOOSE k \in DOMAIN ns : ns[k] = n
           old == s.tables[s.current].syms
           syms == [n \in DOMAIN old \cup Values(ns) |->
                      IF n \in Values(ns) THEN at(n) ELSE old[n]]
<1>1. Len(ns) \in Nat /\ DOMAIN ns = 1 .. Len(ns) /\ Range(ns) = Values(ns)
  BY DEF IsSeq, Values, Range
<1>2. PutAll(s, ns, h) = WithSyms(s, s.current, syms)
  BY <1>1 DEF PutAll
<1>3. ASSUME NEW n \in Values(ns)
      PROVE  at(n) \in h + 1 .. h + Len(ns) /\ ns[at(n) - h] = n
  <2>1. \E k \in DOMAIN ns : ns[k] = n
    BY <1>1 DEF Values
  <2>2. PICK k \in DOMAIN ns : ns[k] = n /\ k = CHOOSE j \in DOMAIN ns : ns[j] = n
    BY <2>1
  <2>3. at(n) = h + k
    BY <2>2
  <2> HIDE DEF at
  <2>4. k \in 1 .. Len(ns)
    BY <1>1
  <2>5. h + k \in h + 1 .. h + Len(ns) /\ h + k - h = k
    BY <1>1, <2>4
  <2> QED
    BY <2>2, <2>3, <2>5
<1> HIDE DEF at
<1>4. DOMAIN syms = DOMAIN old \cup Values(ns)
  OBVIOUS
<1>5. \A n \in Values(ns) : syms[n] = at(n)
  OBVIOUS
<1>6. \A n \in DOMAIN syms \ Values(ns) : syms[n] = old[n]
  OBVIOUS
<1> HIDE DEF syms
<1>7. PutInto(s, PutAll(s, ns, h), syms)
  BY <1>2, WithSymsFrames DEF PutInto
<1>8. Added(old, syms, ns, h)
  BY <1>3, <1>4, <1>5, <1>6 DEF Added
<1> QED
  BY <1>7, <1>8

(* Same frames, more names, and what is held is in the heap. *)
Kept(s, t, m) == IsTable(t) /\ SameFrames(s, t) /\ Grows(s, t) /\ Held(t, m)

LEMMA SameFramesTable ==
  ASSUME NEW s, NEW t, IsTable(s), SameFrames(s, t)
  PROVE  IsTable(t)
BY DEF IsTable, SameFrames

LEMMA KeptTrans ==
  ASSUME NEW s, NEW t, NEW u, NEW m, NEW k, Kept(s, t, m), Kept(t, u, k)
  PROVE  Kept(s, u, k)
BY SameFramesTrans, GrowsTrans DEF Kept

LEMMA HeldMore ==
  ASSUME NEW s, NEW m \in Nat, NEW k \in Nat, m <= k, Held(s, m)
  PROVE  Held(s, k)
BY DEF Held

LEMMA SameKept ==
  ASSUME NEW s, NEW m, IsTable(s), Held(s, m)
  PROVE  Kept(s, s, m)
BY DEF Kept, IsTable, SameFrames, Grows

LEMMA MarkKept ==
  ASSUME NEW s, NEW m, IsTable(s), Held(s, m), NEW n \in Idents
  PROVE  Kept(s, MarkFree(s, n), m)
<1> DEFINE t == MarkFree(s, n)
<1>1. /\ SameFrames(s, t)
      /\ \A j \in DOMAIN s.tables : /\ t.tables[j].syms = s.tables[j].syms
                                    /\ t.tables[j].free \subseteq s.tables[j].free \cup {n}
  BY MarkFreeFrames
<1> HIDE DEF t
<1>2. IsTable(t)
  BY <1>1, SameFramesTable
<1>3. Grows(s, t)
  BY <1>1 DEF Grows, SameFrames
<1>4. Held(t, m)
  <2>1. DOMAIN s.tables = 1 .. Len(s.tables) /\ Len(t.tables) = Len(s.tables)
    BY <1>1 DEF IsTable, SameFrames
  <2> QED
    BY <1>1, <2>1 DEF Held
<1> QED
  BY <1>1, <1>2, <1>3, <1>4 DEF Kept, t

LEMMA ResetKept ==
  ASSUME NEW s, NEW m, IsTable(s), Held(s, m)
  PROVE  Kept(s, ResetFree(s), m)
<1> DEFINE t == ResetFree(s)
<1>1. /\ SameFrames(s, t)
      /\ \A j \in DOMAIN s.tables : /\ t.tables[j].syms = s.tables[j].syms
                                    /\ t.tables[j].free \subseteq s.tables[j].free
  BY ResetFreeFrames
<1> HIDE DEF t
<1>2. IsTable(t)
  BY <1>1, SameFramesTable
<1>3. Grows(s, t)
  BY <1>1 DEF Grows, SameFrames
<1>4. Held(t, m)
  <2>1. DOMAIN s.tables = 1 .. Len(s.tables) /\ Len(t.tables) = Len(s.tables)
    BY <1>1 DEF IsTable, SameFrames
  <2> QED
    BY <1>1, <2>1 DEF Held
<1> QED
  BY <1>1, <1>2, <1>3, <1>4 DEF Kept, t

LEMMA IntoKept ==
  ASSUME NEW s, NEW m \in Nat, NEW k \in Nat, m <= k, IsTable(s), Held(s, m),
         NEW t, NEW syms, PutInto(s, t, syms),
         DOMAIN s.tables[s.current].syms \subseteq DOMAIN syms,
         \A n \in DOMAIN syms : syms[n] \in 1 .. k
  PROVE  Kept(s, t, k)
<1>1. SameFrames(s, t) /\ IsTable(t)
  BY SameFramesTable DEF PutInto
<1>2. DOMAIN s.tables = 1 .. Len(s.tables) /\ Len(t.tables) = Len(s.tables)
  BY <1>1 DEF IsTable, SameFrames
<1>3. Grows(s, t)
  BY <1>1 DEF Grows, SameFrames, PutInto
<1>4. Held(s, k)
  BY HeldMore
<1>5. Held(t, k)
  BY <1>2, <1>4 DEF Held, PutInto
<1> QED
  BY <1>1, <1>3, <1>5 DEF Kept

LEMMA PutKept ==
  ASSUME NEW s, NEW m \in Nat, IsTable(s), s.current \in 1 .. Len(s.tables), Held(s, m), NEW n
  PROVE  /\ Kept(s, Put(s, n, m + 1), m + 1)
         /\ n \in DOMAIN Put(s, n, m + 1).tables[s.current].syms
<1> DEFINE old == s.tables[s.current].syms
           syms == Bind(old, n, m + 1)
<1>1. \A x \in DOMAIN old : old[x] \in 1 .. m
  BY DEF Held
<1>2. DOMAIN syms = DOMAIN old \cup {n}
  BY DEF Bind
<1>3. \A x \in DOMAIN syms : syms[x] = m + 1 \/ (x \in DOMAIN old /\ syms[x] = old[x])
  BY DEF Bind
<1> HIDE DEF old, syms
<1>4. \A x \in DOMAIN syms : syms[x] \in 1 .. m + 1
  BY <1>1, <1>3
<1>5. PutInto(s, Put(s, n, m + 1), syms)
  BY PutIs DEF old, syms
<1>6. Kept(s, Put(s, n, m + 1), m + 1)
  BY <1>2, <1>4, <1>5, IntoKept DEF old
<1>7. s.current \in DOMAIN s.tables
  BY DEF IsTable
<1> QED
  BY <1>2, <1>5, <1>6, <1>7 DEF PutInto

LEMMA PutAllKept ==
  ASSUME NEW s, NEW m \in Nat, IsTable(s), s.current \in 1 .. Len(s.tables), Held(s, m),
         NEW ns, IsSeq(ns)
  PROVE  Kept(s, PutAll(s, ns, m), m + Len(ns))
<1> DEFINE old == s.tables[s.current].syms
<1>1. \A x \in DOMAIN old : old[x] \in 1 .. m
  BY DEF Held
<1>2. PICK syms : /\ PutInto(s, PutAll(s, ns, m), syms)
                  /\ DOMAIN syms = DOMAIN old \cup Values(ns)
                  /\ \A n \in Values(ns) : syms[n] \in m + 1 .. m + Len(ns)
                  /\ \A n \in DOMAIN syms \ Values(ns) : syms[n] = old[n]
  <2>1. PICK syms : PutInto(s, PutAll(s, ns, m), syms) /\ Added(old, syms, ns, m)
    BY PutAllIs
  <2> QED
    BY <2>1 DEF Added
<1>3. Len(ns) \in Nat
  BY DEF IsSeq
<1>4. \A n \in DOMAIN syms : syms[n] \in 1 .. m + Len(ns)
  <2> HIDE DEF old
  <2> QED
    BY <1>1, <1>2, <1>3
<1>5. m + Len(ns) \in Nat /\ m <= m + Len(ns)
  BY <1>3
<1> QED
  BY <1>2, <1>4, <1>5, IntoKept

(* A frame is entered: an old one, or a new one inside the current one.    *)
LEMMA PushIs ==
  ASSUME NEW s, IsTable(s), IsSeq(s.stack), NEW f
  PROVE  LET t == PushFrame(s, f)
             N == Len(s.tables)
         IN  /\ IsTable(t)
             /\ DOMAIN t.map = DOMAIN s.map \cup {f}
             /\ \A g \in DOMAIN s.map : t.map[g] = s.map[g]
             /\ IsSeq(t.stack) /\ Len(t.stack) = Len(s.stack) + 1
             /\ \A k \in 1 .. Len(s.stack) : t.stack[k] = s.stack[k]
             /\ t.stack[Len(s.stack) + 1] = t.map[f]
             /\ t.current = t.map[f]
             /\ \A i \in 1 .. N : t.tables[i] = s.tables[i]
             /\ f \in DOMAIN s.map => t.tables = s.tables
             /\ f \notin DOMAIN s.map =>
                   /\ t.map[f] = N + 1
                   /\ Len(t.tables) = N + 1
                   /\ t.tables[N + 1] = NewTable(s.current)
<1> DEFINE t == PushFrame(s, f)
           N == Len(s.tables)
<1>1. N \in Nat /\ DOMAIN s.tables = 1 .. N
  BY DEF IsTable
<1>2. CASE f \in DOMAIN s.map
  <2>1. t = [tables |-> s.tables, map |-> s.map,
             stack |-> Append(s.stack, s.map[f]), current |-> s.map[f]]
    BY <1>2 DEF PushFrame
  <2>2. /\ IsSeq(t.stack) /\ Len(t.stack) = Len(s.stack) + 1
        /\ \A k \in 1 .. Len(s.stack) : t.stack[k] = s.stack[k]
        /\ t.stack[Len(s.stack) + 1] = s.map[f]
    BY <2>1, Appended
  <2>3. t.tables = s.tables /\ t.map = s.map /\ t.current = s.map[f]
    BY <2>1
  <2>4. IsTable(t)
    BY <1>1, <2>1 DEF IsTable
  <2> HIDE DEF t
  <2>5. DOMAIN t.map = DOMAIN s.map \cup {f}
    BY <1>2, <2>3
  <2>6. /\ IsTable(t)
        /\ DOMAIN t.map = DOMAIN s.map \cup {f}
        /\ \A g \in DOMAIN s.map : t.map[g] = s.map[g]
        /\ IsSeq(t.stack) /\ Len(t.stack) = Len(s.stack) + 1
        /\ \A k \in 1 .. Len(s.stack) : t.stack[k] = s.stack[k]
        /\ t.stack[Len(s.stack) + 1] = t.map[f]
        /\ t.current = t.map[f]
        /\ \A i \in 1 .. N : t.tables[i] = s.tables[i]
        /\ f \in DOMAIN s.map => t.tables = s.tables
    BY <2>2, <2>3, <2>4, <2>5
  <2> QED
    BY <1>2, <2>6 DEF t
<1>3. CASE f \notin DOMAIN s.map
  <2> DEFINE T == Append(s.tables, NewTable(s.current))
  <2>1. t = [tables |-> T, map |-> Bind(s.map, f, N + 1),
             stack |-> Append(s.stack, N + 1), current |-> N + 1]
    BY <1>3 DEF PushFrame
  <2>2. /\ IsSeq(t.stack) /\ Len(t.stack) = Len(s.stack) + 1
        /\ \A k \in 1 .. Len(s.stack) : t.stack[k] = s.stack[k]
        /\ t.stack[Len(s.stack) + 1] = N + 1
    BY <2>1, Appended
  <2>3. IsSeq(s.tables)
    BY DEF IsTable, IsSeq
  <2>4. /\ IsSeq(T) /\ Len(T) = N + 1
        /\ T[N + 1] = NewTable(s.current)
        /\ \A i \in 1 .. N : T[i] = s.tables[i]
    BY <2>3, Appended
  <2> HIDE DEF T
  <2>5. t.tables = T /\ t.map = Bind(s.map, f, N + 1) /\ t.current = N + 1
    BY <2>1
  <2>6. /\ DOMAIN t.map = DOMAIN s.map \cup {f}
        /\ \A g \in DOMAIN s.map : t.map[g] = s.map[g]
        /\ t.map[f] = N + 1
    BY <1>3, <2>5 DEF Bind
  <2>7. IsTable(t)
    <3>1. t = [tables |-> t.tables, map |-> t.map, stack |-> t.stack, current |-> t.current]
      BY <2>1
    <3>2. DOMAIN T = 1 .. Len(T) /\ T = [i \in DOMAIN T |-> T[i]]
      BY <2>4 DEF IsSeq
    <3> QED
      BY <2>4, <2>5, <3>1, <3>2 DEF IsTable, IsSeq
  <2> HIDE DEF t
  <2>8. /\ IsTable(t)
        /\ DOMAIN t.map = DOMAIN s.map \cup {f}
        /\ \A g \in DOMAIN s.map : t.map[g] = s.map[g]
        /\ IsSeq(t.stack) /\ Len(t.stack) = Len(s.stack) + 1
        /\ \A k \in 1 .. Len(s.stack) : t.stack[k] = s.stack[k]
        /\ t.stack[Len(s.stack) + 1] = t.map[f]
        /\ t.current = t.map[f]
        /\ \A i \in 1 .. N : t.tables[i] = s.tables[i]
        /\ t.map[f] = N + 1
        /\ Len(t.tables) = N + 1
        /\ t.tables[N + 1] = NewTable(s.current)
    BY <2>2, <2>4, <2>5, <2>6, <2>7
  <2> QED
    BY <1>3, <2>8 DEF t
<1> QED
  BY <1>2, <1>3

LEMMA PushHeld ==
  ASSUME NEW s, NEW m, IsTable(s), IsSeq(s.stack), Held(s, m), NEW f
  PROVE  Held(PushFrame(s, f), m) /\ Grows(s, PushFrame(s, f))
<1> DEFINE t == PushFrame(s, f)
           N == Len(s.tables)
<1>1. N \in Nat /\ DOMAIN s.tables = 1 .. N
  BY DEF IsTable
<1>2. /\ IsTable(t)
      /\ DOMAIN t.map = DOMAIN s.map \cup {f}
      /\ \A g \in DOMAIN s.map : t.map[g] = s.map[g]
      /\ \A i \in 1 .. N : t.tables[i] = s.tables[i]
      /\ f \in DOMAIN s.map => t.tables = s.tables
      /\ f \notin DOMAIN s.map =>
            Len(t.tables) = N + 1 /\ t.tables[N + 1] = NewTable(s.current)
  BY PushIs
<1> HIDE DEF t
<1>3. DOMAIN t.tables = 1 .. Len(t.tables) /\ (Len(t.tables) = N \/ Len(t.tables) = N + 1)
  BY <1>2 DEF IsTable
<1>4. Grows(s, t)
  BY <1>1, <1>2, <1>3 DEF Grows
<1>5. NewTable(s.current).syms = NoBindings /\ NewTable(s.current).free = {}
  BY DEF NewTable
<1>6. Held(t, m)
  <2>1. CASE f \in DOMAIN s.map
    BY <1>2, <2>1 DEF Held
  <2>2. CASE f \notin DOMAIN s.map
    <3>1. \A i \in 1 .. N + 1 : i \in 1 .. N \/ i = N + 1
      BY <1>1
    <3> QED
      BY <1>2, <1>5, <2>2, <3>1 DEF Held, NoBindings
  <2> QED
    BY <2>1, <2>2
<1> QED
  BY <1>4, <1>6 DEF t

LEMMA PopIs ==
  ASSUME NEW s, IsTable(s), IsSeq(s.stack), Len(s.stack) >= 2
  PROVE  LET t == PopFrame(s)
         IN  /\ IsTable(t) /\ t.tables = s.tables /\ t.map = s.map
             /\ IsSeq(t.stack) /\ Len(t.stack) = Len(s.stack) - 1
             /\ \A k \in 1 .. Len(t.stack) : t.stack[k] = s.stack[k]
             /\ t.current = t.stack[Len(t.stack)]
<1> DEFINE t == PopFrame(s)
           rest == SubSeq(s.stack, 1, Len(s.stack) - 1)
<1>1. t = [tables |-> s.tables, map |-> s.map, stack |-> rest, current |-> rest[Len(rest)]]
  BY DEF PopFrame
<1>2. Len(s.stack) >= 1
  BY DEF IsSeq
<1>3. /\ IsSeq(rest) /\ Len(rest) = Len(s.stack) - 1
      /\ \A k \in 1 .. Len(s.stack) - 1 : rest[k] = s.stack[k]
  BY <1>2, Fronted
<1> HIDE DEF t, rest
<1>4. t.tables = s.tables /\ t.map = s.map /\ t.stack = rest /\ t.current = rest[Len(rest)]
  BY <1>1
<1>5. IsTable(t)
  BY <1>1, <1>4 DEF IsTable
<1> QED
  BY <1>3, <1>4, <1>5 DEF t

-----------------------------------------------------------------------------
(* What the operations do to the frames of a text.                         *)

(* q is p, or p and what the parser wrote since. *)
Extends(p, q) ==
    /\ IsText(p) /\ IsText(q)
    /\ Len(p) <= Len(q)
    /\ \A k \in 1 .. Len(p) : q[k] = p[k]

LEMMA ExtendsSelf ==
  ASSUME NEW p, IsText(p)
  PROVE  Extends(p, p)
BY DEF Extends, IsText, IsSeq

LEMMA BlockIn ==
  ASSUME NEW p, IsText(p), NEW i \in 1 .. Len(p), i # 1
  PROVE  p[i].block \in BlocksIn(p) /\ p[i].block \in 1 .. i - 1
<1>1. Len(p) \in Nat /\ i \in 2 .. Len(p)
  BY DEF IsText, IsSeq
<1>2. p[i].block \in 1 .. i - 1 /\ IsBlock(p, p[i].block)
  BY <1>1 DEF IsText
<1>3. p[i].block \in 1 .. Len(p)
  BY <1>1, <1>2
<1>4. p[i].block \in 2 .. Len(p) => p[p[i].block].op # "module"
  BY DEF IsText
<1>5. p[i].block = 1 \/ p[i].block \in 2 .. Len(p)
  BY <1>1, <1>3
<1> QED
  BY <1>2, <1>3, <1>4, <1>5 DEF BlocksIn, ProceduresIn, IsBlock

LEMMA BlocksAre ==
  ASSUME NEW p, IsText(p), NEW b \in BlocksIn(p)
  PROVE  /\ b \in 1 .. Len(p)
         /\ b # 1 => b \in ProceduresIn(p)
         /\ b \in ProceduresIn(p) => b # 1 /\ FrameOf(p, b) = p[b].name
BY DEF BlocksIn, ProceduresIn, IsText, IsSeq, FrameOf

LEMMA OpenBlocks ==
  ASSUME NEW p, NEW o, IsText(p), IsOpen(p, o), NEW k \in 1 .. Len(o)
  PROVE  o[k].item \in BlocksIn(p)
<1>1. Len(o) \in Nat
  BY DEF IsOpen, IsSeq
<1>2. CASE k = 1
  BY <1>2 DEF IsOpen, BlocksIn
<1>3. CASE k # 1
  <2>1. k \in 2 .. Len(o)
    BY <1>1, <1>3
  <2> QED
    BY <2>1 DEF IsOpen, BlocksIn, ProceduresIn
<1> QED
  BY <1>2, <1>3

LEMMA FramesOf ==
  ASSUME NEW p, NEW o, NEW s, IsText(p), Framed(p, o, s), NEW b \in BlocksIn(p)
  PROVE  FrameOf(p, b) \in DOMAIN s.map /\ TableOf(p, s, b) \in 1 .. Len(s.tables)
<1>1. FrameOf(p, b) \in DOMAIN s.map
  BY BlocksAre DEF Framed, FrameOf
<1> QED
  BY <1>1 DEF Framed, TableOf

LEMMA SameBlocks ==
  ASSUME NEW p, NEW q, Extends(p, q), NEW b \in BlocksIn(p)
  PROVE  b \in BlocksIn(q) /\ FrameOf(q, b) = FrameOf(p, b)
<1>1. b \in 1 .. Len(p) /\ b \in 1 .. Len(q) /\ q[b] = p[b]
  BY BlocksAre DEF Extends, IsText, IsSeq
<1> QED
  BY <1>1 DEF BlocksIn, ProceduresIn, FrameOf

LEMMA SameProcedures ==
  ASSUME NEW p, NEW q, Extends(p, q)
  PROVE  /\ ProceduresIn(p) \subseteq ProceduresIn(q)
         /\ HeadingsIn(p) \subseteq HeadingsIn(q)
         /\ \A i \in ProceduresIn(p) \cup HeadingsIn(p) : q[i] = p[i]
BY DEF Extends, ProceduresIn, HeadingsIn, IsText, IsSeq

LEMMA CurrentIs ==
  ASSUME NEW p, NEW o, NEW s, IsText(p), IsOpen(p, o), Framed(p, o, s)
  PROVE  s.current = TableOf(p, s, Top(o)) /\ s.current \in 1 .. Len(s.tables)
<1>1. Len(o) \in 1 .. Len(o)
  BY DEF IsOpen, IsSeq
<1>2. s.current = TableOf(p, s, Top(o))
  BY <1>1 DEF Framed, Top
<1>3. Top(o) \in BlocksIn(p)
  BY <1>1, OpenBlocks DEF Top
<1> QED
  BY <1>2, <1>3, FramesOf

LEMMA StayFramed ==
  ASSUME NEW p, NEW o, NEW s, IsOpen(p, o), Framed(p, o, s),
         NEW q, Extends(p, q), ProceduresIn(q) \subseteq ProceduresIn(p),
         NEW r, Len(r) = Len(o), \A k \in 1 .. Len(o) : r[k].item = o[k].item,
         NEW t, SameFrames(s, t)
  PROVE  Framed(q, r, t)
<1>1. IsTable(t)
  BY SameFramesTable DEF Framed
<1>2. t.map = s.map /\ t.stack = s.stack /\ t.current = s.current /\ Len(t.tables) = Len(s.tables)
  BY DEF SameFrames
<1>3. \A i \in 1 .. Len(s.tables) : t.tables[i].next = s.tables[i].next
  BY DEF SameFrames, Framed, IsTable
<1>4. {q[i].name : i \in ProceduresIn(q)} = {p[i].name : i \in ProceduresIn(p)}
  BY SameProcedures
<1>5. ASSUME NEW k \in 1 .. Len(o)
      PROVE  t.stack[k] = TableOf(q, t, r[k].item)
  <2>1. o[k].item \in BlocksIn(p)
    BY OpenBlocks DEF Extends
  <2> QED
    BY <1>2, <2>1, SameBlocks DEF Framed, TableOf
<1> QED
  BY <1>1, <1>2, <1>3, <1>4, <1>5 DEF Framed

LEMMA PushFramed ==
  ASSUME NEW p, NEW o, NEW s, IsOpen(p, o), Framed(p, o, s),
         NEW q, Extends(p, q), NEW e, e.item \in ProceduresIn(q),
         ProceduresIn(q) \subseteq ProceduresIn(p) \cup {e.item}
  PROVE  Framed(q, Append(o, e), PushFrame(s, q[e.item].name))
<1> DEFINE f == q[e.item].name
           t == PushFrame(s, f)
           r == Append(o, e)
           N == Len(s.tables)
           L == Len(o)
<1>1. IsTable(s) /\ IsSeq(s.stack) /\ Len(s.stack) = L
  BY DEF Framed
<1>2. /\ IsTable(t)
      /\ DOMAIN t.map = DOMAIN s.map \cup {f}
      /\ \A g \in DOMAIN s.map : t.map[g] = s.map[g]
      /\ IsSeq(t.stack) /\ Len(t.stack) = L + 1
      /\ \A k \in 1 .. L : t.stack[k] = s.stack[k]
      /\ t.stack[L + 1] = t.map[f]
      /\ t.current = t.map[f]
      /\ \A i \in 1 .. N : t.tables[i] = s.tables[i]
      /\ f \in DOMAIN s.map => t.tables = s.tables
      /\ f \notin DOMAIN s.map =>
            /\ t.map[f] = N + 1
            /\ Len(t.tables) = N + 1
            /\ t.tables[N + 1] = NewTable(s.current)
  BY <1>1, PushIs
<1>3. L \in Nat /\ N \in Nat /\ IsSeq(o)
  BY <1>1 DEF IsOpen, IsSeq, IsTable
<1>4. Len(r) = L + 1 /\ r[L + 1] = e /\ \A k \in 1 .. L : r[k] = o[k]
  BY <1>3, Appended
<1> HIDE DEF t, r, f
<1>5. s.current \in 1 .. N
  BY CurrentIs DEF Extends
<1>6. Len(t.tables) = N \/ Len(t.tables) = N + 1
  BY <1>2
<1>7. \A i \in 1 .. Len(t.tables) : t.tables[i].next \in 0 .. i - 1
  <2>1. \A i \in 1 .. N : s.tables[i].next \in 0 .. i - 1
    BY DEF Framed
  <2>2. CASE f \in DOMAIN s.map
    BY <1>2, <2>1, <2>2
  <2>3. CASE f \notin DOMAIN s.map
    <3>1. t.tables[N + 1].next = s.current
      BY <1>2, <2>3 DEF NewTable
    <3>2. \A i \in 1 .. N + 1 : i \in 1 .. N \/ i = N + 1
      BY <1>3
    <3>3. s.current \in 0 .. (N + 1) - 1
      BY <1>3, <1>5
    <3> QED
      BY <1>2, <2>1, <2>3, <3>1, <3>2, <3>3
  <2> QED
    BY <2>2, <2>3
<1>8. DOMAIN t.map = {Root} \cup {q[i].name : i \in ProceduresIn(q)}
  <2>1. \A i \in ProceduresIn(p) : i \in ProceduresIn(q) /\ q[i] = p[i]
    BY SameProcedures
  <2>2. f \in {q[i].name : i \in ProceduresIn(q)}
    BY DEF f
  <2>3. {p[i].name : i \in ProceduresIn(p)} \subseteq {q[i].name : i \in ProceduresIn(q)}
    BY <2>1
  <2>4. {q[i].name : i \in ProceduresIn(q)} \subseteq {p[i].name : i \in ProceduresIn(p)} \cup {f}
    BY <2>1 DEF f
  <2>5. DOMAIN s.map = {Root} \cup {p[i].name : i \in ProceduresIn(p)}
    BY DEF Framed
  <2> QED
    BY <1>2, <2>2, <2>3, <2>4, <2>5
<1>9. t.map[Root] = 1
  BY <1>2 DEF Framed
<1>10. \A g \in DOMAIN t.map : t.map[g] \in 1 .. Len(t.tables)
  <2>1. \A g \in DOMAIN s.map : s.map[g] \in 1 .. N
    BY DEF Framed
  <2>2. \A g \in DOMAIN s.map : t.map[g] \in 1 .. Len(t.tables)
    BY <1>2, <1>3, <1>6, <2>1
  <2>3. f \notin DOMAIN s.map => t.map[f] \in 1 .. Len(t.tables)
    BY <1>2, <1>3
  <2> QED
    BY <1>2, <2>2, <2>3
<1>11. ASSUME NEW k \in 1 .. L + 1
       PROVE  t.stack[k] = TableOf(q, t, r[k].item)
  <2>1. CASE k = L + 1
    <3>1. FrameOf(q, e.item) = f
      BY BlocksAre DEF Extends, BlocksIn, f
    <3> QED
      BY <1>2, <1>4, <2>1, <3>1 DEF TableOf
  <2>2. CASE k # L + 1
    <3>1. k \in 1 .. L
      BY <1>3, <2>2
    <3>2. o[k].item \in BlocksIn(p)
      BY <3>1, OpenBlocks DEF Extends
    <3>3. FrameOf(p, o[k].item) \in DOMAIN s.map
      BY <3>2, FramesOf DEF Extends
    <3>4. FrameOf(q, o[k].item) = FrameOf(p, o[k].item)
      BY <3>2, SameBlocks
    <3>5. s.stack[k] = s.map[FrameOf(p, o[k].item)]
      BY <3>1 DEF Framed, TableOf
    <3> QED
      BY <1>2, <1>4, <3>1, <3>3, <3>4, <3>5 DEF TableOf
  <2> QED
    BY <2>1, <2>2
<1>12. Framed(q, r, t)
  BY <1>2, <1>4, <1>7, <1>8, <1>9, <1>10, <1>11 DEF Framed
<1> QED
  BY <1>12 DEF t, r, f

LEMMA PopFramed ==
  ASSUME NEW p, NEW o, NEW s, IsOpen(p, o), Framed(p, o, s), Len(o) # 1,
         NEW q, Extends(p, q), ProceduresIn(q) \subseteq ProceduresIn(p)
  PROVE  Framed(q, SubSeq(o, 1, Len(o) - 1), PopFrame(s))
<1> DEFINE t == PopFrame(s)
           r == SubSeq(o, 1, Len(o) - 1)
           L == Len(o)
<1>1. L \in Nat /\ L >= 2 /\ L >= 1 /\ IsSeq(o)
  BY DEF IsOpen, IsSeq
<1>2. IsTable(s) /\ IsSeq(s.stack) /\ Len(s.stack) = L
  BY DEF Framed
<1>3. /\ IsTable(t) /\ t.tables = s.tables /\ t.map = s.map
      /\ IsSeq(t.stack) /\ Len(t.stack) = L - 1
      /\ \A k \in 1 .. Len(t.stack) : t.stack[k] = s.stack[k]
      /\ t.current = t.stack[Len(t.stack)]
  BY <1>1, <1>2, PopIs
<1>4. Len(r) = L - 1 /\ \A k \in 1 .. L - 1 : r[k] = o[k]
  BY <1>1, Fronted
<1> HIDE DEF t, r
<1>5. {q[i].name : i \in ProceduresIn(q)} = {p[i].name : i \in ProceduresIn(p)}
  BY SameProcedures
<1>6. ASSUME NEW k \in 1 .. L - 1
      PROVE  t.stack[k] = TableOf(q, t, r[k].item)
  <2>1. k \in 1 .. L
    BY <1>1
  <2>2. o[k].item \in BlocksIn(p)
    BY <2>1, OpenBlocks DEF Extends
  <2>3. FrameOf(q, o[k].item) = FrameOf(p, o[k].item)
    BY <2>2, SameBlocks
  <2>4. s.stack[k] = s.map[FrameOf(p, o[k].item)]
    BY <2>1 DEF Framed, TableOf
  <2> QED
    BY <1>3, <1>4, <2>3, <2>4 DEF TableOf
<1>7. Framed(q, r, t)
  BY <1>3, <1>4, <1>5, <1>6 DEF Framed
<1> QED
  BY <1>7 DEF t, r

(* The headings that were in the frames stay there. *)
LEMMA HeadingsStay ==
  ASSUME NEW p, NEW o, NEW s, NEW ph, Framed(p, o, s), HeadingsPut(p, o, s, ph),
         NEW q, Extends(p, q), NEW t, Grows(s, t), NEW r, NEW ph2,
         \A i \in HeadingsIn(q) :
            \/ i \in HeadingsIn(p) /\ (ph = "parse" => \A k \in 1 .. Len(o) : i # o[k].item)
            \/ ph2 = "parse" /\ \E k \in 1 .. Len(r) : i = r[k].item
            \/ q[i].name \in DOMAIN SymsOf(q, t, q[i].block)
  PROVE  HeadingsPut(q, r, t, ph2)
<1>1. ASSUME NEW i \in HeadingsIn(p), ph = "parse" => \A k \in 1 .. Len(o) : i # o[k].item
      PROVE  q[i].name \in DOMAIN SymsOf(q, t, q[i].block)
  <2> DEFINE b == p[i].block
  <2>1. p[i].name \in DOMAIN SymsOf(p, s, b)
    BY <1>1 DEF HeadingsPut
  <2>2. q[i] = p[i]
    BY SameProcedures
  <2>3. i \in 1 .. Len(p) /\ i # 1
    BY DEF HeadingsIn, Extends, IsText
  <2>4. b \in BlocksIn(p)
    BY <2>3, BlockIn DEF Extends
  <2> HIDE DEF b
  <2>5. FrameOf(p, b) \in DOMAIN s.map /\ TableOf(p, s, b) \in 1 .. Len(s.tables)
    BY <2>4, FramesOf DEF Extends
  <2>6. TableOf(q, t, b) = TableOf(p, s, b)
    BY <2>4, <2>5, SameBlocks DEF TableOf, Grows
  <2>7. DOMAIN SymsOf(p, s, b) \subseteq DOMAIN SymsOf(q, t, b)
    BY <2>5, <2>6 DEF SymsOf, Grows, Framed, IsTable
  <2> QED
    BY <2>1, <2>2, <2>7 DEF b
<1> QED
  BY <1>1 DEF HeadingsPut

(* The shape of the frames. *)
LEMMA SameNest ==
  ASSUME NEW p, NEW o, NEW s, Framed(p, o, s), NestedIn(p, s),
         NEW q, Extends(p, q), ProceduresIn(q) \subseteq ProceduresIn(p),
         NEW t, t.map = s.map,
         \A i \in 1 .. Len(s.tables) : t.tables[i].next = s.tables[i].next
  PROVE  NestedIn(q, t)
<1>1. 1 \in 1 .. Len(s.tables)
  BY DEF Framed
<1>2. \A i \in ProceduresIn(q) : i \in ProceduresIn(p) /\ q[i] = p[i]
  BY SameProcedures
<1>3. ASSUME NEW i \in ProceduresIn(q)
      PROVE  t.tables[t.map[q[i].name]].next = TableOf(q, t, q[i].block)
  <2>1. i \in ProceduresIn(p) /\ q[i] = p[i] /\ i \in 1 .. Len(p) /\ i # 1
    BY <1>2 DEF ProceduresIn, Extends, IsText
  <2>2. p[i].block \in BlocksIn(p)
    BY <2>1, BlockIn DEF Extends
  <2>3. TableOf(q, t, p[i].block) = TableOf(p, s, p[i].block)
    BY <2>2, SameBlocks DEF TableOf
  <2>4. s.map[p[i].name] \in 1 .. Len(s.tables)
    BY <2>1 DEF Framed
  <2> QED
    BY <2>1, <2>3, <2>4 DEF NestedIn
<1> QED
  BY <1>1, <1>2, <1>3 DEF NestedIn

LEMMA PushNest ==
  ASSUME NEW p, NEW o, NEW s, IsOpen(p, o), Framed(p, o, s), NestedIn(p, s),
         NEW q, Extends(p, q), NEW i \in ProceduresIn(q),
         ProceduresIn(q) \subseteq ProceduresIn(p) \cup {i},
         i \notin ProceduresIn(p) => q[i].block = Top(o) /\ q[i].name \notin DOMAIN s.map
  PROVE  NestedIn(q, PushFrame(s, q[i].name))
<1> DEFINE f == q[i].name
           t == PushFrame(s, f)
           N == Len(s.tables)
<1>0. IsTable(s) /\ IsSeq(s.stack)
  BY DEF Framed
<1>1. /\ IsTable(t)
      /\ DOMAIN t.map = DOMAIN s.map \cup {f}
      /\ \A g \in DOMAIN s.map : t.map[g] = s.map[g]
      /\ \A j \in 1 .. N : t.tables[j] = s.tables[j]
      /\ f \notin DOMAIN s.map => /\ t.map[f] = N + 1
                                 /\ t.tables[N + 1] = NewTable(s.current)
  BY <1>0, PushIs
<1> HIDE DEF t
<1>2. CASE i \in ProceduresIn(p)
  <2>1. f \in DOMAIN s.map
    BY <1>2, SameProcedures DEF Framed
  <2>2. t.map = s.map
    BY <2>1 DEF t, PushFrame
  <2>3. ProceduresIn(q) \subseteq ProceduresIn(p)
    BY <1>2
  <2>4. NestedIn(q, t)
    BY <1>1, <2>2, <2>3, SameNest
  <2> QED
    BY <2>4 DEF t
<1>3. CASE i \notin ProceduresIn(p)
  <2>1. f \notin DOMAIN s.map /\ q[i].block = Top(o)
    BY <1>3
  <2>2. N \in Nat /\ 1 \in 1 .. N /\ \A g \in DOMAIN s.map : s.map[g] \in 1 .. N
    BY DEF Framed, IsTable
  <2>3. \A j \in ProceduresIn(p) : q[j] = p[j] /\ p[j].name \in DOMAIN s.map
    BY SameProcedures DEF Framed
  <2>4. \A j, k \in ProceduresIn(q) : q[j].name = q[k].name => j = k
    <3>1. \A j, k \in ProceduresIn(p) : q[j].name = q[k].name => j = k
      BY <2>3 DEF NestedIn
    <3>2. \A j \in ProceduresIn(p) : q[j].name # f
      BY <2>1, <2>3
    <3> QED
      BY <3>1, <3>2
  <2>5. t.tables[1].next = 0
    BY <1>1, <2>2 DEF NestedIn
  <2>6. ASSUME NEW j \in ProceduresIn(q)
        PROVE  t.tables[t.map[q[j].name]].next = TableOf(q, t, q[j].block)
    <3>1. CASE j = i
      <4>1. t.tables[t.map[f]].next = s.current
        BY <1>1, <2>1 DEF NewTable
      <4>2. s.current = TableOf(p, s, Top(o))
        BY CurrentIs DEF Extends
      <4>3. Top(o) \in BlocksIn(p)
        <5>1. Len(o) \in 1 .. Len(o)
          BY DEF IsOpen, IsSeq
        <5> QED
          BY <5>1, OpenBlocks DEF Top, Extends
      <4>4. FrameOf(q, Top(o)) = FrameOf(p, Top(o)) /\ FrameOf(p, Top(o)) \in DOMAIN s.map
        BY <4>3, SameBlocks, FramesOf DEF Extends
      <4>5. TableOf(q, t, Top(o)) = s.current
        BY <1>1, <4>2, <4>4 DEF TableOf
      <4> QED
        BY <2>1, <3>1, <4>1, <4>5
    <3>2. CASE j # i
      <4>1. j \in ProceduresIn(p) /\ j \in 1 .. Len(p) /\ j # 1
        BY <3>2 DEF ProceduresIn, Extends, IsText
      <4>2. p[j].block \in BlocksIn(p)
        BY <4>1, BlockIn DEF Extends
      <4>3. FrameOf(q, p[j].block) = FrameOf(p, p[j].block) /\ FrameOf(p, p[j].block) \in DOMAIN s.map
        BY <4>2, SameBlocks, FramesOf DEF Extends
      <4>4. TableOf(q, t, p[j].block) = TableOf(p, s, p[j].block)
        BY <1>1, <4>3 DEF TableOf
      <4>5. t.tables[t.map[p[j].name]] = s.tables[s.map[p[j].name]]
        BY <1>1, <2>2, <2>3, <4>1
      <4>6. s.tables[s.map[p[j].name]].next = TableOf(p, s, p[j].block)
        BY <4>1 DEF NestedIn
      <4> QED
        BY <2>3, <4>1, <4>4, <4>5, <4>6
    <3> QED
      BY <3>1, <3>2
  <2>7. \A g, h \in DOMAIN t.map : t.map[g] = t.map[h] => g = h
    <3>1. \A g, h \in DOMAIN s.map : s.map[g] = s.map[h] => g = h
      BY DEF NestedIn
    <3>2. \A g \in DOMAIN s.map : s.map[g] # N + 1
      BY <2>2
    <3>3. t.map[f] = N + 1
      BY <1>1, <2>1
    <3> QED
      BY <1>1, <3>1, <3>2, <3>3
  <2>8. NestedIn(q, t)
    BY <2>4, <2>5, <2>6, <2>7 DEF NestedIn
  <2> QED
    BY <2>8 DEF t
<1> QED
  BY <1>2, <1>3

LEMMA StayStep ==
  ASSUME NEW p, NEW o, NEW s, NEW H, NEW ph, Scoped(p, o, s, H, ph), IsOpen(p, o),
         NEW q, Extends(p, q), ProceduresIn(q) \subseteq ProceduresIn(p),
         NEW r, Len(r) = Len(o), \A k \in 1 .. Len(o) : r[k].item = o[k].item,
         NEW t, NEW G, Kept(s, t, Len(G)), Symbols(G),
         \A i \in HeadingsIn(q) \ HeadingsIn(p) :
            q[i].block = Top(o) /\ q[i].name \in DOMAIN t.tables[s.current].syms,
         NEW ph2, ph2 = ph \/ Len(o) = 1
  PROVE  Scoped(q, r, t, G, ph2)
<1>1. Framed(q, r, t)
  BY StayFramed DEF Scoped, Kept
<1>2. TableOf(q, t, Top(o)) = s.current
  <2>1. Top(o) \in BlocksIn(p)
    <3>1. Len(o) \in 1 .. Len(o)
      BY DEF IsOpen, IsSeq
    <3> QED
      BY <3>1, OpenBlocks DEF Top, Extends
  <2>2. FrameOf(q, Top(o)) = FrameOf(p, Top(o)) /\ t.map = s.map
    BY <2>1, SameBlocks DEF Kept, SameFrames
  <2> QED
    BY <2>2, CurrentIs DEF Scoped, TableOf, Extends
<1>3. ASSUME NEW i \in HeadingsIn(q)
      PROVE  \/ i \in HeadingsIn(p) /\ (ph = "parse" => \A k \in 1 .. Len(o) : i # o[k].item)
             \/ ph2 = "parse" /\ \E k \in 1 .. Len(r) : i = r[k].item
             \/ q[i].name \in DOMAIN SymsOf(q, t, q[i].block)
  <2>1. CASE i \notin HeadingsIn(p)
    BY <1>2, <2>1 DEF SymsOf
  <2>2. CASE Len(o) = 1
    <3>1. \A k \in 1 .. Len(o) : o[k].item = 1
      BY <2>2 DEF IsOpen
    <3>2. i # 1
      BY DEF HeadingsIn, Extends, IsText
    <3> QED
      BY <2>1, <3>1, <3>2
  <2>3. CASE ph2 = ph
    BY <2>1, <2>3
  <2> QED
    BY <2>2, <2>3
<1>4. HeadingsPut(q, r, t, ph2)
  BY <1>3, HeadingsStay DEF Scoped, Kept
<1>5. Distinct => NestedIn(q, t)
  <2>1. \A i \in 1 .. Len(s.tables) : t.tables[i].next = s.tables[i].next
    BY DEF Kept, SameFrames, Scoped, Framed, IsTable
  <2> QED
    BY <2>1, SameNest DEF Scoped, Kept, SameFrames
<1> QED
  BY <1>1, <1>4, <1>5 DEF Scoped, Kept

LEMMA PushStep ==
  ASSUME NEW p, NEW o, NEW s, NEW H, NEW ph, Scoped(p, o, s, H, ph), IsOpen(p, o),
         NEW q, Extends(p, q), NEW e, e.item \in ProceduresIn(q),
         ProceduresIn(q) \subseteq ProceduresIn(p) \cup {e.item},
         \A i \in HeadingsIn(q) \ HeadingsIn(p) : ph = "parse" /\ i = e.item,
         IsOpen(q, Append(o, e)),
         Distinct /\ e.item \notin ProceduresIn(p) =>
            q[e.item].block = Top(o) /\ q[e.item].name \notin DOMAIN s.map,
         NEW u, NEW m, Kept(s, u, m),
         NEW t, NEW G, Kept(PushFrame(u, q[e.item].name), t, Len(G)), Symbols(G)
  PROVE  Scoped(q, Append(o, e), t, G, ph)
<1> DEFINE v == PushFrame(u, q[e.item].name)
           r == Append(o, e)
<1>1. Framed(p, o, u)
  BY StayFramed, ExtendsSelf DEF Scoped, Kept, Extends
<1>2. Framed(q, r, v)
  BY <1>1, PushFramed
<1>3. Grows(u, v)
  BY <1>1, PushHeld DEF Kept, Framed
<1>4. /\ IsSeq(o) /\ Len(o) \in Nat /\ Len(r) = Len(o) + 1
      /\ r[Len(o) + 1] = e /\ \A k \in 1 .. Len(o) : r[k] = o[k]
  BY Appended DEF IsOpen, IsSeq
<1> HIDE DEF v, r
<1>5. Framed(q, r, t)
  <2>1. IsText(q) /\ Extends(q, q)
    BY ExtendsSelf DEF Extends
  <2>2. IsOpen(q, r)
    BY DEF r
  <2> QED
    BY <1>2, <2>1, <2>2, StayFramed DEF Kept, v
<1>6. Grows(s, t)
  BY <1>3, GrowsTrans DEF Kept, v
<1>7. ASSUME NEW i \in HeadingsIn(q)
      PROVE  \/ i \in HeadingsIn(p) /\ (ph = "parse" => \A k \in 1 .. Len(o) : i # o[k].item)
             \/ ph = "parse" /\ \E k \in 1 .. Len(r) : i = r[k].item
             \/ q[i].name \in DOMAIN SymsOf(q, t, q[i].block)
  <2>1. \A k \in 1 .. Len(o) : k \in 1 .. Len(r)
    BY <1>4
  <2>2. Len(o) + 1 \in 1 .. Len(r)
    BY <1>4
  <2> QED
    BY <1>4, <2>1, <2>2
<1>8. HeadingsPut(q, r, t, ph)
  BY <1>6, <1>7, HeadingsStay DEF Scoped
<1>9. Distinct => NestedIn(q, t)
  <2> SUFFICES ASSUME Distinct
               PROVE  NestedIn(q, t)
    OBVIOUS
  <2>1. IsText(p) /\ Extends(p, p) /\ Extends(q, q) /\ u.map = s.map
    BY ExtendsSelf DEF Extends, Kept, SameFrames
  <2>2. \A i \in 1 .. Len(s.tables) : u.tables[i].next = s.tables[i].next
    BY DEF Kept, SameFrames, Scoped, Framed, IsTable
  <2>3. NestedIn(p, u)
    BY <2>1, <2>2, SameNest DEF Scoped
  <2>4. NestedIn(q, v)
    <3>1. /\ e.item \notin ProceduresIn(p) =>
               q[e.item].block = Top(o) /\ q[e.item].name \notin DOMAIN u.map
          /\ ProceduresIn(q) \subseteq ProceduresIn(p) \cup {e.item}
      BY <2>1
    <3> QED
      BY <1>1, <2>3, <3>1, PushNest DEF v
  <2>5. \A i \in 1 .. Len(v.tables) : t.tables[i].next = v.tables[i].next
    BY <1>2, Zenon DEF Kept, SameFrames, Framed, IsTable, v
  <2>6. t.map = v.map
    BY DEF Kept, SameFrames, v
  <2> QED
    BY <1>2, <2>1, <2>4, <2>5, <2>6, SameNest
<1> QED
  BY <1>5, <1>8, <1>9 DEF Scoped, Kept, r

LEMMA PopStep ==
  ASSUME NEW p, NEW o, NEW s, NEW H, NEW ph, Scoped(p, o, s, H, ph), IsOpen(p, o),
         Len(o) # 1, NEW q, Extends(p, q), HeadingsIn(q) \subseteq HeadingsIn(p),
         NEW u, NEW m, Kept(s, u, m),
         NEW t, NEW G, Kept(PopFrame(u), t, Len(G)), Symbols(G),
         ph = "parse" => p[Top(o)].name \in DOMAIN t.tables[PopFrame(u).current].syms
  PROVE  Scoped(q, SubSeq(o, 1, Len(o) - 1), t, G, ph)
<1> DEFINE v == PopFrame(u)
           r == SubSeq(o, 1, Len(o) - 1)
           L == Len(o)
<1>1. Framed(p, o, u)
  BY StayFramed, ExtendsSelf DEF Scoped, Kept, Extends
<1>2. ProceduresIn(q) \subseteq ProceduresIn(p)
  BY SameProcedures DEF ProceduresIn, HeadingsIn
<1>3. Framed(q, r, v)
  BY <1>1, <1>2, PopFramed
<1>4. L \in Nat /\ L >= 2 /\ L >= 1 /\ IsSeq(o)
  BY DEF IsOpen, IsSeq
<1>5. Grows(u, v)
  <2>1. IsTable(u) /\ IsSeq(u.stack) /\ Len(u.stack) >= 2
    BY <1>1, <1>4 DEF Framed
  <2>2. v.tables = u.tables /\ v.map = u.map
    BY <2>1, PopIs
  <2> QED
    BY <2>2 DEF Grows
<1>55. v.tables = u.tables /\ v.map = u.map
  BY <1>1, <1>4, PopIs DEF Framed
<1>6. Len(r) = L - 1 /\ \A k \in 1 .. L - 1 : r[k] = o[k]
  BY <1>4, Fronted
<1>7. IsOpen(p, o) /\ IsOpen(q, o)
  <2>1. Len(p) \in Nat /\ Len(q) \in Nat
    BY DEF Extends, IsText, IsSeq
  <2> QED
    BY <1>4, <2>1, SameOpen DEF Extends
<1>8. IsOpen(q, r) /\ Top(r) = q[Top(o)].block
  BY <1>7, LeaveInner DEF Extends
<1> HIDE DEF v, r
<1>9. Framed(q, r, t)
  <2>1. Extends(q, q)
    BY ExtendsSelf DEF Extends
  <2> QED
    BY <1>3, <1>8, <2>1, StayFramed DEF Kept, v
<1>10. Grows(s, t)
  BY <1>5, GrowsTrans DEF Kept, v
<1>11. ASSUME NEW i \in HeadingsIn(q)
      PROVE  \/ i \in HeadingsIn(p) /\ (ph = "parse" => \A k \in 1 .. Len(o) : i # o[k].item)
             \/ ph = "parse" /\ \E k \in 1 .. Len(r) : i = r[k].item
             \/ q[i].name \in DOMAIN SymsOf(q, t, q[i].block)
  <2>1. CASE ph = "parse" /\ i = Top(o)
    <3>1. Top(o) \in 1 .. Len(p) /\ q[Top(o)] = p[Top(o)]
      BY TopIsBlock DEF Extends
    <3>2. v.current = TableOf(q, v, Top(r))
      BY <1>3, <1>8, CurrentIs DEF Extends
    <3>3. TableOf(q, t, Top(r)) = v.current
      BY <3>2 DEF TableOf, Kept, SameFrames, v
    <3> QED
      BY <1>8, <2>1, <3>1, <3>3 DEF SymsOf, v
  <2>2. CASE ph = "parse" /\ \E k \in 1 .. Len(o) : i = o[k].item /\ k # L
    <3>1. PICK k \in 1 .. L : i = o[k].item /\ k # L
      BY <2>2
    <3>2. k \in 1 .. L - 1
      BY <1>4, <3>1
    <3> QED
      BY <1>6, <2>2, <3>1, <3>2
  <2> QED
    BY <2>1, <2>2 DEF Top
<1>12. HeadingsPut(q, r, t, ph)
  BY <1>10, <1>11, HeadingsStay DEF Scoped
<1>13. Distinct => NestedIn(q, t)
  <2> SUFFICES ASSUME Distinct
               PROVE  NestedIn(q, t)
    OBVIOUS
  <2>1. t.map = s.map
    BY <1>55 DEF Kept, SameFrames, v
  <2>2. \A i \in 1 .. Len(s.tables) : t.tables[i].next = s.tables[i].next
    BY <1>55 DEF Kept, SameFrames, Scoped, Framed, IsTable, v
  <2> QED
    BY <1>2, <2>1, <2>2, SameNest DEF Scoped
<1> QED
  BY <1>9, <1>12, <1>13 DEF Scoped, Kept, r

-----------------------------------------------------------------------------
(* The symbols that are made.                                              *)

LEMMA SymbolIs ==
  ASSUME NEW kind, NEW b, NEW n
  PROVE  /\ IsSymbol(Symbol(kind, b, n))
         /\ Symbol(kind, b, n).block = b /\ Symbol(kind, b, n).name = n
BY DEF Symbol, IsSymbol

(* The assignments to one field of a symbol. *)
WithValue(x, v)  == [x EXCEPT !.value = v]
WithGlobal(x, g) == [x EXCEPT !.global = g]
WithParams(x, s) == [x EXCEPT !.params = s]
WithCaps(x, c)   == [x EXCEPT !.caps = c]

LEMMA SymbolWith ==
  ASSUME NEW x, IsSymbol(x), NEW v
  PROVE  /\ IsSymbol(WithValue(x, v)) /\ WithValue(x, v).block = x.block
         /\ IsSymbol(WithGlobal(x, v)) /\ WithGlobal(x, v).block = x.block
         /\ IsSymbol(WithParams(x, v)) /\ WithParams(x, v).block = x.block
         /\ v \subseteq Idents => IsSymbol(WithCaps(x, v))
         /\ WithCaps(x, v).block = x.block
         /\ WithValue(x, v).name = x.name /\ WithGlobal(x, v).name = x.name
         /\ WithParams(x, v).name = x.name /\ WithCaps(x, v).name = x.name
BY DEF IsSymbol, WithValue, WithGlobal, WithParams, WithCaps

LEMMA ProcSymbolIs ==
  ASSUME NEW kind, NEW i
  PROVE  /\ IsSymbol(ProcSymbol(kind, i)) /\ ProcSymbol(kind, i).block = prog[i].block
         /\ ProcSymbol(kind, i).name = prog[i].name
<1> DEFINE ns == SetToSeq(Params(prog[i].decs))
           ps == [k \in DOMAIN ns |-> prog[i].decs[ns[k]]]
           x == Symbol(kind, prog[i].block, prog[i].name)
           y == WithGlobal(x, TRUE)
<1>1. IsSymbol(x) /\ x.block = prog[i].block /\ x.name = prog[i].name
  BY SymbolIs
<1>2. ProcSymbol(kind, i) = WithParams(y, ps)
  BY DEF ProcSymbol, WithGlobal, WithParams
<1> HIDE DEF ps, x
<1>3. IsSymbol(y) /\ y.block = prog[i].block /\ y.name = prog[i].name
  BY <1>1, SymbolWith
<1> HIDE DEF y
<1> QED
  BY <1>2, <1>3, SymbolWith

LEMMA UntypedAre ==
  ASSUME NEW ns, IsSeq(ns), NEW decs, NEW b
  PROVE  /\ Symbols(UntypedSymbols(ns, decs, b))
         /\ Len(UntypedSymbols(ns, decs, b)) = Len(ns)
         /\ \A k \in 1 .. Len(ns) : /\ UntypedSymbols(ns, decs, b)[k].block = b
                                    /\ UntypedSymbols(ns, decs, b)[k].name = ns[k]
<1> DEFINE S(k) == Symbol(IF decs[ns[k]] = "const" THEN "const" ELSE "void", b, ns[k])
           G == [k \in 1 .. Len(ns) |-> S(k)]
<1>1. UntypedSymbols(ns, decs, b) = G
  BY DEF UntypedSymbols, IsSeq
<1>2. \A k \in 1 .. Len(ns) : IsSymbol(S(k)) /\ S(k).block = b /\ S(k).name = ns[k]
  BY SymbolIs
<1> HIDE DEF S
<1>3. G = [k \in 1 .. Len(ns) |-> G[k]] /\ Len(ns) \in Nat
  BY DEF IsSeq
<1>4. Len(G) = Len(ns)
  BY <1>3, LenOfDomain
<1>5. \A k \in 1 .. Len(ns) : IsSymbol(G[k]) /\ G[k].block = b /\ G[k].name = ns[k]
  BY <1>2
<1> HIDE DEF G
<1> QED
  BY <1>1, <1>3, <1>4, <1>5 DEF Symbols, IsSeq

LEMMA TypedAre ==
  ASSUME NEW ns, IsSeq(ns), NEW g
  PROVE  /\ Symbols(TypedSymbols(ns, g))
         /\ Len(TypedSymbols(ns, g)) = Len(ns)
         /\ \A k \in 1 .. Len(ns) : /\ TypedSymbols(ns, g)[k].block = pc
                                    /\ TypedSymbols(ns, g)[k].name = ns[k]
<1> DEFINE S(k) == WithGlobal(Symbol(prog[pc].decs[ns[k]], pc, ns[k]), g)
           G == [k \in 1 .. Len(ns) |-> S(k)]
<1>1. TypedSymbols(ns, g) = G
  BY DEF TypedSymbols, WithGlobal, IsSeq
<1>2. \A k \in 1 .. Len(ns) : IsSymbol(S(k)) /\ S(k).block = pc /\ S(k).name = ns[k]
  BY SymbolIs, SymbolWith
<1> HIDE DEF S
<1>3. G = [k \in 1 .. Len(ns) |-> G[k]] /\ Len(ns) \in Nat
  BY DEF IsSeq
<1>4. Len(G) = Len(ns)
  BY <1>3, LenOfDomain
<1>5. \A k \in 1 .. Len(ns) : IsSymbol(G[k]) /\ G[k].block = pc /\ G[k].name = ns[k]
  BY <1>2
<1> HIDE DEF G
<1> QED
  BY <1>1, <1>3, <1>4, <1>5 DEF Symbols, IsSeq

LEMMA CapturedAre ==
  ASSUME NEW ns, IsSeq(ns), NEW fn
  PROVE  /\ Symbols([k \in DOMAIN ns |-> Captured(ns[k], fn)])
         /\ Len([k \in DOMAIN ns |-> Captured(ns[k], fn)]) = Len(ns)
<1> DEFINE S(k) == WithValue(Symbol("var", pc, ns[k]), Value("captured", pc, ns[k], fn))
           G == [k \in 1 .. Len(ns) |-> S(k)]
<1>1. [k \in DOMAIN ns |-> Captured(ns[k], fn)] = G
  BY DEF Captured, WithValue, IsSeq
<1>2. \A k \in 1 .. Len(ns) : IsSymbol(S(k))
  BY SymbolIs, SymbolWith
<1> HIDE DEF S
<1>3. G = [k \in 1 .. Len(ns) |-> G[k]] /\ Len(ns) \in Nat
  BY DEF IsSeq
<1>4. Len(G) = Len(ns)
  BY <1>3, LenOfDomain
<1>5. \A k \in 1 .. Len(ns) : IsSymbol(G[k])
  BY <1>2
<1> HIDE DEF G
<1> QED
  BY <1>1, <1>3, <1>4, <1>5 DEF Symbols, IsSeq

LEMMA SymbolsJoin ==
  ASSUME NEW H, Symbols(H), NEW G, Symbols(G)
  PROVE  Symbols(H \o G) /\ Len(H \o G) = Len(H) + Len(G)
<1> DEFINE J == H \o G
<1>1. /\ IsSeq(J) /\ Len(J) = Len(H) + Len(G)
      /\ \A k \in 1 .. Len(H) : J[k] = H[k]
      /\ \A k \in 1 .. Len(G) : J[Len(H) + k] = G[k]
  BY Joined DEF Symbols
<1>2. Len(H) \in Nat /\ Len(G) \in Nat
  BY DEF Symbols, IsSeq
<1> HIDE DEF J
<1>3. ASSUME NEW h \in 1 .. Len(J)
      PROVE  IsSymbol(J[h])
  <2>1. CASE h \in 1 .. Len(H)
    BY <1>1, <2>1 DEF Symbols
  <2>2. CASE h \notin 1 .. Len(H)
    <3>1. h - Len(H) \in 1 .. Len(G) /\ Len(H) + (h - Len(H)) = h
      BY <1>1, <1>2, <2>2
    <3>2. J[h] = G[h - Len(H)]
      BY <1>1, <3>1
    <3> QED
      BY <3>1, <3>2 DEF Symbols
  <2> QED
    BY <2>1, <2>2
<1> QED
  BY <1>1, <1>3 DEF Symbols, J

LEMMA SymbolsAppend ==
  ASSUME NEW H, Symbols(H), NEW x, IsSymbol(x)
  PROVE  Symbols(Append(H, x)) /\ Len(Append(H, x)) = Len(H) + 1
<1> DEFINE J == Append(H, x)
<1>1. /\ IsSeq(J) /\ Len(J) = Len(H) + 1
      /\ \A k \in 1 .. Len(H) : J[k] = H[k]
      /\ J[Len(H) + 1] = x
  BY Appended DEF Symbols
<1>2. Len(H) \in Nat
  BY DEF Symbols, IsSeq
<1> HIDE DEF J
<1>3. \A h \in 1 .. Len(J) : h \in 1 .. Len(H) \/ h = Len(H) + 1
  BY <1>1, <1>2
<1> QED
  BY <1>1, <1>3 DEF Symbols, J

(* set_value changes the values and nothing else. *)
Revalued(H, G) ==
    /\ G = [h \in DOMAIN H |-> G[h]]
    /\ \A h \in DOMAIN H : G[h] = H[h] \/ \E v : G[h] = WithValue(H[h], v)

LEMMA SymbolsRevalued ==
  ASSUME NEW H, Symbols(H), NEW G, Revalued(H, G)
  PROVE  Symbols(G) /\ Len(G) = Len(H)
<1>1. DOMAIN H = 1 .. Len(H) /\ Len(H) \in Nat
  BY DEF Symbols, IsSeq
<1>2. G = [h \in 1 .. Len(H) |-> G[h]]
  BY <1>1 DEF Revalued
<1>3. Len(G) = Len(H)
  BY <1>1, <1>2, LenOfDomain
<1>4. \A h \in 1 .. Len(H) : IsSymbol(G[h])
  BY <1>1, SymbolWith DEF Symbols, Revalued
<1> QED
  BY <1>1, <1>2, <1>3, <1>4 DEF Symbols, IsSeq

(* The names of a declaration or of a closure, in some order. *)
LEMMA IdentsFinite == IsFiniteSet(Vars) /\ IsFiniteSet(Idents)
<1>1. IsFiniteSet(Vars)
  BY ConstantsAssumption
<1>2. IsFiniteSet(Range(ProcNames))
  <2>1. Len(ProcNames) \in Nat /\ Range(ProcNames) = {ProcNames[k] : k \in 1 .. Len(ProcNames)}
    BY ConstantsAssumption DEF Range
  <2>2. IsFiniteSet(1 .. Len(ProcNames))
    BY <2>1, FS_Interval
  <2>3. IsFiniteSet({ProcNames[k] : k \in 1 .. Len(ProcNames)})
    <3> DEFINE T == {ProcNames[k] : k \in 1 .. Len(ProcNames)}
               f == [k \in 1 .. Len(ProcNames) |-> ProcNames[k]]
    <3>1. f \in Surjection(1 .. Len(ProcNames), T)
      BY DEF Surjection
    <3> QED
      BY <2>2, <3>1, FS_Surjection
  <2> QED
    BY <2>1, <2>3
<1> QED
  BY <1>1, <1>2, FS_Union DEF Idents

LEMMA InOrder ==
  ASSUME NEW S, S \subseteq Idents
  PROVE  IsSeq(SetToSeq(S)) /\ Values(SetToSeq(S)) = S
<1>1. IsFiniteSet(S)
  BY IdentsFinite, FS_Subset
<1>2. SetToSeq(S) \in Seq(S) /\ Range(SetToSeq(S)) = S
  BY <1>1, Enumerated
<1>3. IsSeq(SetToSeq(S))
  BY <1>2, SeqIsSeq
<1>4. DOMAIN SetToSeq(S) = 1 .. Len(SetToSeq(S))
  BY <1>2
<1> QED
  BY <1>2, <1>3, <1>4 DEF Range, Values

-----------------------------------------------------------------------------
(* Every step keeps the frames in order.  First the parser.                *)

LEMMA ScopedFacts ==
  ASSUME NEW p, NEW o, NEW s, NEW H, NEW ph, IsText(p), IsOpen(p, o), Scoped(p, o, s, H, ph)
  PROVE  /\ IsTable(s) /\ IsSeq(s.stack) /\ s.current \in 1 .. Len(s.tables)
         /\ s.current = TableOf(p, s, Top(o))
         /\ Len(H) \in Nat /\ Held(s, Len(H)) /\ Symbols(H)
         /\ Kept(s, s, Len(H))
<1>1. IsTable(s) /\ IsSeq(s.stack) /\ Held(s, Len(H)) /\ Symbols(H)
  BY DEF Scoped, Framed
<1>2. Len(H) \in Nat
  BY <1>1 DEF Symbols, IsSeq
<1> QED
  BY <1>1, <1>2, CurrentIs, SameKept DEF Scoped

LEMMA PushReady ==
  ASSUME NEW p, NEW o, NEW s, Framed(p, o, s), NEW u, NEW m, Kept(s, u, m), NEW f
  PROVE  /\ IsTable(PushFrame(u, f)) /\ Held(PushFrame(u, f), m)
         /\ PushFrame(u, f).current \in 1 .. Len(PushFrame(u, f).tables)
<1> DEFINE v == PushFrame(u, f)
           N == Len(u.tables)
<1>1. IsTable(u) /\ IsSeq(u.stack) /\ u.map = s.map /\ N = Len(s.tables) /\ Held(u, m)
  BY DEF Framed, Kept, SameFrames
<1>2. /\ IsTable(v)
      /\ \A g \in DOMAIN u.map : v.map[g] = u.map[g]
      /\ v.current = v.map[f]
      /\ f \in DOMAIN u.map => v.tables = u.tables
      /\ f \notin DOMAIN u.map => v.map[f] = N + 1 /\ Len(v.tables) = N + 1
  BY <1>1, PushIs
<1>3. Held(v, m)
  BY <1>1, PushHeld
<1> HIDE DEF v
<1>4. v.current \in 1 .. Len(v.tables)
  <2>1. CASE f \in DOMAIN u.map
    BY <1>1, <1>2, <2>1 DEF Framed
  <2>2. CASE f \notin DOMAIN u.map
    BY <1>1, <1>2, <2>2 DEF IsTable
  <2> QED
    BY <2>1, <2>2
<1> QED
  BY <1>2, <1>3, <1>4 DEF v

LEMMA PopReady ==
  ASSUME NEW p, NEW o, NEW s, IsText(p), IsOpen(p, o), Framed(p, o, s), Len(o) # 1,
         NEW u, NEW m, Kept(s, u, m)
  PROVE  /\ IsTable(PopFrame(u)) /\ Held(PopFrame(u), m)
         /\ PopFrame(u).current \in 1 .. Len(PopFrame(u).tables)
         /\ PopFrame(u).tables = u.tables
         /\ PopFrame(u).current = TableOf(p, s, p[Top(o)].block)
<1> DEFINE v == PopFrame(u)
           L == Len(o)
<1>1. L \in Nat /\ L >= 2 /\ L - 1 \in 1 .. L /\ L \in 2 .. L
  BY DEF IsOpen, IsSeq
<1>2. IsTable(u) /\ u.stack = s.stack /\ Len(u.tables) = Len(s.tables) /\ Held(u, m)
  BY DEF Kept, SameFrames
<1>3. IsSeq(u.stack) /\ Len(u.stack) = L
  BY <1>2 DEF Framed
<1>4. /\ IsTable(v) /\ v.tables = u.tables
      /\ Len(v.stack) = L - 1
      /\ \A k \in 1 .. Len(v.stack) : v.stack[k] = u.stack[k]
      /\ v.current = v.stack[Len(v.stack)]
  BY <1>1, <1>2, <1>3, PopIs
<1> HIDE DEF v
<1>5. v.current = s.stack[L - 1]
  <2>1. L - 1 \in 1 .. L - 1
    BY <1>1
  <2> QED
    BY <1>2, <1>4, <2>1
<1>6. v.current = TableOf(p, s, o[L - 1].item)
  BY <1>1, <1>5 DEF Framed
<1>7. o[L - 1].item \in BlocksIn(p)
  BY <1>1, OpenBlocks
<1>8. p[Top(o)].block = o[L - 1].item
  BY <1>1 DEF IsOpen, Top
<1>9. v.current \in 1 .. Len(v.tables)
  BY <1>2, <1>4, <1>6, <1>7, FramesOf
<1> QED
  BY <1>2, <1>4, <1>6, <1>8, <1>9 DEF v, Held

LEMMA Written ==
  ASSUME NEW p, IsText(p), NEW it, NEW q, q = Append(p, it), IsText(q)
  PROVE  /\ Extends(p, q)
         /\ Len(q) = Len(p) + 1 /\ Len(p) + 1 \in 1 .. Len(q) /\ q[Len(p) + 1] = it
         /\ \A i \in ProceduresIn(q) : i \in ProceduresIn(p) \/ (i = Len(p) + 1 /\ it.op = "procedure")
         /\ \A i \in HeadingsIn(q) : \/ i \in HeadingsIn(p)
                                     \/ i = Len(p) + 1 /\ it.op \in {"procedure", "forward"}
<1>1. Len(p) \in Nat
  BY DEF IsText, IsSeq
<1>2. Len(q) = Len(p) + 1 /\ q[Len(p) + 1] = it /\ \A k \in 1 .. Len(p) : q[k] = p[k]
  BY Appended DEF IsText
<1>3. \A i \in 1 .. Len(q) : i \in 1 .. Len(p) \/ i = Len(p) + 1
  BY <1>1, <1>2
<1>4. Extends(p, q)
  BY <1>1, <1>2 DEF Extends
<1>5. \A i \in ProceduresIn(q) : i \in ProceduresIn(p) \/ (i = Len(p) + 1 /\ it.op = "procedure")
  BY <1>2, <1>3 DEF ProceduresIn
<1>6. \A i \in HeadingsIn(q) : \/ i \in HeadingsIn(p)
                               \/ i = Len(p) + 1 /\ it.op \in {"procedure", "forward"}
  BY <1>2, <1>3 DEF HeadingsIn
<1> QED
  BY <1>1, <1>2, <1>4, <1>5, <1>6

(* The frames after a step. *)
FramesKept == Scoped(prog', open', ft', heap', phase')

LEMMA ParsingText ==
  ASSUME TextInv, TextInv', phase = "parse", NEW it, prog' = Append(prog, it)
  PROVE  /\ IsText(prog) /\ IsOpen(prog, open) /\ IsText(prog') /\ IsOpen(prog', open')
         /\ pc = Len(prog) /\ pc + 1 \in 1 .. Len(prog') /\ prog'[pc + 1] = it
         /\ Extends(prog, prog')
         /\ \A i \in ProceduresIn(prog') :
               i \in ProceduresIn(prog) \/ (i = pc + 1 /\ it.op = "procedure")
         /\ \A i \in HeadingsIn(prog') :
               i \in HeadingsIn(prog) \/ (i = pc + 1 /\ it.op \in {"procedure", "forward"})
<1>1. IsText(prog) /\ IsOpen(prog, open) /\ pc = Len(prog)
  BY DEF TextInv, Writing
<1>2. IsText(prog') /\ IsOpen(prog', open')
  BY DEF TextInv, Writing, Walking
<1>3. /\ Extends(prog, prog')
      /\ Len(prog) + 1 \in 1 .. Len(prog') /\ prog'[Len(prog) + 1] = it
      /\ \A i \in ProceduresIn(prog') :
            i \in ProceduresIn(prog) \/ (i = Len(prog) + 1 /\ it.op = "procedure")
      /\ \A i \in HeadingsIn(prog') :
            i \in HeadingsIn(prog) \/ (i = Len(prog) + 1 /\ it.op \in {"procedure", "forward"})
  BY <1>1, <1>2, Written
<1> QED
  BY <1>1, <1>2, <1>3

(* begin, the statements and the end of the module: the tables are marked at most *)
LEMMA ParseInsideFrames ==
  ASSUME TextInv, TextInv', Scoped(prog, open, ft, heap, phase),
         phase = "parse", NEW it, prog' = Append(prog, it),
         it.op \notin {"procedure", "forward"},
         phase' = phase \/ Len(open) = 1,
         Len(open') = Len(open), \A k \in 1 .. Len(open) : open'[k].item = open[k].item,
         heap' = heap, ft' = ft \/ \E n \in Idents : ft' = MarkFree(ft, n)
  PROVE  FramesKept
<1>1. /\ IsText(prog) /\ IsOpen(prog, open) /\ Extends(prog, prog')
      /\ ProceduresIn(prog') \subseteq ProceduresIn(prog)
      /\ HeadingsIn(prog') \subseteq HeadingsIn(prog)
  BY ParsingText
<1>2. IsTable(ft) /\ Held(ft, Len(heap)) /\ Symbols(heap) /\ Kept(ft, ft, Len(heap))
  BY <1>1, ScopedFacts
<1>3. Kept(ft, ft', Len(heap'))
  <2>1. CASE ft' = ft
    BY <1>2, <2>1
  <2>2. ASSUME NEW n \in Idents, ft' = MarkFree(ft, n)
        PROVE  Kept(ft, ft', Len(heap'))
    BY <1>2, <2>2, MarkKept
  <2> QED
    BY <2>1, <2>2
<1>4. Scoped(prog', open', ft', heap', phase')
  BY <1>1, <1>2, <1>3, StayStep
<1> QED
  BY <1>4 DEF FramesKept

LEMMA ParseProcedureFrames ==
  ASSUME TextInv, TextInv', Scoped(prog, open, ft, heap, phase),
         NEW n \in Range(ProcNames), NEW decs \in DecsOf(Kinds), NEW result,
         ParseProcedure(n, decs, result)
  PROVE  FramesKept
<1> DEFINE it == Heading("procedure", n, Here, decs, result)
           ns == SetToSeq(Locals(decs))
           v  == PushFrame(ft, n)
           e  == [item |-> pc + 1, sym |-> 0, fn |-> Main, stats |-> FALSE]
           new == UntypedSymbols(ns, decs, pc + 1)
<1>1. /\ phase = "parse" /\ phase' = "parse" /\ prog' = Append(prog, it)
      /\ open' = Append(open, e)
      /\ ft' = PutAll(v, ns, Len(heap)) /\ heap' = heap \o new
  BY DEF ParseProcedure, Parsing, Parsed, Entered
<1>2. it.op = "procedure" /\ it.name = n /\ e.item = pc + 1 /\ it.block = Top(open)
  BY DEF Heading, Here, Inner, Top
<1> HIDE DEF it, e
<1>3. /\ IsText(prog) /\ IsOpen(prog, open) /\ IsText(prog') /\ IsOpen(prog', open')
      /\ pc + 1 \in 1 .. Len(prog') /\ prog'[pc + 1] = it /\ Extends(prog, prog')
      /\ \A i \in ProceduresIn(prog') : i \in ProceduresIn(prog) \/ i = pc + 1
      /\ \A i \in HeadingsIn(prog') : i \in HeadingsIn(prog) \/ i = pc + 1
  BY <1>1, ParsingText
<1>4. /\ Len(heap) \in Nat /\ Symbols(heap) /\ Kept(ft, ft, Len(heap))
      /\ Framed(prog, open, ft)
  BY <1>3, ScopedFacts DEF Scoped
<1>5. IsTable(v) /\ Held(v, Len(heap)) /\ v.current \in 1 .. Len(v.tables)
  BY <1>4, PushReady
<1>6. IsSeq(ns)
  <2>1. Locals(decs) \subseteq Idents
    BY DEF Locals, DecsOf, Idents
  <2> QED
    BY <2>1, InOrder
<1>7. Symbols(new) /\ Len(new) = Len(ns)
  BY <1>6, UntypedAre
<1> HIDE DEF new, ns
<1>8. Symbols(heap') /\ Len(heap') = Len(heap) + Len(ns)
  BY <1>1, <1>4, <1>7, SymbolsJoin
<1>9. Kept(v, ft', Len(heap'))
  BY <1>1, <1>4, <1>5, <1>6, <1>8, PutAllKept
<1>10. /\ e.item \in ProceduresIn(prog') /\ prog'[e.item].name = n
       /\ ProceduresIn(prog') \subseteq ProceduresIn(prog) \cup {e.item}
       /\ \A i \in HeadingsIn(prog') \ HeadingsIn(prog) : phase = "parse" /\ i = e.item
       /\ prog'[e.item].block = Top(open)
  BY <1>1, <1>2, <1>3 DEF ProceduresIn
<1>105. Distinct => n \notin DOMAIN ft.map
  <2> SUFFICES ASSUME Distinct
               PROVE  n \notin DOMAIN ft.map
    OBVIOUS
  <2>1. Named("procedure", n) = {}
    <3>1. Fresh(n) \/ Named("procedure", n) = {}
      BY DEF ParseProcedure, Declarable
    <3>2. Fresh(n) => Named("procedure", n) = {}
      <4> SUFFICES ASSUME Fresh(n)
                   PROVE  Named("procedure", n) = {}
        OBVIOUS
      <4>1. PICK k \in DOMAIN ProcNames : /\ ProcNames[k] = n
              /\ k < k <=> Named("procedure", n) \cup Named("forward", n) # {}
        BY DEF Fresh
      <4>2. k \in Nat
        BY ConstantsAssumption
      <4> QED
        BY <4>1, <4>2
    <3> QED
      BY <3>1, <3>2
  <2>2. n # Root
    BY NamesAssumption
  <2>3. DOMAIN prog = 1 .. Len(prog)
    BY <1>3 DEF IsText, IsSeq
  <2> QED
    BY <1>4, <2>1, <2>2, <2>3 DEF Framed, Named, ProceduresIn
<1>11. Scoped(prog', Append(open, e), ft', heap', phase)
  <2>1. Kept(PushFrame(ft, prog'[e.item].name), ft', Len(heap'))
    BY <1>9, <1>10
  <2>2. IsOpen(prog', Append(open, e))
    BY <1>1, <1>3
  <2> HIDE DEF v
  <2> QED
    BY <1>3, <1>4, <1>8, <1>10, <1>105, <2>1, <2>2, PushStep
<1> QED
  BY <1>1, <1>11 DEF FramesKept

LEMMA ParseForwardFrames ==
  ASSUME TextInv, TextInv', Scoped(prog, open, ft, heap, phase),
         NEW n \in Range(ProcNames), NEW decs, NEW r, ParseForward(n, decs, r)
  PROVE  FramesKept
<1> DEFINE it == Heading("forward", n, Here, decs, r)
           x  == Symbol("fwd", Here, n)
<1>1. /\ phase = "parse" /\ phase' = phase /\ prog' = Append(prog, it) /\ open' = open
      /\ ft' = Put(ft, n, Len(heap) + 1) /\ heap' = Append(heap, x)
  BY DEF ParseForward, Parsing, Parsed
<1>2. it.op = "forward" /\ it.name = n /\ it.block = Top(open)
  BY DEF Heading, Here, Inner, Top
<1>3. IsSymbol(x)
  BY SymbolIs
<1> HIDE DEF it, x
<1>4. /\ IsText(prog) /\ IsOpen(prog, open) /\ Extends(prog, prog')
      /\ prog'[pc + 1] = it
      /\ ProceduresIn(prog') \subseteq ProceduresIn(prog)
      /\ \A i \in HeadingsIn(prog') : i \in HeadingsIn(prog) \/ i = pc + 1
  BY <1>1, <1>2, ParsingText
<1>5. /\ IsTable(ft) /\ ft.current \in 1 .. Len(ft.tables)
      /\ Len(heap) \in Nat /\ Held(ft, Len(heap)) /\ Symbols(heap)
  BY <1>4, ScopedFacts
<1>6. Symbols(heap') /\ Len(heap') = Len(heap) + 1
  BY <1>1, <1>3, <1>5, SymbolsAppend
<1>7. Kept(ft, ft', Len(heap')) /\ n \in DOMAIN ft'.tables[ft.current].syms
  BY <1>1, <1>5, <1>6, PutKept
<1>9. \A i \in HeadingsIn(prog') \ HeadingsIn(prog) :
         prog'[i].block = Top(open) /\ prog'[i].name \in DOMAIN ft'.tables[ft.current].syms
  BY <1>2, <1>4, <1>7
<1>8. Scoped(prog', open', ft', heap', phase')
  <2>1. Len(open') = Len(open) /\ \A k \in 1 .. Len(open) : open'[k].item = open[k].item
    BY <1>1
  <2>2. phase' = phase \/ Len(open) = 1
    BY <1>1
  <2> QED
    BY <1>4, <1>6, <1>7, <1>9, <2>1, <2>2, StayStep, ZenonT(30)
<1> QED
  BY <1>8 DEF FramesKept

LEMMA ParseEndProcedureFrames ==
  ASSUME TextInv, TextInv', Scoped(prog, open, ft, heap, phase), ParseEndProcedure
  PROVE  FramesKept
<1> DEFINE n  == prog[Here].name
           it == Item("end", n, Here)
           x  == Symbol("fwd", prog[Here].block, n)
           v  == PopFrame(ft)
<1>1. /\ phase = "parse" /\ phase' = phase /\ prog' = Append(prog, it) /\ Len(open) # 1
      /\ open' = SubSeq(open, 1, Len(open) - 1)
      /\ ft' = Put(v, n, Len(heap) + 1) /\ heap' = Append(heap, x)
  BY DEF ParseEndProcedure, Parsing, Parsed, InModule, Left
<1>2. it.op = "end" /\ n = prog[Top(open)].name
  BY DEF Item, Heading, Here, Inner, Top
<1>3. IsSymbol(x)
  BY SymbolIs
<1> HIDE DEF it, x, n
<1>4. /\ IsText(prog) /\ IsOpen(prog, open) /\ Extends(prog, prog')
      /\ HeadingsIn(prog') \subseteq HeadingsIn(prog)
  BY <1>1, <1>2, ParsingText
<1>5. /\ Len(heap) \in Nat /\ Symbols(heap) /\ Kept(ft, ft, Len(heap))
      /\ Framed(prog, open, ft)
  BY <1>4, ScopedFacts DEF Scoped
<1>6. IsTable(v) /\ Held(v, Len(heap)) /\ v.current \in 1 .. Len(v.tables)
  BY <1>1, <1>4, <1>5, PopReady
<1>7. Symbols(heap') /\ Len(heap') = Len(heap) + 1
  BY <1>1, <1>3, <1>5, SymbolsAppend
<1>8. Kept(v, ft', Len(heap')) /\ n \in DOMAIN ft'.tables[v.current].syms
  BY <1>1, <1>5, <1>6, <1>7, PutKept
<1> HIDE DEF v
<1>9. Scoped(prog', SubSeq(open, 1, Len(open) - 1), ft', heap', phase)
  BY <1>1, <1>2, <1>4, <1>5, <1>7, <1>8, PopStep DEF v
<1> QED
  BY <1>1, <1>9 DEF FramesKept

LEMMA ParserFrames ==
  ASSUME TextInv, TextInv', Scoped(prog, open, ft, heap, phase), Parser
  PROVE  FramesKept
<1>1. ASSUME NEW n \in Range(ProcNames), NEW decs \in DecsOf(Kinds), NEW r \in Results,
             ParseProcedure(n, decs, r)
      PROVE  FramesKept
  BY <1>1, ParseProcedureFrames
<1>2. ASSUME NEW n \in Range(ProcNames), NEW decs \in DecsOf(Kinds \cap {"value", "VAR"}),
             NEW r \in Results, ParseForward(n, decs, r)
      PROVE  FramesKept
  BY <1>2, ParseForwardFrames
<1>3. CASE ParseBegin
  <2> DEFINE it == Item("begin", NoName, Here)
  <2>1. /\ phase = "parse" /\ phase' = phase /\ prog' = Append(prog, it)
        /\ open' = InStatements /\ heap' = heap /\ ft' = ft
    BY <1>3 DEF ParseBegin, Parsing, Parsed
  <2>2. it.op = "begin"
    BY DEF Item, Heading
  <2>3. Len(open') = Len(open) /\ \A k \in 1 .. Len(open) : open'[k].item = open[k].item
    <3> DEFINE r == [open EXCEPT ![Len(open)].stats = TRUE]
    <3>1. Len(open) \in Nat /\ open = [k \in 1 .. Len(open) |-> open[k]]
      BY <2>1 DEF TextInv, Writing, IsOpen, IsSeq
    <3>2. r = [k \in 1 .. Len(open) |-> r[k]]
      BY <3>1
    <3>3. Len(r) = Len(open)
      BY <3>1, <3>2, LenOfDomain
    <3>4. \A k \in 1 .. Len(open) : r[k].item = open[k].item
      BY <3>1
    <3> QED
      BY <2>1, <3>3, <3>4 DEF InStatements
  <2> HIDE DEF it
  <2> QED
    BY <2>1, <2>2, <2>3, ParseInsideFrames
<1>4. ASSUME NEW n \in Vars, ParseUse(n)
      PROVE  FramesKept
  <2> DEFINE it == Item("use", n, Here)
  <2>1. /\ phase = "parse" /\ phase' = phase /\ prog' = Append(prog, it)
        /\ open' = open /\ heap' = heap /\ ft' = MarkFree(ft, n)
    BY <1>4 DEF ParseUse, ParseStatement, Parsing, Parsed
  <2>2. it.op = "use" /\ n \in Idents
    BY DEF Item, Heading, Idents
  <2> HIDE DEF it
  <2> QED
    BY <2>1, <2>2, ParseInsideFrames
<1>5. ASSUME NEW n \in Range(ProcNames), NEW a \in Arguments, ParseCall(n, a)
      PROVE  FramesKept
  <2> DEFINE it == [Item("call", n, Here) EXCEPT !.arg = a]
  <2>1. /\ phase = "parse" /\ phase' = phase /\ prog' = Append(prog, it)
        /\ open' = open /\ heap' = heap
        /\ ft' = ft \/ (a \in Idents /\ ft' = MarkFree(ft, a))
    BY <1>5 DEF ParseCall, ParseStatement, Parsing, Parsed, Arguments, Idents
  <2>2. it.op = "call"
    BY DEF Item, Heading
  <2> HIDE DEF it
  <2> QED
    BY <2>1, <2>2, ParseInsideFrames
<1>6. ASSUME NEW r \in BOOLEAN, ParseReturn(r)
      PROVE  FramesKept
  <2> DEFINE it == [Item("return", NoName, Here) EXCEPT !.result = r]
  <2>1. /\ phase = "parse" /\ phase' = phase /\ prog' = Append(prog, it)
        /\ open' = open /\ heap' = heap /\ ft' = ft
    BY <1>6 DEF ParseReturn, ParseStatement, Parsing, Parsed
  <2>2. it.op = "return"
    BY DEF Item, Heading
  <2> HIDE DEF it
  <2> QED
    BY <2>1, <2>2, ParseInsideFrames
<1>7. CASE ParseEndProcedure
  BY <1>7, ParseEndProcedureFrames
<1>8. CASE ParseEndModule
  <2> DEFINE it == Item("end", NoName, Here)
  <2>1. /\ phase = "parse" /\ Len(open) = 1 /\ prog' = Append(prog, it)
        /\ open' = OnlyModule /\ heap' = heap /\ ft' = ft
    BY <1>8 DEF ParseEndModule, Parsing, InModule
  <2>2. it.op = "end"
    BY DEF Item, Heading
  <2>3. Len(open') = 1 /\ open'[1].item = open[1].item
    BY <2>1 DEF OnlyModule, TextInv, Writing, IsOpen
  <2> HIDE DEF it
  <2> QED
    BY <2>1, <2>2, <2>3, ParseInsideFrames
<1> QED
  BY <1>1, <1>2, <1>3, <1>4, <1>5, <1>6, <1>7, <1>8 DEF Parser

(* The inspector and the generator, over a text that is complete.          *)

LEMMA WalkingText ==
  ASSUME TextInv, TextInv', phase # "parse", prog' = prog
  PROVE  /\ IsText(prog) /\ IsOpen(prog, open) /\ IsOpen(prog, open') /\ IsOpen(prog', open')
         /\ pc \in 1 .. Len(prog)
         /\ Top(open) = (IF pc = 1 THEN 1 ELSE prog[pc].block)
         /\ Extends(prog, prog')
         /\ ProceduresIn(prog') \subseteq ProceduresIn(prog)
         /\ HeadingsIn(prog') \subseteq HeadingsIn(prog)
         /\ HeadingsIn(prog') \ HeadingsIn(prog) = {}
<1>1. Walking(prog, pc, open)
  BY DEF TextInv
<1>2. IsOpen(prog', open')
  BY DEF TextInv, Writing, Walking
<1> QED
  BY <1>1, <1>2, ExtendsSelf DEF Walking

(* The names in the item that the pass is at. *)
LEMMA NamesHere ==
  ASSUME IsText(prog), pc \in 1 .. Len(prog)
  PROVE  /\ prog[pc].op \in {"procedure", "forward", "call", "use"} => Name \in Idents
         /\ prog[pc].arg # NoName => prog[pc].arg \in Idents
         /\ DOMAIN prog[pc].decs \subseteq Idents
<1>1. ItemOK(prog[pc])
  BY DEF IsText
<1> QED
  BY <1>1 DEF ItemOK, Idents, Name

LEMMA InnerName ==
  ASSUME IsText(prog), IsOpen(prog, open), Len(open) # 1
  PROVE  prog[Here].name \in Idents /\ Here \in ProceduresIn(prog)
<1>1. Top(open) \in 1 .. Len(prog) /\ prog[Top(open)].op = "procedure"
  BY TopIsBlock
<1>2. ItemOK(prog[Top(open)])
  BY <1>1 DEF IsText
<1> QED
  BY <1>1, <1>2 DEF ItemOK, Idents, Here, Inner, Top, ProceduresIn

(* The handlers that stay in their block. *)
LEMMA PassInsideFrames ==
  ASSUME TextInv, TextInv', Scoped(prog, open, ft, heap, phase),
         phase # "parse", prog' = prog,
         Len(open') = Len(open), \A k \in 1 .. Len(open) : open'[k].item = open[k].item,
         phase' = phase \/ phase' # "parse",
         Kept(ft, ft', Len(heap')), Symbols(heap')
  PROVE  FramesKept
<1>1. /\ IsText(prog) /\ IsOpen(prog, open) /\ Extends(prog, prog')
      /\ ProceduresIn(prog') \subseteq ProceduresIn(prog)
      /\ HeadingsIn(prog') \ HeadingsIn(prog) = {}
  BY WalkingText
<1>2. Scoped(prog', open', ft', heap', phase)
  BY <1>1, StayStep
<1> QED
  BY <1>2 DEF FramesKept, Scoped, HeadingsPut

LEMMA InspectProcedureFrames ==
  ASSUME TextInv, TextInv', Scoped(prog, open, ft, heap, phase), InspectProcedure
  PROVE  FramesKept
<1> DEFINE ns == SetToSeq(DOMAIN prog[pc].decs)
           m  == Len(heap) + 1
           u  == Put(MarkFree(ft, Name), Name, m)
           v  == PushFrame(u, Name)
           e  == [item |-> pc, sym |-> m, fn |-> Main, stats |-> FALSE]
           x  == ProcSymbol("proc", pc)
           new == TypedSymbols(ns, FALSE)
<1>1. /\ phase = "inspect" /\ phase' = phase /\ prog' = prog /\ prog[pc].op = "procedure"
      /\ open' = Append(open, e)
      /\ ft' = PutAll(v, ns, m) /\ heap' = Append(heap, x) \o new
  BY DEF InspectProcedure, Inspecting, At, Onward, Entered
<1>2. IsSymbol(x) /\ e.item = pc
  BY ProcSymbolIs
<1> HIDE DEF x, e
<1>3. /\ IsText(prog) /\ IsOpen(prog, open) /\ IsOpen(prog', open') /\ pc \in 1 .. Len(prog)
      /\ Extends(prog, prog')
      /\ ProceduresIn(prog') \subseteq ProceduresIn(prog)
      /\ HeadingsIn(prog') \ HeadingsIn(prog) = {}
  BY <1>1, WalkingText
<1>4. /\ IsTable(ft) /\ Len(heap) \in Nat /\ Symbols(heap) /\ Held(ft, Len(heap))
      /\ ft.current \in 1 .. Len(ft.tables)
      /\ Framed(prog, open, ft)
  BY <1>3, ScopedFacts DEF Scoped
<1>5. Name \in Idents /\ DOMAIN prog[pc].decs \subseteq Idents
  BY <1>1, <1>3, NamesHere
<1>6. IsSeq(ns)
  BY <1>5, InOrder
<1>7. Symbols(new) /\ Len(new) = Len(ns)
  BY <1>6, TypedAre
<1> HIDE DEF new, ns
<1>8. Kept(ft, u, m) /\ m \in Nat
  <2> DEFINE w == MarkFree(ft, Name)
  <2>1. Kept(ft, w, Len(heap))
    BY <1>4, <1>5, MarkKept
  <2>2. IsTable(w) /\ Held(w, Len(heap)) /\ w.current \in 1 .. Len(w.tables)
    BY <1>4, <2>1 DEF Kept, SameFrames
  <2> HIDE DEF w
  <2>3. Kept(w, Put(w, Name, m), m)
    BY <1>4, <2>2, PutKept
  <2> QED
    BY <1>4, <2>1, <2>3, KeptTrans DEF w
<1> HIDE DEF u
<1>9. IsTable(v) /\ Held(v, m) /\ v.current \in 1 .. Len(v.tables)
  BY <1>4, <1>8, PushReady
<1>10. Symbols(heap') /\ Len(heap') = m + Len(ns)
  <2>1. Symbols(Append(heap, x)) /\ Len(Append(heap, x)) = m
    BY <1>2, <1>4, SymbolsAppend
  <2> QED
    BY <1>1, <1>7, <2>1, SymbolsJoin
<1> HIDE DEF m
<1>11. Kept(v, ft', Len(heap'))
  BY <1>1, <1>6, <1>8, <1>9, <1>10, PutAllKept
<1>12. /\ e.item \in ProceduresIn(prog') /\ prog'[e.item].name = Name
  BY <1>1, <1>2, <1>3 DEF ProceduresIn, Name
<1>13. Scoped(prog', Append(open, e), ft', heap', phase)
  <2>1. Kept(PushFrame(u, prog'[e.item].name), ft', Len(heap'))
    BY <1>11, <1>12
  <2>2. IsOpen(prog', Append(open, e))
    BY <1>1, <1>3
  <2> HIDE DEF v
  <2> QED
    BY <1>3, <1>8, <1>10, <1>12, <2>1, <2>2, PushStep
<1> QED
  BY <1>1, <1>13 DEF FramesKept

LEMMA InspectEndProcedureFrames ==
  ASSUME TextInv, TextInv', Scoped(prog, open, ft, heap, phase), InspectEndProcedure
  PROVE  FramesKept
<1> DEFINE caps == {n \in FreeVariables(ft) \ {prog[Here].name} :
                      ~SymbolOf(ft, n).global /\ SymbolOf(ft, n).kind # "const"}
           closed == [heap EXCEPT ![Inner.sym].caps = caps]
           x == Symbol("closure", Here, ClosureArg)
<1>1. /\ phase = "inspect" /\ phase' = phase /\ prog' = prog /\ Len(open) # 1
      /\ open' = SubSeq(open, 1, Len(open) - 1)
      /\ IF caps = {}
           THEN ft' = PopFrame(ft) /\ heap' = heap
           ELSE /\ ft' = PopFrame(Put(ft, ClosureArg, Len(heap) + 1))
                /\ heap' = Append(closed, x)
  BY DEF InspectEndProcedure, Inspecting, InModule, Onward, Left
<1>2. /\ IsText(prog) /\ IsOpen(prog, open) /\ Extends(prog, prog')
      /\ HeadingsIn(prog') \subseteq HeadingsIn(prog)
  BY <1>1, WalkingText
<1>3. /\ IsTable(ft) /\ Len(heap) \in Nat /\ Symbols(heap) /\ Held(ft, Len(heap))
      /\ ft.current \in 1 .. Len(ft.tables) /\ Kept(ft, ft, Len(heap))
      /\ Framed(prog, open, ft)
  BY <1>2, ScopedFacts DEF Scoped
<1>4. caps \subseteq Idents
  BY <1>3 DEF FreeVariables, Held
<1> HIDE DEF caps
<1>5. Symbols(closed) /\ Len(closed) = Len(heap)
  <2>1. heap = [h \in 1 .. Len(heap) |-> heap[h]]
    BY <1>3 DEF Symbols, IsSeq
  <2>2. closed = [h \in 1 .. Len(heap) |-> closed[h]]
    BY <2>1
  <2>3. Len(closed) = Len(heap)
    BY <1>3, <2>2, LenOfDomain
  <2>4. ASSUME NEW h \in 1 .. Len(heap)
        PROVE  closed[h] = heap[h] \/ closed[h] = WithCaps(heap[h], caps)
    BY <2>1 DEF WithCaps
  <2>5. \A h \in 1 .. Len(heap) : IsSymbol(closed[h])
    BY <1>3, <1>4, <2>4, SymbolWith DEF Symbols
  <2> HIDE DEF closed
  <2> QED
    BY <1>3, <2>2, <2>3, <2>5 DEF Symbols, IsSeq
<1> HIDE DEF closed
<1>6. \E u : /\ Kept(ft, u, Len(heap')) /\ Symbols(heap') /\ ft' = PopFrame(u)
  <2>1. CASE caps = {}
    BY <1>1, <1>3, <2>1
  <2>2. CASE caps # {}
    <3>0. IsSymbol(x)
      BY SymbolIs
    <3>1. Symbols(heap') /\ Len(heap') = Len(heap) + 1
      <4> HIDE DEF x
      <4> QED
        BY <1>1, <1>5, <2>2, <3>0, SymbolsAppend
    <3>2. Kept(ft, Put(ft, ClosureArg, Len(heap) + 1), Len(heap'))
      BY <1>3, <3>1, PutKept
    <3> QED
      BY <1>1, <2>2, <3>1, <3>2
  <2> QED
    BY <2>1, <2>2
<1>7. PICK u : /\ Kept(ft, u, Len(heap')) /\ Symbols(heap') /\ ft' = PopFrame(u)
  BY <1>6
<1>8. Kept(PopFrame(u), ft', Len(heap'))
  <2>1. IsTable(PopFrame(u)) /\ Held(PopFrame(u), Len(heap'))
    BY <1>1, <1>2, <1>3, <1>7, PopReady
  <2> QED
    BY <1>7, <2>1, SameKept
<1>9. Scoped(prog', SubSeq(open, 1, Len(open) - 1), ft', heap', phase)
  BY <1>1, <1>2, <1>7, <1>8, PopStep
<1> QED
  BY <1>1, <1>9 DEF FramesKept

LEMMA InspectorFrames ==
  ASSUME TextInv, TextInv', Scoped(prog, open, ft, heap, phase), Inspector
  PROVE  FramesKept
<1> DEFINE Inside == /\ Len(open') = Len(open)
                     /\ \A k \in 1 .. Len(open) : open'[k].item = open[k].item
                     /\ phase' # "parse"
                     /\ Kept(ft, ft', Len(heap')) /\ Symbols(heap')
<1>1. phase = "inspect" /\ prog' = prog
  BY DEF Inspector, Inspecting, InspectModule, InspectProcedure, InspectForward, InspectBegin,
         InspectUse, InspectCall, InspectReturn, InspectEndProcedure, InspectEndModule
<1>2. /\ IsText(prog) /\ IsOpen(prog, open) /\ pc \in 1 .. Len(prog)
  BY <1>1, WalkingText
<1>3. /\ IsTable(ft) /\ Len(heap) \in Nat /\ Symbols(heap) /\ Held(ft, Len(heap))
      /\ ft.current \in 1 .. Len(ft.tables) /\ Kept(ft, ft, Len(heap))
  BY <1>2, ScopedFacts
<1>4. ASSUME NEW n \in Idents
      PROVE  Kept(ft, MarkFree(ft, n), Len(heap))
  BY <1>3, <1>4, MarkKept
<1>5. CASE InspectModule
  <2> DEFINE ns == SetToSeq(DOMAIN prog[pc].decs)
  <2>1. /\ phase' = phase /\ open' = open
        /\ ft' = PutAll(ft, ns, Len(heap)) /\ heap' = heap \o TypedSymbols(ns, TRUE)
    BY <1>5 DEF InspectModule, Onward
  <2>2. IsSeq(ns)
    BY <1>2, NamesHere, InOrder
  <2> HIDE DEF ns
  <2>3. Symbols(heap') /\ Len(heap') = Len(heap) + Len(ns)
    <3>1. Symbols(TypedSymbols(ns, TRUE)) /\ Len(TypedSymbols(ns, TRUE)) = Len(ns)
      BY <2>2, TypedAre
    <3> QED
      BY <1>3, <2>1, <3>1, SymbolsJoin
  <2>4. Kept(ft, ft', Len(heap'))
    BY <1>3, <2>1, <2>2, <2>3, PutAllKept
  <2>5. Inside
    BY <1>1, <2>1, <2>3, <2>4
  <2> QED
    BY <1>1, <2>5, PassInsideFrames
<1>6. CASE InspectForward
  <2> DEFINE x == ProcSymbol("fwd", pc)
             w == MarkFree(ft, Name)
  <2>1. /\ phase' = phase /\ open' = open /\ prog[pc].op = "forward"
        /\ ft' = Put(w, Name, Len(heap) + 1) /\ heap' = Append(heap, x)
    BY <1>6 DEF InspectForward, Inspecting, At, Onward
  <2>2. Kept(ft, w, Len(heap))
    BY <1>2, <1>4, <2>1, NamesHere
  <2>3. IsTable(w) /\ Held(w, Len(heap)) /\ w.current \in 1 .. Len(w.tables)
    BY <1>3, <2>2 DEF Kept, SameFrames
  <2>4. IsSymbol(x)
    BY ProcSymbolIs
  <2> HIDE DEF x, w
  <2>5. Symbols(heap') /\ Len(heap') = Len(heap) + 1
    BY <1>3, <2>1, <2>4, SymbolsAppend
  <2>6. Kept(w, ft', Len(heap'))
    BY <1>3, <2>1, <2>3, <2>5, PutKept
  <2>7. Kept(ft, ft', Len(heap'))
    BY <2>2, <2>6, KeptTrans
  <2>8. Inside
    BY <1>1, <2>1, <2>5, <2>7
  <2> QED
    BY <1>1, <2>8, PassInsideFrames
<1>7. CASE InspectBegin
  <2>1. /\ phase' = phase /\ open' = open /\ heap' = heap
        /\ ft' = ft \/ ft' = ResetFree(ft)
    BY <1>7 DEF InspectBegin, Onward
  <2>2. Kept(ft, ft', Len(heap'))
    BY <1>3, <2>1, ResetKept
  <2>3. Inside
    BY <1>1, <1>3, <2>1, <2>2
  <2> QED
    BY <1>1, <2>3, PassInsideFrames
<1>8. CASE InspectUse
  <2>1. /\ phase' = phase /\ open' = open /\ heap' = heap /\ prog[pc].op = "use"
        /\ ft' = MarkFree(ft, Name)
    BY <1>8 DEF InspectUse, Inspecting, At, Onward
  <2>2. Kept(ft, ft', Len(heap'))
    BY <1>2, <1>4, <2>1, NamesHere
  <2>3. Inside
    BY <1>1, <1>3, <2>1, <2>2
  <2> QED
    BY <1>1, <2>3, PassInsideFrames
<1>9. CASE InspectCall
  <2> DEFINE w == MarkFree(ft, Name)
  <2>1. /\ phase' = phase /\ open' = open /\ heap' = heap /\ prog[pc].op = "call"
        /\ \/ ft' = w
           \/ ft' = MarkFree(w, prog[pc].arg) /\ prog[pc].arg # NoName
    BY <1>9 DEF InspectCall, Inspecting, At, Onward
  <2>2. Kept(ft, w, Len(heap'))
    BY <1>2, <1>4, <2>1, NamesHere
  <2> HIDE DEF w
  <2>3. Kept(ft, ft', Len(heap'))
    <3>1. CASE ft' = w
      BY <2>2, <3>1
    <3>2. CASE ft' = MarkFree(w, prog[pc].arg) /\ prog[pc].arg # NoName
      <4>1. IsTable(w) /\ Held(w, Len(heap'))
        BY <2>2 DEF Kept
      <4>2. Kept(w, ft', Len(heap'))
        BY <1>2, <3>2, <4>1, NamesHere, MarkKept
      <4> QED
        BY <2>2, <4>2, KeptTrans
    <3> QED
      BY <2>1, <3>1, <3>2
  <2>4. Inside
    BY <1>1, <1>3, <2>1, <2>3
  <2> QED
    BY <1>1, <2>4, PassInsideFrames
<1>10. CASE InspectReturn
  <2>1. phase' = phase /\ open' = open /\ heap' = heap /\ ft' = ft
    BY <1>10 DEF InspectReturn, Onward
  <2>2. Inside
    BY <1>1, <1>3, <2>1
  <2> QED
    BY <1>1, <2>2, PassInsideFrames
<1>11. CASE InspectEndModule
  <2>1. /\ phase' \in {"failed", "generate"} /\ open' = OnlyModule /\ heap' = heap /\ ft' = ft
        /\ Len(open) = 1
    BY <1>11 DEF InspectEndModule, InModule
  <2>2. Len(open') = 1 /\ open'[1].item = open[1].item
    BY <1>2, <2>1 DEF OnlyModule, IsOpen
  <2>3. Inside
    BY <1>3, <2>1, <2>2
  <2> QED
    BY <1>1, <2>3, PassInsideFrames
<1> QED
  BY <1>5, <1>6, <1>7, <1>8, <1>9, <1>10, <1>11, InspectProcedureFrames,
     InspectEndProcedureFrames DEF Inspector

(* What the inspector put under the name of a procedure is found. *)
LEMMA HeadingFound ==
  ASSUME TextInv, Scoped(prog, open, ft, heap, phase), phase = "generate",
         prog[pc].op = "procedure"
  PROVE  Lookup(ft, Name) \in 1 .. Len(heap)
<1>1. IsText(prog) /\ IsOpen(prog, open) /\ pc \in 1 .. Len(prog)
  BY DEF TextInv, Walking
<1>2. pc # 1
  BY DEF IsText, TextInv, Walking
<1>3. Top(open) = prog[pc].block
  BY <1>2 DEF TextInv, Walking
<1>4. pc \in HeadingsIn(prog)
  BY <1>1 DEF HeadingsIn
<1>5. Name \in DOMAIN SymsOf(prog, ft, Top(open))
  BY <1>3, <1>4 DEF Scoped, HeadingsPut, Name
<1>6. Name \in DOMAIN ft.tables[ft.current].syms
  BY <1>1, <1>5, ScopedFacts DEF SymsOf
<1>7. WellLinked(ft)
  BY <1>1, ScopedFacts DEF WellLinked, Scoped, Framed, IsTable
<1>8. Lookup(ft, Name) = ft.tables[ft.current].syms[Name]
  BY <1>6, <1>7, FoundHere
<1> QED
  BY <1>1, <1>6, <1>8, ScopedFacts DEF Held

(* set_value in the generator; only a procedure has new symbols as well. *)
LEMMA GeneratorValues ==
  /\ GenerateModule \/ GenerateForward \/ GenerateEndProcedure => Revalued(heap, heap')
  /\ GenerateBegin => heap' = heap \/ Revalued(heap, heap')
  /\ GenerateProcedure =>
        \E G : /\ Revalued(heap, G)
               /\ LET caps == SetToSeq(heap[Lookup(ft, Name)].caps)
                      fn   == NestedName(Name)
                  IN  heap' = G \o [k \in DOMAIN caps |-> Captured(caps[k], fn)]
  /\ GenerateUse \/ GenerateCall \/ GenerateReturn \/ GenerateEndModule \/ Abort => heap' = heap
<1>1. ASSUME NEW G, G = [h \in DOMAIN heap |-> G[h]],
             \A h \in DOMAIN heap : G[h] = heap[h] \/ \E w : G[h] = [heap[h] EXCEPT !.value = w]
      PROVE  Revalued(heap, G)
  BY <1>1 DEF Revalued, WithValue
<1>2. ASSUME GenerateModule
      PROVE  Revalued(heap, heap')
  <2> DEFINE global(n) == Value("global", pc, n, Main)
             names == DOMAIN prog[pc].decs
  <2>1. heap' = [h \in DOMAIN heap |->
                   IF \E n \in names : Lookup(ft, n) = h
                     THEN [heap[h] EXCEPT !.value = global(CHOOSE n \in names : Lookup(ft, n) = h)]
                     ELSE heap[h]]
    BY <1>2 DEF GenerateModule, WithValues
  <2>2. heap' = [h \in DOMAIN heap |-> heap'[h]]
    BY <2>1
  <2>3. \A h \in DOMAIN heap :
         heap'[h] = heap[h] \/ \E w : heap'[h] = [heap[h] EXCEPT !.value = w]
    BY <2>1
  <2> QED
    BY <1>1, <2>2, <2>3
<1>3. ASSUME GenerateForward
      PROVE  Revalued(heap, heap')
  <2>1. heap' = [h \in DOMAIN heap |->
                   IF \E m \in {Name} : Lookup(ft, m) = h
                     THEN [heap[h] EXCEPT !.value =
                             Function(ForwardName(CHOOSE m \in {Name} : Lookup(ft, m) = h))]
                     ELSE heap[h]]
    BY <1>3 DEF GenerateForward, WithValues
  <2>2. heap' = [h \in DOMAIN heap |-> heap'[h]]
    BY <2>1
  <2>3. \A h \in DOMAIN heap :
         heap'[h] = heap[h] \/ \E w : heap'[h] = [heap[h] EXCEPT !.value = w]
    BY <2>1
  <2> QED
    BY <1>1, <2>2, <2>3
<1>4. ASSUME GenerateEndProcedure
      PROVE  Revalued(heap, heap')
  <2>1. heap' = [h \in DOMAIN heap |->
                   IF \E m \in {prog[Here].name} : Lookup(PopFrame(ft), m) = h
                     THEN [heap[h] EXCEPT !.value = Function(Inner.fn)]
                     ELSE heap[h]]
    BY <1>4 DEF GenerateEndProcedure, WithValues
  <2>2. heap' = [h \in DOMAIN heap |-> heap'[h]]
    BY <2>1
  <2>3. \A h \in DOMAIN heap :
         heap'[h] = heap[h] \/ \E w : heap'[h] = [heap[h] EXCEPT !.value = w]
    BY <2>1
  <2> QED
    BY <1>1, <2>2, <2>3
<1>5. ASSUME GenerateBegin
      PROVE  heap' = heap \/ Revalued(heap, heap')
  <2>1. CASE InModule
    BY <1>5, <2>1 DEF GenerateBegin
  <2>2. CASE ~InModule
    <3>1. heap' = [h \in DOMAIN heap |->
                     IF \E m \in {prog[Here].name} : Lookup(ft, m) = h
                       THEN [heap[h] EXCEPT !.value = Function(Inner.fn)]
                       ELSE heap[h]]
      BY <1>5, <2>2 DEF GenerateBegin, WithValues
    <3>2. heap' = [h \in DOMAIN heap |-> heap'[h]]
      BY <3>1
    <3>3. \A h \in DOMAIN heap :
           heap'[h] = heap[h] \/ \E w : heap'[h] = [heap[h] EXCEPT !.value = w]
      BY <3>1
    <3> QED
      BY <1>1, <3>2, <3>3
  <2> QED
    BY <2>1, <2>2
<1>6. ASSUME GenerateProcedure
      PROVE  \E G : /\ Revalued(heap, G)
                    /\ LET caps == SetToSeq(heap[Lookup(ft, Name)].caps)
                           fn   == NestedName(Name)
                       IN  heap' = G \o [k \in DOMAIN caps |-> Captured(caps[k], fn)]
  <2> DEFINE v == PushFrame(MarkFree(ft, Name), Name)
             alloca(n) == Value("alloca", pc, n, NestedName(Name))
             names == DOMAIN prog[pc].decs
             G == [h \in DOMAIN heap |->
                     IF \E n \in names : Lookup(v, n) = h
                       THEN [heap[h] EXCEPT !.value = alloca(CHOOSE n \in names : Lookup(v, n) = h)]
                       ELSE heap[h]]
             caps == SetToSeq(heap[Lookup(ft, Name)].caps)
  <2>1. heap' = G \o [k \in DOMAIN caps |-> Captured(caps[k], NestedName(Name))]
    BY <1>6 DEF GenerateProcedure, WithValues
  <2>2. G = [h \in DOMAIN heap |-> G[h]]
    OBVIOUS
  <2>3. \A h \in DOMAIN heap : G[h] = heap[h] \/ \E w : G[h] = [heap[h] EXCEPT !.value = w]
    OBVIOUS
  <2> HIDE DEF G
  <2>4. Revalued(heap, G)
    BY <1>1, <2>2, <2>3
  <2> QED
    BY <2>1, <2>4
<1>7. GenerateUse \/ GenerateCall \/ GenerateReturn \/ GenerateEndModule \/ Abort => heap' = heap
  BY DEF GenerateUse, GenerateCall, GenerateReturn, GenerateEndModule, Abort
<1> QED
  BY <1>2, <1>3, <1>4, <1>5, <1>6, <1>7

LEMMA GenerateProcedureFrames ==
  ASSUME TextInv, TextInv', Scoped(prog, open, ft, heap, phase), GenerateProcedure
  PROVE  FramesKept
<1> DEFINE sym  == Lookup(ft, Name)
           fn   == NestedName(Name)
           u    == MarkFree(ft, Name)
           v    == PushFrame(u, Name)
           caps == SetToSeq(heap[sym].caps)
           e    == [item |-> pc, sym |-> sym, fn |-> fn, stats |-> FALSE]
           new  == [k \in DOMAIN caps |-> Captured(caps[k], fn)]
<1>1. /\ phase = "generate" /\ phase' = phase /\ prog' = prog /\ prog[pc].op = "procedure"
      /\ open' = Append(open, e)
      /\ ft' = PutAll(v, caps, Len(heap))
      /\ \E G : Revalued(heap, G) /\ heap' = G \o new
  <2>1. \E G : Revalued(heap, G) /\ heap' = G \o new
    BY GeneratorValues
  <2>3. /\ phase = "generate" /\ phase' = phase /\ prog' = prog /\ prog[pc].op = "procedure"
        /\ open' = Append(open, e)
        /\ ft' = PutAll(v, caps, Len(heap))
    BY DEF GenerateProcedure, Generating, At, Onward, Entered
  <2> QED
    BY <2>1, <2>3
<1>2. PICK G : Revalued(heap, G) /\ heap' = G \o new
  BY <1>1
<1>3. e.item = pc
  OBVIOUS
<1> HIDE DEF e
<1>4. /\ IsText(prog) /\ IsOpen(prog, open) /\ IsOpen(prog', open') /\ pc \in 1 .. Len(prog)
      /\ Extends(prog, prog')
      /\ ProceduresIn(prog') \subseteq ProceduresIn(prog)
      /\ HeadingsIn(prog') \ HeadingsIn(prog) = {}
  BY <1>1, WalkingText
<1>5. /\ IsTable(ft) /\ Len(heap) \in Nat /\ Symbols(heap) /\ Held(ft, Len(heap))
      /\ Framed(prog, open, ft)
  BY <1>4, ScopedFacts DEF Scoped
<1>6. Name \in Idents
  BY <1>1, <1>4, NamesHere
<1>7. IsSeq(caps)
  <2>1. IsSymbol(heap[sym])
    BY <1>1, <1>5, HeadingFound DEF Symbols
  <2> QED
    BY <2>1, InOrder DEF IsSymbol
<1>8. Symbols(new) /\ Len(new) = Len(caps)
  BY <1>7, CapturedAre
<1> HIDE DEF new, caps
<1>9. Kept(ft, u, Len(heap))
  BY <1>5, <1>6, MarkKept
<1> HIDE DEF u
<1>10. IsTable(v) /\ Held(v, Len(heap)) /\ v.current \in 1 .. Len(v.tables)
  BY <1>5, <1>9, PushReady
<1>11. Symbols(heap') /\ Len(heap') = Len(heap) + Len(caps)
  BY <1>2, <1>5, <1>8, SymbolsRevalued, SymbolsJoin
<1>12. Kept(v, ft', Len(heap'))
  BY <1>1, <1>5, <1>7, <1>10, <1>11, PutAllKept
<1>13. e.item \in ProceduresIn(prog') /\ prog'[e.item].name = Name
  BY <1>1, <1>3, <1>4 DEF ProceduresIn, Name
<1>14. Scoped(prog', Append(open, e), ft', heap', phase)
  <2>1. Kept(PushFrame(u, prog'[e.item].name), ft', Len(heap'))
    BY <1>12, <1>13
  <2>2. IsOpen(prog', Append(open, e))
    BY <1>1, <1>4
  <2> HIDE DEF v
  <2> QED
    BY <1>4, <1>9, <1>11, <1>13, <2>1, <2>2, PushStep
<1> QED
  BY <1>1, <1>14 DEF FramesKept

LEMMA GenerateEndProcedureFrames ==
  ASSUME TextInv, TextInv', Scoped(prog, open, ft, heap, phase), GenerateEndProcedure
  PROVE  FramesKept
<1> DEFINE n == prog[Here].name
           v == PopFrame(ft)
<1>1. /\ phase = "generate" /\ phase' = phase /\ prog' = prog /\ Len(open) # 1
      /\ open' = SubSeq(open, 1, Len(open) - 1)
      /\ ft' = MarkFree(v, n)
  BY DEF GenerateEndProcedure, Generating, InModule, Onward, Left
<1>2. Revalued(heap, heap')
  BY GeneratorValues
<1>3. /\ IsText(prog) /\ IsOpen(prog, open) /\ Extends(prog, prog')
      /\ HeadingsIn(prog') \subseteq HeadingsIn(prog)
  BY <1>1, WalkingText
<1>4. /\ Symbols(heap) /\ Kept(ft, ft, Len(heap)) /\ Framed(prog, open, ft)
  BY <1>3, ScopedFacts DEF Scoped
<1>5. Symbols(heap') /\ Len(heap') = Len(heap)
  BY <1>2, <1>4, SymbolsRevalued
<1>6. n \in Idents
  BY <1>1, <1>3, InnerName
<1>7. IsTable(v) /\ Held(v, Len(heap))
  BY <1>1, <1>3, <1>4, PopReady
<1> HIDE DEF n
<1>8. Kept(PopFrame(ft), ft', Len(heap'))
  BY <1>1, <1>5, <1>6, <1>7, MarkKept
<1>9. Scoped(prog', SubSeq(open, 1, Len(open) - 1), ft', heap', phase)
  BY <1>1, <1>3, <1>4, <1>5, <1>8, PopStep
<1> QED
  BY <1>1, <1>9 DEF FramesKept

LEMMA GeneratorFrames ==
  ASSUME TextInv, TextInv', Scoped(prog, open, ft, heap, phase), Generator
  PROVE  FramesKept
<1>1. phase = "generate" /\ prog' = prog
  BY DEF Generator, Generating, GenerateModule, GenerateProcedure, GenerateForward, GenerateBegin,
         GenerateUse, GenerateCall, GenerateReturn, GenerateEndProcedure, GenerateEndModule, Abort
<1>2. /\ IsText(prog) /\ IsOpen(prog, open) /\ pc \in 1 .. Len(prog)
  BY <1>1, WalkingText
<1>3. /\ IsTable(ft) /\ Symbols(heap) /\ Held(ft, Len(heap)) /\ Kept(ft, ft, Len(heap))
  BY <1>2, ScopedFacts
<1>4. ASSUME phase' # "parse", open' = open,
             heap' = heap \/ Revalued(heap, heap'),
             ft' = ft \/ \E n \in Idents : ft' = MarkFree(ft, n)
      PROVE  FramesKept
  <2>1. Symbols(heap') /\ Len(heap') = Len(heap)
    BY <1>3, <1>4, SymbolsRevalued
  <2>2. Kept(ft, ft', Len(heap'))
    BY <1>3, <1>4, <2>1, MarkKept
  <2> QED
    BY <1>1, <1>4, <2>1, <2>2, PassInsideFrames
<1>5. CASE GenerateModule
  <2>4. Revalued(heap, heap')
    BY <1>5, GeneratorValues
  <2>5. phase' = phase /\ open' = open /\ ft' = ft
    BY <1>5 DEF GenerateModule, Onward
  <2> QED
    BY <1>1, <1>4, <2>4, <2>5
<1>6. CASE GenerateForward
  <2>4. Revalued(heap, heap')
    BY <1>6, GeneratorValues
  <2>5. /\ phase' = phase /\ open' = open /\ ft' = MarkFree(ft, Name) /\ prog[pc].op = "forward"
    BY <1>6 DEF GenerateForward, Generating, At, Onward
  <2>6. Name \in Idents
    BY <1>2, <2>5, NamesHere
  <2> QED
    BY <1>1, <1>4, <2>4, <2>5, <2>6
<1>7. CASE GenerateBegin
  <2>1. phase' = phase /\ open' = open
    BY <1>7 DEF GenerateBegin, Onward
  <2>2. CASE InModule
    BY <1>1, <1>4, <1>7, <2>1, <2>2 DEF GenerateBegin
  <2>3. CASE ~InModule
    <3>4. heap' = heap \/ Revalued(heap, heap')
      BY <1>7, GeneratorValues
    <3>5. ft' = MarkFree(ft, prog[Here].name)
      BY <1>7, <2>3 DEF GenerateBegin
    <3>6. prog[Here].name \in Idents
      BY <1>2, <2>3, InnerName DEF InModule
    <3> QED
      BY <1>1, <1>4, <2>1, <3>4, <3>5, <3>6
  <2> QED
    BY <2>2, <2>3
<1>8. CASE GenerateUse
  <2>1. /\ phase' = phase /\ open' = open /\ heap' = heap /\ ft' = MarkFree(ft, Name)
        /\ prog[pc].op = "use"
    BY <1>8 DEF GenerateUse, Generating, At, Onward
  <2>2. Name \in Idents
    BY <1>2, <2>1, NamesHere
  <2> QED
    BY <1>1, <1>4, <2>1, <2>2
<1>9. CASE GenerateCall
  <2>1. /\ phase' = phase /\ open' = open /\ heap' = heap /\ ft' = MarkFree(ft, Name)
        /\ prog[pc].op = "call"
    BY <1>9 DEF GenerateCall, Generating, At, Onward
  <2>2. Name \in Idents
    BY <1>2, <2>1, NamesHere
  <2> QED
    BY <1>1, <1>4, <2>1, <2>2
<1>10. CASE GenerateReturn
  <2>1. phase' = phase /\ open' = open /\ heap' = heap /\ ft' = ft
    BY <1>10 DEF GenerateReturn, Onward
  <2> QED
    BY <1>1, <1>4, <2>1
<1>11. CASE GenerateEndModule
  <2>1. phase' = "done" /\ open' = open /\ heap' = heap /\ ft' = ft
    BY <1>11 DEF GenerateEndModule
  <2> QED
    BY <1>4, <2>1
<1>12. CASE Abort
  <2>1. phase' = "aborted" /\ open' = open /\ heap' = heap /\ ft' = ft
    BY <1>12 DEF Abort
  <2> QED
    BY <1>4, <2>1
<1> QED
  BY <1>5, <1>6, <1>7, <1>8, <1>9, <1>10, <1>11, <1>12, GenerateProcedureFrames,
     GenerateEndProcedureFrames DEF Generator

-----------------------------------------------------------------------------
(* Type correctness, whatever the procedures are called.                   *)

MiscInv ==
    /\ last_proc \in {0} \cup 1 .. Len(prog)
    /\ errors \in BOOLEAN
    /\ phase = "parse" => ~errors
    /\ phase \in {"generate", "done", "aborted"} => ~errors

LEMMA MiscStep == TextInv /\ TextInv' /\ MiscInv /\ [Next]_vars => MiscInv'
<1> SUFFICES ASSUME TextInv, TextInv', MiscInv, [Next]_vars
             PROVE  MiscInv'
  OBVIOUS
<1>1. CASE Parser
  <2>1. last_proc' = last_proc /\ errors' = errors /\ phase = "parse" /\ phase' \in {"parse", "inspect"}
    BY <1>1 DEF Parser, ParseProcedure, ParseForward, ParseBegin, ParseUse, ParseCall, ParseReturn,
                ParseStatement, ParseEndProcedure, ParseEndModule, Parsing
  <2>2. PICK it : prog' = Append(prog, it)
    BY <1>1, ParserSteps DEF ParserStep
  <2>3. Len(prog) \in Nat /\ Len(prog') = Len(prog) + 1
    BY <2>1, <2>2, Appended DEF TextInv, Writing, IsText, IsSeq
  <2> QED
    BY <2>1, <2>3 DEF MiscInv
<1>2. CASE Inspector
  <2>1. phase = "inspect" /\ prog' = prog
    BY <1>2 DEF Inspector, Inspecting, InspectModule, InspectProcedure, InspectForward,
                InspectBegin, InspectUse, InspectCall, InspectReturn, InspectEndProcedure,
                InspectEndModule
  <2>2. pc \in 1 .. Len(prog)
    BY <2>1 DEF TextInv, Walking
  <2>3. last_proc' \in {0, pc, last_proc} /\ errors' \in BOOLEAN
    <3> USE DEF MiscInv
    <3>1. CASE InspectModule
      BY <3>1 DEF InspectModule
    <3>2. CASE InspectProcedure
      BY <3>2 DEF InspectProcedure
    <3>3. CASE InspectForward
      BY <3>3 DEF InspectForward
    <3>4. CASE InspectBegin
      BY <3>4 DEF InspectBegin
    <3>5. CASE InspectUse
      BY <3>5 DEF InspectUse
    <3>6. CASE InspectCall
      BY <3>6 DEF InspectCall
    <3>7. CASE InspectReturn
      BY <3>7 DEF InspectReturn
    <3>8. CASE InspectEndProcedure
      BY <3>8 DEF InspectEndProcedure
    <3>9. CASE InspectEndModule
      BY <3>9 DEF InspectEndModule
    <3> QED
      BY <1>2, <3>1, <3>2, <3>3, <3>4, <3>5, <3>6, <3>7, <3>8, <3>9 DEF Inspector
  <2>4. \/ phase' = "inspect"
        \/ /\ phase' = IF errors THEN "failed" ELSE "generate"
           /\ errors' = errors
    BY <1>2, <2>1 DEF Inspector, InspectModule, InspectProcedure, InspectForward, InspectBegin,
                InspectUse, InspectCall, InspectReturn, InspectEndProcedure, InspectEndModule, Onward
  <2> QED
    BY <2>1, <2>2, <2>3, <2>4 DEF MiscInv
<1>3. CASE Generator
  <2>1. phase = "generate" /\ prog' = prog /\ last_proc' = last_proc /\ errors' = errors
    BY <1>3 DEF Generator, Generating, GenerateModule, GenerateProcedure, GenerateForward,
                GenerateBegin, GenerateUse, GenerateCall, GenerateReturn, GenerateEndProcedure,
                GenerateEndModule, Abort
  <2>2. phase' # "parse"
    BY <1>3, PassSteps DEF PassStep
  <2> QED
    BY <2>1, <2>2 DEF MiscInv
<1>4. CASE UNCHANGED vars
  BY <1>4 DEF vars, MiscInv
<1> QED
  BY <1>1, <1>2, <1>3, <1>4 DEF Next

FrameInv == Scoped(prog, open, ft, heap, phase) /\ MiscInv

LEMMA FrameInit == Init => FrameInv
<1> SUFFICES ASSUME Init
             PROVE  FrameInv
  OBVIOUS
<1>1. TextInv
  BY TextInit
<1>2. PICK decs \in DecsOf(Kinds \cap {"var", "const"}) :
         /\ phase = "parse"
         /\ prog = << Heading("module", NoName, 0, decs, FALSE) >>
         /\ open = OnlyModule
         /\ heap = UntypedSymbols(SetToSeq(DOMAIN decs), decs, 1)
         /\ ft = PutAll(EmptyFrameTable, SetToSeq(DOMAIN decs), 0)
         /\ last_proc = 0 /\ errors = FALSE
  BY DEF Init
<1> DEFINE ns == SetToSeq(DOMAIN decs)
           s  == EmptyFrameTable
<1>3. IsSeq(ns) /\ Len(ns) \in Nat
  <2>1. DOMAIN decs \subseteq Idents
    BY DEF DecsOf, Idents
  <2> QED
    BY <2>1, InOrder DEF IsSeq
<1>4. Symbols(heap) /\ Len(heap) = Len(ns)
  BY <1>2, <1>3, UntypedAre
<1>5. Len(prog) = 1 /\ prog[1].op = "module" /\ Len(open) = 1 /\ open[1].item = 1
  BY <1>2 DEF Heading, OnlyModule
<1>6. ProceduresIn(prog) = {} /\ HeadingsIn(prog) = {}
  BY <1>5 DEF ProceduresIn, HeadingsIn
<1> HIDE DEF ns
<1>7. /\ s.tables = << NewTable(0) >> /\ s.map = [f \in {Root} |-> 1]
      /\ s.stack = << 1 >> /\ s.current = 1
      /\ s = [tables |-> s.tables, map |-> s.map, stack |-> s.stack, current |-> s.current]
  BY DEF EmptyFrameTable
<1> HIDE DEF s
<1>8. Len(s.tables) = 1 /\ DOMAIN s.tables = 1 .. 1 /\ s.tables[1] = NewTable(0)
  BY <1>7
<1>9. IsTable(s)
  BY <1>7, <1>8 DEF IsTable
<1>10. Framed(prog, open, s)
  <2>1. s.tables[1].next = 0
    BY <1>8 DEF NewTable
  <2>2. IsSeq(s.stack) /\ Len(s.stack) = 1 /\ s.stack[1] = 1
    BY <1>7 DEF IsSeq
  <2>3. DOMAIN s.map = {Root} /\ s.map[Root] = 1
    BY <1>7
  <2>4. TableOf(prog, s, 1) = 1
    BY <2>3 DEF TableOf, FrameOf
  <2> QED
    BY <1>5, <1>6, <1>7, <1>8, <1>9, <2>1, <2>2, <2>3, <2>4 DEF Framed
<1>11. Held(s, 0)
  BY <1>8 DEF Held, NewTable, NoBindings
<1>12. Kept(s, ft, Len(heap))
  <2>1. ft = PutAll(s, ns, 0)
    BY <1>2 DEF s, ns
  <2>2. s.current \in 1 .. Len(s.tables)
    BY <1>7, <1>8
  <2>3. Kept(s, PutAll(s, ns, 0), 0 + Len(ns))
    BY <1>3, <1>9, <1>11, <2>2, PutAllKept
  <2> QED
    BY <1>3, <1>4, <2>1, <2>3
<1>13. Framed(prog, open, ft)
  <2>1. IsText(prog) /\ IsOpen(prog, open)
    BY <1>1, <1>2 DEF TextInv, Writing
  <2>2. Extends(prog, prog)
    BY <2>1, ExtendsSelf
  <2> QED
    BY <1>10, <1>12, <2>1, <2>2, StayFramed DEF Kept
<1>14. HeadingsPut(prog, open, ft, phase)
  BY <1>6 DEF HeadingsPut
<1>16. NestedIn(prog, ft)
  <2>1. ft.tables[1].next = 0 /\ ft.map = s.map
    BY <1>8, <1>12 DEF Kept, SameFrames, NewTable
  <2> QED
    BY <1>6, <1>7, <2>1 DEF NestedIn
<1>15. MiscInv
  BY <1>2 DEF MiscInv
<1> QED
  BY <1>4, <1>12, <1>13, <1>14, <1>15, <1>16 DEF FrameInv, Scoped, Kept

LEMMA FrameStep == TextInv /\ TextInv' /\ FrameInv /\ [Next]_vars => FrameInv'
<1> SUFFICES ASSUME TextInv, TextInv', FrameInv, [Next]_vars
             PROVE  FrameInv'
  OBVIOUS
<1>1. MiscInv'
  BY MiscStep DEF FrameInv
<1>2. CASE Parser
  BY <1>1, <1>2, ParserFrames DEF FrameInv, FramesKept
<1>3. CASE Inspector
  BY <1>1, <1>3, InspectorFrames DEF FrameInv, FramesKept
<1>4. CASE Generator
  BY <1>1, <1>4, GeneratorFrames DEF FrameInv, FramesKept
<1>5. CASE UNCHANGED vars
  BY <1>1, <1>5 DEF FrameInv, vars
<1> QED
  BY <1>2, <1>3, <1>4, <1>5 DEF Next

LEMMA FramesAreTyped == TextInv /\ FrameInv => TypeOK
<1> SUFFICES ASSUME TextInv, FrameInv
             PROVE  TypeOK
  OBVIOUS
<1>1. IsText(prog) /\ IsOpen(prog, open) /\ pc \in 1 .. Len(prog)
  BY DEF TextInv, Writing, Walking, IsText, IsSeq
<1>2. /\ DOMAIN prog = 1 .. Len(prog) /\ DOMAIN open = 1 .. Len(open)
      /\ DOMAIN heap = 1 .. Len(heap) /\ DOMAIN ft.tables = 1 .. Len(ft.tables)
  BY <1>1 DEF IsText, IsOpen, IsSeq, FrameInv, Scoped, Symbols, Framed, IsTable
<1>3. \A k \in DOMAIN open : open[k].item \in DOMAIN prog
  BY <1>1, <1>2 DEF IsOpen
<1>4. Len(ft.stack) = Len(open) /\ ft.current = Last(ft.stack)
  BY DEF FrameInv, Scoped, Framed, Last
<1>5. \A i \in DOMAIN ft.tables : Range(ft.tables[i].syms) \subseteq DOMAIN heap
  BY <1>2 DEF FrameInv, Scoped, Held, Range
<1>6. MiscInv
  BY DEF FrameInv
<1>7. phase \in {"parse", "inspect", "generate", "done", "failed", "aborted"}
  BY DEF TextInv
<1> QED
  BY <1>1, <1>2, <1>3, <1>4, <1>5, <1>6, <1>7 DEF TypeOK, MiscInv

(* Between any two handlers of any pass over any program, there is one     *)
(* frame on the stack for every handler that has not returned, the tables  *)
(* hold symbols that exist, and no error is forgotten on the way to the    *)
(* code generator.                                                         *)
THEOREM TypeCorrect == Spec => []TypeOK
<1>1. Init => TextInv /\ FrameInv
  BY TextInit, FrameInit
<1>2. TextInv /\ FrameInv /\ [Next]_vars => (TextInv /\ FrameInv)'
  BY TextStep, FrameStep
<1>3. TextInv /\ FrameInv => TypeOK
  BY FramesAreTyped
<1> QED
  BY <1>1, <1>2, <1>3, PTL DEF Spec

LEMMA FramesAreNested == TextInv /\ FrameInv /\ Distinct => FramesNest
<1> SUFFICES ASSUME TextInv, FrameInv, Distinct, NEW k \in 2 .. Len(ft.stack)
             PROVE  ft.tables[ft.stack[k]].next = ft.stack[k - 1]
  BY DEF FramesNest
<1>1. IsText(prog) /\ IsOpen(prog, open)
  BY DEF TextInv, Writing, Walking
<1>2. Framed(prog, open, ft) /\ NestedIn(prog, ft)
  BY DEF FrameInv, Scoped
<1>3. Len(ft.stack) = Len(open) /\ Len(open) \in Nat
  BY <1>1, <1>2 DEF Framed, IsOpen, IsSeq
<1>4. k \in 2 .. Len(open) /\ k \in 1 .. Len(open) /\ k - 1 \in 1 .. Len(open)
  BY <1>3
<1> DEFINE i == open[k].item
<1>5. /\ i \in ProceduresIn(prog) /\ prog[i].block = open[k - 1].item
      /\ i \in 1 .. Len(prog)
  BY <1>1, <1>4 DEF IsOpen, ProceduresIn
<1>6. /\ ft.stack[k] = TableOf(prog, ft, i)
      /\ ft.stack[k - 1] = TableOf(prog, ft, open[k - 1].item)
  BY <1>2, <1>4 DEF Framed
<1> HIDE DEF i
<1>7. TableOf(prog, ft, i) = ft.map[prog[i].name]
  BY <1>1, <1>5, BlocksAre DEF TableOf, BlocksIn
<1> QED
  BY <1>2, <1>5, <1>6, <1>7 DEF NestedIn

(* In every pass, the frame of a procedure is entered inside the frame it  *)
(* was created in, when no two procedures have the same name: a lookup     *)
(* then sees the frames of the open blocks and no others.                  *)
THEOREM FramesAlwaysNest ==
  ASSUME Distinct
  PROVE  Spec => []FramesNest
<1>1. Init => TextInv /\ FrameInv
  BY TextInit, FrameInit
<1>2. TextInv /\ FrameInv /\ [Next]_vars => (TextInv /\ FrameInv)'
  BY TextStep, FrameStep
<1>3. TextInv /\ FrameInv => FramesNest
  BY FramesAreNested
<1> QED
  BY <1>1, <1>2, <1>3, PTL DEF Spec

-----------------------------------------------------------------------------
(* The scopes: every name is bound to the declaration that the scope rules *)
(* mean, for every program whose procedures have different names.  The     *)
(* frames nest, so what remains is what they hold: a block's frame has a   *)
(* name exactly when the block declares it, by the time that its           *)
(* statements are reached, and the symbol knows the block.  Two passes put *)
(* names, the parser before the inspector, and a symbol of the parser may  *)
(* be found where the inspector has not come.                              *)

DeclaredIn(p, n, b) ==
    \/ n \in DOMAIN p[b].decs
    \/ \E i \in HeadingsIn(p) : p[i].name = n /\ p[i].block = b

(* What the frames s of the text p hold belongs there. *)
Holds(p, s, H) ==
    \A b \in BlocksIn(p) : \A n \in DOMAIN SymsOf(p, s, b) :
        /\ H[SymsOf(p, s, b)[n]].block = b /\ H[SymsOf(p, s, b)[n]].name = n
        /\ n # ClosureArg => DeclaredIn(p, n, b)

(* The inspector has put the names of the blocks that it has entered. *)
PutBefore(p, s, i) ==
    \A b \in BlocksIn(p) : b < i => DOMAIN p[b].decs \subseteq DOMAIN SymsOf(p, s, b)

HoldInv ==
    /\ phase \in {"parse", "inspect"} => Holds(prog, ft, heap)
    /\ phase = "inspect" => PutBefore(prog, ft, pc)

RefsInv ==
    /\ phase = "parse" => refs = {}
    /\ \A ref \in refs : ref.at \in 1 .. Len(prog)
    /\ LexicalScoping

-----------------------------------------------------------------------------
(* Blocks and their frames.                                                *)

LEMMA NamesOfBlocks ==
  ASSUME NEW p, IsText(p), NEW i \in ProceduresIn(p)
  PROVE  p[i].name # Root /\ p[i].name \in Range(ProcNames)
<1>1. ItemOK(p[i]) /\ p[i].op = "procedure"
  BY DEF ProceduresIn, IsText
<1> QED
  BY <1>1, NamesAssumption DEF ItemOK

LEMMA FramesDiffer ==
  ASSUME NEW p, IsText(p), \A i, j \in ProceduresIn(p) : p[i].name = p[j].name => i = j,
         NEW b \in BlocksIn(p), NEW c \in BlocksIn(p), FrameOf(p, b) = FrameOf(p, c)
  PROVE  b = c
<1>1. b # 1 => b \in ProceduresIn(p) /\ FrameOf(p, b) = p[b].name /\ p[b].name # Root
  BY NamesOfBlocks DEF BlocksIn, FrameOf
<1>2. c # 1 => c \in ProceduresIn(p) /\ FrameOf(p, c) = p[c].name /\ p[c].name # Root
  BY NamesOfBlocks DEF BlocksIn, FrameOf
<1>3. FrameOf(p, 1) = Root
  BY DEF FrameOf
<1> QED
  BY <1>1, <1>2, <1>3

LEMMA TablesDiffer ==
  ASSUME NEW p, NEW o, NEW s, IsText(p), Framed(p, o, s), NestedIn(p, s),
         NEW b \in BlocksIn(p), NEW c \in BlocksIn(p), TableOf(p, s, b) = TableOf(p, s, c)
  PROVE  b = c
<1>1. FrameOf(p, b) \in DOMAIN s.map /\ FrameOf(p, c) \in DOMAIN s.map
  BY FramesOf
<1>2. FrameOf(p, b) = FrameOf(p, c)
  BY <1>1 DEF NestedIn, TableOf
<1> QED
  BY <1>2, FramesDiffer DEF NestedIn

(* A frame that exists is the frame of a block. *)
LEMMA FrameOfBlock ==
  ASSUME NEW p, NEW o, NEW s, IsText(p), Framed(p, o, s), NEW f \in DOMAIN s.map
  PROVE  \E b \in BlocksIn(p) : f = FrameOf(p, b)
<1>1. CASE f = Root
  BY <1>1 DEF FrameOf, BlocksIn
<1>2. CASE f # Root
  <2>1. PICK i \in ProceduresIn(p) : f = p[i].name
    BY <1>2 DEF Framed
  <2>2. i \in BlocksIn(p) /\ i # 1
    BY DEF BlocksIn, ProceduresIn, IsText
  <2> QED
    BY <2>1, <2>2 DEF FrameOf
<1> QED
  BY <1>1, <1>2

LEMMA StillDeclared ==
  ASSUME NEW p, NEW q, Extends(p, q), NEW b \in BlocksIn(p), NEW n, DeclaredIn(p, n, b)
  PROVE  DeclaredIn(q, n, b)
<1>1. b \in 1 .. Len(p)
  BY BlocksAre DEF Extends
<1>2. q[b] = p[b]
  BY <1>1 DEF Extends
<1> QED
  BY <1>2, SameProcedures DEF DeclaredIn

-----------------------------------------------------------------------------
(* What the operations bind.                                               *)

(* t is s with names that belong where they are put. *)
Binds(p, G, s, t) ==
    /\ Grows(s, t)
    /\ \A f \in DOMAIN t.map \ DOMAIN s.map : t.map[f] \notin DOMAIN s.tables
    /\ \A j \in DOMAIN t.tables : \A n \in DOMAIN t.tables[j].syms :
          \/ /\ j \in DOMAIN s.tables /\ n \in DOMAIN s.tables[j].syms
             /\ t.tables[j].syms[n] = s.tables[j].syms[n]
          \/ \E b \in BlocksIn(p) : /\ FrameOf(p, b) \in DOMAIN t.map
                                    /\ j = TableOf(p, t, b)
                                    /\ G[t.tables[j].syms[n]].block = b
                                    /\ G[t.tables[j].syms[n]].name = n
                                    /\ n = ClosureArg \/ DeclaredIn(p, n, b)

LEMMA BindsTrans ==
  ASSUME NEW p, NEW G, NEW s, NEW t, NEW u, Binds(p, G, s, t), Binds(p, G, t, u)
  PROVE  Binds(p, G, s, u)
<1>1. Grows(s, t) /\ Grows(t, u) /\ Grows(s, u)
  BY GrowsTrans DEF Binds
<1>2. ASSUME NEW f \in DOMAIN u.map \ DOMAIN s.map
      PROVE  u.map[f] \notin DOMAIN s.tables
  <2>1. CASE f \in DOMAIN t.map
    BY <1>1, <2>1 DEF Binds, Grows
  <2>2. CASE f \notin DOMAIN t.map
    BY <1>1, <2>2 DEF Binds, Grows
  <2> QED
    BY <2>1, <2>2
<1>3. ASSUME NEW j \in DOMAIN u.tables, NEW n \in DOMAIN u.tables[j].syms,
             ~ \E b \in BlocksIn(p) : /\ FrameOf(p, b) \in DOMAIN u.map
                                      /\ j = TableOf(p, u, b)
                                      /\ G[u.tables[j].syms[n]].block = b
                                      /\ G[u.tables[j].syms[n]].name = n
                                      /\ n = ClosureArg \/ DeclaredIn(p, n, b)
      PROVE  /\ j \in DOMAIN s.tables /\ n \in DOMAIN s.tables[j].syms
             /\ u.tables[j].syms[n] = s.tables[j].syms[n]
  <2>1. /\ j \in DOMAIN t.tables /\ n \in DOMAIN t.tables[j].syms
        /\ u.tables[j].syms[n] = t.tables[j].syms[n]
    BY <1>3 DEF Binds
  <2>2. ASSUME NEW b \in BlocksIn(p), FrameOf(p, b) \in DOMAIN t.map, j = TableOf(p, t, b)
        PROVE  FrameOf(p, b) \in DOMAIN u.map /\ j = TableOf(p, u, b)
    BY <1>1, <2>2 DEF Grows, TableOf
  <2> QED
    BY <1>3, <2>1, <2>2 DEF Binds
<1> QED
  BY <1>1, <1>2, <1>3 DEF Binds

LEMMA BindsSame ==
  ASSUME NEW p, NEW G, NEW s, NEW t, t.map = s.map, DOMAIN t.tables = DOMAIN s.tables,
         \A j \in DOMAIN s.tables : t.tables[j].syms = s.tables[j].syms
  PROVE  Binds(p, G, s, t)
BY DEF Binds, Grows

LEMMA BindsMark ==
  ASSUME NEW p, NEW G, NEW s, IsTable(s), NEW n
  PROVE  Binds(p, G, s, MarkFree(s, n))
<1> DEFINE t == MarkFree(s, n)
<1>1. SameFrames(s, t) /\ \A j \in DOMAIN s.tables : t.tables[j].syms = s.tables[j].syms
  BY MarkFreeFrames
<1> HIDE DEF t
<1>2. Binds(p, G, s, t)
  BY <1>1, BindsSame DEF SameFrames
<1> QED
  BY <1>2 DEF t

LEMMA BindsReset ==
  ASSUME NEW p, NEW G, NEW s, IsTable(s)
  PROVE  Binds(p, G, s, ResetFree(s))
<1> DEFINE t == ResetFree(s)
<1>1. SameFrames(s, t) /\ \A j \in DOMAIN s.tables : t.tables[j].syms = s.tables[j].syms
  BY ResetFreeFrames
<1> HIDE DEF t
<1>2. Binds(p, G, s, t)
  BY <1>1, BindsSame DEF SameFrames
<1> QED
  BY <1>2 DEF t

LEMMA BindsPop ==
  ASSUME NEW p, NEW G, NEW s
  PROVE  Binds(p, G, s, PopFrame(s))
<1>1. PopFrame(s).tables = s.tables /\ PopFrame(s).map = s.map
  BY DEF PopFrame
<1> QED
  BY <1>1, BindsSame

LEMMA BindsPush ==
  ASSUME NEW p, NEW G, NEW s, IsTable(s), IsSeq(s.stack), NEW f
  PROVE  Binds(p, G, s, PushFrame(s, f))
<1> DEFINE t == PushFrame(s, f)
           N == Len(s.tables)
<1>1. N \in Nat /\ DOMAIN s.tables = 1 .. N
  BY DEF IsTable
<1>2. /\ IsTable(t)
      /\ DOMAIN t.map = DOMAIN s.map \cup {f}
      /\ \A g \in DOMAIN s.map : t.map[g] = s.map[g]
      /\ \A i \in 1 .. N : t.tables[i] = s.tables[i]
      /\ f \in DOMAIN s.map => t.tables = s.tables
      /\ f \notin DOMAIN s.map => /\ t.map[f] = N + 1 /\ Len(t.tables) = N + 1
                                  /\ t.tables[N + 1] = NewTable(s.current)
  BY PushIs
<1> HIDE DEF t
<1>3. DOMAIN t.tables = 1 .. Len(t.tables)
  BY <1>2 DEF IsTable
<1>4. Grows(s, t)
  BY <1>1, <1>2, <1>3 DEF Grows, IsTable
<1>5. NewTable(s.current).syms = NoBindings
  BY DEF NewTable
<1>6. ASSUME NEW j \in DOMAIN t.tables, NEW n \in DOMAIN t.tables[j].syms
      PROVE  j \in 1 .. N
  <2>1. CASE f \in DOMAIN s.map
    BY <1>1, <1>2, <2>1
  <2>2. CASE f \notin DOMAIN s.map
    <3>1. j \in 1 .. N \/ j = N + 1
      BY <1>1, <1>2, <1>3, <2>2
    <3> QED
      BY <1>2, <1>5, <2>2, <3>1 DEF NoBindings
  <2> QED
    BY <2>1, <2>2
<1>7. \A g \in DOMAIN t.map \ DOMAIN s.map : t.map[g] \notin DOMAIN s.tables
  BY <1>1, <1>2
<1>8. Binds(p, G, s, t)
  BY <1>1, <1>2, <1>4, <1>6, <1>7 DEF Binds
<1> QED
  BY <1>8 DEF t

(* A name that is put into the frame of the innermost block. *)
LEMMA BindsInto ==
  ASSUME NEW p, NEW o, NEW s, IsText(p), IsOpen(p, o), Framed(p, o, s), NEW G,
         NEW t, NEW syms, PutInto(s, t, syms),
         DOMAIN s.tables[s.current].syms \subseteq DOMAIN syms,
         \A n \in DOMAIN syms :
            \/ n \in DOMAIN s.tables[s.current].syms /\ syms[n] = s.tables[s.current].syms[n]
            \/ G[syms[n]].block = Top(o) /\ G[syms[n]].name = n /\ (n = ClosureArg \/ DeclaredIn(p, n, Top(o)))
  PROVE  Binds(p, G, s, t)
<1>1. s.current = TableOf(p, s, Top(o)) /\ s.current \in 1 .. Len(s.tables)
  BY CurrentIs
<1>2. Top(o) \in BlocksIn(p)
  <2>1. Len(o) \in 1 .. Len(o)
    BY DEF IsOpen, IsSeq
  <2> QED
    BY <2>1, OpenBlocks DEF Top
<1>3. t.map = s.map /\ DOMAIN t.tables = DOMAIN s.tables
  BY DEF PutInto, SameFrames
<1>4. \A j \in DOMAIN s.tables :
         t.tables[j].syms = IF j = s.current THEN syms ELSE s.tables[j].syms
  BY DEF PutInto
<1>5. FrameOf(p, Top(o)) \in DOMAIN t.map /\ TableOf(p, t, Top(o)) = s.current
  BY <1>1, <1>2, <1>3, FramesOf DEF TableOf
<1>6. Grows(s, t)
  BY <1>3, <1>4 DEF Grows
<1>7. ASSUME NEW j \in DOMAIN t.tables, NEW n \in DOMAIN t.tables[j].syms
      PROVE  \/ /\ j \in DOMAIN s.tables /\ n \in DOMAIN s.tables[j].syms
                /\ t.tables[j].syms[n] = s.tables[j].syms[n]
             \/ \E b \in BlocksIn(p) : /\ FrameOf(p, b) \in DOMAIN t.map
                                       /\ j = TableOf(p, t, b)
                                       /\ G[t.tables[j].syms[n]].block = b
                                       /\ G[t.tables[j].syms[n]].name = n
                                       /\ n = ClosureArg \/ DeclaredIn(p, n, b)
  <2>1. CASE j # s.current
    BY <1>3, <1>4, <2>1
  <2>2. CASE j = s.current
    <3>1. t.tables[j].syms = syms /\ n \in DOMAIN syms
      BY <1>3, <1>4, <2>2
    <3>2. CASE n \in DOMAIN s.tables[s.current].syms /\ syms[n] = s.tables[s.current].syms[n]
      BY <1>3, <2>2, <3>1, <3>2
    <3>3. CASE G[syms[n]].block = Top(o) /\ G[syms[n]].name = n /\ (n = ClosureArg \/ DeclaredIn(p, n, Top(o)))
      BY <1>2, <1>5, <2>2, <3>1, <3>3
    <3> QED
      BY <3>1, <3>2, <3>3
  <2> QED
    BY <2>1, <2>2
<1> QED
  BY <1>3, <1>6, <1>7 DEF Binds

LEMMA BindsPut ==
  ASSUME NEW p, NEW o, NEW s, IsText(p), IsOpen(p, o), Framed(p, o, s), NEW G,
         NEW n, NEW h, G[h].block = Top(o), G[h].name = n,
         n = ClosureArg \/ DeclaredIn(p, n, Top(o))
  PROVE  Binds(p, G, s, Put(s, n, h))
<1> DEFINE old == s.tables[s.current].syms
           syms == Bind(old, n, h)
<1>1. DOMAIN syms = DOMAIN old \cup {n}
  BY DEF Bind
<1>2. \A x \in DOMAIN syms : (x = n /\ syms[x] = h) \/ (x \in DOMAIN old /\ syms[x] = old[x])
  BY DEF Bind
<1>3. PutInto(s, Put(s, n, h), syms)
  BY PutIs DEF Framed
<1> HIDE DEF syms
<1> QED
  BY <1>1, <1>2, <1>3, BindsInto

LEMMA BindsPutAll ==
  ASSUME NEW p, NEW o, NEW s, IsText(p), IsOpen(p, o), Framed(p, o, s), NEW G,
         NEW ns, IsSeq(ns), NEW h \in Nat,
         \A k \in 1 .. Len(ns) : /\ G[h + k].block = Top(o) /\ G[h + k].name = ns[k]
                                 /\ DeclaredIn(p, ns[k], Top(o))
  PROVE  Binds(p, G, s, PutAll(s, ns, h))
<1> DEFINE old == s.tables[s.current].syms
<1>1. PICK syms : PutInto(s, PutAll(s, ns, h), syms) /\ Added(old, syms, ns, h)
  BY PutAllIs DEF Framed
<1>2. ASSUME NEW n \in Values(ns)
      PROVE  G[syms[n]].block = Top(o) /\ G[syms[n]].name = n /\ DeclaredIn(p, n, Top(o))
  <2>1. syms[n] \in h + 1 .. h + Len(ns) /\ ns[syms[n] - h] = n
    BY <1>1 DEF Added
  <2> DEFINE k == syms[n] - h
  <2>2. k \in 1 .. Len(ns) /\ h + k = syms[n]
    BY <2>1 DEF IsSeq
  <2>3. ns[k] = n
    BY <2>1
  <2> HIDE DEF k
  <2> QED
    BY <2>2, <2>3
<1>3. /\ DOMAIN syms = DOMAIN old \cup Values(ns)
      /\ \A n \in DOMAIN syms \ Values(ns) : syms[n] = old[n]
  BY <1>1 DEF Added
<1> QED
  BY <1>1, <1>2, <1>3, BindsInto

(* The symbols that were there are still those of their blocks. *)
BlocksStay(H, G) ==
    \A h \in 1 .. Len(H) : G[h].block = H[h].block /\ G[h].name = H[h].name

LEMMA HoldStep ==
  ASSUME NEW p, NEW o, NEW s, NEW H, IsText(p), Framed(p, o, s), Held(s, Len(H)), Holds(p, s, H),
         NEW q, Extends(p, q), NEW r, NEW t, NEW G, Framed(q, r, t), NestedIn(q, t),
         Binds(q, G, s, t), BlocksStay(H, G)
  PROVE  Holds(q, t, G)
<1> SUFFICES ASSUME NEW b \in BlocksIn(q), NEW n \in DOMAIN SymsOf(q, t, b)
             PROVE  /\ G[SymsOf(q, t, b)[n]].block = b /\ G[SymsOf(q, t, b)[n]].name = n
                    /\ n # ClosureArg => DeclaredIn(q, n, b)
  BY DEF Holds
<1> DEFINE j == TableOf(q, t, b)
<1>1. IsText(q) /\ FrameOf(q, b) \in DOMAIN t.map /\ j \in DOMAIN t.tables
  <2>1. IsText(q)
    BY DEF Extends
  <2>2. FrameOf(q, b) \in DOMAIN t.map /\ j \in 1 .. Len(t.tables)
    BY <2>1, FramesOf
  <2>3. DOMAIN t.tables = 1 .. Len(t.tables)
    BY DEF Framed, IsTable
  <2> QED
    BY <2>1, <2>2, <2>3
<1>2. SymsOf(q, t, b) = t.tables[j].syms
  BY DEF SymsOf
<1>3. CASE \E c \in BlocksIn(q) : /\ j = TableOf(q, t, c)
                                  /\ G[t.tables[j].syms[n]].block = c
                                  /\ G[t.tables[j].syms[n]].name = n
                                  /\ n = ClosureArg \/ DeclaredIn(q, n, c)
  BY <1>1, <1>2, <1>3, TablesDiffer
<1>4. CASE /\ j \in DOMAIN s.tables /\ n \in DOMAIN s.tables[j].syms
           /\ t.tables[j].syms[n] = s.tables[j].syms[n]
  <2>1. FrameOf(q, b) \in DOMAIN s.map
    BY <1>1, <1>4 DEF Binds, TableOf
  <2>2. PICK c \in BlocksIn(p) : FrameOf(q, b) = FrameOf(p, c)
    BY <2>1, FrameOfBlock
  <2>3. c \in BlocksIn(q) /\ FrameOf(q, c) = FrameOf(p, c)
    BY SameBlocks
  <2>4. b = c
    BY <1>1, <2>2, <2>3, FramesDiffer DEF NestedIn
  <2>5. j = TableOf(p, s, b)
    BY <2>1, <2>2, <2>4 DEF TableOf, Binds, Grows
  <2> HIDE DEF j
  <2>6. SymsOf(p, s, b) = s.tables[j].syms
    BY <2>5 DEF SymsOf
  <2>7. H[s.tables[j].syms[n]].block = b /\ H[s.tables[j].syms[n]].name = n /\ (n # ClosureArg => DeclaredIn(p, n, b))
    BY <1>4, <2>4, <2>6 DEF Holds
  <2>8. s.tables[j].syms[n] \in 1 .. Len(H)
    BY <1>4 DEF Held, Framed, IsTable
  <2> QED
    BY <1>2, <1>4, <2>4, <2>7, <2>8, StillDeclared DEF BlocksStay
<1> QED
  BY <1>1, <1>2, <1>3, <1>4 DEF Binds

-----------------------------------------------------------------------------
(* Every step of the first two passes binds what belongs there.            *)

BoundRight == Binds(prog', heap', ft, ft') /\ BlocksStay(heap, heap')

(* The frames with other symbols in them, for the text after the step. *)
LEMMA SameFramed ==
  ASSUME NEW p, NEW o, NEW s, IsText(p), IsOpen(p, o), Framed(p, o, s),
         NEW q, Extends(p, q), ProceduresIn(q) \subseteq ProceduresIn(p),
         NEW t, SameFrames(s, t)
  PROVE  Framed(q, o, t)
BY StayFramed

LEMMA SelfFrames ==
  ASSUME NEW s, IsTable(s)
  PROVE  SameFrames(s, s)
BY DEF IsTable, SameFrames

LEMMA BlocksJoin ==
  ASSUME NEW H, Symbols(H), NEW G, Symbols(G)
  PROVE  /\ BlocksStay(H, H \o G)
         /\ \A k \in 1 .. Len(G) : (H \o G)[Len(H) + k] = G[k]
BY Joined DEF BlocksStay, Symbols

LEMMA BlocksAppend ==
  ASSUME NEW H, Symbols(H), NEW x
  PROVE  BlocksStay(H, Append(H, x)) /\ Append(H, x)[Len(H) + 1] = x
BY Appended DEF BlocksStay, Symbols

LEMMA ParseProcedureBinds ==
  ASSUME TextInv, TextInv', FrameInv,
         NEW n \in Range(ProcNames), NEW decs \in DecsOf(Kinds), NEW result,
         ParseProcedure(n, decs, result)
  PROVE  BoundRight
<1> DEFINE it == Heading("procedure", n, Here, decs, result)
           ns == SetToSeq(Locals(decs))
           v  == PushFrame(ft, n)
           e  == [item |-> pc + 1, sym |-> 0, fn |-> Main, stats |-> FALSE]
           new == UntypedSymbols(ns, decs, pc + 1)
<1>1. /\ phase = "parse" /\ prog' = Append(prog, it) /\ open' = Append(open, e)
      /\ ft' = PutAll(v, ns, Len(heap)) /\ heap' = heap \o new
  BY DEF ParseProcedure, Parsing, Parsed, Entered
<1>2. it.op = "procedure" /\ it.name = n /\ it.decs = decs /\ e.item = pc + 1
  BY DEF Heading
<1> HIDE DEF it, e
<1>3. /\ IsText(prog) /\ IsOpen(prog, open) /\ IsText(prog') /\ IsOpen(prog', open')
      /\ pc + 1 \in 1 .. Len(prog') /\ prog'[pc + 1] = it /\ Extends(prog, prog')
      /\ \A i \in ProceduresIn(prog') : i \in ProceduresIn(prog) \/ i = pc + 1
  BY <1>1, ParsingText
<1>4. IsTable(ft) /\ IsSeq(ft.stack) /\ Len(heap) \in Nat /\ Symbols(heap)
  BY <1>3, ScopedFacts DEF FrameInv
<1>5. e.item \in ProceduresIn(prog') /\ prog'[e.item].name = n
      /\ ProceduresIn(prog') \subseteq ProceduresIn(prog) \cup {e.item}
  BY <1>2, <1>3 DEF ProceduresIn
<1>6. Framed(prog', Append(open, e), v)
  BY <1>3, <1>5, PushFramed DEF FrameInv, Scoped
<1>7. Framed(prog', open', v)
  BY <1>1, <1>6
<1>8. Top(open') = pc + 1
  BY <1>1, <1>2, <1>3, Appended DEF Top, IsOpen
<1>9. IsSeq(ns) /\ Values(ns) = Locals(decs)
  <2>1. Locals(decs) \subseteq Idents
    BY DEF Locals, DecsOf, Idents
  <2> QED
    BY <2>1, InOrder
<1>10. /\ Symbols(new) /\ Len(new) = Len(ns)
       /\ \A k \in 1 .. Len(ns) : new[k].block = pc + 1 /\ new[k].name = ns[k]
  BY <1>9, UntypedAre
<1>11. \A k \in 1 .. Len(ns) : DeclaredIn(prog', ns[k], pc + 1)
  <2>1. \A k \in 1 .. Len(ns) : ns[k] \in Locals(decs)
    BY <1>9 DEF Values
  <2> QED
    BY <1>2, <1>3, <2>1 DEF Locals, DeclaredIn
<1> HIDE DEF new, ns, v
<1>12. /\ BlocksStay(heap, heap')
       /\ \A k \in 1 .. Len(ns) : /\ heap'[Len(heap) + k].block = pc + 1
                                  /\ heap'[Len(heap) + k].name = ns[k]
  <2>2. /\ BlocksStay(heap, heap \o new)
        /\ \A k \in 1 .. Len(new) : (heap \o new)[Len(heap) + k] = new[k]
    BY <1>4, <1>10, BlocksJoin
  <2> QED
    BY <1>1, <1>10, <2>2
<1>13. Binds(prog', heap', v, ft')
  BY <1>1, <1>3, <1>4, <1>7, <1>8, <1>9, <1>11, <1>12, BindsPutAll
<1>14. Binds(prog', heap', ft, v)
  BY <1>4, BindsPush DEF v
<1> QED
  BY <1>12, <1>13, <1>14, BindsTrans DEF BoundRight

LEMMA ParseForwardBinds ==
  ASSUME TextInv, TextInv', FrameInv, NEW n \in Range(ProcNames), NEW decs, NEW r,
         ParseForward(n, decs, r)
  PROVE  BoundRight
<1> DEFINE it == Heading("forward", n, Here, decs, r)
           x  == Symbol("fwd", Here, n)
<1>1. /\ phase = "parse" /\ prog' = Append(prog, it) /\ open' = open
      /\ ft' = Put(ft, n, Len(heap) + 1) /\ heap' = Append(heap, x)
  BY DEF ParseForward, Parsing, Parsed
<1>2. it.op = "forward" /\ it.name = n /\ it.block = Top(open)
  BY DEF Heading, Here, Inner, Top
<1>3. x.block = Top(open) /\ x.name = n
  BY SymbolIs DEF Here, Inner, Top
<1> HIDE DEF it, x
<1>4. /\ IsText(prog) /\ IsOpen(prog, open) /\ IsText(prog') /\ IsOpen(prog', open')
      /\ Extends(prog, prog')
      /\ pc + 1 \in 1 .. Len(prog') /\ prog'[pc + 1] = it
      /\ ProceduresIn(prog') \subseteq ProceduresIn(prog)
  BY <1>1, <1>2, ParsingText
<1>5. IsTable(ft) /\ Symbols(heap) /\ Framed(prog, open, ft)
  BY <1>4, ScopedFacts DEF FrameInv, Scoped
<1>6. Framed(prog', open, ft)
  BY <1>4, <1>5, SelfFrames, SameFramed
<1>7. /\ BlocksStay(heap, heap')
      /\ heap'[Len(heap) + 1].block = Top(open) /\ heap'[Len(heap) + 1].name = n
  BY <1>1, <1>2, <1>3, <1>4, <1>5, BlocksAppend
<1>8. DeclaredIn(prog', n, Top(open))
  BY <1>2, <1>4 DEF DeclaredIn, HeadingsIn
<1>9. IsOpen(prog', open)
  BY <1>1, <1>4
<1>10. Binds(prog', heap', ft, ft')
  BY <1>1, <1>4, <1>6, <1>7, <1>8, <1>9, BindsPut
<1> QED
  BY <1>7, <1>10 DEF BoundRight

LEMMA ParseEndProcedureBinds ==
  ASSUME TextInv, TextInv', FrameInv, ParseEndProcedure
  PROVE  BoundRight
<1> DEFINE n  == prog[Here].name
           it == Item("end", n, Here)
           x  == Symbol("fwd", prog[Here].block, n)
           v  == PopFrame(ft)
<1>1. /\ phase = "parse" /\ prog' = Append(prog, it) /\ Len(open) # 1
      /\ open' = SubSeq(open, 1, Len(open) - 1)
      /\ ft' = Put(v, n, Len(heap) + 1) /\ heap' = Append(heap, x)
  BY DEF ParseEndProcedure, Parsing, Parsed, InModule, Left
<1>2. it.op = "end" /\ Here = Top(open)
  BY DEF Item, Heading, Here, Inner, Top
<1>3. x.block = prog[Here].block /\ x.name = n
  BY SymbolIs
<1> HIDE DEF it, x
<1>4. /\ IsText(prog) /\ IsOpen(prog, open) /\ IsText(prog') /\ IsOpen(prog', open')
      /\ Extends(prog, prog')
      /\ ProceduresIn(prog') \subseteq ProceduresIn(prog)
  BY <1>1, <1>2, ParsingText
<1>5. Symbols(heap) /\ Framed(prog, open, ft)
  BY <1>4, ScopedFacts DEF FrameInv, Scoped
<1>6. Framed(prog', SubSeq(open, 1, Len(open) - 1), v)
  BY <1>1, <1>4, <1>5, PopFramed
<1>7. Top(open') = prog[Here].block
  BY <1>1, <1>2, <1>4, LeaveInner
<1>8. Here \in 1 .. Len(prog) /\ prog[Here].op = "procedure" /\ prog'[Here] = prog[Here]
  BY <1>1, <1>2, <1>4, TopIsBlock DEF Extends
<1>9. /\ BlocksStay(heap, heap')
      /\ heap'[Len(heap) + 1].block = Top(open') /\ heap'[Len(heap) + 1].name = n
  BY <1>1, <1>3, <1>5, <1>7, <1>8, BlocksAppend
<1>10. DeclaredIn(prog', n, Top(open'))
  <2>1. Here \in HeadingsIn(prog)
    BY <1>8 DEF HeadingsIn
  <2> QED
    BY <1>4, <1>7, <1>8, <2>1, SameProcedures DEF DeclaredIn
<1> HIDE DEF n, v
<1>11. Binds(prog', heap', v, ft')
  BY <1>1, <1>4, <1>6, <1>9, <1>10, BindsPut
<1>12. Binds(prog', heap', ft, v)
  BY BindsPop DEF v
<1> QED
  BY <1>9, <1>11, <1>12, BindsTrans DEF BoundRight

LEMMA ParserBinds ==
  ASSUME TextInv, TextInv', FrameInv, Parser
  PROVE  BoundRight
<1>1. ASSUME NEW n \in Range(ProcNames), NEW decs \in DecsOf(Kinds), NEW r \in Results,
             ParseProcedure(n, decs, r)
      PROVE  BoundRight
  BY <1>1, ParseProcedureBinds
<1>2. ASSUME NEW n \in Range(ProcNames), NEW decs \in DecsOf(Kinds \cap {"value", "VAR"}),
             NEW r \in Results, ParseForward(n, decs, r)
      PROVE  BoundRight
  BY <1>2, ParseForwardBinds
<1>3. CASE ParseEndProcedure
  BY <1>3, ParseEndProcedureBinds
<1>4. CASE heap' = heap /\ (ft' = ft \/ \E n : ft' = MarkFree(ft, n))
  <2>1. IsTable(ft)
    BY DEF FrameInv, Scoped, Framed
  <2>2. BlocksStay(heap, heap')
    BY <1>4 DEF BlocksStay
  <2>3. Binds(prog', heap', ft, ft')
    BY <1>4, <2>1, BindsSame, BindsMark
  <2> QED
    BY <2>2, <2>3 DEF BoundRight
<1>5. CASE ParseBegin
  BY <1>4, <1>5 DEF ParseBegin
<1>6. ASSUME NEW n \in Vars, ParseUse(n)
      PROVE  BoundRight
  BY <1>4, <1>6 DEF ParseUse, ParseStatement
<1>7. ASSUME NEW n \in Range(ProcNames), NEW arg \in Arguments, ParseCall(n, arg)
      PROVE  BoundRight
  BY <1>4, <1>7 DEF ParseCall, ParseStatement
<1>8. ASSUME NEW r \in BOOLEAN, ParseReturn(r)
      PROVE  BoundRight
  BY <1>4, <1>8 DEF ParseReturn, ParseStatement
<1>9. CASE ParseEndModule
  BY <1>4, <1>9 DEF ParseEndModule
<1> QED
  BY <1>1, <1>2, <1>3, <1>5, <1>6, <1>7, <1>8, <1>9 DEF Parser

LEMMA InspectModuleBinds ==
  ASSUME TextInv, TextInv', FrameInv, InspectModule
  PROVE  BoundRight /\ DOMAIN prog[pc].decs \subseteq DOMAIN SymsOf(prog, ft', pc)
<1> DEFINE ns == SetToSeq(DOMAIN prog[pc].decs)
           new == TypedSymbols(ns, TRUE)
<1>1. /\ phase = "inspect" /\ prog' = prog /\ prog[pc].op = "module"
      /\ ft' = PutAll(ft, ns, Len(heap)) /\ heap' = heap \o new
  BY DEF InspectModule, Inspecting, At
<1>2. /\ IsText(prog) /\ IsOpen(prog, open) /\ pc \in 1 .. Len(prog)
      /\ Top(open) = IF pc = 1 THEN 1 ELSE prog[pc].block
  BY <1>1, WalkingText
<1>3. pc = 1 /\ Top(open) = 1
  BY <1>1, <1>2 DEF IsText, IsSeq
<1>4. IsTable(ft) /\ Len(heap) \in Nat /\ Symbols(heap) /\ Framed(prog, open, ft)
  BY <1>2, ScopedFacts DEF FrameInv, Scoped
<1>5. IsSeq(ns) /\ Values(ns) = DOMAIN prog[pc].decs
  BY <1>2, NamesHere, InOrder
<1>6. /\ Symbols(new) /\ Len(new) = Len(ns)
      /\ \A k \in 1 .. Len(ns) : new[k].block = pc /\ new[k].name = ns[k]
  BY <1>5, TypedAre
<1> HIDE DEF ns, new
<1>7. /\ BlocksStay(heap, heap')
      /\ \A k \in 1 .. Len(ns) : /\ heap'[Len(heap) + k].block = pc
                                 /\ heap'[Len(heap) + k].name = ns[k]
  <2>1. /\ BlocksStay(heap, heap \o new)
        /\ \A k \in 1 .. Len(new) : (heap \o new)[Len(heap) + k] = new[k]
    BY <1>4, <1>6, BlocksJoin
  <2> QED
    BY <1>1, <1>6, <2>1
<1>8. \A k \in 1 .. Len(ns) : DeclaredIn(prog, ns[k], pc)
  BY <1>5 DEF Values, DeclaredIn
<1>9. Binds(prog', heap', ft, ft')
  BY <1>1, <1>2, <1>3, <1>4, <1>5, <1>7, <1>8, BindsPutAll
<1>10. DOMAIN prog[pc].decs \subseteq DOMAIN SymsOf(prog, ft', pc)
  <2>1. PICK syms : /\ PutInto(ft, ft', syms)
                    /\ Added(ft.tables[ft.current].syms, syms, ns, Len(heap))
    BY <1>1, <1>4, <1>5, PutAllIs
  <2>2. ft.current = TableOf(prog, ft, pc) /\ ft.current \in DOMAIN ft.tables
    BY <1>2, <1>3, <1>4, CurrentIs DEF IsTable
  <2>3. /\ ft'.map = ft.map
        /\ ft'.tables[ft.current].syms = syms
        /\ Values(ns) \subseteq DOMAIN syms
    BY <2>1, <2>2 DEF PutInto, SameFrames, Added
  <2>4. SymsOf(prog, ft', pc) = syms
    BY <2>2, <2>3 DEF SymsOf, TableOf
  <2> QED
    BY <1>5, <2>3, <2>4
<1> QED
  BY <1>7, <1>9, <1>10 DEF BoundRight

LEMMA InspectProcedureBinds ==
  ASSUME TextInv, TextInv', FrameInv, InspectProcedure
  PROVE  BoundRight /\ DOMAIN prog[pc].decs \subseteq DOMAIN SymsOf(prog, ft', pc)
<1> DEFINE ns == SetToSeq(DOMAIN prog[pc].decs)
           m  == Len(heap) + 1
           w  == MarkFree(ft, Name)
           u  == Put(w, Name, m)
           v  == PushFrame(u, Name)
           e  == [item |-> pc, sym |-> m, fn |-> Main, stats |-> FALSE]
           x  == ProcSymbol("proc", pc)
           new == TypedSymbols(ns, FALSE)
<1>1. /\ phase = "inspect" /\ prog' = prog /\ prog[pc].op = "procedure"
      /\ open' = Append(open, e)
      /\ ft' = PutAll(v, ns, m) /\ heap' = Append(heap, x) \o new
  BY DEF InspectProcedure, Inspecting, At, Onward, Entered
<1>2. IsSymbol(x) /\ x.block = prog[pc].block /\ x.name = prog[pc].name /\ e.item = pc
  BY ProcSymbolIs
<1> HIDE DEF x, e
<1>3. /\ IsText(prog) /\ IsOpen(prog, open) /\ IsOpen(prog', open') /\ pc \in 1 .. Len(prog)
      /\ Top(open) = (IF pc = 1 THEN 1 ELSE prog[pc].block)
      /\ Extends(prog, prog')
      /\ ProceduresIn(prog') \subseteq ProceduresIn(prog)
  BY <1>1, WalkingText
<1>4. pc # 1 /\ Top(open) = prog[pc].block /\ pc \in HeadingsIn(prog) /\ pc \in ProceduresIn(prog)
  BY <1>1, <1>3 DEF IsText, HeadingsIn, ProceduresIn
<1>5. /\ IsTable(ft) /\ IsSeq(ft.stack) /\ Len(heap) \in Nat /\ Symbols(heap)
      /\ Framed(prog, open, ft)
  BY <1>3, ScopedFacts DEF FrameInv, Scoped
<1>6. DOMAIN prog[pc].decs \subseteq Idents
  BY <1>3, NamesHere
<1>7. IsSeq(ns) /\ Values(ns) = DOMAIN prog[pc].decs
  BY <1>6, InOrder
<1>8. /\ Symbols(new) /\ Len(new) = Len(ns)
      /\ \A k \in 1 .. Len(ns) : new[k].block = pc /\ new[k].name = ns[k]
  BY <1>7, TypedAre
<1>9. SameFrames(ft, w) /\ Framed(prog, open, w)
  <2>1. SameFrames(ft, w)
    BY <1>5, MarkFreeFrames
  <2> HIDE DEF w
  <2>2. Extends(prog, prog)
    BY <1>3, ExtendsSelf
  <2> QED
    BY <1>3, <1>5, <2>1, <2>2, SameFramed
<1>10. Binds(prog', heap', ft, w)
  BY <1>5, BindsMark
<1> HIDE DEF new, ns, w
<1>11. IsTable(w) /\ SameFrames(w, u)
  BY <1>9, PutIs DEF PutInto, Framed
<1>12. Framed(prog, open, u) /\ IsTable(u) /\ IsSeq(u.stack)
  <2>1. Extends(prog, prog)
    BY <1>3, ExtendsSelf
  <2> HIDE DEF u
  <2>2. Framed(prog, open, u)
    BY <1>3, <1>9, <1>11, <2>1, SameFramed
  <2> QED
    BY <2>2 DEF Framed
<1>13. /\ BlocksStay(heap, heap') /\ heap'[m].block = prog[pc].block /\ heap'[m].name = Name
       /\ \A k \in 1 .. Len(ns) : heap'[m + k].block = pc /\ heap'[m + k].name = ns[k]
  <2> DEFINE H == Append(heap, x)
  <2>1. /\ IsSeq(H) /\ Len(H) = m
        /\ BlocksStay(heap, H) /\ H[m] = x /\ Symbols(H)
    BY <1>2, <1>5, BlocksAppend, SymbolsAppend DEF Symbols
  <2> HIDE DEF H
  <2>2. /\ BlocksStay(H, H \o new)
        /\ \A k \in 1 .. Len(new) : (H \o new)[Len(H) + k] = new[k]
    BY <1>8, <2>1, BlocksJoin
  <2>3. heap' = H \o new
    BY <1>1 DEF H
  <2>4. m \in 1 .. Len(H) /\ \A h \in 1 .. Len(heap) : h \in 1 .. Len(H)
    BY <1>5, <2>1
  <2> HIDE DEF m
  <2> QED
    BY <1>1, <1>2, <1>8, <2>1, <2>2, <2>3, <2>4 DEF BlocksStay, Name
<1>14. DeclaredIn(prog, Name, Top(open))
  BY <1>4 DEF DeclaredIn, Name
<1>15. Binds(prog', heap', w, u)
  <2> HIDE DEF m
  <2> QED
    BY <1>1, <1>3, <1>4, <1>9, <1>13, <1>14, BindsPut
<1> HIDE DEF u
<1>16. Binds(prog', heap', u, v)
  BY <1>12, BindsPush
<1>17. e.item \in ProceduresIn(prog') /\ prog'[e.item].name = Name
  BY <1>1, <1>2, <1>4 DEF Name
<1>18. Framed(prog', Append(open, e), v)
  BY <1>3, <1>12, <1>17, PushFramed
<1>19. Framed(prog', open', v) /\ Top(open') = pc
  <2>1. Top(Append(open, e)) = pc
    BY <1>2, <1>3, Appended DEF Top, IsOpen
  <2> QED
    BY <1>1, <1>18, <2>1
<1> HIDE DEF v
<1>20. \A k \in 1 .. Len(ns) : DeclaredIn(prog, ns[k], pc)
  BY <1>7 DEF Values, DeclaredIn
<1>21. m \in Nat
  BY <1>5
<1> HIDE DEF m
<1>22. Binds(prog', heap', v, ft')
  BY <1>1, <1>3, <1>7, <1>13, <1>19, <1>20, <1>21, BindsPutAll
<1>23. Binds(prog', heap', ft, ft')
  BY <1>10, <1>15, <1>16, <1>22, BindsTrans
<1>24. DOMAIN prog[pc].decs \subseteq DOMAIN SymsOf(prog, ft', pc)
  <2>1. IsTable(v)
    BY <1>19 DEF Framed
  <2>2. PICK syms : /\ PutInto(v, ft', syms)
                    /\ Added(v.tables[v.current].syms, syms, ns, m)
    BY <1>1, <1>7, <1>21, <2>1, PutAllIs
  <2>3. v.current = TableOf(prog, v, pc) /\ v.current \in DOMAIN v.tables
    BY <1>1, <1>3, <1>19, <2>1, CurrentIs DEF IsTable
  <2>4. /\ ft'.map = v.map
        /\ ft'.tables[v.current].syms = syms
        /\ Values(ns) \subseteq DOMAIN syms
    BY <2>2, <2>3 DEF PutInto, SameFrames, Added
  <2>5. SymsOf(prog, ft', pc) = syms
    BY <2>3, <2>4 DEF SymsOf, TableOf
  <2> QED
    BY <1>7, <2>4, <2>5
<1> QED
  BY <1>13, <1>23, <1>24 DEF BoundRight

LEMMA InspectForwardBinds ==
  ASSUME TextInv, TextInv', FrameInv, InspectForward
  PROVE  BoundRight
<1> DEFINE x == ProcSymbol("fwd", pc)
           w == MarkFree(ft, Name)
<1>1. /\ phase = "inspect" /\ prog' = prog /\ prog[pc].op = "forward"
      /\ ft' = Put(w, Name, Len(heap) + 1) /\ heap' = Append(heap, x)
  BY DEF InspectForward, Inspecting, At
<1>2. x.block = prog[pc].block /\ x.name = prog[pc].name
  BY ProcSymbolIs
<1> HIDE DEF x
<1>3. /\ IsText(prog) /\ IsOpen(prog, open) /\ pc \in 1 .. Len(prog)
      /\ Top(open) = (IF pc = 1 THEN 1 ELSE prog[pc].block)
      /\ Extends(prog, prog')
      /\ ProceduresIn(prog') \subseteq ProceduresIn(prog)
  BY <1>1, WalkingText
<1>4. pc # 1 /\ Top(open) = prog[pc].block /\ pc \in HeadingsIn(prog)
  BY <1>1, <1>3 DEF IsText, HeadingsIn
<1>5. IsTable(ft) /\ Symbols(heap) /\ Framed(prog, open, ft)
  BY <1>3, ScopedFacts DEF FrameInv, Scoped
<1>6. Framed(prog, open, w)
  <2>1. SameFrames(ft, w)
    BY <1>5, MarkFreeFrames
  <2> HIDE DEF w
  <2>2. Extends(prog, prog)
    BY <1>3, ExtendsSelf
  <2> QED
    BY <1>3, <1>5, <2>1, <2>2, SameFramed
<1>7. Binds(prog', heap', ft, w)
  BY <1>5, BindsMark
<1> HIDE DEF w
<1>8. /\ BlocksStay(heap, heap')
      /\ heap'[Len(heap) + 1].block = Top(open) /\ heap'[Len(heap) + 1].name = Name
  BY <1>1, <1>2, <1>4, <1>5, BlocksAppend DEF Name
<1>9. DeclaredIn(prog, Name, Top(open))
  BY <1>4 DEF DeclaredIn, Name
<1>10. Binds(prog', heap', w, ft')
  BY <1>1, <1>3, <1>6, <1>8, <1>9, BindsPut
<1> QED
  BY <1>7, <1>8, <1>10, BindsTrans DEF BoundRight

LEMMA InspectEndProcedureBinds ==
  ASSUME TextInv, TextInv', FrameInv, InspectEndProcedure
  PROVE  BoundRight
<1> DEFINE caps == {n \in FreeVariables(ft) \ {prog[Here].name} :
                      ~SymbolOf(ft, n).global /\ SymbolOf(ft, n).kind # "const"}
           closed == [heap EXCEPT ![Inner.sym].caps = caps]
           x == Symbol("closure", Here, ClosureArg)
           u == Put(ft, ClosureArg, Len(heap) + 1)
<1>1. /\ phase = "inspect" /\ prog' = prog
      /\ IF caps = {} THEN ft' = PopFrame(ft) /\ heap' = heap
                      ELSE ft' = PopFrame(u) /\ heap' = Append(closed, x)
  BY DEF InspectEndProcedure, Inspecting
<1>2. IsText(prog) /\ IsOpen(prog, open)
  BY <1>1, WalkingText
<1>3. Symbols(heap) /\ Framed(prog, open, ft)
  BY <1>2, ScopedFacts DEF FrameInv, Scoped
<1>4. Here = Top(open)
  BY DEF Here, Inner, Top
<1> HIDE DEF caps
<1>5. CASE caps = {}
  <2>1. BlocksStay(heap, heap')
    BY <1>1, <1>5 DEF BlocksStay
  <2>2. Binds(prog', heap', ft, ft')
    BY <1>1, <1>5, BindsPop
  <2> QED
    BY <2>1, <2>2 DEF BoundRight
<1>6. CASE caps # {}
  <2>1. heap = [h \in 1 .. Len(heap) |-> heap[h]] /\ Len(heap) \in Nat
    BY <1>3 DEF Symbols, IsSeq
  <2>2. closed = [h \in 1 .. Len(heap) |-> closed[h]]
    BY <2>1
  <2>3. Len(closed) = Len(heap) /\ IsSeq(closed)
    <3>1. Len(closed) = Len(heap)
      BY <2>1, <2>2, LenOfDomain
    <3> QED
      BY <2>1, <2>2, <3>1 DEF IsSeq
  <2>4. ASSUME NEW h \in 1 .. Len(heap)
        PROVE  closed[h].block = heap[h].block /\ closed[h].name = heap[h].name
    <3>1. closed[h] = heap[h] \/ closed[h] = WithCaps(heap[h], caps)
      BY <2>1 DEF WithCaps
    <3>2. IsSymbol(heap[h])
      BY <1>3 DEF Symbols
    <3> HIDE DEF closed
    <3> QED
      BY <3>1, <3>2, SymbolWith
  <2>5. x.block = Here /\ x.name = ClosureArg
    BY SymbolIs
  <2> HIDE DEF closed, x
  <2>6. heap' = Append(closed, x)
    BY <1>1, <1>6
  <2>7. /\ BlocksStay(heap, heap')
        /\ heap'[Len(heap) + 1].block = Top(open) /\ heap'[Len(heap) + 1].name = ClosureArg
    BY <1>4, <2>3, <2>4, <2>5, <2>6, Appended DEF BlocksStay
  <2>8. Binds(prog', heap', ft, u)
    BY <1>1, <1>2, <1>3, <2>7, BindsPut
  <2> HIDE DEF u
  <2>9. Binds(prog', heap', u, ft')
    BY <1>1, <1>6, BindsPop
  <2> QED
    BY <2>7, <2>8, <2>9, BindsTrans DEF BoundRight
<1> QED
  BY <1>5, <1>6

LEMMA InspectorBinds ==
  ASSUME TextInv, TextInv', FrameInv, Inspector
  PROVE  /\ BoundRight
         /\ prog[pc].op \in {"module", "procedure"} =>
               DOMAIN prog[pc].decs \subseteq DOMAIN SymsOf(prog, ft', pc)
<1>1. IsTable(ft)
  BY DEF FrameInv, Scoped, Framed
<1>2. ASSUME heap' = heap,
             \/ ft' = ft \/ ft' = ResetFree(ft)
             \/ \E n : ft' = MarkFree(ft, n)
             \/ \E n, m : ft' = MarkFree(MarkFree(ft, n), m)
      PROVE  BoundRight
  <2>1. BlocksStay(heap, heap')
    BY <1>2 DEF BlocksStay
  <2>2. ASSUME NEW n, NEW m
        PROVE  Binds(prog', heap', ft, MarkFree(MarkFree(ft, n), m))
    <3> DEFINE w == MarkFree(ft, n)
    <3>1. Binds(prog', heap', ft, w) /\ IsTable(w)
      BY <1>1, BindsMark, MarkFreeFrames, SameFramesTable
    <3> HIDE DEF w
    <3>2. Binds(prog', heap', w, MarkFree(w, m))
      BY <3>1, BindsMark
    <3>3. Binds(prog', heap', ft, MarkFree(w, m))
      BY <3>1, <3>2, BindsTrans
    <3> QED
      BY <3>3 DEF w
  <2>3. Binds(prog', heap', ft, ft')
    BY <1>1, <1>2, <2>2, BindsSame, BindsMark, BindsReset
  <2> QED
    BY <2>1, <2>3 DEF BoundRight
<1>3. CASE InspectModule
  BY <1>3, InspectModuleBinds
<1>4. CASE InspectProcedure
  BY <1>4, InspectProcedureBinds
<1>5. CASE InspectForward
  BY <1>5, InspectForwardBinds DEF InspectForward, Inspecting, At
<1>6. CASE InspectEndProcedure
  BY <1>6, InspectEndProcedureBinds DEF InspectEndProcedure, Inspecting, At
<1>7. CASE InspectBegin
  BY <1>2, <1>7 DEF InspectBegin, Inspecting, At
<1>8. CASE InspectUse
  BY <1>2, <1>8 DEF InspectUse, Inspecting, At
<1>9. CASE InspectCall
  BY <1>2, <1>9 DEF InspectCall, Inspecting, At
<1>10. CASE InspectReturn
  BY <1>2, <1>10 DEF InspectReturn, Inspecting, At
<1>11. CASE InspectEndModule
  BY <1>2, <1>11 DEF InspectEndModule, Inspecting, At
<1> QED
  BY <1>3, <1>4, <1>5, <1>6, <1>7, <1>8, <1>9, <1>10, <1>11 DEF Inspector

LEMMA HoldInit == Init /\ Distinct => HoldInv
<1> SUFFICES ASSUME Init, Distinct
             PROVE  HoldInv
  OBVIOUS
<1>1. TextInv /\ FrameInv
  BY TextInit, FrameInit
<1>2. PICK decs \in DecsOf(Kinds \cap {"var", "const"}) :
         /\ phase = "parse"
         /\ prog = << Heading("module", NoName, 0, decs, FALSE) >>
         /\ heap = UntypedSymbols(SetToSeq(DOMAIN decs), decs, 1)
         /\ ft = PutAll(EmptyFrameTable, SetToSeq(DOMAIN decs), 0)
  BY DEF Init
<1> DEFINE ns == SetToSeq(DOMAIN decs)
           s  == EmptyFrameTable
<1>3. IsSeq(ns) /\ Values(ns) = DOMAIN decs
  <2>1. DOMAIN decs \subseteq Idents
    BY DEF DecsOf, Idents
  <2> QED
    BY <2>1, InOrder
<1>4. \A k \in 1 .. Len(ns) : heap[k].block = 1 /\ heap[k].name = ns[k]
  BY <1>2, <1>3, UntypedAre
<1>5. Len(prog) = 1 /\ prog[1].op = "module" /\ prog[1].decs = decs
  BY <1>2 DEF Heading
<1>6. BlocksIn(prog) = {1} /\ FrameOf(prog, 1) = Root
  BY <1>5 DEF BlocksIn, ProceduresIn, FrameOf
<1>7. /\ IsTable(s) /\ s.current = 1 /\ s.map[Root] = 1 /\ 1 \in DOMAIN s.tables
      /\ s.tables[1].syms = NoBindings
  <2>1. /\ s.tables = << NewTable(0) >> /\ s.map = [f \in {Root} |-> 1] /\ s.current = 1
        /\ s = [tables |-> s.tables, map |-> s.map, stack |-> s.stack, current |-> s.current]
    BY DEF EmptyFrameTable
  <2> HIDE DEF s
  <2>2. Len(s.tables) = 1 /\ DOMAIN s.tables = 1 .. 1 /\ s.tables[1] = NewTable(0)
    BY <2>1
  <2> QED
    BY <2>1, <2>2 DEF IsTable, NewTable
<1> HIDE DEF ns, s
<1>8. PICK syms : PutInto(s, ft, syms) /\ Added(s.tables[1].syms, syms, ns, 0)
  BY <1>2, <1>3, <1>7, PutAllIs DEF ns, s
<1>9. SymsOf(prog, ft, 1) = syms
  BY <1>6, <1>7, <1>8 DEF SymsOf, TableOf, PutInto, SameFrames
<1>10. DOMAIN syms = DOMAIN decs
  BY <1>3, <1>7, <1>8 DEF Added, NoBindings
<1>11. \A n \in DOMAIN syms : syms[n] \in 1 .. Len(ns) /\ ns[syms[n]] = n
  <2>1. \A n \in DOMAIN syms : syms[n] \in 0 + 1 .. 0 + Len(ns) /\ ns[syms[n] - 0] = n
    BY <1>3, <1>8, <1>10 DEF Added
  <2> QED
    BY <1>3, <2>1 DEF IsSeq
<1>12. Holds(prog, ft, heap)
  BY <1>4, <1>5, <1>6, <1>9, <1>10, <1>11 DEF Holds, DeclaredIn
<1> QED
  BY <1>2, <1>12 DEF HoldInv

LEMMA HoldKept ==
  ASSUME TextInv, TextInv', FrameInv, FrameInv', HoldInv, Distinct, [Next]_vars
  PROVE  HoldInv'
<1>1. CASE Generator
  BY <1>1, PassSteps DEF PassStep, HoldInv, Generator, Generating, GenerateModule,
     GenerateProcedure, GenerateForward, GenerateBegin, GenerateUse, GenerateCall,
     GenerateReturn, GenerateEndProcedure, GenerateEndModule, Abort, Onward
<1>2. CASE UNCHANGED vars
  BY <1>2 DEF vars, HoldInv, Holds, PutBefore
<1>3. ASSUME BoundRight, phase \in {"parse", "inspect"}, Extends(prog, prog')
      PROVE  Holds(prog', ft', heap')
  <2>1. IsText(prog) /\ Framed(prog, open, ft) /\ Held(ft, Len(heap)) /\ Holds(prog, ft, heap)
    BY <1>3 DEF HoldInv, FrameInv, Scoped, Extends
  <2>2. Framed(prog', open', ft') /\ NestedIn(prog', ft')
    BY DEF FrameInv, Scoped
  <2> QED
    BY <1>3, <2>1, <2>2, HoldStep DEF BoundRight
<1>4. CASE Parser
  <2>1. phase = "parse" /\ (phase' = "parse" \/ (phase' = "inspect" /\ pc' = 1))
    BY <1>4, ParserSteps DEF ParserStep
  <2>2. Extends(prog, prog')
    <3>1. PICK it : prog' = Append(prog, it)
      BY <1>4, ParserSteps DEF ParserStep
    <3> QED
      BY <2>1, <3>1, ParsingText
  <2>3. Holds(prog', ft', heap')
    BY <1>3, <1>4, <2>1, <2>2, ParserBinds
  <2>4. \A b \in BlocksIn(prog') : ~(b < 1)
    BY <2>2, BlocksAre DEF Extends, IsText, IsSeq
  <2> QED
    BY <2>1, <2>3, <2>4 DEF HoldInv, PutBefore
<1>5. CASE Inspector
  <2>1. phase = "inspect" /\ prog' = prog
    BY <1>5 DEF Inspector, Inspecting, InspectModule, InspectProcedure, InspectForward,
                InspectBegin, InspectUse, InspectCall, InspectReturn, InspectEndProcedure,
                InspectEndModule
  <2>2. /\ IsText(prog) /\ pc \in 1 .. Len(prog) /\ Extends(prog, prog')
    BY <2>1, WalkingText
  <2>3. phase' = "inspect" => pc' = pc + 1
    BY <1>5, <2>1, PassSteps DEF PassStep
  <2>4. BoundRight
    BY <1>5, InspectorBinds
  <2>5. Holds(prog', ft', heap')
    BY <1>3, <2>1, <2>2, <2>4
  <2>6. ASSUME phase' = "inspect", NEW b \in BlocksIn(prog), b < pc + 1
        PROVE  DOMAIN prog[b].decs \subseteq DOMAIN SymsOf(prog, ft', b)
    <3>1. b \in 1 .. Len(prog)
      BY <2>2, BlocksAre
    <3>2. CASE b = pc
      <4>1. prog[pc].op \in {"module", "procedure"}
        BY <2>2, <3>2 DEF BlocksIn, ProceduresIn, IsText
      <4> QED
        BY <1>5, <3>2, <4>1, InspectorBinds
    <3>3. CASE b # pc
      <4>1. b < pc
        BY <2>2, <2>6, <3>1, <3>3
      <4>2. DOMAIN prog[b].decs \subseteq DOMAIN SymsOf(prog, ft, b)
        BY <2>1, <4>1 DEF HoldInv, PutBefore
      <4>3. FrameOf(prog, b) \in DOMAIN ft.map /\ TableOf(prog, ft, b) \in DOMAIN ft.tables
        <5>1. Framed(prog, open, ft)
          BY DEF FrameInv, Scoped
        <5>2. FrameOf(prog, b) \in DOMAIN ft.map /\ TableOf(prog, ft, b) \in 1 .. Len(ft.tables)
          BY <2>2, <5>1, FramesOf
        <5>3. DOMAIN ft.tables = 1 .. Len(ft.tables)
          BY <5>1 DEF Framed, IsTable
        <5> QED
          BY <5>2, <5>3
      <4>4. Grows(ft, ft')
        BY <2>4 DEF BoundRight, Binds
      <4>5. DOMAIN SymsOf(prog, ft, b) \subseteq DOMAIN SymsOf(prog, ft', b)
        BY <4>3, <4>4 DEF Grows, SymsOf, TableOf
      <4> QED
        BY <4>2, <4>5
    <3> QED
      BY <3>2, <3>3
  <2> QED
    BY <2>1, <2>3, <2>5, <2>6 DEF HoldInv, PutBefore
<1> QED
  BY <1>1, <1>2, <1>4, <1>5 DEF Next

-----------------------------------------------------------------------------
(* The blocks around an item.                                              *)

IsAround(A, p) ==
    A = [i \in 0 .. Len(p) |-> IF i = 0 THEN {} ELSE {i} \cup A[p[i].block]]

(* The items that are in every set with i that is closed under going out. *)
Outward(p, S) == \A i \in S \cap 1 .. Len(p) : p[i].block \in S

LEMMA AroundExists ==
  ASSUME NEW p, IsText(p)
  PROVE  \E A : IsAround(A, p)
<1> DEFINE N == 0 .. Len(p)
           B(i) == {j \in N \ {0} : \A S \in SUBSET N : i \in S /\ Outward(p, S) => j \in S}
           A == [i \in N |-> B(i)]
<1>1. Len(p) \in Nat /\ \A i \in 1 .. Len(p) : p[i].block \in N /\ i \in N /\ i # 0
  BY DEF IsText, IsSeq
<1>2. B(0) = {}
  <2>1. {0} \in SUBSET N /\ Outward(p, {0})
    BY <1>1 DEF Outward
  <2> QED
    BY <2>1
<1>3. ASSUME NEW i \in 1 .. Len(p)
      PROVE  B(i) = {i} \cup B(p[i].block)
  <2>1. i \in B(i)
    BY <1>1
  <2>2. \A S : i \in S /\ Outward(p, S) => p[i].block \in S
    BY DEF Outward
  <2>3. B(p[i].block) \subseteq B(i)
    BY <2>2
  <2>4. ASSUME NEW j \in B(i), j # i
        PROVE  j \in B(p[i].block)
    <3> SUFFICES ASSUME NEW S \in SUBSET N, p[i].block \in S, Outward(p, S)
                 PROVE  j \in S
      BY <2>4
    <3>1. S \cup {i} \in SUBSET N /\ Outward(p, S \cup {i})
      BY <1>1 DEF Outward
    <3> QED
      BY <2>4, <3>1
  <2> HIDE DEF B
  <2> QED
    BY <2>1, <2>3, <2>4
<1> HIDE DEF B
<1>4. ASSUME NEW i \in N
      PROVE  B(i) = IF i = 0 THEN {} ELSE {i} \cup A[p[i].block]
  BY <1>1, <1>2, <1>3
<1>5. IsAround(A, p)
  BY <1>4 DEF IsAround
<1> QED
  BY <1>5

LEMMA AroundUnfolds ==
  ASSUME IsText(prog)
  PROVE  /\ Around(0) = {}
         /\ \A i \in 1 .. Len(prog) : Around(i) = {i} \cup Around(prog[i].block)
<1> DEFINE A == CHOOSE A : A = [i \in 0 .. Len(prog) |->
                                  IF i = 0 THEN {} ELSE {i} \cup A[prog[i].block]]
<1>1. \E B : B = [i \in 0 .. Len(prog) |-> IF i = 0 THEN {} ELSE {i} \cup B[prog[i].block]]
  BY AroundExists DEF IsAround
<1>2. A = [i \in 0 .. Len(prog) |-> IF i = 0 THEN {} ELSE {i} \cup A[prog[i].block]]
  BY <1>1
<1>3. \A b : Around(b) = A[b]
  BY DEF Around
<1> HIDE DEF A
<1>4. 0 \in 0 .. Len(prog) /\ \A i \in 1 .. Len(prog) : i \in 0 .. Len(prog) /\ i # 0
  BY DEF IsText, IsSeq
<1> QED
  BY <1>2, <1>3, <1>4

(* The blocks around the innermost block are those that are open. *)
LEMMA AroundOpen ==
  ASSUME NEW o, IsText(prog), IsOpen(prog, o)
  PROVE  Around(Top(o)) = {o[k].item : k \in 1 .. Len(o)}
<1> DEFINE L == Len(o)
           M == {m \in Nat : m + 1 <= L => Around(o[m + 1].item) = {o[k].item : k \in 1 .. m + 1}}
<1>1. L \in Nat /\ L >= 1
  BY DEF IsOpen, IsSeq
<1>2. \A k \in 1 .. L : o[k].item \in 1 .. Len(prog)
  BY DEF IsOpen
<1>3. 0 \in M
  <2>1. o[1].item = 1 /\ 1 \in 1 .. Len(prog) /\ prog[1].block = 0
    BY <1>1 DEF IsOpen, IsText, IsSeq
  <2>2. Around(1) = {1}
    BY <2>1, AroundUnfolds
  <2>3. {o[k].item : k \in 1 .. 0 + 1} = {1}
    BY <2>1
  <2> QED
    BY <2>1, <2>2, <2>3
<1>4. ASSUME NEW m \in M \cap Nat
      PROVE  m + 1 \in M
  <2> SUFFICES ASSUME m + 1 + 1 <= L
               PROVE  Around(o[m + 1 + 1].item) = {o[k].item : k \in 1 .. m + 1 + 1}
    OBVIOUS
  <2>0. m + 1 + 1 = m + 2 /\ m + 2 <= L
    BY <1>1
  <2>1. m + 2 \in 2 .. L /\ m + 2 \in 1 .. L /\ m + 2 - 1 = m + 1 /\ m + 1 <= L
    BY <1>1, <2>0
  <2>2. prog[o[m + 2].item].block = o[m + 1].item
    BY <2>1 DEF IsOpen
  <2>3. Around(o[m + 1].item) = {o[k].item : k \in 1 .. m + 1}
    BY <2>1
  <2>4. Around(o[m + 2].item) = {o[m + 2].item} \cup Around(o[m + 1].item)
    BY <1>2, <2>1, <2>2, AroundUnfolds
  <2>5. 1 .. m + 2 = (1 .. m + 1) \cup {m + 2}
    OBVIOUS
  <2> QED
    BY <2>0, <2>3, <2>4, <2>5
<1> HIDE DEF M
<1>5. L - 1 \in M
  BY <1>1, <1>3, <1>4, SetInduction
<1>6. L - 1 + 1 = L
  BY <1>1
<1> QED
  BY <1>1, <1>5, <1>6 DEF M, Top

-----------------------------------------------------------------------------
(* What a name in a statement is bound to.                                 *)

(* While the inspector is behind the heading of a block, the open frames   *)
(* hold the names that their blocks declare.                               *)
LEMMA OpenFramesHold ==
  ASSUME TextInv, FrameInv, HoldInv, phase = "inspect", pc # 1,
         NEW n \in Idents, NEW k \in 1 .. Len(open)
  PROVE  LET a == open[k].item
             syms == ft.tables[ft.stack[k]].syms
         IN  /\ n \in DOMAIN syms <=> n \in DOMAIN prog[a].decs \/ HeadingsOf(n, a) # {}
             /\ n \in DOMAIN syms => heap[syms[n]].block = a
<1> DEFINE a == open[k].item
           syms == ft.tables[ft.stack[k]].syms
<1>1. /\ IsText(prog) /\ IsOpen(prog, open) /\ pc \in 1 .. Len(prog)
      /\ Top(open) = IF pc = 1 THEN 1 ELSE prog[pc].block
  BY DEF TextInv, Walking
<1>2. pc \in 2 .. Len(prog)
  BY <1>1 DEF IsText, IsSeq
<1>3. a \in BlocksIn(prog) /\ a \in 1 .. Len(prog)
  BY <1>1, OpenBlocks, BlocksAre
<1>4. a < pc
  <2>1. prog[pc].block \in 1 .. pc - 1 /\ Top(open) = prog[pc].block
    BY <1>1, <1>2 DEF IsText
  <2>2. Len(open) \in 1 .. Len(open) /\ Len(open) \in Nat
    BY <1>1 DEF IsOpen, IsSeq
  <2>3. CASE k = Len(open)
    BY <1>2, <2>1, <2>3 DEF Top
  <2>4. CASE k # Len(open)
    <3>1. a < Top(open)
      BY <1>1, <2>2, <2>4 DEF IsOpen, Top
    <3> QED
      BY <1>2, <1>3, <2>1, <3>1
  <2> QED
    BY <2>3, <2>4
<1>5. syms = SymsOf(prog, ft, a)
  BY <1>1 DEF FrameInv, Scoped, Framed, SymsOf
<1>6. n # ClosureArg
  BY NamesAssumption DEF Idents
<1>7. DOMAIN prog = 1 .. Len(prog)
  BY <1>1 DEF IsText, IsSeq
<1>8. HeadingsOf(n, a) # {} <=> \E i \in HeadingsIn(prog) : prog[i].name = n /\ prog[i].block = a
  BY <1>7 DEF HeadingsOf, HeadingsIn
<1> HIDE DEF a, syms
<1>9. n \in DOMAIN syms => DeclaredIn(prog, n, a) /\ heap[syms[n]].block = a
  BY <1>3, <1>5, <1>6 DEF HoldInv, Holds
<1>10. n \in DOMAIN prog[a].decs => n \in DOMAIN syms
  BY <1>3, <1>4, <1>5 DEF HoldInv, PutBefore
<1>11. ASSUME NEW i \in HeadingsIn(prog), prog[i].name = n, prog[i].block = a
       PROVE  n \in DOMAIN syms
  BY <1>5, <1>11 DEF FrameInv, Scoped, HeadingsPut
<1> QED
  BY <1>8, <1>9, <1>10, <1>11 DEF DeclaredIn, a, syms

LEMMA OpenFramesNested ==
  ASSUME TextInv, FrameInv, Distinct
  PROVE  Nested(ft)
<1>1. IsText(prog) /\ IsOpen(prog, open)
  BY DEF TextInv, Writing, Walking
<1>2. Framed(prog, open, ft) /\ NestedIn(prog, ft) /\ IsTable(ft)
  BY DEF FrameInv, Scoped, Framed
<1>3. Len(open) \in Nat \ {0} /\ Len(ft.stack) = Len(open) /\ 1 \in 1 .. Len(open)
  BY <1>1, <1>2 DEF IsOpen, IsSeq, Framed
<1>4. WellLinked(ft)
  BY <1>1, <1>2, CurrentIs DEF WellLinked, Framed, IsTable
<1>5. \A k \in 1 .. Len(ft.stack) : ft.stack[k] \in 1 .. Len(ft.tables)
  BY <1>1, <1>2, <1>3, OpenBlocks, FramesOf DEF Framed
<1>6. ft.stack[1] = 1
  <2>1. ft.stack[1] = TableOf(prog, ft, 1)
    BY <1>1, <1>2, <1>3 DEF Framed, IsOpen
  <2> QED
    BY <1>2, <2>1 DEF Framed, TableOf, FrameOf
<1>7. FramesNest
  BY FramesAreNested
<1> QED
  BY <1>2, <1>3, <1>4, <1>5, <1>6, <1>7 DEF Nested, NestedIn, FramesNest, Framed

LEMMA NameFound ==
  ASSUME TextInv, FrameInv, HoldInv, Distinct, phase = "inspect", pc # 1, NEW n \in Idents
  PROVE  LET b == prog[pc].block
             a == Home(n, b)
         IN  /\ Found(ft, n) <=> Homes(n, b) # {}
             /\ Found(ft, n) =>
                  /\ \E k \in 1 .. Len(open) : a = open[k].item
                  /\ n \in DOMAIN prog[a].decs \/ HeadingsOf(n, a) # {}
                  /\ n \in DOMAIN SymsOf(prog, ft, a)
                  /\ Lookup(ft, n) = SymsOf(prog, ft, a)[n]
                  /\ SymbolOf(ft, n).block = a
                  /\ InnermostHolding(ft, n) = Len(open) <=> a = b
<1> DEFINE b == prog[pc].block
           K == InnermostHolding(ft, n)
           a(k) == open[k].item
           L == Len(open)
<1>1. /\ IsText(prog) /\ IsOpen(prog, open) /\ pc \in 1 .. Len(prog)
      /\ Top(open) = IF pc = 1 THEN 1 ELSE prog[pc].block
  BY DEF TextInv, Walking
<1>2. Top(open) = b
  BY <1>1
<1>3. Around(b) = {a(k) : k \in 1 .. L}
  BY <1>1, <1>2, AroundOpen
<1>4. Len(ft.stack) = L
  BY DEF FrameInv, Scoped, Framed
<1>5. /\ Found(ft, n) <=> Holding(ft, n) # {}
      /\ Found(ft, n) => /\ K \in Holding(ft, n)
                         /\ \A k \in Holding(ft, n) : k <= K
                         /\ Definer(ft, n) = ft.stack[K]
  BY OpenFramesNested, FoundInnermost
<1>6. Homes(n, b) = {a(k) : k \in Holding(ft, n)}
  <2>1. \A k \in 1 .. L : k \in Holding(ft, n) <=>
                            n \in DOMAIN prog[a(k)].decs \/ HeadingsOf(n, a(k)) # {}
    BY <1>4, OpenFramesHold DEF Holding
  <2>2. \A k \in Holding(ft, n) : k \in 1 .. L
    BY <1>4 DEF Holding
  <2> HIDE DEF b
  <2>3. \A x : x \in Homes(n, b) <=> /\ x \in {a(k) : k \in 1 .. L}
                                     /\ n \in DOMAIN prog[x].decs \/ HeadingsOf(n, x) # {}
    BY <1>3 DEF Homes
  <2> HIDE DEF a
  <2> QED
    BY <2>1, <2>2, <2>3
<1>7. Found(ft, n) <=> Homes(n, b) # {}
  <2> HIDE DEF K, b, a
  <2> QED
    BY <1>5, <1>6
<1>8. ASSUME Found(ft, n)
      PROVE  /\ \E k \in 1 .. L : Home(n, b) = a(k)
             /\ n \in DOMAIN prog[Home(n, b)].decs \/ HeadingsOf(n, Home(n, b)) # {}
             /\ n \in DOMAIN SymsOf(prog, ft, Home(n, b))
             /\ Lookup(ft, n) = SymsOf(prog, ft, Home(n, b))[n]
             /\ SymbolOf(ft, n).block = Home(n, b)
             /\ K = L <=> Home(n, b) = b
  <2> HIDE DEF K
  <2>1. K \in 1 .. L /\ n \in DOMAIN ft.tables[ft.stack[K]].syms
    BY <1>4, <1>5, <1>8 DEF Holding
  <2>2. \A k \in Holding(ft, n) : a(K) >= a(k) /\ a(k) \in Nat
    <3> SUFFICES ASSUME NEW k \in Holding(ft, n)
                 PROVE  a(K) >= a(k) /\ a(k) \in Nat
      OBVIOUS
    <3>1. k \in 1 .. L /\ k <= K
      BY <1>4, <1>5, <1>8 DEF Holding
    <3>2. a(k) \in 1 .. Len(prog) /\ a(K) \in 1 .. Len(prog) /\ Len(prog) \in Nat /\ L \in Nat
      BY <1>1, <2>1, <3>1 DEF IsOpen, IsText, IsSeq
    <3>3. k < K => a(k) < a(K)
      BY <1>1, <2>1, <3>1 DEF IsOpen
    <3>4. k = K \/ k < K
      BY <2>1, <3>1, <3>2
    <3> HIDE DEF a
    <3> QED
      BY <3>2, <3>3, <3>4
  <2>3. Home(n, b) = a(K)
    <3> HIDE DEF a, b
    <3>1. a(K) \in Homes(n, b) /\ \A x \in Homes(n, b) : a(K) >= x /\ x \in Nat
      BY <1>5, <1>6, <1>8, <2>2
    <3>2. Home(n, b) \in Homes(n, b) /\ \A x \in Homes(n, b) : Home(n, b) >= x
      BY <3>1 DEF Home, Max
    <3> QED
      BY <3>1, <3>2
  <2>4. ft.stack[K] = TableOf(prog, ft, a(K))
    BY <2>1 DEF FrameInv, Scoped, Framed
  <2>5. SymsOf(prog, ft, a(K)) = ft.tables[ft.stack[K]].syms
    BY <2>4 DEF SymsOf
  <2>6. Lookup(ft, n) = SymsOf(prog, ft, a(K))[n]
    BY <1>5, <1>8, <2>5 DEF Lookup
  <2>7. SymbolOf(ft, n).block = a(K) /\ (n \in DOMAIN prog[a(K)].decs \/ HeadingsOf(n, a(K)) # {})
    BY <2>1, <2>5, <2>6, OpenFramesHold DEF SymbolOf
  <2>8. K = L <=> a(K) = b
    <3>1. a(L) = b /\ L \in 1 .. L
      BY <1>1, <1>2 DEF Top, IsOpen, IsSeq
    <3>2. \A j, k \in 1 .. L : j < k => a(j) < a(k)
      BY <1>1 DEF IsOpen
    <3>3. L \in Nat /\ Len(prog) \in Nat /\ \A k \in 1 .. L : a(k) \in 1 .. Len(prog)
      BY <1>1 DEF IsOpen, IsText, IsSeq
    <3> HIDE DEF a, b, L
    <3>4. K # L => K < L
      BY <2>1, <3>3
    <3>5. a(L) \in Nat /\ a(K) \in Nat
      BY <2>1, <3>1, <3>3
    <3> QED
      BY <2>1, <3>1, <3>2, <3>4, <3>5
  <2> HIDE DEF a, b
  <2> QED
    BY <2>1, <2>3, <2>5, <2>6, <2>7, <2>8
<1> QED
  BY <1>7, <1>8

LEMMA RefsKept ==
  ASSUME TextInv, FrameInv, HoldInv, RefsInv, Distinct, [Next]_vars
  PROVE  RefsInv'
<1> DEFINE Right(ref) == LET b == prog[ref.at].block
                         IN  Homes(ref.name, b) # {} /\ ref.block = Home(ref.name, b)
           New == \A ref \in refs' \ refs : ref.at \in 1 .. Len(prog) /\ Right(ref)
<1>1. CASE Parser
  <2>1. phase = "parse" /\ refs' = refs
    BY <1>1 DEF Parser, ParseProcedure, ParseForward, ParseBegin, ParseUse, ParseCall, ParseReturn,
                ParseStatement, ParseEndProcedure, ParseEndModule, Parsing
  <2>2. refs' = {}
    BY <2>1 DEF RefsInv
  <2> QED
    BY <2>2 DEF RefsInv, LexicalScoping
<1>2. ASSUME prog' = prog, phase' # "parse", New
      PROVE  RefsInv'
  <2>1. \A ref \in refs' : ref.at \in 1 .. Len(prog) /\ Right(ref)
    BY <1>2 DEF RefsInv, LexicalScoping
  <2>2. \A n, b : Homes(n, b)' = Homes(n, b) /\ Home(n, b)' = Home(n, b)
    BY <1>2 DEF Homes, Home, Around, HeadingsOf
  <2>3. LexicalScoping'
    BY <1>2, <2>1, <2>2 DEF LexicalScoping
  <2> QED
    BY <1>2, <2>1, <2>3 DEF RefsInv
<1>3. CASE Generator
  <2>1. refs' = refs /\ prog' = prog /\ phase' # "parse"
    BY <1>3, PassSteps DEF PassStep, Generator, Generating, GenerateModule,
     GenerateProcedure, GenerateForward, GenerateBegin, GenerateUse, GenerateCall,
     GenerateReturn, GenerateEndProcedure, GenerateEndModule, Abort
  <2> QED
    BY <1>2, <2>1
<1>4. CASE UNCHANGED vars
  <2>1. prog' = prog /\ refs' = refs /\ phase' = phase
    BY <1>4 DEF vars
  <2>2. CASE phase = "parse"
    BY <2>1, <2>2 DEF RefsInv, LexicalScoping
  <2>3. CASE phase # "parse"
    BY <1>2, <2>1, <2>3
  <2> QED
    BY <2>2, <2>3
<1>5. CASE Inspector
  <2>1. phase = "inspect" /\ prog' = prog /\ phase' # "parse"
    BY <1>5, PassSteps DEF PassStep, Inspector, Inspecting, InspectModule, InspectProcedure,
       InspectForward, InspectBegin, InspectUse, InspectCall, InspectReturn, InspectEndProcedure,
       InspectEndModule
  <2>2. IsText(prog) /\ pc \in 1 .. Len(prog)
    BY <2>1 DEF TextInv, Walking
  <2>3. ASSUME NEW n \in Idents, prog[pc].op \in {"use", "call"}, Found(ft, n)
        PROVE  Ref(ft, n).at \in 1 .. Len(prog) /\ Right(Ref(ft, n))
    <3>1. pc # 1
      BY <2>2, <2>3 DEF IsText
    <3> QED
      BY <2>1, <2>2, <2>3, <3>1, NameFound DEF Ref
  <2> HIDE DEF Right
  <2>4. CASE InspectUse
    <3>1. prog[pc].op = "use" /\ refs' \subseteq refs \cup (IF Found(ft, Name) THEN {Ref(ft, Name)} ELSE {})
      BY <2>4 DEF InspectUse, Inspecting, At
    <3> QED
      BY <1>2, <2>1, <2>2, <2>3, <3>1, NamesHere
  <2>5. CASE InspectCall
    <3> DEFINE arg == prog[pc].arg
    <3>1. /\ prog[pc].op = "call"
          /\ \A ref \in refs' \ refs :
                \/ ref = Ref(ft, Name) /\ Found(ft, Name)
                \/ ref = Ref(ft, arg) /\ Found(ft, arg) /\ arg # NoName
      BY <2>5 DEF InspectCall, Inspecting, At, BadCall
    <3> QED
      BY <1>2, <2>1, <2>2, <2>3, <3>1, NamesHere
  <2>6. CASE refs' = refs
    BY <1>2, <2>1, <2>6
  <2> QED
    BY <1>5, <2>4, <2>5, <2>6 DEF Inspector, InspectModule, InspectProcedure, InspectForward,
       InspectBegin, InspectReturn, InspectEndProcedure, InspectEndModule
<1> QED
  BY <1>1, <1>3, <1>4, <1>5 DEF Next

(* In every program whose procedures have different names, each name in a  *)
(* statement that the inspector finds is bound to the declaration in the   *)
(* innermost block around the statement that has one: not to what the      *)
(* parser or another procedure left in a frame, nor to a name of an inner  *)
(* block, nor, though two passes fill the same frames, to a name that is   *)
(* declared elsewhere.                                                     *)
THEOREM NamesBoundLexically ==
  ASSUME Distinct
  PROVE  Spec => []LexicalScoping
<1> DEFINE Inv == TextInv /\ FrameInv /\ HoldInv /\ RefsInv
<1>1. Init => Inv
  BY TextInit, FrameInit, HoldInit DEF Init, RefsInv, LexicalScoping
<1>2. Inv /\ [Next]_vars => Inv'
  BY TextStep, FrameStep, HoldKept, RefsKept
<1>3. Inv => LexicalScoping
  BY DEF RefsInv
<1> QED
  BY <1>1, <1>2, <1>3, PTL DEF Spec

-----------------------------------------------------------------------------
(* The closures.  What a procedure captures is read off its table when its *)
(* statements end, from the marks that lookups left there.  They are right *)
(* because the marks are reset where the statements begin, because nothing *)
(* but these statements comes between, and because each lookup marks the   *)
(* current table exactly when the name is declared further out; and the    *)
(* symbols that are looked up have been given their kinds by then.         *)

BodyOps == {"begin", "use", "call", "return"}

(* A begin is the first of the statements of a block, its end the last of  *)
(* its items, nothing comes between them but its statements, and no        *)
(* heading after the begin.                                                *)
Bodies(p) ==
    /\ \A i \in 1 .. Len(p) :
          /\ \A n \in DOMAIN p[i].decs : p[i].decs[n] \in Kinds
          /\ p[i].op # "call" => p[i].arg = NoName
          /\ p[i].op \in {"use", "call", "return", "end"} => i > 1 /\ p[i - 1].op \in BodyOps
    /\ \A i, j \in 1 .. Len(p) : j < i /\ p[j].block = p[i].block =>
          /\ p[i].op \in {"procedure", "forward", "begin"} => p[j].op \notin BodyOps
          /\ p[j].op # "end"

(* What the parser knows of the blocks that are open. *)
OpenBodies(p, o) ==
    /\ \A k \in 1 .. Len(o) - 1 : ~o[k].stats
    /\ o[Len(o)].stats => p[Len(p)].op \in BodyOps
    /\ \A k \in 1 .. Len(o), i \in 1 .. Len(p) :
          p[i].block = o[k].item =>
            /\ p[i].op # "end"
            /\ p[i].op \in BodyOps => o[k].stats

BodyInv == Bodies(prog) /\ (phase = "parse" => OpenBodies(prog, open))

(* x is the symbol that the inspector makes for the name n of block b. *)
Typed(x, n, b) ==
    /\ x.kind = prog[b].decs[n] /\ x.name = n /\ x.block = b
    /\ x.global = (b = 1)

(* The inspector has typed the names of the blocks before i. *)
TypedBefore(s, H, i) ==
    \A b \in BlocksIn(prog) : b < i => \A n \in DOMAIN prog[b].decs :
        n \in DOMAIN SymsOf(prog, s, b) /\ Typed(H[SymsOf(prog, s, b)[n]], n, b)

TypedInv == phase = "inspect" => TypedBefore(ft, heap, pc)

Uses(i, n) == (prog[i].op = "use" /\ prog[i].name = n) \/ prog[i].arg = n

(* The statements of block b before i use n. *)
UsesBefore(n, b, i) == \E j \in 1 .. i - 1 : prog[j].block = b /\ Uses(j, n)

(* Block b gets n from a block around it. *)
FromAround(n, b) == Homes(n, b) # {} /\ Home(n, b) # b

InBody == pc > 1 /\ prog[pc - 1].op \in BodyOps

(* Among the statements of a procedure, the names that are free are those  *)
(* that the statements before used and that are declared further out.      *)
FreeInv ==
    phase = "inspect" /\ ~errors /\ InBody /\ prog[pc].block # 1 =>
      \A n \in Vars : n \in FreeVariables(ft) <=>
         UsesBefore(n, prog[pc].block, pc) /\ FromAround(n, prog[pc].block)

(* Whatever is free there, a procedure or a variable, is declared further  *)
(* out.                                                                    *)
FreeOut ==
    phase = "inspect" /\ InBody /\ prog[pc].block # 1 =>
      \A n \in FreeVariables(ft) : FromAround(n, prog[pc].block)

(* The handler o[k] knows the symbol of its procedure in the heap H, which *)
(* captures nothing yet.                                                   *)
OpenSymbol(o, H, k) ==
    LET h == o[k].sym
        b == o[k].item
    IN  /\ h \in 1 .. Len(H) /\ H[h].kind = "proc" /\ H[h].caps = {}
        /\ H[h].name = prog[b].name /\ H[h].block = prog[b].block

OpenSymbols == phase = "inspect" => \A k \in 2 .. Len(open) : OpenSymbol(open, heap, k)

(* The procedure of symbol x captures what it should, and nothing that it  *)
(* declares.                                                               *)
Closed(x) ==
    \E b \in ProceduresIn(prog) :
        /\ prog[b].name = x.name /\ prog[b].block = x.block
        /\ x.caps \cap Vars = Captures(b)
        /\ \A n \in x.caps : FromAround(n, b)

(* So does every procedure that the inspector has left. *)
CapsInv ==
    ~errors /\ phase # "parse" => \A h \in 1 .. Len(heap) : heap[h].kind = "proc" =>
        \/ phase = "inspect" /\ \E k \in 2 .. Len(open) : open[k].sym = h
        \/ Closed(heap[h])

NoProcs == phase = "parse" => \A h \in 1 .. Len(heap) : heap[h].kind # "proc"

ClosureInv ==
    /\ TextInv /\ FrameInv /\ HoldInv /\ BodyInv /\ TypedInv
    /\ FreeInv /\ FreeOut /\ OpenSymbols /\ CapsInv /\ NoProcs

-----------------------------------------------------------------------------
(* The statements of a block.                                              *)

LEMMA WriteBody ==
  ASSUME NEW p, NEW o, Writing(p, o), Bodies(p), OpenBodies(p, o),
         NEW it, it.block = Top(o), \A n \in DOMAIN it.decs : it.decs[n] \in Kinds,
         it.op # "call" => it.arg = NoName,
         it.op \in {"use", "call", "return", "end"} => o[Len(o)].stats,
         it.op \in {"procedure", "forward", "begin"} => ~o[Len(o)].stats
  PROVE  /\ Bodies(Append(p, it))
         /\ Len(Append(p, it)) = Len(p) + 1
         /\ Append(p, it)[Len(p) + 1] = it
         /\ \A i \in 1 .. Len(p) : Append(p, it)[i] = p[i]
<1> DEFINE q == Append(p, it)
<1>1. IsSeq(p) /\ Len(p) \in Nat /\ Len(p) >= 1 /\ Len(o) \in Nat /\ Len(o) \in 1 .. Len(o)
  BY DEF Writing, IsText, IsOpen, IsSeq
<1>2. /\ Len(q) = Len(p) + 1
      /\ q[Len(p) + 1] = it
      /\ \A i \in 1 .. Len(p) : q[i] = p[i]
  BY <1>1, Appended
<1> HIDE DEF q
<1>3. ASSUME NEW i \in 1 .. Len(q)
      PROVE  /\ \A n \in DOMAIN q[i].decs : q[i].decs[n] \in Kinds
             /\ q[i].op # "call" => q[i].arg = NoName
             /\ q[i].op \in {"use", "call", "return", "end"} => i > 1 /\ q[i - 1].op \in BodyOps
  <2>1. CASE i = Len(p) + 1
    <3>1. q[i] = it /\ i > 1 /\ i - 1 = Len(p) /\ q[Len(p)] = p[Len(p)]
      BY <1>1, <1>2, <2>1
    <3> QED
      BY <3>1 DEF OpenBodies
  <2>2. CASE i # Len(p) + 1
    <3>1. i \in 1 .. Len(p) /\ q[i] = p[i] /\ (i > 1 => i - 1 \in 1 .. Len(p))
      BY <1>1, <1>2, <2>2
    <3> QED
      BY <1>2, <3>1 DEF Bodies
  <2> QED
    BY <2>1, <2>2
<1>4. ASSUME NEW i \in 1 .. Len(q), NEW j \in 1 .. Len(q), j < i, q[j].block = q[i].block
      PROVE  /\ q[i].op \in {"procedure", "forward", "begin"} => q[j].op \notin BodyOps
             /\ q[j].op # "end"
  <2>0. j \in 1 .. Len(p) /\ q[j] = p[j]
    BY <1>1, <1>2, <1>4
  <2>1. CASE i = Len(p) + 1
    <3>1. p[j].block = o[Len(o)].item
      BY <1>2, <1>4, <2>0, <2>1 DEF Top
    <3> QED
      BY <1>1, <1>2, <2>0, <2>1, <3>1 DEF OpenBodies
  <2>2. CASE i # Len(p) + 1
    <3>1. i \in 1 .. Len(p) /\ q[i] = p[i]
      BY <1>1, <1>2, <2>2
    <3> QED
      BY <1>4, <2>0, <3>1 DEF Bodies
  <2> QED
    BY <2>1, <2>2
<1>5. Bodies(q)
  BY <1>3, <1>4 DEF Bodies
<1> QED
  BY <1>2, <1>5 DEF q

(* An item that is written in the innermost block, which o says and r says *)
(* after it.                                                               *)
LEMMA StayBodies ==
  ASSUME NEW p, NEW o, Writing(p, o), OpenBodies(p, o),
         NEW it, it.block = Top(o), it.op # "end",
         NEW q, Len(q) = Len(p) + 1, q[Len(p) + 1] = it, \A i \in 1 .. Len(p) : q[i] = p[i],
         NEW r, Len(r) = Len(o), \A k \in 1 .. Len(o) : r[k].item = o[k].item,
         \A k \in 1 .. Len(o) - 1 : r[k] = o[k],
         o[Len(o)].stats => r[Len(o)].stats,
         it.op \in BodyOps <=> r[Len(o)].stats
  PROVE  OpenBodies(q, r)
<1>1. Len(p) \in Nat /\ Len(o) \in Nat /\ Len(o) \in 1 .. Len(o)
  BY DEF Writing, IsText, IsOpen, IsSeq
<1>2. \A k \in 1 .. Len(r) - 1 : ~r[k].stats
  BY DEF OpenBodies
<1>3. r[Len(r)].stats => q[Len(q)].op \in BodyOps
  OBVIOUS
<1>4. ASSUME NEW k \in 1 .. Len(r), NEW i \in 1 .. Len(q), q[i].block = r[k].item
      PROVE  q[i].op # "end" /\ (q[i].op \in BodyOps => r[k].stats)
  <2>1. CASE i = Len(p) + 1
    <3>1. k # Len(o) => o[k].item < o[Len(o)].item /\ o[k].item \in Nat /\ o[Len(o)].item \in Nat
      BY <1>1 DEF Writing, IsOpen
    <3>2. k = Len(o)
      BY <1>4, <2>1, <3>1 DEF Top
    <3> QED
      BY <2>1, <3>2
  <2>2. CASE i # Len(p) + 1
    <3>1. i \in 1 .. Len(p) /\ q[i] = p[i]
      BY <1>1, <2>2
    <3>2. p[i].op # "end" /\ (p[i].op \in BodyOps => o[k].stats)
      BY <1>4, <3>1 DEF OpenBodies
    <3>3. o[k].stats => r[k].stats
      BY <1>1
    <3> QED
      BY <3>1, <3>2, <3>3
  <2> QED
    BY <2>1, <2>2
<1> QED
  BY <1>2, <1>3, <1>4 DEF OpenBodies

LEMMA EnterBodies ==
  ASSUME NEW p, NEW o, Writing(p, o), OpenBodies(p, o), ~o[Len(o)].stats,
         NEW it, it.block = Top(o), it.op = "procedure",
         NEW q, Len(q) = Len(p) + 1, q[Len(p) + 1] = it, \A i \in 1 .. Len(p) : q[i] = p[i],
         NEW e, e.item = Len(p) + 1, ~e.stats
  PROVE  OpenBodies(q, Append(o, e))
<1> DEFINE r == Append(o, e)
<1>1. Len(p) \in Nat /\ Len(o) \in Nat /\ Len(o) \in 1 .. Len(o) /\ IsSeq(o)
  BY DEF Writing, IsText, IsOpen, IsSeq
<1>2. Len(r) = Len(o) + 1 /\ r[Len(o) + 1] = e /\ \A k \in 1 .. Len(o) : r[k] = o[k]
  BY <1>1, Appended
<1> HIDE DEF r
<1>3. \A k \in 1 .. Len(r) - 1 : ~r[k].stats
  BY <1>1, <1>2 DEF OpenBodies
<1>4. ASSUME NEW k \in 1 .. Len(r), NEW i \in 1 .. Len(q), q[i].block = r[k].item
      PROVE  q[i].op # "end" /\ (q[i].op \in BodyOps => r[k].stats)
  <2>1. CASE i = Len(p) + 1
    BY <2>1 DEF BodyOps
  <2>2. CASE i # Len(p) + 1
    <3>1. i \in 1 .. Len(p) /\ q[i] = p[i]
      BY <1>1, <2>2
    <3>2. p[i].block \in Nat /\ p[i].block # Len(p) + 1
      BY <1>1, <3>1 DEF Writing, IsText
    <3>3. k # Len(o) + 1
      BY <1>2, <1>4, <3>1, <3>2
    <3>4. k \in 1 .. Len(o) /\ r[k] = o[k]
      BY <1>1, <1>2, <3>3
    <3> QED
      BY <1>4, <3>1, <3>4 DEF OpenBodies
  <2> QED
    BY <2>1, <2>2
<1>5. OpenBodies(q, r)
  BY <1>2, <1>3, <1>4 DEF OpenBodies
<1> QED
  BY <1>5 DEF r

LEMMA LeaveBodies ==
  ASSUME NEW p, NEW o, Writing(p, o), OpenBodies(p, o), Len(o) # 1,
         NEW it, it.block = Top(o), it.op = "end",
         NEW q, Len(q) = Len(p) + 1, q[Len(p) + 1] = it, \A i \in 1 .. Len(p) : q[i] = p[i]
  PROVE  OpenBodies(q, SubSeq(o, 1, Len(o) - 1))
<1> DEFINE r == SubSeq(o, 1, Len(o) - 1)
<1>1. Len(p) \in Nat /\ Len(o) \in Nat /\ Len(o) >= 2 /\ Len(o) >= 1 /\ IsSeq(o)
  BY DEF Writing, IsText, IsOpen, IsSeq
<1>2. Len(r) = Len(o) - 1 /\ \A k \in 1 .. Len(o) - 1 : r[k] = o[k]
  BY <1>1, Fronted
<1> HIDE DEF r
<1>3. (\A k \in 1 .. Len(r) - 1 : ~r[k].stats) /\ ~r[Len(r)].stats
  <2>1. \A k \in 1 .. Len(o) - 1 : ~o[k].stats
    BY DEF OpenBodies
  <2>2. Len(r) \in 1 .. Len(o) - 1 /\ \A k \in 1 .. Len(r) - 1 : k \in 1 .. Len(o) - 1
    BY <1>1, <1>2
  <2> QED
    BY <1>2, <2>1, <2>2
<1>4. ASSUME NEW k \in 1 .. Len(r), NEW i \in 1 .. Len(q), q[i].block = r[k].item
      PROVE  q[i].op # "end" /\ (q[i].op \in BodyOps => r[k].stats)
  <2>0. k \in 1 .. Len(o) /\ k < Len(o) /\ Len(o) \in 1 .. Len(o) /\ r[k] = o[k]
    <3>1. k \in 1 .. Len(o) - 1 /\ r[k] = o[k]
      BY <1>2
    <3>2. k \in 1 .. Len(o) /\ k < Len(o) /\ Len(o) \in 1 .. Len(o)
      BY <1>1, <3>1
    <3> QED
      BY <3>1, <3>2
  <2>1. CASE i = Len(p) + 1
    <3>1. o[k].item < o[Len(o)].item /\ o[k].item \in Nat /\ o[Len(o)].item \in Nat
      BY <2>0 DEF Writing, IsOpen
    <3> QED
      BY <1>4, <2>0, <2>1, <3>1 DEF Top
  <2>2. CASE i # Len(p) + 1
    <3>1. i \in 1 .. Len(p) /\ q[i] = p[i]
      BY <1>1, <2>2
    <3> QED
      BY <1>4, <2>0, <3>1 DEF OpenBodies
  <2> QED
    BY <2>1, <2>2
<1>5. OpenBodies(q, r)
  BY <1>3, <1>4 DEF OpenBodies
<1> QED
  BY <1>5 DEF r

LEMMA BodyInit == Init => BodyInv
<1> SUFFICES ASSUME Init
             PROVE  BodyInv
  OBVIOUS
<1>1. PICK decs \in DecsOf(Kinds \cap {"var", "const"}) :
         /\ prog = << Heading("module", NoName, 0, decs, FALSE) >> /\ open = OnlyModule
  BY DEF Init
<1>0. \A n \in DOMAIN decs : decs[n] \in Kinds
  BY DEF DecsOf
<1>2. /\ Len(prog) = 1 /\ prog[1].op = "module" /\ prog[1].arg = NoName /\ prog[1].block = 0
      /\ Len(open) = 1 /\ open[1].stats = FALSE /\ open[1].item = 1 /\ prog[1].decs = decs
  BY <1>1 DEF Heading, OnlyModule
<1>3. Bodies(prog)
  BY <1>0, <1>2 DEF Bodies
<1>4. OpenBodies(prog, open)
  BY <1>2 DEF OpenBodies
<1> QED
  BY <1>3, <1>4 DEF BodyInv

LEMMA ParserBodies ==
  ASSUME TextInv, BodyInv, Parser
  PROVE  BodyInv'
<1>0. phase = "parse"
  BY DEF Parser, ParseProcedure, ParseForward, ParseBegin, ParseUse, ParseCall, ParseReturn,
         ParseStatement, ParseEndProcedure, ParseEndModule, Parsing
<1>1. Writing(prog, open) /\ Bodies(prog) /\ OpenBodies(prog, open) /\ pc = Len(prog)
  BY <1>0 DEF TextInv, BodyInv
<1>2. (Inner.stats <=> open[Len(open)].stats) /\ Here = Top(open)
  BY DEF Inner, Here, Top
<1>3. ASSUME NEW it, it.block = Here, \A n \in DOMAIN it.decs : it.decs[n] \in Kinds,
             it.op # "call" => it.arg = NoName,
             it.op \in {"use", "call", "return", "end"} => Inner.stats,
             it.op \in {"procedure", "forward", "begin"} => ~Inner.stats, prog' = Append(prog, it)
      PROVE  /\ Bodies(prog')
             /\ Len(prog') = Len(prog) + 1
             /\ prog'[Len(prog) + 1] = it
             /\ \A i \in 1 .. Len(prog) : prog'[i] = prog[i]
  <2>1. /\ it.block = Top(open)
        /\ it.op \in {"use", "call", "return", "end"} => open[Len(open)].stats
        /\ it.op \in {"procedure", "forward", "begin"} => ~open[Len(open)].stats
    BY <1>2, <1>3
  <2>2. /\ Bodies(Append(prog, it))
        /\ Len(Append(prog, it)) = Len(prog) + 1
        /\ Append(prog, it)[Len(prog) + 1] = it
        /\ \A i \in 1 .. Len(prog) : Append(prog, it)[i] = prog[i]
    BY <1>1, <1>3, <2>1, WriteBody
  <2> QED
    BY <1>3, <2>2
<1> DEFINE L == Len(open)
<1>4. L \in Nat /\ L >= 1 /\ IsSeq(open)
  BY <1>1 DEF Writing, IsOpen, IsSeq
<1>5. ASSUME NEW it, it.block = Here, \A n \in DOMAIN it.decs : it.decs[n] \in Kinds,
             it.op # "call" => it.arg = NoName,
             it.op \in {"use", "call", "return", "forward"},
             it.op = "forward" <=> ~Inner.stats, prog' = Append(prog, it), open' = open
      PROVE  BodyInv'
  <2>1. /\ it.block = Top(open) /\ it.op # "end"
        /\ it.op \in BodyOps <=> open[Len(open)].stats
        /\ it.op \in {"use", "call", "return", "end"} => Inner.stats
        /\ it.op \in {"procedure", "forward", "begin"} => ~Inner.stats
    BY <1>2, <1>5 DEF BodyOps
  <2>2. /\ Bodies(prog')
        /\ Len(prog') = Len(prog) + 1
        /\ prog'[Len(prog) + 1] = it
        /\ \A i \in 1 .. Len(prog) : prog'[i] = prog[i]
    BY <1>3, <1>5, <2>1
  <2>3. OpenBodies(prog', open)
    BY <1>1, <2>1, <2>2, StayBodies
  <2> QED
    BY <1>5, <2>2, <2>3 DEF BodyInv
<1>6. ASSUME NEW n \in Range(ProcNames), NEW decs \in DecsOf(Kinds), NEW result,
             ParseProcedure(n, decs, result)
      PROVE  BodyInv'
  <2> DEFINE it == Heading("procedure", n, Here, decs, result)
             e == [item |-> pc + 1, sym |-> 0, fn |-> Main, stats |-> FALSE]
  <2>0. it.decs = decs /\ \A n1 \in DOMAIN decs : decs[n1] \in Kinds
    BY DEF Heading, DecsOf
  <2>1. /\ it.block = Here /\ it.op = "procedure" /\ it.arg = NoName
        /\ e.item = pc + 1 /\ ~e.stats
        /\ \A n1 \in DOMAIN it.decs : it.decs[n1] \in Kinds
    BY <2>0 DEF Heading
  <2>2. prog' = Append(prog, it) /\ open' = Append(open, e) /\ ~Inner.stats
    BY <1>6 DEF ParseProcedure, Parsed, Entered
  <2> HIDE DEF it, e
  <2>3. Bodies(prog') /\ OpenBodies(prog', open')
    BY <1>1, <1>2, <1>3, <2>1, <2>2, EnterBodies
  <2> QED
    BY <2>3 DEF BodyInv
<1>7. ASSUME NEW n \in Range(ProcNames), NEW decs \in DecsOf(Kinds \cap {"value", "VAR"}),
             NEW result, ParseForward(n, decs, result)
      PROVE  BodyInv'
  <2> DEFINE it == Heading("forward", n, Here, decs, result)
  <2>0. \A n1 \in DOMAIN decs : decs[n1] \in Kinds
    BY DEF DecsOf
  <2>1. /\ it.block = Here /\ it.op = "forward" /\ it.arg = NoName
        /\ \A n1 \in DOMAIN it.decs : it.decs[n1] \in Kinds
    BY <2>0 DEF Heading
  <2>2. prog' = Append(prog, it) /\ open' = open /\ ~Inner.stats
    BY <1>7 DEF ParseForward, Parsed
  <2> QED
    BY <1>5, <2>1, <2>2
<1>8. CASE ParseBegin
  <2> DEFINE it == Item("begin", NoName, Here)
             r == InStatements
  <2>1. /\ it.block = Here /\ it.op = "begin" /\ it.arg = NoName
        /\ \A n1 \in DOMAIN it.decs : it.decs[n1] \in Kinds
    BY DEF Item, Heading, NoBindings
  <2>2. prog' = Append(prog, it) /\ open' = r /\ ~Inner.stats
    BY <1>8 DEF ParseBegin, Parsed
  <2>3. /\ Len(r) = L /\ r[L].stats /\ r[L].item = open[L].item
        /\ \A k \in 1 .. L - 1 : r[k] = open[k]
    BY <1>4 DEF InStatements, IsSeq
  <2>4. \A k \in 1 .. L : r[k].item = open[k].item
    BY <1>4, <2>3
  <2> HIDE DEF it, r
  <2>5. /\ Bodies(prog')
        /\ Len(prog') = Len(prog) + 1
        /\ prog'[Len(prog) + 1] = it
        /\ \A i \in 1 .. Len(prog) : prog'[i] = prog[i]
    BY <1>3, <2>1, <2>2
  <2>6. /\ it.block = Top(open) /\ it.op # "end"
        /\ it.op \in BodyOps <=> r[Len(open)].stats
    BY <1>2, <2>1, <2>3 DEF BodyOps
  <2>7. OpenBodies(prog', r)
    BY <1>1, <2>3, <2>4, <2>5, <2>6, StayBodies
  <2> QED
    BY <2>2, <2>5, <2>7 DEF BodyInv
<1>9. ASSUME NEW n \in Vars, ParseUse(n)
      PROVE  BodyInv'
  <2> DEFINE it == Item("use", n, Here)
  <2>1. /\ it.block = Here /\ it.op = "use" /\ it.arg = NoName
        /\ \A n1 \in DOMAIN it.decs : it.decs[n1] \in Kinds
    BY DEF Item, Heading, NoBindings
  <2>2. prog' = Append(prog, it) /\ open' = open /\ Inner.stats
    BY <1>9 DEF ParseUse, ParseStatement, Parsed
  <2> QED
    BY <1>5, <2>1, <2>2
<1>10. ASSUME NEW n \in Range(ProcNames), NEW a \in Arguments, ParseCall(n, a)
      PROVE  BodyInv'
  <2> DEFINE it == [Item("call", n, Here) EXCEPT !.arg = a]
  <2>1. /\ it.block = Here /\ it.op = "call"
        /\ \A n1 \in DOMAIN it.decs : it.decs[n1] \in Kinds
    BY DEF Item, Heading, NoBindings
  <2>2. prog' = Append(prog, it) /\ open' = open /\ Inner.stats
    BY <1>10 DEF ParseCall, ParseStatement, Parsed
  <2> QED
    BY <1>5, <2>1, <2>2
<1>11. ASSUME NEW r \in BOOLEAN, ParseReturn(r)
      PROVE  BodyInv'
  <2> DEFINE it == [Item("return", NoName, Here) EXCEPT !.result = r]
  <2>1. /\ it.block = Here /\ it.op = "return" /\ it.arg = NoName
        /\ \A n1 \in DOMAIN it.decs : it.decs[n1] \in Kinds
    BY DEF Item, Heading, NoBindings
  <2>2. prog' = Append(prog, it) /\ open' = open /\ Inner.stats
    BY <1>11 DEF ParseReturn, ParseStatement, Parsed
  <2> QED
    BY <1>5, <2>1, <2>2
<1>12. CASE ParseEndProcedure
  <2> DEFINE it == Item("end", prog[Here].name, Here)
  <2>1. /\ it.block = Here /\ it.op = "end" /\ it.arg = NoName
        /\ \A n1 \in DOMAIN it.decs : it.decs[n1] \in Kinds
    BY DEF Item, Heading, NoBindings
  <2>2. /\ prog' = Append(prog, it) /\ open' = SubSeq(open, 1, Len(open) - 1)
        /\ Inner.stats /\ Len(open) # 1
    BY <1>12 DEF ParseEndProcedure, Parsed, Left, InModule
  <2> HIDE DEF it
  <2>3. /\ Bodies(prog')
        /\ Len(prog') = Len(prog) + 1
        /\ prog'[Len(prog) + 1] = it
        /\ \A i \in 1 .. Len(prog) : prog'[i] = prog[i]
    BY <1>3, <2>1, <2>2
  <2>4. it.block = Top(open) /\ it.op = "end"
    BY <1>2, <2>1
  <2>5. OpenBodies(prog', SubSeq(open, 1, Len(open) - 1))
    BY <1>1, <2>2, <2>3, <2>4, LeaveBodies, ZenonT(40)
  <2> QED
    BY <2>2, <2>3, <2>5 DEF BodyInv
<1>13. CASE ParseEndModule
  <2> DEFINE it == Item("end", NoName, Here)
  <2>1. /\ it.block = Here /\ it.op = "end" /\ it.arg = NoName
        /\ \A n1 \in DOMAIN it.decs : it.decs[n1] \in Kinds
    BY DEF Item, Heading, NoBindings
  <2>2. prog' = Append(prog, it) /\ phase' = "inspect" /\ Inner.stats
    BY <1>13 DEF ParseEndModule
  <2> QED
    BY <1>3, <2>1, <2>2 DEF BodyInv
<1> QED
  BY <1>6, <1>7, <1>8, <1>9, <1>10, <1>11, <1>12, <1>13 DEF Parser

LEMMA BodyKept == TextInv /\ BodyInv /\ [Next]_vars => BodyInv'
<1> SUFFICES ASSUME TextInv, BodyInv, [Next]_vars
             PROVE  BodyInv'
  OBVIOUS
<1>1. CASE Parser
  BY <1>1, ParserBodies
<1>2. CASE Inspector \/ Generator
  <2>1. prog' = prog /\ phase' # "parse"
    BY <1>2, PassSteps DEF PassStep
  <2> QED
    BY <2>1 DEF BodyInv
<1>3. CASE UNCHANGED vars
  BY <1>3 DEF vars, BodyInv
<1> QED
  BY <1>1, <1>2, <1>3 DEF Next

-----------------------------------------------------------------------------
(* The symbols of variables.                                               *)

(* The frames of t hold the variables that those of s hold, but frame f.   *)
SameVars(s, t, f) ==
    /\ t.map = s.map /\ DOMAIN t.tables = DOMAIN s.tables
    /\ \A j \in DOMAIN s.tables, n \in Vars : j # f =>
          /\ n \in DOMAIN t.tables[j].syms <=> n \in DOMAIN s.tables[j].syms
          /\ n \in DOMAIN s.tables[j].syms => t.tables[j].syms[n] = s.tables[j].syms[n]

LEMMA SameVarsTrans ==
  ASSUME NEW s, NEW t, NEW u, NEW f, SameVars(s, t, f), SameVars(t, u, f)
  PROVE  SameVars(s, u, f)
BY DEF SameVars

LEMMA SameVarsSame ==
  ASSUME NEW s, NEW t, NEW f, t.map = s.map, DOMAIN t.tables = DOMAIN s.tables,
         \A j \in DOMAIN s.tables : t.tables[j].syms = s.tables[j].syms
  PROVE  SameVars(s, t, f)
BY DEF SameVars

LEMMA SameVarsMark ==
  ASSUME NEW s, IsTable(s), NEW n, NEW f
  PROVE  SameVars(s, MarkFree(s, n), f) /\ IsTable(MarkFree(s, n))
<1> DEFINE t == MarkFree(s, n)
<1>1. SameFrames(s, t) /\ \A j \in DOMAIN s.tables : t.tables[j].syms = s.tables[j].syms
  BY MarkFreeFrames
<1> HIDE DEF t
<1>2. IsTable(t) /\ SameVars(s, t, f)
  BY <1>1, SameFramesTable, SameVarsSame DEF SameFrames
<1> QED
  BY <1>2 DEF t

LEMMA SameVarsReset ==
  ASSUME NEW s, IsTable(s), NEW f
  PROVE  SameVars(s, ResetFree(s), f)
<1> DEFINE t == ResetFree(s)
<1>1. SameFrames(s, t) /\ \A j \in DOMAIN s.tables : t.tables[j].syms = s.tables[j].syms
  BY ResetFreeFrames
<1> HIDE DEF t
<1>2. SameVars(s, t, f)
  BY <1>1, SameVarsSame DEF SameFrames
<1> QED
  BY <1>2 DEF t

LEMMA SameVarsPut ==
  ASSUME NEW s, IsTable(s), NEW n, n \notin Vars, NEW h, NEW f
  PROVE  SameVars(s, Put(s, n, h), f) /\ SameFrames(s, Put(s, n, h)) /\ IsTable(Put(s, n, h))
<1> DEFINE t == Put(s, n, h)
           syms == Bind(s.tables[s.current].syms, n, h)
<1>1. PutInto(s, t, syms)
  BY PutIs
<1>2. \A x \in Vars : /\ x \in DOMAIN syms <=> x \in DOMAIN s.tables[s.current].syms
                      /\ x \in DOMAIN syms => syms[x] = s.tables[s.current].syms[x]
  BY DEF Bind
<1> HIDE DEF t, syms
<1>3. SameVars(s, t, f)
  BY <1>1, <1>2 DEF PutInto, SameFrames, SameVars
<1>4. IsTable(t)
  BY <1>1, SameFramesTable DEF PutInto
<1> QED
  BY <1>1, <1>3, <1>4 DEF t, PutInto

LEMMA SameVarsPutAll ==
  ASSUME NEW s, IsTable(s), s.current \in DOMAIN s.tables, NEW ns, IsSeq(ns), NEW h \in Nat
  PROVE  /\ SameVars(s, PutAll(s, ns, h), s.current)
         /\ \A n \in Values(ns) :
              /\ n \in DOMAIN PutAll(s, ns, h).tables[s.current].syms
              /\ \E k \in 1 .. Len(ns) :
                    ns[k] = n /\ PutAll(s, ns, h).tables[s.current].syms[n] = h + k
         /\ \A n \in DOMAIN PutAll(s, ns, h).tables[s.current].syms \ Values(ns) :
              /\ n \in DOMAIN s.tables[s.current].syms
              /\ PutAll(s, ns, h).tables[s.current].syms[n] = s.tables[s.current].syms[n]
         /\ DOMAIN s.tables[s.current].syms \subseteq DOMAIN PutAll(s, ns, h).tables[s.current].syms
<1> DEFINE t == PutAll(s, ns, h)
           old == s.tables[s.current].syms
<1>1. PICK syms : PutInto(s, t, syms) /\ Added(old, syms, ns, h)
  BY PutAllIs
<1> HIDE DEF t
<1>2. SameVars(s, t, s.current) /\ t.tables[s.current].syms = syms
  BY <1>1 DEF PutInto, SameFrames, SameVars
<1>3. ASSUME NEW n \in Values(ns)
      PROVE  n \in DOMAIN syms /\ \E k \in 1 .. Len(ns) : ns[k] = n /\ syms[n] = h + k
  <2>1. syms[n] \in h + 1 .. h + Len(ns) /\ ns[syms[n] - h] = n /\ Len(ns) \in Nat
    BY <1>1 DEF Added, IsSeq
  <2>2. syms[n] - h \in 1 .. Len(ns) /\ syms[n] = h + (syms[n] - h)
    BY <2>1
  <2> QED
    BY <1>1, <2>1, <2>2 DEF Added
<1>4. \A n \in DOMAIN syms \ Values(ns) : n \in DOMAIN old /\ syms[n] = old[n]
  BY <1>1 DEF Added
<1>5. DOMAIN old \subseteq DOMAIN syms
  BY <1>1 DEF Added
<1> QED
  BY <1>2, <1>3, <1>4, <1>5 DEF t

LEMMA SameVarsPush ==
  ASSUME NEW s, IsTable(s), NEW n \in DOMAIN s.map, NEW f
  PROVE  /\ SameVars(s, PushFrame(s, n), f)
         /\ PushFrame(s, n).tables = s.tables /\ PushFrame(s, n).map = s.map
         /\ PushFrame(s, n).current = s.map[n]
         /\ IsTable(PushFrame(s, n))
BY DEF PushFrame, SameVars, IsTable

LEMMA SameVarsPop ==
  ASSUME NEW s, NEW f
  PROVE  SameVars(s, PopFrame(s), f)
BY DEF PopFrame, SameVars

(* A symbol keeps what it stands for. *)
SymbolsStay(H, G) ==
    /\ Len(H) <= Len(G)
    /\ \A h \in 1 .. Len(H) : /\ G[h].kind = H[h].kind /\ G[h].name = H[h].name
                              /\ G[h].block = H[h].block /\ G[h].global = H[h].global

LEMMA TypedSymbolsAre ==
  ASSUME NEW ns, IsSeq(ns), NEW g, g = (pc = 1)
  PROVE  /\ IsSeq(TypedSymbols(ns, g)) /\ Len(TypedSymbols(ns, g)) = Len(ns)
         /\ \A k \in 1 .. Len(ns) : /\ Typed(TypedSymbols(ns, g)[k], ns[k], pc)
                                    /\ TypedSymbols(ns, g)[k].kind = prog[pc].decs[ns[k]]
<1>1. Symbols(TypedSymbols(ns, g)) /\ Len(TypedSymbols(ns, g)) = Len(ns)
  BY TypedAre
<1>2. \A k \in 1 .. Len(ns) : Typed(TypedSymbols(ns, g)[k], ns[k], pc)
  BY DEF TypedSymbols, IsSeq, Typed, Symbol
<1> QED
  BY <1>1, <1>2 DEF Symbols, Typed

LEMMA ProcSymbolNamed ==
  ASSUME NEW kind, NEW i
  PROVE  /\ ProcSymbol(kind, i).kind = kind
         /\ ProcSymbol(kind, i).name = prog[i].name
         /\ ProcSymbol(kind, i).block = prog[i].block
         /\ ProcSymbol(kind, i).caps = {}
         /\ ProcSymbol(kind, i).global
BY DEF ProcSymbol, Symbol

LEMMA NotVars ==
  /\ ClosureArg \notin Vars /\ NoName \notin Vars
  /\ \A n \in Range(ProcNames) : n \notin Vars
BY ConstantsAssumption, NamesAssumption

(* The frame whose variables a pass may set at item i of the text. *)
FrameAt(s, i) == IF IsBlock(prog, i) THEN TableOf(prog, s, i) ELSE 0

InspectedRight ==
    /\ SameVars(ft, ft', FrameAt(ft, pc)) /\ SymbolsStay(heap, heap')
    /\ IsBlock(prog, pc) => \A n \in DOMAIN prog[pc].decs :
          /\ n \in DOMAIN SymsOf(prog, ft', pc)
          /\ Typed(heap'[SymsOf(prog, ft', pc)[n]], n, pc)

LEMMA InspectModuleTypes ==
  ASSUME TextInv, TextInv', FrameInv, InspectModule
  PROVE  InspectedRight
<1> DEFINE ns == SetToSeq(DOMAIN prog[pc].decs)
           new == TypedSymbols(ns, TRUE)
<1>1. /\ phase = "inspect" /\ prog' = prog /\ prog[pc].op = "module"
      /\ ft' = PutAll(ft, ns, Len(heap)) /\ heap' = heap \o new
  BY DEF InspectModule, Inspecting, At
<1>2. /\ IsText(prog) /\ IsOpen(prog, open) /\ pc \in 1 .. Len(prog)
      /\ Top(open) = IF pc = 1 THEN 1 ELSE prog[pc].block
  BY <1>1, WalkingText
<1>3. pc = 1 /\ Top(open) = 1
  BY <1>1, <1>2 DEF IsText, IsSeq
<1>4. /\ IsTable(ft) /\ Len(heap) \in Nat /\ Symbols(heap) /\ IsSeq(heap)
      /\ ft.current = TableOf(prog, ft, 1) /\ ft.current \in DOMAIN ft.tables
  BY <1>2, <1>3, ScopedFacts DEF FrameInv, IsTable, Symbols
<1>5. IsSeq(ns) /\ Values(ns) = DOMAIN prog[pc].decs
  BY <1>2, NamesHere, InOrder
<1>6. /\ IsSeq(new) /\ Len(new) = Len(ns)
      /\ \A k \in 1 .. Len(ns) : Typed(new[k], ns[k], pc)
  BY <1>3, <1>5, TypedSymbolsAre
<1> HIDE DEF ns, new
<1>7. /\ IsSeq(heap') /\ Len(heap') = Len(heap) + Len(ns)
      /\ \A h \in 1 .. Len(heap) : heap'[h] = heap[h]
      /\ \A k \in 1 .. Len(ns) : heap'[Len(heap) + k] = new[k]
  <2>1. /\ IsSeq(heap \o new) /\ Len(heap \o new) = Len(heap) + Len(new)
        /\ \A h \in 1 .. Len(heap) : (heap \o new)[h] = heap[h]
        /\ \A k \in 1 .. Len(new) : (heap \o new)[Len(heap) + k] = new[k]
    <3>1. IsSeq(heap) /\ IsSeq(new)
      BY <1>4, <1>6
    <3> QED
      BY <3>1, Joined
  <2> QED
    BY <1>1, <1>6, <2>1
<1>8. SymbolsStay(heap, heap')
  BY <1>4, <1>5, <1>7 DEF SymbolsStay, IsSeq
<1>9. /\ SameVars(ft, ft', ft.current)
      /\ \A n \in Values(ns) :
            /\ n \in DOMAIN ft'.tables[ft.current].syms
            /\ \E k \in 1 .. Len(ns) : ns[k] = n /\ ft'.tables[ft.current].syms[n] = Len(heap) + k
  <2> DEFINE t == PutAll(ft, ns, Len(heap))
  <2>1. /\ SameVars(ft, t, ft.current)
        /\ \A n \in Values(ns) :
              /\ n \in DOMAIN t.tables[ft.current].syms
              /\ \E k \in 1 .. Len(ns) : ns[k] = n /\ t.tables[ft.current].syms[n] = Len(heap) + k
    <3>1. ft.current \in DOMAIN ft.tables /\ IsTable(ft) /\ IsSeq(ns) /\ Len(heap) \in Nat
      BY <1>4, <1>5
    <3> QED
      BY <3>1, SameVarsPutAll
  <2>2. ft' = t
    BY <1>1
  <2> HIDE DEF t
  <2> QED
    BY <2>1, <2>2
<1>10. IsBlock(prog, pc) /\ FrameAt(ft, pc) = ft.current
  BY <1>1, <1>3, <1>4 DEF IsBlock, FrameAt
<1>11. SymsOf(prog, ft', pc) = ft'.tables[ft.current].syms
  BY <1>3, <1>4, <1>9 DEF SymsOf, TableOf, SameVars
<1> QED
  BY <1>5, <1>6, <1>7, <1>8, <1>9, <1>10, <1>11 DEF InspectedRight

LEMMA InspectProcedureTypes ==
  ASSUME TextInv, TextInv', FrameInv, InspectProcedure
  PROVE  InspectedRight
<1> DEFINE ns == SetToSeq(DOMAIN prog[pc].decs)
           m  == Len(heap) + 1
           w  == MarkFree(ft, Name)
           u  == Put(w, Name, m)
           v  == PushFrame(u, Name)
           x  == ProcSymbol("proc", pc)
           new == TypedSymbols(ns, FALSE)
           f  == TableOf(prog, ft, pc)
<1>1. /\ phase = "inspect" /\ prog' = prog /\ prog[pc].op = "procedure"
      /\ ft' = PutAll(v, ns, m) /\ heap' = Append(heap, x) \o new
  BY DEF InspectProcedure, Inspecting, At
<1>2. /\ IsText(prog) /\ IsOpen(prog, open) /\ pc \in 1 .. Len(prog)
  BY <1>1, WalkingText
<1>3. pc # 1 /\ pc \in ProceduresIn(prog) /\ Name \notin Vars
  <2>1. pc # 1
    BY <1>1, <1>2 DEF IsText
  <2>2. Name \in Range(ProcNames)
    BY <1>1, <1>2 DEF IsText, ItemOK, Name
  <2> QED
    BY <1>1, <1>2, <2>1, <2>2, NotVars DEF ProceduresIn
<1>4. /\ IsTable(ft) /\ Len(heap) \in Nat /\ IsSeq(heap) /\ Framed(prog, open, ft)
  BY <1>2, ScopedFacts DEF FrameInv, Symbols, Scoped
<1>5. Name \in DOMAIN ft.map /\ f = ft.map[Name] /\ f \in 1 .. Len(ft.tables)
  BY <1>3, <1>4 DEF Framed, Name, TableOf, FrameOf
<1>6. IsSeq(ns) /\ Values(ns) = DOMAIN prog[pc].decs
  BY <1>2, NamesHere, InOrder
<1>7. /\ IsSeq(new) /\ Len(new) = Len(ns)
      /\ \A k \in 1 .. Len(ns) : Typed(new[k], ns[k], pc)
  BY <1>3, <1>6, TypedSymbolsAre
<1> HIDE DEF ns, new, x
<1>8. /\ IsSeq(heap') /\ Len(heap') = m + Len(ns)
      /\ \A h \in 1 .. Len(heap) : heap'[h] = heap[h]
      /\ \A k \in 1 .. Len(ns) : heap'[m + k] = new[k]
  <2> DEFINE H == Append(heap, x)
  <2>1. /\ IsSeq(H) /\ Len(H) = m
        /\ \A h \in 1 .. Len(heap) : H[h] = heap[h]
    BY <1>4, Appended
  <2>2. \A h \in 1 .. Len(heap) : h \in 1 .. m
    BY <1>4
  <2> HIDE DEF H, m
  <2>3. /\ IsSeq(H \o new) /\ Len(H \o new) = m + Len(ns)
        /\ \A h \in 1 .. m : (H \o new)[h] = H[h]
        /\ \A k \in 1 .. Len(ns) : (H \o new)[m + k] = new[k]
    <3>1. /\ IsSeq(H \o new) /\ Len(H \o new) = Len(H) + Len(new)
          /\ \A h \in 1 .. Len(H) : (H \o new)[h] = H[h]
          /\ \A k \in 1 .. Len(new) : (H \o new)[Len(H) + k] = new[k]
      <4>1. IsSeq(H) /\ IsSeq(new)
        BY <1>7, <2>1
      <4> QED
        BY <4>1, Joined
    <3> QED
      BY <1>7, <2>1, <3>1
  <2>4. heap' = H \o new
    BY <1>1 DEF H
  <2> QED
    BY <2>1, <2>2, <2>3, <2>4
<1>9. SymbolsStay(heap, heap')
  BY <1>4, <1>6, <1>8 DEF SymbolsStay, IsSeq
<1>10. SameVars(ft, w, f) /\ IsTable(w)
  BY <1>4, SameVarsMark
<1> HIDE DEF w, f
<1>11. SameVars(w, u, f) /\ SameFrames(w, u) /\ IsTable(u)
  BY <1>3, <1>10, SameVarsPut
<1> HIDE DEF u
<1>12. u.map = ft.map /\ DOMAIN u.tables = DOMAIN ft.tables /\ Name \in DOMAIN u.map
  BY <1>5, <1>10, <1>11 DEF SameVars
<1>13. /\ SameVars(u, v, f) /\ IsTable(v) /\ v.tables = u.tables /\ v.map = u.map
       /\ v.current = f
  BY <1>5, <1>11, <1>12, SameVarsPush
<1> HIDE DEF v
<1>14. v.current \in DOMAIN v.tables
  BY <1>4, <1>5, <1>12, <1>13 DEF IsTable
<1>15. /\ SameVars(v, ft', f)
       /\ \A n \in Values(ns) :
             /\ n \in DOMAIN ft'.tables[f].syms
             /\ \E k \in 1 .. Len(ns) : ns[k] = n /\ ft'.tables[f].syms[n] = m + k
  <2>1. m \in Nat
    BY <1>4
  <2> HIDE DEF m
  <2> DEFINE t == PutAll(v, ns, m)
             c == v.current
  <2>2. /\ SameVars(v, t, c)
        /\ \A n \in Values(ns) :
              /\ n \in DOMAIN t.tables[c].syms
              /\ \E k \in 1 .. Len(ns) : ns[k] = n /\ t.tables[c].syms[n] = m + k
    <3>1. c \in DOMAIN v.tables /\ IsTable(v) /\ IsSeq(ns)
      BY <1>6, <1>13, <1>14
    <3> QED
      BY <2>1, <3>1, SameVarsPutAll
  <2>3. ft' = t /\ c = f
    BY <1>1, <1>13
  <2> HIDE DEF t, c
  <2> QED
    BY <2>2, <2>3
<1>16. SameVars(ft, ft', f)
  BY <1>10, <1>11, <1>13, <1>15, SameVarsTrans
<1>17. SymsOf(prog, ft', pc) = ft'.tables[f].syms /\ IsBlock(prog, pc) /\ FrameAt(ft, pc) = f
  BY <1>1, <1>16 DEF SymsOf, TableOf, SameVars, IsBlock, FrameAt, f
<1> QED
  BY <1>6, <1>7, <1>8, <1>9, <1>15, <1>16, <1>17 DEF InspectedRight

LEMMA InspectEndProcedureTypes ==
  ASSUME TextInv, TextInv', FrameInv, InspectEndProcedure
  PROVE  InspectedRight
<1> DEFINE caps == {n \in FreeVariables(ft) \ {prog[Here].name} :
                      ~SymbolOf(ft, n).global /\ SymbolOf(ft, n).kind # "const"}
           closed == [heap EXCEPT ![Inner.sym].caps = caps]
           x == Symbol("closure", Here, ClosureArg)
           u == Put(ft, ClosureArg, Len(heap) + 1)
<1>1. /\ phase = "inspect" /\ prog' = prog /\ prog[pc].op = "end"
      /\ IF caps = {} THEN ft' = PopFrame(ft) /\ heap' = heap
                      ELSE ft' = PopFrame(u) /\ heap' = Append(closed, x)
  BY DEF InspectEndProcedure, Inspecting, At
<1>2. IsText(prog) /\ IsOpen(prog, open)
  BY <1>1, WalkingText
<1>3. Symbols(heap) /\ IsTable(ft)
  BY <1>2, ScopedFacts DEF FrameInv, Scoped
<1>4. ~IsBlock(prog, pc) /\ FrameAt(ft, pc) = 0
  BY <1>1 DEF IsBlock, FrameAt
<1>5. heap = [h \in 1 .. Len(heap) |-> heap[h]] /\ Len(heap) \in Nat
  BY <1>3 DEF Symbols, IsSeq
<1> HIDE DEF caps
<1>6. CASE caps = {}
  <2>1. SameVars(ft, ft', 0) /\ heap' = heap
    BY <1>1, <1>6, SameVarsPop
  <2> QED
    BY <1>4, <1>5, <2>1 DEF InspectedRight, SymbolsStay
<1>7. CASE caps # {}
  <2>1. SameVars(ft, u, 0)
    BY <1>3, NotVars, SameVarsPut
  <2> HIDE DEF u
  <2>2. SameVars(u, ft', 0)
    BY <1>1, <1>7, SameVarsPop
  <2>3. SameVars(ft, ft', 0)
    BY <2>1, <2>2, SameVarsTrans
  <2>4. closed = [h \in 1 .. Len(heap) |-> closed[h]]
    BY <1>5
  <2>5. Len(closed) = Len(heap) /\ IsSeq(closed)
    <3>1. Len(closed) = Len(heap)
      BY <1>5, <2>4, LenOfDomain
    <3> QED
      BY <1>5, <2>4, <3>1 DEF IsSeq
  <2>6. ASSUME NEW h \in 1 .. Len(heap)
        PROVE  /\ closed[h].kind = heap[h].kind /\ closed[h].name = heap[h].name
               /\ closed[h].block = heap[h].block /\ closed[h].global = heap[h].global
    <3>1. closed[h] = heap[h] \/ closed[h] = [heap[h] EXCEPT !.caps = caps]
      BY <1>5
    <3>2. IsSymbol(heap[h])
      BY <1>3 DEF Symbols
    <3>3. /\ WithCaps(heap[h], caps).kind = heap[h].kind
          /\ WithCaps(heap[h], caps).name = heap[h].name
          /\ WithCaps(heap[h], caps).block = heap[h].block
          /\ WithCaps(heap[h], caps).global = heap[h].global
      BY <3>2 DEF IsSymbol, WithCaps
    <3>4. closed[h] = heap[h] \/ closed[h] = WithCaps(heap[h], caps)
      BY <3>1 DEF WithCaps
    <3> HIDE DEF closed
    <3> QED
      BY <3>3, <3>4
  <2> HIDE DEF closed, x
  <2>7. heap' = Append(closed, x)
    BY <1>1, <1>7
  <2>8. Len(heap') = Len(heap) + 1 /\ \A h \in 1 .. Len(heap) : heap'[h] = closed[h]
    BY <2>5, <2>7, Appended
  <2>9. SymbolsStay(heap, heap')
    BY <1>5, <2>6, <2>8 DEF SymbolsStay
  <2> QED
    BY <1>4, <2>3, <2>9 DEF InspectedRight
<1> QED
  BY <1>6, <1>7

LEMMA InspectorTypes ==
  ASSUME TextInv, TextInv', FrameInv, Inspector
  PROVE  InspectedRight
<1>0. phase = "inspect" /\ prog' = prog
  BY DEF Inspector, Inspecting, InspectModule, InspectProcedure,
     InspectForward, InspectBegin, InspectUse, InspectCall, InspectReturn, InspectEndProcedure,
     InspectEndModule
<1>1. IsTable(ft) /\ Symbols(heap) /\ Len(heap) \in Nat /\ IsSeq(heap)
  BY DEF FrameInv, Scoped, Framed, Symbols, IsSeq
<1>2. IsText(prog) /\ pc \in 1 .. Len(prog)
  BY <1>0, WalkingText
<1>3. ASSUME heap' = heap, ~IsBlock(prog, pc),
             \/ ft' = ft \/ ft' = ResetFree(ft)
             \/ \E n : ft' = MarkFree(ft, n)
             \/ \E n, m : ft' = MarkFree(MarkFree(ft, n), m)
      PROVE  InspectedRight
  <2>1. SymbolsStay(heap, heap')
    BY <1>1, <1>3 DEF SymbolsStay
  <2>2. ASSUME NEW n, NEW m
        PROVE  SameVars(ft, MarkFree(MarkFree(ft, n), m), 0)
    <3> DEFINE w == MarkFree(ft, n)
    <3>1. SameVars(ft, w, 0) /\ IsTable(w)
      BY <1>1, SameVarsMark
    <3> HIDE DEF w
    <3>2. SameVars(w, MarkFree(w, m), 0)
      BY <3>1, SameVarsMark
    <3>3. SameVars(ft, MarkFree(w, m), 0)
      BY <3>1, <3>2, SameVarsTrans
    <3> QED
      BY <3>3 DEF w
  <2>3. SameVars(ft, ft', 0)
    BY <1>1, <1>3, <2>2, SameVarsSame, SameVarsMark, SameVarsReset
  <2> QED
    BY <1>3, <2>1, <2>3 DEF InspectedRight, FrameAt
<1>4. CASE InspectModule
  BY <1>4, InspectModuleTypes
<1>5. CASE InspectProcedure
  BY <1>5, InspectProcedureTypes
<1>6. CASE InspectForward
  <2> DEFINE w == MarkFree(ft, Name)
             x == ProcSymbol("fwd", pc)
  <2>1. /\ prog[pc].op = "forward"
        /\ ft' = Put(w, Name, Len(heap) + 1)
        /\ heap' = Append(heap, x)
    BY <1>6 DEF InspectForward, Inspecting, At
  <2>2. Name \notin Vars
    BY <1>2, <2>1, NotVars DEF IsText, ItemOK, Name
  <2>3. SameVars(ft, w, 0) /\ IsTable(w)
    BY <1>1, SameVarsMark
  <2> HIDE DEF w, x
  <2>4. SameVars(w, ft', 0)
    BY <2>1, <2>2, <2>3, SameVarsPut
  <2>5. SameVars(ft, ft', 0)
    BY <2>3, <2>4, SameVarsTrans
  <2>6. Len(heap') = Len(heap) + 1 /\ \A h \in 1 .. Len(heap) : heap'[h] = heap[h]
    BY <1>1, <2>1, Appended
  <2>7. SymbolsStay(heap, heap')
    BY <1>1, <2>6 DEF SymbolsStay
  <2> QED
    BY <2>1, <2>5, <2>7 DEF InspectedRight, FrameAt, IsBlock
<1>7. CASE InspectEndProcedure
  BY <1>7, InspectEndProcedureTypes
<1>8. CASE InspectBegin
  BY <1>3, <1>8 DEF InspectBegin, Inspecting, At, IsBlock
<1>9. CASE InspectUse
  BY <1>3, <1>9 DEF InspectUse, Inspecting, At, IsBlock
<1>10. CASE InspectCall
  BY <1>3, <1>10 DEF InspectCall, Inspecting, At, IsBlock
<1>11. CASE InspectReturn
  BY <1>3, <1>11 DEF InspectReturn, Inspecting, At, IsBlock
<1>12. CASE InspectEndModule
  BY <1>3, <1>12 DEF InspectEndModule, Inspecting, At, IsBlock
<1> QED
  BY <1>4, <1>5, <1>6, <1>7, <1>8, <1>9, <1>10, <1>11, <1>12 DEF Inspector

LEMMA TypedKept ==
  ASSUME TextInv, TextInv', FrameInv, Distinct, TypedInv, [Next]_vars
  PROVE  TypedInv'
<1> SUFFICES ASSUME phase' = "inspect"
             PROVE  TypedBefore(ft, heap, pc)'
  BY DEF TypedInv
<1>1. CASE Parser
  <2>1. pc' = 1
    <3>1. phase = "parse"
      BY <1>1 DEF Parser, ParseProcedure, ParseForward, ParseBegin, ParseUse, ParseCall,
             ParseReturn, ParseStatement, ParseEndProcedure, ParseEndModule, Parsing
    <3> QED
      BY <1>1, <3>1, ParserSteps DEF ParserStep
  <2>2. \A b \in BlocksIn(prog') : b >= 1 /\ b \in Nat
    BY DEF BlocksIn, ProceduresIn
  <2> QED
    BY <2>1, <2>2 DEF TypedBefore
<1>2. CASE Inspector
  <2>1. InspectedRight
    BY <1>2, InspectorTypes
  <2>2. phase = "inspect" /\ prog' = prog
    BY <1>2 DEF Inspector, Inspecting, InspectModule, InspectProcedure,
       InspectForward, InspectBegin, InspectUse, InspectCall, InspectReturn, InspectEndProcedure,
       InspectEndModule
  <2>3. pc' = pc + 1
    BY <1>2, PassSteps DEF PassStep
  <2>4. /\ IsText(prog) /\ pc \in 1 .. Len(prog) /\ Framed(prog, open, ft) /\ NestedIn(prog, ft)
        /\ Held(ft, Len(heap))
    BY <2>2, WalkingText DEF FrameInv, Scoped
  <2>5. ASSUME NEW b \in BlocksIn(prog), b < pc + 1, NEW n \in DOMAIN prog[b].decs
        PROVE  /\ n \in DOMAIN SymsOf(prog, ft', b)
               /\ Typed(heap'[SymsOf(prog, ft', b)[n]], n, b)
    <3>1. CASE b = pc
      <4>1. IsBlock(prog, pc)
        BY <2>4, <3>1 DEF BlocksIn, ProceduresIn, IsBlock, IsText
      <4> QED
        BY <2>1, <2>5, <3>1, <4>1 DEF InspectedRight
    <3>2. CASE b # pc
      <4>1. b \in 1 .. Len(prog) /\ b < pc
        BY <2>4, <2>5, <3>2, BlocksAre
      <4> DEFINE j == TableOf(prog, ft, b)
                 h == SymsOf(prog, ft, b)[n]
      <4>2. n \in DOMAIN SymsOf(prog, ft, b) /\ Typed(heap[h], n, b)
        BY <2>2, <2>5, <4>1 DEF TypedInv, TypedBefore
      <4>3. j \in 1 .. Len(ft.tables) /\ j \in DOMAIN ft.tables
        BY <2>4, <2>5, FramesOf DEF Framed, IsTable
      <4>4. j # FrameAt(ft, pc)
        <5>1. CASE IsBlock(prog, pc)
          <6>1. pc \in BlocksIn(prog)
            BY <2>4, <5>1 DEF BlocksIn, ProceduresIn, IsBlock, IsText
          <6> QED
            BY <2>4, <2>5, <3>2, <5>1, <6>1, TablesDiffer DEF FrameAt
        <5>2. CASE ~IsBlock(prog, pc)
          BY <4>3, <5>2 DEF FrameAt
        <5> QED
          BY <5>1, <5>2
      <4>5. n \in Vars
        BY <2>4, <4>1, <2>5 DEF IsText, ItemOK
      <4>6. h \in 1 .. Len(heap)
        BY <2>4, <4>2, <4>3 DEF Held, SymsOf
      <4>7. SymsOf(prog, ft', b) = ft'.tables[j].syms
        BY <2>1 DEF InspectedRight, SameVars, SymsOf, TableOf
      <4>8. /\ n \in DOMAIN ft.tables[j].syms /\ ft.tables[j].syms[n] = h
        BY <4>2 DEF SymsOf
      <4> HIDE DEF j, h
      <4>9. n \in DOMAIN ft'.tables[j].syms /\ ft'.tables[j].syms[n] = h
        BY <2>1, <4>3, <4>4, <4>5, <4>8 DEF InspectedRight, SameVars
      <4>10. Typed(heap'[h], n, b)
        BY <2>1, <4>2, <4>6 DEF InspectedRight, SymbolsStay, Typed
      <4> QED
        BY <4>7, <4>9, <4>10
    <3> QED
      BY <3>1, <3>2
  <2> QED
    BY <2>2, <2>3, <2>5 DEF TypedBefore, Typed
<1>3. CASE Generator
  BY <1>3 DEF Generator, GenerateModule, GenerateProcedure, GenerateForward, GenerateBegin,
     GenerateUse, GenerateCall, GenerateReturn, GenerateEndProcedure, GenerateEndModule, Abort,
     Generating, Onward
<1>4. CASE UNCHANGED vars
  <2>1. TypedBefore(ft, heap, pc) /\ prog' = prog /\ ft' = ft /\ heap' = heap /\ pc' = pc
    BY <1>4 DEF vars, TypedInv
  <2> QED
    BY <2>1 DEF TypedBefore, Typed
<1> QED
  BY <1>1, <1>2, <1>3, <1>4 DEF Next

-----------------------------------------------------------------------------
(* The free variables of the innermost procedure.                          *)

(* What is found does not depend on the names that were marked. *)
LEMMA SameLookups ==
  ASSUME NEW s, Nested(s), NEW t, SameFrames(s, t),
         \A j \in DOMAIN s.tables : t.tables[j].syms = s.tables[j].syms, NEW n
  PROVE  /\ Nested(t)
         /\ Found(t, n) <=> Found(s, n)
         /\ InnermostHolding(t, n) = InnermostHolding(s, n)
<1>1. Nested(t)
  <2>1. /\ t.stack = s.stack /\ t.current = s.current
        /\ Len(t.tables) = Len(s.tables) /\ DOMAIN t.tables = DOMAIN s.tables
        /\ \A i \in 1 .. Len(s.tables) : t.tables[i].next = s.tables[i].next
    BY DEF SameFrames, Nested, WellLinked
  <2>2. WellLinked(t)
    BY <2>1 DEF Nested, WellLinked
  <2>3. /\ t.tables[s.stack[1]].next = 0
        /\ \A k \in 2 .. Len(s.stack) : t.tables[s.stack[k]].next = s.stack[k - 1]
    <3>1. \A k \in 1 .. Len(s.stack) :
             t.tables[s.stack[k]].next = s.tables[s.stack[k]].next
      BY <2>1 DEF Nested
    <3>2. Len(s.stack) \in Nat \ {0}
      BY DEF Nested
    <3>3. 1 \in 1 .. Len(s.stack) /\ \A k \in 2 .. Len(s.stack) : k \in 1 .. Len(s.stack)
      BY <3>2
    <3> QED
      BY <3>1, <3>3 DEF Nested
  <2> QED
    BY <2>1, <2>2, <2>3 DEF Nested
<1>2. Holding(t, n) = Holding(s, n)
  <2>1. \A k \in 1 .. Len(s.stack) : t.tables[s.stack[k]].syms = s.tables[s.stack[k]].syms
    BY DEF Nested, WellLinked
  <2> QED
    BY <2>1 DEF Holding, SameFrames
<1> QED
  BY <1>1, <1>2, FoundInnermost DEF InnermostHolding

LEMMA MarksCurrent ==
  ASSUME NEW s, IsTable(s), Nested(s), NEW n
  PROVE  FreeVariables(MarkFree(s, n)) =
           FreeVariables(s) \cup
             IF Found(s, n) /\ InnermostHolding(s, n) # Len(s.stack) THEN {n} ELSE {}
<1>1. CASE ~Found(s, n)
  BY <1>1 DEF MarkFree
<1>2. CASE Found(s, n)
  <2> DEFINE passed == {Chain(s)[k] : k \in 1 .. Nearest(Hits(s, n)) - 1}
             K == InnermostHolding(s, n)
             free == [i \in DOMAIN s.tables |->
                       s.tables[i].free \cup (IF i \in passed THEN {n} ELSE {})]
  <2>1. MarkFree(s, n) = WithFree(s, free)
    BY <1>2 DEF MarkFree
  <2>2. K \in Holding(s, n) /\ passed = {s.stack[k] : k \in K + 1 .. Len(s.stack)}
    BY <1>2, FoundInnermost
  <2>3. s.current \in DOMAIN s.tables /\ s.current = s.stack[Len(s.stack)] /\ Len(s.stack) \in Nat
    BY DEF Nested, WellLinked
  <2>4. K \in 1 .. Len(s.stack)
    BY <2>2 DEF Holding
  <2> HIDE DEF K, passed
  <2>5. s.current \in passed <=> K # Len(s.stack)
    BY <2>2, <2>3, <2>4
  <2>6. free[s.current] = s.tables[s.current].free \cup (IF K # Len(s.stack) THEN {n} ELSE {})
    BY <2>3, <2>5
  <2> HIDE DEF free
  <2>7. /\ WithFree(s, free).current = s.current
        /\ WithFree(s, free).tables[s.current].free = free[s.current]
    <3>1. /\ SameFrames(s, WithFree(s, free))
          /\ \A j \in DOMAIN s.tables : WithFree(s, free).tables[j].free = free[j]
      BY WithFreeFrames
    <3> QED
      BY <2>3, <3>1 DEF SameFrames
  <2> QED
    BY <1>2, <2>1, <2>6, <2>7 DEF FreeVariables, K
<1> QED
  BY <1>1, <1>2

LEMMA ResetsCurrent ==
  ASSUME NEW s, IsTable(s), WellLinked(s)
  PROVE  FreeVariables(ResetFree(s)) = {}
<1> DEFINE chain == {Chain(s)[k] : k \in DOMAIN Chain(s)}
           free == [i \in DOMAIN s.tables |-> IF i \in chain THEN {} ELSE s.tables[i].free]
<1>1. ResetFree(s) = WithFree(s, free)
  BY DEF ResetFree
<1>2. s.current \in chain
  <2>1. 1 \in DOMAIN Chain(s) /\ Chain(s)[1] = s.current
    BY ChainTables
  <2> QED
    BY <2>1
<1>3. s.current \in DOMAIN s.tables
  BY DEF WellLinked
<1> HIDE DEF chain
<1>4. free[s.current] = {}
  BY <1>2, <1>3
<1> HIDE DEF free
<1>5. /\ WithFree(s, free).current = s.current
      /\ WithFree(s, free).tables[s.current].free = free[s.current]
  <2>1. /\ SameFrames(s, WithFree(s, free))
        /\ \A j \in DOMAIN s.tables : WithFree(s, free).tables[j].free = free[j]
    BY WithFreeFrames
  <2> QED
    BY <1>3, <2>1 DEF SameFrames
<1> QED
  BY <1>1, <1>4, <1>5 DEF FreeVariables

(* The inspector behind the heading of a procedure. *)
LEMMA MarksFree ==
  ASSUME TextInv, FrameInv, HoldInv, Distinct, phase = "inspect", pc # 1, NEW n \in Idents
  PROVE  /\ FreeVariables(MarkFree(ft, n)) =
              FreeVariables(ft) \cup IF FromAround(n, prog[pc].block) THEN {n} ELSE {}
         /\ \A m \in Idents : FreeVariables(MarkFree(MarkFree(ft, m), n)) =
              FreeVariables(MarkFree(ft, m))
                \cup IF FromAround(n, prog[pc].block) THEN {n} ELSE {}
<1>1. IsTable(ft) /\ Nested(ft) /\ Len(ft.stack) = Len(open)
  BY OpenFramesNested DEF FrameInv, Scoped, Framed
<1>2. Found(ft, n) /\ InnermostHolding(ft, n) # Len(ft.stack) <=> FromAround(n, prog[pc].block)
  <2>1. /\ Found(ft, n) <=> Homes(n, prog[pc].block) # {}
        /\ Found(ft, n) => (InnermostHolding(ft, n) = Len(open)
                              <=> Home(n, prog[pc].block) = prog[pc].block)
    BY NameFound
  <2> QED
    BY <1>1, <2>1 DEF FromAround
<1>3. FreeVariables(MarkFree(ft, n)) =
         FreeVariables(ft) \cup
           IF Found(ft, n) /\ InnermostHolding(ft, n) # Len(ft.stack) THEN {n} ELSE {}
  BY <1>1, MarksCurrent
<1>4. ASSUME NEW m \in Idents
      PROVE  FreeVariables(MarkFree(MarkFree(ft, m), n)) =
              FreeVariables(MarkFree(ft, m))
                \cup IF FromAround(n, prog[pc].block) THEN {n} ELSE {}
  <2> DEFINE t == MarkFree(ft, m)
  <2>1. SameFrames(ft, t) /\ \A j \in DOMAIN ft.tables : t.tables[j].syms = ft.tables[j].syms
    BY <1>1, MarkFreeFrames
  <2> HIDE DEF t
  <2>2. /\ IsTable(t) /\ Nested(t) /\ t.stack = ft.stack
        /\ Found(t, n) <=> Found(ft, n)
        /\ InnermostHolding(t, n) = InnermostHolding(ft, n)
    BY <1>1, <2>1, SameFramesTable, SameLookups DEF SameFrames
  <2>3. FreeVariables(MarkFree(t, n)) =
         FreeVariables(t) \cup
           IF Found(t, n) /\ InnermostHolding(t, n) # Len(t.stack) THEN {n} ELSE {}
    BY <2>2, MarksCurrent
  <2>4. FreeVariables(MarkFree(t, n)) =
         FreeVariables(t) \cup IF FromAround(n, prog[pc].block) THEN {n} ELSE {}
    BY <1>2, <2>2, <2>3
  <2> QED
    BY <2>4 DEF t
<1> QED
  BY <1>2, <1>3, <1>4

LEMMA ScopesStay ==
  ASSUME prog' = prog
  PROVE  /\ \A n, b : /\ Homes(n, b)' = Homes(n, b) /\ Home(n, b)' = Home(n, b)
                      /\ FromAround(n, b)' = FromAround(n, b)
         /\ \A n, b, i : UsesBefore(n, b, i)' = UsesBefore(n, b, i)
BY DEF FromAround, Homes, Home, Around, HeadingsOf, UsesBefore, Uses

(* A statement adds the names that it uses to those that were used before. *)
LEMMA FreeAfter ==
  ASSUME TextInv, TextInv', BodyInv, FreeInv, phase = "inspect", ~errors, prog' = prog,
         phase' = "inspect", pc' = pc + 1, prog[pc].op \in {"use", "call", "return"},
         \A n \in Vars :
            n \in FreeVariables(ft') <=> \/ n \in FreeVariables(ft)
                                         \/ Uses(pc, n) /\ FromAround(n, prog[pc].block)
  PROVE  FreeInv'
<1> DEFINE b == prog[pc].block
<1>1. IsText(prog) /\ pc \in 1 .. Len(prog) /\ Bodies(prog) /\ Len(prog) \in Nat
  BY WalkingText DEF BodyInv, IsText, IsSeq
<1>2. InBody
  BY <1>1 DEF Bodies, InBody
<1>3. pc' \in 1 .. Len(prog) /\ pc \in 1 .. Len(prog) - 1
  BY <1>1 DEF TextInv, Walking
<1>4. prog[pc'].block = b
  <2>1. prog[pc + 1].block = Following(prog, pc)
    BY <1>1, <1>3 DEF IsText
  <2> QED
    BY <2>1 DEF Following, IsBlock
<1>5. ASSUME NEW n \in Vars
      PROVE  UsesBefore(n, b, pc') <=> UsesBefore(n, b, pc) \/ Uses(pc, n)
  <2>1. \A j : j \in 1 .. pc' - 1 <=> j \in 1 .. pc - 1 \/ j = pc
    BY <1>1
  <2> QED
    BY <2>1 DEF UsesBefore
<1>6. ASSUME b # 1, NEW n \in Vars
      PROVE  n \in FreeVariables(ft') <=> UsesBefore(n, b, pc') /\ FromAround(n, b)
  <2>1. n \in FreeVariables(ft) <=> UsesBefore(n, b, pc) /\ FromAround(n, b)
    BY <1>2, <1>6 DEF FreeInv
  <2> QED
    BY <1>5, <2>1
<1>7. /\ \A n, c, i : UsesBefore(n, c, i)' = UsesBefore(n, c, i)
      /\ \A n, c : FromAround(n, c)' = FromAround(n, c)
  BY ScopesStay
<1>8. prog'[pc'].block = b
  BY <1>4
<1> QED
  BY <1>4, <1>6, <1>7 DEF FreeInv

LEMMA FreeKept ==
  ASSUME TextInv, TextInv', FrameInv, HoldInv, BodyInv, Distinct, FreeInv, [Next]_vars
  PROVE  FreeInv'
<1> SUFFICES ASSUME phase' = "inspect", ~errors', InBody', (prog[pc].block # 1)'
             PROVE  FreeInv'
  BY DEF FreeInv
<1>1. CASE Parser
  <2>1. pc' = 1
    <3>1. phase = "parse"
      BY <1>1 DEF Parser, ParseProcedure, ParseForward, ParseBegin, ParseUse, ParseCall,
             ParseReturn, ParseStatement, ParseEndProcedure, ParseEndModule, Parsing
    <3> QED
      BY <1>1, <3>1, ParserSteps DEF ParserStep
  <2> QED
    BY <2>1 DEF InBody
<1>2. CASE Inspector
  <2>1. phase = "inspect" /\ prog' = prog
    BY <1>2 DEF Inspector, Inspecting, InspectModule, InspectProcedure,
       InspectForward, InspectBegin, InspectUse, InspectCall, InspectReturn, InspectEndProcedure,
       InspectEndModule
  <2>2. pc' = pc + 1
    BY <1>2, PassSteps DEF PassStep
  <2> DEFINE b == prog[pc].block
  <2>3. /\ IsText(prog) /\ pc \in 1 .. Len(prog) /\ Bodies(prog) /\ IsOpen(prog, open)
        /\ Top(open) = IF pc = 1 THEN 1 ELSE b
    BY <2>1, WalkingText DEF BodyInv
  <2>4. prog[pc].op \in BodyOps
    <3>1. pc' - 1 = pc /\ pc \in 1 .. Len(prog)
      BY <2>2, <2>3
    <3> QED
      BY <2>1, <3>1 DEF InBody, BodyOps
  <2>5. pc # 1
    BY <2>3, <2>4 DEF IsText, BodyOps
  <2>6. pc' \in 1 .. Len(prog) /\ pc \in 1 .. Len(prog) - 1 /\ Len(prog) \in Nat
    BY <2>1, <2>2, <2>3 DEF TextInv, Walking, IsText, IsSeq
  <2>7. prog'[pc'].block = b /\ b # 1
    <3>1. prog[pc + 1].block = Following(prog, pc)
      BY <2>3, <2>6 DEF IsText
    <3> QED
      BY <2>1, <2>2, <2>4, <3>1 DEF Following, IsBlock, BodyOps
  <2>8. \A n \in Idents :
          /\ FreeVariables(MarkFree(ft, n)) =
                FreeVariables(ft) \cup IF FromAround(n, b) THEN {n} ELSE {}
          /\ \A m \in Idents : FreeVariables(MarkFree(MarkFree(ft, m), n)) =
                FreeVariables(MarkFree(ft, m)) \cup IF FromAround(n, b) THEN {n} ELSE {}
    BY <2>1, <2>5, MarksFree
  <2>9. CASE InspectBegin
    <3>1. ~InModule
      BY <2>3, <2>5, <2>7, TopIsBlock DEF InModule
    <3>2. ft' = ResetFree(ft) /\ prog[pc].op = "begin"
      BY <2>9, <3>1 DEF InspectBegin, Inspecting, At
    <3>3. IsTable(ft) /\ WellLinked(ft)
      BY OpenFramesNested DEF FrameInv, Scoped, Framed, Nested
    <3>4. FreeVariables(ft') = {}
      BY <3>2, <3>3, ResetsCurrent
    <3>5. ASSUME NEW n \in Vars, NEW j \in 1 .. pc' - 1, prog[j].block = b
          PROVE  ~Uses(j, n)
      <4>1. j \in 1 .. Len(prog) /\ (j < pc \/ j = pc)
        BY <2>2, <2>3, <2>6
      <4>2. prog[j].op \notin {"use", "call"}
        <5>1. CASE j = pc
          BY <3>2, <5>1
        <5>2. CASE j < pc
          BY <2>3, <3>2, <3>5, <4>1, <5>2 DEF Bodies, BodyOps
        <5> QED
          BY <4>1, <5>1, <5>2
      <4>3. prog[j].arg = NoName
        BY <2>3, <4>1, <4>2 DEF Bodies
      <4>4. NoName \notin Vars
        BY NotVars
      <4> QED
        BY <4>2, <4>3, <4>4 DEF Uses
    <3>6. \A n \in Vars : ~UsesBefore(n, b, pc')
      BY <3>5 DEF UsesBefore
    <3>7. FreeVariables(ft)' = {}
      BY <3>4 DEF FreeVariables
    <3>8. \A n, c, i : UsesBefore(n, c, i)' = UsesBefore(n, c, i)
      BY <2>1, ScopesStay
    <3> QED
      BY <2>7, <3>6, <3>7, <3>8 DEF FreeInv
  <2>10. CASE InspectUse
    <3>1. /\ prog[pc].op = "use" /\ prog[pc].arg = NoName /\ Name \in Vars /\ Name \in Idents
      BY <2>3, <2>10 DEF InspectUse, Inspecting, At, Bodies, IsText, ItemOK, Name, Idents
    <3>2. ~errors /\ ft' = MarkFree(ft, Name)
      BY <2>10 DEF InspectUse
    <3>3. \A n \in Vars : Uses(pc, n) <=> n = Name
      BY <3>1, NotVars DEF Uses, Name
    <3>4. \A n \in Vars : n \in FreeVariables(ft') <=> \/ n \in FreeVariables(ft)
                                                       \/ Uses(pc, n) /\ FromAround(n, b)
      BY <2>8, <3>1, <3>2, <3>3
    <3> QED
      BY <2>1, <2>2, <3>1, <3>2, <3>4, FreeAfter
  <2>11. CASE InspectCall
    <3> DEFINE arg == prog[pc].arg
    <3>1. /\ prog[pc].op = "call" /\ Name \in Range(ProcNames) /\ Name \in Idents
          /\ arg \in Vars \cup {NoName}
      BY <2>3, <2>11 DEF InspectCall, Inspecting, At, IsText, ItemOK, Name, Idents
    <3>2. ~BadCall /\ ~errors
      BY <2>11 DEF InspectCall
    <3>3. ft' = IF arg = NoName THEN MarkFree(ft, Name) ELSE MarkFree(MarkFree(ft, Name), arg)
      BY <2>11, <3>2 DEF InspectCall
    <3>4. Name \notin Vars /\ NoName \notin Vars /\ (arg # NoName => arg \in Idents)
      BY <3>1, NotVars DEF Idents
    <3>5. \A n \in Vars : Uses(pc, n) <=> n = arg
      BY <3>1 DEF Uses
    <3>6. \A n \in Vars : n \in FreeVariables(MarkFree(ft, Name)) <=> n \in FreeVariables(ft)
      BY <2>8, <3>1, <3>4
    <3>7. \A n \in Vars : n \in FreeVariables(ft') <=> \/ n \in FreeVariables(ft)
                                                       \/ Uses(pc, n) /\ FromAround(n, b)
      <4>1. CASE arg = NoName
        BY <3>3, <3>4, <3>5, <3>6, <4>1
      <4>2. CASE arg # NoName
        <5>1. FreeVariables(ft') = FreeVariables(MarkFree(ft, Name))
                                     \cup IF FromAround(arg, b) THEN {arg} ELSE {}
          BY <2>8, <3>1, <3>3, <3>4, <4>2
        <5> QED
          BY <3>5, <3>6, <5>1
      <4> QED
        BY <4>1, <4>2
    <3> QED
      BY <2>1, <2>2, <3>1, <3>2, <3>7, FreeAfter
  <2>12. CASE InspectReturn
    <3>1. /\ prog[pc].op = "return" /\ prog[pc].arg = NoName
      BY <2>3, <2>12 DEF InspectReturn, Inspecting, At, Bodies
    <3>2. ~errors /\ ft' = ft
      BY <2>12 DEF InspectReturn
    <3>3. \A n \in Vars : ~Uses(pc, n)
      BY <3>1, NotVars DEF Uses
    <3> QED
      BY <2>1, <2>2, <3>1, <3>2, <3>3, FreeAfter
  <2> QED
    BY <1>2, <2>4, <2>9, <2>10, <2>11, <2>12 DEF Inspector, InspectModule, InspectProcedure,
       InspectForward, InspectEndProcedure, InspectEndModule, Inspecting, At, BodyOps
<1>3. CASE Generator
  BY <1>3 DEF Generator, GenerateModule, GenerateProcedure, GenerateForward, GenerateBegin,
     GenerateUse, GenerateCall, GenerateReturn, GenerateEndProcedure, GenerateEndModule, Abort,
     Generating, Onward
<1>4. CASE UNCHANGED vars
  <2>1. prog' = prog /\ phase' = phase /\ pc' = pc /\ errors' = errors /\ ft' = ft
    BY <1>4 DEF vars
  <2>2. \A n, b, i : /\ UsesBefore(n, b, i)' <=> UsesBefore(n, b, i)
                     /\ FromAround(n, b)' <=> FromAround(n, b)
    BY <2>1, ScopesStay
  <2> QED
    BY <2>1, <2>2 DEF FreeInv, InBody
<1> QED
  BY <1>1, <1>2, <1>3, <1>4 DEF Next

LEMMA FreeOutKept ==
  ASSUME TextInv, TextInv', FrameInv, HoldInv, BodyInv, Distinct, FreeOut, [Next]_vars
  PROVE  FreeOut'
<1> SUFFICES ASSUME phase' = "inspect", InBody', (prog[pc].block # 1)',
                    NEW n \in FreeVariables(ft')
             PROVE  FromAround(n, prog[pc].block)'
  BY DEF FreeOut, FreeVariables
<1>1. CASE Parser
  <2>1. pc' = 1
    <3>1. phase = "parse"
      BY <1>1 DEF Parser, ParseProcedure, ParseForward, ParseBegin, ParseUse, ParseCall,
             ParseReturn, ParseStatement, ParseEndProcedure, ParseEndModule, Parsing
    <3> QED
      BY <1>1, <3>1, ParserSteps DEF ParserStep
  <2> QED
    BY <2>1 DEF InBody
<1>2. CASE Inspector
  <2>1. phase = "inspect" /\ prog' = prog
    BY <1>2 DEF Inspector, Inspecting, InspectModule, InspectProcedure,
       InspectForward, InspectBegin, InspectUse, InspectCall, InspectReturn, InspectEndProcedure,
       InspectEndModule
  <2>2. pc' = pc + 1
    BY <1>2, PassSteps DEF PassStep
  <2> DEFINE b == prog[pc].block
  <2>3. /\ IsText(prog) /\ pc \in 1 .. Len(prog) /\ Bodies(prog) /\ IsOpen(prog, open)
        /\ Top(open) = IF pc = 1 THEN 1 ELSE b
    BY <2>1, WalkingText DEF BodyInv
  <2>4. prog[pc].op \in BodyOps
    <3>1. pc' - 1 = pc /\ pc \in 1 .. Len(prog)
      BY <2>2, <2>3
    <3> QED
      BY <2>1, <3>1 DEF InBody, BodyOps
  <2>5. pc # 1
    BY <2>3, <2>4 DEF IsText, BodyOps
  <2>6. pc' \in 1 .. Len(prog) /\ pc \in 1 .. Len(prog) - 1 /\ Len(prog) \in Nat
    BY <2>1, <2>2, <2>3 DEF TextInv, Walking, IsText, IsSeq
  <2>7. prog'[pc'].block = b /\ b # 1
    <3>1. prog[pc + 1].block = Following(prog, pc)
      BY <2>3, <2>6 DEF IsText
    <3> QED
      BY <2>1, <2>2, <2>4, <3>1 DEF Following, IsBlock, BodyOps
  <2>8. \A m \in Idents :
          /\ FreeVariables(MarkFree(ft, m)) =
                FreeVariables(ft) \cup IF FromAround(m, b) THEN {m} ELSE {}
          /\ \A k \in Idents : FreeVariables(MarkFree(MarkFree(ft, k), m)) =
                FreeVariables(MarkFree(ft, k)) \cup IF FromAround(m, b) THEN {m} ELSE {}
    BY <2>1, <2>5, MarksFree
  <2>9. CASE InspectBegin
    <3>1. ~InModule
      BY <2>3, <2>5, <2>7, TopIsBlock DEF InModule
    <3>2. ft' = ResetFree(ft)
      BY <2>9, <3>1 DEF InspectBegin
    <3>3. IsTable(ft) /\ WellLinked(ft)
      BY OpenFramesNested DEF FrameInv, Scoped, Framed, Nested
    <3> QED
      BY <3>2, <3>3, ResetsCurrent
  <2>10. CASE InspectUse \/ InspectCall \/ InspectReturn
    <3>0. prog[pc].op \in {"use", "call", "return"}
      BY <2>10 DEF InspectUse, InspectCall, InspectReturn, Inspecting, At
    <3>1. \A m \in FreeVariables(ft) : FromAround(m, b)
      BY <2>1, <2>3, <2>7, <3>0 DEF FreeOut, InBody, Bodies
    <3>2. /\ prog[pc].op \in {"use", "call"} => Name \in Idents
          /\ prog[pc].arg # NoName => prog[pc].arg \in Idents
      BY <2>3, NamesHere
    <3>3. FromAround(n, b)
      <4>1. CASE InspectUse
        BY <2>8, <3>1, <3>2, <4>1 DEF InspectUse, Inspecting, At
      <4>2. CASE InspectReturn
        BY <3>1, <4>2 DEF InspectReturn
      <4>3. CASE InspectCall
        <5>1. Name \in Idents
          BY <3>2, <4>3 DEF InspectCall, Inspecting, At
        <5>2. \A m \in FreeVariables(MarkFree(ft, Name)) : FromAround(m, b)
          BY <2>8, <3>1, <5>1
        <5>3. \/ ft' = MarkFree(ft, Name)
              \/ prog[pc].arg # NoName /\ ft' = MarkFree(MarkFree(ft, Name), prog[pc].arg)
          BY <4>3 DEF InspectCall
        <5> QED
          BY <2>8, <3>2, <5>1, <5>2, <5>3
      <4> QED
        BY <2>10, <4>1, <4>2, <4>3
    <3> QED
      BY <2>1, <2>7, <3>3, ScopesStay
  <2> QED
    BY <1>2, <2>4, <2>9, <2>10 DEF Inspector, InspectModule, InspectProcedure,
       InspectForward, InspectEndProcedure, InspectEndModule, Inspecting, At, BodyOps
<1>3. CASE Generator
  BY <1>3 DEF Generator, GenerateModule, GenerateProcedure, GenerateForward, GenerateBegin,
     GenerateUse, GenerateCall, GenerateReturn, GenerateEndProcedure, GenerateEndModule, Abort,
     Generating, Onward
<1>4. CASE UNCHANGED vars
  <2>1. prog' = prog /\ phase' = phase /\ pc' = pc /\ ft' = ft
    BY <1>4 DEF vars
  <2>2. \A m, b : FromAround(m, b)' <=> FromAround(m, b)
    BY <2>1, ScopesStay
  <2>3. phase = "inspect" /\ InBody /\ prog[pc].block # 1 /\ n \in FreeVariables(ft)
    BY <2>1 DEF InBody
  <2> QED
    BY <2>1, <2>2, <2>3 DEF FreeOut
<1> QED
  BY <1>1, <1>2, <1>3, <1>4 DEF Next

-----------------------------------------------------------------------------
(* The closures that the inspector makes.                                  *)

(* The symbols keep their captures, but symbol x, and no procedure is new. *)
CapturesStay(H, G, x) ==
    /\ SymbolsStay(H, G)
    /\ \A h \in 1 .. Len(H) : h # x => G[h].caps = H[h].caps
    /\ \A h \in 1 .. Len(G) : h \notin 1 .. Len(H) => G[h].kind # "proc"

LEMMA CapturesSame ==
  ASSUME NEW H, Len(H) \in Nat, NEW x
  PROVE  CapturesStay(H, H, x)
BY DEF CapturesStay, SymbolsStay

LEMMA CapturesJoin ==
  ASSUME NEW H, IsSeq(H), NEW G, IsSeq(G), \A k \in 1 .. Len(G) : G[k].kind # "proc", NEW x
  PROVE  CapturesStay(H, H \o G, x)
<1> DEFINE J == H \o G
<1>1. /\ Len(J) = Len(H) + Len(G)
      /\ \A h \in 1 .. Len(H) : J[h] = H[h]
      /\ \A k \in 1 .. Len(G) : J[Len(H) + k] = G[k]
  BY Joined
<1>2. Len(H) \in Nat /\ Len(G) \in Nat
  BY DEF IsSeq
<1> HIDE DEF J
<1>3. ASSUME NEW h \in 1 .. Len(J), h \notin 1 .. Len(H)
      PROVE  J[h].kind # "proc"
  <2>1. h - Len(H) \in 1 .. Len(G) /\ h = Len(H) + (h - Len(H))
    BY <1>1, <1>2, <1>3
  <2>2. J[h] = G[h - Len(H)]
    BY <1>1, <2>1
  <2> QED
    BY <2>1, <2>2
<1>4. CapturesStay(H, J, x)
  BY <1>1, <1>2, <1>3 DEF CapturesStay, SymbolsStay
<1> QED
  BY <1>4 DEF J

LEMMA CapturesAppend ==
  ASSUME NEW H, IsSeq(H), NEW e, e.kind # "proc", NEW x
  PROVE  CapturesStay(H, Append(H, e), x)
<1>1. /\ Len(Append(H, e)) = Len(H) + 1 /\ Append(H, e)[Len(H) + 1] = e
      /\ \A h \in 1 .. Len(H) : Append(H, e)[h] = H[h]
  BY Appended
<1>2. Len(H) \in Nat
  BY DEF IsSeq
<1>3. \A h \in 1 .. Len(H) + 1 : h \notin 1 .. Len(H) => h = Len(H) + 1
  BY <1>2
<1> QED
  BY <1>1, <1>2, <1>3 DEF CapturesStay, SymbolsStay

LEMMA CapturesTrans ==
  ASSUME NEW H, Len(H) \in Nat, NEW G, Len(G) \in Nat, NEW J, NEW x,
         CapturesStay(H, G, x), CapturesStay(G, J, x)
  PROVE  CapturesStay(H, J, x)
<1>1. /\ Len(H) <= Len(G) /\ Len(G) <= Len(J)
      /\ \A h \in 1 .. Len(H) : h \in 1 .. Len(G)
  BY DEF CapturesStay, SymbolsStay
<1>2. ASSUME NEW h \in 1 .. Len(J), h \notin 1 .. Len(H)
      PROVE  J[h].kind # "proc"
  <2>1. CASE h \in 1 .. Len(G)
    BY <1>2, <2>1 DEF CapturesStay, SymbolsStay
  <2>2. CASE h \notin 1 .. Len(G)
    BY <2>2 DEF CapturesStay
  <2> QED
    BY <2>1, <2>2
<1>3. ASSUME NEW h \in 1 .. Len(H)
      PROVE  /\ J[h].kind = H[h].kind /\ J[h].name = H[h].name
             /\ J[h].block = H[h].block /\ J[h].global = H[h].global
             /\ h # x => J[h].caps = H[h].caps
  BY <1>1, <1>3 DEF CapturesStay, SymbolsStay
<1>4. Len(H) <= Len(J)
  BY <1>1 DEF CapturesStay, SymbolsStay
<1> QED
  BY <1>2, <1>3, <1>4 DEF CapturesStay, SymbolsStay

LEMMA CapturesRevalued ==
  ASSUME NEW H, Symbols(H), NEW G, Revalued(H, G), NEW x
  PROVE  CapturesStay(H, G, x)
<1>1. Symbols(G) /\ Len(G) = Len(H)
  BY SymbolsRevalued
<1>2. DOMAIN H = 1 .. Len(H) /\ Len(H) \in Nat
  BY DEF Symbols, IsSeq
<1>3. ASSUME NEW h \in 1 .. Len(H)
      PROVE  /\ G[h].kind = H[h].kind /\ G[h].name = H[h].name
             /\ G[h].block = H[h].block /\ G[h].global = H[h].global
             /\ G[h].caps = H[h].caps
  <2>1. G[h] = H[h] \/ \E v : G[h] = WithValue(H[h], v)
    BY <1>2 DEF Revalued
  <2>2. IsSymbol(H[h])
    BY DEF Symbols
  <2>3. ASSUME NEW v
        PROVE  LET y == WithValue(H[h], v)
               IN  /\ y.kind = H[h].kind /\ y.name = H[h].name
                   /\ y.block = H[h].block /\ y.global = H[h].global
                   /\ y.caps = H[h].caps
    BY <2>2 DEF IsSymbol, WithValue
  <2> QED
    BY <2>1, <2>3
<1> QED
  BY <1>1, <1>2, <1>3 DEF CapturesStay, SymbolsStay

LEMMA CapturesMeant ==
  ASSUME prog' = prog
  PROVE  \A b : Captures(b)' = Captures(b)
BY DEF Captures, UsedIn, KindOf, Homes, Home, Around, HeadingsOf

LEMMA ClosedStays ==
  ASSUME prog' = prog, NEW x, NEW y, y.name = x.name, y.block = x.block, y.caps = x.caps, Closed(x)
  PROVE  Closed(y)'
<1>1. PICK b \in ProceduresIn(prog) : /\ prog[b].name = x.name /\ prog[b].block = x.block
                                      /\ x.caps \cap Vars = Captures(b)
                                      /\ \A n \in x.caps : FromAround(n, b)
  BY DEF Closed
<1>2. /\ Captures(b)' = Captures(b) /\ ProceduresIn(prog)' = ProceduresIn(prog)
      /\ \A n : FromAround(n, b)' = FromAround(n, b)
  BY CapturesMeant, ScopesStay DEF ProceduresIn
<1>3. b \in ProceduresIn(prog')
  BY <1>1
<1> QED
  BY <1>1, <1>2, <1>3 DEF Closed

LEMMA KindsOfVars ==
  ASSUME Bodies(prog), NEW b \in 1 .. Len(prog), NEW n \in DOMAIN prog[b].decs
  PROVE  prog[b].decs[n] # "proc"
BY ConstantsAssumption DEF Bodies

LEMMA PassCaptures ==
  ASSUME TextInv, TextInv', FrameInv, BodyInv, Inspector \/ Generator,
         ~InspectProcedure, ~InspectEndProcedure
  PROVE  CapturesStay(heap, heap', 0)
<1>1. Symbols(heap) /\ IsSeq(heap) /\ Len(heap) \in Nat
  BY DEF FrameInv, Scoped, Symbols, IsSeq
<1>2. heap' = heap => CapturesStay(heap, heap', 0)
  BY <1>1, CapturesSame
<1>3. Revalued(heap, heap') => CapturesStay(heap, heap', 0)
  BY <1>1, CapturesRevalued
<1>4. CASE InspectModule
  <2> DEFINE ns == SetToSeq(DOMAIN prog[pc].decs)
             new == TypedSymbols(ns, TRUE)
  <2>1. phase = "inspect" /\ prog' = prog /\ prog[pc].op = "module" /\ heap' = heap \o new
    BY <1>4 DEF InspectModule, Inspecting, At
  <2>2. IsText(prog) /\ pc \in 1 .. Len(prog) /\ Bodies(prog)
    BY <2>1, WalkingText DEF BodyInv
  <2>3. IsSeq(ns) /\ Values(ns) = DOMAIN prog[pc].decs
    BY <2>2, NamesHere, InOrder
  <2>4. pc = 1
    BY <2>1, <2>2 DEF IsText, IsSeq
  <2>5. /\ IsSeq(new) /\ Len(new) = Len(ns)
        /\ \A k \in 1 .. Len(ns) : new[k].kind = prog[pc].decs[ns[k]]
    BY <2>3, <2>4, TypedSymbolsAre
  <2>6. \A k \in 1 .. Len(ns) : ns[k] \in DOMAIN prog[pc].decs
    BY <2>3 DEF Values
  <2> HIDE DEF ns, new
  <2>7. \A k \in 1 .. Len(new) : new[k].kind # "proc"
    BY <2>2, <2>5, <2>6, KindsOfVars
  <2> QED
    BY <1>1, <2>1, <2>5, <2>7, CapturesJoin
<1>5. CASE InspectForward
  <2> DEFINE x == ProcSymbol("fwd", pc)
  <2>1. heap' = Append(heap, x)
    BY <1>5 DEF InspectForward
  <2>2. x.kind = "fwd"
    BY DEF ProcSymbol, Symbol
  <2> HIDE DEF x
  <2> QED
    BY <1>1, <2>1, <2>2, CapturesAppend
<1>6. CASE GenerateProcedure
  <2> DEFINE caps == SetToSeq(heap[Lookup(ft, Name)].caps)
             new == [k \in DOMAIN caps |-> Captured(caps[k], NestedName(Name))]
  <2>1. PICK G : Revalued(heap, G) /\ heap' = G \o new
    BY <1>6, GeneratorValues
  <2>2. CapturesStay(heap, G, 0) /\ Symbols(G) /\ Len(G) = Len(heap)
    BY <1>1, <2>1, CapturesRevalued, SymbolsRevalued
  <2>3. IsSeq(caps)
    <3>1. phase = "generate" /\ prog[pc].op = "procedure"
      BY <1>6 DEF GenerateProcedure, Generating, At
    <3>2. IsSymbol(heap[Lookup(ft, Name)])
      BY <1>1, <3>1, HeadingFound DEF FrameInv, Symbols
    <3> QED
      BY <3>2, InOrder DEF IsSymbol
  <2>4. Symbols(new) /\ Len(new) = Len(caps)
    BY <2>3, CapturedAre
  <2>5. \A k \in 1 .. Len(caps) : new[k].kind = "var"
    BY <2>3 DEF Captured, Symbol, IsSeq
  <2> HIDE DEF caps, new
  <2>6. CapturesStay(G, G \o new, 0)
    BY <2>2, <2>4, <2>5, CapturesJoin DEF Symbols
  <2> QED
    <3>1. Len(G) \in Nat
      BY <1>1, <2>2
    <3> QED
      BY <1>1, <2>1, <2>2, <2>6, <3>1, CapturesTrans
<1> QED
  BY <1>2, <1>3, <1>4, <1>5, <1>6, GeneratorValues DEF Inspector, Generator, InspectBegin,
     InspectUse, InspectCall, InspectReturn, InspectEndModule

LEMMA InspectProcedureCaptures ==
  ASSUME TextInv, TextInv', FrameInv, BodyInv, InspectProcedure
  PROVE  LET m == Len(heap) + 1
         IN  /\ m \in 1 .. Len(heap')
             /\ heap'[m].kind = "proc" /\ heap'[m].caps = {} /\ heap'[m].global
             /\ heap'[m].name = prog[pc].name /\ heap'[m].block = prog[pc].block
             /\ \A h \in 1 .. Len(heap) : heap'[h] = heap[h] /\ h \in 1 .. Len(heap')
             /\ \A h \in 1 .. Len(heap') : h \in 1 .. Len(heap) \/ h = m \/ heap'[h].kind # "proc"
<1> DEFINE ns == SetToSeq(DOMAIN prog[pc].decs)
           m  == Len(heap) + 1
           x  == ProcSymbol("proc", pc)
           new == TypedSymbols(ns, FALSE)
           H == Append(heap, x)
<1>1. /\ phase = "inspect" /\ prog' = prog /\ prog[pc].op = "procedure" /\ heap' = H \o new
  BY DEF InspectProcedure, Inspecting, At
<1>2. IsText(prog) /\ pc \in 1 .. Len(prog) /\ Bodies(prog)
  BY <1>1, WalkingText DEF BodyInv
<1>3. Len(heap) \in Nat /\ IsSeq(heap)
  BY DEF FrameInv, Scoped, Symbols, IsSeq
<1>4. /\ x.kind = "proc" /\ x.caps = {} /\ x.global
      /\ x.name = prog[pc].name /\ x.block = prog[pc].block
  BY <1>1, ProcSymbolNamed
<1>5. IsSeq(ns) /\ Values(ns) = DOMAIN prog[pc].decs
  BY <1>2, NamesHere, InOrder
<1>6. pc # 1
  BY <1>1, <1>2 DEF IsText
<1>7. /\ IsSeq(new) /\ Len(new) = Len(ns)
      /\ \A k \in 1 .. Len(ns) : new[k].kind = prog[pc].decs[ns[k]]
  BY <1>5, <1>6, TypedSymbolsAre
<1>8. \A k \in 1 .. Len(ns) : ns[k] \in DOMAIN prog[pc].decs
  BY <1>5 DEF Values
<1> HIDE DEF ns, new, x
<1>9. \A k \in 1 .. Len(new) : new[k].kind # "proc"
  BY <1>2, <1>7, <1>8, KindsOfVars
<1>10. /\ IsSeq(H) /\ Len(H) = m /\ H[m] = x
       /\ \A h \in 1 .. Len(heap) : H[h] = heap[h]
  BY <1>3, Appended
<1> HIDE DEF H
<1>11. IsSeq(new)
  BY <1>7
<1>12. CapturesStay(H, H \o new, 0)
  BY <1>9, <1>10, <1>11, CapturesJoin
<1>13. /\ Len(H \o new) = Len(H) + Len(new)
       /\ \A h \in 1 .. Len(H) : (H \o new)[h] = H[h]
  BY <1>10, <1>11, Joined
<1>14. Len(new) \in Nat
  BY <1>11 DEF IsSeq
<1>15. \A h \in 1 .. m : h \in 1 .. Len(heap) \/ h = m
  BY <1>3
<1>16. /\ m \in 1 .. Len(heap') /\ heap'[m] = x
       /\ \A h \in 1 .. Len(heap) : heap'[h] = heap[h] /\ h \in 1 .. Len(heap')
  BY <1>1, <1>3, <1>10, <1>13, <1>14
<1>17. \A h \in 1 .. Len(heap') : h \in 1 .. m \/ heap'[h].kind # "proc"
  BY <1>1, <1>10, <1>12 DEF CapturesStay
<1> QED
  BY <1>4, <1>15, <1>16, <1>17

(* The variables that the inspector takes out of a procedure. *)
Taken == {n \in FreeVariables(ft) \ {prog[Here].name} :
            ~SymbolOf(ft, n).global /\ SymbolOf(ft, n).kind # "const"}

LEMMA InspectEndProcedureCaptures ==
  ASSUME TextInv, TextInv', FrameInv, InspectEndProcedure,
         Inner.sym \in 1 .. Len(heap), heap[Inner.sym].caps = {}
  PROVE  CapturesStay(heap, heap', Inner.sym) /\ heap'[Inner.sym].caps = Taken
<1> DEFINE closed == [heap EXCEPT ![Inner.sym].caps = Taken]
           x == Symbol("closure", Here, ClosureArg)
<1>1. IF Taken = {} THEN heap' = heap ELSE heap' = Append(closed, x)
  BY DEF InspectEndProcedure, Taken
<1>2. Symbols(heap) /\ Len(heap) \in Nat /\ heap = [h \in 1 .. Len(heap) |-> heap[h]]
  BY DEF FrameInv, Scoped, Symbols, IsSeq
<1>3. CASE Taken = {}
  BY <1>1, <1>2, <1>3, CapturesSame
<1>4. CASE Taken # {}
  <2>1. closed = [h \in 1 .. Len(heap) |-> closed[h]]
    BY <1>2
  <2>2. Len(closed) = Len(heap) /\ IsSeq(closed)
    <3>1. Len(closed) = Len(heap)
      BY <1>2, <2>1, LenOfDomain
    <3> QED
      BY <1>2, <2>1, <3>1 DEF IsSeq
  <2>3. ASSUME NEW h \in 1 .. Len(heap)
        PROVE  /\ closed[h].kind = heap[h].kind /\ closed[h].name = heap[h].name
               /\ closed[h].block = heap[h].block /\ closed[h].global = heap[h].global
               /\ closed[h].caps = IF h = Inner.sym THEN Taken ELSE heap[h].caps
    <3>1. closed[h] = IF h = Inner.sym THEN [heap[h] EXCEPT !.caps = Taken] ELSE heap[h]
      BY <1>2
    <3>2. IsSymbol(heap[h])
      BY <1>2 DEF Symbols
    <3>3. LET y == WithCaps(heap[h], Taken)
          IN  /\ y.kind = heap[h].kind /\ y.name = heap[h].name /\ y.block = heap[h].block
              /\ y.global = heap[h].global /\ y.caps = Taken
      BY <3>2 DEF IsSymbol, WithCaps
    <3>4. closed[h] = IF h = Inner.sym THEN WithCaps(heap[h], Taken) ELSE heap[h]
      BY <3>1 DEF WithCaps
    <3> HIDE DEF closed
    <3> QED
      BY <3>3, <3>4
  <2>4. x.kind # "proc"
    BY DEF Symbol
  <2>5. heap' = Append(closed, x)
    BY <1>1, <1>4
  <2> HIDE DEF closed, x
  <2>6. CapturesStay(heap, closed, Inner.sym)
    BY <1>2, <2>2, <2>3 DEF CapturesStay, SymbolsStay
  <2>7. CapturesStay(closed, heap', Inner.sym)
    BY <2>2, <2>4, <2>5, CapturesAppend
  <2>8. CapturesStay(heap, heap', Inner.sym)
    <3>1. Len(closed) \in Nat
      BY <1>2, <2>2
    <3> QED
      BY <1>2, <2>6, <2>7, <3>1, CapturesTrans
  <2>9. heap'[Inner.sym].caps = Taken
    <3>1. heap'[Inner.sym] = closed[Inner.sym]
      BY <2>2, <2>5, Appended
    <3> QED
      BY <2>3, <3>1
  <2> QED
    BY <2>8, <2>9
<1> QED
  BY <1>3, <1>4

(* They are what the scope rules say that the procedure captures. *)
LEMMA TakenExactly ==
  ASSUME TextInv, FrameInv, HoldInv, BodyInv, TypedInv, FreeInv, Distinct,
         InspectEndProcedure, ~errors
  PROVE  Taken \cap Vars = Captures(Here)
<1> DEFINE b == prog[pc].block
<1>1. phase = "inspect" /\ prog[pc].op = "end" /\ Len(open) # 1
  BY DEF InspectEndProcedure, Inspecting, At, InModule
<1>2. /\ IsText(prog) /\ IsOpen(prog, open) /\ pc \in 1 .. Len(prog) /\ Bodies(prog)
      /\ Top(open) = IF pc = 1 THEN 1 ELSE b
  BY <1>1 DEF TextInv, Walking, BodyInv
<1>3. pc # 1 /\ Here = b /\ Top(open) = b
  BY <1>1, <1>2 DEF IsText, Here, Inner, Top
<1>4. b # 1 /\ b \in 1 .. pc - 1 /\ Len(prog) \in Nat
  BY <1>1, <1>2, <1>3, TopIsBlock DEF IsText, IsSeq
<1>5. InBody
  BY <1>1, <1>2 DEF Bodies, InBody
<1>6. ASSUME NEW n \in Vars
      PROVE  n \in UsedIn(b) <=> UsesBefore(n, b, pc)
  <2>1. NoName # n
    BY NotVars
  <2>2. DOMAIN prog = 1 .. Len(prog)
    BY <1>2 DEF IsText, IsSeq
  <2>3. n \in UsedIn(b) <=> \E i \in 1 .. Len(prog) : prog[i].block = b /\ Uses(i, n)
    BY <2>1, <2>2 DEF UsedIn, Uses
  <2>4. ASSUME NEW i \in 1 .. Len(prog), prog[i].block = b, Uses(i, n)
        PROVE  i \in 1 .. pc - 1
    <3>1. i # pc
      BY <1>1, <1>2, <2>1, <2>4 DEF Bodies, Uses
    <3>2. ~(pc < i)
      BY <1>1, <1>2, <2>4 DEF Bodies
    <3> QED
      BY <1>2, <3>1, <3>2
  <2>5. \A i \in 1 .. pc - 1 : i \in 1 .. Len(prog)
    BY <1>2
  <2> QED
    BY <2>3, <2>4, <2>5 DEF UsesBefore
<1>7. ASSUME NEW n \in Vars, FromAround(n, b)
      PROVE  /\ SymbolOf(ft, n).kind = KindOf(n, b)
             /\ SymbolOf(ft, n).global <=> Home(n, b) = 1
  <2> DEFINE a == Home(n, b)
  <2>1. n \in Idents
    BY DEF Idents
  <2>2. Found(ft, n)
    BY <1>1, <1>3, <1>7, <2>1, NameFound DEF FromAround
  <2>3. /\ \E k \in 1 .. Len(open) : a = open[k].item
        /\ n \in DOMAIN prog[a].decs \/ HeadingsOf(n, a) # {}
        /\ Lookup(ft, n) = SymsOf(prog, ft, a)[n]
    BY <1>1, <1>3, <2>1, <2>2, NameFound
  <2>4. HeadingsOf(n, a) = {}
    <3>1. \A i \in DOMAIN prog : prog[i].op \in {"procedure", "forward"} => prog[i].name # n
      BY <1>2, NotVars DEF IsText, IsSeq, ItemOK
    <3> QED
      BY <3>1 DEF HeadingsOf
  <2>5. PICK k \in 1 .. Len(open) : a = open[k].item
    BY <2>3
  <2> HIDE DEF a
  <2>6. a \in BlocksIn(prog)
    BY <1>2, <2>5, OpenBlocks
  <2>7. a < pc
    <3>1. Len(open) \in Nat /\ Len(open) \in 1 .. Len(open)
      BY <1>2 DEF IsOpen, IsSeq
    <3>2. k = Len(open) \/ a < Top(open)
      BY <1>2, <2>5, <3>1 DEF IsOpen, Top
    <3>3. a \in 1 .. Len(prog)
      BY <1>2, <2>6, BlocksAre
    <3> HIDE DEF b
    <3>4. a <= b
      BY <1>3, <1>4, <2>5, <3>2, <3>3 DEF Top
    <3> QED
      BY <1>2, <1>4, <3>3, <3>4
  <2>8. Typed(heap[SymsOf(prog, ft, a)[n]], n, a)
    BY <1>1, <2>3, <2>4, <2>6, <2>7 DEF TypedInv, TypedBefore
  <2> QED
    BY <2>3, <2>8 DEF Typed, SymbolOf, KindOf, a
<1>8. ASSUME NEW n \in Vars
      PROVE  n \in Taken <=> n \in Captures(b)
  <2>1. n # prog[Here].name
    <3>1. prog[Here].name \in Range(ProcNames)
      BY <1>1, <1>2, <1>3, TopIsBlock DEF IsText, ItemOK
    <3> QED
      BY <3>1, NotVars
  <2>2. n \in FreeVariables(ft) <=> UsesBefore(n, b, pc) /\ FromAround(n, b)
    BY <1>1, <1>4, <1>5 DEF FreeInv
  <2>3. n \in Taken <=> /\ UsesBefore(n, b, pc) /\ FromAround(n, b)
                        /\ ~SymbolOf(ft, n).global /\ SymbolOf(ft, n).kind # "const"
    BY <2>1, <2>2 DEF Taken
  <2>4. n \in Captures(b) <=> /\ UsesBefore(n, b, pc) /\ FromAround(n, b)
                              /\ Home(n, b) # 1 /\ KindOf(n, b) # "const"
    BY <1>6 DEF Captures, FromAround
  <2> QED
    BY <1>7, <2>3, <2>4
<1>9. ASSUME NEW n \in Captures(b)
      PROVE  n \in Vars
  <2>1. PICK i \in DOMAIN prog : \/ prog[i].op = "use" /\ n = prog[i].name
                                 \/ n = prog[i].arg /\ n # NoName
    BY DEF Captures, UsedIn
  <2> QED
    BY <1>2, <2>1 DEF IsText, IsSeq, ItemOK
<1> QED
  BY <1>3, <1>8, <1>9

LEMMA TakenOut ==
  ASSUME TextInv, BodyInv, FreeOut, InspectEndProcedure
  PROVE  \A n \in Taken : FromAround(n, Here)
<1>1. phase = "inspect" /\ prog[pc].op = "end" /\ Len(open) # 1
  BY DEF InspectEndProcedure, Inspecting, At, InModule
<1>2. /\ IsText(prog) /\ IsOpen(prog, open) /\ pc \in 1 .. Len(prog) /\ Bodies(prog)
      /\ Top(open) = IF pc = 1 THEN 1 ELSE prog[pc].block
  BY <1>1 DEF TextInv, Walking, BodyInv
<1>3. pc # 1 /\ Here = prog[pc].block /\ Top(open) = prog[pc].block
  BY <1>1, <1>2 DEF IsText, Here, Inner, Top
<1>4. prog[pc].block # 1
  BY <1>1, <1>2, <1>3, TopIsBlock
<1>5. InBody
  BY <1>1, <1>2 DEF Bodies, InBody
<1> QED
  BY <1>1, <1>3, <1>4, <1>5 DEF FreeOut, Taken

(* The handler k of r, after a step, is the handler k of open before it. *)
LEMMA OpenSymbolStays ==
  ASSUME prog' = prog, Len(heap) \in Nat, Len(heap') \in Nat,
         NEW k, OpenSymbol(open, heap, k), open'[k] = open[k],
         NEW x, CapturesStay(heap, heap', x), open[k].sym # x
  PROVE  OpenSymbol(open, heap, k)'
<1> DEFINE h == open[k].sym
<1>1. h \in 1 .. Len(heap) /\ Len(heap) <= Len(heap')
  BY DEF OpenSymbol, CapturesStay, SymbolsStay
<1>2. /\ heap'[h].kind = heap[h].kind /\ heap'[h].name = heap[h].name
      /\ heap'[h].block = heap[h].block /\ heap'[h].caps = heap[h].caps
  BY <1>1 DEF CapturesStay, SymbolsStay
<1>3. h \in 1 .. Len(heap')
  BY <1>1
<1> QED
  BY <1>2, <1>3 DEF OpenSymbol

LEMMA OpenSymbolsDiffer ==
  ASSUME TextInv, FrameInv, Distinct, OpenSymbols, phase = "inspect",
         NEW j \in 2 .. Len(open), NEW k \in 2 .. Len(open), open[j].sym = open[k].sym
  PROVE  j = k
<1>1. IsText(prog) /\ IsOpen(prog, open) /\ NestedIn(prog, ft)
  BY DEF TextInv, Walking, FrameInv, Scoped
<1>2. Len(open) \in Nat /\ j \in 1 .. Len(open) /\ k \in 1 .. Len(open)
  BY <1>1 DEF IsOpen, IsSeq
<1>3. open[j].item \in ProceduresIn(prog) /\ open[k].item \in ProceduresIn(prog)
  BY <1>1, <1>2 DEF IsOpen, ProceduresIn
<1>4. prog[open[j].item].name = prog[open[k].item].name
  BY DEF OpenSymbols, OpenSymbol
<1>5. open[j].item = open[k].item
  BY <1>1, <1>3, <1>4 DEF NestedIn
<1>6. (j < k => open[j].item < open[k].item) /\ (k < j => open[k].item < open[j].item)
  BY <1>1, <1>2 DEF IsOpen
<1>7. open[j].item \in Nat
  BY <1>1, <1>2 DEF IsOpen
<1> QED
  BY <1>2, <1>5, <1>6, <1>7

(* The handler that the end of a procedure leaves. *)
LEMMA InnerSymbol ==
  ASSUME TextInv, FrameInv, OpenSymbols, InspectEndProcedure
  PROVE  /\ phase = "inspect" /\ prog' = prog /\ phase' = phase
         /\ Len(open) \in Nat /\ Len(open) \in 2 .. Len(open)
         /\ Inner = open[Len(open)] /\ OpenSymbol(open, heap, Len(open))
         /\ Len(open') = Len(open) - 1 /\ \A k \in 1 .. Len(open) - 1 : open'[k] = open[k]
<1>1. phase = "inspect" /\ prog' = prog /\ phase' = phase /\ open' = Left /\ Len(open) # 1
  BY DEF InspectEndProcedure, Inspecting, Onward, InModule
<1>2. IsSeq(open) /\ Len(open) >= 1 /\ Len(open) \in Nat
  BY <1>1 DEF TextInv, Walking, IsOpen, IsSeq
<1>3. Len(open') = Len(open) - 1 /\ \A k \in 1 .. Len(open) - 1 : open'[k] = open[k]
  BY <1>1, <1>2, Fronted DEF Left
<1>4. Len(open) \in 2 .. Len(open)
  BY <1>1, <1>2
<1> QED
  BY <1>1, <1>2, <1>3, <1>4 DEF OpenSymbols, Inner

LEMMA EnteredOpen ==
  ASSUME TextInv, InspectProcedure
  PROVE  /\ Len(open) \in Nat /\ Len(open) >= 1 /\ Len(open') = Len(open) + 1
         /\ open'[Len(open) + 1].sym = Len(heap) + 1 /\ open'[Len(open) + 1].item = pc
         /\ \A k \in 1 .. Len(open) : open'[k] = open[k]
         /\ phase = "inspect" /\ phase' = phase /\ prog' = prog
<1> DEFINE e == [item |-> pc, sym |-> Len(heap) + 1, fn |-> Main, stats |-> FALSE]
<1>1. phase = "inspect" /\ prog' = prog /\ phase' = phase /\ open' = Append(open, e)
  BY DEF InspectProcedure, Inspecting, Onward, Entered
<1>2. IsSeq(open) /\ Len(open) >= 1 /\ Len(open) \in Nat
  BY <1>1 DEF TextInv, Walking, IsOpen, IsSeq
<1>3. e.sym = Len(heap) + 1 /\ e.item = pc
  OBVIOUS
<1> HIDE DEF e
<1> QED
  BY <1>1, <1>2, <1>3, Appended

LEMMA OpenSymbolsKept ==
  ASSUME TextInv, TextInv', FrameInv, FrameInv', BodyInv, Distinct, OpenSymbols, [Next]_vars
  PROVE  OpenSymbols'
<1> SUFFICES ASSUME phase' = "inspect", NEW k \in 2 .. Len(open')
             PROVE  OpenSymbol(open, heap, k)'
  BY DEF OpenSymbols
<1>0. Len(heap) \in Nat /\ Len(heap') \in Nat
  BY DEF FrameInv, Scoped, Symbols, IsSeq
<1>1. CASE Parser
  <2>1. open' = OnlyModule
    BY <1>1, ParserSteps DEF ParserStep
  <2> QED
    BY <2>1 DEF OnlyModule
<1>2. CASE InspectProcedure
  <2>1. /\ Len(open) \in Nat /\ Len(open') = Len(open) + 1
        /\ open'[Len(open) + 1].sym = Len(heap) + 1 /\ open'[Len(open) + 1].item = pc
        /\ \A j \in 1 .. Len(open) : open'[j] = open[j]
        /\ phase = "inspect" /\ prog' = prog
    BY <1>2, EnteredOpen
  <2>2. /\ Len(heap) + 1 \in 1 .. Len(heap')
        /\ heap'[Len(heap) + 1].kind = "proc" /\ heap'[Len(heap) + 1].caps = {}
        /\ heap'[Len(heap) + 1].name = prog[pc].name /\ heap'[Len(heap) + 1].block = prog[pc].block
        /\ \A h \in 1 .. Len(heap) : heap'[h] = heap[h] /\ h \in 1 .. Len(heap')
    BY <1>2, InspectProcedureCaptures
  <2>3. CASE k = Len(open) + 1
    BY <2>1, <2>2, <2>3 DEF OpenSymbol
  <2>4. CASE k # Len(open) + 1
    <3>1. k \in 2 .. Len(open) /\ k \in 1 .. Len(open)
      BY <2>1, <2>4
    <3>2. OpenSymbol(open, heap, k) /\ open'[k] = open[k]
      BY <2>1, <3>1 DEF OpenSymbols
    <3> QED
      BY <2>1, <2>2, <3>2 DEF OpenSymbol
  <2> QED
    BY <2>3, <2>4
<1>3. CASE InspectEndProcedure
  <2>1. /\ phase = "inspect" /\ prog' = prog /\ Len(open) \in Nat /\ Len(open) \in 2 .. Len(open)
        /\ Inner = open[Len(open)] /\ OpenSymbol(open, heap, Len(open))
        /\ Len(open') = Len(open) - 1 /\ \A j \in 1 .. Len(open) - 1 : open'[j] = open[j]
    BY <1>3, InnerSymbol
  <2>2. k \in 2 .. Len(open) /\ k \in 1 .. Len(open) - 1 /\ k # Len(open)
    BY <2>1
  <2>3. CapturesStay(heap, heap', Inner.sym)
    BY <1>3, <2>1, InspectEndProcedureCaptures DEF OpenSymbol
  <2>4. open[k].sym # Inner.sym
    BY <2>1, <2>2, OpenSymbolsDiffer
  <2>5. OpenSymbol(open, heap, k)
    BY <2>1, <2>2 DEF OpenSymbols
  <2> QED
    BY <1>0, <2>1, <2>2, <2>3, <2>4, <2>5, OpenSymbolStays
<1>4. CASE Inspector /\ ~InspectProcedure /\ ~InspectEndProcedure
  <2>1. phase = "inspect" /\ prog' = prog /\ open' = open
    BY <1>4 DEF Inspector, Inspecting, InspectModule, InspectForward, InspectBegin, InspectUse,
       InspectCall, InspectReturn, InspectEndModule
  <2>2. CapturesStay(heap, heap', 0)
    BY <1>4, PassCaptures
  <2>3. OpenSymbol(open, heap, k) /\ open[k].sym # 0
    BY <1>0, <2>1 DEF OpenSymbols, OpenSymbol
  <2> QED
    BY <1>0, <2>1, <2>2, <2>3, OpenSymbolStays
<1>5. CASE Generator
  BY <1>5 DEF Generator, GenerateModule, GenerateProcedure, GenerateForward, GenerateBegin,
     GenerateUse, GenerateCall, GenerateReturn, GenerateEndProcedure, GenerateEndModule, Abort,
     Generating, Onward
<1>6. CASE UNCHANGED vars
  BY <1>6 DEF vars, OpenSymbols, OpenSymbol
<1> QED
  BY <1>1, <1>2, <1>3, <1>4, <1>5, <1>6 DEF Next

LEMMA ErrorsStay == [Next]_vars /\ ~errors' => ~errors
BY DEF vars, Next, Parser, ParseProcedure, ParseForward, ParseBegin, ParseUse, ParseCall,
       ParseReturn, ParseStatement, ParseEndProcedure, ParseEndModule, Parsing,
       Inspector, InspectModule, InspectProcedure, InspectForward, InspectBegin, InspectUse,
       InspectCall, InspectReturn, InspectEndProcedure, InspectEndModule,
       Generator, Generating, GenerateModule, GenerateProcedure, GenerateForward, GenerateBegin,
       GenerateUse, GenerateCall, GenerateReturn, GenerateEndProcedure, GenerateEndModule, Abort

LEMMA CapsKept ==
  ASSUME TextInv, TextInv', FrameInv, FrameInv', HoldInv, BodyInv, TypedInv, FreeInv, FreeOut,
         Distinct, OpenSymbols, CapsInv, NoProcs, [Next]_vars
  PROVE  CapsInv'
<1> DEFINE Accounted(h) == \/ phase = "inspect" /\ \E k \in 2 .. Len(open) : open[k].sym = h
                           \/ Closed(heap[h])
<1> SUFFICES ASSUME ~errors', phase' # "parse", NEW h \in 1 .. Len(heap'), heap'[h].kind = "proc"
             PROVE  Accounted(h)'
  BY DEF CapsInv
<1>0. Len(heap) \in Nat /\ Len(heap') \in Nat /\ ~errors
  BY ErrorsStay DEF FrameInv, Scoped, Symbols, IsSeq
<1>1. ASSUME phase # "parse", h \in 1 .. Len(heap), heap[h].kind = "proc"
      PROVE  Accounted(h)
  BY <1>0, <1>1 DEF CapsInv
<1>2. ASSUME prog' = prog, Closed(heap[h]), heap'[h].name = heap[h].name,
             heap'[h].block = heap[h].block, heap'[h].caps = heap[h].caps
      PROVE  Accounted(h)'
  <2> DEFINE x == heap[h]
             y == heap'[h]
  <2>1. y.name = x.name /\ y.block = x.block /\ y.caps = x.caps /\ Closed(x)
    BY <1>2
  <2>2. \A z : z = y => Closed(z)'
    BY <1>2, <2>1, ClosedStays
  <2>3. Closed(heap[h])'
    BY <2>2
  <2> QED
    BY <2>3
<1>3. CASE Parser
  <2>1. phase = "parse" /\ heap' = heap
    BY <1>3 DEF Parser, ParseProcedure, ParseForward, ParseBegin, ParseUse, ParseCall,
           ParseReturn, ParseStatement, ParseEndProcedure, ParseEndModule, Parsing
  <2> QED
    BY <2>1 DEF NoProcs
<1>4. CASE InspectProcedure
  <2>1. /\ Len(open) \in Nat /\ Len(open) >= 1 /\ Len(open') = Len(open) + 1
        /\ open'[Len(open) + 1].sym = Len(heap) + 1
        /\ \A j \in 1 .. Len(open) : open'[j] = open[j]
        /\ phase = "inspect" /\ prog' = prog /\ phase' = phase
    BY <1>4, EnteredOpen
  <2>2. /\ \A i \in 1 .. Len(heap) : heap'[i] = heap[i]
        /\ h \in 1 .. Len(heap) \/ h = Len(heap) + 1
    BY <1>4, InspectProcedureCaptures
  <2>3. CASE h = Len(heap) + 1
    <3>1. Len(open) + 1 \in 2 .. Len(open')
      BY <2>1
    <3> QED
      BY <2>1, <2>3, <3>1
  <2>4. CASE h \in 1 .. Len(heap)
    <3>1. heap'[h] = heap[h] /\ Accounted(h)
      BY <1>1, <2>1, <2>2, <2>4
    <3>2. CASE Closed(heap[h])
      BY <1>2, <2>1, <3>1, <3>2
    <3>3. CASE \E k \in 2 .. Len(open) : open[k].sym = h
      <4>1. PICK k \in 2 .. Len(open) : open[k].sym = h
        BY <3>3
      <4>2. k \in 2 .. Len(open') /\ open'[k].sym = h
        BY <2>1, <4>1
      <4> QED
        BY <2>1, <4>2
    <3> QED
      BY <3>1, <3>2, <3>3
  <2> QED
    BY <2>2, <2>3, <2>4
<1>5. CASE InspectEndProcedure
  <2>1. /\ phase = "inspect" /\ prog' = prog /\ phase' = phase
        /\ Len(open) \in Nat /\ Len(open) \in 2 .. Len(open)
        /\ Inner = open[Len(open)] /\ OpenSymbol(open, heap, Len(open))
        /\ Len(open') = Len(open) - 1 /\ \A j \in 1 .. Len(open) - 1 : open'[j] = open[j]
    BY <1>5, InnerSymbol
  <2> DEFINE m == Inner.sym
  <2>2. /\ m \in 1 .. Len(heap) /\ heap[m].name = prog[Here].name
        /\ heap[m].block = prog[Here].block
    BY <2>1 DEF OpenSymbol, Here
  <2>3. CapturesStay(heap, heap', m) /\ heap'[m].caps = Taken
    BY <1>5, <2>1, InspectEndProcedureCaptures DEF OpenSymbol
  <2>4. h \in 1 .. Len(heap) /\ heap[h].kind = "proc"
    BY <2>3 DEF CapturesStay, SymbolsStay
  <2>5. /\ heap'[h].name = heap[h].name /\ heap'[h].block = heap[h].block
        /\ h # m => heap'[h].caps = heap[h].caps
    BY <2>3, <2>4 DEF CapturesStay, SymbolsStay
  <2>6. CASE h = m
    <3>1. Taken \cap Vars = Captures(Here)
      BY <1>0, <1>5, TakenExactly
    <3>2. \A n \in Taken : FromAround(n, Here)
      BY <1>5, TakenOut
    <3>3. \A n, b : FromAround(n, b)' = FromAround(n, b)
      BY <2>1, ScopesStay
    <3>4. Here \in ProceduresIn(prog)
      BY <2>1, InnerName DEF TextInv, Walking
    <3>5. \A b : Captures(b)' = Captures(b)
      BY <2>1, CapturesMeant
    <3>6. ProceduresIn(prog') = ProceduresIn(prog)
      BY <2>1
    <3>7. \A b : b = Here => /\ b \in ProceduresIn(prog') /\ prog'[b].name = heap'[h].name
                             /\ prog'[b].block = heap'[h].block
                             /\ heap'[h].caps \cap Vars = Captures(b)'
                             /\ \A n \in heap'[h].caps : FromAround(n, b)'
      BY <2>1, <2>2, <2>3, <2>5, <2>6, <3>1, <3>2, <3>3, <3>4, <3>5
    <3>8. Closed(heap[h])'
      BY <3>7 DEF Closed
    <3> QED
      BY <3>8
  <2>7. CASE h # m
    <3>1. Accounted(h)
      BY <1>1, <2>1, <2>4
    <3>2. CASE Closed(heap[h])
      BY <1>2, <2>1, <2>5, <2>7, <3>2
    <3>3. CASE \E k \in 2 .. Len(open) : open[k].sym = h
      <4>1. PICK k \in 2 .. Len(open) : open[k].sym = h
        BY <3>3
      <4>2. k # Len(open)
        BY <2>1, <2>7, <4>1
      <4>3. k \in 2 .. Len(open') /\ k \in 1 .. Len(open) - 1
        BY <2>1, <4>2
      <4> QED
        BY <2>1, <4>1, <4>3
    <3> QED
      BY <3>1, <3>2, <3>3
  <2> QED
    BY <2>6, <2>7
<1>6. CASE (Inspector \/ Generator) /\ ~InspectProcedure /\ ~InspectEndProcedure
  <2>1. CapturesStay(heap, heap', 0)
    BY <1>6, PassCaptures
  <2>2. h \in 1 .. Len(heap) /\ heap[h].kind = "proc" /\ h # 0
    BY <1>0, <2>1 DEF CapturesStay, SymbolsStay
  <2>3. /\ heap'[h].name = heap[h].name /\ heap'[h].block = heap[h].block
        /\ heap'[h].caps = heap[h].caps
    BY <2>1, <2>2 DEF CapturesStay, SymbolsStay
  <2>4. prog' = prog /\ phase # "parse"
    BY <1>6, PassSteps DEF PassStep
  <2>5. Accounted(h)
    BY <1>1, <2>2, <2>4
  <2>6. CASE Closed(heap[h])
    BY <1>2, <2>3, <2>4, <2>6
  <2>7. CASE phase = "inspect" /\ \E k \in 2 .. Len(open) : open[k].sym = h
    <3>1. Len(open) # 1
      BY <2>7
    <3>2. phase' = phase /\ open' = open
      BY <1>6, <2>7, <3>1 DEF Inspector, InspectModule, InspectForward, InspectBegin, InspectUse,
         InspectCall, InspectReturn, InspectEndModule, Onward, InModule,
         Generator, Generating, GenerateModule, GenerateProcedure, GenerateForward, GenerateBegin,
         GenerateUse, GenerateCall, GenerateReturn, GenerateEndProcedure, GenerateEndModule, Abort
    <3> QED
      BY <2>7, <3>2
  <2> QED
    BY <2>5, <2>6, <2>7
<1>7. CASE UNCHANGED vars
  <2>1. /\ prog' = prog /\ phase' = phase /\ open' = open /\ heap' = heap
    BY <1>7 DEF vars
  <2>2. Accounted(h)
    BY <1>1, <2>1
  <2> QED
    BY <1>2, <2>1, <2>2
<1> QED
  BY <1>3, <1>4, <1>5, <1>6, <1>7 DEF Next

LEMMA UntypedKinds ==
  ASSUME NEW ns, IsSeq(ns), NEW decs, NEW b
  PROVE  \A k \in 1 .. Len(ns) : UntypedSymbols(ns, decs, b)[k].kind # "proc"
BY DEF UntypedSymbols, Symbol, IsSeq

LEMMA NoProcsKept ==
  ASSUME TextInv, TextInv', FrameInv, NoProcs, [Next]_vars
  PROVE  NoProcs'
<1> SUFFICES ASSUME phase' = "parse"
             PROVE  NoProcs'
  BY DEF NoProcs
<1>1. IsSeq(heap) /\ Len(heap) \in Nat
  BY DEF FrameInv, Scoped, Symbols, IsSeq
<1>2. ASSUME phase = "parse", CapturesStay(heap, heap', 0)
      PROVE  NoProcs'
  BY <1>1, <1>2 DEF NoProcs, CapturesStay, SymbolsStay
<1>3. CASE Parser
  <2>0. phase = "parse"
    BY <1>3 DEF Parser, ParseProcedure, ParseForward, ParseBegin, ParseUse, ParseCall, ParseReturn,
                ParseStatement, ParseEndProcedure, ParseEndModule, Parsing
  <2>1. CASE heap' = heap
    BY <1>1, <1>2, <2>0, <2>1, CapturesSame
  <2>2. ASSUME NEW b, NEW n, heap' = Append(heap, Symbol("fwd", b, n))
        PROVE  NoProcs'
    <3> DEFINE x == Symbol("fwd", b, n)
    <3>1. x.kind # "proc"
      BY DEF Symbol
    <3> HIDE DEF x
    <3>2. heap' = Append(heap, x)
      BY <2>2 DEF x
    <3> QED
      BY <1>1, <1>2, <2>0, <3>1, <3>2, CapturesAppend
  <2>3. ASSUME NEW n \in Range(ProcNames), NEW decs \in DecsOf(Kinds), NEW result,
               ParseProcedure(n, decs, result)
        PROVE  NoProcs'
    <3> DEFINE ns == SetToSeq(Locals(decs))
               new == UntypedSymbols(ns, decs, pc + 1)
    <3>1. heap' = heap \o new
      BY <2>3 DEF ParseProcedure
    <3>2. IsSeq(ns)
      <4>1. Locals(decs) \subseteq Idents
        BY DEF Locals, DecsOf, Idents
      <4> QED
        BY <4>1, InOrder
    <3>3. IsSeq(new) /\ Len(new) = Len(ns)
      BY <3>2, UntypedAre DEF Symbols
    <3>4. \A k \in 1 .. Len(ns) : new[k].kind # "proc"
      BY <3>2, UntypedKinds
    <3> HIDE DEF ns, new
    <3> QED
      BY <1>1, <1>2, <2>0, <3>1, <3>3, <3>4, CapturesJoin
  <2> QED
    BY <1>3, <2>1, <2>2, <2>3 DEF Parser, ParseForward, ParseBegin, ParseUse, ParseCall, ParseReturn,
       ParseStatement, ParseEndProcedure, ParseEndModule
<1>4. CASE Inspector \/ Generator
  BY <1>4, PassSteps DEF PassStep
<1>5. CASE UNCHANGED vars
  BY <1>5 DEF vars, NoProcs
<1> QED
  BY <1>3, <1>4, <1>5 DEF Next

LEMMA ClosureInit == Init /\ Distinct => ClosureInv
<1> SUFFICES ASSUME Init, Distinct
             PROVE  ClosureInv
  OBVIOUS
<1>1. TextInv /\ FrameInv /\ HoldInv /\ BodyInv
  BY TextInit, FrameInit, HoldInit, BodyInit
<1>2. PICK decs \in DecsOf(Kinds \cap {"var", "const"}) :
         heap = UntypedSymbols(SetToSeq(DOMAIN decs), decs, 1)
  BY DEF Init
<1>3. phase = "parse"
  BY DEF Init
<1>4. NoProcs
  <2> DEFINE ns == SetToSeq(DOMAIN decs)
  <2>1. IsSeq(ns)
    <3>1. DOMAIN decs \subseteq Idents
      BY DEF DecsOf, Idents
    <3> QED
      BY <3>1, InOrder
  <2>2. Len(heap) = Len(ns)
    BY <1>2, <2>1, UntypedAre
  <2> QED
    BY <1>2, <2>1, <2>2, UntypedKinds DEF NoProcs
<1> QED
  BY <1>1, <1>3, <1>4 DEF ClosureInv, TypedInv, FreeInv, FreeOut, OpenSymbols, CapsInv

LEMMA ClosureStep == ClosureInv /\ Distinct /\ [Next]_vars => ClosureInv'
<1> SUFFICES ASSUME ClosureInv, Distinct, [Next]_vars
             PROVE  ClosureInv'
  OBVIOUS
<1>1. /\ TextInv /\ FrameInv /\ HoldInv /\ BodyInv /\ TypedInv /\ FreeInv /\ FreeOut
      /\ OpenSymbols /\ CapsInv /\ NoProcs
  BY DEF ClosureInv
<1>2. TextInv'
  BY <1>1, TextStep
<1>3. FrameInv'
  BY <1>1, <1>2, FrameStep
<1>4. HoldInv' /\ BodyInv'
  BY <1>1, <1>2, <1>3, HoldKept, BodyKept
<1>5. TypedInv' /\ FreeInv' /\ FreeOut'
  BY <1>1, <1>2, TypedKept, FreeKept, FreeOutKept
<1>6. OpenSymbols' /\ CapsInv' /\ NoProcs'
  BY <1>1, <1>2, <1>3, OpenSymbolsKept, CapsKept, NoProcsKept
<1> QED
  BY <1>2, <1>3, <1>4, <1>5, <1>6 DEF ClosureInv

LEMMA ClosuresAreExact == ClosureInv => ClosureExact
<1> SUFFICES ASSUME ClosureInv, Checked, ~errors, NEW s \in Range(heap), s.kind = "proc"
             PROVE  \E b \in HeadingsOf(s.name, s.block) :
                       prog[b].op = "procedure" /\ s.caps \cap Vars = Captures(b)
  BY DEF ClosureExact
<1>1. PICK h \in 1 .. Len(heap) : s = heap[h]
  BY DEF Range, ClosureInv, FrameInv, Scoped, Symbols, IsSeq
<1>2. Closed(s)
  BY <1>1 DEF ClosureInv, CapsInv, Checked
<1>3. PICK b \in ProceduresIn(prog) : /\ prog[b].name = s.name /\ prog[b].block = s.block
                                      /\ s.caps \cap Vars = Captures(b)
  BY <1>2 DEF Closed
<1>4. b \in DOMAIN prog
  BY DEF ProceduresIn, ClosureInv, TextInv, Walking, Writing, IsText, IsSeq
<1> QED
  BY <1>3, <1>4 DEF HeadingsOf, ProceduresIn

(* In every program whose procedures have different names, the closure of  *)
(* a procedure holds exactly the variables of the procedures around it     *)
(* that its own statements use: whatever is nested in it, whatever lookups *)
(* the declarations before its statements made, and however the same       *)
(* frames were marked by the parser.                                       *)
THEOREM ClosuresHoldCaptures ==
  ASSUME Distinct
  PROVE  Spec => []ClosureExact
<1>1. Init => ClosureInv
  BY ClosureInit
<1>2. ClosureInv /\ [Next]_vars => ClosureInv'
  BY ClosureStep
<1>3. ClosureInv => ClosureExact
  BY ClosuresAreExact
<1> QED
  BY <1>1, <1>2, <1>3, PTL DEF Spec
=============================================================================
