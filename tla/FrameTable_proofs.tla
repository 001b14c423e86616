------------------------- MODULE FrameTable_proofs -------------------------
(***************************************************************************)
(* Proofs about FrameTable, for every program (Parent) and every set of    *)
(* names: the table keeps its shape (TypeOK), links are final, the next    *)
(* pointers from the current table are the open frames (StaticLink), and   *)
(* FrameTable implements LexicalScope: walking those pointers, which is    *)
(* what find, set, remove and reset_free_variables do, visits the open     *)
(* blocks from the innermost outward.                                      *)
(***************************************************************************)
EXTENDS FrameTable, DataLemmas

(* A binding added to, or dropped from, a typed map leaves it typed.       *)
LEMMA BindType ==
  ASSUME NEW f \in Bindings, NEW n \in Names, NEW v \in Symbols
  PROVE  Bind(f, n, v) \in Bindings
<1>1. PICK D \in SUBSET Names : f \in [D -> Symbols]
  BY DEF Bindings
<1>2. Bind(f, n, v) \in [D \cup {n} -> Symbols]
  BY <1>1 DEF Bind
<1> QED
  BY <1>2 DEF Bindings

LEMMA DropType ==
  ASSUME NEW f \in Bindings, NEW n
  PROVE  Drop(f, {n}) \in Bindings
<1>1. PICK D \in SUBSET Names : f \in [D -> Symbols]
  BY DEF Bindings
<1>2. Drop(f, {n}) \in [D \ {n} -> Symbols]
  BY <1>1 DEF Drop
<1> QED
  BY <1>2 DEF Bindings

(* t is s with other symbols and free variables in the same tables.        *)
SameLinks(s, t) ==
    /\ t = [tables |-> t.tables, map |-> s.map,
            stack |-> s.stack, current |-> s.current]
    /\ t.tables \in Seq(Tables)
    /\ Len(t.tables) = Len(s.tables)
    /\ \A i \in 1 .. Len(s.tables) : t.tables[i].next = s.tables[i].next

(* The part of TypeOK that the operators on the tables need.               *)
Shaped(s) ==
    /\ s = [tables |-> s.tables, map |-> s.map,
            stack |-> s.stack, current |-> s.current]
    /\ s.tables \in Seq(Tables)

LEMMA TableAt ==
  ASSUME NEW s, Shaped(s), NEW i \in 1 .. Len(s.tables)
  PROVE  /\ s.tables[i].syms \in Bindings
         /\ s.tables[i].next \in Nat
         /\ s.tables[i].free \subseteq Names
<1>1. s.tables[i] \in Tables
  BY DEF Shaped
<1> QED
  BY <1>1 DEF Tables

LEMMA SameLinksRefl ==
  ASSUME NEW s, Shaped(s)
  PROVE  SameLinks(s, s)
BY DEF Shaped, SameLinks

LEMMA SameLinksTrans ==
  ASSUME NEW s, NEW t, NEW u, SameLinks(s, t), SameLinks(t, u)
  PROVE  SameLinks(s, u)
<1>1. t.map = s.map /\ t.stack = s.stack /\ t.current = s.current
  BY DEF SameLinks
<1> QED
  BY <1>1 DEF SameLinks

LEMMA SameLinksShaped ==
  ASSUME NEW s, NEW t, SameLinks(s, t)
  PROVE  Shaped(t)
<1>1. t.map = s.map /\ t.stack = s.stack /\ t.current = s.current
  BY DEF SameLinks
<1> QED
  BY <1>1 DEF SameLinks, Shaped

(* A sequence of tables changed element by element, keeping every next.    *)
LEMMA NewTables ==
  ASSUME NEW s, Shaped(s), NEW T,
         T = [j \in 1 .. Len(s.tables) |-> T[j]],
         \A j \in 1 .. Len(s.tables) :
            T[j] \in Tables /\ T[j].next = s.tables[j].next
  PROVE  SameLinks(s, WithTables(s, T))
<1> DEFINE n == Len(s.tables)
<1>1. n \in Nat
  BY DEF Shaped
<1>2. T \in [1 .. n -> Tables]
  OBVIOUS
<1>3. T \in Seq(Tables) /\ Len(T) = n
  BY <1>1, <1>2
<1>4. WithTables(s, T).tables = T
  BY DEF WithTables
<1> QED
  BY <1>3, <1>4 DEF SameLinks, WithTables

(* Replacing the symbols of one table.                                     *)
LEMMA NewSyms ==
  ASSUME NEW s, Shaped(s), NEW i,
         NEW b, i \in 1 .. Len(s.tables) => b \in Bindings
  PROVE  SameLinks(s, WithSyms(s, i, b))
<1> DEFINE T == [s.tables EXCEPT ![i] =
                   [syms |-> b, next |-> @.next, free |-> @.free]]
<1>1. DOMAIN s.tables = 1 .. Len(s.tables)
  BY DEF Shaped
<1>2. T = [j \in 1 .. Len(s.tables) |-> T[j]]
  BY <1>1
<1>3. ASSUME NEW j \in 1 .. Len(s.tables)
      PROVE  T[j] \in Tables /\ T[j].next = s.tables[j].next
  <2>1. s.tables[j] \in Tables
    BY DEF Shaped
  <2>2. T[j] = IF j = i THEN [syms |-> b, next |-> s.tables[j].next,
                              free |-> s.tables[j].free]
                        ELSE s.tables[j]
    BY <1>1
  <2> QED
    BY <2>1, <2>2 DEF Tables
<1>4. WithSyms(s, i, b) = WithTables(s, T)
  BY DEF WithSyms
<1> HIDE DEF T
<1> QED
  BY <1>2, <1>3, <1>4, NewTables

(* Replacing the free variables of every table.                            *)
LEMMA NewFree ==
  ASSUME NEW s, Shaped(s), NEW free,
         \A j \in 1 .. Len(s.tables) : free[j] \in SUBSET Names
  PROVE  SameLinks(s, WithFree(s, free))
<1> DEFINE T == [j \in DOMAIN s.tables |->
                   [syms |-> s.tables[j].syms, next |-> s.tables[j].next,
                    free |-> free[j]]]
<1>1. DOMAIN s.tables = 1 .. Len(s.tables)
  BY DEF Shaped
<1>2. T = [j \in 1 .. Len(s.tables) |-> T[j]]
  BY <1>1
<1>3. ASSUME NEW j \in 1 .. Len(s.tables)
      PROVE  T[j] \in Tables /\ T[j].next = s.tables[j].next
  <2>1. s.tables[j] \in Tables
    BY DEF Shaped
  <2>2. T[j] = [syms |-> s.tables[j].syms, next |-> s.tables[j].next,
                free |-> free[j]]
    BY <1>1
  <2> QED
    BY <2>1, <2>2 DEF Tables
<1>4. WithFree(s, free) = WithTables(s, T)
  BY DEF WithFree
<1> HIDE DEF T
<1> QED
  BY <1>2, <1>3, <1>4, NewTables

(* None of the operations on names moves a link: put, find, set, remove    *)
(* and reset_free_variables.                                               *)
LEMMA PutKeepsLinks ==
  ASSUME NEW s, Shaped(s), NEW n \in Names, NEW v \in Symbols
  PROVE  SameLinks(s, Put(s, n, v))
<1>1. ASSUME s.current \in 1 .. Len(s.tables)
      PROVE  Bind(s.tables[s.current].syms, n, v) \in Bindings
  <2>1. s.tables[s.current].syms \in Bindings
    BY <1>1, TableAt
  <2> QED
    BY <2>1, BindType
<1> QED
  BY <1>1, NewSyms DEF Put

LEMMA MarkKeepsLinks ==
  ASSUME NEW s, Shaped(s), NEW n \in Names
  PROVE  SameLinks(s, MarkFree(s, n))
<1>1. CASE ~Found(s, n)
  BY <1>1, SameLinksRefl DEF MarkFree
<1>2. CASE Found(s, n)
  <2> DEFINE passed == {Chain(s)[k] : k \in 1 .. Nearest(Hits(s, n)) - 1}
             free == [j \in DOMAIN s.tables |->
                        s.tables[j].free \cup (IF j \in passed THEN {n} ELSE {})]
  <2>1. ASSUME NEW j \in 1 .. Len(s.tables)
        PROVE  free[j] \in SUBSET Names
    <3>1. s.tables[j] \in Tables /\ j \in DOMAIN s.tables
      BY DEF Shaped
    <3>2. free[j] \subseteq s.tables[j].free \cup {n}
      BY <3>1
    <3> QED
      BY <3>1, <3>2 DEF Tables
  <2>2. MarkFree(s, n) = WithFree(s, free)
    BY <1>2 DEF MarkFree
  <2> HIDE DEF free
  <2> QED
    BY <2>1, <2>2, NewFree
<1> QED
  BY <1>1, <1>2

LEMMA SetKeepsLinks ==
  ASSUME NEW s, Shaped(s), NEW n \in Names, NEW v \in Symbols
  PROVE  SameLinks(s, SetValue(s, n, v))
<1>1. CASE ~Found(s, n)
  BY <1>1, SameLinksRefl DEF SetValue
<1>2. CASE Found(s, n)
  <2> DEFINE m == MarkFree(s, n)
             d == Definer(s, n)
             b == Bind(s.tables[d].syms, n, v)
  <2>1. SameLinks(s, m)
    BY MarkKeepsLinks
  <2>2. Shaped(m)
    BY <2>1, SameLinksShaped
  <2>3. d \in 1 .. Len(m.tables) => b \in Bindings
    <3>1. d \in 1 .. Len(s.tables) => s.tables[d].syms \in Bindings
      BY TableAt
    <3>2. Len(m.tables) = Len(s.tables)
      BY <2>1 DEF SameLinks
    <3> QED
      BY <3>1, <3>2, BindType
  <2>4. SetValue(s, n, v) = WithSyms(m, d, b)
    BY <1>2 DEF SetValue, Rebind
  <2> HIDE DEF m, d, b
  <2>5. SameLinks(m, WithSyms(m, d, b))
    BY <2>2, <2>3, NewSyms
  <2> QED
    BY <2>1, <2>4, <2>5, SameLinksTrans
<1> QED
  BY <1>1, <1>2

LEMMA RemoveKeepsLinks ==
  ASSUME NEW s, Shaped(s), NEW n \in Names
  PROVE  SameLinks(s, RemoveName(s, n))
<1>1. CASE ~Found(s, n)
  BY <1>1, SameLinksRefl DEF RemoveName
<1>2. CASE Found(s, n)
  <2> DEFINE d == Definer(s, n)
  <2>1. d \in 1 .. Len(s.tables) => Drop(s.tables[d].syms, {n}) \in Bindings
    <3>1. d \in 1 .. Len(s.tables) => s.tables[d].syms \in Bindings
      BY TableAt
    <3> QED
      BY <3>1, DropType
  <2>2. RemoveName(s, n) = WithSyms(s, d, Drop(s.tables[d].syms, {n}))
    BY <1>2 DEF RemoveName
  <2> HIDE DEF d
  <2> QED
    BY <2>1, <2>2, NewSyms
<1> QED
  BY <1>1, <1>2

LEMMA ResetKeepsLinks ==
  ASSUME NEW s, Shaped(s)
  PROVE  SameLinks(s, ResetFree(s))
<1> DEFINE chain == {Chain(s)[k] : k \in DOMAIN Chain(s)}
           free == [j \in DOMAIN s.tables |->
                      IF j \in chain THEN {} ELSE s.tables[j].free]
<1>1. ASSUME NEW j \in 1 .. Len(s.tables)
      PROVE  free[j] \in SUBSET Names
  <2>1. s.tables[j] \in Tables /\ j \in DOMAIN s.tables
    BY DEF Shaped
  <2> QED
    BY <2>1 DEF Tables
<1>2. ResetFree(s) = WithFree(s, free)
  BY DEF ResetFree
<1> HIDE DEF free
<1> QED
  BY <1>1, <1>2, NewFree
-----------------------------------------------------------------------------
(* The inductive invariant: StaticLink alone is not inductive, because a   *)
(* frame that is entered again brings back a link made long before; what   *)
(* that link is, FramesFollowParent says.                                  *)

IInv == TypeOK /\ StaticLink /\ FramesFollowParent

LEMMA InitIInv ==
  ASSUME Init
  PROVE  IInv
<1> DEFINE t == NewTable(0)
<1>1. t \in Tables /\ t.next = 0
  <2>1. NoBindings \in [{} -> Symbols]
    BY DEF NoBindings
  <2>2. NoBindings \in Bindings
    BY <2>1 DEF Bindings
  <2> QED
    BY <2>2 DEF NewTable, Tables
<1> HIDE DEF t
<1>2. ft = [tables |-> << t >>, map |-> [f \in {Root} |-> 1],
            stack |-> << 1 >>, current |-> 1]
  BY DEF Init, EmptyFrameTable, t
<1>3. ft.tables = << t >> /\ ft.map = [f \in {Root} |-> 1]
      /\ ft.stack = << 1 >> /\ ft.current = 1
  BY <1>2
<1>4. TypeOK
  BY <1>1, <1>2, <1>3 DEF TypeOK
<1>5. StaticLink
  BY <1>1, <1>3 DEF StaticLink
<1>6. FramesFollowParent
  BY <1>3 DEF FramesFollowParent
<1> QED
  BY <1>4, <1>5, <1>6 DEF IInv

LEMMA TypeOKShaped ==
  ASSUME TypeOK
  PROVE  Shaped(ft)
BY DEF TypeOK, Shaped

(* The operations on names.                                                *)
LEMMA SameLinksIInv ==
  ASSUME IInv, SameLinks(ft, ft')
  PROVE  IInv'
<1>1. /\ ft'.map = ft.map
      /\ ft'.stack = ft.stack
      /\ ft'.current = ft.current
      /\ Len(ft'.tables) = Len(ft.tables)
      /\ ft'.tables \in Seq(Tables)
      /\ \A i \in 1 .. Len(ft.tables) : ft'.tables[i].next = ft.tables[i].next
      /\ ft' = [tables |-> ft'.tables, map |-> ft'.map,
                stack |-> ft'.stack, current |-> ft'.current]
  BY DEF SameLinks
<1>2. TypeOK'
  BY <1>1 DEF IInv, TypeOK
<1>3. StaticLink'
  <2>1. \A k \in 1 .. Len(ft.stack) : ft.stack[k] \in 1 .. Len(ft.tables)
    BY DEF IInv, TypeOK
  <2>2. 1 \in 1 .. Len(ft.tables)
    BY <2>1 DEF IInv, TypeOK, StaticLink
  <2>3. ft'.stack[1] = 1 /\ ft'.tables[1].next = 0
    BY <1>1, <2>2 DEF IInv, StaticLink
  <2>4. ASSUME NEW k \in 2 .. Len(ft'.stack)
        PROVE  ft'.tables[ft'.stack[k]].next = ft'.stack[k - 1]
    <3>1. k \in 2 .. Len(ft.stack) /\ k \in 1 .. Len(ft.stack)
      BY <1>1 DEF IInv, TypeOK
    <3>2. ft.tables[ft.stack[k]].next = ft.stack[k - 1]
      BY <3>1 DEF IInv, StaticLink
    <3> QED
      BY <1>1, <2>1, <3>1, <3>2
  <2> QED
    BY <2>3, <2>4 DEF StaticLink
<1>4. FramesFollowParent'
  BY <1>1 DEF IInv, TypeOK, FramesFollowParent
<1> QED
  BY <1>2, <1>3, <1>4 DEF IInv

(* A frame that is entered again.                                          *)
LEMMA ReenterIInv ==
  ASSUME IInv, NEW f \in Frames, push_frame(f), f \in DOMAIN ft.map
  PROVE  IInv'
<1> DEFINE id == ft.map[f]
<1>1. ft' = [tables |-> ft.tables, map |-> ft.map,
             stack |-> Append(ft.stack, id), current |-> id]
  BY DEF push_frame, PushFrame
<1>2. id \in 1 .. Len(ft.tables)
  BY DEF IInv, TypeOK
<1>3. ft.tables[id].next = ft.stack[Len(ft.stack)]
  <2>1. f # Root
    BY FramesAssumption
  <2>2. ft.tables[id].next = ft.map[Parent[f]]
    BY <2>1 DEF IInv, FramesFollowParent
  <2> QED
    BY <2>2 DEF push_frame, IInv, TypeOK
<1> HIDE DEF id
<1>4. /\ ft'.tables = ft.tables
      /\ ft'.map = ft.map
      /\ ft'.stack = Append(ft.stack, id)
      /\ ft'.current = id
  BY <1>1
<1>5. TypeOK'
  BY <1>1, <1>2, <1>4 DEF IInv, TypeOK
<1>6. StaticLink'
  <2>1. /\ ft.stack \in Seq(1 .. Len(ft.tables))
        /\ Len(ft.stack) \in Nat
        /\ Len(ft.stack) >= 1
    BY DEF IInv, TypeOK
  <2>2. /\ Len(ft'.stack) = Len(ft.stack) + 1
        /\ \A k \in 1 .. Len(ft.stack) : ft'.stack[k] = ft.stack[k]
        /\ ft'.stack[Len(ft.stack) + 1] = id
    BY <1>4, <2>1
  <2>3. ft'.stack[1] = 1 /\ ft'.tables[1].next = 0
    BY <1>4, <2>1, <2>2 DEF IInv, StaticLink
  <2>4. ASSUME NEW k \in 2 .. Len(ft'.stack)
        PROVE  ft'.tables[ft'.stack[k]].next = ft'.stack[k - 1]
    <3>1. CASE k = Len(ft.stack) + 1
      <4>1. ft'.stack[k] = id /\ ft'.stack[k - 1] = ft.stack[Len(ft.stack)]
        BY <2>1, <2>2, <3>1
      <4> QED
        BY <1>3, <1>4, <4>1
    <3>2. CASE k # Len(ft.stack) + 1
      <4>1. k \in 2 .. Len(ft.stack) /\ k - 1 \in 1 .. Len(ft.stack)
            /\ k \in 1 .. Len(ft.stack)
        BY <2>1, <2>2, <3>2
      <4>2. ft'.stack[k] = ft.stack[k] /\ ft'.stack[k - 1] = ft.stack[k - 1]
        BY <2>2, <4>1
      <4>3. ft.tables[ft.stack[k]].next = ft.stack[k - 1]
        BY <4>1 DEF IInv, StaticLink
      <4> QED
        BY <1>4, <4>2, <4>3
    <3> QED
      BY <3>1, <3>2
  <2> QED
    BY <2>3, <2>4 DEF StaticLink
<1>7. FramesFollowParent'
  BY <1>4 DEF IInv, FramesFollowParent
<1> QED
  BY <1>5, <1>6, <1>7 DEF IInv

(* A frame that is entered for the first time.                             *)
LEMMA EnterIInv ==
  ASSUME IInv, NEW f \in Frames, push_frame(f), f \notin DOMAIN ft.map
  PROVE  IInv'
<1> DEFINE id == Len(ft.tables) + 1
           t  == NewTable(ft.current)
<1>1. /\ Len(ft.tables) \in Nat
      /\ Len(ft.stack) \in Nat
      /\ Len(ft.stack) >= 1
      /\ ft.current = ft.stack[Len(ft.stack)]
      /\ ft.current \in 1 .. Len(ft.tables)
  BY DEF IInv, TypeOK
<1>2. t \in Tables /\ t.next = ft.current
  <2>1. NoBindings \in [{} -> Symbols]
    BY DEF NoBindings
  <2>2. NoBindings \in Bindings
    BY <2>1 DEF Bindings
  <2> QED
    BY <1>1, <2>2 DEF NewTable, Tables
<1>3. ft' = [tables |-> Append(ft.tables, t), map |-> Bind(ft.map, f, id),
             stack |-> Append(ft.stack, id), current |-> id]
  BY DEF push_frame, PushFrame
<1> HIDE DEF t
<1>4. /\ ft'.tables = Append(ft.tables, t)
      /\ ft'.map = Bind(ft.map, f, id)
      /\ ft'.stack = Append(ft.stack, id)
      /\ ft'.current = id
  BY <1>3
<1>5. /\ Len(ft'.tables) = id
      /\ ft'.tables \in Seq(Tables)
      /\ \A i \in 1 .. Len(ft.tables) : ft'.tables[i] = ft.tables[i]
      /\ ft'.tables[id] = t
  BY <1>1, <1>2, <1>4 DEF IInv, TypeOK
<1>6. /\ Len(ft'.stack) = Len(ft.stack) + 1
      /\ \A k \in 1 .. Len(ft.stack) : /\ ft'.stack[k] = ft.stack[k]
                                       /\ ft.stack[k] \in 1 .. Len(ft.tables)
      /\ ft'.stack[Len(ft.stack) + 1] = id
  BY <1>1, <1>4 DEF IInv, TypeOK
<1>7. /\ DOMAIN ft'.map = DOMAIN ft.map \cup {f}
      /\ ft'.map[f] = id
      /\ \A g \in DOMAIN ft.map : /\ g # f
                                  /\ ft'.map[g] = ft.map[g]
                                  /\ ft.map[g] \in 1 .. Len(ft.tables)
      /\ ft'.map = [g \in DOMAIN ft'.map |-> ft'.map[g]]
  BY <1>4 DEF Bind, IInv, TypeOK
<1>8. TypeOK'
  <2>1. ASSUME NEW i \in 1 .. Len(ft'.tables)
        PROVE  ft'.tables[i].next < i
    <3>1. CASE i = id
      BY <1>1, <1>2, <1>5, <3>1
    <3>2. CASE i # id
      <4>1. i \in 1 .. Len(ft.tables) /\ ft'.tables[i] = ft.tables[i]
        BY <1>1, <1>5, <3>2
      <4> QED
        BY <4>1 DEF IInv, TypeOK
    <3> QED
      BY <3>1, <3>2
  <2>2. ft'.map \in [DOMAIN ft'.map -> 1 .. Len(ft'.tables)]
    <3>1. ASSUME NEW g \in DOMAIN ft'.map
          PROVE  ft'.map[g] \in 1 .. Len(ft'.tables)
      BY <1>1, <1>5, <1>7
    <3> QED
      BY <1>7, <3>1
  <2>3. ft'.stack \in Seq(1 .. Len(ft'.tables))
    BY <1>1, <1>4, <1>5, <1>6 DEF IInv, TypeOK
  <2>4. DOMAIN ft'.map \subseteq Frames \cup {Root}
    BY <1>7 DEF IInv, TypeOK
  <2>5. ft'.stack # << >> /\ ft'.current = ft'.stack[Len(ft'.stack)]
    BY <1>1, <1>4, <1>6
  <2>6. ft' = [tables |-> ft'.tables, map |-> ft'.map,
               stack |-> ft'.stack, current |-> ft'.current]
    BY <1>3
  <2> QED
    BY <1>5, <2>1, <2>2, <2>3, <2>4, <2>5, <2>6 DEF TypeOK
<1>9. StaticLink'
  <2>1. ft'.stack[1] = 1 /\ ft'.tables[1].next = 0
    <3>1. ft.stack[1] = 1 /\ ft.tables[1].next = 0
      BY DEF IInv, StaticLink
    <3>2. 1 \in 1 .. Len(ft.stack)
      BY <1>1
    <3>3. ft'.stack[1] = ft.stack[1] /\ 1 \in 1 .. Len(ft.tables)
      BY <1>6, <3>1, <3>2
    <3> QED
      BY <1>5, <3>1, <3>3
  <2>2. ASSUME NEW k \in 2 .. Len(ft'.stack)
        PROVE  ft'.tables[ft'.stack[k]].next = ft'.stack[k - 1]
    <3>1. CASE k = Len(ft.stack) + 1
      <4>1. ft'.stack[k] = id /\ ft'.stack[k - 1] = ft.current
        BY <1>1, <1>6, <3>1
      <4> QED
        BY <1>2, <1>5, <4>1
    <3>2. CASE k # Len(ft.stack) + 1
      <4>1. k \in 2 .. Len(ft.stack) /\ k - 1 \in 1 .. Len(ft.stack)
            /\ k \in 1 .. Len(ft.stack)
        BY <1>1, <1>6, <3>2
      <4>2. /\ ft'.stack[k] = ft.stack[k]
            /\ ft'.stack[k - 1] = ft.stack[k - 1]
            /\ ft.stack[k] \in 1 .. Len(ft.tables)
        BY <1>6, <4>1
      <4>3. ft.tables[ft.stack[k]].next = ft.stack[k - 1]
        BY <4>1 DEF IInv, StaticLink
      <4> QED
        BY <1>5, <4>2, <4>3
    <3> QED
      BY <3>1, <3>2
  <2> QED
    BY <2>1, <2>2 DEF StaticLink
<1>10. FramesFollowParent'
  <2>1. f # Root /\ ft.map[Parent[f]] = ft.current /\ Parent[f] \in DOMAIN ft.map
    BY FramesAssumption DEF push_frame
  <2>2. Root \in DOMAIN ft'.map /\ ft'.map[Root] = 1
    BY <1>7, <2>1 DEF IInv, FramesFollowParent
  <2>3. ASSUME NEW g \in DOMAIN ft'.map \ {Root}
        PROVE  /\ Parent[g] \in DOMAIN ft'.map
               /\ ft'.tables[ft'.map[g]].next = ft'.map[Parent[g]]
    <3>1. CASE g = f
      BY <1>2, <1>5, <1>7, <2>1, <3>1
    <3>2. CASE g # f
      <4>1. g \in DOMAIN ft.map \ {Root}
        BY <1>7, <3>2
      <4>2. /\ Parent[g] \in DOMAIN ft.map
            /\ ft.tables[ft.map[g]].next = ft.map[Parent[g]]
        BY <4>1 DEF IInv, FramesFollowParent
      <4>3. ft'.map[g] = ft.map[g] /\ ft.map[g] \in 1 .. Len(ft.tables)
        BY <1>7, <4>1
      <4>4. ft'.map[Parent[g]] = ft.map[Parent[g]] /\ Parent[g] \in DOMAIN ft'.map
        BY <1>7, <4>2
      <4> QED
        BY <1>5, <4>2, <4>3, <4>4
    <3> QED
      BY <3>1, <3>2
  <2> QED
    BY <2>2, <2>3 DEF FramesFollowParent
<1> QED
  BY <1>8, <1>9, <1>10 DEF IInv

(* A frame that is left.                                                   *)
LEMMA LeaveIInv ==
  ASSUME IInv, pop_frame
  PROVE  IInv'
<1> DEFINE rest == SubSeq(ft.stack, 1, Len(ft.stack) - 1)
<1>1. /\ ft.stack \in Seq(1 .. Len(ft.tables))
      /\ Len(ft.stack) \in Nat
      /\ Len(ft.stack) > 1
  BY DEF IInv, TypeOK, pop_frame
<1>2. /\ rest \in Seq(1 .. Len(ft.tables))
      /\ Len(rest) = Len(ft.stack) - 1
      /\ \A k \in 1 .. Len(rest) : rest[k] = ft.stack[k]
  <2>1. /\ IsSeq(rest)
        /\ Len(rest) = Len(ft.stack) - 1
        /\ \A k \in 1 .. Len(ft.stack) - 1 : rest[k] = ft.stack[k]
    BY <1>1, SeqIsSeq, Fronted
  <2> HIDE DEF rest
  <2>2. \A k \in 1 .. Len(rest) : rest[k] = ft.stack[k] /\ ft.stack[k] \in 1 .. Len(ft.tables)
    BY <1>1, <2>1
  <2>3. Values(rest) \subseteq 1 .. Len(ft.tables)
    BY <2>2 DEF Values
  <2> QED
    BY <2>1, <2>2, <2>3, SeqOfValues
<1>3. ft' = [tables |-> ft.tables, map |-> ft.map,
             stack |-> rest, current |-> rest[Len(rest)]]
  BY DEF pop_frame, PopFrame
<1> HIDE DEF rest
<1>4. /\ ft'.tables = ft.tables
      /\ ft'.map = ft.map
      /\ ft'.stack = rest
      /\ ft'.current = rest[Len(rest)]
  BY <1>3
<1>5. TypeOK'
  <2>1. rest # << >>
    BY <1>1, <1>2
  <2> QED
    BY <1>2, <1>3, <1>4, <2>1 DEF IInv, TypeOK
<1>6. StaticLink'
  <2>1. Len(rest) \in Nat /\ 1 \in 1 .. Len(rest)
    BY <1>1, <1>2
  <2>2. ft'.stack[1] = 1 /\ ft'.tables[1].next = 0
    BY <1>2, <1>4, <2>1 DEF IInv, StaticLink
  <2>3. ASSUME NEW k \in 2 .. Len(rest)
        PROVE  ft.tables[rest[k]].next = rest[k - 1]
    <3> DEFINE m == Len(ft.stack)
               r == Len(rest)
    <3>0. m \in Nat /\ r = m - 1
      BY <1>1, <1>2
    <3> HIDE DEF m, r
    <3>1. k \in 2 .. Len(ft.stack) /\ k \in 1 .. Len(rest)
          /\ k - 1 \in 1 .. Len(rest)
      <4>1. k \in 2 .. m /\ k \in 1 .. r /\ k - 1 \in 1 .. r
        <5>1. k \in 2 .. r
          BY DEF r
        <5> QED
          BY ONLY <3>0, <5>1
      <4> QED
        BY <4>1 DEF m, r
    <3>2. ft.tables[ft.stack[k]].next = ft.stack[k - 1]
      BY <3>1 DEF IInv, StaticLink
    <3> QED
      BY <1>2, <3>1, <3>2
  <2> QED
    BY <1>4, <2>2, <2>3 DEF StaticLink
<1>7. FramesFollowParent'
  BY <1>4 DEF IInv, FramesFollowParent
<1> QED
  BY <1>5, <1>6, <1>7 DEF IInv

(* What a step does to the links: an operation on names keeps them, and    *)
(* only push_frame and pop_frame do anything else.                         *)
LEMMA StepKinds ==
  ASSUME IInv, [Next]_vars
  PROVE  \/ SameLinks(ft, ft')
         \/ \E f \in Frames : push_frame(f)
         \/ pop_frame
<1>1. Shaped(ft)
  BY TypeOKShaped DEF IInv
<1>2. CASE \E f \in Frames : push_frame(f)
  BY <1>2
<1>3. CASE pop_frame
  BY <1>3
<1>4. ASSUME NEW n \in Names, NEW v \in Symbols, put(n, v)
      PROVE  SameLinks(ft, ft')
  BY <1>1, <1>4, PutKeepsLinks DEF put
<1>5. ASSUME NEW n \in Names, NEW v \in Symbols, set(n, v)
      PROVE  SameLinks(ft, ft')
  BY <1>1, <1>5, SetKeepsLinks DEF set
<1>6. ASSUME NEW n \in Names, find(n)
      PROVE  SameLinks(ft, ft')
  BY <1>1, <1>6, MarkKeepsLinks DEF find
<1>7. ASSUME NEW n \in Names, remove(n)
      PROVE  SameLinks(ft, ft')
  BY <1>1, <1>7, RemoveKeepsLinks DEF remove
<1>8. CASE reset_free_variables
  BY <1>1, <1>8, ResetKeepsLinks DEF reset_free_variables
<1>9. CASE UNCHANGED vars
  BY <1>1, <1>9, SameLinksRefl DEF vars
<1> QED
  BY <1>2, <1>3, <1>4, <1>5, <1>6, <1>7, <1>8, <1>9 DEF Next

LEMMA StepIInv ==
  ASSUME IInv, [Next]_vars
  PROVE  IInv'
<1>1. ASSUME SameLinks(ft, ft')
      PROVE  IInv'
  BY <1>1, SameLinksIInv
<1>2. ASSUME NEW f \in Frames, push_frame(f)
      PROVE  IInv'
  BY <1>2, ReenterIInv, EnterIInv
<1>3. ASSUME pop_frame
      PROVE  IInv'
  BY <1>3, LeaveIInv
<1> QED
  BY <1>1, <1>2, <1>3, StepKinds

THEOREM Invariance == Spec => []IInv
<1>1. Init => IInv
  BY InitIInv
<1>2. IInv /\ [Next]_vars => IInv'
  BY StepIInv
<1> QED
  BY <1>1, <1>2, PTL DEF Spec

(* The table keeps its shape in every execution of every client: no        *)
(* pointer leads nowhere and a frame is always open.                       *)
THEOREM TypeCorrect == Spec => []TypeOK
<1>1. IInv => TypeOK
  BY DEF IInv
<1> QED
  BY <1>1, Invariance, PTL

(* Lexical scoping: the tables that a lookup visits are the open frames,   *)
(* for every program whose procedures have names of their own.             *)
THEOREM StaticScoping == Spec => []StaticLink
<1>1. IInv => StaticLink
  BY DEF IInv
<1> QED
  BY <1>1, Invariance, PTL

(* A name of a frame leads for good to the object whose next is the object *)
(* of the enclosing procedure.                                             *)
THEOREM FramesStay == Spec => []FramesFollowParent
<1>1. IInv => FramesFollowParent
  BY DEF IInv
<1> QED
  BY <1>1, Invariance, PTL

-----------------------------------------------------------------------------
(* The refinement.                                                         *)

(* Every table is the frame of one name, and a frame that is entered lies  *)
(* behind all those that are open: it cannot be entered twice.             *)
FramesNamed ==
    /\ \A f, g \in DOMAIN ft.map : ft.map[f] = ft.map[g] => f = g
    /\ \A i \in 1 .. Len(ft.tables) : \E f \in DOMAIN ft.map : ft.map[f] = i

StackAscends ==
    \A j, k \in 1 .. Len(ft.stack) : j < k => ft.stack[j] < ft.stack[k]

RInv == IInv /\ FramesNamed /\ StackAscends

LEMMA InitRInv ==
  ASSUME Init
  PROVE  RInv
<1>1. IInv
  BY InitIInv
<1>2. /\ ft.map = [f \in {Root} |-> 1]
      /\ Len(ft.tables) = 1
      /\ ft.stack = << 1 >>
  BY DEF Init, EmptyFrameTable
<1>3. FramesNamed
  BY <1>2 DEF FramesNamed
<1>4. StackAscends
  BY <1>2 DEF StackAscends
<1> QED
  BY <1>1, <1>3, <1>4 DEF RInv

(* What a table looks like to the steps below.                             *)
LEMMA Shape ==
  ASSUME IInv
  PROVE  /\ Len(ft.tables) \in Nat
         /\ Len(ft.stack) \in Nat \ {0}
         /\ ft.stack \in [1 .. Len(ft.stack) -> 1 .. Len(ft.tables)]
         /\ ft.tables \in [1 .. Len(ft.tables) -> Tables]
         /\ ft.current = ft.stack[Len(ft.stack)]
         /\ ft.current \in 1 .. Len(ft.tables)
         /\ ft.map \in [DOMAIN ft.map -> 1 .. Len(ft.tables)]
         /\ \A i \in 1 .. Len(ft.tables) : ft.tables[i].next \in 0 .. i - 1
<1>1. \A i \in 1 .. Len(ft.tables) : ft.tables[i].next \in Nat
  BY TypeOKShaped, TableAt DEF IInv
<1> QED
  BY <1>1 DEF IInv, TypeOK

LEMMA StepRInv ==
  ASSUME RInv, [Next]_vars
  PROVE  RInv'
<1>1. IInv'
  BY StepIInv DEF RInv
<1>2. CASE SameLinks(ft, ft')
  <2>1. ft'.map = ft.map /\ ft'.stack = ft.stack /\ Len(ft'.tables) = Len(ft.tables)
    BY <1>2 DEF SameLinks
  <2> QED
    BY <1>1, <2>1 DEF RInv, FramesNamed, StackAscends
<1>3. ASSUME NEW f \in Frames, push_frame(f), f \in DOMAIN ft.map
      PROVE  RInv'
  <2> DEFINE id == ft.map[f]
  <2>1. ft'.tables = ft.tables /\ ft'.map = ft.map /\ ft'.stack = Append(ft.stack, id)
    BY <1>3 DEF push_frame, PushFrame
  <2>2. FramesNamed'
    BY <2>1 DEF RInv, FramesNamed
  <2>3. ft.current < id /\ id \in 1 .. Len(ft.tables)
    <3>1. f # Root
      BY FramesAssumption
    <3>2. ft.tables[id].next = ft.map[Parent[f]] /\ ft.current = ft.map[Parent[f]]
      BY <1>3, <3>1 DEF push_frame, RInv, IInv, FramesFollowParent
    <3>3. id \in 1 .. Len(ft.tables)
      BY <1>3, Shape DEF RInv
    <3> QED
      BY <3>2, <3>3, Shape DEF RInv
  <2>4. ASSUME NEW j \in 1 .. Len(ft.stack)
        PROVE  ft.stack[j] < id
    <3>1. /\ ft.stack \in [1 .. Len(ft.stack) -> 1 .. Len(ft.tables)]
          /\ Len(ft.stack) \in Nat \ {0}
          /\ Len(ft.tables) \in Nat
          /\ ft.current = ft.stack[Len(ft.stack)]
      BY Shape DEF RInv
    <3>2. j < Len(ft.stack) => ft.stack[j] < ft.current
      BY <3>1 DEF RInv, StackAscends
    <3>3. ft.stack[j] \in Nat /\ ft.current \in Nat
      BY <3>1
    <3>4. j = Len(ft.stack) \/ j < Len(ft.stack)
      BY <3>1
    <3> QED
      BY <2>3, <3>1, <3>2, <3>3, <3>4
  <2> HIDE DEF id
  <2>5. StackAscends'
    <3>1. /\ Len(ft'.stack) = Len(ft.stack) + 1
          /\ Len(ft.stack) \in Nat
          /\ \A j \in 1 .. Len(ft.stack) : ft'.stack[j] = ft.stack[j]
          /\ ft'.stack[Len(ft.stack) + 1] = id
      BY <2>1, Shape DEF RInv
    <3>2. ASSUME NEW j \in 1 .. Len(ft'.stack), NEW k \in 1 .. Len(ft'.stack), j < k
          PROVE  ft'.stack[j] < ft'.stack[k]
      <4>1. j \in 1 .. Len(ft.stack)
        BY <3>1, <3>2
      <4>2. CASE k = Len(ft.stack) + 1
        BY <2>4, <3>1, <4>1, <4>2
      <4>3. CASE k \in 1 .. Len(ft.stack)
        BY <3>1, <3>2, <4>1, <4>3 DEF RInv, StackAscends
      <4> QED
        BY <3>1, <4>2, <4>3
    <3> QED
      BY <3>2 DEF StackAscends
  <2> QED
    BY <1>1, <2>2, <2>5 DEF RInv
<1>4. ASSUME NEW f \in Frames, push_frame(f), f \notin DOMAIN ft.map
      PROVE  RInv'
  <2> DEFINE id == Len(ft.tables) + 1
  <2>1. /\ ft'.tables = Append(ft.tables, NewTable(ft.current))
        /\ ft'.map = Bind(ft.map, f, id)
        /\ ft'.stack = Append(ft.stack, id)
    BY <1>4 DEF push_frame, PushFrame
  <2>2. /\ Len(ft'.stack) = Len(ft.stack) + 1
        /\ Len(ft.stack) \in Nat
        /\ \A j \in 1 .. Len(ft.stack) :
              ft'.stack[j] = ft.stack[j] /\ ft.stack[j] < id
        /\ ft'.stack[Len(ft.stack) + 1] = id
        /\ Len(ft'.tables) = id
        /\ Len(ft.tables) \in Nat
    <3>1. /\ Len(ft.stack) \in Nat /\ Len(ft.tables) \in Nat
          /\ \A j \in 1 .. Len(ft.stack) : ft.stack[j] < id
      <4>1. /\ Len(ft.stack) \in Nat /\ Len(ft.tables) \in Nat
            /\ \A j \in 1 .. Len(ft.stack) : ft.stack[j] \in 1 .. Len(ft.tables)
        BY Shape DEF RInv
      <4> QED
        BY <4>1
    <3>2. IsSeq(ft.stack) /\ IsSeq(ft.tables)
      BY SeqIsSeq DEF RInv, IInv, TypeOK
    <3> QED
      BY <2>1, <3>1, <3>2, Appended
  <2>3. StackAscends'
    <3>1. ASSUME NEW j \in 1 .. Len(ft'.stack), NEW k \in 1 .. Len(ft'.stack), j < k
          PROVE  ft'.stack[j] < ft'.stack[k]
      <4>1. j \in 1 .. Len(ft.stack)
        BY <2>2, <3>1
      <4>2. CASE k = Len(ft.stack) + 1
        BY <2>2, <4>1, <4>2
      <4>3. CASE k # Len(ft.stack) + 1
        <5>1. k \in 1 .. Len(ft.stack)
          BY <2>2, <4>3
        <5>2. ft.stack[j] < ft.stack[k]
          BY <3>1, <4>1, <5>1 DEF RInv, StackAscends
        <5> QED
          BY <2>2, <4>1, <5>1, <5>2
      <4> QED
        BY <4>2, <4>3
    <3> QED
      BY <3>1 DEF StackAscends
  <2>4. /\ DOMAIN ft'.map = DOMAIN ft.map \cup {f}
        /\ ft'.map[f] = id
        /\ \A g \in DOMAIN ft.map : ft'.map[g] = ft.map[g] /\ ft.map[g] < id
    BY <1>4, <2>1, Shape DEF Bind, RInv
  <2>5. FramesNamed'
    <3>1. ASSUME NEW i \in 1 .. Len(ft'.tables)
          PROVE  \E g \in DOMAIN ft'.map : ft'.map[g] = i
      <4>1. CASE i = id
        BY <2>4, <4>1
      <4>2. CASE i # id
        <5>1. i \in 1 .. Len(ft.tables)
          BY <2>2, <4>2
        <5> QED
          BY <2>4, <5>1 DEF RInv, FramesNamed
      <4> QED
        BY <4>1, <4>2
    <3>2. ASSUME NEW g \in DOMAIN ft'.map, NEW h \in DOMAIN ft'.map, ft'.map[g] = ft'.map[h]
          PROVE  g = h
      <4>1. \A x \in DOMAIN ft.map : ft'.map[x] # id
        BY <2>2, <2>4, Shape DEF RInv
      <4> QED
        BY <2>4, <3>2, <4>1 DEF RInv, FramesNamed
    <3> QED
      BY <3>1, <3>2 DEF FramesNamed
  <2> QED
    BY <1>1, <2>3, <2>5 DEF RInv
<1>5. CASE pop_frame
  <2>1. /\ ft'.tables = ft.tables
        /\ ft'.map = ft.map
        /\ ft'.stack = SubSeq(ft.stack, 1, Len(ft.stack) - 1)
    BY <1>5 DEF pop_frame, PopFrame
  <2>2. /\ Len(ft'.stack) = Len(ft.stack) - 1
        /\ Len(ft.stack) \in Nat
        /\ \A j \in 1 .. Len(ft'.stack) : ft'.stack[j] = ft.stack[j]
    BY <1>5, <2>1, Shape DEF RInv, pop_frame
  <2>3. StackAscends'
    <3>1. 1 .. Len(ft'.stack) \subseteq 1 .. Len(ft.stack)
      BY <2>2
    <3> QED
      BY <2>2, <3>1 DEF RInv, StackAscends
  <2>4. FramesNamed'
    BY <2>1 DEF RInv, FramesNamed
  <2> QED
    BY <1>1, <2>3, <2>4 DEF RInv
<1> QED
  BY <1>2, <1>3, <1>4, <1>5, StepKinds DEF RInv

THEOREM RInvariance == Spec => []RInv
<1>1. RInv /\ [Next]_vars => RInv'
  BY StepRInv
<1> QED
  BY <1>1, InitRInv, PTL DEF Spec

LEMMA FramesNested ==
  ASSUME IInv
  PROVE  Nested(ft)
<1>1. DOMAIN ft.tables = 1 .. Len(ft.tables)
  BY Shape
<1>2. WellLinked(ft)
  BY <1>1, Shape DEF WellLinked
<1>3. ft.stack[1] = 1 /\ ft.tables[1].next = 0
      /\ \A k \in 2 .. Len(ft.stack) : ft.tables[ft.stack[k]].next = ft.stack[k - 1]
  BY DEF IInv, StaticLink
<1> QED
  BY <1>2, <1>3, Shape DEF Nested

-----------------------------------------------------------------------------
(* The refinement mapping, of any table s.                                 *)

PathIn(s) ==
    [k \in DOMAIN s.stack |-> CHOOSE f \in DOMAIN s.map : s.map[f] = s.stack[k]]

ScopeIn(s) ==
    [f \in Frames \cup {Root} |->
       IF f \in DOMAIN s.map THEN s.tables[s.map[f]].syms ELSE NoBindings]

OuterIn(s) ==
    [f \in Frames \cup {Root} |->
       IF f \in DOMAIN s.map THEN s.tables[s.map[f]].free ELSE {}]

LEMMA Mapping ==
  /\ PathIn(ft) = [k \in DOMAIN ft.stack |-> NameOf(ft.stack[k])]
  /\ ScopeIn(ft) = [f \in Frames \cup {Root} |-> OfFrame(f, "syms", NoBindings)]
  /\ OuterIn(ft) = [f \in Frames \cup {Root} |-> OfFrame(f, "free", {})]
BY DEF PathIn, ScopeIn, OuterIn, NameOf, OfFrame

LEMMA MappingPrime ==
  /\ PathIn(ft') = [k \in DOMAIN ft.stack |-> NameOf(ft.stack[k])]'
  /\ ScopeIn(ft') = [f \in Frames \cup {Root} |-> OfFrame(f, "syms", NoBindings)]'
  /\ OuterIn(ft') = [f \in Frames \cup {Root} |-> OfFrame(f, "free", {})]'
BY DEF PathIn, ScopeIn, OuterIn, NameOf, OfFrame

LEMMA NameOfMap ==
  ASSUME NEW map, \A f, g \in DOMAIN map : map[f] = map[g] => f = g,
         NEW h \in DOMAIN map
  PROVE  (CHOOSE f \in DOMAIN map : map[f] = map[h]) = h
OBVIOUS

(* The open blocks are the names of the frames on the stack.               *)
LEMMA PathNames ==
  ASSUME RInv
  PROVE  /\ DOMAIN PathIn(ft) = 1 .. Len(ft.stack)
         /\ Len(PathIn(ft)) = Len(ft.stack)
         /\ PathIn(ft) \in Seq(DOMAIN ft.map)
         /\ DOMAIN ft.map \subseteq Frames \cup {Root}
         /\ \A k \in 1 .. Len(ft.stack) : /\ PathIn(ft)[k] \in DOMAIN ft.map
                                          /\ ft.map[PathIn(ft)[k]] = ft.stack[k]
         /\ \A k \in 1 .. Len(ft.stack), f \in DOMAIN ft.map :
               ft.map[f] = ft.stack[k] <=> f = PathIn(ft)[k]
<1>1. /\ Len(ft.stack) \in Nat
      /\ DOMAIN ft.stack = 1 .. Len(ft.stack)
      /\ \A k \in 1 .. Len(ft.stack) : ft.stack[k] \in 1 .. Len(ft.tables)
  BY Shape DEF RInv
<1>2. DOMAIN PathIn(ft) = 1 .. Len(ft.stack)
  BY <1>1 DEF PathIn
<1>3. ASSUME NEW k \in 1 .. Len(ft.stack)
      PROVE  /\ PathIn(ft)[k] \in DOMAIN ft.map
             /\ ft.map[PathIn(ft)[k]] = ft.stack[k]
  <2>1. \E f \in DOMAIN ft.map : ft.map[f] = ft.stack[k]
    BY <1>1 DEF RInv, FramesNamed
  <2>2. PathIn(ft)[k] = CHOOSE f \in DOMAIN ft.map : ft.map[f] = ft.stack[k]
    BY <1>1 DEF PathIn
  <2> QED
    BY <2>1, <2>2
<1>4. PathIn(ft) \in [1 .. Len(ft.stack) -> DOMAIN ft.map]
  <2>1. PathIn(ft) = [k \in 1 .. Len(ft.stack) |-> PathIn(ft)[k]]
    BY <1>1 DEF PathIn
  <2> QED
    BY <1>3, <2>1
<1>5. DOMAIN ft.map \subseteq Frames \cup {Root}
  BY DEF RInv, IInv, TypeOK
<1>6. Len(PathIn(ft)) = Len(ft.stack) /\ PathIn(ft) \in Seq(DOMAIN ft.map)
  BY <1>1, <1>4
<1>7. ASSUME NEW k \in 1 .. Len(ft.stack), NEW f \in DOMAIN ft.map
      PROVE  ft.map[f] = ft.stack[k] <=> f = PathIn(ft)[k]
  BY <1>3 DEF RInv, FramesNamed
<1> QED
  BY <1>2, <1>3, <1>5, <1>6, <1>7

(* Writing the symbols of an open frame is declaring in its block.         *)
LEMMA NewScope ==
  ASSUME RInv, NEW s, SameLinks(ft, s), NEW k \in 1 .. Len(ft.stack), NEW b
  PROVE  LET t == WithSyms(s, ft.stack[k], b)
         IN  /\ PathIn(t) = PathIn(ft)
             /\ ScopeIn(t) = [ScopeIn(s) EXCEPT ![PathIn(ft)[k]] = b]
             /\ OuterIn(t) = OuterIn(s)
<1> DEFINE i == ft.stack[k]
           t == WithSyms(s, i, b)
<1>1. /\ s.map = ft.map
      /\ s.stack = ft.stack
      /\ DOMAIN s.tables = 1 .. Len(ft.tables)
  <2>1. s.map = ft.map /\ s.stack = ft.stack
    BY DEF SameLinks
  <2>2. s.tables \in Seq(Tables) /\ Len(s.tables) = Len(ft.tables)
    BY DEF SameLinks
  <2> QED
    BY <2>1, <2>2
<1>2. i \in 1 .. Len(ft.tables) /\ ft.map \in [DOMAIN ft.map -> 1 .. Len(ft.tables)]
  BY Shape DEF RInv
<1>3. /\ t.map = ft.map
      /\ t.stack = ft.stack
      /\ t.tables = [s.tables EXCEPT ![i] = [syms |-> b, next |-> @.next, free |-> @.free]]
  BY <1>1 DEF WithSyms, WithTables
<1>4. ASSUME NEW j \in 1 .. Len(ft.tables)
      PROVE  /\ t.tables[j].syms = IF j = i THEN b ELSE s.tables[j].syms
             /\ t.tables[j].free = s.tables[j].free
  BY <1>1, <1>3
<1> HIDE DEF t, i
<1>5. PathIn(t) = PathIn(ft)
  BY <1>3 DEF PathIn
<1>6. ASSUME NEW f \in Frames \cup {Root}
      PROVE  /\ ScopeIn(t)[f] = IF f = PathIn(ft)[k] THEN b ELSE ScopeIn(s)[f]
             /\ OuterIn(t)[f] = OuterIn(s)[f]
  <2>1. CASE f \notin DOMAIN ft.map
    <3>1. f # PathIn(ft)[k]
      BY <2>1, PathNames
    <3> QED
      BY <1>1, <1>3, <2>1, <3>1 DEF ScopeIn, OuterIn
  <2>2. CASE f \in DOMAIN ft.map
    <3>1. ft.map[f] \in 1 .. Len(ft.tables)
      BY <1>2, <2>2
    <3>2. ft.map[f] = i <=> f = PathIn(ft)[k]
      BY <2>2, PathNames DEF i
    <3> QED
      BY <1>1, <1>3, <1>4, <2>2, <3>1, <3>2 DEF ScopeIn, OuterIn
  <2> QED
    BY <2>1, <2>2
<1>7. ScopeIn(t) = [ScopeIn(s) EXCEPT ![PathIn(ft)[k]] = b]
  BY <1>6 DEF ScopeIn
<1>8. OuterIn(t) = OuterIn(s)
  BY <1>6 DEF OuterIn
<1> QED
  BY <1>5, <1>7, <1>8 DEF t, i

(* Writing the free variables of the frames changes nothing else.          *)
LEMMA NewOuter ==
  ASSUME RInv, NEW free
  PROVE  LET t == WithFree(ft, free)
         IN  /\ PathIn(t) = PathIn(ft)
             /\ ScopeIn(t) = ScopeIn(ft)
             /\ OuterIn(t) = [f \in Frames \cup {Root} |->
                                IF f \in DOMAIN ft.map THEN free[ft.map[f]] ELSE {}]
<1> DEFINE t == WithFree(ft, free)
<1>1. DOMAIN ft.tables = 1 .. Len(ft.tables)
      /\ ft.map \in [DOMAIN ft.map -> 1 .. Len(ft.tables)]
  BY Shape DEF RInv
<1>2. /\ t.map = ft.map
      /\ t.stack = ft.stack
      /\ t.tables = [i \in DOMAIN ft.tables |->
                       [syms |-> ft.tables[i].syms, next |-> ft.tables[i].next,
                        free |-> free[i]]]
  BY DEF WithFree, WithTables
<1>3. ASSUME NEW j \in 1 .. Len(ft.tables)
      PROVE  t.tables[j].syms = ft.tables[j].syms /\ t.tables[j].free = free[j]
  BY <1>1, <1>2
<1> HIDE DEF t
<1>4. PathIn(t) = PathIn(ft)
  BY <1>2 DEF PathIn
<1>5. ASSUME NEW f \in DOMAIN ft.map
      PROVE  /\ t.tables[t.map[f]].syms = ft.tables[ft.map[f]].syms
             /\ t.tables[t.map[f]].free = free[ft.map[f]]
  BY <1>1, <1>2, <1>3
<1>6. ScopeIn(t) = ScopeIn(ft)
  BY <1>2, <1>5 DEF ScopeIn
<1>7. OuterIn(t) = [f \in Frames \cup {Root} |->
                     IF f \in DOMAIN ft.map THEN free[ft.map[f]] ELSE {}]
  BY <1>2, <1>5 DEF OuterIn
<1> QED
  BY <1>4, <1>6, <1>7 DEF t

-----------------------------------------------------------------------------
(* Lookups.                                                                *)

Declaring(n) ==
    {k \in DOMAIN PathIn(ft) : n \in DOMAIN ScopeIn(ft)[PathIn(ft)[k]]}

Innermost(n) == CHOOSE k \in Declaring(n) : \A j \in Declaring(n) : j <= k

LEMMA ScopeAt ==
  ASSUME RInv, NEW k \in 1 .. Len(ft.stack)
  PROVE  ScopeIn(ft)[PathIn(ft)[k]] = ft.tables[ft.stack[k]].syms
<1>1. PathIn(ft)[k] \in DOMAIN ft.map /\ ft.map[PathIn(ft)[k]] = ft.stack[k]
      /\ PathIn(ft)[k] \in Frames \cup {Root}
  BY PathNames
<1> QED
  BY <1>1 DEF ScopeIn

LEMMA HoldingDeclares ==
  ASSUME RInv, NEW n
  PROVE  /\ Holding(ft, n) = Declaring(n)
         /\ InnermostHolding(ft, n) = Innermost(n)
<1>1. Holding(ft, n) = Declaring(n)
  BY PathNames, ScopeAt DEF Holding, Declaring
<1> QED
  BY <1>1 DEF InnermostHolding, Innermost

(* The table that is found is the frame of the innermost block that        *)
(* declares the name, and the tables passed on the way are the frames of   *)
(* the blocks inside it.                                                   *)
LEMMA FoundDenotes ==
  ASSUME RInv, NEW n
  PROVE  /\ Found(ft, n) <=> Declaring(n) # {}
         /\ Found(ft, n) =>
               /\ Innermost(n) \in 1 .. Len(ft.stack)
               /\ Definer(ft, n) = ft.stack[Innermost(n)]
               /\ Lookup(ft, n) = ScopeIn(ft)[PathIn(ft)[Innermost(n)]][n]
               /\ {Chain(ft)[k] : k \in 1 .. Nearest(Hits(ft, n)) - 1} =
                    {ft.stack[k] : k \in Innermost(n) + 1 .. Len(ft.stack)}
<1>1. Nested(ft)
  BY FramesNested DEF RInv
<1>2. Found(ft, n) <=> Declaring(n) # {}
  BY <1>1, HoldingDeclares, FoundInnermost
<1>3. ASSUME Found(ft, n)
      PROVE  /\ Innermost(n) \in Declaring(n)
             /\ Definer(ft, n) = ft.stack[Innermost(n)]
             /\ {Chain(ft)[k] : k \in 1 .. Nearest(Hits(ft, n)) - 1} =
                    {ft.stack[k] : k \in Innermost(n) + 1 .. Len(ft.stack)}
  BY <1>1, <1>3, HoldingDeclares, FoundInnermost
<1>4. ASSUME Found(ft, n)
      PROVE  Innermost(n) \in 1 .. Len(ft.stack)
  BY <1>3, <1>4, PathNames DEF Declaring
<1>5. ASSUME Found(ft, n)
      PROVE  Lookup(ft, n) = ScopeIn(ft)[PathIn(ft)[Innermost(n)]][n]
  <2>1. ScopeIn(ft)[PathIn(ft)[Innermost(n)]] = ft.tables[ft.stack[Innermost(n)]].syms
    BY <1>4, <1>5, ScopeAt
  <2> QED
    BY <1>3, <1>5, <2>1 DEF Lookup
<1> QED
  BY <1>2, <1>3, <1>4, <1>5

(* What is recorded as free on the way is what the blocks borrow.          *)
Borrowed(n) ==
    [f \in DOMAIN OuterIn(ft) |->
       IF Declaring(n) # {} /\ f \in {PathIn(ft)[k] : k \in Innermost(n) + 1 .. Len(PathIn(ft))}
         THEN OuterIn(ft)[f] \cup {n} ELSE OuterIn(ft)[f]]

LEMMA MarkBorrows ==
  ASSUME RInv, NEW n
  PROVE  /\ PathIn(MarkFree(ft, n)) = PathIn(ft)
         /\ ScopeIn(MarkFree(ft, n)) = ScopeIn(ft)
         /\ OuterIn(MarkFree(ft, n)) = Borrowed(n)
<1>1. CASE ~Found(ft, n)
  <2>1. MarkFree(ft, n) = ft
    BY <1>1 DEF MarkFree
  <2>2. Borrowed(n) = OuterIn(ft)
    BY <1>1, FoundDenotes DEF Borrowed, OuterIn
  <2> QED
    BY <2>1, <2>2
<1>2. CASE Found(ft, n)
  <2> DEFINE passed == {Chain(ft)[k] : k \in 1 .. Nearest(Hits(ft, n)) - 1}
             free == [i \in DOMAIN ft.tables |->
                        ft.tables[i].free \cup (IF i \in passed THEN {n} ELSE {})]
             I == Innermost(n)
             inner == {PathIn(ft)[k] : k \in I + 1 .. Len(PathIn(ft))}
  <2>1. MarkFree(ft, n) = WithFree(ft, free)
    BY <1>2 DEF MarkFree
  <2>2. I \in 1 .. Len(ft.stack) /\ passed = {ft.stack[k] : k \in I + 1 .. Len(ft.stack)}
        /\ Declaring(n) # {}
    BY <1>2, FoundDenotes
  <2>3. ASSUME NEW f \in DOMAIN ft.map
        PROVE  ft.map[f] \in passed <=> f \in inner
    <3>1. \A k \in I + 1 .. Len(ft.stack) : k \in 1 .. Len(ft.stack)
      BY <2>2, Shape DEF RInv
    <3>2. \A k \in I + 1 .. Len(ft.stack) : ft.map[f] = ft.stack[k] <=> f = PathIn(ft)[k]
      BY <3>1, PathNames
    <3>3. Len(PathIn(ft)) = Len(ft.stack)
      BY PathNames
    <3> QED
      BY <2>2, <3>2, <3>3
  <2>4. ASSUME NEW f \in DOMAIN ft.map
        PROVE  free[ft.map[f]] = IF f \in inner
                                   THEN ft.tables[ft.map[f]].free \cup {n}
                                   ELSE ft.tables[ft.map[f]].free
    <3>1. ft.map[f] \in DOMAIN ft.tables
      BY Shape DEF RInv
    <3> QED
      BY <2>3, <3>1
  <2>5. \A f \in inner : f \in DOMAIN ft.map
    <3>1. \A k \in I + 1 .. Len(PathIn(ft)) : k \in 1 .. Len(ft.stack)
      BY <2>2, PathNames, Shape DEF RInv
    <3> QED
      BY <3>1, PathNames
  <2> HIDE DEF free, inner, I, passed
  <2>6. Borrowed(n) = [f \in Frames \cup {Root} |->
                         IF f \in DOMAIN ft.map THEN free[ft.map[f]] ELSE {}]
    <3>1. Borrowed(n) = [f \in Frames \cup {Root} |->
            IF f \in inner THEN OuterIn(ft)[f] \cup {n} ELSE OuterIn(ft)[f]]
      BY <2>2 DEF Borrowed, OuterIn, inner, I
    <3> QED
      BY <2>4, <2>5, <3>1 DEF OuterIn
  <2> QED
    BY <2>1, <2>6, NewOuter
<1> QED
  BY <1>1, <1>2

(* Everything from the current table outward is what is open.              *)
LEMMA ResetForgets ==
  ASSUME RInv
  PROVE  /\ PathIn(ResetFree(ft)) = PathIn(ft)
         /\ ScopeIn(ResetFree(ft)) = ScopeIn(ft)
         /\ OuterIn(ResetFree(ft)) =
              [f \in DOMAIN OuterIn(ft) |->
                 IF \E k \in DOMAIN PathIn(ft) : PathIn(ft)[k] = f
                   THEN {} ELSE OuterIn(ft)[f]]
<1> DEFINE chain == {Chain(ft)[k] : k \in DOMAIN Chain(ft)}
           free == [i \in DOMAIN ft.tables |->
                      IF i \in chain THEN {} ELSE ft.tables[i].free]
<1>1. ResetFree(ft) = WithFree(ft, free)
  BY DEF ResetFree
<1>2. chain = {ft.stack[k] : k \in 1 .. Len(ft.stack)}
  <2>1. Len(ft.stack) \in Nat
    BY Shape DEF RInv
  <2>2. DOMAIN Chain(ft) = 1 .. Len(ft.stack)
        /\ \A k \in 1 .. Len(ft.stack) : Chain(ft)[k] = ft.stack[Len(ft.stack) + 1 - k]
    BY FramesNested, ChainIsStack DEF RInv
  <2>3. ASSUME NEW k \in 1 .. Len(ft.stack)
        PROVE  ft.stack[k] \in chain
    <3>1. /\ Len(ft.stack) + 1 - k \in 1 .. Len(ft.stack)
          /\ Len(ft.stack) + 1 - (Len(ft.stack) + 1 - k) = k
      BY <2>1
    <3>2. Chain(ft)[Len(ft.stack) + 1 - k] = ft.stack[k]
      BY <2>2, <3>1
    <3> QED
      BY <2>2, <3>1, <3>2
  <2>4. ASSUME NEW x \in chain
        PROVE  \E k \in 1 .. Len(ft.stack) : x = ft.stack[k]
    <3>1. PICK k \in 1 .. Len(ft.stack) : x = Chain(ft)[k]
      BY <2>2
    <3>2. Len(ft.stack) + 1 - k \in 1 .. Len(ft.stack)
      BY <2>1
    <3> QED
      BY <2>2, <3>1, <3>2
  <2> HIDE DEF chain
  <2> QED
    BY <2>3, <2>4
<1>3. ASSUME NEW f \in DOMAIN ft.map
      PROVE  ft.map[f] \in chain <=> \E k \in DOMAIN PathIn(ft) : PathIn(ft)[k] = f
  <2>1. \A k \in 1 .. Len(ft.stack) : ft.map[f] = ft.stack[k] <=> f = PathIn(ft)[k]
    BY PathNames
  <2>2. DOMAIN PathIn(ft) = 1 .. Len(ft.stack)
    BY PathNames
  <2> HIDE DEF chain
  <2> QED
    BY <1>2, <2>1, <2>2
<1>4. ASSUME NEW f \in DOMAIN ft.map
      PROVE  free[ft.map[f]] = IF \E k \in DOMAIN PathIn(ft) : PathIn(ft)[k] = f
                                 THEN {} ELSE ft.tables[ft.map[f]].free
  <2>1. ft.map[f] \in DOMAIN ft.tables
    BY Shape DEF RInv
  <2> QED
    BY <1>3, <2>1
<1> HIDE DEF free
<1> QED
  BY <1>1, <1>4, NewOuter DEF OuterIn

-----------------------------------------------------------------------------
(* Every operation on the table is the operation on blocks that the        *)
(* compiler means by it, or, when a name is not found, changes nothing.    *)

LEMMA ScopeOperators ==
  ASSUME NEW n
  PROVE  /\ Scope!Declaring(n) = Declaring(n)
         /\ Scope!Innermost(n) = Innermost(n)
         /\ Scope!WithBorrowed(n) = Borrowed(n)
         /\ Scope!Here = PathIn(ft)[Len(PathIn(ft))]
         /\ \A b, v : Scope!WithDeclared(b, n, v) =
                [ScopeIn(ft) EXCEPT ![b] = Bind(ScopeIn(ft)[b], n, v)]
<1>1. Scope!Declaring(n) = Declaring(n)
  BY Mapping DEF Scope!Declaring, Declaring
<1>2. Scope!Innermost(n) = Innermost(n)
  BY <1>1 DEF Scope!Innermost, Innermost
<1>3. Scope!Borrowers(n) = {PathIn(ft)[k] : k \in Innermost(n) + 1 .. Len(PathIn(ft))}
  BY <1>2, Mapping DEF Scope!Borrowers
<1>4. Scope!WithBorrowed(n) = Borrowed(n)
  BY <1>1, <1>3, Mapping DEF Scope!WithBorrowed, Borrowed
<1>5. Scope!Here = PathIn(ft)[Len(PathIn(ft))]
  BY Mapping DEF Scope!Here
<1>6. ASSUME NEW b, NEW v
      PROVE  Scope!WithDeclared(b, n, v) =
                [ScopeIn(ft) EXCEPT ![b] = Bind(ScopeIn(ft)[b], n, v)]
  <2> DEFINE S == [f \in Frames \cup {Root} |-> OfFrame(f, "syms", NoBindings)]
  <2>1. Scope!WithDeclared(b, n, v) = [S EXCEPT ![b] = Bind(S[b], n, v)]
    BY DEF Scope!WithDeclared, Bind
  <2>2. S = ScopeIn(ft)
    BY Mapping
  <2> HIDE DEF S
  <2> QED
    BY <2>1, <2>2
<1> QED
  BY <1>1, <1>2, <1>4, <1>5, <1>6

LEMMA PutDeclares ==
  ASSUME RInv, NEW n, NEW v, put(n, v)
  PROVE  Scope!Declare(n, v)
<1> DEFINE L == Len(ft.stack)
           p == PathIn(ft)[L]
           b == Bind(ft.tables[ft.stack[L]].syms, n, v)
<1>1. L \in 1 .. Len(ft.stack) /\ ft.current = ft.stack[L]
  BY Shape DEF RInv
<1>2. ft' = WithSyms(ft, ft.stack[L], b)
  BY <1>1 DEF put, Put
<1>3. SameLinks(ft, ft)
  BY TypeOKShaped, SameLinksRefl DEF RInv, IInv
<1>4. /\ PathIn(ft') = PathIn(ft)
      /\ ScopeIn(ft') = [ScopeIn(ft) EXCEPT ![p] = b]
      /\ OuterIn(ft') = OuterIn(ft)
  BY <1>1, <1>2, <1>3, NewScope
<1>5. b = Bind(ScopeIn(ft)[p], n, v)
  BY <1>1, ScopeAt
<1>6. Scope!Here = p
  BY ScopeOperators, PathNames
<1> HIDE DEF b, p
<1>7. ScopeIn(ft') = Scope!WithDeclared(Scope!Here, n, v)
  <2>1. Scope!WithDeclared(p, n, v) = [ScopeIn(ft) EXCEPT ![p] = Bind(ScopeIn(ft)[p], n, v)]
    BY ScopeOperators
  <2> QED
    BY <1>4, <1>5, <1>6, <2>1
<1>8. answer' = answer
  BY DEF put
<1> QED
  BY <1>4, <1>7, <1>8, Mapping, MappingPrime DEF Scope!Declare

LEMMA FindDenotes ==
  ASSUME RInv, NEW n, find(n)
  PROVE  Scope!Denote(n)
<1>1. ft' = MarkFree(ft, n)
  BY DEF find
<1>2. answer' = IF Scope!Declaring(n) = {} THEN NoSymbol
                ELSE ScopeIn(ft)[PathIn(ft)[Scope!Innermost(n)]][n]
  BY FoundDenotes, ScopeOperators DEF find
<1>3. OuterIn(ft') = Scope!WithBorrowed(n)
  BY <1>1, MarkBorrows, ScopeOperators
<1>4. PathIn(ft') = PathIn(ft) /\ ScopeIn(ft') = ScopeIn(ft)
  BY <1>1, MarkBorrows
<1> QED
  BY <1>2, <1>3, <1>4, Mapping, MappingPrime DEF Scope!Denote

LEMMA SetRedefines ==
  ASSUME RInv, NEW n \in Names, NEW v \in Symbols, set(n, v)
  PROVE  Scope!Redefine(n, v) \/ UNCHANGED vars
<1>1. CASE ~Found(ft, n)
  BY <1>1 DEF set, SetValue, vars
<1>2. CASE Found(ft, n)
  <2> DEFINE I == Innermost(n)
             p == PathIn(ft)[I]
             m == MarkFree(ft, n)
             b == Bind(ft.tables[ft.stack[I]].syms, n, v)
  <2>1. Declaring(n) # {} /\ I \in 1 .. Len(ft.stack) /\ Definer(ft, n) = ft.stack[I]
    BY <1>2, FoundDenotes
  <2>2. ft' = WithSyms(m, ft.stack[I], b)
    BY <1>2, <2>1 DEF set, SetValue, Rebind
  <2>3. SameLinks(ft, m)
    BY TypeOKShaped, MarkKeepsLinks DEF RInv, IInv
  <2> HIDE DEF m, b
  <2>4. /\ PathIn(ft') = PathIn(ft)
        /\ ScopeIn(ft') = [ScopeIn(m) EXCEPT ![p] = b]
        /\ OuterIn(ft') = OuterIn(m)
    BY <2>1, <2>2, <2>3, NewScope
  <2>5. ScopeIn(m) = ScopeIn(ft) /\ OuterIn(m) = Borrowed(n)
    BY MarkBorrows DEF m
  <2>6. b = Bind(ScopeIn(ft)[p], n, v)
    BY <2>1, ScopeAt DEF b
  <2> HIDE DEF p
  <2>7. ScopeIn(ft') = Scope!WithDeclared(p, n, v)
    BY <2>4, <2>5, <2>6, ScopeOperators
  <2>8. p = PathIn(ft)[Scope!Innermost(n)]
    BY ScopeOperators DEF p
  <2>9. OuterIn(ft') = Scope!WithBorrowed(n) /\ Scope!Declaring(n) # {}
    BY <2>1, <2>4, <2>5, ScopeOperators
  <2>10. answer' = answer
    BY DEF set
  <2> QED
    BY <2>4, <2>7, <2>8, <2>9, <2>10, Mapping, MappingPrime DEF Scope!Redefine
<1> QED
  BY <1>1, <1>2

LEMMA RemoveForgets ==
  ASSUME RInv, NEW n, remove(n)
  PROVE  Scope!Forget(n) \/ UNCHANGED vars
<1>1. CASE ~Found(ft, n)
  BY <1>1 DEF remove, RemoveName, vars
<1>2. CASE Found(ft, n)
  <2> DEFINE I == Innermost(n)
             p == PathIn(ft)[I]
             b == Drop(ft.tables[ft.stack[I]].syms, {n})
  <2>1. Declaring(n) # {} /\ I \in 1 .. Len(ft.stack) /\ Definer(ft, n) = ft.stack[I]
    BY <1>2, FoundDenotes
  <2>2. ft' = WithSyms(ft, ft.stack[I], b)
    BY <1>2, <2>1 DEF remove, RemoveName
  <2>3. SameLinks(ft, ft)
    BY TypeOKShaped, SameLinksRefl DEF RInv, IInv
  <2> HIDE DEF b
  <2>4. /\ PathIn(ft') = PathIn(ft)
        /\ ScopeIn(ft') = [ScopeIn(ft) EXCEPT ![p] = b]
        /\ OuterIn(ft') = OuterIn(ft)
    BY <2>1, <2>2, <2>3, NewScope
  <2>5. b = [x \in DOMAIN ScopeIn(ft)[p] \ {n} |-> ScopeIn(ft)[p][x]]
    BY <2>1, ScopeAt DEF b, Drop
  <2>6. p = PathIn(ft)[Scope!Innermost(n)] /\ Scope!Declaring(n) # {}
    BY <2>1, ScopeOperators
  <2>7. answer' = answer
    BY DEF remove
  <2> DEFINE P == [k \in DOMAIN ft.stack |-> NameOf(ft.stack[k])]
             S == [f \in Frames \cup {Root} |-> OfFrame(f, "syms", NoBindings)]
             q == P[Scope!Innermost(n)]
  <2>8. S = ScopeIn(ft) /\ S' = ScopeIn(ft') /\ q = p
    BY <2>6, Mapping, MappingPrime
  <2> HIDE DEF p, P, S, q
  <2>9. S' = [S EXCEPT ![q] = [x \in DOMAIN S[q] \ {n} |-> S[q][x]]]
    BY <2>4, <2>5, <2>8
  <2>10. S' = [S EXCEPT ![q] = [x \in DOMAIN @ \ {n} |-> @[x]]]
    BY <2>9
  <2> QED
    BY <2>4, <2>6, <2>7, <2>10, Mapping, MappingPrime DEF Scope!Forget, P, S, q
<1> QED
  BY <1>1, <1>2

LEMMA ResetForgetsBorrowed ==
  ASSUME RInv, reset_free_variables
  PROVE  Scope!ForgetBorrowed
<1>1. ft' = ResetFree(ft) /\ answer' = answer
  BY DEF reset_free_variables
<1> DEFINE P == [k \in DOMAIN ft.stack |-> NameOf(ft.stack[k])]
           O == [f \in Frames \cup {Root} |-> OfFrame(f, "free", {})]
<1>2. P = PathIn(ft) /\ O = OuterIn(ft) /\ O' = OuterIn(ft')
  BY Mapping, MappingPrime
<1> HIDE DEF P, O
<1>3. O' = [b \in DOMAIN O |-> IF \E k \in DOMAIN P : P[k] = b THEN {} ELSE O[b]]
  BY <1>1, <1>2, ResetForgets
<1> QED
  BY <1>1, <1>3, ResetForgets, Mapping, MappingPrime DEF Scope!ForgetBorrowed, P, O

(* A frame is entered where its block is not open, and brings back the     *)
(* declarations that the block had.                                        *)
LEMMA PushEnters ==
  ASSUME RInv, RInv', NEW f \in Frames, push_frame(f)
  PROVE  Scope!Enter(f)
<1> DEFINE L  == Len(ft.stack)
           id == IF f \in DOMAIN ft.map THEN ft.map[f] ELSE Len(ft.tables) + 1
<1>1. /\ L \in Nat
      /\ DOMAIN ft.stack = 1 .. L
      /\ ft'.stack = Append(ft.stack, id)
      /\ DOMAIN ft.map \subseteq DOMAIN ft'.map
      /\ f \in DOMAIN ft'.map /\ ft'.map[f] = id
      /\ \A g \in DOMAIN ft.map : ft'.map[g] = ft.map[g]
      /\ DOMAIN ft'.map = DOMAIN ft.map \cup {f}
  BY Shape DEF RInv, push_frame, PushFrame, Bind
<1>2. /\ DOMAIN ft'.stack = 1 .. L + 1
      /\ \A k \in 1 .. L : ft'.stack[k] = ft.stack[k]
      /\ ft'.stack[L + 1] = id
  BY <1>1, Shape DEF RInv
<1>3. \A g, h \in DOMAIN ft'.map : ft'.map[g] = ft'.map[h] => g = h
  BY DEF RInv, FramesNamed
<1>4. PathIn(ft')[L + 1] = f
  <2>1. PathIn(ft')[L + 1] = CHOOSE g \in DOMAIN ft'.map : ft'.map[g] = ft'.map[f]
    BY <1>1, <1>2 DEF PathIn
  <2> QED
    BY <1>1, <1>3, <2>1, NameOfMap
<1>5. ASSUME NEW k \in 1 .. L
      PROVE  PathIn(ft')[k] = PathIn(ft)[k]
  <2> DEFINE g == PathIn(ft)[k]
  <2>1. g \in DOMAIN ft.map /\ ft.map[g] = ft.stack[k]
    BY PathNames
  <2>2. g \in DOMAIN ft'.map /\ ft'.map[g] = ft'.stack[k]
    BY <1>1, <1>2, <2>1
  <2>3. PathIn(ft')[k] = CHOOSE h \in DOMAIN ft'.map : ft'.map[h] = ft'.map[g]
    <3>1. k \in DOMAIN ft'.stack
      BY <1>1, <1>2
    <3>2. PathIn(ft')[k] = CHOOSE h \in DOMAIN ft'.map : ft'.map[h] = ft'.stack[k]
      BY <3>1 DEF PathIn
    <3> QED
      BY <2>2, <3>2
  <2> QED
    BY <1>3, <2>2, <2>3, NameOfMap
<1>6. PathIn(ft') = Append(PathIn(ft), f)
  <2>1. PathIn(ft) \in Seq(DOMAIN ft.map) /\ Len(PathIn(ft)) = L
    BY PathNames
  <2>2. DOMAIN PathIn(ft') = 1 .. L + 1
    BY <1>2 DEF PathIn
  <2>3. PathIn(ft') = [k \in 1 .. L + 1 |-> PathIn(ft')[k]]
    BY <1>2 DEF PathIn
  <2> DEFINE P == PathIn(ft)
  <2> HIDE DEF P
  <2>4. Append(P, f) = [k \in 1 .. L + 1 |-> IF k = L + 1 THEN f ELSE P[k]]
    <3>1. P \in Seq(DOMAIN ft.map) /\ Len(P) = L
      BY <2>1 DEF P
    <3>2. P \in Seq(Frames \cup {Root}) /\ f \in Frames \cup {Root}
      BY PathNames DEF P
    <3> QED
      BY <3>1, <3>2, AppendAt
  <2>5. \A k \in 1 .. L + 1 : k = L + 1 \/ k \in 1 .. L
    BY <1>1
  <2> QED
    BY <1>4, <1>5, <2>3, <2>4, <2>5 DEF P
<1>7. ASSUME NEW k \in 1 .. L
      PROVE  PathIn(ft)[k] # f
  <2>1. ft'.stack[k] < ft'.stack[L + 1]
    <3>1. Len(ft'.stack) = L + 1 /\ k \in 1 .. L + 1 /\ L + 1 \in 1 .. L + 1 /\ k < L + 1
      BY <1>1, Shape DEF RInv
    <3> QED
      BY <3>1 DEF RInv, StackAscends
  <2>2. ft.stack[k] < id /\ ft.stack[k] \in Nat
    BY <1>2, <2>1, Shape DEF RInv
  <2>3. PathIn(ft)[k] = f => ft'.map[f] = ft.stack[k]
    BY <1>1, PathNames
  <2> QED
    BY <1>1, <2>2, <2>3
<1>8. ScopeIn(ft') = ScopeIn(ft) /\ OuterIn(ft') = OuterIn(ft)
  <2>1. CASE f \in DOMAIN ft.map
    <3>1. ft'.map = ft.map /\ ft'.tables = ft.tables
      BY <2>1 DEF push_frame, PushFrame
    <3> QED
      BY <3>1 DEF ScopeIn, OuterIn
  <2>2. CASE f \notin DOMAIN ft.map
    <3>1. ft'.tables = Append(ft.tables, NewTable(ft.current))
      BY <2>2 DEF push_frame, PushFrame
    <3>2. /\ ft'.tables[id] = NewTable(ft.current)
          /\ \A i \in 1 .. Len(ft.tables) : ft'.tables[i] = ft.tables[i]
      BY <2>2, <3>1, Shape DEF RInv
    <3>3. \A g \in DOMAIN ft.map : ft.map[g] \in 1 .. Len(ft.tables)
      BY Shape DEF RInv
    <3>4. \A g \in DOMAIN ft.map : ft'.tables[ft'.map[g]] = ft.tables[ft.map[g]]
      BY <1>1, <3>2, <3>3
    <3>5. ft'.tables[ft'.map[f]].syms = NoBindings /\ ft'.tables[ft'.map[f]].free = {}
      BY <1>1, <3>2 DEF NewTable
    <3>6. ScopeIn(ft') = ScopeIn(ft)
      BY <1>1, <2>2, <3>4, <3>5 DEF ScopeIn
    <3>7. OuterIn(ft') = OuterIn(ft)
      BY <1>1, <2>2, <3>4, <3>5 DEF OuterIn
    <3> QED
      BY <3>6, <3>7
  <2> QED
    BY <2>1, <2>2
<1>9. f \notin {PathIn(ft)[k] : k \in DOMAIN PathIn(ft)}
  BY <1>7, PathNames
<1>10. answer' = answer
  BY DEF push_frame
<1> DEFINE P == [k \in DOMAIN ft.stack |-> NameOf(ft.stack[k])]
<1>11. P = PathIn(ft) /\ P' = PathIn(ft')
  BY Mapping, MappingPrime
<1> HIDE DEF P
<1>12. f \notin {P[k] : k \in DOMAIN P} /\ P' = Append(P, f)
  BY <1>6, <1>9, <1>11
<1> QED
  BY <1>8, <1>10, <1>12, Mapping, MappingPrime DEF Scope!Enter, P

LEMMA PopLeaves ==
  ASSUME RInv, pop_frame
  PROVE  Scope!Leave
<1> DEFINE L == Len(ft.stack)
<1>1. L \in Nat /\ L > 1 /\ ft.stack \in Seq(1 .. Len(ft.tables))
  BY DEF pop_frame, RInv, IInv, TypeOK
<1>2. /\ ft'.tables = ft.tables
      /\ ft'.map = ft.map
      /\ ft'.stack = SubSeq(ft.stack, 1, L - 1)
      /\ answer' = answer
  BY DEF pop_frame, PopFrame
<1>3. DOMAIN ft'.stack = 1 .. L - 1 /\ \A k \in 1 .. L - 1 : ft'.stack[k] = ft.stack[k]
  BY <1>1, <1>2
<1>4. PathIn(ft) \in Seq(DOMAIN ft.map) /\ Len(PathIn(ft)) = L
  BY PathNames
<1>5. PathIn(ft') = SubSeq(PathIn(ft), 1, Len(PathIn(ft)) - 1)
  <2>1. SubSeq(PathIn(ft), 1, L - 1) = [k \in 1 .. L - 1 |-> PathIn(ft)[k]]
    BY <1>1, <1>4
  <2>2. ASSUME NEW k \in 1 .. L - 1
        PROVE  PathIn(ft')[k] = PathIn(ft)[k]
    <3>1. k \in DOMAIN ft.stack /\ k \in DOMAIN ft'.stack
      BY <1>1, <1>3
    <3>2. PathIn(ft')[k] = CHOOSE f \in DOMAIN ft.map : ft.map[f] = ft.stack[k]
      BY <1>2, <1>3, <3>1 DEF PathIn
    <3>3. PathIn(ft)[k] = CHOOSE f \in DOMAIN ft.map : ft.map[f] = ft.stack[k]
      BY <3>1 DEF PathIn
    <3> QED
      BY <3>2, <3>3
  <2>3. PathIn(ft') = [k \in 1 .. L - 1 |-> PathIn(ft')[k]]
    BY <1>3 DEF PathIn
  <2> QED
    BY <1>4, <2>1, <2>2, <2>3
<1>6. ScopeIn(ft') = ScopeIn(ft) /\ OuterIn(ft') = OuterIn(ft)
  BY <1>2 DEF ScopeIn, OuterIn
<1> DEFINE P == [k \in DOMAIN ft.stack |-> NameOf(ft.stack[k])]
<1>7. P = PathIn(ft) /\ P' = PathIn(ft')
  BY Mapping, MappingPrime
<1> HIDE DEF P
<1>8. Len(P) > 1 /\ P' = SubSeq(P, 1, Len(P) - 1)
  BY <1>1, <1>4, <1>5, <1>7
<1> QED
  BY <1>2, <1>6, <1>8, Mapping, MappingPrime DEF Scope!Leave, P

LEMMA InitMaps ==
  ASSUME Init
  PROVE  Scope!Init
<1>1. /\ ft.map = [f \in {Root} |-> 1]
      /\ ft.stack = << 1 >>
      /\ ft.tables = << NewTable(0) >>
      /\ answer = NoSymbol
  BY DEF Init, EmptyFrameTable
<1>2. PathIn(ft) = << Root >>
  <2>1. PathIn(ft) = [k \in 1 .. 1 |-> CHOOSE f \in {Root} : ft.map[f] = 1]
    BY <1>1 DEF PathIn
  <2>2. (CHOOSE f \in {Root} : ft.map[f] = 1) = Root
    BY <1>1
  <2> QED
    BY <2>1, <2>2
<1>3. ScopeIn(ft) = [b \in Frames \cup {Root} |-> [n \in {} |-> n]]
  BY <1>1 DEF ScopeIn, NewTable, NoBindings
<1>4. OuterIn(ft) = [b \in Frames \cup {Root} |-> {}]
  BY <1>1 DEF OuterIn, NewTable
<1> QED
  BY <1>1, <1>2, <1>3, <1>4, Mapping DEF Scope!Init

LEMMA StepMaps ==
  ASSUME RInv, RInv', [Next]_vars
  PROVE  [Scope!Next]_(Scope!vars)
<1>1. CASE UNCHANGED vars
  <2>1. UNCHANGED << ft, answer >>
    BY <1>1 DEF vars
  <2>2. UNCHANGED Scope!vars
    BY <2>1, Mapping, MappingPrime DEF Scope!vars
  <2> QED
    BY <2>2
<1>2. ASSUME NEW f \in Frames, push_frame(f)
      PROVE  Scope!Next
  BY <1>2, PushEnters DEF Scope!Next
<1>3. CASE pop_frame
  BY <1>3, PopLeaves DEF Scope!Next
<1>4. ASSUME NEW n \in Names, NEW v \in Symbols, put(n, v)
      PROVE  Scope!Next
  BY <1>4, PutDeclares DEF Scope!Next
<1>5. ASSUME NEW n \in Names, NEW v \in Symbols, set(n, v)
      PROVE  Scope!Next \/ UNCHANGED vars
  BY <1>5, SetRedefines DEF Scope!Next
<1>6. ASSUME NEW n \in Names, find(n)
      PROVE  Scope!Next
  BY <1>6, FindDenotes DEF Scope!Next
<1>7. ASSUME NEW n \in Names, remove(n)
      PROVE  Scope!Next \/ UNCHANGED vars
  BY <1>7, RemoveForgets DEF Scope!Next
<1>8. CASE reset_free_variables
  BY <1>8, ResetForgetsBorrowed DEF Scope!Next
<1> QED
  BY <1>1, <1>2, <1>3, <1>4, <1>5, <1>6, <1>7, <1>8 DEF Next

(* The symbol table keeps the promise of LexicalScope: in every execution  *)
(* of every client, a lookup along the next pointers answers, and records  *)
(* free variables, as the innermost open declaration would.                *)
THEOREM Implementation == Spec => ImplementsLexicalScope
<1>1. Init => Scope!Init
  BY InitMaps
<1>2. RInv /\ RInv' /\ [Next]_vars => [Scope!Next]_(Scope!vars)
  BY StepMaps
<1> QED
  BY <1>1, <1>2, RInvariance, PTL DEF Spec, ImplementsLexicalScope, Scope!Spec
=============================================================================
