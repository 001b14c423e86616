------------------------ MODULE ProcedureCode_proofs -------------------------
(***************************************************************************)
(* The code that is generated for procedures, for every set of names and   *)
(* every bound on the program, when the procedures have different names:   *)
(* it addresses and hands over variables where they are, and a call that   *)
(* is generated comes after a function for it and reaches the procedure    *)
(* its name denotes; and which programs get there: the errors that are     *)
(* reported are those of the text.  Three more layers are added            *)
(* to the invariant of Procedures_proofs: what the generator has stored,   *)
(* what the names of procedures stand for, and what the inspector, which   *)
(* comes before, has reported.                                             *)
(***************************************************************************)
EXTENDS Procedures_proofs

-----------------------------------------------------------------------------
(* The code: what the statements of a procedure address.  When the         *)
(* generator comes to a block, it gives the variables of the block their   *)
(* storage and adds what the procedure captures to its frame; nothing else *)
(* in the frames has the name of a variable.  So a variable that the block *)
(* declares or captures is found in the frame of the block, and a variable *)
(* of the module in that of the module, with the storage it should have.   *)

(* The headings of a name are a forward declaration and a procedure of the *)
(* same block.                                                             *)
UniqueInv ==
    \A i, j \in HeadingsIn(prog) : i < j /\ prog[i].name = prog[j].name =>
        /\ prog[i].op = "forward" /\ prog[j].op = "procedure"
        /\ prog[i].block = prog[j].block

SymIn(n, b) == heap[SymsOf(prog, ft, b)[n]]

(* The inspector has put the symbols of the procedures before i. *)
ProcsBefore(i) ==
    \A j \in ProceduresIn(prog) : j < i => SymIn(prog[j].name, prog[j].block).kind = "proc"

(* The names that the statements before i use resolve. *)
ResolvedBefore(i) ==
    \A j \in 1 .. Len(prog), n \in Vars : j < i /\ Uses(j, n) => Homes(n, prog[j].block) # {}

(* What the inspector has come to. *)
Inspected == IF phase = "inspect" THEN pc ELSE Len(prog) + 1

ProcsInv == phase \in {"inspect", "generate"} => ProcsBefore(Inspected)
ResolvedInv == phase # "parse" /\ ~errors => ResolvedBefore(Inspected)

(* The symbols know their names and blocks. *)
Tagged ==
    \A b \in BlocksIn(prog) : \A n \in DOMAIN SymsOf(prog, ft, b) :
        SymIn(n, b).block = b /\ SymIn(n, b).name = n

(* What the frame of block b has for the variable n when the generator is  *)
(* at item i.                                                              *)
VarRight(n, b, i) ==
    LET decs == prog[b].decs IN
    /\ n \in DOMAIN SymsOf(prog, ft, b) <=>
         n \in DOMAIN decs \/ (b < i /\ b # 1 /\ n \in Captures(b))
    /\ n \in DOMAIN SymsOf(prog, ft, b) =>
         /\ SymIn(n, b).kind = IF n \in DOMAIN decs THEN decs[n] ELSE "var"
         /\ b < i => SymIn(n, b).value = StorageFor(n, b)

GenInv ==
    phase = "generate" =>
      Tagged /\ \A b \in BlocksIn(prog), n \in Vars : VarRight(n, b, pc)

NoCodeInv ==
    /\ phase \in {"parse", "inspect"} => code = NoCode
    /\ DOMAIN code = {"funcs", "bodies", "accesses", "calls"}

-----------------------------------------------------------------------------
(* The text.                                                               *)

LEMMA UniqueKept ==
  ASSUME TextInv, TextInv', UniqueInv, Distinct, [Next]_vars
  PROVE  UniqueInv'
<1>1. CASE prog' = prog
  BY <1>1 DEF UniqueInv, HeadingsIn
<1>2. ASSUME phase = "parse", NEW it, prog' = Append(prog, it),
             it.op \in {"procedure", "forward"} =>
               \/ \A i \in HeadingsIn(prog) : prog[i].name # it.name
               \/ /\ it.op = "procedure" 
                  /\ \A i \in ProceduresIn(prog) : prog[i].name # it.name
                  /\ \E i \in HeadingsIn(prog) : /\ prog[i].op = "forward"
                                                 /\ prog[i].name = it.name
                                                 /\ prog[i].block = it.block
      PROVE  UniqueInv'
  <2> SUFFICES ASSUME NEW i \in HeadingsIn(prog'), NEW j \in HeadingsIn(prog'), i < j,
                      prog'[i].name = prog'[j].name
               PROVE  /\ prog'[i].op = "forward" /\ prog'[j].op = "procedure"
                      /\ prog'[i].block = prog'[j].block
    BY DEF UniqueInv
  <2>1. /\ pc = Len(prog) /\ pc \in Nat /\ prog'[pc + 1] = it
        /\ Extends(prog, prog')
        /\ \A h \in HeadingsIn(prog') :
               h \in HeadingsIn(prog) \/ (h = pc + 1 /\ it.op \in {"procedure", "forward"})
    BY <1>2, ParsingText DEF IsText, IsSeq
  <2>2. \A h \in HeadingsIn(prog) : h \in 1 .. pc /\ prog'[h] = prog[h]
    BY <2>1, SameProcedures DEF HeadingsIn
  <2>3. CASE j \in HeadingsIn(prog)
    <3>1. i \in HeadingsIn(prog)
      BY <2>1, <2>2, <2>3
    <3> QED
      BY <2>2, <2>3, <3>1 DEF UniqueInv
  <2>4. CASE j = pc + 1 /\ it.op \in {"procedure", "forward"}
    <3>1. i \in HeadingsIn(prog) /\ prog[i].name = it.name /\ prog'[i] = prog[i]
      BY <2>1, <2>2, <2>4
    <3>2. PICK h \in HeadingsIn(prog) : /\ prog[h].op = "forward" /\ prog[h].name = it.name
                                        /\ prog[h].block = it.block
      BY <1>2, <2>4, <3>1
    <3>3. it.op = "procedure" /\ i \notin ProceduresIn(prog)
      BY <1>2, <2>4, <3>1
    <3>4. prog[i].op = "forward"
      BY <3>1, <3>3 DEF HeadingsIn, ProceduresIn
    <3>5. i = h
      <4>1. i \in Nat /\ h \in Nat
        BY <2>1, <2>2, <3>1
      <4>2. ~(i < h) /\ ~(h < i)
        BY <3>1, <3>2, <3>4 DEF UniqueInv
      <4> QED
        BY <4>1, <4>2
    <3> QED
      BY <2>1, <2>4, <3>1, <3>2, <3>3, <3>4, <3>5
  <2> QED
    BY <2>1, <2>3, <2>4
<1>3. CASE Parser
  <2>0. phase = "parse"
    BY <1>3 DEF Parser, ParseProcedure, ParseForward, ParseBegin, ParseUse, ParseCall, ParseReturn,
                ParseStatement, ParseEndProcedure, ParseEndModule, Parsing
  <2>1. DOMAIN prog = 1 .. Len(prog)
    BY <2>0 DEF TextInv, Writing, IsText, IsSeq
  <2>2. ASSUME NEW n, Fresh(n)
        PROVE  \A i \in HeadingsIn(prog) : prog[i].name # n
    <3>1. Named("procedure", n) \cup Named("forward", n) = {}
      <4>1. PICK k \in DOMAIN ProcNames : /\ ProcNames[k] = n
               /\ \A j \in DOMAIN ProcNames :
                    j < k <=> Named("procedure", ProcNames[j]) \cup Named("forward", ProcNames[j]) # {}
        BY <2>2 DEF Fresh
      <4>2. k \in Nat
        BY ConstantsAssumption
      <4>3. ~(k < k)
        BY <4>2
      <4> QED
        BY <4>1, <4>3
    <3> QED
      BY <2>1, <3>1 DEF Named, HeadingsIn
  <2>3. ASSUME NEW n \in Range(ProcNames), NEW decs \in DecsOf(Kinds), NEW r \in Results,
               ParseProcedure(n, decs, r)
        PROVE  UniqueInv'
    <3> DEFINE it == Heading("procedure", n, Here, decs, r)
    <3>1. prog' = Append(prog, it) /\ Declarable(n)
      BY <2>3 DEF ParseProcedure, Parsed
    <3>2. it.op = "procedure" /\ it.name = n /\ it.block = Here
      BY DEF Heading
    <3> HIDE DEF it
    <3>3. CASE Fresh(n)
      BY <1>2, <2>0, <2>2, <3>1, <3>2, <3>3
    <3>4. CASE Named("procedure", n) = {} /\ Announced(n)
      <4>1. \A i \in ProceduresIn(prog) : prog[i].name # n
        BY <2>1, <3>4 DEF Named, ProceduresIn
      <4>2. \E i \in HeadingsIn(prog) : /\ prog[i].op = "forward" /\ prog[i].name = n
                                        /\ prog[i].block = Here
        BY <2>1, <3>4 DEF Named, Announced, HeadingsIn
      <4> QED
        BY <1>2, <2>0, <3>1, <3>2, <4>1, <4>2
    <3> QED
      BY <3>1, <3>3, <3>4 DEF Declarable
  <2>4. ASSUME NEW n \in Range(ProcNames), NEW decs, NEW result, ParseForward(n, decs, result)
        PROVE  UniqueInv'
    <3> DEFINE it == Heading("forward", n, Here, decs, result)
    <3>1. prog' = Append(prog, it) /\ Fresh(n)
      BY <2>4 DEF ParseForward, Parsed
    <3>2. it.op = "forward" /\ it.name = n /\ it.block = Here
      BY DEF Heading
    <3> HIDE DEF it
    <3> QED
      BY <1>2, <2>0, <2>2, <3>1, <3>2
  <2>5. ASSUME NEW it, prog' = Append(prog, it), it.op \notin {"procedure", "forward"}
        PROVE  UniqueInv'
    BY <1>2, <2>0, <2>5
  <2>6. CASE ParseBegin \/ ParseEndProcedure \/ ParseEndModule
    BY <2>5, <2>6 DEF ParseBegin, ParseEndProcedure, ParseEndModule, Parsed, Item, Heading
  <2>7. ASSUME NEW n \in Vars, ParseUse(n)
        PROVE  UniqueInv'
    BY <2>5, <2>7 DEF ParseUse, Parsed, Item, Heading
  <2>8. ASSUME NEW n \in Range(ProcNames), NEW arg \in Arguments, ParseCall(n, arg)
        PROVE  UniqueInv'
    BY <2>5, <2>8 DEF ParseCall, Parsed, Item, Heading
  <2>9. ASSUME NEW r \in BOOLEAN, ParseReturn(r)
        PROVE  UniqueInv'
    BY <2>5, <2>9 DEF ParseReturn, Parsed, Item, Heading
  <2> QED
    BY <1>3, <2>3, <2>4, <2>6, <2>7, <2>8, <2>9 DEF Parser
<1>4. CASE Inspector \/ Generator
  BY <1>1, <1>4, PassSteps DEF PassStep
<1>5. CASE UNCHANGED vars
  BY <1>1, <1>5 DEF vars
<1> QED
  BY <1>3, <1>4, <1>5 DEF Next

-----------------------------------------------------------------------------
(* The names in the frames that an operation leaves alone.                 *)

(* The frames of t hold the names in S that those of s hold. *)
SameNames(s, t, S) ==
    /\ t.map = s.map /\ DOMAIN t.tables = DOMAIN s.tables
    /\ \A j \in DOMAIN s.tables, n \in S :
          /\ n \in DOMAIN t.tables[j].syms <=> n \in DOMAIN s.tables[j].syms
          /\ n \in DOMAIN s.tables[j].syms => t.tables[j].syms[n] = s.tables[j].syms[n]

LEMMA SameNamesTrans ==
  ASSUME NEW s, NEW t, NEW u, NEW S, SameNames(s, t, S), SameNames(t, u, S)
  PROVE  SameNames(s, u, S)
BY DEF SameNames

LEMMA SameNamesSame ==
  ASSUME NEW s, NEW t, NEW S, t.map = s.map, DOMAIN t.tables = DOMAIN s.tables,
         \A j \in DOMAIN s.tables : t.tables[j].syms = s.tables[j].syms
  PROVE  SameNames(s, t, S)
BY DEF SameNames

LEMMA SameNamesMark ==
  ASSUME NEW s, IsTable(s), NEW n, NEW S
  PROVE  SameNames(s, MarkFree(s, n), S) /\ IsTable(MarkFree(s, n))
<1> DEFINE t == MarkFree(s, n)
<1>1. SameFrames(s, t) /\ \A j \in DOMAIN s.tables : t.tables[j].syms = s.tables[j].syms
  BY MarkFreeFrames
<1> HIDE DEF t
<1>2. IsTable(t) /\ SameNames(s, t, S)
  BY <1>1, SameFramesTable, SameNamesSame DEF SameFrames
<1> QED
  BY <1>2 DEF t

LEMMA SameNamesReset ==
  ASSUME NEW s, IsTable(s), NEW S
  PROVE  SameNames(s, ResetFree(s), S)
<1> DEFINE t == ResetFree(s)
<1>1. SameFrames(s, t) /\ \A j \in DOMAIN s.tables : t.tables[j].syms = s.tables[j].syms
  BY ResetFreeFrames
<1> HIDE DEF t
<1>2. SameNames(s, t, S)
  BY <1>1, SameNamesSame DEF SameFrames
<1> QED
  BY <1>2 DEF t

LEMMA SameNamesPut ==
  ASSUME NEW s, IsTable(s), NEW n, NEW S, n \notin S, NEW h
  PROVE  SameNames(s, Put(s, n, h), S) /\ SameFrames(s, Put(s, n, h)) /\ IsTable(Put(s, n, h))
<1> DEFINE t == Put(s, n, h)
           syms == Bind(s.tables[s.current].syms, n, h)
<1>1. PutInto(s, t, syms)
  BY PutIs
<1>2. \A x \in S : /\ x \in DOMAIN syms <=> x \in DOMAIN s.tables[s.current].syms
                   /\ x \in DOMAIN syms => syms[x] = s.tables[s.current].syms[x]
  BY DEF Bind
<1> HIDE DEF t, syms
<1>3. SameNames(s, t, S)
  BY <1>1, <1>2 DEF PutInto, SameFrames, SameNames
<1>4. IsTable(t)
  BY <1>1, SameFramesTable DEF PutInto
<1> QED
  BY <1>1, <1>3, <1>4 DEF t, PutInto

LEMMA SameNamesPutAll ==
  ASSUME NEW s, IsTable(s), NEW ns, IsSeq(ns), NEW h \in Nat, NEW S, Values(ns) \cap S = {}
  PROVE  SameNames(s, PutAll(s, ns, h), S)
<1> DEFINE t == PutAll(s, ns, h)
           old == s.tables[s.current].syms
<1>1. PICK syms : PutInto(s, t, syms) /\ Added(old, syms, ns, h)
  BY PutAllIs
<1> HIDE DEF t
<1>2. \A x \in S : /\ x \in DOMAIN syms <=> x \in DOMAIN s.tables[s.current].syms
                   /\ x \in DOMAIN syms => syms[x] = s.tables[s.current].syms[x]
  BY <1>1 DEF Added
<1>3. SameNames(s, t, S)
  BY <1>1, <1>2 DEF PutInto, SameFrames, SameNames
<1> QED
  BY <1>3 DEF t

LEMMA SameNamesPush ==
  ASSUME NEW s, IsTable(s), NEW n \in DOMAIN s.map, NEW S
  PROVE  SameNames(s, PushFrame(s, n), S) /\ IsTable(PushFrame(s, n))
BY DEF PushFrame, SameNames, IsTable

LEMMA SameNamesPop ==
  ASSUME NEW s, NEW S
  PROVE  SameNames(s, PopFrame(s), S)
BY DEF PopFrame, SameNames

(* The inspector leaves the names of procedures but that of the heading    *)
(* that it is at, whose symbol it puts last.                               *)
LEMMA InspectProcedureNames ==
  ASSUME TextInv, TextInv', FrameInv, InspectProcedure
  PROVE  /\ \A S \in SUBSET Range(ProcNames) : Name \notin S => SameNames(ft, ft', S)
         /\ Name \in DOMAIN SymsOf(prog, ft', prog[pc].block)
         /\ SymsOf(prog, ft', prog[pc].block)[Name] = Len(heap) + 1
<1> DEFINE ns == SetToSeq(DOMAIN prog[pc].decs)
           m  == Len(heap) + 1
           w  == MarkFree(ft, Name)
           u  == Put(w, Name, m)
           v  == PushFrame(u, Name)
           P  == Range(ProcNames)
<1>1. /\ phase = "inspect" /\ prog' = prog /\ prog[pc].op = "procedure"
      /\ ft' = PutAll(v, ns, m)
  BY DEF InspectProcedure, Inspecting, At
<1>2. /\ IsText(prog) /\ IsOpen(prog, open) /\ pc \in 1 .. Len(prog)
      /\ Top(open) = IF pc = 1 THEN 1 ELSE prog[pc].block
  BY <1>1, WalkingText
<1>3. pc # 1 /\ pc \in ProceduresIn(prog) /\ Name \in P /\ Top(open) = prog[pc].block
  <2>1. pc # 1
    BY <1>1, <1>2 DEF IsText
  <2>2. Name \in Range(ProcNames)
    BY <1>1, <1>2 DEF IsText, ItemOK, Name
  <2> QED
    BY <1>1, <1>2, <2>1, <2>2 DEF ProceduresIn
<1>4. /\ IsTable(ft) /\ Len(heap) \in Nat /\ Framed(prog, open, ft)
      /\ ft.current = TableOf(prog, ft, Top(open)) /\ ft.current \in DOMAIN ft.tables
  BY <1>2, ScopedFacts DEF FrameInv, Scoped, IsTable
<1>5. Name \in DOMAIN ft.map
  BY <1>3, <1>4 DEF Framed, Name
<1>6. IsSeq(ns) /\ Values(ns) = DOMAIN prog[pc].decs
  BY <1>2, NamesHere, InOrder
<1>7. Values(ns) \cap P = {}
  BY <1>2, <1>6, ConstantsAssumption DEF IsText, ItemOK
<1> HIDE DEF ns, P
<1>8. m \in Nat
  BY <1>4
<1> HIDE DEF m
<1>9. /\ SameFrames(ft, w) /\ IsTable(w) /\ \A S : SameNames(ft, w, S)
  BY <1>4, MarkFreeFrames, SameNamesMark
<1> HIDE DEF w
<1>10. /\ \A S : Name \notin S => SameNames(w, u, S)
       /\ SameFrames(w, u) /\ IsTable(u)
  <2>1. PutInto(w, Put(w, Name, m), Bind(w.tables[w.current].syms, Name, m))
    BY <1>9, PutIs
  <2>2. \A S : Name \notin S => SameNames(w, Put(w, Name, m), S)
    BY <1>9, SameNamesPut
  <2>3. IsTable(Put(w, Name, m))
    BY <1>9, <2>1, SameFramesTable DEF PutInto
  <2> QED
    BY <2>1, <2>2, <2>3 DEF PutInto
<1>11. Name \in DOMAIN u.tables[ft.current].syms /\ u.tables[ft.current].syms[Name] = m
  <2>1. PutInto(w, u, Bind(w.tables[w.current].syms, Name, m))
    BY <1>9, PutIs
  <2>2. w.current = ft.current /\ ft.current \in DOMAIN w.tables
    BY <1>4, <1>9 DEF SameFrames
  <2> HIDE DEF u
  <2>3. u.tables[ft.current].syms = Bind(w.tables[w.current].syms, Name, m)
    BY <2>1, <2>2 DEF PutInto
  <2> QED
    BY <2>3 DEF Bind
<1> HIDE DEF u
<1>12. Name \in DOMAIN u.map /\ u.map = ft.map /\ DOMAIN u.tables = DOMAIN ft.tables
  BY <1>5, <1>9, <1>10 DEF SameFrames
<1>13. IsTable(v) /\ \A S : SameNames(u, v, S)
  BY <1>10, <1>12, SameNamesPush
<1> HIDE DEF v
<1>14. \A S \in SUBSET P : SameNames(v, ft', S)
  <2> SUFFICES ASSUME NEW S \in SUBSET P
               PROVE  SameNames(v, ft', S)
    OBVIOUS
  <2>1. Values(ns) \cap S = {}
    BY <1>7
  <2> QED
    BY <1>1, <1>6, <1>8, <1>13, <2>1, SameNamesPutAll
<1>15. \A S \in SUBSET P : SameNames(u, ft', S)
  BY <1>13, <1>14, SameNamesTrans
<1>16. ASSUME NEW S \in SUBSET P, Name \notin S
       PROVE  SameNames(ft, ft', S)
  BY <1>9, <1>10, <1>15, <1>16, SameNamesTrans
<1>17. SameNames(u, ft', {Name})
  <2>1. {Name} \in SUBSET P
    BY <1>3 DEF P
  <2> QED
    BY <1>15, <2>1
<1>18. /\ ft'.map = ft.map
       /\ Name \in DOMAIN ft'.tables[ft.current].syms /\ ft'.tables[ft.current].syms[Name] = m
  BY <1>4, <1>11, <1>12, <1>17 DEF SameNames
<1>19. SymsOf(prog, ft', prog[pc].block) = ft'.tables[ft.current].syms
  BY <1>3, <1>4, <1>18 DEF SymsOf, TableOf
<1> QED
  BY <1>16, <1>18, <1>19 DEF m, P

LEMMA InspectorNames ==
  ASSUME TextInv, TextInv', FrameInv, Inspector, NEW S \in SUBSET Range(ProcNames),
         prog[pc].op \in {"procedure", "forward"} => Name \notin S
  PROVE  SameNames(ft, ft', S)
<1>0. phase = "inspect" /\ prog' = prog
  BY DEF Inspector, Inspecting, InspectModule, InspectProcedure,
     InspectForward, InspectBegin, InspectUse, InspectCall, InspectReturn, InspectEndProcedure,
     InspectEndModule
<1>1. IsTable(ft) /\ Len(heap) \in Nat
  BY DEF FrameInv, Scoped, Framed, Symbols, IsSeq
<1>2. IsText(prog) /\ pc \in 1 .. Len(prog)
  BY <1>0, WalkingText
<1>3. ASSUME \/ ft' = ft \/ ft' = ResetFree(ft) \/ ft' = PopFrame(ft)
             \/ \E n : ft' = MarkFree(ft, n)
             \/ \E n, m : ft' = MarkFree(MarkFree(ft, n), m)
      PROVE  SameNames(ft, ft', S)
  <2>1. ASSUME NEW n, NEW m
        PROVE  SameNames(ft, MarkFree(MarkFree(ft, n), m), S)
    <3> DEFINE w == MarkFree(ft, n)
    <3>1. SameNames(ft, w, S) /\ IsTable(w)
      BY <1>1, SameNamesMark
    <3> HIDE DEF w
    <3>2. SameNames(w, MarkFree(w, m), S)
      BY <3>1, SameNamesMark
    <3>3. SameNames(ft, MarkFree(w, m), S)
      BY <3>1, <3>2, SameNamesTrans
    <3> QED
      BY <3>3 DEF w
  <2> QED
    BY <1>1, <1>3, <2>1, SameNamesSame, SameNamesMark, SameNamesReset, SameNamesPop
<1>4. CASE InspectModule
  <2> DEFINE ns == SetToSeq(DOMAIN prog[pc].decs)
  <2>1. ft' = PutAll(ft, ns, Len(heap))
    BY <1>4 DEF InspectModule
  <2>2. IsSeq(ns) /\ Values(ns) = DOMAIN prog[pc].decs
    BY <1>2, NamesHere, InOrder
  <2>3. Values(ns) \cap S = {}
    BY <1>2, <2>2, ConstantsAssumption DEF IsText, ItemOK
  <2> HIDE DEF ns
  <2> QED
    BY <1>1, <2>1, <2>2, <2>3, SameNamesPutAll
<1>5. CASE InspectProcedure
  <2>1. Name \notin S
    BY <1>5 DEF InspectProcedure, Inspecting, At
  <2> QED
    BY <1>5, <2>1, InspectProcedureNames
<1>6. CASE InspectForward
  <2> DEFINE w == MarkFree(ft, Name)
  <2>1. prog[pc].op = "forward" /\ ft' = Put(w, Name, Len(heap) + 1)
    BY <1>6 DEF InspectForward, Inspecting, At
  <2>2. SameNames(ft, w, S) /\ IsTable(w)
    BY <1>1, SameNamesMark
  <2> HIDE DEF w
  <2>3. SameNames(w, ft', S)
    BY <2>1, <2>2, SameNamesPut
  <2> QED
    BY <2>2, <2>3, SameNamesTrans
<1>7. CASE InspectEndProcedure
  <2> DEFINE u == Put(ft, ClosureArg, Len(heap) + 1)
  <2>1. ft' = PopFrame(ft) \/ ft' = PopFrame(u)
    BY <1>7 DEF InspectEndProcedure
  <2>2. ClosureArg \notin S
    BY NamesAssumption
  <2>3. SameNames(ft, u, S)
    BY <1>1, <2>2, SameNamesPut
  <2> HIDE DEF u
  <2>4. SameNames(u, PopFrame(u), S)
    BY SameNamesPop
  <2> QED
    BY <1>3, <2>1, <2>3, <2>4, SameNamesTrans
<1>8. CASE InspectBegin \/ InspectUse \/ InspectCall \/ InspectReturn \/ InspectEndModule
  BY <1>3, <1>8 DEF InspectBegin, InspectUse, InspectCall, InspectReturn, InspectEndModule
<1> QED
  BY <1>4, <1>5, <1>6, <1>7, <1>8 DEF Inspector

-----------------------------------------------------------------------------
(* Blocks and the text, once more.                                         *)

LEMMA AroundBelow ==
  ASSUME IsText(prog), NEW b \in 1 .. Len(prog)
  PROVE  b \in Around(b) /\ Around(b) \subseteq 1 .. b
<1> DEFINE M == {m \in Nat : \A i \in 1 .. Len(prog) : i <= m => Around(i) \subseteq 1 .. i}
<1>1. 0 \in M
  OBVIOUS
<1>2. ASSUME NEW m \in M \cap Nat
      PROVE  m + 1 \in M
  <2> SUFFICES ASSUME NEW i \in 1 .. Len(prog), i <= m + 1
               PROVE  Around(i) \subseteq 1 .. i
    OBVIOUS
  <2>1. Around(i) = {i} \cup Around(prog[i].block)
    BY AroundUnfolds
  <2>2. CASE i = 1
    <3>1. Around(prog[i].block) = {}
      BY <2>2, AroundUnfolds DEF IsText
    <3> QED
      BY <2>1, <2>2, <3>1
  <2>3. CASE i # 1
    <3>1. i \in 2 .. Len(prog)
      BY <2>3
    <3>2. prog[i].block \in 1 .. i - 1
      BY <3>1 DEF IsText
    <3>3. Around(prog[i].block) \subseteq 1 .. prog[i].block
      BY <3>2
    <3> QED
      BY <2>1, <3>2, <3>3
  <2> QED
    BY <2>2, <2>3
<1> HIDE DEF M
<1>3. Nat \subseteq M
  BY <1>1, <1>2, SetInduction
<1>4. b \in M
  BY <1>3
<1> QED
  BY <1>4, AroundUnfolds DEF M

(* The home of a name is the innermost of the blocks that declare it. *)
LEMMA HomeIs ==
  ASSUME IsText(prog), NEW b \in 1 .. Len(prog), NEW n
  PROVE  /\ Homes(n, b) # {} =>
              /\ Home(n, b) \in Homes(n, b) /\ Home(n, b) \in 1 .. b
              /\ \A a \in Homes(n, b) : a <= Home(n, b)
         /\ n \in DOMAIN prog[b].decs \/ HeadingsOf(n, b) # {} =>
              Homes(n, b) # {} /\ Home(n, b) = b
<1>1. Homes(n, b) \subseteq 0 .. b /\ b \in Nat /\ Homes(n, b) \subseteq 1 .. b
  BY AroundBelow DEF Homes
<1>2. ASSUME Homes(n, b) # {}
      PROVE  /\ Home(n, b) \in Homes(n, b) /\ Home(n, b) \in 1 .. b
             /\ \A a \in Homes(n, b) : a <= Home(n, b)
  <2>1. \E m \in Homes(n, b) : \A k \in Homes(n, b) : k <= m
    BY <1>1, <1>2, Greatest
  <2>2. \E m \in Homes(n, b) : \A k \in Homes(n, b) : m >= k
    BY <1>1, <2>1
  <2>3. Home(n, b) \in Homes(n, b) /\ \A k \in Homes(n, b) : Home(n, b) >= k
    BY <2>2 DEF Home, Max
  <2> QED
    BY <1>1, <2>3
<1>3. ASSUME n \in DOMAIN prog[b].decs \/ HeadingsOf(n, b) # {}
      PROVE  Homes(n, b) # {} /\ Home(n, b) = b
  <2>1. b \in Homes(n, b)
    BY <1>3, AroundBelow DEF Homes
  <2> QED
    BY <1>1, <1>2, <2>1
<1> QED
  BY <1>2, <1>3

(* What is around an open block is around the innermost one. *)
LEMMA AroundOuter ==
  ASSUME NEW o, IsText(prog), IsOpen(prog, o), NEW k \in 1 .. Len(o)
  PROVE  Around(o[k].item) \subseteq Around(Top(o))
<1> DEFINE L == Len(o)
           M == {m \in Nat : k + m <= L => Around(o[k].item) \subseteq Around(o[k + m].item)}
<1>1. L \in Nat /\ k \in Nat /\ k >= 1
  BY DEF IsOpen, IsSeq
<1>2. 0 \in M
  BY <1>1
<1>3. ASSUME NEW m \in M \cap Nat
      PROVE  m + 1 \in M
  <2> SUFFICES ASSUME k + (m + 1) <= L
               PROVE  Around(o[k].item) \subseteq Around(o[k + (m + 1)].item)
    OBVIOUS
  <2> DEFINE j == k + (m + 1)
  <2>1. j \in 2 .. L /\ j \in 1 .. L /\ j - 1 = k + m /\ k + m <= L
    BY <1>1
  <2>2. prog[o[j].item].block = o[j - 1].item /\ o[j].item \in 1 .. Len(prog)
    BY <2>1 DEF IsOpen
  <2>3. Around(o[k].item) \subseteq Around(o[k + m].item)
    BY <2>1
  <2> HIDE DEF j
  <2>4. Around(o[j].item) = {o[j].item} \cup Around(o[k + m].item)
    BY <2>1, <2>2, AroundUnfolds
  <2>5. Around(o[k].item) \subseteq Around(o[j].item)
    BY <2>3, <2>4
  <2> QED
    BY <2>5 DEF j
<1> HIDE DEF M
<1>4. Nat \subseteq M
  BY <1>2, <1>3, SetInduction
<1>5. L - k \in M /\ k + (L - k) = L
  BY <1>1, <1>4
<1> QED
  BY <1>5 DEF M, Top

(* No heading has the name of a variable. *)
LEMMA VarsNotHeaded ==
  ASSUME IsText(prog), NEW n \in Vars, NEW b
  PROVE  HeadingsOf(n, b) = {}
<1>1. \A i \in DOMAIN prog : prog[i].op \in {"procedure", "forward"} => prog[i].name # n
  BY NotVars DEF IsText, IsSeq, ItemOK
<1> QED
  BY <1>1 DEF HeadingsOf

(* Where a pass is. *)
LEMMA PassAt ==
  ASSUME TextInv, phase # "parse"
  PROVE  /\ IsText(prog) /\ IsOpen(prog, open) /\ pc \in 1 .. Len(prog) /\ Len(prog) \in Nat
         /\ Top(open) = Here /\ Here \in 1 .. Len(prog) /\ IsBlock(prog, Here)
         /\ pc = 1 => Here = 1
         /\ pc # 1 => Here = prog[pc].block /\ Here \in 1 .. pc - 1
         /\ Here = 1 <=> Len(open) = 1
         /\ Here \in BlocksIn(prog)
<1>1. /\ IsText(prog) /\ IsOpen(prog, open) /\ pc \in 1 .. Len(prog)
      /\ Top(open) = IF pc = 1 THEN 1 ELSE prog[pc].block
  BY DEF TextInv, Walking
<1>2. Top(open) = Here
  BY DEF Top, Here, Inner
<1>3. Len(prog) \in Nat
  BY <1>1 DEF IsText, IsSeq
<1>4. pc # 1 => prog[pc].block \in 1 .. pc - 1
  BY <1>1 DEF IsText
<1>5. /\ Here \in 1 .. Len(prog) /\ IsBlock(prog, Here)
      /\ Here = 1 <=> Len(open) = 1
  BY <1>1, <1>2, TopIsBlock
<1>6. Here \in BlocksIn(prog)
  BY <1>1, <1>5 DEF BlocksIn, ProceduresIn, IsBlock, IsText
<1> QED
  BY <1>1, <1>2, <1>3, <1>4, <1>5, <1>6

(* The inspection ends at the last item. *)
LEMMA InspectionEnds ==
  ASSUME TextInv, InspectEndModule
  PROVE  /\ pc = Len(prog) /\ Len(prog) \in Nat /\ phase = "inspect" /\ prog' = prog /\ pc' = 1
         /\ phase' = IF errors THEN "failed" ELSE "generate"
         /\ ft' = ft /\ heap' = heap /\ errors' = errors /\ code' = code /\ open' = OnlyModule
         /\ prog[pc].op = "end" /\ pc # 1
<1>1. /\ phase = "inspect" /\ prog[pc].op = "end" /\ Len(open) = 1 /\ prog' = prog /\ pc' = 1
      /\ phase' = (IF errors THEN "failed" ELSE "generate")
      /\ ft' = ft /\ heap' = heap /\ errors' = errors /\ code' = code /\ open' = OnlyModule
  BY DEF InspectEndModule, Inspecting, At, InModule
<1>2. IsText(prog) /\ pc \in 1 .. Len(prog) /\ Len(prog) \in Nat /\ pc # 1
  <2>1. IsText(prog) /\ pc \in 1 .. Len(prog) /\ Len(prog) \in Nat
    BY <1>1, PassAt
  <2> QED
    BY <1>1, <2>1 DEF IsText
<1>3. prog[pc].block = 1
  BY <1>1, <1>2, PassAt
<1>4. Ends(prog, pc)
  BY <1>1, <1>3 DEF Ends
<1>5. \A i \in 1 .. Len(prog) - 1 : ~Ends(prog, i)
  BY <1>2 DEF IsText
<1>6. pc = Len(prog)
  BY <1>2, <1>4, <1>5
<1> QED
  BY <1>1, <1>2, <1>6

-----------------------------------------------------------------------------
(* What the inspector leaves behind it.                                    *)

LEMMA InspectorAt ==
  ASSUME TextInv, Inspector
  PROVE  /\ phase = "inspect" /\ prog' = prog /\ code' = code
         /\ phase' \in {"inspect", "generate", "failed"}
         /\ Inspected = pc /\ Inspected' = pc + 1
<1>1. /\ phase = "inspect" /\ prog' = prog /\ code' = code
  BY DEF Inspector, Inspecting, InspectModule, InspectProcedure,
     InspectForward, InspectBegin, InspectUse, InspectCall, InspectReturn, InspectEndProcedure,
     InspectEndModule
<1>2. CASE InspectEndModule
  <2>1. pc = Len(prog) /\ prog' = prog /\ phase' = IF errors THEN "failed" ELSE "generate"
    BY <1>2, InspectionEnds
  <2> QED
    BY <1>1, <2>1 DEF Inspected
<1>3. CASE ~InspectEndModule
  <2>1. phase' = phase /\ pc' = pc + 1
    BY <1>3 DEF Inspector, InspectModule, InspectProcedure, InspectForward, InspectBegin,
       InspectUse, InspectCall, InspectReturn, InspectEndProcedure, Onward
  <2> QED
    BY <1>1, <2>1 DEF Inspected
<1> QED
  BY <1>2, <1>3

(* The cell of a name in a block. *)
LEMMA CellIn ==
  ASSUME TextInv, FrameInv, NEW b \in BlocksIn(prog)
  PROVE  /\ TableOf(prog, ft, b) \in DOMAIN ft.tables /\ TableOf(prog, ft, b) \in 1 .. Len(ft.tables)
         /\ \A n \in DOMAIN SymsOf(prog, ft, b) : SymsOf(prog, ft, b)[n] \in 1 .. Len(heap)
<1>1. IsText(prog) /\ Framed(prog, open, ft) /\ Held(ft, Len(heap))
  BY DEF TextInv, Writing, Walking, FrameInv, Scoped
<1>2. TableOf(prog, ft, b) \in 1 .. Len(ft.tables)
  BY <1>1, FramesOf
<1> QED
  BY <1>1, <1>2 DEF Framed, IsTable, Held, SymsOf

LEMMA ProcedureNamed ==
  ASSUME TextInv, FrameInv, phase # "parse", NEW j \in HeadingsIn(prog)
  PROVE  /\ prog[j].block \in BlocksIn(prog) /\ prog[j].block \in 1 .. j - 1
         /\ j \in 1 .. Len(prog) /\ prog[j].name \in Range(ProcNames)
         /\ prog[j].name \in DOMAIN SymsOf(prog, ft, prog[j].block)
<1>1. IsText(prog) /\ j \in 1 .. Len(prog) /\ j # 1
  BY PassAt DEF HeadingsIn, IsText
<1>2. prog[j].name \in DOMAIN SymsOf(prog, ft, prog[j].block)
  BY DEF FrameInv, Scoped, HeadingsPut
<1>3. prog[j].name \in Range(ProcNames)
  BY <1>1 DEF HeadingsIn, IsText, ItemOK
<1> QED
  BY <1>1, <1>2, <1>3, BlockIn

LEMMA InspectorProcs ==
  ASSUME TextInv, TextInv', FrameInv, BodyInv, UniqueInv, ProcsInv, Inspector
  PROVE  ProcsInv'
<1>1. /\ phase = "inspect" /\ prog' = prog /\ Inspected = pc /\ Inspected' = pc + 1
      /\ phase' # "parse"
  BY InspectorAt
<1>2. IsText(prog) /\ pc \in 1 .. Len(prog)
  BY <1>1, PassAt
<1>3. ASSUME NEW j \in ProceduresIn(prog), j < pc + 1
      PROVE  heap'[SymsOf(prog, ft', prog[j].block)[prog[j].name]].kind = "proc"
  <2>0. j \in HeadingsIn(prog) /\ j \in 1 .. Len(prog) /\ prog[j].op = "procedure"
    BY DEF ProceduresIn, HeadingsIn
  <2>1. CASE j = pc
    <3>1. InspectProcedure
      BY <2>0, <2>1 DEF Inspector, InspectModule, InspectProcedure, InspectForward, InspectBegin,
         InspectUse, InspectCall, InspectReturn, InspectEndProcedure, InspectEndModule, Inspecting,
         At
    <3>2. SymsOf(prog, ft', prog[pc].block)[Name] = Len(heap) + 1
      BY <3>1, InspectProcedureNames
    <3>3. heap'[Len(heap) + 1].kind = "proc"
      BY <3>1, InspectProcedureCaptures
    <3> QED
      BY <2>1, <3>2, <3>3 DEF Name
  <2>2. CASE j # pc
    <3> DEFINE b == prog[j].block
               n == prog[j].name
               t == TableOf(prog, ft, b)
               h == SymsOf(prog, ft, b)[n]
    <3>1. j < pc /\ heap[h].kind = "proc"
      BY <1>1, <1>2, <1>3, <2>0, <2>2 DEF ProcsInv, ProcsBefore, SymIn
    <3>2. b \in BlocksIn(prog) /\ n \in Range(ProcNames) /\ n \in DOMAIN SymsOf(prog, ft, b)
      BY <1>1, <2>0, ProcedureNamed
    <3>3. t \in DOMAIN ft.tables /\ h \in 1 .. Len(heap)
      BY <3>2, CellIn
    <3>4. prog[pc].op \in {"procedure", "forward"} => Name # n
      <4> SUFFICES ASSUME prog[pc].op \in {"procedure", "forward"}, Name = n
                   PROVE  FALSE
        OBVIOUS
      <4>1. pc \in HeadingsIn(prog)
        BY <1>2 DEF HeadingsIn
      <4> QED
        BY <2>0, <3>1, <4>1 DEF UniqueInv, Name
    <3>5. SameNames(ft, ft', {n})
      <4>1. {n} \in SUBSET Range(ProcNames) /\ (prog[pc].op \in {"procedure", "forward"} => Name \notin {n})
        BY <3>2, <3>4
      <4> QED
        BY <4>1, InspectorNames
    <3>6. SymbolsStay(heap, heap')
      BY InspectorTypes DEF InspectedRight
    <3>7. SymsOf(prog, ft', b)[n] = h
      <4>1. SymsOf(prog, ft', b) = ft'.tables[t].syms /\ SymsOf(prog, ft, b) = ft.tables[t].syms
        BY <3>5 DEF SameNames, SymsOf, TableOf
      <4> HIDE DEF t
      <4> QED
        BY <3>2, <3>3, <3>5, <4>1 DEF SameNames
    <3> QED
      BY <3>1, <3>3, <3>6, <3>7 DEF SymbolsStay
  <2> QED
    BY <2>1, <2>2
<1> QED
  BY <1>1, <1>3 DEF ProcsInv, ProcsBefore, SymIn

LEMMA InspectorResolves ==
  ASSUME TextInv, TextInv', FrameInv, HoldInv, BodyInv, Distinct, ResolvedInv, Inspector
  PROVE  ResolvedInv'
<1>1. /\ phase = "inspect" /\ prog' = prog /\ Inspected = pc /\ Inspected' = pc + 1
  BY InspectorAt
<1>2. IsText(prog) /\ pc \in 1 .. Len(prog) /\ Bodies(prog)
  BY <1>1, PassAt DEF BodyInv
<1> SUFFICES ASSUME ~errors'
             PROVE  ResolvedInv'
  BY DEF ResolvedInv
<1>3. ~errors
  BY ErrorsStay DEF Next
<1>4. ASSUME NEW n \in Vars, Uses(pc, n)
      PROVE  Homes(n, prog[pc].block) # {}
  <2>0. n # NoName /\ n \in Idents
    BY NotVars DEF Idents
  <2>1. prog[pc].op \in {"use", "call"} /\ pc # 1
    BY <1>2, <1>4, <2>0 DEF Uses, Bodies, IsText
  <2>2. CASE prog[pc].op = "use"
    <3>1. InspectUse
      BY <2>2 DEF Inspector, InspectModule, InspectProcedure, InspectForward, InspectBegin,
         InspectUse, InspectCall, InspectReturn, InspectEndProcedure, InspectEndModule, Inspecting,
         At
    <3>2. Found(ft, Name)
      BY <3>1 DEF InspectUse
    <3>3. n = Name
      BY <1>2, <1>4, <2>0, <2>2 DEF Uses, Bodies, Name
    <3> QED
      BY <1>1, <2>0, <2>1, <3>2, <3>3, NameFound
  <2>3. CASE prog[pc].op = "call"
    <3>1. InspectCall
      BY <2>3 DEF Inspector, InspectModule, InspectProcedure, InspectForward, InspectBegin,
         InspectUse, InspectCall, InspectReturn, InspectEndProcedure, InspectEndModule, Inspecting,
         At
    <3>2. n = prog[pc].arg
      BY <1>4, <2>3 DEF Uses
    <3>3. ~BadCall /\ ~BadArgument
      BY <2>0, <3>1, <3>2 DEF InspectCall
    <3>4. Found(ft, n)
      BY <3>2, <3>3 DEF BadArgument
    <3> QED
      BY <1>1, <2>0, <2>1, <3>4, NameFound
  <2> QED
    BY <2>1, <2>2, <2>3
<1>5. ASSUME NEW j \in 1 .. Len(prog), NEW n \in Vars, j < pc + 1, Uses(j, n)
      PROVE  Homes(n, prog[j].block) # {}
  <2>1. CASE j = pc
    BY <1>4, <1>5, <2>1
  <2>2. CASE j # pc
    <3>1. j < pc
      BY <1>2, <1>5, <2>2
    <3> QED
      BY <1>1, <1>3, <1>5, <3>1 DEF ResolvedInv, ResolvedBefore
  <2> QED
    BY <2>1, <2>2
<1>6. \A n, b : Homes(n, b)' = Homes(n, b)
  BY <1>1, ScopesStay
<1> QED
  BY <1>1, <1>5, <1>6 DEF ResolvedInv, ResolvedBefore, Uses

-----------------------------------------------------------------------------
(* The names of functions.                                                 *)

IsNaming(F, m) ==
    F = [i \in 0 .. m |->
           IF i <= 1 THEN Main ELSE Append(F[prog[i].block], prog[i].name)]

LEMMA NamingExists ==
  ASSUME IsText(prog)
  PROVE  \E F : IsNaming(F, Len(prog))
<1> DEFINE N == Len(prog)
           M == {m \in Nat : m <= N => \E F : IsNaming(F, m)}
<1>0. N \in Nat /\ \A i \in 2 .. N : prog[i].block \in 1 .. i - 1
  BY DEF IsText, IsSeq
<1>1. 0 \in M
  <2> DEFINE F == [i \in 0 .. 0 |-> Main]
  <2>1. IsNaming(F, 0)
    BY DEF IsNaming
  <2> QED
    BY <2>1
<1>2. ASSUME NEW m \in M \cap Nat
      PROVE  m + 1 \in M
  <2> SUFFICES ASSUME m + 1 <= N
               PROVE  \E F : IsNaming(F, m + 1)
    OBVIOUS
  <2>1. PICK F : IsNaming(F, m)
    BY <1>0
  <2> DEFINE Last1(i) == IF i <= 1 THEN Main ELSE Append(F[prog[i].block], prog[i].name)
             D == [i \in 0 .. m + 1 |-> IF i = m + 1 THEN Last1(i) ELSE F[i]]
             E == [i \in 0 .. m + 1 |->
                     IF i <= 1 THEN Main ELSE Append(D[prog[i].block], prog[i].name)]
  <2>2. ASSUME NEW i \in 0 .. m + 1
        PROVE  D[i] = E[i]
    <3>1. ~(i <= 1) => prog[i].block \in 0 .. m /\ D[prog[i].block] = F[prog[i].block]
      <4>1. ~(i <= 1) => i \in 2 .. N
        BY <1>0
      <4>2. ~(i <= 1) => prog[i].block \in 1 .. i - 1
        BY <1>0, <4>1
      <4>3. ~(i <= 1) => prog[i].block \in 0 .. m
        BY <4>2
      <4> QED
        BY <4>3
    <3>2. i \in 0 .. m => F[i] = Last1(i)
      BY <2>1 DEF IsNaming
    <3> QED
      BY <3>1, <3>2
  <2> HIDE DEF Last1
  <2>3. D = E
    BY <2>2
  <2>4. IsNaming(D, m + 1)
    BY <2>3 DEF IsNaming
  <2> QED
    BY <2>4
<1> HIDE DEF M
<1>3. N \in M
  BY <1>0, <1>1, <1>2, SetInduction
<1> QED
  BY <1>3 DEF M

LEMMA FnUnfolds ==
  ASSUME IsText(prog)
  PROVE  /\ FnOf(1) = Main
         /\ \A i \in 2 .. Len(prog) : FnOf(i) = Append(FnOf(prog[i].block), prog[i].name)
<1> DEFINE F == CHOOSE F : F = [i \in 0 .. Len(prog) |->
                  IF i <= 1 THEN Main ELSE Append(F[prog[i].block], prog[i].name)]
<1>1. \E G : G = [i \in 0 .. Len(prog) |->
                  IF i <= 1 THEN Main ELSE Append(G[prog[i].block], prog[i].name)]
  BY NamingExists DEF IsNaming
<1>2. F = [i \in 0 .. Len(prog) |->
             IF i <= 1 THEN Main ELSE Append(F[prog[i].block], prog[i].name)]
  BY <1>1, Zenon
<1>3. \A b : FnOf(b) = F[b]
  BY DEF FnOf
<1> HIDE DEF F
<1>4. Len(prog) \in Nat /\ Len(prog) >= 1
  BY DEF IsText, IsSeq
<1>5. /\ 1 \in 0 .. Len(prog) /\ 1 <= 1
      /\ \A i \in 2 .. Len(prog) : i \in 0 .. Len(prog) /\ ~(i <= 1)
  BY <1>4
<1>6. F[1] = Main /\ \A i \in 2 .. Len(prog) : F[i] = Append(F[prog[i].block], prog[i].name)
  BY <1>2, <1>5, Zenon
<1> QED
  BY <1>3, <1>6, Zenon

(* The function of an open block has the names of the blocks it is in. *)
LEMMA FnOpen ==
  ASSUME NEW o, IsText(prog), IsOpen(prog, o)
  PROVE  FnOf(Top(o)) = [k \in 1 .. Len(o) - 1 |-> prog[o[k + 1].item].name]
<1> DEFINE L == Len(o)
           name(m) == [k \in 1 .. m |-> prog[o[k + 1].item].name]
           M == {m \in Nat : m + 1 <= L => FnOf(o[m + 1].item) = name(m)}
<1>1. L \in Nat /\ L >= 1
  BY DEF IsOpen, IsSeq
<1>2. 0 \in M
  <2>1. o[1].item = 1
    BY DEF IsOpen
  <2>2. name(0) = Main
    BY DEF Main
  <2> QED
    BY <2>1, <2>2, FnUnfolds
<1>3. ASSUME NEW m \in M \cap Nat
      PROVE  m + 1 \in M
  <2> SUFFICES ASSUME m + 1 + 1 <= L
               PROVE  FnOf(o[m + 1 + 1].item) = name(m + 1)
    OBVIOUS
  <2> DEFINE i == o[m + 2].item
  <2>0. m + 1 + 1 = m + 2 /\ m + 2 \in 2 .. L /\ m + 1 \in 1 .. L /\ m + 2 - 1 = m + 1
        /\ m + 2 \in 1 .. L
    BY <1>1
  <2>1. i \in 1 .. Len(prog) /\ prog[i].block = o[m + 1].item /\ prog[i].op = "procedure"
    BY <2>0 DEF IsOpen
  <2>2. i \in 2 .. Len(prog)
    <3>1. i # 1 /\ Len(prog) \in Nat
      BY <2>1 DEF IsText, IsSeq
    <3> QED
      BY <2>1, <3>1
  <2>3. FnOf(i) = Append(name(m), prog[i].name)
    <3>1. FnOf(o[m + 1].item) = name(m)
      BY <2>0
    <3> QED
      BY <2>1, <2>2, <3>1, FnUnfolds
  <2>4. IsSeq(name(m)) /\ Len(name(m)) = m
    <3>1. Len(name(m)) = m
      <4> DEFINE f == name(m)
      <4>1. f = [k \in 1 .. m |-> f[k]]
        OBVIOUS
      <4> HIDE DEF f
      <4> QED
        BY <4>1, LenOfDomain DEF f
    <3> QED
      BY <3>1 DEF IsSeq
  <2>5. IsSeq(name(m + 1)) /\ Len(name(m + 1)) = m + 1
    <3>1. Len(name(m + 1)) = m + 1
      <4> DEFINE f == name(m + 1)
      <4>1. f = [k \in 1 .. m + 1 |-> f[k]]
        OBVIOUS
      <4> HIDE DEF f
      <4> QED
        BY <4>1, LenOfDomain DEF f
    <3> QED
      BY <3>1 DEF IsSeq
  <2> DEFINE u == name(m)
             w == name(m + 1)
             v == Append(u, prog[i].name)
  <2>6. IsSeq(v) /\ Len(v) = m + 1 /\ v[m + 1] = prog[i].name /\ \A k \in 1 .. m : v[k] = u[k]
    <3> HIDE DEF name, i
    <3> QED
      BY <2>4, Appended
  <2>7. \A k \in 1 .. m : u[k] = w[k]
    OBVIOUS
  <2>8. w[m + 1] = prog[i].name
    BY <2>0
  <2>9. 1 .. m + 1 = (1 .. m) \cup {m + 1}
    OBVIOUS
  <2> HIDE DEF u, w, v
  <2>10. v = w
    <3>1. \A k \in 1 .. m + 1 : v[k] = w[k]
      BY <2>6, <2>7, <2>8, <2>9
    <3>2. v = [k \in 1 .. m + 1 |-> v[k]] /\ w = [k \in 1 .. m + 1 |-> w[k]]
      BY <2>5, <2>6 DEF IsSeq, w
    <3> QED
      BY <3>1, <3>2
  <2> QED
    BY <2>0, <2>3, <2>10 DEF u, v, w
<1> HIDE DEF M
<1>5. L - 1 \in M
  BY <1>1, <1>2, <1>3, SetInduction
<1>6. L - 1 + 1 = L
  BY <1>1
<1> QED
  BY <1>1, <1>5, <1>6 DEF M, Top

LEMMA NestedNameIs ==
  ASSUME TextInv, TextInv', GenerateProcedure
  PROVE  NestedName(Name) = FnOf(pc)
<1>1. phase = "generate" /\ prog[pc].op = "procedure" /\ prog' = prog
  BY DEF GenerateProcedure, Generating, At
<1>2. /\ IsText(prog) /\ IsOpen(prog, open) /\ pc \in 1 .. Len(prog) /\ Len(prog) \in Nat
      /\ Top(open) = Here
  BY <1>1, PassAt
<1>3. pc # 1
  BY <1>1, <1>2 DEF IsText
<1>4. pc \in 2 .. Len(prog) /\ Here = prog[pc].block
  BY <1>1, <1>2, <1>3, PassAt
<1>5. FnOf(pc) = Append(FnOf(Here), Name)
  BY <1>2, <1>4, FnUnfolds DEF Name
<1> QED
  BY <1>2, <1>5, FnOpen DEF NestedName

-----------------------------------------------------------------------------
(* What the generator finds.                                               *)

LEMMA StorageStays ==
  ASSUME prog' = prog
  PROVE  \A n, b : StorageFor(n, b)' = StorageFor(n, b)
<1>1. \A b : FnOf(b)' = FnOf(b)
  BY DEF FnOf
<1>2. \A n, b : Home(n, b)' = Home(n, b)
  BY ScopesStay
<1> QED
  BY <1>1, <1>2 DEF StorageFor

LEMMA FoundTop ==
  ASSUME NEW o, NEW s, IsText(prog), IsOpen(prog, o), Framed(prog, o, s),
         NEW n, n \in DOMAIN SymsOf(prog, s, Top(o))
  PROVE  Found(s, n) /\ Lookup(s, n) = SymsOf(prog, s, Top(o))[n]
<1>1. s.current = TableOf(prog, s, Top(o)) /\ s.current \in 1 .. Len(s.tables)
  BY CurrentIs
<1>2. WellLinked(s)
  BY <1>1 DEF WellLinked, Framed, IsTable
<1>3. SymsOf(prog, s, Top(o)) = s.tables[s.current].syms
  BY <1>1 DEF SymsOf
<1> QED
  BY <1>2, <1>3, FoundHere

(* What is found is in the frame of an open block. *)
LEMMA FoundIn ==
  ASSUME NEW o, NEW s, IsText(prog), IsOpen(prog, o), Framed(prog, o, s), Nested(s), NEW n
  PROVE  /\ (\E k \in 1 .. Len(o) : n \in DOMAIN SymsOf(prog, s, o[k].item)) => Found(s, n)
         /\ Found(s, n) => \E k \in 1 .. Len(o) :
               /\ n \in DOMAIN SymsOf(prog, s, o[k].item)
               /\ Lookup(s, n) = SymsOf(prog, s, o[k].item)[n]
<1>1. \A k \in 1 .. Len(o) : SymsOf(prog, s, o[k].item) = s.tables[s.stack[k]].syms
  BY DEF Framed, SymsOf
<1>2. Len(s.stack) = Len(o)
  BY DEF Framed
<1>3. (\E k \in 1 .. Len(o) : n \in DOMAIN SymsOf(prog, s, o[k].item)) => Holding(s, n) # {}
  BY <1>1, <1>2 DEF Holding
<1>4. Found(s, n) <=> Holding(s, n) # {}
  BY FoundInnermost
<1>5. ASSUME Found(s, n)
      PROVE  \E k \in 1 .. Len(o) : /\ n \in DOMAIN SymsOf(prog, s, o[k].item)
                                    /\ Lookup(s, n) = SymsOf(prog, s, o[k].item)[n]
  <2> DEFINE k == InnermostHolding(s, n)
  <2>1. k \in Holding(s, n) /\ Definer(s, n) = s.stack[k]
    BY <1>5, FoundInnermost
  <2> HIDE DEF k
  <2>2. k \in 1 .. Len(o) /\ n \in DOMAIN SymsOf(prog, s, o[k].item)
    BY <1>1, <1>2, <2>1 DEF Holding
  <2>3. Lookup(s, n) = SymsOf(prog, s, o[k].item)[n]
    BY <1>1, <2>1, <2>2 DEF Lookup
  <2> QED
    BY <2>2, <2>3
<1> QED
  BY <1>3, <1>4, <1>5

(* The generator at an item. *)
LEMMA GeneratorAt ==
  ASSUME TextInv, FrameInv, Distinct, phase = "generate"
  PROVE  /\ IsText(prog) /\ IsOpen(prog, open) /\ pc \in 1 .. Len(prog) /\ Len(prog) \in Nat
         /\ Framed(prog, open, ft) /\ NestedIn(prog, ft) /\ Nested(ft) /\ IsTable(ft)
         /\ Symbols(heap) /\ IsSeq(heap) /\ Len(heap) \in Nat /\ DOMAIN heap = 1 .. Len(heap)
         /\ Top(open) = Here /\ Here \in BlocksIn(prog)
         /\ ~errors /\ Inspected = Len(prog) + 1
<1>1. /\ IsText(prog) /\ IsOpen(prog, open) /\ pc \in 1 .. Len(prog) /\ Len(prog) \in Nat
      /\ Top(open) = Here /\ Here \in BlocksIn(prog)
  BY PassAt
<1>2. /\ Framed(prog, open, ft) /\ NestedIn(prog, ft) /\ IsTable(ft)
      /\ Symbols(heap) /\ ~errors
  BY DEF FrameInv, Scoped, Framed, MiscInv
<1>3. IsSeq(heap) /\ Len(heap) \in Nat /\ DOMAIN heap = 1 .. Len(heap)
  BY <1>2 DEF Symbols, IsSeq
<1> QED
  BY <1>1, <1>2, <1>3, OpenFramesNested DEF Inspected

(* The cell of a variable is that of its name and its block. *)
LEMMA CellsDiffer ==
  ASSUME TextInv, FrameInv, Tagged,
         NEW b \in BlocksIn(prog), NEW n \in DOMAIN SymsOf(prog, ft, b),
         NEW c \in BlocksIn(prog), NEW m \in DOMAIN SymsOf(prog, ft, c),
         SymsOf(prog, ft, b)[n] = SymsOf(prog, ft, c)[m]
  PROVE  b = c /\ n = m
BY DEF Tagged, SymIn

(* Where the generator only passes by, the variables keep what they have.  *)
LEMMA GenStays ==
  ASSUME TextInv, FrameInv, GenInv, phase = "generate", prog' = prog, pc' = pc + 1,
         ~IsBlock(prog, pc), ft'.map = ft.map, \A j \in DOMAIN ft.tables : ft'.tables[j].syms = ft.tables[j].syms,
         \A h \in 1 .. Len(heap) :
            /\ heap'[h].kind = heap[h].kind /\ heap'[h].name = heap[h].name
            /\ heap'[h].block = heap[h].block
            /\ heap[h].name \in Vars => heap'[h].value = heap[h].value
  PROVE  GenInv'
<1>1. \A b : TableOf(prog, ft', b) = TableOf(prog, ft, b)
  BY DEF TableOf
<1>2. \A b \in BlocksIn(prog) : SymsOf(prog, ft', b) = SymsOf(prog, ft, b)
  BY <1>1, CellIn DEF SymsOf
<1>3. \A b \in BlocksIn(prog) : \A n : n \in DOMAIN SymsOf(prog, ft, b) =>
         SymsOf(prog, ft, b)[n] \in 1 .. Len(heap)
  BY CellIn
<1>4. Tagged /\ \A b \in BlocksIn(prog), n \in Vars : VarRight(n, b, pc)
  BY DEF GenInv
<1>5. Tagged'
  <2> SUFFICES ASSUME NEW b \in BlocksIn(prog), NEW n \in DOMAIN SymsOf(prog, ft, b)
               PROVE  /\ heap'[SymsOf(prog, ft, b)[n]].block = b
                      /\ heap'[SymsOf(prog, ft, b)[n]].name = n
    BY <1>2 DEF Tagged, SymIn
  <2> QED
    BY <1>3, <1>4 DEF Tagged, SymIn
<1>6. ASSUME NEW b \in BlocksIn(prog), NEW n \in Vars
      PROVE  VarRight(n, b, pc)'
  <2> DEFINE h == SymsOf(prog, ft, b)[n]
             has == n \in DOMAIN SymsOf(prog, ft, b)
  <2>0. IsText(prog) /\ pc \in 1 .. Len(prog) /\ b \in 1 .. Len(prog) /\ b # pc /\ Len(prog) \in Nat
    <3>1. IsText(prog) /\ pc \in 1 .. Len(prog) /\ Len(prog) \in Nat
      BY PassAt
    <3>2. b \in 1 .. Len(prog) /\ IsBlock(prog, b)
      BY <3>1, BlocksAre DEF BlocksIn, ProceduresIn, IsBlock, IsText
    <3> QED
      BY <3>1, <3>2
  <2>1. b < pc + 1 <=> b < pc
    BY <2>0
  <2>2. VarRight(n, b, pc)
    BY <1>4
  <2>3. Captures(b)' = Captures(b) /\ StorageFor(n, b)' = StorageFor(n, b)
    BY CapturesMeant, StorageStays
  <2>4. has => /\ heap'[h].kind = heap[h].kind /\ heap'[h].value = heap[h].value
    <3> SUFFICES ASSUME has
                 PROVE  heap'[h].kind = heap[h].kind /\ heap'[h].value = heap[h].value
      OBVIOUS
    <3>1. h \in 1 .. Len(heap) /\ heap[h].name = n
      BY <1>3, <1>4 DEF Tagged, SymIn
    <3> QED
      BY <3>1
  <2>5. SymsOf(prog, ft, b)' = SymsOf(prog, ft, b) /\ prog[b].decs' = prog[b].decs
    BY <1>2
  <2>6. SymIn(n, b)' = heap'[SymsOf(prog, ft, b)'[n]]
    BY DEF SymIn
  <2>7. has => SymIn(n, b)'.kind = SymIn(n, b).kind /\ SymIn(n, b)'.value = SymIn(n, b).value
    BY <2>4, <2>5, <2>6 DEF SymIn
  <2> QED
    BY <2>1, <2>2, <2>3, <2>5, <2>7 DEF VarRight
<1>7. BlocksIn(prog)' = BlocksIn(prog)
  BY DEF BlocksIn, ProceduresIn
<1> QED
  BY <1>5, <1>6, <1>7 DEF GenInv

(* The generator passes by: the frames keep their names, and the variables *)
(* what they are and where they are stored.                                *)
Passing ==
    /\ pc' = pc + 1 /\ ~IsBlock(prog, pc)
    /\ ft'.map = ft.map /\ \A j \in DOMAIN ft.tables : ft'.tables[j].syms = ft.tables[j].syms
    /\ \A h \in 1 .. Len(heap) :
          /\ heap'[h].kind = heap[h].kind /\ heap'[h].name = heap[h].name
          /\ heap'[h].block = heap[h].block
          /\ heap[h].name \in Vars => heap'[h].value = heap[h].value

LEMMA PassingSame ==
  ASSUME pc' = pc + 1, prog[pc].op \notin {"module", "procedure"}, heap' = heap, IsTable(ft),
         ft' = ft \/ \E n : ft' = MarkFree(ft, n)
  PROVE  Passing
<1>1. \A n : /\ MarkFree(ft, n).map = ft.map
             /\ \A j \in DOMAIN ft.tables : MarkFree(ft, n).tables[j].syms = ft.tables[j].syms
  <2> TAKE n
  <2>1. /\ SameFrames(ft, MarkFree(ft, n))
        /\ \A j \in DOMAIN ft.tables : MarkFree(ft, n).tables[j].syms = ft.tables[j].syms
    BY MarkFreeFrames
  <2> QED
    BY <2>1 DEF SameFrames
<1>2. ft'.map = ft.map /\ \A j \in DOMAIN ft.tables : ft'.tables[j].syms = ft.tables[j].syms
  BY <1>1
<1> QED
  BY <1>2 DEF Passing, IsBlock

(* The value of the procedure m is set, as it is found in s. *)
LEMMA PassingSet ==
  ASSUME TextInv, FrameInv, GenInv, Distinct, phase = "generate",
         pc' = pc + 1, prog[pc].op \notin {"module", "procedure"},
         NEW s, IsTable(s), s.tables = ft.tables, s.map = ft.map, NEW m, ft' = MarkFree(s, m),
         NEW b \in BlocksIn(prog), m \in DOMAIN SymsOf(prog, ft, b), m \notin Vars,
         Lookup(s, m) = SymsOf(prog, ft, b)[m],
         Revalued(heap, heap'),
         \A h \in DOMAIN heap : heap'[h] = heap[h] \/ Lookup(s, m) = h
  PROVE  Passing
<1>1. /\ DOMAIN heap = 1 .. Len(heap) /\ Symbols(heap)
  BY GeneratorAt
<1>2. SymsOf(prog, ft, b)[m] \in 1 .. Len(heap) /\ heap[SymsOf(prog, ft, b)[m]].name = m
  BY CellIn DEF GenInv, Tagged, SymIn
<1>3. ASSUME NEW h \in 1 .. Len(heap)
      PROVE  /\ heap'[h].kind = heap[h].kind /\ heap'[h].name = heap[h].name
             /\ heap'[h].block = heap[h].block
             /\ heap[h].name \in Vars => heap'[h].value = heap[h].value
  <2>1. CASE heap'[h] = heap[h]
    BY <2>1
  <2>2. CASE heap'[h] # heap[h]
    <3>1. heap[h].name = m
      BY <1>1, <1>2, <2>2
    <3>2. PICK v : heap'[h] = [heap[h] EXCEPT !.value = v]
      BY <1>1, <2>2 DEF Revalued, WithValue
    <3>3. /\ heap'[h].kind = heap[h].kind /\ heap'[h].name = heap[h].name
          /\ heap'[h].block = heap[h].block
      BY <3>2
    <3> QED
      BY <3>1, <3>3
  <2> QED
    BY <2>1, <2>2
<1>4. ft'.map = ft.map /\ \A j \in DOMAIN ft.tables : ft'.tables[j].syms = ft.tables[j].syms
  <2>1. /\ SameFrames(s, MarkFree(s, m))
        /\ \A j \in DOMAIN s.tables : MarkFree(s, m).tables[j].syms = s.tables[j].syms
    BY MarkFreeFrames
  <2> QED
    BY <2>1 DEF SameFrames
<1> QED
  BY <1>3, <1>4 DEF Passing, IsBlock

LEMMA GeneratorPasses ==
  ASSUME TextInv, TextInv', FrameInv, GenInv, Distinct, Generator, phase' = "generate",
         ~GenerateModule, ~GenerateProcedure
  PROVE  Passing
<1>0. phase = "generate" /\ prog' = prog
  BY DEF Generator, Generating, GenerateModule, GenerateProcedure, GenerateForward, GenerateBegin,
         GenerateUse, GenerateCall, GenerateReturn, GenerateEndProcedure, GenerateEndModule, Abort
<1>1. /\ IsText(prog) /\ IsOpen(prog, open) /\ pc \in 1 .. Len(prog) /\ Len(prog) \in Nat
      /\ Framed(prog, open, ft) /\ Nested(ft) /\ IsTable(ft)
      /\ Top(open) = Here /\ Here \in BlocksIn(prog)
  BY <1>0, GeneratorAt
<1>2. CASE GenerateForward
  <2>1. prog[pc].op = "forward" /\ pc' = pc + 1 /\ ft' = MarkFree(ft, Name)
    BY <1>2 DEF GenerateForward, Generating, At, Onward
  <2>2. pc \in HeadingsIn(prog) /\ pc # 1
    BY <1>1, <2>1 DEF HeadingsIn, IsText
  <2>3. prog[pc].block = Here
    BY <1>0, <2>2, PassAt
  <2>4. Name \in Range(ProcNames) /\ Name \in DOMAIN SymsOf(prog, ft, Here)
    BY <1>0, <2>2, <2>3, ProcedureNamed DEF Name
  <2>5. Lookup(ft, Name) = SymsOf(prog, ft, Here)[Name]
    BY <1>1, <2>4, FoundTop
  <2>6. Revalued(heap, heap')
    BY <1>2, GeneratorValues
  <2>7. \A h \in DOMAIN heap : heap'[h] = heap[h] \/ Lookup(ft, Name) = h
    <3>1. heap' = [h \in DOMAIN heap |->
                     IF \E m \in {Name} : Lookup(ft, m) = h
                       THEN [heap[h] EXCEPT !.value =
                               Function(ForwardName(CHOOSE m \in {Name} : Lookup(ft, m) = h))]
                       ELSE heap[h]]
      BY <1>2 DEF GenerateForward, WithValues
    <3> QED
      BY <3>1
  <2> QED
    BY <1>0, <1>1, <2>1, <2>4, <2>5, <2>6, <2>7, NotVars, PassingSet
<1>3. CASE GenerateBegin
  <2>1. prog[pc].op = "begin" /\ pc' = pc + 1
    BY <1>3 DEF GenerateBegin, Generating, At, Onward
  <2>2. CASE InModule
    <3>1. heap' = heap /\ ft' = ft
      BY <1>3, <2>2 DEF GenerateBegin
    <3> QED
      BY <1>1, <2>1, <3>1, PassingSame
  <2>3. CASE ~InModule
    <3> DEFINE m == prog[Here].name
               L == Len(open)
    <3>0. ft' = MarkFree(ft, m)
      BY <1>3, <2>3 DEF GenerateBegin
    <3>1. L \in 1 .. L /\ L - 1 \in 1 .. L /\ L \in 2 .. L
      BY <1>1, <2>3 DEF IsOpen, IsSeq, InModule
    <3>2. Here = open[L].item /\ prog[Here].op = "procedure" /\ prog[Here].block = open[L - 1].item
          /\ Here \in 1 .. Len(prog)
      BY <1>1, <3>1 DEF IsOpen, Top
    <3>3. Here \in HeadingsIn(prog)
      BY <3>2 DEF HeadingsIn
    <3>4. m \in Range(ProcNames) /\ m \in DOMAIN SymsOf(prog, ft, prog[Here].block)
      BY <1>0, <3>3, ProcedureNamed
    <3>5. Found(ft, m)
      BY <1>1, <3>1, <3>2, <3>4, FoundIn
    <3>6. PICK k \in 1 .. L : /\ m \in DOMAIN SymsOf(prog, ft, open[k].item)
                              /\ Lookup(ft, m) = SymsOf(prog, ft, open[k].item)[m]
      BY <1>1, <3>5, FoundIn
    <3>7. open[k].item \in BlocksIn(prog)
      BY <1>1, OpenBlocks
    <3>8. \A h \in DOMAIN heap : heap'[h] = heap[h] \/ Lookup(ft, m) = h
      <4>1. heap' = [h \in DOMAIN heap |->
                       IF \E n \in {m} : Lookup(ft, n) = h
                         THEN [heap[h] EXCEPT !.value = Function(Inner.fn)]
                         ELSE heap[h]]
        BY <1>3, <2>3 DEF GenerateBegin, WithValues
      <4> QED
        BY <4>1
    <3>9. Revalued(heap, heap')
      <4>1. heap' = [h \in DOMAIN heap |-> heap'[h]]
        <5>1. heap' = [h \in DOMAIN heap |->
                         IF \E n \in {m} : Lookup(ft, n) = h
                           THEN [heap[h] EXCEPT !.value = Function(Inner.fn)]
                           ELSE heap[h]]
          BY <1>3, <2>3 DEF GenerateBegin, WithValues
        <5> QED
          BY <5>1
      <4>2. heap' = heap => Revalued(heap, heap')
        BY <4>1 DEF Revalued
      <4> QED
        BY <1>3, <4>2, GeneratorValues
    <3> HIDE DEF m
    <3> QED
      BY <1>0, <1>1, <2>1, <3>0, <3>4, <3>6, <3>7, <3>8, <3>9, NotVars, PassingSet
  <2> QED
    BY <2>2, <2>3
<1>4. CASE GenerateUse \/ GenerateReturn
  <2>1. /\ prog[pc].op \in {"use", "return"} /\ pc' = pc + 1 /\ heap' = heap
        /\ ft' = ft \/ \E n : ft' = MarkFree(ft, n)
    BY <1>4 DEF GenerateUse, GenerateReturn, Generating, At, Onward
  <2> QED
    BY <1>1, <2>1, PassingSame
<1>5. CASE GenerateCall
  <2>1. /\ prog[pc].op = "call" /\ pc' = pc + 1 /\ heap' = heap /\ ft' = MarkFree(ft, Name)
    BY <1>5 DEF GenerateCall, Generating, At, Onward
  <2> QED
    BY <1>1, <2>1, PassingSame
<1>6. CASE GenerateEndProcedure
  <2> DEFINE m == prog[Here].name
             s == PopFrame(ft)
             b == prog[Here].block
  <2>1. prog[pc].op = "end" /\ pc' = pc + 1 /\ ft' = MarkFree(s, m) /\ Len(open) # 1
    BY <1>6 DEF GenerateEndProcedure, Generating, At, Onward, InModule
  <2>2. prog[Here].op = "procedure" /\ Here \in 1 .. Len(prog)
    BY <1>1, <2>1, TopIsBlock
  <2>3. Here \in HeadingsIn(prog)
    BY <2>2 DEF HeadingsIn
  <2>4. m \in Range(ProcNames) /\ m \in DOMAIN SymsOf(prog, ft, b) /\ b \in BlocksIn(prog)
    BY <1>0, <2>3, ProcedureNamed
  <2>5. IsOpen(prog, Left) /\ Top(Left) = b
    BY <1>1, <2>1, LeaveInner DEF Left
  <2>6. Framed(prog, Left, s)
    BY <1>1, <2>1, ExtendsSelf, PopFramed DEF Left
  <2>7. s.tables = ft.tables /\ s.map = ft.map /\ IsTable(s)
    BY <2>6 DEF PopFrame, Framed
  <2>8. SymsOf(prog, s, b) = SymsOf(prog, ft, b)
    BY <2>7 DEF SymsOf, TableOf
  <2>9. Lookup(s, m) = SymsOf(prog, ft, b)[m]
    <3> HIDE DEF s, m, b
    <3> QED
      BY <1>1, <2>4, <2>5, <2>6, <2>8, FoundTop
  <2>10. Revalued(heap, heap')
    BY <1>6, GeneratorValues
  <2>11. \A h \in DOMAIN heap : heap'[h] = heap[h] \/ Lookup(s, m) = h
    <3>1. heap' = [h \in DOMAIN heap |->
                     IF \E n \in {m} : Lookup(s, n) = h
                       THEN [heap[h] EXCEPT !.value = Function(Inner.fn)]
                       ELSE heap[h]]
      BY <1>6 DEF GenerateEndProcedure, WithValues
    <3> QED
      BY <3>1
  <2> HIDE DEF s, m, b
  <2> QED
    BY <1>0, <1>1, <2>1, <2>4, <2>7, <2>9, <2>10, <2>11, NotVars, PassingSet
<1>7. ~GenerateEndModule /\ ~Abort
  BY DEF GenerateEndModule, Abort
<1> QED
  BY <1>2, <1>3, <1>4, <1>5, <1>6, <1>7 DEF Generator

(* What the inspector leaves to the generator. *)
LEMMA GenStarts ==
  ASSUME TextInv, FrameInv, HoldInv, TypedInv, InspectEndModule, phase' = "generate"
  PROVE  GenInv'
<1>1. /\ pc = Len(prog) /\ Len(prog) \in Nat /\ phase = "inspect" /\ prog' = prog /\ pc' = 1
      /\ ft' = ft /\ heap' = heap /\ prog[pc].op = "end"
  BY InspectionEnds
<1>2. IsText(prog)
  BY <1>1, PassAt
<1>3. Holds(prog, ft, heap) /\ TypedBefore(ft, heap, pc)
  BY <1>1 DEF HoldInv, TypedInv
<1>4. Tagged
  BY <1>3 DEF Tagged, Holds, SymIn
<1>5. ASSUME NEW b \in BlocksIn(prog), NEW n \in Vars
      PROVE  VarRight(n, b, 1)
  <2>1. b \in 1 .. Len(prog) /\ b < pc /\ ~(b < 1)
    <3>1. b \in 1 .. Len(prog)
      BY <1>2, BlocksAre
    <3>2. prog[b].op \in {"module", "procedure"}
      BY <1>2 DEF BlocksIn, ProceduresIn, IsText
    <3> QED
      BY <1>1, <3>1, <3>2
  <2>2. n \in DOMAIN prog[b].decs =>
          n \in DOMAIN SymsOf(prog, ft, b) /\ SymIn(n, b).kind = prog[b].decs[n]
    BY <1>3, <2>1 DEF TypedBefore, Typed, SymIn
  <2>3. n \in DOMAIN SymsOf(prog, ft, b) => n \in DOMAIN prog[b].decs
    <3>1. n \in DOMAIN SymsOf(prog, ft, b) => DeclaredIn(prog, n, b)
      BY <1>3, NotVars DEF Holds
    <3>2. HeadingsOf(n, b) = {}
      BY <1>2, VarsNotHeaded
    <3>3. DOMAIN prog = 1 .. Len(prog)
      BY <1>2 DEF IsText, IsSeq
    <3> QED
      BY <3>1, <3>2, <3>3 DEF DeclaredIn, HeadingsOf, HeadingsIn
  <2> QED
    BY <2>1, <2>2, <2>3 DEF VarRight
<1>6. Tagged'
  BY <1>1, <1>4, Zenon DEF Tagged, SymIn, BlocksIn, ProceduresIn, SymsOf, TableOf, FrameOf
<1>7. ASSUME NEW b \in BlocksIn(prog), NEW n \in Vars
      PROVE  VarRight(n, b, pc)'
  <2>1. Captures(b)' = Captures(b) /\ StorageFor(n, b)' = StorageFor(n, b)
    BY <1>1, CapturesMeant, StorageStays
  <2>2. SymsOf(prog, ft, b)' = SymsOf(prog, ft, b) /\ SymIn(n, b)' = SymIn(n, b)
    BY <1>1 DEF SymIn, SymsOf, TableOf, FrameOf
  <2> QED
    BY <1>1, <1>5, <2>1, <2>2 DEF VarRight
<1>8. BlocksIn(prog)' = BlocksIn(prog)
  BY <1>1 DEF BlocksIn, ProceduresIn
<1> QED
  BY <1>6, <1>7, <1>8 DEF GenInv

LEMMA GenerateModuleStores ==
  ASSUME TextInv, FrameInv, GenInv, Distinct, GenerateModule
  PROVE  /\ GenInv'
         /\ \A h \in 1 .. Len(heap) : heap[h].name \notin Vars => heap'[h] = heap[h]
<1>1. /\ phase = "generate" /\ prog' = prog /\ pc' = pc + 1 /\ ft' = ft
      /\ prog[pc].op = "module"
  BY DEF GenerateModule, Generating, At, Onward
<1>2. /\ IsText(prog) /\ IsOpen(prog, open) /\ pc \in 1 .. Len(prog) /\ Len(prog) \in Nat
      /\ Framed(prog, open, ft) /\ DOMAIN heap = 1 .. Len(heap)
      /\ Top(open) = Here
  BY <1>1, GeneratorAt
<1>3. pc = 1 /\ Here = 1
  <2>1. pc = 1
    BY <1>1, <1>2 DEF IsText
  <2> QED
    BY <1>1, <2>1, PassAt
<1>4. Tagged /\ \A b \in BlocksIn(prog), n \in Vars : VarRight(n, b, 1)
  BY <1>1, <1>3 DEF GenInv
<1>5. 1 \in BlocksIn(prog) /\ DOMAIN prog[1].decs \subseteq Vars
  BY <1>2, <1>3 DEF BlocksIn, IsText, ItemOK
<1>6. \A n \in DOMAIN prog[1].decs :
         n \in DOMAIN SymsOf(prog, ft, 1) /\ Lookup(ft, n) = SymsOf(prog, ft, 1)[n]
  <2> TAKE n \in DOMAIN prog[1].decs
  <2>1. n \in DOMAIN SymsOf(prog, ft, 1)
    BY <1>4, <1>5 DEF VarRight
  <2> QED
    BY <1>2, <1>3, <2>1, FoundTop
<1>7. heap' = [h \in DOMAIN heap |->
                 IF \E n \in DOMAIN prog[1].decs : Lookup(ft, n) = h
                   THEN [heap[h] EXCEPT !.value = Value("global", 1,
                           CHOOSE n \in DOMAIN prog[1].decs : Lookup(ft, n) = h, Main)]
                   ELSE heap[h]]
  BY <1>3 DEF GenerateModule, WithValues
<1>8. Revalued(heap, heap')
  BY GeneratorValues
<1>9. \A h \in 1 .. Len(heap) : /\ heap'[h].kind = heap[h].kind /\ heap'[h].name = heap[h].name
                                /\ heap'[h].block = heap[h].block
  <2> TAKE h \in 1 .. Len(heap)
  <2>1. heap'[h] = heap[h] \/ \E v : heap'[h] = WithValue(heap[h], v)
    BY <1>2, <1>8 DEF Revalued
  <2>2. Symbols(heap)
    BY <1>1, GeneratorAt
  <2>3. CASE heap'[h] = heap[h]
    BY <2>3
  <2>4. ASSUME NEW v, heap'[h] = WithValue(heap[h], v)
        PROVE  /\ heap'[h].kind = heap[h].kind /\ heap'[h].name = heap[h].name
               /\ heap'[h].block = heap[h].block
    BY <2>4 DEF WithValue
  <2> QED
    BY <2>1, <2>3, <2>4
<1>10. ASSUME NEW n \in DOMAIN prog[1].decs
       PROVE  heap'[SymsOf(prog, ft, 1)[n]].value = Value("global", 1, n, Main)
  <2> DEFINE h == SymsOf(prog, ft, 1)[n]
             c == CHOOSE m \in DOMAIN prog[1].decs : Lookup(ft, m) = h
  <2>1. n \in DOMAIN SymsOf(prog, ft, 1) /\ h \in 1 .. Len(heap) /\ Lookup(ft, n) = h
    BY <1>5, <1>6, CellIn
  <2>2. c \in DOMAIN prog[1].decs /\ Lookup(ft, c) = h
    BY <2>1
  <2>3. c \in DOMAIN SymsOf(prog, ft, 1) /\ SymsOf(prog, ft, 1)[c] = h
    BY <1>6, <2>2
  <2> HIDE DEF c
  <2>4. c = n
    BY <1>4, <1>5, <2>1, <2>3, CellsDiffer
  <2>5. heap'[h] = [heap[h] EXCEPT !.value = Value("global", 1, c, Main)]
    BY <1>2, <1>7, <2>1 DEF c
  <2>6. Symbols(heap)
    BY <1>1, GeneratorAt
  <2>7. IsSymbol(heap[h])
    BY <2>1, <2>6 DEF Symbols
  <2> QED
    BY <2>4, <2>5, <2>7 DEF IsSymbol
<1>11. Tagged'
  <2>1. \A b \in BlocksIn(prog) : \A n \in DOMAIN SymsOf(prog, ft, b) :
           SymsOf(prog, ft, b)[n] \in 1 .. Len(heap)
    BY CellIn
  <2>2. \A b \in BlocksIn(prog) : \A n \in DOMAIN SymsOf(prog, ft, b) :
           /\ heap'[SymsOf(prog, ft, b)[n]].block = b
           /\ heap'[SymsOf(prog, ft, b)[n]].name = n
    BY <1>4, <1>9, <2>1 DEF Tagged, SymIn
  <2> QED
    BY <1>1, <2>2, Zenon DEF Tagged, SymIn, BlocksIn, ProceduresIn, SymsOf, TableOf, FrameOf
<1>12. ASSUME NEW b \in BlocksIn(prog), NEW n \in Vars
       PROVE  VarRight(n, b, pc)'
  <2> DEFINE h == SymsOf(prog, ft, b)[n]
             has == n \in DOMAIN SymsOf(prog, ft, b)
  <2>1. /\ has <=> n \in DOMAIN prog[b].decs
        /\ has => heap[h].kind = IF n \in DOMAIN prog[b].decs THEN prog[b].decs[n] ELSE "var"
    <3>1. ~(b < 1)
      BY <1>2, BlocksAre
    <3> QED
      BY <1>4, <3>1 DEF VarRight, SymIn
  <2>2. b < 2 <=> b = 1
    BY <1>2, BlocksAre
  <2>3. has => heap'[h].kind = heap[h].kind
    BY <1>9, CellIn
  <2>4. has /\ b < 2 => heap'[h].value = StorageFor(n, b)
    <3> SUFFICES ASSUME has, b = 1
                 PROVE  heap'[h].value = StorageFor(n, b)
      BY <2>2
    <3>1. n \in DOMAIN prog[1].decs
      BY <2>1
    <3>2. Home(n, 1) = 1
      BY <1>2, <1>3, <3>1, HomeIs
    <3>3. StorageFor(n, b) = Value("global", 1, n, Main)
      BY <3>2 DEF StorageFor
    <3>4. heap'[SymsOf(prog, ft, 1)[n]].value = Value("global", 1, n, Main)
      BY <1>10, <3>1
    <3> QED
      BY <3>3, <3>4
  <2>5. /\ SymsOf(prog, ft, b)' = SymsOf(prog, ft, b) /\ SymIn(n, b)' = heap'[h]
        /\ Captures(b)' = Captures(b) /\ StorageFor(n, b)' = StorageFor(n, b)
    BY <1>1, CapturesMeant, StorageStays DEF SymIn, SymsOf, TableOf, FrameOf
  <2>6. pc' = 2 /\ prog[b].decs' = prog[b].decs
    BY <1>1, <1>3
  <2> HIDE DEF h
  <2> QED
    BY <2>1, <2>2, <2>3, <2>4, <2>5, <2>6 DEF VarRight
<1>13. BlocksIn(prog)' = BlocksIn(prog)
  BY <1>1 DEF BlocksIn, ProceduresIn
<1>14. \A h \in 1 .. Len(heap) : heap[h].name \notin Vars => heap'[h] = heap[h]
  <2> TAKE h \in 1 .. Len(heap)
  <2>1. CASE \E n \in DOMAIN prog[1].decs : Lookup(ft, n) = h
    BY <1>4, <1>5, <1>6, <2>1 DEF Tagged, SymIn
  <2>2. CASE ~(\E n \in DOMAIN prog[1].decs : Lookup(ft, n) = h)
    BY <1>2, <1>7, <2>2
  <2> QED
    BY <2>1, <2>2
<1>15. GenInv'
  BY <1>11, <1>12, <1>13 DEF GenInv
<1> QED
  BY <1>14, <1>15

(* The generator enters a procedure: the names that it declares are stored *)
(* in its function, and its frame gets what it captures.                   *)
LEMMA ProcedureEntered ==
  ASSUME TextInv, FrameInv, CapsInv, UniqueInv, ProcsInv, GenInv, Distinct, GenerateProcedure
  PROVE  /\ phase = "generate" /\ prog' = prog /\ pc \in ProceduresIn(prog) /\ pc # 1
         /\ Lookup(ft, Name) \in 1 .. Len(heap)
         /\ heap[Lookup(ft, Name)].caps \cap Vars = Captures(pc)
         /\ heap[Lookup(ft, Name)].caps \subseteq Idents
         /\ \A n \in heap[Lookup(ft, Name)].caps : FromAround(n, pc)
<1>1. phase = "generate" /\ prog' = prog /\ prog[pc].op = "procedure"
  BY DEF GenerateProcedure, Generating, At
<1>2. /\ IsText(prog) /\ IsOpen(prog, open) /\ pc \in 1 .. Len(prog) /\ Len(prog) \in Nat
      /\ Framed(prog, open, ft) /\ NestedIn(prog, ft) /\ Symbols(heap)
      /\ Top(open) = Here /\ Here \in BlocksIn(prog) /\ ~errors /\ Inspected = Len(prog) + 1
  BY <1>1, GeneratorAt
<1>3. pc \in ProceduresIn(prog) /\ pc \in HeadingsIn(prog) /\ pc # 1 /\ pc < Inspected
  BY <1>1, <1>2 DEF ProceduresIn, HeadingsIn, IsText
<1>4. prog[pc].block = Here
  BY <1>1, <1>3, PassAt
<1>5. Name \in DOMAIN SymsOf(prog, ft, Here)
  BY <1>1, <1>3, <1>4, ProcedureNamed DEF Name
<1> DEFINE h == SymsOf(prog, ft, Here)[Name]
<1>6. Lookup(ft, Name) = h /\ h \in 1 .. Len(heap)
  BY <1>2, <1>5, FoundTop, CellIn
<1>7. heap[h].kind = "proc" /\ heap[h].name = Name /\ heap[h].block = Here
  <2>1. heap[h].kind = "proc"
    BY <1>1, <1>3, <1>4 DEF ProcsInv, ProcsBefore, SymIn, Name
  <2> QED
    BY <1>1, <1>2, <1>5, <2>1 DEF GenInv, Tagged, SymIn
<1> HIDE DEF h
<1>8. Closed(heap[h])
  BY <1>1, <1>2, <1>6, <1>7 DEF CapsInv
<1>9. PICK b \in ProceduresIn(prog) : /\ prog[b].name = Name /\ prog[b].block = Here
                                      /\ heap[h].caps \cap Vars = Captures(b)
                                      /\ \A n \in heap[h].caps : FromAround(n, b)
  BY <1>7, <1>8 DEF Closed
<1>10. b = pc
  BY <1>2, <1>3, <1>9 DEF NestedIn, Name
<1>11. heap[h].caps \subseteq Idents
  BY <1>2, <1>6 DEF Symbols, IsSymbol
<1> QED
  BY <1>1, <1>3, <1>6, <1>9, <1>10, <1>11

(* What it does to the frames and the symbols. *)
LEMMA ProcedureStores ==
  ASSUME TextInv, TextInv', FrameInv, CapsInv, UniqueInv, ProcsInv, GenInv, Distinct,
         GenerateProcedure
  PROVE  /\ \A b \in BlocksIn(prog) : b # pc => SymsOf(prog, ft', b) = SymsOf(prog, ft, b)
         /\ DOMAIN SymsOf(prog, ft', pc) =
              DOMAIN SymsOf(prog, ft, pc) \cup heap[Lookup(ft, Name)].caps
         /\ \A n \in heap[Lookup(ft, Name)].caps :
              heap'[SymsOf(prog, ft', pc)[n]] = Captured(n, FnOf(pc))
         /\ \A n \in DOMAIN SymsOf(prog, ft', pc) \ heap[Lookup(ft, Name)].caps :
              SymsOf(prog, ft', pc)[n] = SymsOf(prog, ft, pc)[n]
         /\ \A h \in 1 .. Len(heap) :
              /\ heap'[h].kind = heap[h].kind /\ heap'[h].name = heap[h].name
              /\ heap'[h].block = heap[h].block
              /\ heap[h].block # pc \/ heap[h].name \notin Vars => heap'[h].value = heap[h].value
         /\ \A n \in DOMAIN prog[pc].decs :
              heap'[SymsOf(prog, ft, pc)[n]].value = Value("alloca", pc, n, FnOf(pc))
<1> DEFINE caps == heap[Lookup(ft, Name)].caps
           cs == SetToSeq(caps)
           u == MarkFree(ft, Name)
           v == PushFrame(u, Name)
           fn == NestedName(Name)
           new == [k \in DOMAIN cs |-> Captured(cs[k], fn)]
           names == DOMAIN prog[pc].decs
           tab == TableOf(prog, ft, pc)
           H == [h \in DOMAIN heap |->
                   IF \E n \in names : Lookup(v, n) = h
                     THEN [heap[h] EXCEPT !.value =
                             Value("alloca", pc, CHOOSE n \in names : Lookup(v, n) = h, fn)]
                     ELSE heap[h]]
<1>1. ft' = PutAll(v, cs, Len(heap)) /\ heap' = H \o new
  BY DEF GenerateProcedure, WithValues
<1>2. /\ phase = "generate" /\ prog' = prog /\ pc \in ProceduresIn(prog) /\ pc # 1
      /\ caps \subseteq Idents
  BY ProcedureEntered
<1>3. /\ IsText(prog) /\ IsOpen(prog, open) /\ pc \in 1 .. Len(prog) /\ Len(prog) \in Nat
      /\ Framed(prog, open, ft) /\ NestedIn(prog, ft) /\ IsTable(ft) /\ Symbols(heap)
      /\ Len(heap) \in Nat /\ DOMAIN heap = 1 .. Len(heap)
  BY <1>2, GeneratorAt
<1>4. pc \in BlocksIn(prog) /\ FrameOf(prog, pc) = Name /\ names \subseteq Vars
  BY <1>2, <1>3 DEF BlocksIn, FrameOf, Name, IsText, ItemOK
<1>5. fn = FnOf(pc)
  BY NestedNameIs
<1>6. IsSeq(cs) /\ Values(cs) = caps
  BY <1>2, InOrder
<1>7. Name \in DOMAIN ft.map /\ ft.map[Name] = tab /\ tab \in DOMAIN ft.tables
  BY <1>3, <1>4, FramesOf, CellIn DEF TableOf
<1>8. /\ u.map = ft.map /\ DOMAIN u.tables = DOMAIN ft.tables /\ IsTable(u)
      /\ \A j \in DOMAIN ft.tables : u.tables[j].syms = ft.tables[j].syms
      /\ SameFrames(ft, u)
  BY <1>3, MarkFreeFrames, SameFramesTable DEF SameFrames
<1> HIDE DEF u
<1>9. v.tables = u.tables /\ v.map = u.map /\ v.current = tab /\ IsTable(v)
  BY <1>7, <1>8, SameVarsPush
<1>10. WellLinked(v)
  <2>1. WellLinked(ft)
    <3>1. ft.current \in 1 .. Len(ft.tables)
      BY <1>3, CurrentIs
    <3> QED
      BY <1>3, <3>1 DEF WellLinked, Framed, IsTable
  <2>2. Len(u.tables) = Len(ft.tables) /\ \A j \in DOMAIN ft.tables : u.tables[j].next = ft.tables[j].next
    BY <1>8 DEF SameFrames
  <2> HIDE DEF v
  <2>3. Len(v.tables) = Len(ft.tables) /\ \A j \in 1 .. Len(ft.tables) : v.tables[j].next = ft.tables[j].next
    BY <1>9, <2>1, <2>2 DEF WellLinked
  <2>4. DOMAIN v.tables = 1 .. Len(v.tables) /\ v.current \in 1 .. Len(v.tables)
    BY <1>7, <1>8, <1>9, <2>1, <2>3 DEF WellLinked
  <2> QED
    BY <2>1, <2>3, <2>4 DEF WellLinked
<1> HIDE DEF v
<1>11. \A n \in names : /\ n \in DOMAIN SymsOf(prog, ft, pc)
                        /\ Lookup(v, n) = SymsOf(prog, ft, pc)[n]
  <2> TAKE n \in names
  <2>1. n \in DOMAIN SymsOf(prog, ft, pc)
    BY <1>2, <1>4 DEF GenInv, VarRight
  <2>2. SymsOf(prog, ft, pc) = v.tables[v.current].syms
    BY <1>7, <1>8, <1>9 DEF SymsOf
  <2> QED
    BY <1>10, <2>1, <2>2, FoundHere
<1>12. PICK syms : PutInto(v, ft', syms) /\ Added(v.tables[tab].syms, syms, cs, Len(heap))
  BY <1>1, <1>3, <1>6, <1>9, PutAllIs
<1>13. /\ ft'.map = ft.map
       /\ \A j \in DOMAIN ft.tables :
             ft'.tables[j].syms = IF j = tab THEN syms ELSE ft.tables[j].syms
  BY <1>8, <1>9, <1>12 DEF PutInto, SameFrames
<1>14. \A b : TableOf(prog, ft', b) = TableOf(prog, ft, b)
  BY <1>13 DEF TableOf
<1>15. SymsOf(prog, ft', pc) = syms /\ v.tables[tab].syms = SymsOf(prog, ft, pc)
  BY <1>7, <1>8, <1>9, <1>13, <1>14 DEF SymsOf
<1>16. ASSUME NEW b \in BlocksIn(prog), b # pc
       PROVE  SymsOf(prog, ft', b) = SymsOf(prog, ft, b)
  <2>1. TableOf(prog, ft, b) # tab /\ TableOf(prog, ft, b) \in DOMAIN ft.tables
    BY <1>3, <1>4, <1>16, TablesDiffer, CellIn
  <2> QED
    BY <1>13, <1>14, <2>1 DEF SymsOf
<1>17. Revalued(heap, H) /\ Len(H) = Len(heap) /\ IsSeq(H)
  <2>1. H = [h \in DOMAIN heap |-> H[h]]
    OBVIOUS
  <2>2. \A h \in DOMAIN heap : H[h] = heap[h] \/ \E w : H[h] = WithValue(heap[h], w)
    BY DEF WithValue
  <2> HIDE DEF H
  <2>3. Revalued(heap, H)
    BY <2>1, <2>2 DEF Revalued
  <2> QED
    BY <1>3, <2>3, SymbolsRevalued DEF Symbols
<1>18. IsSeq(new) /\ Len(new) = Len(cs)
  BY <1>6, CapturedAre DEF Symbols
<1>19. /\ \A h \in 1 .. Len(heap) : heap'[h] = H[h]
       /\ \A k \in 1 .. Len(cs) : heap'[Len(heap) + k] = Captured(cs[k], fn)
  <2>1. \A k \in 1 .. Len(cs) : new[k] = Captured(cs[k], fn)
    BY <1>6 DEF IsSeq
  <2> HIDE DEF H, new
  <2> QED
    BY <1>1, <1>17, <1>18, <2>1, Joined
<1>20. ASSUME NEW h \in 1 .. Len(heap)
       PROVE  /\ heap'[h].kind = heap[h].kind /\ heap'[h].name = heap[h].name
              /\ heap'[h].block = heap[h].block
              /\ heap[h].block # pc \/ heap[h].name \notin Vars => heap'[h].value = heap[h].value
  <2>1. CASE \E n \in names : Lookup(v, n) = h
    <3>1. heap[h].block = pc /\ heap[h].name \in Vars
      BY <1>2, <1>4, <1>11, <2>1 DEF GenInv, Tagged, SymIn
    <3>2. heap'[h] = [heap[h] EXCEPT !.value =
                        Value("alloca", pc, CHOOSE n \in names : Lookup(v, n) = h, fn)]
      BY <1>3, <1>19, <2>1
    <3> QED
      BY <3>1, <3>2
  <2>2. CASE ~(\E n \in names : Lookup(v, n) = h)
    BY <1>3, <1>19, <2>2
  <2> QED
    BY <2>1, <2>2
<1>21. ASSUME NEW n \in names
       PROVE  heap'[SymsOf(prog, ft, pc)[n]].value = Value("alloca", pc, n, FnOf(pc))
  <2> DEFINE h == SymsOf(prog, ft, pc)[n]
             c == CHOOSE m \in names : Lookup(v, m) = h
  <2>1. n \in DOMAIN SymsOf(prog, ft, pc) /\ h \in 1 .. Len(heap) /\ Lookup(v, n) = h
    BY <1>4, <1>11, CellIn
  <2>2. c \in names /\ Lookup(v, c) = h
    BY <2>1
  <2>3. c \in DOMAIN SymsOf(prog, ft, pc) /\ SymsOf(prog, ft, pc)[c] = h
    BY <1>11, <2>2
  <2>4. heap'[h] = [heap[h] EXCEPT !.value = Value("alloca", pc, c, fn)]
    BY <1>3, <1>19, <2>1
  <2> HIDE DEF c
  <2>5. c = n
    BY <1>2, <1>4, <2>1, <2>3, CellsDiffer DEF GenInv
  <2>6. IsSymbol(heap[h])
    BY <1>3, <2>1 DEF Symbols
  <2> QED
    BY <1>5, <2>4, <2>5, <2>6 DEF IsSymbol
<1>22. ASSUME NEW n \in caps
       PROVE  heap'[syms[n]] = Captured(n, FnOf(pc))
  <2>1. n \in Values(cs) /\ syms[n] \in Len(heap) + 1 .. Len(heap) + Len(cs)
        /\ cs[syms[n] - Len(heap)] = n
    BY <1>6, <1>12 DEF Added
  <2> DEFINE k == syms[n] - Len(heap)
  <2>2. k \in 1 .. Len(cs) /\ Len(heap) + k = syms[n]
    BY <1>3, <1>6, <2>1 DEF IsSeq
  <2> HIDE DEF k, new, H, cs, caps
  <2>3. heap'[Len(heap) + k] = Captured(cs[k], fn) /\ cs[k] = n
    BY <1>19, <2>1, <2>2 DEF k
  <2> QED
    BY <1>5, <2>2, <2>3
<1>23. /\ DOMAIN syms = DOMAIN SymsOf(prog, ft, pc) \cup caps
       /\ \A n \in DOMAIN syms \ caps : syms[n] = SymsOf(prog, ft, pc)[n]
  BY <1>6, <1>12, <1>15 DEF Added
<1> HIDE DEF H, new, cs, names
<1> QED
  BY <1>15, <1>16, <1>20, <1>21, <1>22, <1>23 DEF names

LEMMA GenerateProcedureStores ==
  ASSUME TextInv, TextInv', FrameInv, CapsInv, UniqueInv, ProcsInv, GenInv, Distinct,
         GenerateProcedure
  PROVE  GenInv' /\ ProcsInv'
<1> DEFINE caps == heap[Lookup(ft, Name)].caps
           Was(b) == SymsOf(prog, ft, b)
           Now(b) == SymsOf(prog, ft', b)
<1>1. /\ phase = "generate" /\ prog' = prog /\ pc \in ProceduresIn(prog) /\ pc # 1
      /\ caps \cap Vars = Captures(pc)
      /\ \A n \in caps : FromAround(n, pc)
  BY ProcedureEntered
<1>2. /\ IsText(prog) /\ pc \in 1 .. Len(prog) /\ Len(prog) \in Nat /\ Inspected = Len(prog) + 1
  BY <1>1, GeneratorAt
<1>3. pc \in BlocksIn(prog)
  BY <1>1 DEF BlocksIn
<1>4. pc' = pc + 1 /\ phase' = phase
  BY DEF GenerateProcedure, Onward
<1>5. /\ \A b \in BlocksIn(prog) : b # pc => Now(b) = Was(b)
      /\ DOMAIN Now(pc) = DOMAIN Was(pc) \cup caps
      /\ \A n \in caps : heap'[Now(pc)[n]] = Captured(n, FnOf(pc))
      /\ \A n \in DOMAIN Now(pc) \ caps : Now(pc)[n] = Was(pc)[n]
      /\ \A h \in 1 .. Len(heap) :
            /\ heap'[h].kind = heap[h].kind /\ heap'[h].name = heap[h].name
            /\ heap'[h].block = heap[h].block
            /\ heap[h].block # pc => heap'[h].value = heap[h].value
      /\ \A n \in DOMAIN prog[pc].decs :
            heap'[Was(pc)[n]].value = Value("alloca", pc, n, FnOf(pc))
  BY ProcedureStores
<1>6. /\ \A b \in BlocksIn(prog) : \A n : n \in DOMAIN Was(b) =>
            /\ Was(b)[n] \in 1 .. Len(heap)
            /\ heap[Was(b)[n]].block = b /\ heap[Was(b)[n]].name = n
      /\ \A b \in BlocksIn(prog), n \in Vars : VarRight(n, b, pc)
  BY <1>1, CellIn DEF GenInv, Tagged, SymIn
<1>7. \A n \in caps : /\ Captured(n, FnOf(pc)).kind = "var" /\ Captured(n, FnOf(pc)).block = pc
                      /\ Captured(n, FnOf(pc)).name = n
                      /\ Captured(n, FnOf(pc)).value = Value("captured", pc, n, FnOf(pc))
  BY DEF Captured, Symbol
<1>8. \A n : n \in DOMAIN prog[pc].decs \/ HeadingsOf(n, pc) # {} => n \notin caps
  BY <1>1, <1>2, HomeIs DEF FromAround
<1> HIDE DEF caps
<1>9. ASSUME NEW b \in BlocksIn(prog), NEW n \in DOMAIN Now(b)
      PROVE  heap'[Now(b)[n]].block = b /\ heap'[Now(b)[n]].name = n
  <2>1. CASE b # pc \/ n \notin caps
    <3>1. n \in DOMAIN Was(b) /\ Now(b)[n] = Was(b)[n]
      <4> HIDE DEF Now, Was
      <4> QED
        BY <1>5, <1>9, <2>1
    <3> HIDE DEF Now, Was
    <3> QED
      BY <1>5, <1>6, <3>1
  <2>2. CASE b = pc /\ n \in caps
    BY <1>5, <1>7, <2>2
  <2> QED
    BY <2>1, <2>2
<1>10. \A b : BlocksIn(prog)' = BlocksIn(prog) /\ SymsOf(prog, ft, b)' = Now(b)
  BY <1>1 DEF BlocksIn, ProceduresIn, SymsOf, TableOf, FrameOf
<1>11. Tagged'
  BY <1>9, <1>10 DEF Tagged, SymIn
<1>12. ASSUME NEW b \in BlocksIn(prog), NEW n \in Vars
       PROVE  VarRight(n, b, pc)'
  <2> DEFINE right ==
               /\ n \in DOMAIN Now(b) <=>
                    n \in DOMAIN prog[b].decs \/ (b < pc + 1 /\ b # 1 /\ n \in Captures(b))
               /\ n \in DOMAIN Now(b) =>
                    /\ heap'[Now(b)[n]].kind = IF n \in DOMAIN prog[b].decs THEN prog[b].decs[n] ELSE "var"
                    /\ b < pc + 1 => heap'[Now(b)[n]].value = StorageFor(n, b)
  <2>0. b \in 1 .. Len(prog) /\ VarRight(n, b, pc)
    BY <1>2, <1>6, BlocksAre
  <2>1. ASSUME b # pc PROVE right
    <3>1. b < pc + 1 <=> b < pc
      BY <1>2, <2>0, <2>1
    <3>2. Now(b) = Was(b)
      BY <1>5, <2>1
    <3>3. n \in DOMAIN Was(b) => /\ heap'[Was(b)[n]].kind = heap[Was(b)[n]].kind
                                 /\ heap'[Was(b)[n]].value = heap[Was(b)[n]].value
      <4> HIDE DEF Was, Now
      <4> QED
        BY <1>5, <1>6, <2>1
    <3> QED
      BY <2>0, <3>1, <3>2, <3>3 DEF VarRight, SymIn
  <2>2. ASSUME b = pc PROVE right
    <3>1. n \in DOMAIN Was(pc) <=> n \in DOMAIN prog[pc].decs
      BY <1>2, <2>0, <2>2 DEF VarRight
    <3>2. n \in caps <=> n \in Captures(pc)
      BY <1>1
    <3>3. pc < pc + 1
      BY <1>2
    <3>4. CASE n \in DOMAIN prog[pc].decs
      <4>1. n \notin caps /\ n \in DOMAIN Now(pc) /\ Now(pc)[n] = Was(pc)[n]
        BY <1>5, <1>8, <3>1, <3>4
      <4>2. Home(n, pc) = pc
        BY <1>2, <3>4, HomeIs
      <4>3. StorageFor(n, pc) = Value("alloca", pc, n, FnOf(pc))
        BY <1>1, <4>2 DEF StorageFor
      <4>4. heap'[Was(pc)[n]].kind = prog[pc].decs[n]
        <5>1. heap[Was(pc)[n]].kind = prog[pc].decs[n]
          BY <2>0, <2>2, <3>1, <3>4 DEF VarRight, SymIn
        <5>2. Was(pc)[n] \in 1 .. Len(heap)
          BY <1>3, <1>6, <3>1, <3>4
        <5> QED
          BY <1>5, <5>1, <5>2
      <4>5. heap'[Was(pc)[n]].value = StorageFor(n, pc)
        BY <1>5, <3>4, <4>3
      <4> HIDE DEF Now, Was
      <4> QED
        BY <2>2, <3>4, <4>1, <4>4, <4>5
    <3>5. CASE n \notin DOMAIN prog[pc].decs
      <4>1. n \in DOMAIN Now(pc) <=> n \in caps
        BY <1>5, <3>1, <3>5
      <4>2. n \in caps => StorageFor(n, pc) = Value("captured", pc, n, FnOf(pc))
        <5>1. n \in caps => Home(n, pc) \notin {1, pc}
          BY <3>2 DEF Captures
        <5> QED
          BY <5>1 DEF StorageFor
      <4>3. n \in caps => /\ heap'[Now(pc)[n]].kind = "var"
                          /\ heap'[Now(pc)[n]].value = StorageFor(n, pc)
        BY <1>5, <1>7, <4>2
      <4> HIDE DEF Now, Was
      <4> QED
        BY <1>1, <2>2, <3>2, <3>3, <3>5, <4>1, <4>3
    <3> QED
      BY <3>4, <3>5
  <2> HIDE DEF Now
  <2>3. right
    BY <2>1, <2>2
  <2>4. /\ Captures(b)' = Captures(b) /\ StorageFor(n, b)' = StorageFor(n, b)
        /\ prog[b].decs' = prog[b].decs
    BY <1>1, CapturesMeant, StorageStays
  <2>5. SymIn(n, b)' = heap'[Now(b)[n]]
    BY <1>10 DEF SymIn
  <2> QED
    BY <1>4, <1>10, <2>3, <2>4, <2>5 DEF VarRight
<1>13. ASSUME NEW j \in ProceduresIn(prog)
       PROVE  heap'[Now(prog[j].block)[prog[j].name]].kind = "proc"
  <2> DEFINE b == prog[j].block
             n == prog[j].name
  <2>1. j \in HeadingsIn(prog) /\ j \in 1 .. Len(prog)
    BY DEF ProceduresIn, HeadingsIn
  <2>2. b \in BlocksIn(prog) /\ n \in DOMAIN Was(b)
    BY <1>1, <2>1, ProcedureNamed
  <2>3. heap[Was(b)[n]].kind = "proc"
    BY <1>1, <1>2, <2>1 DEF ProcsInv, ProcsBefore, SymIn
  <2>4. j \in HeadingsOf(n, b)
    BY <1>2, <2>1 DEF HeadingsOf, HeadingsIn, IsText, IsSeq
  <2>5. b # pc \/ n \notin caps
    BY <1>8, <2>4
  <2> HIDE DEF b, n, Now, Was
  <2>6. Now(b)[n] = Was(b)[n] /\ Was(b)[n] \in 1 .. Len(heap)
    BY <1>5, <1>6, <2>2, <2>5
  <2>7. heap'[Now(b)[n]].kind = "proc"
    BY <1>5, <2>3, <2>6
  <2> QED
    BY <2>7 DEF b, n
<1>14. ProcsInv'
  <2>1. ProceduresIn(prog)' = ProceduresIn(prog) /\ \A j : prog[j].block' = prog[j].block /\ prog[j].name' = prog[j].name
    BY <1>1 DEF ProceduresIn
  <2> QED
    BY <1>10, <1>13, <2>1 DEF ProcsInv, ProcsBefore, SymIn
<1> QED
  BY <1>10, <1>11, <1>12, <1>14 DEF GenInv

-----------------------------------------------------------------------------
(* Every step keeps what the frames have.                                  *)

LEMMA GeneratorSteps ==
  ASSUME Generator
  PROVE  /\ phase = "generate" /\ phase' \in {"generate", "done", "aborted"}
         /\ prog' = prog /\ errors' = errors
BY DEF Generator, GenerateModule, GenerateProcedure, GenerateForward, GenerateBegin, GenerateUse,
       GenerateCall, GenerateReturn, GenerateEndProcedure, GenerateEndModule, Abort, Generating, Onward

LEMMA ParserPhases ==
  ASSUME TextInv, Parser
  PROVE  phase = "parse" /\ (phase' = "parse" \/ (phase' = "inspect" /\ pc' = 1))
BY ParserSteps DEF ParserStep

LEMMA GenKept ==
  ASSUME TextInv, TextInv', FrameInv, HoldInv, TypedInv, CapsInv, UniqueInv, ProcsInv, GenInv,
         Distinct, [Next]_vars
  PROVE  GenInv'
<1> SUFFICES ASSUME phase' = "generate"
             PROVE  GenInv'
  BY DEF GenInv
<1>1. CASE Parser
  BY <1>1, ParserPhases
<1>2. CASE Inspector
  <2>1. InspectEndModule
    BY <1>2 DEF Inspector, Inspecting, Onward, InspectModule, InspectProcedure, InspectForward,
                InspectBegin, InspectUse, InspectCall, InspectReturn, InspectEndProcedure
  <2> QED
    BY <2>1, GenStarts
<1>3. CASE GenerateModule
  BY <1>3, GenerateModuleStores
<1>4. CASE GenerateProcedure
  BY <1>4, GenerateProcedureStores
<1>5. CASE Generator /\ ~GenerateModule /\ ~GenerateProcedure
  <2>1. Passing
    BY <1>5, GeneratorPasses
  <2>2. phase = "generate" /\ prog' = prog
    BY <1>5, GeneratorSteps
  <2> QED
    BY <2>1, <2>2, GenStays DEF Passing
<1>6. CASE UNCHANGED vars
  <2>1. \A b : SymsOf(prog, ft, b)' = SymsOf(prog, ft, b) /\ BlocksIn(prog)' = BlocksIn(prog)
    BY <1>6 DEF vars, SymsOf, TableOf, FrameOf, BlocksIn, ProceduresIn
  <2>2. \A n, b : /\ SymIn(n, b)' = SymIn(n, b)
                  /\ Captures(b)' = Captures(b) /\ StorageFor(n, b)' = StorageFor(n, b)
    BY <1>6, <2>1, CapturesMeant, StorageStays DEF vars, SymIn
  <2>3. \A n, b : VarRight(n, b, pc)' <=> VarRight(n, b, pc)
    BY <1>6, <2>1, <2>2 DEF vars, VarRight
  <2>4. Tagged' <=> Tagged
    BY <2>1, <2>2 DEF Tagged
  <2> QED
    BY <1>6, <2>1, <2>3, <2>4 DEF vars, GenInv
<1> QED
  BY <1>1, <1>2, <1>3, <1>4, <1>5, <1>6 DEF Next

LEMMA ProcsKept ==
  ASSUME TextInv, TextInv', FrameInv, CapsInv, BodyInv, UniqueInv, ProcsInv, GenInv, Distinct,
         [Next]_vars
  PROVE  ProcsInv'
<1>1. CASE Parser
  <2>1. Inspected' = 1 \/ phase' = "parse"
    BY <1>1, ParserPhases DEF Inspected
  <2>2. \A j \in ProceduresIn(prog') : ~(j < 1)
    BY DEF ProceduresIn
  <2> QED
    BY <2>1, <2>2 DEF ProcsInv, ProcsBefore
<1>2. CASE Inspector
  BY <1>2, InspectorProcs
<1>3. CASE GenerateProcedure
  BY <1>3, GenerateProcedureStores
<1>4. ASSUME prog' = prog, phase = "generate", phase' = "generate",
             ft'.map = ft.map, \A j \in DOMAIN ft.tables : ft'.tables[j].syms = ft.tables[j].syms,
             \A h \in 1 .. Len(heap) : heap'[h].kind = heap[h].kind
      PROVE  ProcsInv'
  <2>1. ASSUME NEW j \in ProceduresIn(prog)
        PROVE  SymIn(prog[j].name, prog[j].block).kind' = "proc"
    <3> DEFINE b == prog[j].block
               n == prog[j].name
    <3>0. IsText(prog) /\ j \in 1 .. Len(prog)
      BY <1>4 DEF ProceduresIn, TextInv, Walking, IsText, IsSeq
    <3>1. j \in HeadingsIn(prog)
      BY <3>0 DEF ProceduresIn, HeadingsIn
    <3>2. j < Inspected
      BY <1>4, <3>0 DEF Inspected, IsText
    <3>3. b \in BlocksIn(prog) /\ n \in DOMAIN SymsOf(prog, ft, b)
      BY <1>4, <3>1, ProcedureNamed
    <3>4. ProcsBefore(Inspected)
      BY <1>4 DEF ProcsInv
    <3>5. SymIn(n, b).kind = "proc"
      BY <3>2, <3>4 DEF ProcsBefore
    <3>6. SymsOf(prog, ft, b)[n] \in 1 .. Len(heap) /\ TableOf(prog, ft, b) \in DOMAIN ft.tables
      BY <1>4, <3>3, CellIn
    <3>7. TableOf(prog, ft, b)' = TableOf(prog, ft, b)
      BY <1>4 DEF TableOf, FrameOf
    <3>8. SymsOf(prog, ft, b)' = SymsOf(prog, ft, b)
      BY <1>4, <3>6, <3>7 DEF SymsOf
    <3> QED
      BY <1>4, <3>5, <3>6, <3>8 DEF SymIn
  <2>2. ProceduresIn(prog') = ProceduresIn(prog) /\ prog' = prog
    BY <1>4
  <2> QED
    BY <2>1, <2>2 DEF ProcsInv, ProcsBefore
<1>5. CASE GenerateModule
  <2>1. /\ phase = "generate" /\ phase' = phase /\ prog' = prog /\ ft' = ft
        /\ Revalued(heap, heap')
    BY <1>5, GeneratorValues DEF GenerateModule, Generating, Onward
  <2>2. Symbols(heap)
    BY <2>1, GeneratorAt
  <2>3. \A h \in 1 .. Len(heap) : heap'[h].kind = heap[h].kind
    BY <2>1, <2>2, CapturesRevalued DEF CapturesStay, SymbolsStay
  <2> QED
    BY <1>4, <2>1, <2>3
<1>6. CASE Generator /\ ~GenerateModule /\ ~GenerateProcedure
  <2>1. CASE phase' = "generate"
    <3>1. Passing
      BY <1>6, <2>1, GeneratorPasses
    <3>2. phase = "generate" /\ prog' = prog
      BY <1>6, GeneratorSteps
    <3> QED
      BY <1>4, <2>1, <3>1, <3>2 DEF Passing
  <2>2. CASE phase' # "generate"
    BY <1>6, <2>2, GeneratorSteps DEF ProcsInv
  <2> QED
    BY <2>1, <2>2
<1>7. CASE UNCHANGED vars
  <2>1. \A b : SymsOf(prog, ft, b)' = SymsOf(prog, ft, b)
    BY <1>7 DEF vars, SymsOf, TableOf, FrameOf
  <2>2. \A n, b : SymIn(n, b)' = SymIn(n, b)
    BY <1>7, <2>1 DEF vars, SymIn
  <2>3. Inspected' = Inspected /\ prog' = prog /\ phase' = phase
    BY <1>7 DEF vars, Inspected
  <2> QED
    BY <2>2, <2>3 DEF ProcsInv, ProcsBefore, ProceduresIn
<1> QED
  BY <1>1, <1>2, <1>3, <1>5, <1>6, <1>7 DEF Next

LEMMA ResolvedKept ==
  ASSUME TextInv, TextInv', FrameInv, HoldInv, BodyInv, Distinct, ResolvedInv, [Next]_vars
  PROVE  ResolvedInv'
<1>1. CASE Parser
  <2>1. Inspected' = 1 \/ phase' = "parse"
    BY <1>1, ParserPhases DEF Inspected
  <2>2. \A j \in 1 .. Len(prog') : ~(j < 1)
    OBVIOUS
  <2> QED
    BY <2>1, <2>2 DEF ResolvedInv, ResolvedBefore
<1>2. CASE Inspector
  BY <1>2, InspectorResolves
<1>3. ASSUME prog' = prog, errors' = errors, Inspected' = Inspected, phase # "parse" \/ phase' = phase
      PROVE  ResolvedInv'
  <2>1. \A n, b : Homes(n, b)' = Homes(n, b)
    BY <1>3, ScopesStay
  <2>2. \A j, n : Uses(j, n)' <=> Uses(j, n)
    BY <1>3 DEF Uses
  <2> QED
    BY <1>3, <2>1, <2>2 DEF ResolvedInv, ResolvedBefore
<1>4. CASE Generator
  <2>1. phase = "generate" /\ phase' # "inspect" /\ prog' = prog /\ errors' = errors
    BY <1>4, GeneratorSteps
  <2> QED
    BY <1>3, <2>1 DEF Inspected
<1>5. CASE UNCHANGED vars
  BY <1>3, <1>5 DEF vars, Inspected
<1> QED
  BY <1>1, <1>2, <1>4, <1>5 DEF Next

LEMMA NoCodeKept ==
  ASSUME TextInv, NoCodeInv, [Next]_vars
  PROVE  NoCodeInv'
<1>1. CASE Parser
  <2>1. code' = code
    BY <1>1 DEF Parser, ParseProcedure, ParseForward, ParseBegin, ParseUse, ParseCall, ParseReturn,
                ParseStatement, ParseEndProcedure, ParseEndModule, Parsing
  <2> QED
    BY <1>1, <2>1, ParserPhases DEF NoCodeInv
<1>2. CASE Inspector
  BY <1>2, InspectorAt DEF NoCodeInv
<1>3. CASE Generator
  <2>1. DOMAIN code' = DOMAIN code
    BY <1>3 DEF Generator, GenerateModule, GenerateProcedure, GenerateForward, GenerateBegin,
            GenerateUse, GenerateCall, GenerateReturn, GenerateEndProcedure, GenerateEndModule, Abort, Emit
  <2> QED
    BY <1>3, <2>1, GeneratorSteps DEF NoCodeInv
<1>4. CASE UNCHANGED vars
  BY <1>4 DEF vars, NoCodeInv
<1> QED
  BY <1>1, <1>2, <1>3, <1>4 DEF Next

-----------------------------------------------------------------------------
(* What the statements address.                                            *)

AccessOK(a) ==
    LET b == prog[a.at].block
    IN  Home(a.name, b) \in {1, b} \/ KindOf(a.name, b) \in {"var", "value"}
          => AccessRight(a)

CallOK(c) ==
    \A n \in DOMAIN c.passed \cap Vars :
        Supplied(c, n) => c.passed[n] = StorageFor(n, prog[c.at].block)

(* A variable that is meant in block b is declared where it is meant. *)
LEMMA DeclaredAtHome ==
  ASSUME IsText(prog), NEW b \in 1 .. Len(prog), NEW n \in Vars, Homes(n, b) # {}
  PROVE  /\ Home(n, b) \in Around(b) /\ Home(n, b) \in 1 .. b
         /\ n \in DOMAIN prog[Home(n, b)].decs
<1>1. Home(n, b) \in Homes(n, b) /\ Home(n, b) \in 1 .. b
  BY HomeIs
<1>2. HeadingsOf(n, Home(n, b)) = {}
  BY VarsNotHeaded
<1> QED
  BY <1>1, <1>2 DEF Homes

(* A frame that holds a variable is that of a block that declares it or    *)
(* captures it, so the block in which it is meant is no further out.       *)
LEMMA HolderInside ==
  ASSUME TextInv, FrameInv, GenInv, Distinct, phase = "generate", NEW n \in Vars,
         NEW k \in 1 .. Len(open), n \in DOMAIN SymsOf(prog, ft, open[k].item)
  PROVE  LET d == open[k].item
         IN  /\ d \in BlocksIn(prog) /\ d \in 1 .. Len(prog)
             /\ Homes(n, Here) # {}
             /\ n \in DOMAIN prog[d].decs => d <= Home(n, Here)
             /\ n \notin DOMAIN prog[d].decs =>
                  n \in Captures(d) /\ Home(n, d) <= Home(n, Here) /\ Home(n, d) \in 2 .. d
<1> DEFINE d == open[k].item
<1>1. /\ IsText(prog) /\ IsOpen(prog, open) /\ Top(open) = Here /\ Here \in BlocksIn(prog)
      /\ Len(prog) \in Nat
  BY GeneratorAt
<1>2. d \in BlocksIn(prog) /\ d \in 1 .. Len(prog) /\ Here \in 1 .. Len(prog)
  BY <1>1, OpenBlocks, BlocksAre
<1>3. Around(d) \subseteq Around(Here)
  BY <1>1, AroundOuter
<1>4. VarRight(n, d, pc)
  BY <1>2 DEF GenInv
<1>5. n \in DOMAIN prog[d].decs \/ n \in Captures(d)
  BY <1>4 DEF VarRight
<1>6. Homes(n, d) \subseteq Homes(n, Here)
  BY <1>3 DEF Homes
<1>7. Homes(n, d) # {}
  BY <1>1, <1>2, <1>5, HomeIs DEF Captures
<1>8. /\ Home(n, d) \in Homes(n, d) /\ Home(n, d) \in 1 .. d
      /\ n \in DOMAIN prog[d].decs => Home(n, d) = d
  BY <1>1, <1>2, <1>7, HomeIs
<1>9. Homes(n, Here) # {} /\ Home(n, d) <= Home(n, Here)
  BY <1>1, <1>2, <1>6, <1>8, HomeIs
<1>10. n \notin DOMAIN prog[d].decs => n \in Captures(d) /\ Home(n, d) # 1
  BY <1>5 DEF Captures
<1> HIDE DEF d
<1>11. n \notin DOMAIN prog[d].decs => Home(n, d) \in 2 .. d
  BY <1>2, <1>8, <1>10
<1> QED
  BY <1>2, <1>8, <1>9, <1>10, <1>11 DEF d

(* A variable that the block of the statement declares or captures is      *)
(* found in the frame of the block.                                        *)
LEMMA OwnFound ==
  ASSUME TextInv, FrameInv, GenInv, Distinct, phase = "generate", pc # 1, NEW n \in Vars,
         n \in DOMAIN prog[Here].decs \/ n \in Captures(Here)
  PROVE  /\ Found(ft, n) /\ SymbolOf(ft, n).value = StorageFor(n, Here)
         /\ SymbolOf(ft, n).kind =
              IF n \in DOMAIN prog[Here].decs THEN prog[Here].decs[n] ELSE "var"
<1>1. /\ IsText(prog) /\ IsOpen(prog, open) /\ Top(open) = Here /\ Here \in BlocksIn(prog)
      /\ Framed(prog, open, ft)
  BY GeneratorAt
<1>2. Here \in 1 .. pc - 1 /\ Here \in 1 .. Len(prog) /\ pc \in Nat
  BY PassAt
<1>3. VarRight(n, Here, pc)
  BY <1>1 DEF GenInv
<1>4. n \in Captures(Here) => Here # 1
  <2>1. ASSUME n \in Captures(Here), Here = 1
        PROVE  FALSE
    <3>1. Homes(n, 1) # {} /\ Home(n, 1) # 1
      BY <2>1 DEF Captures
    <3>2. Home(n, 1) \in 1 .. 1
      BY <1>1, <1>2, <2>1, <3>1, HomeIs
    <3> QED
      BY <3>1, <3>2
  <2> QED
    BY <2>1
<1>5. Here < pc
  BY <1>2
<1>6. n \in DOMAIN SymsOf(prog, ft, Here)
  BY <1>3, <1>4, <1>5 DEF VarRight
<1>7. Found(ft, n) /\ SymbolOf(ft, n) = SymIn(n, Here)
  BY <1>1, <1>6, FoundTop DEF SymbolOf, SymIn
<1> QED
  BY <1>3, <1>5, <1>6, <1>7 DEF VarRight

(* A variable of the module that is meant in a procedure. *)
LEMMA GlobalFound ==
  ASSUME TextInv, FrameInv, GenInv, Distinct, phase = "generate", pc # 1, NEW n \in Vars,
         Homes(n, Here) # {}, Home(n, Here) = 1
  PROVE  /\ SymbolOf(ft, n).value = StorageFor(n, 1)
         /\ SymbolOf(ft, n).kind = prog[1].decs[n]
<1>1. /\ IsText(prog) /\ IsOpen(prog, open) /\ Top(open) = Here /\ Here \in BlocksIn(prog)
      /\ Framed(prog, open, ft) /\ Nested(ft) /\ Len(prog) \in Nat
  BY GeneratorAt
<1>2. Here \in 1 .. pc - 1 /\ Here \in 1 .. Len(prog) /\ pc \in Nat
  BY PassAt
<1>3. n \in DOMAIN prog[1].decs
  BY <1>1, <1>2, DeclaredAtHome
<1>4. 1 \in BlocksIn(prog) /\ VarRight(n, 1, pc) /\ 1 < pc
  BY <1>2 DEF BlocksIn, GenInv
<1>5. n \in DOMAIN SymsOf(prog, ft, 1)
  BY <1>3, <1>4 DEF VarRight
<1>6. 1 \in 1 .. Len(open) /\ open[1].item = 1
  BY <1>1 DEF IsOpen, IsSeq
<1>7. PICK k \in 1 .. Len(open) : /\ n \in DOMAIN SymsOf(prog, ft, open[k].item)
                                  /\ Lookup(ft, n) = SymsOf(prog, ft, open[k].item)[n]
  BY <1>1, <1>5, <1>6, FoundIn
<1>8. open[k].item = 1
  <2> DEFINE d == open[k].item
  <2>1. /\ d \in 1 .. Len(prog)
        /\ n \in DOMAIN prog[d].decs => d <= 1
        /\ n \notin DOMAIN prog[d].decs => Home(n, d) <= 1 /\ Home(n, d) \in 2 .. d
    BY <1>7, HolderInside
  <2> HIDE DEF d
  <2>2. d = 1
    BY <2>1
  <2> QED
    BY <2>2 DEF d
<1>9. SymbolOf(ft, n) = SymIn(n, 1)
  BY <1>7, <1>8 DEF SymbolOf, SymIn
<1> QED
  BY <1>3, <1>4, <1>5, <1>9 DEF VarRight

LEMMA AccessedRight ==
  ASSUME TextInv, FrameInv, ResolvedInv, GenInv, Distinct, phase = "generate", pc # 1,
         NEW n \in Vars, Uses(pc, n)
  PROVE  AccessOK(Access(ft, n))
<1> DEFINE b == Here
           a == Access(ft, n)
<1>1. /\ IsText(prog) /\ pc \in 1 .. Len(prog) /\ Len(prog) \in Nat /\ ~errors
      /\ Inspected = Len(prog) + 1
  BY GeneratorAt
<1>2. prog[pc].block = b /\ b \in 1 .. Len(prog) /\ b \in 1 .. pc - 1
  BY PassAt
<1>3. Homes(n, b) # {}
  BY <1>1, <1>2 DEF ResolvedInv, ResolvedBefore
<1>4. n \in DOMAIN prog[Home(n, b)].decs /\ Home(n, b) \in 1 .. b
  BY <1>1, <1>2, <1>3, DeclaredAtHome
<1>5. /\ a.at = pc /\ a.name = n /\ a.value = SymbolOf(ft, n).value
      /\ a.load = (SymbolOf(ft, n).kind = "VAR")
  BY DEF Access
<1> HIDE DEF a, b
<1>6. SUFFICES ASSUME Home(n, b) \in {1, b} \/ KindOf(n, b) \in {"var", "value"}
               PROVE  /\ SymbolOf(ft, n).value = StorageFor(n, b)
                      /\ SymbolOf(ft, n).kind = "VAR" <=> KindOf(n, b) = "VAR"
  <2> HIDE DEF StorageFor, KindOf, SymbolOf
  <2>1. \/ Home(n, b) \in {1, b} \/ KindOf(n, b) \in {"var", "value"} => AccessRight(a)
        \/ ~(Home(n, b) \in {1, b} \/ KindOf(n, b) \in {"var", "value"})
    BY <1>2, <1>5, <1>6 DEF AccessRight
  <2> QED
    BY <1>2, <1>5, <2>1 DEF AccessOK, a
<1>7. CASE Home(n, b) = b
  <2>1. n \in DOMAIN prog[b].decs
    BY <1>4, <1>7
  <2> QED
    BY <1>7, <2>1, OwnFound DEF KindOf, b
<1>8. CASE Home(n, b) # b /\ Home(n, b) # 1
  <2>1. n \in UsedIn(b)
    <3>1. pc \in {i \in DOMAIN prog : prog[i].block = b}
      BY <1>1, <1>2 DEF IsText, IsSeq
    <3>2. n # NoName
      BY NotVars
    <3> QED
      BY <3>1, <3>2 DEF UsedIn, Uses
  <2>2. KindOf(n, b) \in {"var", "value"}
    BY <1>6, <1>8
  <2>3. n \in Captures(b)
    BY <1>3, <1>8, <2>1, <2>2 DEF Captures
  <2>4. n \notin DOMAIN prog[b].decs
    BY <1>1, <1>2, <1>8, HomeIs
  <2>5. SymbolOf(ft, n).value = StorageFor(n, b) /\ SymbolOf(ft, n).kind = "var"
    BY <2>3, <2>4, OwnFound DEF b
  <2> QED
    BY <2>2, <2>5
<1>9. CASE Home(n, b) = 1 /\ b # 1
  <2>1. SymbolOf(ft, n).value = StorageFor(n, 1) /\ SymbolOf(ft, n).kind = KindOf(n, b)
    BY <1>3, <1>9, GlobalFound DEF KindOf, b
  <2>2. Home(n, 1) = 1
    BY <1>1, <1>4, <1>9, HomeIs
  <2>3. StorageFor(n, 1) = Value("global", 1, n, Main) /\ StorageFor(n, b) = Value("global", 1, n, Main)
    BY <1>9, <2>2 DEF StorageFor
  <2> QED
    BY <2>1, <2>3
<1> QED
  BY <1>7, <1>8, <1>9

(* A variable of a closure is passed as the block of the call has it. *)
LEMMA PassedRight ==
  ASSUME TextInv, FrameInv, GenInv, Distinct, phase = "generate", pc # 1,
         NEW n \in Vars, Found(ft, n), Home(n, Here) = Here \/ n \in Captures(Here)
  PROVE  SymbolOf(ft, n).value = StorageFor(n, Here)
<1>1. /\ IsText(prog) /\ IsOpen(prog, open) /\ Framed(prog, open, ft) /\ Nested(ft)
      /\ Here \in 1 .. Len(prog)
  BY GeneratorAt, PassAt
<1>2. PICK k \in 1 .. Len(open) : n \in DOMAIN SymsOf(prog, ft, open[k].item)
  BY <1>1, FoundIn
<1>3. Homes(n, Here) # {}
  BY <1>2, HolderInside
<1>4. Home(n, Here) = Here => n \in DOMAIN prog[Here].decs
  BY <1>1, <1>3, DeclaredAtHome
<1> QED
  BY <1>4, OwnFound

(* What is in the code stays right, since the text does not change. *)
LEMMA CodeStays ==
  ASSUME prog' = prog, OwnAccess, ClosureSupplied,
         \A a \in code'.accesses : a \in code.accesses \/ AccessOK(a),
         \A c \in code'.calls : c \in code.calls \/ CallOK(c)
  PROVE  OwnAccess' /\ ClosureSupplied'
<1>1. \A n, b : /\ Home(n, b)' = Home(n, b) /\ Captures(b)' = Captures(b)
                /\ StorageFor(n, b)' = StorageFor(n, b)
  BY ScopesStay, CapturesMeant, StorageStays
<1>2. \A n, b : KindOf(n, b)' = KindOf(n, b)
  BY <1>1 DEF KindOf
<1>3. \A i : Procedure(i)' = Procedure(i)
  <2>1. \A n, b : HeadingsOf(n, b)' = HeadingsOf(n, b)
    BY DEF HeadingsOf
  <2>2. \A i : Called(i)' = Called(i)
    BY <1>1, <2>1 DEF Called
  <2> QED
    BY <2>2 DEF Procedure
<1>4. \A a : AccessRight(a)' <=> AccessRight(a)
  BY <1>1, <1>2 DEF AccessRight
<1>5. \A c, n : Supplied(c, n)' <=> Supplied(c, n)
  BY <1>1, <1>3 DEF Supplied
<1>6. \A a \in code'.accesses : AccessOK(a)
  BY DEF OwnAccess, AccessOK
<1>7. \A c \in code'.calls : CallOK(c)
  BY DEF ClosureSupplied, CallOK
<1>8. OwnAccess'
  BY <1>1, <1>2, <1>4, <1>6 DEF OwnAccess, AccessOK
<1>9. ClosureSupplied'
  BY <1>1, <1>5, <1>7 DEF ClosureSupplied, CallOK
<1> QED
  BY <1>8, <1>9

LEMMA CalledRight ==
  ASSUME TextInv, TextInv', FrameInv, BodyInv, ResolvedInv, GenInv, NoCodeInv, Distinct,
         GenerateCall
  PROVE  /\ \A a \in code'.accesses : a \in code.accesses \/ AccessOK(a)
         /\ \A c \in code'.calls : c \in code.calls \/ CallOK(c)
<1> DEFINE callee == SymbolOf(ft, Name)
           arg    == prog[pc].arg
           passed == [n \in callee.caps |-> SymbolOf(ft, n).value]
           c      == [at |-> pc, fn |-> callee.value.fn, passed |-> passed]
<1>1. phase = "generate" /\ prog[pc].op = "call"
  BY DEF GenerateCall, Generating, At
<1>2. IsText(prog) /\ pc \in 1 .. Len(prog) /\ pc # 1 /\ prog[pc].block = Here
  BY <1>1, PassAt DEF IsText
<1>3. arg \in Vars \cup {NoName}
  BY <1>2 DEF IsText, ItemOK
<1>4. arg # NoName => AccessOK(Access(ft, arg))
  <2>1. Uses(pc, arg)
    BY DEF Uses
  <2> QED
    BY <1>1, <1>2, <1>3, <2>1, AccessedRight
<1>5. CallOK(c)
  <2> SUFFICES ASSUME NEW n \in DOMAIN passed \cap Vars, Supplied(c, n)
               PROVE  passed[n] = StorageFor(n, Here)
    BY <1>2 DEF CallOK
  <2>1. Found(ft, n) /\ passed[n] = SymbolOf(ft, n).value
    BY DEF GenerateCall, Callable
  <2>2. Home(n, Here) = Here \/ n \in Captures(Here)
    BY <1>2 DEF Supplied
  <2> QED
    BY <1>1, <1>2, <2>1, <2>2, PassedRight
<1> HIDE DEF c
<1>6. code' = [code EXCEPT
                 !.accesses = @ \cup (IF arg = NoName THEN {} ELSE {Access(ft, arg)}),
                 !.calls = @ \cup {c}]
  BY DEF GenerateCall, c
<1> HIDE DEF arg
<1>7. ASSUME NEW a \in code'.accesses, a \notin code.accesses
      PROVE  arg # NoName /\ a = Access(ft, arg)
  <2>1. code'.accesses = code.accesses \cup (IF arg = NoName THEN {} ELSE {Access(ft, arg)})
    BY <1>6, <1>7 DEF NoCodeInv
  <2> QED
    BY <1>7, <2>1
<1>8. ASSUME NEW d \in code'.calls, d \notin code.calls
      PROVE  d = c
  <2>1. code'.calls = code.calls \cup {c}
    BY <1>6, <1>8 DEF NoCodeInv
  <2> QED
    BY <1>8, <2>1
<1> QED
  BY <1>4, <1>5, <1>7, <1>8

LEMMA CodeKept ==
  ASSUME TextInv, TextInv', FrameInv, BodyInv, ResolvedInv, GenInv, NoCodeInv, Distinct,
         OwnAccess, ClosureSupplied, [Next]_vars
  PROVE  OwnAccess' /\ ClosureSupplied'
<1>1. CASE phase \in {"parse", "inspect"}
  <2>1. code' = NoCode
    <3>1. CASE Parser
      BY <1>1, <3>1 DEF NoCodeInv, Parser, ParseProcedure, ParseForward, ParseBegin, ParseUse,
              ParseCall, ParseReturn, ParseStatement, ParseEndProcedure, ParseEndModule, Parsing
    <3>2. CASE Inspector
      BY <1>1, <3>2, InspectorAt DEF NoCodeInv
    <3>3. CASE Generator
      BY <1>1, <3>3, GeneratorSteps
    <3>4. CASE UNCHANGED vars
      BY <1>1, <3>4 DEF NoCodeInv, vars
    <3> QED
      BY <3>1, <3>2, <3>3, <3>4 DEF Next
  <2> QED
    BY <2>1 DEF NoCode, OwnAccess, ClosureSupplied
<1>2. CASE UNCHANGED vars
  BY <1>2, CodeStays DEF vars
<1>3. CASE GenerateUse
  <2>1. /\ phase = "generate" /\ prog[pc].op = "use" /\ prog' = prog
        /\ code' = [code EXCEPT !.accesses = @ \cup {Access(ft, Name)}]
    BY <1>3 DEF GenerateUse, Generating, At, Emit
  <2>2. IsText(prog) /\ pc \in 1 .. Len(prog) /\ pc # 1
    BY <2>1, PassAt DEF IsText
  <2>3. Name \in Vars /\ Uses(pc, Name)
    BY <2>1, <2>2 DEF IsText, ItemOK, Name, Uses
  <2>4. AccessOK(Access(ft, Name))
    BY <2>1, <2>2, <2>3, AccessedRight
  <2>5. \A a \in code'.accesses : a \in code.accesses \/ a = Access(ft, Name)
    BY <2>1
  <2>6. \A c \in code'.calls : c \in code.calls
    BY <2>1
  <2> QED
    BY <2>1, <2>4, <2>5, <2>6, CodeStays
<1>4. CASE GenerateCall
  <2>1. prog' = prog
    BY <1>4 DEF GenerateCall, Generating
  <2> QED
    BY <1>4, <2>1, CalledRight, CodeStays
<1>5. CASE Generator /\ ~GenerateUse /\ ~GenerateCall
  <2>1. \A a \in code'.accesses : a \in code.accesses
    BY <1>5 DEF NoCodeInv, Generator, GenerateModule, GenerateProcedure, GenerateForward, GenerateBegin,
            GenerateReturn, GenerateEndProcedure, GenerateEndModule, Abort, Emit
  <2>2. \A c \in code'.calls : c \in code.calls
    BY <1>5 DEF NoCodeInv, Generator, GenerateModule, GenerateProcedure, GenerateForward, GenerateBegin,
            GenerateReturn, GenerateEndProcedure, GenerateEndModule, Abort, Emit
  <2>3. prog' = prog
    BY <1>5, GeneratorSteps
  <2> QED
    BY <2>1, <2>2, <2>3, CodeStays
<1>6. Parser \/ Inspector => phase \in {"parse", "inspect"}
  BY ParserPhases, InspectorAt
<1> QED
  BY <1>1, <1>2, <1>3, <1>4, <1>5, <1>6 DEF Next

-----------------------------------------------------------------------------
(* The storage.                                                            *)

StorageInv ==
    /\ ClosureInv /\ UniqueInv /\ ProcsInv /\ ResolvedInv /\ GenInv /\ NoCodeInv
    /\ OwnAccess /\ ClosureSupplied

LEMMA StorageInit == Init /\ Distinct => StorageInv
<1> SUFFICES ASSUME Init, Distinct
             PROVE  StorageInv
  OBVIOUS
<1>1. ClosureInv
  BY ClosureInit
<1>2. /\ phase = "parse" /\ code = NoCode /\ Len(prog) = 1
      /\ prog[1].op = "module"
  BY DEF Init, Heading
<1>3. UniqueInv
  BY <1>2 DEF UniqueInv, HeadingsIn
<1>4. OwnAccess /\ ClosureSupplied
  BY <1>2 DEF NoCode, OwnAccess, ClosureSupplied
<1> QED
  BY <1>1, <1>2, <1>3, <1>4 DEF StorageInv, NoCode, ProcsInv, ResolvedInv, GenInv, NoCodeInv

LEMMA StorageStep == StorageInv /\ Distinct /\ [Next]_vars => StorageInv'
<1> SUFFICES ASSUME StorageInv, Distinct, [Next]_vars
             PROVE  StorageInv'
  OBVIOUS
<1>1. ClosureInv'
  BY ClosureStep DEF StorageInv
<1>2. /\ TextInv /\ TextInv' /\ FrameInv /\ HoldInv /\ BodyInv /\ TypedInv /\ CapsInv
      /\ UniqueInv /\ ProcsInv /\ ResolvedInv /\ GenInv /\ NoCodeInv
      /\ OwnAccess /\ ClosureSupplied
  BY <1>1 DEF StorageInv, ClosureInv
<1>3. UniqueInv'
  BY <1>2, UniqueKept
<1>4. ProcsInv'
  BY <1>2, ProcsKept
<1>5. ResolvedInv'
  BY <1>2, ResolvedKept
<1>6. GenInv'
  BY <1>2, GenKept
<1>7. NoCodeInv'
  BY <1>2, NoCodeKept
<1>8. OwnAccess' /\ ClosureSupplied'
  BY <1>2, CodeKept
<1> QED
  BY <1>1, <1>3, <1>4, <1>5, <1>6, <1>7, <1>8 DEF StorageInv

(* In every program whose procedures have different names, the code of a   *)
(* procedure addresses a variable of its own, one that it captures and one *)
(* of the module in the storage that its function has for it, and loads a  *)
(* VAR parameter of its own first: whatever the lookups of the generator   *)
(* find in frames that two passes before it have filled, and though a      *)
(* captured name shadows the name that it stands for.                      *)
THEOREM AccessesRight ==
  ASSUME Distinct
  PROVE  Spec => []OwnAccess
<1>1. Init => StorageInv
  BY StorageInit
<1>2. StorageInv /\ [Next]_vars => StorageInv'
  BY StorageStep
<1>3. StorageInv => OwnAccess
  BY DEF StorageInv
<1> QED
  BY <1>1, <1>2, <1>3, PTL DEF Spec

(* In every program whose procedures have different names, a call hands    *)
(* over each variable that the callee captured, and that the caller        *)
(* declares or captures itself, from the storage of the caller's function. *)
THEOREM ClosuresSupplied ==
  ASSUME Distinct
  PROVE  Spec => []ClosureSupplied
<1>1. Init => StorageInv
  BY StorageInit
<1>2. StorageInv /\ [Next]_vars => StorageInv'
  BY StorageStep
<1>3. StorageInv => ClosureSupplied
  BY DEF StorageInv
<1> QED
  BY <1>1, <1>2, <1>3, PTL DEF Spec

-----------------------------------------------------------------------------
(* The calls: what the name of a procedure is when the generator comes to  *)
(* a statement.  The frame of the block that declares the procedure holds  *)
(* its symbol, which is a function from the forward declaration or the     *)
(* first statement of the procedure on.  A procedure that was neither when *)
(* the inspector came to the end of another may have been captured by that *)
(* one: there its name is no function, and the declaration is still to     *)
(* come.                                                                   *)

(* The headings of the procedure n come after block b's. *)
Late(n, b) == \A j \in HeadingsIn(prog) : prog[j].name = n => b < j

Begun(j, i)     == \E k \in 1 .. Len(prog) : k < i /\ prog[k].op = "begin" /\ prog[k].block = j
Forwarded(n, i) == \E f \in HeadingsIn(prog) : f < i /\ prog[f].op = "forward" /\ prog[f].name = n
Entering(n, i)  == \E j \in ProceduresIn(prog) : prog[j].name = n /\ Begun(j, i)

(* The symbols that the inspector made for the headings before i are       *)
(* global, and it found the names of the procedures that are called.       *)
GlobalBefore(i) == \A j \in HeadingsIn(prog) : j < i => SymIn(prog[j].name, prog[j].block).global
GlobalInv == phase = "inspect" => GlobalBefore(pc)

CallsBefore(i) ==
    \A j \in 1 .. Len(prog) : j < i /\ prog[j].op = "call" =>
        Homes(prog[j].name, prog[j].block) # {}
CallsInv == phase # "parse" /\ ~errors => CallsBefore(Inspected)

(* Only procedures capture; what has a value has it from the generator.    *)
Plain(x)  == x.kind # "proc" => x.caps = {}
Unused(x) == Plain(x) /\ x.value = Null

PlainInv ==
    \A h \in 1 .. Len(heap) :
        IF phase \in {"parse", "inspect"} THEN Unused(heap[h]) ELSE Plain(heap[h])

(* The procedures that are captured are declared later. *)
LateInv ==
    phase # "parse" => \A h \in 1 .. Len(heap), b \in ProceduresIn(prog) :
        heap[h].kind = "proc" /\ heap[h].name = prog[b].name =>
            \A n \in heap[h].caps \ Vars : Late(n, b)

(* The items since the heading of an open procedure are not outside of it. *)
WithinInv ==
    phase \in {"inspect", "generate"} =>
      \A k \in 2 .. Len(open), i \in 1 .. Len(prog) :
          open[k].item < i /\ i <= pc => open[k].item <= prog[i].block

(* The handlers know the functions of their procedures. *)
FnsInv == phase = "generate" => \A k \in 2 .. Len(open) : open[k].fn = FnOf(open[k].item)

(* Among the statements of a block, its begin is behind. *)
BegunInv == phase = "generate" /\ InBody => Begun(prog[pc].block, pc)

(* The value of the symbol of heading j when the generator is at item i. *)
NameRight(j, i) ==
    LET n == prog[j].name
        v == SymIn(n, prog[j].block).value
    IN  /\ \A p \in ProceduresIn(prog) : prog[p].name = n /\ Begun(p, i) => v = Function(FnOf(p))
        /\ Forwarded(n, i) /\ ~Entering(n, i) => v = Function(<< n >>)
        /\ v.what = "function" => Forwarded(n, i) \/ Entering(n, i)

(* Other names of procedures in the frame of block b are captured ones.    *)
CapturedNames(b) ==
    \A n \in DOMAIN SymsOf(prog, ft, b) \ (Vars \cup {ClosureArg}) :
        \/ HeadingsOf(n, b) # {}
        \/ SymIn(n, b).value.what # "function" /\ FromAround(n, b) /\ Late(n, b)

NamesInv ==
    phase = "generate" =>
      /\ \A j \in HeadingsIn(prog) : NameRight(j, pc)
      /\ \A b \in BlocksIn(prog) : CapturedNames(b)

(* The functions in the code belong to the headings, their bodies to the   *)
(* procedures, and the calls reach them.                                   *)
Meant(c) ==
    /\ c.at \in Calls
    /\ \/ \E j \in Called(c.at) : prog[j].op = "forward" /\ prog[j].block # 1
       \/ \A j \in Called(c.at) : prog[j].op = "forward"
       \/ c.fn = FnOf(Procedure(c.at)) /\ Procedure(c.at) \in ProceduresIn(prog)

FunctionFor(f, j) ==
    f[Len(f)] = prog[j].name /\ (prog[j].op = "forward" => f = << prog[j].name >>)

FunctionsInv ==
    phase \in {"generate", "done"} =>
      LET at == IF phase = "done" THEN Len(prog) + 1 ELSE pc IN
      /\ \A f \in DOMAIN code.funcs : \E j \in HeadingsIn(prog) : j < at /\ FunctionFor(f, j)
      /\ \A j \in ProceduresIn(prog) : j < at => [fn |-> FnOf(j), item |-> j] \in code.bodies
      /\ \A c \in code.calls : Meant(c)
      /\ \A i \in Calls : i < at => Ready(i)

-----------------------------------------------------------------------------
(* The handlers that are open.                                             *)

(* A step of a pass that goes on to the next item: the handlers that stay  *)
(* open are those that were, but one that the step opens.                  *)
LEMMA HandlersStay ==
  ASSUME TextInv, TextInv', PassStep, phase' = phase, pc' = pc + 1
  PROVE  /\ prog' = prog /\ pc \in 1 .. Len(prog) /\ pc + 1 \in 1 .. Len(prog)
         /\ Len(prog) \in Nat
         /\ prog[pc + 1].block = Top(open') /\ IsOpen(prog, open')
         /\ \A k \in 2 .. Len(open') :
              \/ k \in 2 .. Len(open) /\ open'[k] = open[k]
              \/ prog[pc].op = "procedure" /\ open'[k].item = pc /\ open'[k] = open'[Len(open')]
         /\ \A k \in 2 .. Len(open') : open'[k].item \in Nat /\ open'[k].item <= Top(open')
<1>1. /\ prog' = prog /\ phase # "parse" /\ phase' # "parse"
      /\ \/ UNCHANGED open
         \/ prog[pc].op = "procedure" /\ \E s, f : open' = Entered(pc, s, f)
         \/ Len(open) # 1 /\ open' = Left
  <2>1. phase \in {"inspect", "generate"} /\ prog' = prog
    BY DEF PassStep
  <2>2. pc' # 1
    BY <2>1 DEF TextInv, Walking
  <2> QED
    BY <2>1, <2>2 DEF PassStep
<1>2. /\ Walking(prog, pc, open) /\ Walking(prog, pc + 1, open')
  BY <1>1 DEF TextInv
<1>3. /\ pc \in 1 .. Len(prog) /\ pc + 1 \in 1 .. Len(prog) /\ Len(prog) \in Nat
      /\ prog[pc + 1].block = Top(open') /\ IsOpen(prog, open') /\ IsOpen(prog, open)
  BY <1>2 DEF Walking, IsText, IsSeq
<1>4. Len(open) \in Nat /\ Len(open) >= 1 /\ Len(open') \in Nat /\ Len(open') >= 1
      /\ IsSeq(open)
  BY <1>3 DEF IsOpen, IsSeq
<1>5. ASSUME NEW k \in 2 .. Len(open')
      PROVE  \/ k \in 2 .. Len(open) /\ open'[k] = open[k]
             \/ prog[pc].op = "procedure" /\ open'[k].item = pc /\ open'[k] = open'[Len(open')]
  <2>1. CASE open' = open
    BY <2>1
  <2>2. ASSUME prog[pc].op = "procedure", NEW s, NEW f, open' = Entered(pc, s, f)
        PROVE  \/ k \in 2 .. Len(open) /\ open'[k] = open[k]
               \/ prog[pc].op = "procedure" /\ open'[k].item = pc /\ open'[k] = open'[Len(open')]
    <3> DEFINE e == [item |-> pc, sym |-> s, fn |-> f, stats |-> FALSE]
    <3>1. open' = Append(open, e) /\ e.item = pc
      BY <2>2 DEF Entered
    <3> HIDE DEF e
    <3>2. /\ Len(open') = Len(open) + 1 /\ open'[Len(open) + 1] = e
          /\ \A j \in 1 .. Len(open) : open'[j] = open[j]
      BY <1>4, <3>1, Appended
    <3>3. CASE k = Len(open) + 1
      BY <2>2, <3>1, <3>2, <3>3
    <3>4. CASE k # Len(open) + 1
      <4>1. k \in 2 .. Len(open) /\ k \in 1 .. Len(open)
        BY <1>4, <3>2, <3>4
      <4> QED
        BY <3>2, <4>1
    <3> QED
      BY <3>3, <3>4
  <2>3. CASE Len(open) # 1 /\ open' = Left
    <3>1. Len(open') = Len(open) - 1 /\ \A j \in 1 .. Len(open) - 1 : open'[j] = open[j]
      BY <1>4, <2>3, Fronted DEF Left
    <3>2. k \in 1 .. Len(open) - 1 /\ k \in 2 .. Len(open)
      BY <1>4, <3>1
    <3> QED
      BY <3>1, <3>2
  <2> QED
    BY <1>1, <2>1, <2>2, <2>3
<1>6. ASSUME NEW k \in 2 .. Len(open')
      PROVE  open'[k].item \in Nat /\ open'[k].item <= Top(open')
  <2>1. k \in 1 .. Len(open') /\ Len(open') \in 1 .. Len(open')
    BY <1>4
  <2>2. open'[k].item \in 1 .. Len(prog) /\ open'[Len(open')].item \in 1 .. Len(prog)
    BY <1>3, <2>1 DEF IsOpen
  <2>3. k < Len(open') => open'[k].item < open'[Len(open')].item
    BY <1>3, <2>1 DEF IsOpen
  <2> QED
    BY <1>3, <1>4, <2>2, <2>3 DEF Top
<1> QED
  BY <1>1, <1>3, <1>5, <1>6

LEMMA WithinKept ==
  ASSUME TextInv, TextInv', WithinInv, [Next]_vars
  PROVE  WithinInv'
<1>1. CASE Parser
  <2>1. ParserStep
    BY <1>1, ParserSteps
  <2>2. phase' = "parse" \/ open' = OnlyModule
    BY <2>1 DEF ParserStep
  <2>3. CASE phase' = "parse"
    BY <2>3 DEF WithinInv
  <2>4. CASE open' = OnlyModule
    <3>1. Len(open') = 1
      BY <2>4 DEF OnlyModule
    <3> QED
      BY <3>1 DEF WithinInv
  <2> QED
    BY <2>2, <2>3, <2>4
<1>2. CASE Inspector \/ Generator
  <2>1. PassStep
    BY <1>2, PassSteps
  <2>2. CASE phase' = phase /\ pc' = pc + 1
    <3>1. phase \in {"inspect", "generate"} /\ prog' = prog
      BY <2>1 DEF PassStep
    <3> SUFFICES ASSUME NEW k \in 2 .. Len(open'), NEW i \in 1 .. Len(prog),
                        open'[k].item < i, i <= pc + 1
                 PROVE  open'[k].item <= prog[i].block
      BY <2>2, <3>1 DEF WithinInv
    <3>2. /\ pc \in 1 .. Len(prog) /\ Len(prog) \in Nat
          /\ prog[pc + 1].block = Top(open')
          /\ \/ k \in 2 .. Len(open) /\ open'[k] = open[k]
             \/ prog[pc].op = "procedure" /\ open'[k].item = pc
          /\ open'[k].item \in Nat /\ open'[k].item <= Top(open')
      BY <2>1, <2>2, HandlersStay
    <3>3. CASE i = pc + 1
      BY <3>2, <3>3
    <3>4. CASE i # pc + 1
      <4>1. i <= pc /\ open'[k].item # pc
        BY <3>2, <3>4
      <4>2. k \in 2 .. Len(open) /\ open'[k] = open[k]
        BY <3>2, <4>1
      <4> QED
        BY <3>1, <4>1, <4>2 DEF WithinInv
    <3> QED
      BY <3>3, <3>4
  <2>3. CASE phase' \in {"aborted", "done", "failed"}
    BY <2>3 DEF WithinInv
  <2>4. CASE open' = OnlyModule
    <3>1. Len(open') = 1
      BY <2>4 DEF OnlyModule
    <3> QED
      BY <3>1 DEF WithinInv
  <2> QED
    BY <2>1, <2>2, <2>3, <2>4 DEF PassStep
<1>3. CASE UNCHANGED vars
  BY <1>3 DEF vars, WithinInv
<1> QED
  BY <1>1, <1>2, <1>3 DEF Next

LEMMA FnsKept ==
  ASSUME TextInv, TextInv', FnsInv, [Next]_vars
  PROVE  FnsInv'
<1> SUFFICES ASSUME phase' = "generate"
             PROVE  \A k \in 2 .. Len(open') : (open[k].fn = FnOf(open[k].item))'
  BY DEF FnsInv
<1>1. CASE Parser
  BY <1>1, ParserPhases
<1>2. CASE Inspector \/ Generator
  <2>1. PassStep
    BY <1>2, PassSteps
  <2>2. CASE phase' = phase /\ pc' = pc + 1
    <3> TAKE k \in 2 .. Len(open')
    <3>1. /\ prog' = prog
          /\ \/ k \in 2 .. Len(open) /\ open'[k] = open[k]
             \/ prog[pc].op = "procedure" /\ open'[k].item = pc /\ open'[k] = open'[Len(open')]
      BY <2>1, <2>2, HandlersStay
    <3>2. (open[k].fn = FnOf(open[k].item))' <=> open'[k].fn = FnOf(open'[k].item)
      BY <3>1 DEF FnOf
    <3>3. CASE k \in 2 .. Len(open) /\ open'[k] = open[k]
      BY <2>2, <3>2, <3>3 DEF FnsInv
    <3>4. CASE prog[pc].op = "procedure" /\ open'[k].item = pc /\ open'[k] = open'[Len(open')]
      <4>1. GenerateProcedure
        BY <1>2, <2>2, <3>4 DEF Inspector, Inspecting, InspectModule, InspectProcedure,
           InspectForward, InspectBegin, InspectUse, InspectCall, InspectReturn,
           InspectEndProcedure, InspectEndModule, Generator, GenerateModule, GenerateForward,
           GenerateBegin, GenerateUse, GenerateCall, GenerateReturn, GenerateEndProcedure,
           GenerateEndModule, Abort, Generating, At
      <4>2. open' = Entered(pc, Lookup(ft, Name), NestedName(Name))
        BY <4>1 DEF GenerateProcedure
      <4>3. IsSeq(open)
        BY <2>2 DEF TextInv, Walking, IsOpen
      <4>4. open'[Len(open')].fn = NestedName(Name)
        <5> DEFINE e == [item |-> pc, sym |-> Lookup(ft, Name), fn |-> NestedName(Name),
                         stats |-> FALSE]
        <5>1. open' = Append(open, e) /\ e.fn = NestedName(Name)
          BY <4>2 DEF Entered
        <5> HIDE DEF e
        <5>2. Len(open') = Len(open) + 1 /\ open'[Len(open) + 1] = e
          BY <4>3, <5>1, Appended
        <5> QED
          BY <5>1, <5>2
      <4>5. NestedName(Name) = FnOf(pc)
        BY <4>1, NestedNameIs
      <4> QED
        BY <3>2, <3>4, <4>4, <4>5
    <3> QED
      BY <3>1, <3>3, <3>4
  <2>3. CASE open' = OnlyModule
    <3>1. Len(open') = 1
      BY <2>3 DEF OnlyModule
    <3> QED
      BY <3>1
  <2> QED
    BY <2>1, <2>2, <2>3 DEF PassStep
<1>3. CASE UNCHANGED vars
  <2>1. open' = open /\ prog' = prog /\ phase = "generate"
    BY <1>3 DEF vars
  <2>2. \A k \in 2 .. Len(open) : open[k].fn = FnOf(open[k].item)
    BY <2>1 DEF FnsInv
  <2> TAKE k \in 2 .. Len(open')
  <2>4. (open[k].fn = FnOf(open[k].item))' <=> open[k].fn = FnOf(open[k].item)
    BY <2>1 DEF FnOf
  <2> QED
    BY <2>1, <2>2, <2>4
<1> QED
  BY <1>1, <1>2, <1>3 DEF Next

(* The generator is among the statements of a block behind its begin. *)
LEMMA BegunKept ==
  ASSUME TextInv, TextInv', BodyInv, BegunInv, [Next]_vars
  PROVE  BegunInv'
<1> SUFFICES ASSUME phase' = "generate", InBody'
             PROVE  Begun(prog[pc].block, pc)'
  BY DEF BegunInv
<1>1. CASE Parser
  BY <1>1, ParserPhases
<1>2. CASE Inspector \/ Generator
  <2>1. PassStep
    BY <1>2, PassSteps
  <2>2. CASE phase' = phase /\ pc' = pc + 1
    <3>1. /\ prog' = prog /\ pc \in 1 .. Len(prog) /\ pc + 1 \in 1 .. Len(prog)
          /\ Len(prog) \in Nat
      BY <2>1, <2>2, HandlersStay
    <3>2. prog[pc].op \in BodyOps
      BY <2>2, <3>1 DEF InBody
    <3>3. IsText(prog) /\ Bodies(prog)
      BY <2>2 DEF TextInv, Walking, BodyInv
    <3>4. prog[pc + 1].block = prog[pc].block
      <4>1. prog[pc + 1].block = Following(prog, pc)
        <5>1. pc \in 1 .. Len(prog) - 1
          BY <3>1
        <5> QED
          BY <3>3, <5>1 DEF IsText
      <4> QED
        BY <3>2, <4>1 DEF Following, IsBlock, BodyOps
    <3>5. \E k \in 1 .. Len(prog) : k < pc + 1 /\ prog[k].op = "begin" /\ prog[k].block = prog[pc].block
      <4>1. CASE prog[pc].op = "begin"
        <5>1. pc < pc + 1
          BY <3>1
        <5> QED
          BY <3>1, <4>1, <5>1
      <4>2. CASE prog[pc].op # "begin"
        <5>1. InBody
          BY <3>1, <3>2, <3>3, <4>2 DEF Bodies, BodyOps, InBody
        <5>2. PICK k \in 1 .. Len(prog) : k < pc /\ prog[k].op = "begin" /\ prog[k].block = prog[pc].block
          BY <2>2, <5>1 DEF BegunInv, Begun
        <5>3. k < pc + 1
          BY <3>1, <5>2
        <5> QED
          BY <5>2, <5>3
      <4> QED
        BY <4>1, <4>2
    <3> QED
      BY <2>2, <3>1, <3>4, <3>5 DEF Begun
  <2>3. CASE pc' = 1
    BY <2>3 DEF InBody
  <2> QED
    BY <2>1, <2>2, <2>3 DEF PassStep
<1>3. CASE UNCHANGED vars
  BY <1>3 DEF vars, BegunInv, Begun, InBody
<1> QED
  BY <1>1, <1>2, <1>3 DEF Next

-----------------------------------------------------------------------------
(* The symbols that are no procedures.                                     *)

LEMMA NewUnused ==
  /\ \A kind, b, n : Unused(Symbol(kind, b, n))
  /\ \A kind, i : Unused(ProcSymbol(kind, i))
  /\ \A n, fn : Plain(Captured(n, fn))
<1>1. ASSUME NEW kind, NEW b, NEW n
      PROVE  Unused(Symbol(kind, b, n))
  BY DEF Unused, Plain, Symbol
<1>2. ASSUME NEW kind, NEW i
      PROVE  Unused(ProcSymbol(kind, i))
  BY DEF Unused, Plain, ProcSymbol, Symbol
<1>3. ASSUME NEW n, NEW fn
      PROVE  Plain(Captured(n, fn))
  BY DEF Plain, Captured, Symbol
<1> QED
  BY <1>1, <1>2, <1>3

(* The symbols S after those of H, none of which has been used. *)
LEMMA UnusedJoin ==
  ASSUME NEW H, IsSeq(H), NEW S, IsSeq(S),
         \A h \in 1 .. Len(H) : Unused(H[h]), \A k \in 1 .. Len(S) : Unused(S[k])
  PROVE  \A h \in 1 .. Len(H \o S) : Unused((H \o S)[h])
<1>1. /\ Len(H \o S) = Len(H) + Len(S) /\ Len(H) \in Nat /\ Len(S) \in Nat
      /\ \A k \in 1 .. Len(H) : (H \o S)[k] = H[k]
      /\ \A k \in 1 .. Len(S) : (H \o S)[Len(H) + k] = S[k]
  BY Joined DEF IsSeq
<1> TAKE h \in 1 .. Len(H \o S)
<1>2. CASE h \in 1 .. Len(H)
  BY <1>1, <1>2
<1>3. CASE h \notin 1 .. Len(H)
  <2>1. h - Len(H) \in 1 .. Len(S) /\ Len(H) + (h - Len(H)) = h
    BY <1>1, <1>3
  <2>2. (H \o S)[Len(H) + (h - Len(H))] = S[h - Len(H)]
    BY <1>1, <2>1
  <2> QED
    BY <2>1, <2>2
<1> QED
  BY <1>2, <1>3

LEMMA UnusedAppend ==
  ASSUME NEW H, IsSeq(H), NEW x, \A h \in 1 .. Len(H) : Unused(H[h]), Unused(x)
  PROVE  \A h \in 1 .. Len(Append(H, x)) : Unused(Append(H, x)[h])
<1>1. /\ Len(Append(H, x)) = Len(H) + 1 /\ Append(H, x)[Len(H) + 1] = x /\ Len(H) \in Nat
      /\ \A k \in 1 .. Len(H) : Append(H, x)[k] = H[k]
  BY Appended DEF IsSeq
<1> TAKE h \in 1 .. Len(Append(H, x))
<1>2. h \in 1 .. Len(H) \/ h = Len(H) + 1
  BY <1>1
<1> QED
  BY <1>1, <1>2

LEMMA UntypedUnused ==
  ASSUME NEW ns, IsSeq(ns), NEW decs, NEW b
  PROVE  /\ IsSeq(UntypedSymbols(ns, decs, b))
         /\ \A k \in 1 .. Len(UntypedSymbols(ns, decs, b)) : Unused(UntypedSymbols(ns, decs, b)[k])
<1>1. /\ IsSeq(UntypedSymbols(ns, decs, b)) /\ Len(UntypedSymbols(ns, decs, b)) = Len(ns)
  BY UntypedAre DEF Symbols
<1>2. \A k \in 1 .. Len(ns) : \E kind : UntypedSymbols(ns, decs, b)[k] = Symbol(kind, b, ns[k])
  BY DEF IsSeq, UntypedSymbols
<1> QED
  BY <1>1, <1>2, NewUnused

LEMMA TypedUnused ==
  ASSUME NEW ns, IsSeq(ns), NEW g
  PROVE  /\ IsSeq(TypedSymbols(ns, g))
         /\ \A k \in 1 .. Len(TypedSymbols(ns, g)) : Unused(TypedSymbols(ns, g)[k])
<1>1. /\ IsSeq(TypedSymbols(ns, g)) /\ Len(TypedSymbols(ns, g)) = Len(ns)
  BY TypedAre DEF Symbols
<1>2. \A k \in 1 .. Len(ns) : \E kind :
         TypedSymbols(ns, g)[k] = [Symbol(kind, pc, ns[k]) EXCEPT !.global = g]
  BY DEF IsSeq, TypedSymbols
<1>3. \A kind, n : Unused([Symbol(kind, pc, n) EXCEPT !.global = g])
  BY DEF Unused, Plain, Symbol
<1>4. ASSUME NEW k \in 1 .. Len(ns)
      PROVE  Unused(TypedSymbols(ns, g)[k])
  <2>1. PICK kind : TypedSymbols(ns, g)[k] = [Symbol(kind, pc, ns[k]) EXCEPT !.global = g]
    BY <1>2
  <2> QED
    BY <1>3, <2>1
<1> QED
  BY <1>1, <1>4

LEMMA PlainInit == Init => PlainInv
<1> SUFFICES ASSUME Init
             PROVE  PlainInv
  OBVIOUS
<1>1. PICK decs \in DecsOf(Kinds \cap {"var", "const"}) :
        phase = "parse" /\ heap = UntypedSymbols(SetToSeq(DOMAIN decs), decs, 1)
  BY DEF Init
<1>2. DOMAIN decs \subseteq Idents
  BY DEF DecsOf, Idents
<1> QED
  BY <1>1, <1>2, InOrder, UntypedUnused DEF PlainInv

LEMMA ParserPlain ==
  ASSUME TextInv, FrameInv, PlainInv, Parser
  PROVE  PlainInv'
<1>1. phase = "parse" /\ phase' \in {"parse", "inspect"}
  BY ParserPhases
<1>2. IsSeq(heap) /\ \A h \in 1 .. Len(heap) : Unused(heap[h])
  BY <1>1 DEF PlainInv, FrameInv, Scoped, Symbols
<1>3. ASSUME NEW n \in Range(ProcNames), NEW decs \in DecsOf(Kinds), NEW result,
             ParseProcedure(n, decs, result)
      PROVE  \A h \in 1 .. Len(heap') : Unused(heap'[h])
  <2> DEFINE ns == SetToSeq(Locals(decs))
  <2>1. heap' = heap \o UntypedSymbols(ns, decs, pc + 1)
    BY <1>3 DEF ParseProcedure
  <2>2. Locals(decs) \subseteq Idents
    BY DEF DecsOf, Idents, Locals
  <2>3. IsSeq(ns)
    BY <2>2, InOrder
  <2> HIDE DEF ns
  <2> QED
    BY <1>2, <2>1, <2>3, UntypedUnused, UnusedJoin
<1>4. ASSUME NEW b, NEW n, heap' = Append(heap, Symbol("fwd", b, n))
      PROVE  \A h \in 1 .. Len(heap') : Unused(heap'[h])
  BY <1>2, <1>4, NewUnused, UnusedAppend
<1>5. CASE ParseEndProcedure \/ \E n, decs, result : ParseForward(n, decs, result)
  <2>1. \E b, n : heap' = Append(heap, Symbol("fwd", b, n))
    BY <1>5 DEF ParseEndProcedure, ParseForward
  <2> QED
    BY <1>1, <1>4, <2>1 DEF PlainInv
<1>6. CASE heap' = heap
  BY <1>1, <1>2, <1>6 DEF PlainInv
<1>7. CASE \E n \in Range(ProcNames), decs \in DecsOf(Kinds), result \in Results :
              ParseProcedure(n, decs, result)
  BY <1>1, <1>3, <1>7 DEF PlainInv
<1> QED
  BY <1>5, <1>6, <1>7 DEF Parser, ParseBegin, ParseUse, ParseCall, ParseReturn, ParseStatement,
     ParseEndModule

LEMMA InspectorPlain ==
  ASSUME TextInv, TextInv', FrameInv, OpenSymbols, PlainInv, Inspector
  PROVE  PlainInv'
<1>1. phase = "inspect" /\ phase' \in {"inspect", "generate", "failed"} /\ prog' = prog
  BY InspectorAt
<1>2. /\ IsSeq(heap) /\ \A h \in 1 .. Len(heap) : Unused(heap[h])
  BY <1>1 DEF PlainInv, FrameInv, Scoped, Symbols
<1>3. \A x : Unused(x) => Plain(x)
  BY DEF Unused
<1> DEFINE ns == SetToSeq(DOMAIN prog[pc].decs)
<1>4. IsSeq(ns)
  <2>1. DOMAIN prog[pc].decs \subseteq Idents
    BY <1>1, PassAt, NamesHere
  <2> QED
    BY <2>1, InOrder
<1> HIDE DEF ns
<1>5. CASE InspectModule
  <2>1. heap' = heap \o TypedSymbols(ns, TRUE)
    BY <1>5 DEF InspectModule, ns
  <2> QED
    BY <1>2, <1>3, <1>4, <2>1, TypedUnused, UnusedJoin DEF PlainInv
<1>6. CASE InspectProcedure
  <2> DEFINE H == Append(heap, ProcSymbol("proc", pc))
  <2>1. heap' = H \o TypedSymbols(ns, FALSE)
    BY <1>6 DEF InspectProcedure, ns
  <2>2. IsSeq(H) /\ \A h \in 1 .. Len(H) : Unused(H[h])
    BY <1>2, NewUnused, UnusedAppend, Appended
  <2> HIDE DEF H
  <2> QED
    BY <1>3, <1>4, <2>1, <2>2, TypedUnused, UnusedJoin DEF PlainInv
<1>7. CASE InspectForward
  <2>1. heap' = Append(heap, ProcSymbol("fwd", pc))
    BY <1>7 DEF InspectForward
  <2> QED
    BY <1>2, <1>3, <2>1, NewUnused, UnusedAppend DEF PlainInv
<1>8. CASE InspectEndProcedure
  <2> DEFINE closed == [heap EXCEPT ![Inner.sym].caps = Taken]
             x == Symbol("closure", Here, ClosureArg)
  <2>1. heap' = heap \/ heap' = Append(closed, x)
    BY <1>8 DEF InspectEndProcedure, Taken
  <2>2. Inner.sym \in 1 .. Len(heap) /\ heap[Inner.sym].kind = "proc"
    BY <1>8, InnerSymbol DEF OpenSymbol
  <2>3. /\ Len(heap) \in Nat /\ heap = [h \in 1 .. Len(heap) |-> heap[h]] /\ Symbols(heap)
    BY DEF FrameInv, Scoped, Symbols, IsSeq
  <2>4. IsSeq(closed) /\ Len(closed) = Len(heap)
    <3>1. closed = [h \in 1 .. Len(heap) |-> closed[h]]
      BY <2>3
    <3>2. Len(closed) = Len(heap)
      BY <2>3, <3>1, LenOfDomain
    <3> QED
      BY <2>3, <3>1, <3>2 DEF IsSeq
  <2>5. ASSUME NEW h \in 1 .. Len(closed)
        PROVE  Unused(closed[h])
    <3>1. h \in 1 .. Len(heap) /\ Unused(heap[h])
      BY <1>2, <2>4
    <3>2. CASE h = Inner.sym
      <4>1. closed[h] = [heap[h] EXCEPT !.caps = Taken]
        BY <2>3, <3>1, <3>2
      <4>2. IsSymbol(heap[h])
        BY <2>3, <3>1 DEF Symbols
      <4>3. closed[h].kind = "proc" /\ closed[h].value = heap[h].value
        BY <2>2, <3>2, <4>1, <4>2 DEF IsSymbol
      <4> QED
        BY <3>1, <4>3 DEF Unused, Plain
    <3>3. CASE h # Inner.sym
      BY <2>3, <3>1, <3>3
    <3> QED
      BY <3>2, <3>3
  <2>6. Unused(x)
    BY NewUnused
  <2> HIDE DEF closed, x
  <2> QED
    BY <1>2, <1>3, <2>1, <2>4, <2>5, <2>6, UnusedAppend DEF PlainInv
<1>9. CASE heap' = heap
  BY <1>2, <1>3, <1>9 DEF PlainInv
<1> QED
  BY <1>5, <1>6, <1>7, <1>8, <1>9 DEF Inspector, InspectBegin, InspectUse, InspectCall,
     InspectReturn, InspectEndModule

LEMMA GeneratorPlain ==
  ASSUME TextInv, FrameInv, PlainInv, Generator
  PROVE  PlainInv'
<1>1. phase = "generate" /\ phase' \in {"generate", "done", "aborted"}
  BY GeneratorSteps
<1>2. /\ Symbols(heap) /\ IsSeq(heap) /\ Len(heap) \in Nat /\ DOMAIN heap = 1 .. Len(heap)
  BY DEF FrameInv, Scoped, Symbols, IsSeq
<1>3. ASSUME NEW G, Revalued(heap, G)
      PROVE  IsSeq(G) /\ Len(G) = Len(heap) /\ \A h \in 1 .. Len(heap) : Plain(G[h])
  <2>1. IsSeq(G) /\ Len(G) = Len(heap)
    BY <1>2, <1>3, SymbolsRevalued DEF Symbols
  <2>2. ASSUME NEW h \in 1 .. Len(heap)
        PROVE  Plain(G[h])
    <3>1. Plain(heap[h])
      BY <1>1 DEF PlainInv
    <3>2. \A v : Plain(WithValue(heap[h], v))
      BY <3>1 DEF Plain, WithValue
    <3> QED
      BY <1>2, <1>3, <3>1, <3>2 DEF Revalued
  <2> QED
    BY <2>1, <2>2
<1>4. CASE Revalued(heap, heap')
  BY <1>1, <1>3, <1>4 DEF PlainInv
<1>5. CASE heap' = heap
  BY <1>1, <1>5 DEF PlainInv
<1>6. CASE GenerateProcedure
  <2> DEFINE cs == SetToSeq(heap[Lookup(ft, Name)].caps)
             new == [k \in DOMAIN cs |-> Captured(cs[k], NestedName(Name))]
  <2>1. PICK G : Revalued(heap, G) /\ heap' = G \o new
    BY <1>6, GeneratorValues
  <2>2. Lookup(ft, Name) \in 1 .. Len(heap)
    BY <1>1, <1>6, HeadingFound DEF GenerateProcedure, Generating, At, FrameInv
  <2>3. IsSeq(cs)
    BY <1>2, <2>2, InOrder DEF Symbols, IsSymbol
  <2>4. IsSeq(new) /\ Len(new) = Len(cs)
    BY <2>3, CapturedAre DEF Symbols
  <2>5. \A k \in 1 .. Len(cs) : Plain(new[k])
    BY <2>3, NewUnused DEF IsSeq
  <2> HIDE DEF cs, new
  <2>6. /\ IsSeq(G) /\ Len(G) = Len(heap) /\ \A h \in 1 .. Len(heap) : Plain(G[h])
    BY <1>3, <2>1
  <2>7. /\ Len(heap') = Len(heap) + Len(new) /\ Len(new) \in Nat
        /\ \A k \in 1 .. Len(heap) : heap'[k] = G[k]
        /\ \A k \in 1 .. Len(new) : heap'[Len(heap) + k] = new[k]
    <3>1. Len(new) \in Nat
      BY <2>4 DEF IsSeq
    <3>2. /\ Len(G \o new) = Len(G) + Len(new)
          /\ \A k \in 1 .. Len(G) : (G \o new)[k] = G[k]
          /\ \A k \in 1 .. Len(new) : (G \o new)[Len(G) + k] = new[k]
      <4>1. IsSeq(new) /\ IsSeq(G)
        BY <2>4, <2>6
      <4> QED
        BY <4>1, Joined
    <3> QED
      BY <2>1, <2>6, <3>1, <3>2
  <2>8. ASSUME NEW h \in 1 .. Len(heap')
        PROVE  Plain(heap'[h])
    <3>1. CASE h \in 1 .. Len(heap)
      BY <2>6, <2>7, <3>1
    <3>2. CASE h \notin 1 .. Len(heap)
      <4>1. h - Len(heap) \in 1 .. Len(new) /\ Len(heap) + (h - Len(heap)) = h
        BY <1>2, <2>7, <3>2
      <4>2. heap'[Len(heap) + (h - Len(heap))] = new[h - Len(heap)]
        BY <2>7, <4>1
      <4> QED
        BY <2>4, <2>5, <4>1, <4>2
    <3> QED
      BY <3>1, <3>2
  <2> QED
    BY <1>1, <2>8 DEF PlainInv
<1> QED
  BY <1>4, <1>5, <1>6, GeneratorValues DEF Generator

LEMMA PlainKept ==
  ASSUME TextInv, TextInv', FrameInv, OpenSymbols, PlainInv, [Next]_vars
  PROVE  PlainInv'
<1>1. CASE UNCHANGED vars
  BY <1>1 DEF vars, PlainInv
<1> QED
  BY <1>1, ParserPlain, InspectorPlain, GeneratorPlain DEF Next

-----------------------------------------------------------------------------
(* The inspector and the names of procedures.                              *)

(* The inspector leaves the symbol of a heading but that of the name that  *)
(* it declares.                                                            *)
LEMMA HeadingStays ==
  ASSUME TextInv, TextInv', FrameInv, Inspector, NEW j \in HeadingsIn(prog),
         prog[pc].op \in {"procedure", "forward"} => Name # prog[j].name
  PROVE  LET h == SymsOf(prog, ft, prog[j].block)[prog[j].name]
         IN  h \in 1 .. Len(heap) /\ SymsOf(prog, ft', prog[j].block)[prog[j].name] = h
<1> DEFINE b == prog[j].block
           n == prog[j].name
           t == TableOf(prog, ft, b)
           h == SymsOf(prog, ft, b)[n]
<1>1. phase = "inspect" /\ prog' = prog
  BY InspectorAt
<1>2. b \in BlocksIn(prog) /\ n \in Range(ProcNames) /\ n \in DOMAIN SymsOf(prog, ft, b)
  BY <1>1, ProcedureNamed
<1>3. t \in DOMAIN ft.tables /\ h \in 1 .. Len(heap)
  BY <1>2, CellIn
<1>4. SameNames(ft, ft', {n})
  <2>1. {n} \in SUBSET Range(ProcNames) /\ (prog[pc].op \in {"procedure", "forward"} => Name \notin {n})
    BY <1>2
  <2> QED
    BY <2>1, InspectorNames
<1>5. SymsOf(prog, ft', b) = ft'.tables[t].syms /\ SymsOf(prog, ft, b) = ft.tables[t].syms
  BY <1>4 DEF SameNames, SymsOf, TableOf
<1> HIDE DEF t
<1> QED
  BY <1>2, <1>3, <1>4, <1>5 DEF SameNames

(* The symbol that the inspector makes for the heading that it is at. *)
LEMMA HeadingPut ==
  ASSUME TextInv, TextInv', FrameInv, BodyInv, Inspector,
         prog[pc].op \in {"procedure", "forward"}
  PROVE  heap'[SymsOf(prog, ft', prog[pc].block)[Name]].global
<1>1. phase = "inspect" /\ prog' = prog
  BY InspectorAt
<1>2. /\ IsText(prog) /\ IsOpen(prog, open) /\ pc \in 1 .. Len(prog)
      /\ Top(open) = (IF pc = 1 THEN 1 ELSE prog[pc].block)
  BY <1>1, WalkingText
<1>3. pc # 1 /\ Top(open) = prog[pc].block
  BY <1>2 DEF IsText
<1>4. CASE prog[pc].op = "procedure"
  <2>1. InspectProcedure
    BY <1>4 DEF Inspector, InspectModule, InspectProcedure, InspectForward, InspectBegin,
       InspectUse, InspectCall, InspectReturn, InspectEndProcedure, InspectEndModule, Inspecting,
       At
  <2>2. SymsOf(prog, ft', prog[pc].block)[Name] = Len(heap) + 1
    BY <2>1, InspectProcedureNames
  <2>3. heap'[Len(heap) + 1].global
    BY <2>1, InspectProcedureCaptures
  <2> QED
    BY <2>2, <2>3
<1>5. CASE prog[pc].op = "forward"
  <2>1. InspectForward
    BY <1>5 DEF Inspector, InspectModule, InspectProcedure, InspectForward, InspectBegin,
       InspectUse, InspectCall, InspectReturn, InspectEndProcedure, InspectEndModule, Inspecting,
       At
  <2> DEFINE w == MarkFree(ft, Name)
             x == ProcSymbol("fwd", pc)
             m == Len(heap) + 1
  <2>2. ft' = Put(w, Name, m) /\ heap' = Append(heap, x)
    BY <2>1 DEF InspectForward
  <2>3. IsTable(ft) /\ Framed(prog, open, ft) /\ IsSeq(heap)
    BY DEF FrameInv, Scoped, Framed, Symbols
  <2>4. ft.current = TableOf(prog, ft, prog[pc].block) /\ ft.current \in DOMAIN ft.tables
    BY <1>2, <1>3, <2>3, CurrentIs DEF IsTable
  <2>5. heap'[m] = x /\ x.global
    <3>1. x.global
      BY DEF ProcSymbol, Symbol
    <3> HIDE DEF x
    <3> QED
      BY <2>2, <2>3, <3>1, Appended
  <2>6. SameFrames(ft, w) /\ IsTable(w)
    BY <2>3, MarkFreeFrames, SameFramesTable
  <2> HIDE DEF w, m
  <2>7. PutInto(w, ft', Bind(w.tables[w.current].syms, Name, m))
    BY <2>2, <2>6, PutIs
  <2>8. /\ w.current = ft.current /\ ft.current \in DOMAIN w.tables
        /\ w.map = ft.map
    BY <2>4, <2>6 DEF SameFrames
  <2>9. /\ ft'.tables[ft.current].syms = Bind(w.tables[w.current].syms, Name, m)
        /\ ft'.map = ft.map
    BY <2>7, <2>8 DEF PutInto, SameFrames
  <2>10. SymsOf(prog, ft', prog[pc].block) = ft'.tables[ft.current].syms
    BY <2>4, <2>9 DEF SymsOf, TableOf
  <2> QED
    BY <2>5, <2>9, <2>10 DEF Bind
<1> QED
  BY <1>4, <1>5

LEMMA GlobalKept ==
  ASSUME TextInv, TextInv', FrameInv, BodyInv, UniqueInv, GlobalInv, [Next]_vars
  PROVE  GlobalInv'
<1> SUFFICES ASSUME phase' = "inspect"
             PROVE  GlobalInv'
  BY DEF GlobalInv
<1>1. CASE Parser
  <2>1. pc' = 1
    BY <1>1, ParserPhases
  <2>2. \A j \in HeadingsIn(prog)' : ~(j < 1)
    BY DEF HeadingsIn
  <2> QED
    BY <2>1, <2>2 DEF GlobalInv, GlobalBefore
<1>2. CASE Inspector
  <2>1. /\ phase = "inspect" /\ prog' = prog /\ Inspected = pc /\ Inspected' = pc + 1
    BY <1>2, InspectorAt
  <2>2. IsText(prog) /\ pc \in 1 .. Len(prog) /\ pc' = pc + 1
    BY <2>1, PassAt DEF Inspected
  <2>3. ASSUME NEW j \in HeadingsIn(prog), j < pc + 1
        PROVE  heap'[SymsOf(prog, ft', prog[j].block)[prog[j].name]].global
    <3>1. CASE prog[pc].op \in {"procedure", "forward"} /\ Name = prog[j].name
      <4>1. pc \in HeadingsIn(prog)
        BY <2>2, <3>1 DEF HeadingsIn
      <4>2. prog[j].block = prog[pc].block
        BY <2>2, <2>3, <3>1, <4>1 DEF UniqueInv, HeadingsIn, Name
      <4> QED
        BY <1>2, <3>1, <4>2, HeadingPut
    <3>2. CASE prog[pc].op \in {"procedure", "forward"} => Name # prog[j].name
      <4> DEFINE h == SymsOf(prog, ft, prog[j].block)[prog[j].name]
      <4>1. h \in 1 .. Len(heap) /\ SymsOf(prog, ft', prog[j].block)[prog[j].name] = h
        BY <1>2, <3>2, HeadingStays
      <4>2. j < pc
        BY <2>2, <2>3, <3>2 DEF HeadingsIn, Name
      <4>3. heap[h].global
        BY <2>1, <4>2 DEF GlobalInv, GlobalBefore, SymIn
      <4>4. SymbolsStay(heap, heap')
        BY <1>2, InspectorTypes DEF InspectedRight
      <4> QED
        BY <4>1, <4>3, <4>4 DEF SymbolsStay
    <3> QED
      BY <3>1, <3>2
  <2> QED
    BY <2>1, <2>2, <2>3 DEF GlobalInv, GlobalBefore, SymIn
<1>3. CASE Generator
  <2>1. phase' \in {"generate", "done", "aborted"}
    BY <1>3, GeneratorSteps
  <2> QED
    BY <2>1
<1>4. CASE UNCHANGED vars
  BY <1>4, Zenon DEF vars, GlobalInv, GlobalBefore, SymIn, SymsOf, TableOf, FrameOf, HeadingsIn
<1> QED
  BY <1>1, <1>2, <1>3, <1>4 DEF Next

(* The calls that the inspector has come to. *)
LEMMA CallsKept ==
  ASSUME TextInv, TextInv', FrameInv, HoldInv, BodyInv, Distinct, CallsInv, [Next]_vars
  PROVE  CallsInv'
<1> SUFFICES ASSUME phase' # "parse", ~errors'
             PROVE  CallsBefore(Inspected)'
  BY DEF CallsInv
<1>0. ~errors
  BY ErrorsStay
<1>1. CASE Parser
  <2>1. phase' = "inspect" /\ pc' = 1
    BY <1>1, ParserPhases
  <2> QED
    BY <2>1 DEF CallsBefore, Inspected
<1>2. CASE Inspector
  <2>1. /\ phase = "inspect" /\ prog' = prog /\ Inspected = pc /\ Inspected' = pc + 1
    BY <1>2, InspectorAt
  <2>2. IsText(prog) /\ pc \in 1 .. Len(prog)
    BY <2>1, PassAt
  <2>3. ASSUME NEW j \in 1 .. Len(prog), j < pc + 1, prog[j].op = "call"
        PROVE  Homes(prog[j].name, prog[j].block) # {}
    <3>1. CASE j = pc
      <4>1. InspectCall
        BY <1>2, <2>3, <3>1 DEF Inspector, InspectModule, InspectProcedure, InspectForward,
           InspectBegin, InspectUse, InspectCall, InspectReturn, InspectEndProcedure,
           InspectEndModule, Inspecting, At
      <4>2. Found(ft, Name)
        BY <4>1 DEF InspectCall, BadCall
      <4>3. Name \in Idents /\ pc # 1
        BY <2>2, <2>3, <3>1 DEF IsText, ItemOK, Idents, Name
      <4> QED
        BY <2>1, <3>1, <4>2, <4>3, NameFound DEF Name
    <3>2. CASE j # pc
      <4>1. j < pc
        BY <2>2, <2>3, <3>2
      <4> QED
        BY <1>0, <2>1, <2>3, <4>1 DEF CallsInv, CallsBefore
    <3> QED
      BY <3>1, <3>2
  <2>4. \A n, b : Homes(n, b)' = Homes(n, b)
    BY <2>1, ScopesStay
  <2> QED
    BY <2>1, <2>3, <2>4 DEF CallsBefore
<1>3. CASE Generator \/ UNCHANGED vars
  <2>1. /\ prog' = prog /\ phase # "parse"
        /\ Inspected' = Inspected
    BY <1>3, GeneratorSteps DEF vars, Inspected
  <2>2. \A n, b : Homes(n, b)' = Homes(n, b)
    BY <2>1, ScopesStay
  <2>3. CallsBefore(Inspected)
    BY <1>0, <2>1 DEF CallsInv
  <2> QED
    BY <2>1, <2>2, <2>3 DEF CallsBefore
<1> QED
  BY <1>1, <1>2, <1>3 DEF Next

-----------------------------------------------------------------------------
(* The procedures that are captured.                                       *)

(* The headings of a name are in one block. *)
LEMMA OneBlock ==
  ASSUME UniqueInv, IsText(prog), NEW i \in HeadingsIn(prog), NEW j \in HeadingsIn(prog),
         prog[i].name = prog[j].name
  PROVE  prog[i].block = prog[j].block
<1>1. i \in Nat /\ j \in Nat
  BY DEF HeadingsIn
<1>2. i < j \/ j < i \/ i = j
  BY <1>1
<1> QED
  BY <1>2 DEF UniqueInv

(* The home of the name of a procedure is the block of its headings. *)
LEMMA HomeHeading ==
  ASSUME IsText(prog), UniqueInv, NEW b \in 1 .. Len(prog), NEW n \in Range(ProcNames),
         Homes(n, b) # {}
  PROVE  /\ Home(n, b) \in Around(b) /\ Home(n, b) \in 1 .. b
         /\ HeadingsOf(n, Home(n, b)) # {}
         /\ \A j \in HeadingsIn(prog) : prog[j].name = n => prog[j].block = Home(n, b)
         /\ HeadingsOf(n, Home(n, b)) = {j \in HeadingsIn(prog) : prog[j].name = n}
<1> DEFINE a == Home(n, b)
<1>1. a \in Homes(n, b) /\ a \in 1 .. b
  BY HomeIs
<1>2. a \in 1 .. Len(prog) /\ DOMAIN prog = 1 .. Len(prog)
  BY <1>1 DEF IsText, IsSeq
<1>3. a \in Around(b) /\ (n \in DOMAIN prog[a].decs \/ HeadingsOf(n, a) # {})
  BY <1>1 DEF Homes
<1>4. n \notin DOMAIN prog[a].decs
  BY <1>2, NotVars DEF IsText, ItemOK
<1>5. PICK f : f \in HeadingsOf(n, a)
  BY <1>3, <1>4
<1>6. f \in HeadingsIn(prog) /\ prog[f].name = n /\ prog[f].block = a
  BY <1>2, <1>5 DEF HeadingsOf, HeadingsIn
<1>7. \A j \in HeadingsIn(prog) : prog[j].name = n => prog[j].block = a
  BY <1>6, OneBlock
<1>8. HeadingsOf(n, a) = {j \in HeadingsIn(prog) : prog[j].name = n}
  BY <1>2, <1>7 DEF HeadingsOf, HeadingsIn
<1> QED
  BY <1>1, <1>3, <1>5, <1>7, <1>8

LEMMA TakenLate ==
  ASSUME TextInv, FrameInv, HoldInv, BodyInv, UniqueInv, FreeOut, GlobalInv, Distinct,
         InspectEndProcedure, NEW n \in Taken, n \notin Vars
  PROVE  Late(n, Here)
<1>1. phase = "inspect" /\ prog[pc].op = "end" /\ Len(open) # 1
  BY DEF InspectEndProcedure, Inspecting, At, InModule
<1>2. /\ IsText(prog) /\ pc \in 1 .. Len(prog) /\ Len(prog) \in Nat
      /\ Here \in 1 .. Len(prog)
      /\ pc # 1 /\ Here = prog[pc].block /\ Here \in 1 .. pc - 1
  BY <1>1, PassAt DEF IsText
<1>3. n \in FreeVariables(ft) /\ ~SymbolOf(ft, n).global
  BY DEF Taken
<1>4. n \in Idents
  <2>1. Held(ft, Len(heap)) /\ ft.current \in 1 .. Len(ft.tables)
    BY <1>1, PassAt, ScopedFacts DEF FrameInv
  <2> QED
    BY <1>3, <2>1 DEF Held, FreeVariables
<1>5. n \in Range(ProcNames)
  BY <1>4 DEF Idents
<1>6. FromAround(n, Here)
  BY TakenOut
<1> DEFINE a == Home(n, Here)
<1>7. /\ n \in DOMAIN SymsOf(prog, ft, a) /\ Lookup(ft, n) = SymsOf(prog, ft, a)[n]
  BY <1>1, <1>2, <1>4, <1>6, NameFound DEF FromAround
<1>8. \A j \in HeadingsIn(prog) : prog[j].name = n => prog[j].block = a
  BY <1>2, <1>5, <1>6, HomeHeading DEF FromAround
<1> HIDE DEF a
<1>9. ASSUME NEW j \in HeadingsIn(prog), prog[j].name = n
      PROVE  Here < j
  <2>1. ~(j < pc)
    <3> SUFFICES ASSUME j < pc
                 PROVE  FALSE
      OBVIOUS
    <3>1. SymIn(n, a).global
      BY <1>1, <1>8, <1>9 DEF GlobalInv, GlobalBefore
    <3> QED
      BY <1>3, <1>7, <3>1 DEF SymIn, SymbolOf
  <2>2. j \in Nat
    BY DEF HeadingsIn
  <2> QED
    BY <1>2, <2>1, <2>2
<1> QED
  BY <1>9 DEF Late

LEMMA LateKept ==
  ASSUME TextInv, TextInv', FrameInv, FrameInv', HoldInv, BodyInv, UniqueInv, FreeOut,
         OpenSymbols, NoProcs, GlobalInv, LateInv, Distinct, [Next]_vars
  PROVE  LateInv'
<1> DEFINE LateCaps(h, b) == heap[h].kind = "proc" /\ heap[h].name = prog[b].name =>
                                \A n \in heap[h].caps \ Vars : Late(n, b)
<1> SUFFICES ASSUME phase' # "parse", NEW h \in 1 .. Len(heap'), NEW b \in ProceduresIn(prog'),
                    heap'[h].kind = "proc", heap'[h].name = prog'[b].name,
                    NEW n \in heap'[h].caps \ Vars
             PROVE  Late(n, b)'
  BY DEF LateInv
<1>0. Len(heap) \in Nat /\ Len(heap') \in Nat
  BY DEF FrameInv, Scoped, Symbols, IsSeq
<1>1. ASSUME prog' = prog, Late(n, b)
      PROVE  Late(n, b)'
  BY <1>1 DEF Late, HeadingsIn
<1>2. ASSUME phase # "parse", prog' = prog, h \in 1 .. Len(heap), heap[h].kind = "proc",
             heap[h].name = heap'[h].name, heap[h].caps = heap'[h].caps
      PROVE  Late(n, b)'
  <2>1. Late(n, b)
    BY <1>2 DEF LateInv
  <2> QED
    BY <1>1, <1>2, <2>1
<1>3. CASE Parser
  <2>1. phase = "parse" /\ heap' = heap
    BY <1>3 DEF Parser, ParseProcedure, ParseForward, ParseBegin, ParseUse, ParseCall,
           ParseReturn, ParseStatement, ParseEndProcedure, ParseEndModule, Parsing
  <2> QED
    BY <2>1 DEF NoProcs
<1>4. CASE InspectProcedure
  <2>1. phase = "inspect" /\ prog' = prog
    BY <1>4, EnteredOpen
  <2>2. /\ \A i \in 1 .. Len(heap) : heap'[i] = heap[i]
        /\ heap'[Len(heap) + 1].caps = {}
        /\ h \in 1 .. Len(heap) \/ h = Len(heap) + 1
    BY <1>4, InspectProcedureCaptures
  <2> QED
    BY <1>2, <2>1, <2>2
<1>5. CASE InspectEndProcedure
  <2>1. /\ phase = "inspect" /\ prog' = prog /\ OpenSymbol(open, heap, Len(open))
        /\ Inner = open[Len(open)]
    BY <1>5, InnerSymbol
  <2> DEFINE m == Inner.sym
  <2>2. m \in 1 .. Len(heap) /\ heap[m].name = prog[Here].name
    BY <2>1 DEF OpenSymbol, Here
  <2>3. CapturesStay(heap, heap', m) /\ heap'[m].caps = Taken
    BY <1>5, <2>1, InspectEndProcedureCaptures DEF OpenSymbol
  <2>4. h \in 1 .. Len(heap) /\ heap[h].kind = "proc" /\ heap[h].name = heap'[h].name
    BY <2>3 DEF CapturesStay, SymbolsStay
  <2>5. h # m => heap'[h].caps = heap[h].caps
    BY <2>3, <2>4 DEF CapturesStay
  <2>6. CASE h = m
    <3>1. Here \in ProceduresIn(prog)
      <4>1. IsText(prog) /\ IsOpen(prog, open)
        BY <2>1, PassAt
      <4>2. Len(open) # 1
        BY <1>5 DEF InspectEndProcedure, InModule
      <4> QED
        BY <4>1, <4>2, InnerName
    <3>2. \A i, j \in ProceduresIn(prog) : prog[i].name = prog[j].name => i = j
      BY DEF FrameInv, Scoped, NestedIn
    <3>3. b = Here
      BY <2>1, <2>2, <2>4, <2>6, <3>1, <3>2
    <3>4. Late(n, Here)
      BY <1>5, <2>3, <2>6, TakenLate
    <3> QED
      BY <1>1, <2>1, <3>3, <3>4
  <2>7. CASE h # m
    BY <1>2, <2>1, <2>4, <2>5, <2>7
  <2> QED
    BY <2>6, <2>7
<1>6. CASE (Inspector \/ Generator) /\ ~InspectProcedure /\ ~InspectEndProcedure
  <2>1. CapturesStay(heap, heap', 0)
    BY <1>6, PassCaptures
  <2>2. h \in 1 .. Len(heap) /\ heap[h].kind = "proc" /\ h # 0
    BY <1>0, <2>1 DEF CapturesStay, SymbolsStay
  <2>3. heap'[h].name = heap[h].name /\ heap'[h].caps = heap[h].caps
    BY <2>1, <2>2 DEF CapturesStay, SymbolsStay
  <2>4. prog' = prog /\ phase # "parse"
    BY <1>6, PassSteps DEF PassStep
  <2> QED
    BY <1>2, <2>2, <2>3, <2>4
<1>7. CASE UNCHANGED vars
  <2>1. prog' = prog /\ phase' = phase /\ heap' = heap
    BY <1>7 DEF vars
  <2> QED
    BY <1>2, <2>1
<1> QED
  BY <1>3, <1>4, <1>5, <1>6, <1>7 DEF Next

-----------------------------------------------------------------------------
(* The names of procedures in the generator.                               *)

(* What the item at pc adds to the events before it. *)
LEMMA Events ==
  ASSUME IsText(prog), pc \in 1 .. Len(prog), prog' = prog, pc' = pc + 1
  PROVE  /\ \A j : Begun(j, pc)' <=> Begun(j, pc) \/ (prog[pc].op = "begin" /\ prog[pc].block = j)
         /\ \A n : Forwarded(n, pc)' <=> \/ Forwarded(n, pc)
                                         \/ prog[pc].op = "forward" /\ prog[pc].name = n
         /\ \A n : Entering(n, pc)' <=> \/ Entering(n, pc)
                                        \/ /\ prog[pc].op = "begin"
                                           /\ prog[pc].block \in ProceduresIn(prog)
                                           /\ prog[prog[pc].block].name = n
<1>1. \A k \in 1 .. Len(prog) : k < pc + 1 <=> k < pc \/ k = pc
  OBVIOUS
<1>2. ASSUME NEW j
      PROVE  Begun(j, pc)' <=> Begun(j, pc) \/ (prog[pc].op = "begin" /\ prog[pc].block = j)
  BY <1>1 DEF Begun
<1>3. HeadingsIn(prog)' = HeadingsIn(prog) /\ ProceduresIn(prog)' = ProceduresIn(prog)
  BY DEF HeadingsIn, ProceduresIn
<1>4. ASSUME NEW n
      PROVE  Forwarded(n, pc)' <=> \/ Forwarded(n, pc)
                                   \/ prog[pc].op = "forward" /\ prog[pc].name = n
  <2>1. prog[pc].op = "forward" => pc \in HeadingsIn(prog)
    BY DEF HeadingsIn
  <2>2. \A f \in HeadingsIn(prog) : f < pc + 1 <=> f < pc \/ f = pc
    BY <1>1 DEF HeadingsIn
  <2> QED
    BY <1>3, <2>1, <2>2 DEF Forwarded
<1>5. ASSUME NEW n
      PROVE  Entering(n, pc)' <=> \/ Entering(n, pc)
                                  \/ /\ prog[pc].op = "begin"
                                     /\ prog[pc].block \in ProceduresIn(prog)
                                     /\ prog[prog[pc].block].name = n
  <2>1. Entering(n, pc)' <=> \E j \in ProceduresIn(prog) : prog[j].name = n /\ Begun(j, pc)'
    BY <1>3 DEF Entering
  <2> QED
    BY <1>2, <2>1 DEF Entering
<1> QED
  BY <1>2, <1>4, <1>5

(* A name keeps its value at an item that does not concern it. *)
LEMMA NameStays ==
  ASSUME IsText(prog), pc \in 1 .. Len(prog), prog' = prog, pc' = pc + 1,
         NEW j \in HeadingsIn(prog), NameRight(j, pc),
         SymIn(prog[j].name, prog[j].block)'.value = SymIn(prog[j].name, prog[j].block).value,
         prog[pc].op = "forward" => Name # prog[j].name,
         prog[pc].op = "begin" /\ prog[pc].block \in ProceduresIn(prog) =>
            prog[prog[pc].block].name # prog[j].name
  PROVE  NameRight(j, pc)'
<1> DEFINE n == prog[j].name
<1>1. \A p \in ProceduresIn(prog) : prog[p].name = n => (Begun(p, pc)' <=> Begun(p, pc))
  BY Events
<1>2. (Forwarded(n, pc)' <=> Forwarded(n, pc)) /\ (Entering(n, pc)' <=> Entering(n, pc))
  BY Events DEF Name
<1>3. ProceduresIn(prog)' = ProceduresIn(prog) /\ \A p : FnOf(p)' = FnOf(p)
  BY DEF ProceduresIn, FnOf
<1>4. prog'[j].name = n /\ prog'[j].block = prog[j].block
  OBVIOUS
<1> QED
  BY <1>1, <1>2, <1>3, <1>4 DEF NameRight

(* The step is right to make f the value of the symbol of heading j. *)
Renamed(j, f) ==
    SymIn(prog[j].name, prog[j].block)'.value = Function(f) => NameRight(j, pc)'

(* The name of a procedure that has begun, or that is forward declared. *)
LEMMA NameEntered ==
  ASSUME prog' = prog, \A i, k \in ProceduresIn(prog) : prog[i].name = prog[k].name => i = k,
         NEW p \in ProceduresIn(prog), NEW j \in HeadingsIn(prog), prog[j].name = prog[p].name,
         Begun(p, pc)'
  PROVE  Renamed(j, FnOf(p))
<1> SUFFICES ASSUME SymIn(prog[j].name, prog[j].block)'.value = Function(FnOf(p))
             PROVE  NameRight(j, pc)'
  BY DEF Renamed
<1> DEFINE n == prog[j].name
<1>1. ProceduresIn(prog)' = ProceduresIn(prog) /\ \A i : FnOf(i)' = FnOf(i)
  BY DEF ProceduresIn, FnOf
<1>2. Entering(n, pc)'
  BY <1>1 DEF Entering
<1>3. \A i \in ProceduresIn(prog) : prog[i].name = n => i = p
  OBVIOUS
<1> QED
  BY <1>1, <1>2, <1>3 DEF NameRight

LEMMA NameForwarded ==
  ASSUME IsText(prog), pc \in 1 .. Len(prog), prog' = prog, pc' = pc + 1, UniqueInv,
         prog[pc].op = "forward", NEW j \in HeadingsIn(prog), prog[j].name = Name
  PROVE  Renamed(j, << Name >>)
<1> SUFFICES ASSUME SymIn(prog[j].name, prog[j].block)'.value = Function(<< Name >>)
             PROVE  NameRight(j, pc)'
  BY DEF Renamed
<1> DEFINE n == prog[j].name
<1>1. pc \in HeadingsIn(prog) /\ n = prog[pc].name
  BY DEF HeadingsIn, Name
<1>2. Forwarded(n, pc)'
  BY <1>1, Events
<1>3. ASSUME NEW p \in ProceduresIn(prog), prog[p].name = n
      PROVE  ~Begun(p, pc)'
  <2>1. p \in HeadingsIn(prog) /\ p \in 1 .. Len(prog) /\ prog[p].op = "procedure"
    BY DEF ProceduresIn, HeadingsIn
  <2>2. p # pc /\ ~(p < pc)
    BY <1>1, <1>3, <2>1 DEF UniqueInv
  <2>3. ASSUME NEW k \in 1 .. Len(prog), k < pc, prog[k].op = "begin", prog[k].block = p
        PROVE  FALSE
    <3>1. k # 1
      BY <2>1, <2>3 DEF IsText
    <3>2. k \in 2 .. Len(prog)
      BY <3>1
    <3>3. p \in 1 .. k - 1
      BY <2>3, <3>2 DEF IsText
    <3> QED
      BY <2>1, <2>2, <2>3, <3>3
  <2>4. ~Begun(p, pc)
    BY <2>3 DEF Begun
  <2> QED
    BY <2>4, Events
<1>4. ProceduresIn(prog)' = ProceduresIn(prog)
  BY DEF ProceduresIn
<1>5. \A p \in ProceduresIn(prog)' : prog'[p].name = n => ~Begun(p, pc)'
  BY <1>3, <1>4
<1>6. prog'[j].name = n /\ prog'[j].block = prog[j].block /\ Name = n
  OBVIOUS
<1> QED
  BY <1>2, <1>5, <1>6 DEF NameRight

(* A frame keeps the names that were captured. *)
LEMMA CapturedStay ==
  ASSUME prog' = prog, NEW b, CapturedNames(b),
         SymsOf(prog, ft', b) = SymsOf(prog, ft, b),
         \A n \in DOMAIN SymsOf(prog, ft, b) : HeadingsOf(n, b) = {} /\ n \notin Vars =>
            heap'[SymsOf(prog, ft, b)[n]].value = SymIn(n, b).value
  PROVE  CapturedNames(b)'
<1>1. /\ \A n : HeadingsOf(n, b)' = HeadingsOf(n, b)
      /\ \A n : FromAround(n, b)' = FromAround(n, b)
      /\ \A n : Late(n, b)' = Late(n, b)
  BY ScopesStay DEF HeadingsOf, Late, HeadingsIn
<1>2. SymsOf(prog, ft, b)' = SymsOf(prog, ft, b)
  OBVIOUS
<1>3. \A n : SymIn(n, b)' = heap'[SymsOf(prog, ft, b)[n]]
  BY <1>2 DEF SymIn
<1> SUFFICES ASSUME NEW n \in DOMAIN SymsOf(prog, ft, b) \ (Vars \cup {ClosureArg}),
                    HeadingsOf(n, b) = {}
             PROVE  /\ heap'[SymsOf(prog, ft, b)[n]].value.what # "function"
                    /\ FromAround(n, b) /\ Late(n, b)
  BY <1>1, <1>2, <1>3 DEF CapturedNames
<1>4. SymIn(n, b).value.what # "function" /\ FromAround(n, b) /\ Late(n, b)
  BY DEF CapturedNames
<1> QED
  BY <1>4

(* The names in the frames keep their values; a frame may get captured     *)
(* ones.                                                                   *)
NamesStay ==
    \A b \in BlocksIn(prog) :
      /\ DOMAIN SymsOf(prog, ft, b) \subseteq DOMAIN SymsOf(prog, ft', b)
      /\ \A n \in DOMAIN SymsOf(prog, ft', b) \ (Vars \cup {ClosureArg}) :
            LET v == heap'[SymsOf(prog, ft', b)[n]].value
            IN  \/ n \in DOMAIN SymsOf(prog, ft, b) /\ v = SymIn(n, b).value
                \/ /\ HeadingsOf(n, b) = {}
                   /\ v.what # "function" /\ FromAround(n, b) /\ Late(n, b)

(* The generator passes by an item that sets no name. *)
LEMMA NamesPass ==
  ASSUME TextInv, FrameInv, Distinct, NamesInv, phase = "generate", prog' = prog, pc' = pc + 1,
         NamesStay, prog[pc].op # "forward",
         prog[pc].op = "begin" => prog[pc].block \notin ProceduresIn(prog)
  PROVE  NamesInv'
<1>1. IsText(prog) /\ pc \in 1 .. Len(prog)
  BY GeneratorAt
<1>2. ASSUME NEW j \in HeadingsIn(prog)
      PROVE  NameRight(j, pc)'
  <2> DEFINE b == prog[j].block
             n == prog[j].name
  <2>1. /\ b \in BlocksIn(prog) /\ n \in DOMAIN SymsOf(prog, ft, b) /\ n \in Range(ProcNames)
        /\ j \in HeadingsOf(n, b)
    BY <1>1, ProcedureNamed DEF HeadingsOf, HeadingsIn, IsText, IsSeq
  <2>2. n \notin Vars \cup {ClosureArg}
    BY <2>1, NotVars, NamesAssumption
  <2>3. heap'[SymsOf(prog, ft', b)[n]].value = SymIn(n, b).value
    BY <2>1, <2>2 DEF NamesStay
  <2>4. SymIn(prog[j].name, prog[j].block)'.value = SymIn(prog[j].name, prog[j].block).value
    BY <2>3 DEF SymIn
  <2>5. NameRight(j, pc)
    BY DEF NamesInv
  <2> QED
    BY <1>1, <2>4, <2>5, NameStays
<1>3. ASSUME NEW b \in BlocksIn(prog)
      PROVE  CapturedNames(b)'
  <2>1. /\ \A n : HeadingsOf(n, b)' = HeadingsOf(n, b)
        /\ \A n : FromAround(n, b)' = FromAround(n, b)
        /\ \A n : Late(n, b)' = Late(n, b)
    BY ScopesStay DEF HeadingsOf, Late, HeadingsIn
  <2>2. SymsOf(prog, ft, b)' = SymsOf(prog, ft', b)
    OBVIOUS
  <2>3. \A n : SymIn(n, b)' = heap'[SymsOf(prog, ft', b)[n]]
    BY <2>2 DEF SymIn
  <2> SUFFICES ASSUME NEW n \in DOMAIN SymsOf(prog, ft', b) \ (Vars \cup {ClosureArg}),
                      HeadingsOf(n, b) = {}
               PROVE  /\ heap'[SymsOf(prog, ft', b)[n]].value.what # "function"
                      /\ FromAround(n, b) /\ Late(n, b)
    BY <2>1, <2>2, <2>3 DEF CapturedNames
  <2>4. CASE n \in DOMAIN SymsOf(prog, ft, b) /\ heap'[SymsOf(prog, ft', b)[n]].value = SymIn(n, b).value
    <3>1. SymIn(n, b).value.what # "function" /\ FromAround(n, b) /\ Late(n, b)
      BY <2>4 DEF NamesInv, CapturedNames
    <3> QED
      BY <2>4, <3>1
  <2> QED
    BY <2>4 DEF NamesStay
<1>4. HeadingsIn(prog)' = HeadingsIn(prog) /\ BlocksIn(prog)' = BlocksIn(prog)
  BY DEF HeadingsIn, BlocksIn, ProceduresIn
<1> QED
  BY <1>2, <1>3, <1>4 DEF NamesInv

LEMMA NamesSame ==
  ASSUME heap' = heap, \A b \in BlocksIn(prog) : SymsOf(prog, ft', b) = SymsOf(prog, ft, b)
  PROVE  NamesStay
BY DEF NamesStay, SymIn

(* The generator sets the value of the symbol of heading p. *)
LEMMA NamesSet ==
  ASSUME TextInv, FrameInv, Distinct, GenInv, NamesInv, phase = "generate",
         prog' = prog, pc' = pc + 1,
         \A b \in BlocksIn(prog) : SymsOf(prog, ft', b) = SymsOf(prog, ft, b),
         NEW p \in HeadingsIn(prog), NEW f,
         heap' = [h \in DOMAIN heap |->
                    IF SymsOf(prog, ft, prog[p].block)[prog[p].name] = h
                      THEN [heap[h] EXCEPT !.value = Function(f)] ELSE heap[h]],
         prog[pc].op = "forward" => Name = prog[p].name,
         prog[pc].op = "begin" /\ prog[pc].block \in ProceduresIn(prog) =>
            prog[prog[pc].block].name = prog[p].name,
         \A j \in HeadingsIn(prog) : prog[j].name = prog[p].name => Renamed(j, f),
         UniqueInv
  PROVE  NamesInv'
<1> DEFINE c == prog[p].block
           m == prog[p].name
           g == SymsOf(prog, ft, c)[m]
<1>1. /\ IsText(prog) /\ pc \in 1 .. Len(prog) /\ Symbols(heap) /\ DOMAIN heap = 1 .. Len(heap)
  BY GeneratorAt
<1>2. c \in BlocksIn(prog) /\ m \in DOMAIN SymsOf(prog, ft, c)
  BY ProcedureNamed
<1>3. g \in 1 .. Len(heap)
  BY <1>2, CellIn
<1>4. heap'[g].value = Function(f)
  <2>1. IsSymbol(heap[g])
    BY <1>1, <1>3 DEF Symbols
  <2>2. heap'[g] = [heap[g] EXCEPT !.value = Function(f)]
    BY <1>1, <1>3
  <2> QED
    BY <2>1, <2>2 DEF IsSymbol
<1>5. ASSUME NEW b \in BlocksIn(prog), NEW n \in DOMAIN SymsOf(prog, ft, b), b # c \/ n # m
      PROVE  heap'[SymsOf(prog, ft, b)[n]] = heap[SymsOf(prog, ft, b)[n]]
  <2>1. SymsOf(prog, ft, b)[n] # g
    BY <1>2, <1>5, CellsDiffer DEF GenInv
  <2>2. SymsOf(prog, ft, b)[n] \in DOMAIN heap
    BY <1>1, CellIn
  <2> QED
    BY <2>1, <2>2
<1> HIDE DEF g
<1>6. ASSUME NEW j \in HeadingsIn(prog)
      PROVE  NameRight(j, pc)'
  <2>1. prog[j].block \in BlocksIn(prog) /\ prog[j].name \in DOMAIN SymsOf(prog, ft, prog[j].block)
    BY ProcedureNamed
  <2>2. CASE prog[j].name = m
    <3>1. prog[j].block = c
      BY <1>1, <2>2, OneBlock
    <3>2. SymIn(prog[j].name, prog[j].block)'.value = Function(f)
      BY <1>2, <1>4, <2>2, <3>1 DEF SymIn, g
    <3>3. Renamed(j, f)
      BY <2>2
    <3> QED
      BY <3>2, <3>3 DEF Renamed
  <2>3. CASE prog[j].name # m
    <3>1. SymIn(prog[j].name, prog[j].block)'.value = SymIn(prog[j].name, prog[j].block).value
      <4>1. heap'[SymsOf(prog, ft, prog[j].block)[prog[j].name]] =
              heap[SymsOf(prog, ft, prog[j].block)[prog[j].name]]
        BY <1>5, <2>1, <2>3
      <4>2. SymsOf(prog, ft', prog[j].block) = SymsOf(prog, ft, prog[j].block)
        BY <2>1
      <4> QED
        BY <4>1, <4>2 DEF SymIn
    <3>2. NameRight(j, pc)
      BY DEF NamesInv
    <3> QED
      BY <1>1, <2>3, <3>1, <3>2, NameStays
  <2> QED
    BY <2>2, <2>3
<1>7. ASSUME NEW b \in BlocksIn(prog)
      PROVE  CapturedNames(b)'
  <2>1. CapturedNames(b) /\ SymsOf(prog, ft', b) = SymsOf(prog, ft, b)
    BY DEF NamesInv
  <2>2. ASSUME NEW n \in DOMAIN SymsOf(prog, ft, b), HeadingsOf(n, b) = {}
        PROVE  heap'[SymsOf(prog, ft, b)[n]].value = SymIn(n, b).value
    <3>1. b # c \/ n # m
      BY <1>1, <2>2 DEF HeadingsOf, HeadingsIn, IsText, IsSeq
    <3> QED
      BY <1>5, <3>1 DEF SymIn
  <2> QED
    BY <2>1, <2>2, CapturedStay
<1>8. HeadingsIn(prog)' = HeadingsIn(prog) /\ BlocksIn(prog)' = BlocksIn(prog)
  BY DEF HeadingsIn, BlocksIn, ProceduresIn
<1> QED
  BY <1>6, <1>7, <1>8 DEF NamesInv

(* Where the generator passes by, the frames keep what they hold. *)
LEMMA PassingFrames ==
  ASSUME TextInv, FrameInv, Passing
  PROVE  \A b \in BlocksIn(prog) : SymsOf(prog, ft', b) = SymsOf(prog, ft, b)
<1> TAKE b \in BlocksIn(prog)
<1>1. TableOf(prog, ft, b) \in DOMAIN ft.tables
  BY CellIn
<1> QED
  BY <1>1 DEF Passing, SymsOf, TableOf

(* A forward declaration is the first function of its name. *)
LEMMA ForwardNamed ==
  ASSUME TextInv, UniqueInv, FunctionsInv, phase = "generate", prog[pc].op = "forward"
  PROVE  ForwardName(Name) = << Name >>
<1>1. pc \in 1 .. Len(prog)
  BY PassAt
<1>2. pc \in HeadingsIn(prog)
  BY <1>1 DEF HeadingsIn
<1>3. << Name >> \notin DOMAIN code.funcs
  <2> SUFFICES ASSUME << Name >> \in DOMAIN code.funcs
               PROVE  FALSE
    OBVIOUS
  <2>1. PICK j \in HeadingsIn(prog) : j < pc /\ << Name >>[Len(<< Name >>)] = prog[j].name
    BY DEF FunctionsInv, FunctionFor
  <2>2. prog[j].name = prog[pc].name
    BY <2>1 DEF Name
  <2> QED
    BY <1>2, <2>1, <2>2 DEF UniqueInv
<1> QED
  BY <1>3 DEF ForwardName

LEMMA GenerateForwardNames ==
  ASSUME TextInv, TextInv', FrameInv, UniqueInv, GenInv, FunctionsInv, NamesInv, Distinct,
         GenerateForward
  PROVE  NamesInv'
<1>1. /\ phase = "generate" /\ phase' = phase /\ prog' = prog /\ prog[pc].op = "forward"
      /\ pc' = pc + 1 /\ ft' = MarkFree(ft, Name)
  BY DEF GenerateForward, Generating, At, Onward
<1>2. /\ IsText(prog) /\ IsOpen(prog, open) /\ pc \in 1 .. Len(prog) /\ Framed(prog, open, ft)
      /\ Top(open) = Here
  BY <1>1, GeneratorAt
<1>3. pc \in HeadingsIn(prog) /\ pc # 1
  BY <1>1, <1>2 DEF HeadingsIn, IsText
<1>4. prog[pc].block = Here
  BY <1>1, <1>3, PassAt
<1>5. Name \in DOMAIN SymsOf(prog, ft, Here)
  BY <1>1, <1>3, <1>4, ProcedureNamed DEF Name
<1>6. Lookup(ft, Name) = SymsOf(prog, ft, prog[pc].block)[prog[pc].name]
  BY <1>2, <1>4, <1>5, FoundTop DEF Name
<1>7. ForwardName(Name) = << Name >>
  BY <1>1, ForwardNamed
<1>8. heap' = [h \in DOMAIN heap |->
                 IF Lookup(ft, Name) = h THEN [heap[h] EXCEPT !.value = Function(<< Name >>)]
                 ELSE heap[h]]
  <2>1. heap' = [h \in DOMAIN heap |->
                   IF \E m \in {Name} : Lookup(ft, m) = h
                     THEN [heap[h] EXCEPT !.value =
                             Function(ForwardName(CHOOSE m \in {Name} : Lookup(ft, m) = h))]
                     ELSE heap[h]]
    BY DEF GenerateForward, WithValues
  <2>2. \A h : Lookup(ft, Name) = h => (CHOOSE m \in {Name} : Lookup(ft, m) = h) = Name
    OBVIOUS
  <2> QED
    BY <1>7, <2>1, <2>2
<1>9. \A b \in BlocksIn(prog) : SymsOf(prog, ft', b) = SymsOf(prog, ft, b)
  <2>1. Passing
    BY <1>1, GeneratorPasses DEF Generator, GenerateModule, GenerateProcedure, Generating, At
  <2> QED
    BY <2>1, PassingFrames
<1>10. ASSUME NEW j \in HeadingsIn(prog), prog[j].name = prog[pc].name
       PROVE  Renamed(j, << Name >>)
  BY <1>1, <1>2, <1>10, NameForwarded DEF Name
<1>11. heap' = [h \in DOMAIN heap |->
                  IF SymsOf(prog, ft, prog[pc].block)[prog[pc].name] = h
                    THEN [heap[h] EXCEPT !.value = Function(<< Name >>)] ELSE heap[h]]
  BY <1>6, <1>8
<1>12. prog[pc].op # "begin" /\ Name = prog[pc].name
  BY <1>1 DEF Name
<1> QED
  BY <1>1, <1>3, <1>9, <1>10, <1>11, <1>12, NamesSet

(* The innermost procedure of the generator. *)
LEMMA InnerHeading ==
  ASSUME TextInv, FrameInv, Distinct, FnsInv, phase = "generate", ~InModule
  PROVE  /\ Here \in ProceduresIn(prog) /\ Here \in HeadingsIn(prog) /\ Inner.fn = FnOf(Here)
         /\ Len(open) \in 2 .. Len(open) /\ Here = open[Len(open)].item
         /\ Len(open) - 1 \in 1 .. Len(open) /\ prog[Here].block = open[Len(open) - 1].item
         /\ Here = prog[pc].block /\ pc # 1
<1>1. /\ IsText(prog) /\ IsOpen(prog, open)
  BY GeneratorAt
<1>2. Len(open) \in 2 .. Len(open) /\ Len(open) - 1 \in 1 .. Len(open) /\ Len(open) \in 1 .. Len(open)
  BY <1>1 DEF IsOpen, IsSeq, InModule
<1>3. /\ Here = open[Len(open)].item /\ prog[Here].op = "procedure" /\ Here \in 1 .. Len(prog)
      /\ prog[Here].block = open[Len(open) - 1].item
  BY <1>1, <1>2 DEF IsOpen, Here, Inner
<1>4. Inner.fn = FnOf(Here)
  BY <1>2 DEF FnsInv, Here, Inner
<1>5. Here = prog[pc].block /\ pc # 1
  <2>1. Here # 1
    BY <1>1, <1>3 DEF IsText
  <2> QED
    BY <2>1, PassAt
<1> QED
  BY <1>2, <1>3, <1>4, <1>5 DEF ProceduresIn, HeadingsIn

(* A block around the innermost one where the name of a heading may have   *)
(* been captured: the heading is still to come.                            *)
LEMMA CapturedAhead ==
  ASSUME TextInv, UniqueInv, WithinInv, phase = "generate", NEW j \in HeadingsIn(prog),
         NEW k \in 1 .. Len(open), FromAround(prog[j].name, open[k].item),
         Late(prog[j].name, open[k].item)
  PROVE  pc < j
<1> DEFINE a == open[k].item
           n == prog[j].name
<1>1. /\ IsText(prog) /\ IsOpen(prog, open) /\ pc \in 1 .. Len(prog) /\ Len(prog) \in Nat
  BY PassAt
<1>2. j \in 1 .. Len(prog) /\ a < j /\ a \in 1 .. Len(prog) /\ n \in Range(ProcNames)
  BY <1>1 DEF Late, HeadingsIn, IsOpen, IsText, ItemOK
<1>3. /\ Home(n, a) \in 1 .. a /\ prog[j].block = Home(n, a) /\ Home(n, a) # a
  BY <1>1, <1>2, HomeHeading DEF FromAround
<1>4. k # 1
  <2>1. open[1].item = 1
    BY <1>1 DEF IsOpen
  <2> QED
    BY <1>3, <2>1
<1> SUFFICES ASSUME j <= pc
             PROVE  FALSE
  BY <1>1, <1>2
<1>5. k \in 2 .. Len(open)
  BY <1>4
<1>6. a <= prog[j].block
  BY <1>2, <1>5 DEF WithinInv
<1> HIDE DEF a
<1> QED
  BY <1>2, <1>3, <1>6

(* What the generator finds under the name n of a heading is the symbol of *)
(* the heading, or one that is no function, and then no heading of n was   *)
(* passed.                                                                 *)
LEMMA FoundHeading ==
  ASSUME TextInv, FrameInv, UniqueInv, WithinInv, NamesInv, Distinct, phase = "generate",
         NEW j \in HeadingsIn(prog), \E k \in 1 .. Len(open) : prog[j].block = open[k].item
  PROVE  /\ Found(ft, prog[j].name)
         /\ \/ Lookup(ft, prog[j].name) = SymsOf(prog, ft, prog[j].block)[prog[j].name]
            \/ /\ SymbolOf(ft, prog[j].name).value.what # "function"
               /\ \A i \in HeadingsIn(prog) : prog[i].name = prog[j].name => pc < i
<1> DEFINE n == prog[j].name
<1>1. /\ IsText(prog) /\ IsOpen(prog, open) /\ Framed(prog, open, ft) /\ Nested(ft)
      /\ DOMAIN prog = 1 .. Len(prog)
  BY GeneratorAt DEF IsText, IsSeq
<1>2. n \in DOMAIN SymsOf(prog, ft, prog[j].block) /\ n \in Range(ProcNames)
  BY ProcedureNamed
<1>3. Found(ft, n)
  BY <1>1, <1>2, FoundIn
<1>4. PICK k \in 1 .. Len(open) : /\ n \in DOMAIN SymsOf(prog, ft, open[k].item)
                                  /\ Lookup(ft, n) = SymsOf(prog, ft, open[k].item)[n]
  BY <1>1, <1>3, FoundIn
<1> DEFINE a == open[k].item
<1>5. a \in BlocksIn(prog)
  BY <1>1, OpenBlocks
<1>6. n \notin Vars \cup {ClosureArg}
  BY <1>2, NotVars, NamesAssumption
<1>7. \/ HeadingsOf(n, a) # {}
      \/ SymIn(n, a).value.what # "function" /\ FromAround(n, a) /\ Late(n, a)
  BY <1>4, <1>5, <1>6 DEF NamesInv, CapturedNames
<1>8. CASE HeadingsOf(n, a) # {}
  <2>1. PICK i : i \in HeadingsOf(n, a)
    BY <1>8
  <2>2. i \in HeadingsIn(prog) /\ prog[i].name = n /\ prog[i].block = a
    BY <1>1, <2>1 DEF HeadingsOf, HeadingsIn
  <2>3. prog[j].block = a
    BY <1>1, <2>2, OneBlock
  <2> QED
    BY <1>3, <1>4, <2>3
<1>9. CASE SymIn(n, a).value.what # "function" /\ FromAround(n, a) /\ Late(n, a)
  <2>1. SymbolOf(ft, n).value.what # "function"
    BY <1>4, <1>9 DEF SymIn, SymbolOf
  <2>2. \A i \in HeadingsIn(prog) : prog[i].name = n => pc < i
    BY <1>9, CapturedAhead
  <2> QED
    BY <1>3, <2>1, <2>2
<1> QED
  BY <1>7, <1>8, <1>9

LEMMA GenerateBeginNames ==
  ASSUME TextInv, TextInv', FrameInv, UniqueInv, GenInv, FnsInv, WithinInv, NamesInv, Distinct,
         GenerateBegin
  PROVE  NamesInv'
<1>1. /\ phase = "generate" /\ phase' = phase /\ prog' = prog /\ prog[pc].op = "begin"
      /\ pc' = pc + 1
  BY DEF GenerateBegin, Generating, At, Onward
<1>2. /\ IsText(prog) /\ IsOpen(prog, open) /\ pc \in 1 .. Len(prog) /\ Len(prog) \in Nat
  BY <1>1, GeneratorAt
<1>3. \A b \in BlocksIn(prog) : SymsOf(prog, ft', b) = SymsOf(prog, ft, b)
  <2>1. Passing
    BY <1>1, GeneratorPasses DEF Generator, GenerateModule, GenerateProcedure, Generating, At
  <2> QED
    BY <2>1, PassingFrames
<1>4. CASE InModule
  <2>1. heap' = heap
    BY <1>4 DEF GenerateBegin
  <2>2. Here = 1 /\ pc # 1 /\ Here = prog[pc].block
    BY <1>1, <1>2, <1>4, PassAt DEF InModule, IsText
  <2>3. prog[pc].block \notin ProceduresIn(prog)
    BY <1>2, <2>2 DEF ProceduresIn, IsText
  <2> QED
    BY <1>1, <1>3, <2>1, <2>3, NamesSame, NamesPass
<1>5. CASE ~InModule
  <2> DEFINE P(p) == /\ p \in ProceduresIn(prog) /\ p \in HeadingsIn(prog) /\ Inner.fn = FnOf(p)
                     /\ p = Here /\ p = prog[pc].block
  <2>1. /\ P(Here) /\ \E k \in 1 .. Len(open) : prog[Here].block = open[k].item
        /\ pc # 1
    BY <1>1, <1>5, InnerHeading
  <2>2. PICK p : P(p)
    BY <2>1
  <2>3. p \in 1 .. pc - 1
    BY <1>1, <2>1, <2>2, PassAt
  <2>4. Lookup(ft, prog[p].name) = SymsOf(prog, ft, prog[p].block)[prog[p].name]
    BY <1>1, <1>2, <2>1, <2>2, <2>3, FoundHeading
  <2>5. heap' = [h \in DOMAIN heap |->
                   IF Lookup(ft, prog[p].name) = h
                     THEN [heap[h] EXCEPT !.value = Function(Inner.fn)] ELSE heap[h]]
    BY <1>5, <2>2 DEF GenerateBegin, WithValues
  <2>6. Begun(p, pc)'
    BY <1>1, <1>2, <2>2, Events
  <2>7. \A i, j \in ProceduresIn(prog) : prog[i].name = prog[j].name => i = j
    BY DEF FrameInv, Scoped, NestedIn
  <2>8. ASSUME NEW j \in HeadingsIn(prog), prog[j].name = prog[p].name
        PROVE  Renamed(j, FnOf(p))
    BY <1>1, <2>2, <2>6, <2>7, <2>8, NameEntered
  <2>9. heap' = [h \in DOMAIN heap |->
                   IF SymsOf(prog, ft, prog[p].block)[prog[p].name] = h
                     THEN [heap[h] EXCEPT !.value = Function(FnOf(p))] ELSE heap[h]]
    BY <2>2, <2>4, <2>5
  <2> QED
    BY <1>1, <1>3, <2>2, <2>8, <2>9, NamesSet
<1> QED
  BY <1>4, <1>5

LEMMA GenerateEndProcedureNames ==
  ASSUME TextInv, TextInv', FrameInv, UniqueInv, GenInv, BodyInv, FnsInv, BegunInv, NamesInv,
         Distinct, GenerateEndProcedure
  PROVE  NamesInv'
<1> DEFINE P(p) == /\ p \in ProceduresIn(prog) /\ p \in HeadingsIn(prog) /\ Inner.fn = FnOf(p)
                   /\ p = Here /\ p = prog[pc].block
           s == PopFrame(ft)
<1>1. /\ phase = "generate" /\ phase' = phase /\ prog' = prog /\ prog[pc].op = "end"
      /\ pc' = pc + 1 /\ ~InModule /\ Len(open) # 1
  BY DEF GenerateEndProcedure, Generating, At, Onward, InModule
<1>2. /\ IsText(prog) /\ IsOpen(prog, open) /\ pc \in 1 .. Len(prog) /\ Len(prog) \in Nat
      /\ Framed(prog, open, ft) /\ Top(open) = Here
  BY <1>1, GeneratorAt
<1>3. \A b \in BlocksIn(prog) : SymsOf(prog, ft', b) = SymsOf(prog, ft, b)
  <2>1. Passing
    BY <1>1, GeneratorPasses DEF Generator, GenerateModule, GenerateProcedure, Generating, At
  <2> QED
    BY <2>1, PassingFrames
<1>4. P(Here)
  BY <1>1, InnerHeading
<1>5. PICK p : P(p)
  BY <1>4
<1>6. /\ prog[p].block \in BlocksIn(prog)
      /\ prog[p].name \in DOMAIN SymsOf(prog, ft, prog[p].block)
  BY <1>1, <1>5, ProcedureNamed
<1>7. IsOpen(prog, Left) /\ Top(Left) = prog[p].block
  BY <1>1, <1>2, <1>5, LeaveInner DEF Left
<1>8. Framed(prog, Left, s)
  BY <1>1, <1>2, ExtendsSelf, PopFramed DEF Left
<1>9. SymsOf(prog, s, prog[p].block) = SymsOf(prog, ft, prog[p].block)
  BY DEF SymsOf, TableOf, PopFrame
<1>10. heap' = [h \in DOMAIN heap |->
                  IF Lookup(s, prog[p].name) = h
                    THEN [heap[h] EXCEPT !.value = Function(Inner.fn)] ELSE heap[h]]
  BY <1>5 DEF GenerateEndProcedure, WithValues
<1> HIDE DEF s
<1>11. Lookup(s, prog[p].name) = SymsOf(prog, ft, prog[p].block)[prog[p].name]
  BY <1>2, <1>6, <1>7, <1>8, <1>9, FoundTop
<1>12. Begun(p, pc)'
  <2>1. InBody
    BY <1>1, <1>2 DEF BodyInv, Bodies, InBody
  <2>2. Begun(p, pc)
    BY <1>1, <1>5, <2>1 DEF BegunInv
  <2> QED
    BY <1>1, <1>2, <2>2, Events
<1>13. \A i, j \in ProceduresIn(prog) : prog[i].name = prog[j].name => i = j
  BY DEF FrameInv, Scoped, NestedIn
<1>14. ASSUME NEW j \in HeadingsIn(prog), prog[j].name = prog[p].name
       PROVE  Renamed(j, FnOf(p))
  BY <1>1, <1>5, <1>12, <1>13, <1>14, NameEntered
<1>15. heap' = [h \in DOMAIN heap |->
                  IF SymsOf(prog, ft, prog[p].block)[prog[p].name] = h
                    THEN [heap[h] EXCEPT !.value = Function(FnOf(p))] ELSE heap[h]]
  BY <1>5, <1>10, <1>11
<1>16. p \in HeadingsIn(prog) /\ prog[pc].op # "forward" /\ prog[pc].op # "begin"
  BY <1>1, <1>5
<1> HIDE DEF P
<1> QED
  BY <1>1, <1>3, <1>14, <1>15, <1>16, NamesSet

LEMMA GenerateModuleNames ==
  ASSUME TextInv, FrameInv, GenInv, NamesInv, Distinct, GenerateModule
  PROVE  NamesInv'
<1>1. /\ phase = "generate" /\ prog' = prog /\ pc' = pc + 1 /\ ft' = ft
      /\ prog[pc].op = "module"
  BY DEF GenerateModule, Generating, At, Onward
<1>2. \A h \in 1 .. Len(heap) : heap[h].name \notin Vars => heap'[h] = heap[h]
  BY GenerateModuleStores
<1>3. ASSUME NEW b \in BlocksIn(prog), NEW n \in DOMAIN SymsOf(prog, ft, b), n \notin Vars
      PROVE  heap'[SymsOf(prog, ft, b)[n]] = SymIn(n, b)
  <2>1. SymsOf(prog, ft, b)[n] \in 1 .. Len(heap) /\ SymIn(n, b).name = n
    BY <1>1, CellIn DEF GenInv, Tagged
  <2> QED
    BY <1>2, <1>3, <2>1 DEF SymIn
<1>4. NamesStay
  BY <1>1, <1>3 DEF NamesStay
<1> QED
  BY <1>1, <1>4, NamesPass

LEMMA GenerateProcedureNames ==
  ASSUME TextInv, TextInv', FrameInv, CapsInv, UniqueInv, ProcsInv, GenInv, LateInv, NamesInv,
         Distinct, GenerateProcedure
  PROVE  NamesInv'
<1> DEFINE s == Lookup(ft, Name)
<1>1. /\ phase = "generate" /\ prog' = prog /\ pc \in ProceduresIn(prog) /\ pc # 1
      /\ s \in 1 .. Len(heap)
      /\ \A n \in heap[s].caps : FromAround(n, pc)
  BY ProcedureEntered
<1>2. /\ IsText(prog) /\ IsOpen(prog, open) /\ pc \in 1 .. Len(prog) /\ Len(prog) \in Nat
      /\ Framed(prog, open, ft) /\ Top(open) = Here /\ Here = prog[pc].block
      /\ DOMAIN prog = 1 .. Len(prog)
  BY <1>1, GeneratorAt, PassAt DEF IsText, IsSeq
<1>3. /\ prog[pc].block \in BlocksIn(prog) /\ prog[pc].op = "procedure"
      /\ prog[pc].name \in DOMAIN SymsOf(prog, ft, prog[pc].block)
  <2>1. pc \in HeadingsIn(prog) /\ prog[pc].op = "procedure"
    BY <1>1 DEF HeadingsIn, ProceduresIn
  <2> QED
    BY <1>1, <2>1, ProcedureNamed
<1>4. s = SymsOf(prog, ft, prog[pc].block)[prog[pc].name]
  BY <1>2, <1>3, FoundTop DEF Name
<1>5. heap[s].kind = "proc" /\ heap[s].name = prog[pc].name
  <2>1. SymIn(prog[pc].name, prog[pc].block).kind = "proc"
    BY <1>1, <1>2 DEF ProcsInv, ProcsBefore, Inspected
  <2> QED
    BY <1>1, <1>3, <1>4, <2>1 DEF GenInv, Tagged, SymIn
<1>6. \A n \in heap[s].caps \ Vars : Late(n, pc)
  BY <1>1, <1>5 DEF LateInv
<1>7. /\ \A b \in BlocksIn(prog) : b # pc => SymsOf(prog, ft', b) = SymsOf(prog, ft, b)
      /\ DOMAIN SymsOf(prog, ft', pc) = DOMAIN SymsOf(prog, ft, pc) \cup heap[s].caps
      /\ \A n \in heap[s].caps : heap'[SymsOf(prog, ft', pc)[n]] = Captured(n, FnOf(pc))
      /\ \A n \in DOMAIN SymsOf(prog, ft', pc) \ heap[s].caps :
           SymsOf(prog, ft', pc)[n] = SymsOf(prog, ft, pc)[n]
      /\ \A h \in 1 .. Len(heap) : heap[h].name \notin Vars => heap'[h].value = heap[h].value
  BY ProcedureStores
<1> HIDE DEF s
<1>8. ASSUME NEW b \in BlocksIn(prog), NEW n \in DOMAIN SymsOf(prog, ft, b), n \notin Vars
      PROVE  heap'[SymsOf(prog, ft, b)[n]].value = SymIn(n, b).value
  <2>1. SymsOf(prog, ft, b)[n] \in 1 .. Len(heap) /\ SymIn(n, b).name = n
    BY <1>1, CellIn DEF GenInv, Tagged
  <2> QED
    BY <1>7, <1>8, <2>1 DEF SymIn
<1>9. ASSUME NEW n \in heap[s].caps
      PROVE  /\ HeadingsOf(n, pc) = {} /\ FromAround(n, pc)
             /\ heap'[SymsOf(prog, ft', pc)[n]].value.what # "function"
  <2>1. FromAround(n, pc)
    BY <1>1
  <2>2. HeadingsOf(n, pc) = {}
    BY <1>2, <2>1, HomeIs DEF FromAround
  <2>3. Captured(n, FnOf(pc)).value.what = "captured"
    BY DEF Captured, Symbol, Value
  <2> QED
    BY <1>7, <2>1, <2>2, <2>3
<1>10. NamesStay
  <2> SUFFICES ASSUME NEW b \in BlocksIn(prog)
               PROVE  /\ DOMAIN SymsOf(prog, ft, b) \subseteq DOMAIN SymsOf(prog, ft', b)
                      /\ \A n \in DOMAIN SymsOf(prog, ft', b) \ (Vars \cup {ClosureArg}) :
                            LET v == heap'[SymsOf(prog, ft', b)[n]].value
                            IN  \/ n \in DOMAIN SymsOf(prog, ft, b) /\ v = SymIn(n, b).value
                                \/ /\ HeadingsOf(n, b) = {}
                                   /\ v.what # "function" /\ FromAround(n, b) /\ Late(n, b)
    BY DEF NamesStay
  <2>1. CASE b # pc
    BY <1>7, <1>8, <2>1
  <2>2. CASE b = pc
    <3>1. DOMAIN SymsOf(prog, ft, b) \subseteq DOMAIN SymsOf(prog, ft', b)
      BY <1>7, <2>2
    <3>2. ASSUME NEW n \in DOMAIN SymsOf(prog, ft', b) \ (Vars \cup {ClosureArg})
          PROVE  LET v == heap'[SymsOf(prog, ft', b)[n]].value
                 IN  \/ n \in DOMAIN SymsOf(prog, ft, b) /\ v = SymIn(n, b).value
                     \/ /\ HeadingsOf(n, b) = {}
                        /\ v.what # "function" /\ FromAround(n, b) /\ Late(n, b)
      <4>1. CASE n \in heap[s].caps
        BY <1>6, <1>9, <2>2, <4>1
      <4>2. CASE n \notin heap[s].caps
        BY <1>7, <1>8, <2>2, <4>2
      <4> QED
        BY <4>1, <4>2
    <3> QED
      BY <3>1, <3>2
  <2> QED
    BY <2>1, <2>2
<1>11. pc' = pc + 1
  BY DEF GenerateProcedure, Onward
<1> QED
  BY <1>1, <1>3, <1>10, <1>11, NamesPass

(* When the generator starts, no name has a value, and the frames hold     *)
(* what their blocks declare.                                              *)
LEMMA NamesStart ==
  ASSUME TextInv, FrameInv, HoldInv, PlainInv, InspectEndModule, phase' = "generate"
  PROVE  NamesInv'
<1>1. /\ phase = "inspect" /\ prog' = prog /\ pc' = 1 /\ ft' = ft /\ heap' = heap
  BY InspectionEnds
<1>2. IsText(prog) /\ DOMAIN prog = 1 .. Len(prog)
  BY <1>1, PassAt DEF IsText, IsSeq
<1>3. ASSUME NEW b \in BlocksIn(prog), NEW n \in DOMAIN SymsOf(prog, ft, b)
      PROVE  SymIn(n, b).value.what # "function"
  <2>1. SymsOf(prog, ft, b)[n] \in 1 .. Len(heap)
    BY CellIn
  <2>2. SymIn(n, b).value = Null
    BY <1>1, <2>1 DEF PlainInv, Unused, SymIn
  <2> QED
    BY <2>2 DEF Null, Value
<1>4. ASSUME NEW j \in HeadingsIn(prog)
      PROVE  NameRight(j, pc)'
  <2>1. SymIn(prog[j].name, prog[j].block).value.what # "function"
    BY <1>1, <1>3, ProcedureNamed
  <2>2. \A p : ~Begun(p, pc)'
    BY <1>1 DEF Begun
  <2>3. \A n : ~Forwarded(n, pc)' /\ ~Entering(n, pc)'
    BY <1>1, <2>2 DEF Forwarded, Entering, HeadingsIn
  <2>4. SymIn(prog[j].name, prog[j].block)'.value = SymIn(prog[j].name, prog[j].block).value
    BY <1>1 DEF SymIn
  <2> QED
    BY <1>1, <2>1, <2>2, <2>3, <2>4 DEF NameRight
<1>5. ASSUME NEW b \in BlocksIn(prog)
      PROVE  CapturedNames(b)'
  <2>1. ASSUME NEW n \in DOMAIN SymsOf(prog, ft, b) \ (Vars \cup {ClosureArg})
        PROVE  HeadingsOf(n, b) # {}
    <3>1. DeclaredIn(prog, n, b)
      BY <1>1 DEF HoldInv, Holds
    <3>2. n \notin DOMAIN prog[b].decs
      <4>1. b \in 1 .. Len(prog)
        BY <1>2, BlocksAre
      <4> QED
        BY <1>2, <4>1 DEF IsText, ItemOK
    <3>3. PICK i \in HeadingsIn(prog) : prog[i].name = n /\ prog[i].block = b
      BY <3>1, <3>2 DEF DeclaredIn
    <3> QED
      BY <1>2, <3>3 DEF HeadingsOf, HeadingsIn
  <2>2. \A n : HeadingsOf(n, b)' = HeadingsOf(n, b)
    BY <1>1 DEF HeadingsOf
  <2>3. SymsOf(prog, ft, b)' = SymsOf(prog, ft, b)
    BY <1>1
  <2> QED
    BY <2>1, <2>2, <2>3 DEF CapturedNames
<1>6. HeadingsIn(prog)' = HeadingsIn(prog) /\ BlocksIn(prog)' = BlocksIn(prog)
  BY <1>1 DEF HeadingsIn, BlocksIn, ProceduresIn
<1> QED
  BY <1>4, <1>5, <1>6 DEF NamesInv

LEMMA NamesKept ==
  ASSUME TextInv, TextInv', FrameInv, HoldInv, BodyInv, UniqueInv, CapsInv, ProcsInv, GenInv,
         PlainInv, LateInv, WithinInv, FnsInv, BegunInv, FunctionsInv, NamesInv, Distinct,
         [Next]_vars
  PROVE  NamesInv'
<1> SUFFICES ASSUME phase' = "generate"
             PROVE  NamesInv'
  BY DEF NamesInv
<1>1. CASE Parser
  BY <1>1, ParserPhases
<1>2. CASE Inspector
  <2>1. InspectEndModule
    BY <1>2 DEF Inspector, InspectModule, InspectProcedure, InspectForward, InspectBegin,
       InspectUse, InspectCall, InspectReturn, InspectEndProcedure, Inspecting, Onward
  <2> QED
    BY <2>1, NamesStart
<1>3. CASE Generator
  <2>1. CASE GenerateModule
    BY <2>1, GenerateModuleNames
  <2>2. CASE GenerateProcedure
    BY <2>2, GenerateProcedureNames
  <2>3. CASE GenerateForward
    BY <2>3, GenerateForwardNames
  <2>4. CASE GenerateBegin
    BY <2>4, GenerateBeginNames
  <2>5. CASE GenerateEndProcedure
    BY <2>5, GenerateEndProcedureNames
  <2>6. CASE GenerateUse \/ GenerateCall \/ GenerateReturn
    <3>1. /\ phase = "generate" /\ prog' = prog /\ pc' = pc + 1 /\ heap' = heap
          /\ prog[pc].op \in {"use", "call", "return"}
      BY <2>6 DEF GenerateUse, GenerateCall, GenerateReturn, Generating, At, Onward
    <3>2. Passing
      BY <1>3, <3>1, GeneratorPasses DEF GenerateModule, GenerateProcedure, Generating, At
    <3>3. NamesStay
      BY <3>1, <3>2, PassingFrames, NamesSame
    <3> QED
      BY <3>1, <3>3, NamesPass
  <2>7. ~GenerateEndModule /\ ~Abort
    BY DEF GenerateEndModule, Abort
  <2> QED
    BY <1>3, <2>1, <2>2, <2>3, <2>4, <2>5, <2>6, <2>7 DEF Generator
<1>4. CASE UNCHANGED vars
  <2>1. prog' = prog /\ pc' = pc /\ ft' = ft /\ heap' = heap /\ phase = "generate"
    BY <1>4 DEF vars
  <2>2. \A j : NameRight(j, pc)' <=> NameRight(j, pc)
    BY <2>1 DEF NameRight, Begun, Forwarded, Entering, HeadingsIn, ProceduresIn, SymIn, FnOf
  <2>3. /\ \A n, b : HeadingsOf(n, b)' = HeadingsOf(n, b)
        /\ \A n, b : Late(n, b)' = Late(n, b)
        /\ \A n, b : FromAround(n, b)' = FromAround(n, b)
    BY <2>1, ScopesStay DEF HeadingsOf, Late, HeadingsIn
  <2>4. \A b : CapturedNames(b)' <=> CapturedNames(b)
    BY <2>1, <2>3 DEF CapturedNames, SymIn
  <2> QED
    BY <2>1, <2>2, <2>4 DEF NamesInv, HeadingsIn, BlocksIn, ProceduresIn
<1> QED
  BY <1>1, <1>2, <1>3, <1>4 DEF Next

-----------------------------------------------------------------------------
(* The calls in the generator.                                             *)

(* The headings that a call means, and what the generator finds.           *)
LEMMA CalledFound ==
  ASSUME TextInv, FrameInv, UniqueInv, WithinInv, CallsInv, NamesInv, Distinct,
         phase = "generate", prog[pc].op = "call"
  PROVE  LET a == Home(Name, Here)
         IN  /\ pc # 1 /\ Here = prog[pc].block
             /\ Called(pc) = {j \in HeadingsIn(prog) : prog[j].name = Name} /\ Called(pc) # {}
             /\ \A j \in Called(pc) : prog[j].block = a
             /\ \E k \in 1 .. Len(open) : a = open[k].item
             /\ \/ Lookup(ft, Name) = SymsOf(prog, ft, a)[Name]
                \/ /\ SymbolOf(ft, Name).value.what # "function"
                   /\ \A j \in Called(pc) : pc < j
<1>1. /\ IsText(prog) /\ IsOpen(prog, open) /\ pc \in 1 .. Len(prog) /\ Len(prog) \in Nat
      /\ Top(open) = Here /\ ~errors /\ Inspected = Len(prog) + 1
  BY GeneratorAt
<1>2. pc # 1 /\ Here = prog[pc].block /\ Here \in 1 .. Len(prog)
  <2>1. pc # 1
    BY <1>1 DEF IsText
  <2> QED
    BY <2>1, PassAt
<1>3. Homes(Name, Here) # {}
  BY <1>1, <1>2 DEF CallsInv, CallsBefore, Name
<1>4. Name \in Range(ProcNames)
  BY <1>1 DEF IsText, ItemOK, Name
<1> DEFINE a == Home(Name, Here)
<1>5. /\ a \in Around(Here) /\ HeadingsOf(Name, a) # {}
      /\ \A j \in HeadingsIn(prog) : prog[j].name = Name => prog[j].block = a
      /\ HeadingsOf(Name, a) = {j \in HeadingsIn(prog) : prog[j].name = Name}
  BY <1>1, <1>2, <1>3, <1>4, HomeHeading
<1>6. Called(pc) = HeadingsOf(Name, a)
  BY <1>2 DEF Called, Name
<1>7. \E k \in 1 .. Len(open) : a = open[k].item
  BY <1>1, <1>5, AroundOpen
<1>8. PICK j \in HeadingsIn(prog) : prog[j].name = Name /\ prog[j].block = a
  BY <1>5
<1>9. \/ Lookup(ft, Name) = SymsOf(prog, ft, a)[Name]
      \/ /\ SymbolOf(ft, Name).value.what # "function"
         /\ \A i \in HeadingsIn(prog) : prog[i].name = Name => pc < i
  BY <1>7, <1>8, FoundHeading
<1> HIDE DEF a
<1> QED
  BY <1>2, <1>5, <1>6, <1>7, <1>9 DEF a

(* A call is ready when its name was forward declared or the statements of *)
(* its procedure have begun.                                               *)
LEMMA ReadyIs ==
  ASSUME IsText(prog), pc \in 1 .. Len(prog), prog[pc].op = "call", NEW n,
         Called(pc) = {j \in HeadingsIn(prog) : prog[j].name = n}
  PROVE  Ready(pc) <=> Forwarded(n, pc) \/ Entering(n, pc)
<1>1. ASSUME Forwarded(n, pc)
      PROVE  Ready(pc)
  BY <1>1 DEF Forwarded, Ready
<1>2. ASSUME NEW p \in ProceduresIn(prog), NEW k \in 1 .. Len(prog),
             k < pc, prog[k].op = "begin", prog[k].block = p
      PROVE  p < pc /\ k \in p .. pc /\ p \in HeadingsIn(prog)
  <2>1. k # 1 /\ k \in 2 .. Len(prog)
    BY <1>2 DEF IsText
  <2>2. p \in 1 .. k - 1
    BY <1>2, <2>1 DEF IsText
  <2> QED
    BY <1>2, <2>2 DEF ProceduresIn, HeadingsIn
<1>3. ASSUME Entering(n, pc)
      PROVE  Ready(pc)
  <2>1. PICK p \in ProceduresIn(prog) : prog[p].name = n /\ Begun(p, pc)
    BY <1>3 DEF Entering
  <2>2. PICK k \in 1 .. Len(prog) : k < pc /\ prog[k].op = "begin" /\ prog[k].block = p
    BY <2>1 DEF Begun
  <2> QED
    BY <1>2, <2>1, <2>2 DEF Ready
<1>4. ASSUME Ready(pc)
      PROVE  Forwarded(n, pc) \/ Entering(n, pc)
  <2>1. PICK j \in HeadingsIn(prog) :
           /\ prog[j].name = n /\ j < pc
           /\ \/ prog[j].op = "forward"
              \/ \E k \in j .. pc : prog[k].op = "begin" /\ prog[k].block = j
    BY <1>4 DEF Ready
  <2>2. j \in 1 .. Len(prog)
    BY DEF HeadingsIn
  <2>3. CASE prog[j].op = "forward"
    BY <2>1, <2>3 DEF Forwarded
  <2>4. ASSUME NEW k \in j .. pc, prog[k].op = "begin", prog[k].block = j
        PROVE  Entering(n, pc)
    <3>1. k \in 1 .. Len(prog) /\ k < pc /\ k # 1
      BY <2>2, <2>4 DEF IsText
    <3>2. prog[j].op = "procedure"
      <4>1. k \in 2 .. Len(prog)
        BY <3>1
      <4>2. IsBlock(prog, j)
        BY <2>4, <4>1 DEF IsText
      <4> QED
        BY <4>2 DEF IsBlock, HeadingsIn
    <3>3. j \in ProceduresIn(prog)
      BY <2>2, <3>2 DEF ProceduresIn
    <3> QED
      BY <2>1, <2>4, <3>1, <3>3 DEF Entering, Begun
  <2> QED
    BY <2>1, <2>3, <2>4
<1> QED
  BY <1>1, <1>3, <1>4

(* The generator finds the names that a procedure captured where it finds  *)
(* the procedure.                                                          *)
LEMMA CapturesFound ==
  ASSUME TextInv, FrameInv, CapsInv, PlainInv, GenInv, Distinct, phase = "generate",
         NEW n, NEW k \in 1 .. Len(open), n \in DOMAIN SymsOf(prog, ft, open[k].item),
         NEW c \in SymIn(n, open[k].item).caps
  PROVE  Found(ft, c)
<1> DEFINE a == open[k].item
           x == SymIn(n, a)
<1>1. /\ IsText(prog) /\ IsOpen(prog, open) /\ Framed(prog, open, ft) /\ Nested(ft)
      /\ Top(open) = Here /\ ~errors /\ DOMAIN prog = 1 .. Len(prog)
      /\ Symbols(heap)
  BY GeneratorAt DEF IsText, IsSeq
<1>2. a \in BlocksIn(prog)
  BY <1>1, OpenBlocks
<1>3. SymsOf(prog, ft, a)[n] \in 1 .. Len(heap) /\ x.block = a /\ x.name = n
  BY <1>2, CellIn DEF GenInv, Tagged
<1>4. x.kind = "proc" /\ Closed(x)
  <2>1. x.kind = "proc"
    BY <1>3 DEF PlainInv, Plain, SymIn
  <2> QED
    BY <1>1, <1>3, <2>1 DEF CapsInv, SymIn
<1>5. PICK q \in ProceduresIn(prog) : prog[q].block = a /\ FromAround(c, q)
  BY <1>3, <1>4 DEF Closed
<1> HIDE DEF x
<1> DEFINE h == Home(c, q)
<1>6. q \in 1 .. Len(prog) /\ h \in Homes(c, q) /\ h # q
  <2>1. q \in 1 .. Len(prog)
    BY DEF ProceduresIn
  <2> QED
    BY <1>1, <1>5, <2>1, HomeIs DEF FromAround
<1>7. h \in Around(q) /\ (c \in DOMAIN prog[h].decs \/ HeadingsOf(c, h) # {})
  BY <1>6 DEF Homes
<1> HIDE DEF h
<1>8. h \in Around(Here)
  <2>1. h \in Around(a)
    BY <1>1, <1>5, <1>6, <1>7, AroundUnfolds
  <2> QED
    BY <1>1, <2>1, AroundOuter
<1>9. PICK i \in 1 .. Len(open) : h = open[i].item
  BY <1>1, <1>8, AroundOpen
<1>10. h \in BlocksIn(prog)
  BY <1>1, <1>9, OpenBlocks
<1>11. c \in DOMAIN SymsOf(prog, ft, h)
  <2>1. CASE c \in DOMAIN prog[h].decs
    <3>1. h \in 1 .. Len(prog)
      BY <1>1, <1>10, BlocksAre
    <3>2. c \in Vars
      BY <1>1, <2>1, <3>1 DEF IsText, ItemOK
    <3> QED
      BY <1>10, <2>1, <3>2 DEF GenInv, VarRight
  <2>2. CASE HeadingsOf(c, h) # {}
    <3>1. PICK j \in HeadingsIn(prog) : prog[j].name = c /\ prog[j].block = h
      BY <1>1, <2>2 DEF HeadingsOf, HeadingsIn
    <3> QED
      BY <3>1, ProcedureNamed
  <2> QED
    BY <1>7, <2>1, <2>2
<1> QED
  BY <1>1, <1>9, <1>11, FoundIn

LEMMA OneName ==
  ASSUME NEW n
  PROVE  Append(Main, n) = << n >>
BY DEF Main

(* The procedure that is meant, and its function. *)
FnMeant(f) ==
    \/ \E j \in Called(pc) : prog[j].op = "forward" /\ prog[j].block # 1
    \/ \A j \in Called(pc) : prog[j].op = "forward"
    \/ f = FnOf(Procedure(pc)) /\ Procedure(pc) \in ProceduresIn(prog)

LEMMA CallReady ==
  ASSUME TextInv, FrameInv, UniqueInv, CapsInv, GenInv, PlainInv, WithinInv, CallsInv, NamesInv,
         Distinct, phase = "generate", prog[pc].op = "call"
  PROVE  LET x == SymbolOf(ft, Name)
         IN  /\ x.value.what = "function" <=> Ready(pc)
             /\ Ready(pc) => \A c \in x.caps : Found(ft, c)
             /\ Ready(pc) => FnMeant(x.value.fn)
<1> DEFINE a == Home(Name, Here)
           n == Name
           x == SymbolOf(ft, Name)
<1>1. /\ IsText(prog) /\ pc \in 1 .. Len(prog) /\ \A i, j \in ProceduresIn(prog) : prog[i].name = prog[j].name => i = j
  BY GeneratorAt DEF NestedIn
<1>2. /\ Called(pc) = {j \in HeadingsIn(prog) : prog[j].name = n} /\ Called(pc) # {}
      /\ \A j \in Called(pc) : prog[j].block = a
      /\ \E k \in 1 .. Len(open) : a = open[k].item
      /\ \/ Lookup(ft, n) = SymsOf(prog, ft, a)[n]
         \/ /\ x.value.what # "function"
            /\ \A j \in Called(pc) : pc < j
  BY CalledFound
<1>3. Ready(pc) <=> Forwarded(n, pc) \/ Entering(n, pc)
  BY <1>1, <1>2, ReadyIs
<1>4. \A f : Function(f).what = "function" /\ Function(f).fn = f
  BY DEF Function, Value
<1>5. PICK j : j \in Called(pc)
  BY <1>2
<1>6. j \in HeadingsIn(prog) /\ prog[j].name = n /\ prog[j].block = a
  BY <1>2, <1>5
<1> HIDE DEF a, n
<1>7. CASE Lookup(ft, n) = SymsOf(prog, ft, a)[n]
  <2>1. x = SymIn(n, a)
    BY <1>7 DEF SymIn, SymbolOf, n
  <2>2. NameRight(j, pc)
    BY <1>6 DEF NamesInv
  <2> HIDE DEF x
  <2>3. /\ \A p \in ProceduresIn(prog) : prog[p].name = n /\ Begun(p, pc) =>
              x.value = Function(FnOf(p))
        /\ Forwarded(n, pc) /\ ~Entering(n, pc) => x.value = Function(<< n >>)
        /\ x.value.what = "function" => Forwarded(n, pc) \/ Entering(n, pc)
    BY <1>6, <2>1, <2>2 DEF NameRight
  <2>4. x.value.what = "function" <=> Ready(pc)
    BY <1>3, <1>4, <2>3 DEF Entering
  <2>5. \A c \in x.caps : Found(ft, c)
    <3>1. n \in DOMAIN SymsOf(prog, ft, a)
      BY <1>6, ProcedureNamed
    <3> QED
      BY <1>2, <2>1, <3>1, CapturesFound
  <2>6. ASSUME Ready(pc), ~\A i \in Called(pc) : prog[i].op = "forward"
        PROVE  FnMeant(x.value.fn)
    <3>1. PICK p \in Called(pc) : prog[p].op # "forward"
      BY <2>6
    <3>2. p \in ProceduresIn(prog) /\ prog[p].op = "procedure" /\ prog[p].name = n /\ prog[p].block = a
      BY <1>2, <3>1 DEF HeadingsIn, ProceduresIn
    <3>3. \A i \in Called(pc) : prog[i].op = "procedure" => i = p
      BY <1>1, <1>2, <3>2 DEF HeadingsIn, ProceduresIn
    <3>4. Procedure(pc) = p
      BY <3>1, <3>2, <3>3 DEF Procedure
    <3>5. CASE Entering(n, pc)
      <4>1. Begun(p, pc)
        BY <1>1, <3>2, <3>5 DEF Entering
      <4>2. x.value.fn = FnOf(p)
        BY <1>4, <2>3, <3>2, <4>1
      <4> QED
        BY <3>2, <3>4, <4>2 DEF FnMeant
    <3>6. CASE ~Entering(n, pc)
      <4>1. Forwarded(n, pc) /\ x.value.fn = << n >>
        BY <1>3, <1>4, <2>3, <2>6, <3>6
      <4>2. CASE a = 1
        <5>1. p \in 2 .. Len(prog)
          BY <1>1, <3>2 DEF ProceduresIn, IsText
        <5>2. FnOf(p) = Append(FnOf(1), n) /\ FnOf(1) = Main
          BY <1>1, <3>2, <4>2, <5>1, FnUnfolds
        <5>3. FnOf(p) = << n >>
          BY <5>2, OneName
        <5> QED
          BY <3>2, <3>4, <4>1, <5>3 DEF FnMeant
      <4>3. CASE a # 1
        <5>1. PICK f \in HeadingsIn(prog) : prog[f].op = "forward" /\ prog[f].name = n
          BY <4>1 DEF Forwarded
        <5>2. f \in Called(pc) /\ prog[f].block = a
          BY <1>2, <5>1
        <5> QED
          BY <4>3, <5>1, <5>2 DEF FnMeant
      <4> QED
        BY <4>2, <4>3
    <3> QED
      BY <3>5, <3>6
  <2>7. Ready(pc) => FnMeant(x.value.fn)
    BY <2>6 DEF FnMeant
  <2> QED
    BY <2>4, <2>5, <2>7 DEF x
<1>8. CASE x.value.what # "function" /\ \A i \in Called(pc) : pc < i
  <2>1. ~Ready(pc)
    <3>1. \A i \in Called(pc) : i \in 1 .. Len(prog)
      BY <1>2 DEF HeadingsIn
    <3> QED
      BY <1>1, <1>8, <3>1 DEF Ready
  <2> QED
    BY <1>8, <2>1
<1> QED
  BY <1>2, <1>7, <1>8

-----------------------------------------------------------------------------
(* The functions.                                                          *)

LEMMA MeaningStays ==
  ASSUME prog' = prog
  PROVE  /\ \A i : Called(i)' = Called(i)
         /\ Calls' = Calls
         /\ \A c : Meant(c)' <=> Meant(c)
         /\ \A i : Ready(i)' <=> Ready(i)
<1>1. /\ \A n, b : HeadingsOf(n, b)' = HeadingsOf(n, b)
      /\ \A n, b : Home(n, b)' = Home(n, b)
      /\ \A b : FnOf(b)' = FnOf(b)
  BY ScopesStay DEF HeadingsOf, FnOf
<1>2. \A i : Called(i)' = Called(i)
  BY <1>1 DEF Called
<1>3. \A i : Procedure(i)' = Procedure(i)
  BY <1>2 DEF Procedure
<1>4. Calls' = Calls /\ ProceduresIn(prog)' = ProceduresIn(prog)
  BY DEF Calls, ProceduresIn
<1>5. \A c : Meant(c)' <=> Meant(c)
  BY <1>1, <1>2, <1>3, <1>4 DEF Meant
<1>6. \A i : Ready(i)' <=> Ready(i)
  BY <1>2 DEF Ready
<1> QED
  BY <1>2, <1>4, <1>5, <1>6

(* A step of the generator past the item that it is at. *)
LEMMA FunctionsStep ==
  ASSUME TextInv, FunctionsInv, phase = "generate", prog' = prog,
         \/ phase' = "generate" /\ pc' = pc + 1
         \/ phase' = "done" /\ pc = Len(prog),
         \A f \in DOMAIN code'.funcs : f \in DOMAIN code.funcs \/ (pc \in HeadingsIn(prog) /\ FunctionFor(f, pc)),
         code.bodies \subseteq code'.bodies,
         prog[pc].op = "procedure" => [fn |-> FnOf(pc), item |-> pc] \in code'.bodies,
         \A c \in code'.calls : c \in code.calls \/ Meant(c),
         prog[pc].op = "call" => Ready(pc)
  PROVE  FunctionsInv'
<1> DEFINE at == IF phase' = "done" THEN Len(prog) + 1 ELSE pc'
<1>1. at = pc + 1 /\ pc \in 1 .. Len(prog) /\ Len(prog) \in Nat
  BY PassAt
<1>2. \A j \in 1 .. Len(prog) : j < at <=> j < pc \/ j = pc
  BY <1>1
<1> HIDE DEF at
<1>3. /\ HeadingsIn(prog)' = HeadingsIn(prog) /\ ProceduresIn(prog)' = ProceduresIn(prog)
      /\ HeadingsIn(prog) \subseteq 1 .. Len(prog) /\ ProceduresIn(prog) \subseteq 1 .. Len(prog)
      /\ \A b : FnOf(b)' = FnOf(b)
  BY DEF HeadingsIn, ProceduresIn, FnOf
<1>4. \A f \in DOMAIN code'.funcs : \E j \in HeadingsIn(prog) : j < at /\ FunctionFor(f, j)'
  <2>1. \A f, j : FunctionFor(f, j)' <=> FunctionFor(f, j)
    BY DEF FunctionFor
  <2> QED
    BY <1>2, <1>3, <2>1 DEF FunctionsInv
<1>5. \A j \in ProceduresIn(prog) : j < at => [fn |-> FnOf(j), item |-> j] \in code'.bodies
  <2>1. ASSUME NEW j \in ProceduresIn(prog), j < at
        PROVE  [fn |-> FnOf(j), item |-> j] \in code'.bodies
    <3>1. CASE j < pc
      BY <3>1 DEF FunctionsInv
    <3>2. CASE j = pc
      BY <3>2 DEF ProceduresIn
    <3> QED
      BY <1>2, <1>3, <2>1, <3>1, <3>2
  <2> QED
    BY <2>1
<1>6. \A c \in code'.calls : Meant(c)
  BY DEF FunctionsInv
<1>7. \A i \in Calls : i < at => Ready(i)
  <2>1. ASSUME NEW i \in Calls, i < at
        PROVE  Ready(i)
    <3>1. i \in 1 .. Len(prog) /\ prog[i].op = "call"
      BY PassAt DEF Calls, IsText, IsSeq
    <3>2. CASE i < pc
      BY <3>2 DEF FunctionsInv
    <3>3. CASE i = pc
      BY <3>1, <3>3
    <3> QED
      BY <1>2, <2>1, <3>1, <3>2, <3>3
  <2> QED
    BY <2>1
<1>8. prog'[1] = prog[1] /\ Len(prog') = Len(prog)
  OBVIOUS
<1> QED
  BY <1>3, <1>4, <1>5, <1>6, <1>7, <1>8, MeaningStays DEF FunctionsInv, at

LEMMA FunctionsKept ==
  ASSUME TextInv, TextInv', FrameInv, UniqueInv, CapsInv, GenInv, NoCodeInv, PlainInv, WithinInv,
         CallsInv, NamesInv, FunctionsInv, Distinct, [Next]_vars
  PROVE  FunctionsInv'
<1>1. CASE Parser
  BY <1>1, ParserPhases DEF FunctionsInv
<1>2. CASE Inspector
  <2>1. phase' \in {"inspect", "failed"} => FunctionsInv'
    BY DEF FunctionsInv
  <2>2. CASE InspectEndModule /\ phase' = "generate"
    <3>1. pc' = 1 /\ prog' = prog /\ code' = code /\ phase = "inspect"
      BY <2>2, InspectionEnds
    <3>2. DOMAIN code.funcs = {} /\ code.bodies = {} /\ code.calls = {}
      BY <3>1 DEF NoCodeInv, NoCode, NoBindings
    <3>3. \A i \in 1 .. Len(prog) : ~(i < 1)
      OBVIOUS
    <3>4. IsText(prog)
      BY <3>1, PassAt
    <3>5. Calls \subseteq 1 .. Len(prog) /\ ProceduresIn(prog) \subseteq 1 .. Len(prog)
      BY <3>4 DEF Calls, ProceduresIn, IsText, IsSeq
    <3>6. Calls' = Calls /\ ProceduresIn(prog)' = ProceduresIn(prog)
      BY <3>1 DEF Calls, ProceduresIn
    <3> QED
      BY <2>2, <3>1, <3>2, <3>3, <3>5, <3>6 DEF FunctionsInv
  <2>3. phase' \in {"inspect", "failed"} \/ (InspectEndModule /\ phase' = "generate")
    BY <1>2 DEF Inspector, InspectModule, InspectProcedure, InspectForward, InspectBegin,
       InspectUse, InspectCall, InspectReturn, InspectEndProcedure, InspectEndModule,
       Inspecting, Onward
  <2> QED
    BY <2>1, <2>2, <2>3
<1>3. CASE Generator
  <2>0. phase = "generate" /\ prog' = prog /\ pc \in 1 .. Len(prog)
    BY <1>3, GeneratorSteps, PassAt
  <2>1. CASE GenerateModule \/ GenerateBegin \/ GenerateReturn \/ GenerateEndProcedure
    <3>1. /\ phase' = "generate" /\ pc' = pc + 1 /\ code' = code
          /\ prog[pc].op \in {"module", "begin", "return", "end"}
      BY <2>0, <2>1 DEF GenerateModule, GenerateBegin, GenerateReturn, GenerateEndProcedure,
         Generating, At, Onward
    <3> QED
      BY <2>0, <3>1, FunctionsStep
  <2>2. CASE GenerateUse
    <3>1. /\ phase' = "generate" /\ pc' = pc + 1 /\ prog[pc].op = "use"
          /\ code' = [code EXCEPT !.accesses = @ \cup {Access(ft, Name)}]
      BY <2>0, <2>2 DEF GenerateUse, Generating, At, Onward, Emit
    <3>2. code'.funcs = code.funcs /\ code'.bodies = code.bodies /\ code'.calls = code.calls
      BY <3>1 DEF NoCodeInv
    <3> QED
      BY <2>0, <3>1, <3>2, FunctionsStep
  <2>3. CASE GenerateProcedure
    <3>1. /\ phase' = "generate" /\ pc' = pc + 1 /\ prog[pc].op = "procedure"
          /\ \E t : code' = [code EXCEPT !.funcs = WithFunction(NestedName(Name), t),
                                  !.bodies = @ \cup {[fn |-> NestedName(Name), item |-> pc]}]
      BY <2>0, <2>3 DEF GenerateProcedure, Generating, At, Onward
    <3>2. NestedName(Name) = FnOf(pc)
      BY <2>3, NestedNameIs
    <3>3. NestedName(Name)[Len(NestedName(Name))] = prog[pc].name
      <4> DEFINE s == [k \in 1 .. Len(open) - 1 |-> prog[open[k + 1].item].name]
      <4>1. NestedName(Name) = Append(s, prog[pc].name)
        BY DEF NestedName, Name
      <4>2. Len(open) - 1 \in Nat
        BY <2>0 DEF TextInv, Walking, IsOpen, IsSeq
      <4>3. IsSeq(s)
        BY <4>2 DEF IsSeq
      <4> HIDE DEF s
      <4> QED
        BY <4>1, <4>3, Appended
    <3>4. pc \in HeadingsIn(prog)
      BY <2>0, <3>1 DEF HeadingsIn
    <3>5. /\ DOMAIN code'.funcs \subseteq DOMAIN code.funcs \cup {NestedName(Name)}
          /\ code'.calls = code.calls
          /\ code'.bodies = code.bodies \cup {[fn |-> NestedName(Name), item |-> pc]}
      BY <3>1 DEF NoCodeInv, WithFunction, Bind
    <3>6. FunctionFor(NestedName(Name), pc)
      BY <3>1, <3>3 DEF FunctionFor
    <3>7. prog[pc].op = "procedure" /\ phase' = "generate" /\ pc' = pc + 1
      BY <3>1
    <3> QED
      BY <2>0, <3>2, <3>4, <3>5, <3>6, <3>7, FunctionsStep
  <2>4. CASE GenerateForward
    <3>1. /\ phase' = "generate" /\ pc' = pc + 1 /\ prog[pc].op = "forward"
          /\ \E t : code' = [code EXCEPT !.funcs = WithFunction(ForwardName(Name), t)]
      BY <2>0, <2>4 DEF GenerateForward, Generating, At, Onward
    <3>2. ForwardName(Name) = << Name >>
      BY <2>0, <3>1, ForwardNamed
    <3>3. << Name >>[Len(<< Name >>)] = prog[pc].name /\ pc \in HeadingsIn(prog)
      BY <2>0, <3>1 DEF HeadingsIn, Name
    <3>4. /\ DOMAIN code'.funcs \subseteq DOMAIN code.funcs \cup {<< Name >>}
          /\ code'.calls = code.calls /\ code'.bodies = code.bodies
      BY <3>1, <3>2 DEF NoCodeInv, WithFunction, Bind
    <3>5. FunctionFor(<< Name >>, pc)
      BY <3>3 DEF FunctionFor, Name
    <3>6. prog[pc].op = "forward" /\ phase' = "generate" /\ pc' = pc + 1
      BY <3>1
    <3> QED
      BY <2>0, <3>3, <3>4, <3>5, <3>6, FunctionsStep
  <2>5. CASE GenerateCall
    <3> DEFINE x == SymbolOf(ft, Name)
               passed == [n \in x.caps |-> SymbolOf(ft, n).value]
               c0 == [at |-> pc, fn |-> x.value.fn, passed |-> passed]
    <3>1. /\ prog[pc].op = "call" /\ pc \in Calls
          /\ x.value.what = "function" <=> Ready(pc)
          /\ Ready(pc) => FnMeant(x.value.fn)
      <4>1. prog[pc].op = "call"
        BY <2>5 DEF GenerateCall, Generating, At
      <4>2. pc \in Calls
        BY <2>0, <4>1, PassAt DEF Calls, IsText, IsSeq
      <4> QED
        BY <2>0, <4>1, <4>2, CallReady
    <3>2. /\ x.value.what = "function" /\ phase' = "generate" /\ pc' = pc + 1
          /\ code'.calls = code.calls \cup {c0}
          /\ code'.funcs = code.funcs /\ code'.bodies = code.bodies
      <4>1. /\ x.value.what = "function" /\ phase' = "generate" /\ pc' = pc + 1
            /\ code' = [code EXCEPT
                 !.accesses = @ \cup (IF prog[pc].arg = NoName THEN {} ELSE {Access(ft, prog[pc].arg)}),
                 !.calls = @ \cup {c0}]
        BY <2>0, <2>5 DEF GenerateCall, Callable, Onward
      <4> HIDE DEF c0
      <4> QED
        BY <4>1 DEF NoCodeInv
    <3>3. c0.at = pc /\ c0.fn = x.value.fn
      OBVIOUS
    <3> HIDE DEF c0, x
    <3>4. Meant(c0)
      BY <3>1, <3>2, <3>3 DEF Meant, FnMeant
    <3> QED
      BY <2>0, <3>1, <3>2, <3>4, FunctionsStep
  <2>6. CASE GenerateEndModule
    <3>1. /\ phase' = "done" /\ code' = code /\ prog[pc].op = "end" /\ InModule
      BY <2>6 DEF GenerateEndModule, Generating, At
    <3>2. pc = Len(prog)
      <4>1. IsText(prog) /\ Here = 1 /\ pc # 1 /\ Here = prog[pc].block /\ Len(prog) \in Nat
        <5>1. IsText(prog) /\ Here = 1 /\ Len(prog) \in Nat
          BY <2>0, <3>1, PassAt DEF InModule
        <5>2. pc # 1
          BY <3>1, <5>1 DEF IsText
        <5> QED
          BY <2>0, <5>1, <5>2, PassAt
      <4>2. Ends(prog, pc)
        BY <3>1, <4>1 DEF Ends
      <4>3. ~(pc \in 1 .. Len(prog) - 1)
        BY <4>1, <4>2 DEF IsText
      <4> QED
        BY <2>0, <4>1, <4>3
    <3> QED
      BY <2>0, <3>1, <3>2, FunctionsStep
  <2>7. CASE Abort
    BY <2>7 DEF Abort, FunctionsInv
  <2> QED
    BY <1>3, <2>1, <2>2, <2>3, <2>4, <2>5, <2>6, <2>7 DEF Generator
<1>4. CASE UNCHANGED vars
  <2>1. prog' = prog /\ pc' = pc /\ phase' = phase /\ code' = code
    BY <1>4 DEF vars
  <2>2. /\ HeadingsIn(prog)' = HeadingsIn(prog) /\ ProceduresIn(prog)' = ProceduresIn(prog)
        /\ \A b : FnOf(b)' = FnOf(b)
        /\ \A f, j : FunctionFor(f, j)' <=> FunctionFor(f, j)
    BY <2>1 DEF HeadingsIn, ProceduresIn, FnOf, FunctionFor
  <2> QED
    BY <2>1, <2>2, MeaningStays DEF FunctionsInv
<1> QED
  BY <1>1, <1>2, <1>3, <1>4 DEF Next

-----------------------------------------------------------------------------
(* What is generated.                                                      *)

ReadyInv ==
    /\ StorageInv
    /\ GlobalInv /\ CallsInv /\ PlainInv /\ LateInv /\ WithinInv /\ FnsInv /\ BegunInv
    /\ NamesInv /\ FunctionsInv

LEMMA ReadyInit == Init /\ Distinct => ReadyInv
<1> SUFFICES ASSUME Init, Distinct
             PROVE  ReadyInv
  OBVIOUS
<1>1. phase = "parse"
  BY DEF Init
<1> QED
  BY <1>1, StorageInit, PlainInit
     DEF ReadyInv, GlobalInv, CallsInv, LateInv, WithinInv, FnsInv, BegunInv, NamesInv,
         FunctionsInv

LEMMA ReadyStep == ReadyInv /\ Distinct /\ [Next]_vars => ReadyInv'
<1> SUFFICES ASSUME ReadyInv, Distinct, [Next]_vars
             PROVE  ReadyInv'
  OBVIOUS
<1>1. StorageInv'
  BY StorageStep DEF ReadyInv
<1>2. /\ TextInv /\ TextInv' /\ FrameInv /\ FrameInv' /\ HoldInv /\ BodyInv /\ FreeOut
      /\ OpenSymbols /\ CapsInv /\ NoProcs /\ UniqueInv /\ ProcsInv /\ GenInv /\ NoCodeInv
  BY <1>1 DEF ReadyInv, StorageInv, ClosureInv
<1>3. /\ GlobalInv /\ CallsInv /\ PlainInv /\ LateInv /\ WithinInv /\ FnsInv /\ BegunInv
      /\ NamesInv /\ FunctionsInv
  BY DEF ReadyInv
<1>4. GlobalInv' /\ CallsInv'
  BY <1>2, <1>3, GlobalKept, CallsKept
<1>5. PlainInv' /\ LateInv'
  BY <1>2, <1>3, PlainKept, LateKept
<1>6. WithinInv' /\ FnsInv' /\ BegunInv'
  BY <1>2, <1>3, WithinKept, FnsKept, BegunKept
<1>7. NamesInv'
  BY <1>2, <1>3, NamesKept
<1>8. FunctionsInv'
  BY <1>2, <1>3, FunctionsKept
<1> QED
  BY <1>1, <1>4, <1>5, <1>6, <1>7, <1>8 DEF ReadyInv

(* Every call is past when the generator is done. *)
LEMMA AllGenerated ==
  ReadyInv => (phase = "done" => \A i \in Calls : Ready(i)) /\ CallsReachBody
<1> SUFFICES ASSUME ReadyInv
             PROVE  (phase = "done" => \A i \in Calls : Ready(i)) /\ CallsReachBody
  OBVIOUS
<1>1. TextInv /\ FunctionsInv
  BY DEF ReadyInv, StorageInv, ClosureInv
<1>2. ASSUME phase = "done"
      PROVE  /\ \A i \in Calls : Ready(i)
             /\ \A c \in code.calls :
                   \/ \E j \in Called(c.at) : prog[j].op = "forward" /\ prog[j].block # 1
                   \/ \A j \in Called(c.at) : prog[j].op = "forward"
                   \/ Reaches(c)
  <2>1. IsText(prog) /\ Len(prog) \in Nat
    BY <1>1, <1>2, PassAt
  <2>2. \A i \in 1 .. Len(prog) : i < Len(prog) + 1
    BY <2>1
  <2>3. Calls \subseteq 1 .. Len(prog) /\ ProceduresIn(prog) \subseteq 1 .. Len(prog)
    BY <2>1 DEF Calls, ProceduresIn, IsText, IsSeq
  <2>4. /\ \A j \in ProceduresIn(prog) : [fn |-> FnOf(j), item |-> j] \in code.bodies
        /\ \A c \in code.calls : Meant(c)
        /\ \A i \in Calls : Ready(i)
    BY <1>1, <1>2, <2>2, <2>3 DEF FunctionsInv
  <2> QED
    BY <2>4 DEF Meant, Reaches
<1> QED
  BY <1>1, <1>2 DEF CallsReachBody

(* In every program whose procedures have different names, each call that  *)
(* is generated calls the function with the code of the procedure that its *)
(* name denotes, unless the procedure has no body or a forward declaration *)
(* inside a procedure.                                                     *)
THEOREM CallsReach ==
  ASSUME Distinct
  PROVE  Spec => []CallsReachBody
<1>1. Init => ReadyInv
  BY ReadyInit
<1>2. ReadyInv /\ [Next]_vars => ReadyInv'
  BY ReadyStep
<1>3. ReadyInv => CallsReachBody
  BY AllGenerated
<1> QED
  BY <1>1, <1>2, <1>3, PTL DEF Spec

-----------------------------------------------------------------------------
(* The verdict.  What the inspector asks of the frames at an item is what  *)
(* the scope rules say of the text there: NameFound has it for names and   *)
(* TypedInv for variables.  The symbol under the name of a procedure is    *)
(* the parser's, which has no parameters, until the inspector comes to a   *)
(* heading of the procedure, and has the parameters of the heading that it *)
(* came to last from then on.  And the procedure visited last is the one   *)
(* that a RETURN is in, unless others are nested in that.                  *)

ParamsOf(j) ==
    LET ns == SetToSeq(Params(prog[j].decs)) IN [k \in DOMAIN ns |-> prog[j].decs[ns[k]]]

(* A symbol with the name of a procedure is one of a procedure.  The       *)
(* parser's are not global, which those are that the inspector, which is   *)
(* at item i, has made for the headings that it has come to.               *)
Headed(x)    == x.name \in Range(ProcNames) => x.kind \in {"fwd", "proc"}
Untouched(x) == x.kind = "fwd" => ~x.global /\ x.params = << >>

Known(x, i) ==
    /\ x.kind = "proc" =>
         \E j \in ProceduresIn(prog) : j < i /\ prog[j].name = x.name /\ x.params = ParamsOf(j)
    /\ x.kind = "fwd" =>
         IF x.global THEN \E j \in HeadingsIn(prog) : /\ j < i /\ prog[j].op = "forward"
                                                      /\ prog[j].name = x.name
                                                      /\ x.params = ParamsOf(j)
                     ELSE x.params = << >>

HeadedInv ==
    /\ phase \in {"parse", "inspect"} => \A h \in 1 .. Len(heap) : Headed(heap[h])
    /\ phase = "parse" => \A h \in 1 .. Len(heap) : Untouched(heap[h])
    /\ phase = "inspect" => \A h \in 1 .. Len(heap) : Known(heap[h], pc)

(* The procedure visited last, when the inspector is at item i. *)
LastBefore(i) ==
    /\ \A j \in ProceduresIn(prog) : j < i => j <= last_proc
    /\ last_proc # 0 => last_proc \in ProceduresIn(prog) /\ last_proc < i

(* There is none among the statements of the module. *)
LastInv ==
    /\ phase = "parse" => last_proc = 0
    /\ phase = "inspect" =>
         IF InBody /\ prog[pc].block = 1 THEN last_proc = 0 ELSE LastBefore(pc)

Bad(i) == Wrong(i) \/ (i \in Returns /\ ~ReturnFits(i))

(* No procedure is nested in one with a RETURN. *)
ReturnsOutside ==
    \A i \in Returns : prog[i].block = 1 \/ NestsNothing(prog[i].block)

VerdictInv ==
    /\ phase = "inspect" /\ ReturnsOutside => (errors <=> \E i \in 1 .. pc - 1 : Bad(i))
    /\ VerdictRight

ReportInv == ReadyInv /\ HeadedInv /\ LastInv /\ VerdictInv

-----------------------------------------------------------------------------
(* The names of procedures in the heap.                                    *)

LEMMA JoinedItems ==
  ASSUME NEW H, IsSeq(H), NEW S, IsSeq(S), NEW G, G = H \o S, NEW h \in 1 .. Len(G)
  PROVE  \/ \E k \in 1 .. Len(H) : G[h] = H[k]
         \/ \E k \in 1 .. Len(S) : G[h] = S[k]
<1>1. /\ Len(G) = Len(H) + Len(S) /\ Len(H) \in Nat /\ Len(S) \in Nat
      /\ \A k \in 1 .. Len(H) : G[k] = H[k]
      /\ \A k \in 1 .. Len(S) : G[Len(H) + k] = S[k]
  BY Joined DEF IsSeq
<1>2. CASE h \in 1 .. Len(H)
  BY <1>1, <1>2
<1>3. CASE h \notin 1 .. Len(H)
  <2>1. h - Len(H) \in 1 .. Len(S) /\ Len(H) + (h - Len(H)) = h
    BY <1>1, <1>3
  <2> QED
    BY <1>1, <2>1
<1> QED
  BY <1>2, <1>3

LEMMA AppendedItems ==
  ASSUME NEW H, IsSeq(H), NEW x, NEW h \in 1 .. Len(Append(H, x))
  PROVE  Append(H, x)[h] = x \/ \E k \in 1 .. Len(H) : Append(H, x)[h] = H[k]
<1>1. /\ Len(Append(H, x)) = Len(H) + 1 /\ Append(H, x)[Len(H) + 1] = x /\ Len(H) \in Nat
      /\ \A k \in 1 .. Len(H) : Append(H, x)[k] = H[k]
  BY Appended DEF IsSeq
<1>2. h \in 1 .. Len(H) \/ h = Len(H) + 1
  BY <1>1
<1> QED
  BY <1>1, <1>2

LEMMA ParserHeading ==
  ASSUME NEW b, NEW n
  PROVE  Headed(Symbol("fwd", b, n)) /\ Untouched(Symbol("fwd", b, n))
BY DEF Headed, Untouched, Symbol

LEMMA InspectorHeading ==
  ASSUME NEW kind \in {"fwd", "proc"}, NEW i
  PROVE  LET x == ProcSymbol(kind, i)
         IN  /\ Headed(x) /\ x.kind = kind /\ x.global /\ x.name = prog[i].name
             /\ x.params = ParamsOf(i)
<1> DEFINE x == ProcSymbol(kind, i)
<1>1. x.kind = kind /\ x.name = prog[i].name /\ x.global
  BY DEF ProcSymbol, Symbol
<1>2. x.params = ParamsOf(i)
  BY DEF ProcSymbol, Symbol, ParamsOf
<1> QED
  BY <1>1, <1>2 DEF Headed

LEMMA UntypedHeaded ==
  ASSUME NEW ns, IsSeq(ns), Values(ns) \subseteq Vars, NEW decs, NEW b
  PROVE  /\ IsSeq(UntypedSymbols(ns, decs, b))
         /\ \A k \in 1 .. Len(UntypedSymbols(ns, decs, b)) :
               Headed(UntypedSymbols(ns, decs, b)[k]) /\ Untouched(UntypedSymbols(ns, decs, b)[k])
<1> DEFINE S == UntypedSymbols(ns, decs, b)
<1>1. /\ IsSeq(S) /\ Len(S) = Len(ns) /\ \A k \in 1 .. Len(ns) : S[k].name = ns[k]
  BY UntypedAre DEF Symbols
<1>2. \A k \in 1 .. Len(ns) : S[k].kind \in {"const", "void"}
  BY DEF UntypedSymbols, Symbol, IsSeq
<1>3. \A k \in 1 .. Len(ns) : ns[k] \notin Range(ProcNames)
  BY NotVars DEF Values
<1> HIDE DEF S
<1>4. IsSeq(S) /\ \A k \in 1 .. Len(S) : Headed(S[k]) /\ Untouched(S[k])
  BY <1>1, <1>2, <1>3 DEF Headed, Untouched
<1> QED
  BY <1>4 DEF S

LEMMA TypedHeaded ==
  ASSUME Bodies(prog), pc \in 1 .. Len(prog), NEW ns, IsSeq(ns), Values(ns) \subseteq Vars,
         Values(ns) \subseteq DOMAIN prog[pc].decs, NEW g
  PROVE  /\ IsSeq(TypedSymbols(ns, g))
         /\ \A k \in 1 .. Len(TypedSymbols(ns, g)) :
               /\ Headed(TypedSymbols(ns, g)[k])
               /\ TypedSymbols(ns, g)[k].kind \notin {"fwd", "proc"}
<1> DEFINE S == TypedSymbols(ns, g)
<1>1. /\ IsSeq(S) /\ Len(S) = Len(ns) /\ \A k \in 1 .. Len(ns) : S[k].name = ns[k]
  BY TypedAre DEF Symbols
<1>2. \A k \in 1 .. Len(ns) : S[k].kind = prog[pc].decs[ns[k]]
  BY DEF TypedSymbols, Symbol, IsSeq
<1>3. \A k \in 1 .. Len(ns) : ns[k] \notin Range(ProcNames) /\ ns[k] \in DOMAIN prog[pc].decs
  BY NotVars DEF Values
<1>4. \A n \in DOMAIN prog[pc].decs : prog[pc].decs[n] \in {"var", "const", "value", "VAR"}
  BY ConstantsAssumption DEF Bodies
<1> HIDE DEF S
<1>5. IsSeq(S) /\ \A k \in 1 .. Len(S) : Headed(S[k]) /\ S[k].kind \notin {"fwd", "proc"}
  BY <1>1, <1>2, <1>3, <1>4 DEF Headed
<1> QED
  BY <1>5 DEF S

LEMMA VarsInOrder ==
  ASSUME NEW S, S \subseteq Vars
  PROVE  IsSeq(SetToSeq(S)) /\ Values(SetToSeq(S)) = S
BY InOrder DEF Idents

LEMMA HeadedInit == Init => HeadedInv
<1> SUFFICES ASSUME Init
             PROVE  HeadedInv
  OBVIOUS
<1>1. PICK decs \in DecsOf(Kinds \cap {"var", "const"}) :
        phase = "parse" /\ heap = UntypedSymbols(SetToSeq(DOMAIN decs), decs, 1)
  BY DEF Init
<1>2. DOMAIN decs \subseteq Vars
  BY DEF DecsOf
<1> QED
  BY <1>1, <1>2, VarsInOrder, UntypedHeaded DEF HeadedInv

LEMMA ParserHeaded ==
  ASSUME TextInv, FrameInv, NoProcs, HeadedInv, Parser
  PROVE  HeadedInv'
<1>1. phase = "parse" /\ (phase' = "parse" \/ (phase' = "inspect" /\ pc' = 1))
  BY ParserPhases
<1>2. /\ IsSeq(heap)
      /\ \A h \in 1 .. Len(heap) : Headed(heap[h]) /\ Untouched(heap[h]) /\ heap[h].kind # "proc"
  BY <1>1 DEF HeadedInv, NoProcs, FrameInv, Scoped, Symbols
<1>3. ASSUME NEW n \in Range(ProcNames), NEW decs \in DecsOf(Kinds), NEW result,
             ParseProcedure(n, decs, result)
      PROVE  /\ phase' = "parse"
             /\ \A h \in 1 .. Len(heap') : Headed(heap'[h]) /\ Untouched(heap'[h])
  <2> DEFINE ns == SetToSeq(Locals(decs))
             S  == UntypedSymbols(ns, decs, pc + 1)
  <2>1. heap' = heap \o S /\ phase' = phase
    BY <1>3 DEF ParseProcedure
  <2>2. Locals(decs) \subseteq Vars
    BY DEF DecsOf, Locals
  <2>3. IsSeq(ns) /\ Values(ns) \subseteq Vars
    BY <2>2, VarsInOrder
  <2> HIDE DEF ns
  <2>4. IsSeq(S) /\ \A k \in 1 .. Len(S) : Headed(S[k]) /\ Untouched(S[k])
    BY <2>3, UntypedHeaded
  <2> HIDE DEF S
  <2> QED
    BY <1>1, <1>2, <2>1, <2>4, JoinedItems
<1>4. CASE \/ ParseEndProcedure
           \/ \E n \in Range(ProcNames), decs \in DecsOf(Kinds \cap {"value", "VAR"}),
                 result \in Results : ParseForward(n, decs, result)
  <2>1. PICK x : heap' = Append(heap, x) /\ Headed(x) /\ Untouched(x) /\ phase' = phase
    <3>1. \E b, n : heap' = Append(heap, Symbol("fwd", b, n)) /\ phase' = phase
      BY <1>4 DEF ParseEndProcedure, ParseForward
    <3> QED
      BY <3>1, ParserHeading
  <2>2. \A h \in 1 .. Len(heap') : Headed(heap'[h]) /\ Untouched(heap'[h])
    BY <1>2, <2>1, AppendedItems
  <2>3. /\ \A h \in 1 .. Len(heap') : Headed(heap[h])'
        /\ \A h \in 1 .. Len(heap') : Untouched(heap[h])'
    BY <2>2 DEF Headed, Untouched
  <2> QED
    BY <1>1, <2>1, <2>3 DEF HeadedInv
<1>5. CASE heap' = heap
  BY <1>1, <1>2, <1>5 DEF HeadedInv, Known, Headed, Untouched
<1>6. CASE \E n \in Range(ProcNames), decs \in DecsOf(Kinds), result \in Results :
              ParseProcedure(n, decs, result)
  <2>1. /\ phase' = "parse"
        /\ \A h \in 1 .. Len(heap') : Headed(heap'[h]) /\ Untouched(heap'[h])
    BY <1>3, <1>6
  <2> QED
    BY <2>1 DEF HeadedInv, Headed, Untouched
<1> QED
  BY <1>4, <1>5, <1>6 DEF Parser, ParseBegin, ParseUse, ParseCall, ParseReturn, ParseStatement,
     ParseEndModule

(* A symbol after a step of the inspector is one from before, but for its  *)
(* captures, or a new one.                                                 *)
OldSymbol(x) ==
    \E g \in 1 .. Len(heap) :
        /\ x.name = heap[g].name /\ x.kind = heap[g].kind
        /\ x.params = heap[g].params /\ x.global = heap[g].global

NewSymbol(x) ==
    /\ Headed(x)
    /\ x.kind \in {"fwd", "proc"} =>
         /\ pc \in HeadingsIn(prog) /\ x.name = prog[pc].name /\ x.params = ParamsOf(pc)
         /\ x.global /\ prog[pc].op = IF x.kind = "proc" THEN "procedure" ELSE "forward"

LEMMA InspectorSymbols ==
  ASSUME TextInv, TextInv', FrameInv, BodyInv, OpenSymbols, Inspector, NEW h \in 1 .. Len(heap')
  PROVE  OldSymbol(heap'[h]) \/ NewSymbol(heap'[h])
<1>1. phase = "inspect" /\ prog' = prog
  BY InspectorAt
<1>2. IsSeq(heap)
  BY DEF FrameInv, Scoped, Symbols
<1>3. /\ IsText(prog) /\ pc \in 1 .. Len(prog) /\ Bodies(prog)
  BY <1>1, PassAt DEF BodyInv
<1>4. DOMAIN prog[pc].decs \subseteq Vars
  BY <1>3 DEF IsText, ItemOK
<1> DEFINE ns == SetToSeq(DOMAIN prog[pc].decs)
           S(g) == TypedSymbols(ns, g)
<1>5. IsSeq(ns) /\ Values(ns) = DOMAIN prog[pc].decs
  BY <1>4, VarsInOrder
<1> HIDE DEF ns
<1>6. \A g : /\ IsSeq(S(g))
             /\ \A k \in 1 .. Len(S(g)) : Headed(S(g)[k]) /\ S(g)[k].kind \notin {"fwd", "proc"}
  BY <1>3, <1>4, <1>5, TypedHeaded
<1>7. \A k \in 1 .. Len(heap) : OldSymbol(heap[k])
  BY DEF OldSymbol
<1>0. \A g : IsSeq(S(g)) /\ \A k \in 1 .. Len(S(g)) : NewSymbol(S(g)[k])
  BY <1>6 DEF NewSymbol
<1>8. CASE InspectModule
  <2>1. heap' = heap \o S(TRUE)
    BY <1>8 DEF InspectModule, ns
  <2> HIDE DEF S
  <2>2. PICK T : heap' = heap \o T /\ IsSeq(T) /\ \A k \in 1 .. Len(T) : NewSymbol(T[k])
    BY <1>0, <2>1
  <2>3. heap' = heap \o T /\ IsSeq(T)
    BY <2>2
  <2>4. (\E k \in 1 .. Len(heap) : heap'[h] = heap[k]) \/ \E k \in 1 .. Len(T) : heap'[h] = T[k]
    BY <1>2, <2>3, JoinedItems
  <2> QED
    BY <1>7, <2>2, <2>4
<1>9. CASE InspectProcedure
  <2> DEFINE x == ProcSymbol("proc", pc)
             H == Append(heap, x)
  <2>1. heap' = H \o S(FALSE)
    BY <1>9 DEF InspectProcedure, ns
  <2>2. pc \in HeadingsIn(prog) /\ prog[pc].op = "procedure"
    BY <1>3, <1>9 DEF InspectProcedure, Inspecting, At, HeadingsIn
  <2>3. NewSymbol(x)
    BY <2>2, InspectorHeading DEF NewSymbol
  <2>4. IsSeq(H)
    BY <1>2, Appended
  <2> HIDE DEF S, x
  <2>5. \A k \in 1 .. Len(H) : OldSymbol(H[k]) \/ NewSymbol(H[k])
    BY <1>2, <1>7, <2>3, AppendedItems
  <2> HIDE DEF H
  <2>6. PICK T : heap' = H \o T /\ IsSeq(T) /\ \A k \in 1 .. Len(T) : NewSymbol(T[k])
    BY <1>0, <2>1
  <2>7. heap' = H \o T /\ IsSeq(T)
    BY <2>6
  <2>8. (\E k \in 1 .. Len(H) : heap'[h] = H[k]) \/ \E k \in 1 .. Len(T) : heap'[h] = T[k]
    BY <2>4, <2>7, JoinedItems
  <2> QED
    BY <2>5, <2>6, <2>8
<1>10. CASE InspectForward
  <2> DEFINE x == ProcSymbol("fwd", pc)
  <2>1. heap' = Append(heap, x)
    BY <1>10 DEF InspectForward
  <2>2. NewSymbol(x)
    <3>1. pc \in HeadingsIn(prog) /\ prog[pc].op = "forward"
      BY <1>3, <1>10 DEF InspectForward, Inspecting, At, HeadingsIn
    <3> QED
      BY <3>1, InspectorHeading DEF NewSymbol
  <2> HIDE DEF x
  <2> QED
    BY <1>2, <1>7, <2>1, <2>2, AppendedItems
<1>11. CASE InspectEndProcedure
  <2> DEFINE closed == [heap EXCEPT ![Inner.sym].caps = Taken]
             x == Symbol("closure", Here, ClosureArg)
  <2>1. heap' = heap \/ heap' = Append(closed, x)
    BY <1>11 DEF InspectEndProcedure, Taken
  <2>2. Inner.sym \in 1 .. Len(heap)
    BY <1>11, InnerSymbol DEF OpenSymbol
  <2>3. /\ Len(heap) \in Nat /\ heap = [g \in 1 .. Len(heap) |-> heap[g]] /\ Symbols(heap)
    BY DEF FrameInv, Scoped, Symbols, IsSeq
  <2>4. IsSeq(closed) /\ Len(closed) = Len(heap)
    <3>1. closed = [g \in 1 .. Len(heap) |-> closed[g]]
      BY <2>3
    <3>2. Len(closed) = Len(heap)
      BY <2>3, <3>1, LenOfDomain
    <3> QED
      BY <2>3, <3>1, <3>2 DEF IsSeq
  <2>5. ASSUME NEW k \in 1 .. Len(closed)
        PROVE  OldSymbol(closed[k])
    <3>1. k \in 1 .. Len(heap) /\ IsSymbol(heap[k])
      BY <2>3, <2>4 DEF Symbols
    <3>2. CASE k = Inner.sym
      <4>1. closed[k] = [heap[k] EXCEPT !.caps = Taken]
        BY <2>3, <3>1, <3>2
      <4>2. closed[k].name = heap[k].name /\ closed[k].kind = heap[k].kind
            /\ closed[k].params = heap[k].params /\ closed[k].global = heap[k].global
        BY <3>1, <4>1 DEF IsSymbol
      <4> QED
        BY <3>1, <4>2 DEF OldSymbol
    <3>3. CASE k # Inner.sym
      BY <1>7, <2>3, <3>1, <3>3
    <3> QED
      BY <3>2, <3>3
  <2>6. NewSymbol(x)
    <3>1. x.name = ClosureArg /\ x.kind = "closure"
      BY DEF Symbol
    <3>2. ClosureArg \notin Range(ProcNames)
      BY NamesAssumption
    <3> QED
      BY <3>1, <3>2 DEF NewSymbol, Headed
  <2> HIDE DEF closed, x
  <2> QED
    BY <1>7, <2>1, <2>4, <2>5, <2>6, AppendedItems
<1>12. CASE heap' = heap
  BY <1>7, <1>12
<1> QED
  BY <1>8, <1>9, <1>10, <1>11, <1>12 DEF Inspector, InspectBegin, InspectUse, InspectCall,
     InspectReturn, InspectEndModule

LEMMA HeadedKept ==
  ASSUME TextInv, TextInv', FrameInv, BodyInv, OpenSymbols, NoProcs, HeadedInv, [Next]_vars
  PROVE  HeadedInv'
<1>1. CASE Parser
  BY <1>1, ParserHeaded
<1>2. CASE Inspector
  <2>1. /\ phase = "inspect" /\ prog' = prog /\ phase' # "parse" /\ pc \in 1 .. Len(prog)
        /\ \A h \in 1 .. Len(heap) : Headed(heap[h]) /\ Known(heap[h], pc)
        /\ Len(prog) \in Nat
    BY <1>2, InspectorAt, PassAt DEF HeadedInv
  <2>2. phase' = "inspect" => pc' = pc + 1
    BY <1>2, InspectorAt DEF Inspected
  <2>3. ASSUME NEW h \in 1 .. Len(heap')
        PROVE  Headed(heap'[h]) /\ Known(heap'[h], pc + 1)
    <3>1. CASE OldSymbol(heap'[h])
      <4>1. PICK g \in 1 .. Len(heap) : /\ heap'[h].name = heap[g].name
                                        /\ heap'[h].kind = heap[g].kind
                                        /\ heap'[h].params = heap[g].params
                                        /\ heap'[h].global = heap[g].global
        BY <3>1 DEF OldSymbol
      <4>2. \A j \in ProceduresIn(prog) \cup HeadingsIn(prog) : j < pc => j < pc + 1
        BY <2>1 DEF ProceduresIn, HeadingsIn
      <4>3. Headed(heap'[h])
        BY <2>1, <4>1 DEF Headed
      <4> QED
        BY <2>1, <4>1, <4>2, <4>3 DEF Known
    <3>2. CASE NewSymbol(heap'[h])
      <4>1. pc < pc + 1
        BY <2>1
      <4> QED
        BY <3>2, <4>1 DEF NewSymbol, Known, ProceduresIn, HeadingsIn
    <3> QED
      BY <1>2, <3>1, <3>2, InspectorSymbols
  <2>4. \A j : ParamsOf(j)' = ParamsOf(j)
    BY <2>1 DEF ParamsOf, Params
  <2>5. \A j : /\ j \in ProceduresIn(prog') <=> j \in ProceduresIn(prog)
               /\ j \in HeadingsIn(prog') <=> j \in HeadingsIn(prog)
    BY <2>1
  <2>6. phase' = "inspect" => \A h \in 1 .. Len(heap') : Known(heap[h], pc)'
    BY <2>1, <2>2, <2>3, <2>4, <2>5 DEF Known
  <2>7. \A h \in 1 .. Len(heap') : Headed(heap[h])'
    BY <2>3 DEF Headed
  <2> QED
    BY <2>1, <2>6, <2>7 DEF HeadedInv
<1>3. CASE Generator
  BY <1>3, GeneratorSteps DEF HeadedInv
<1>4. CASE UNCHANGED vars
  BY <1>4 DEF vars, HeadedInv, Headed, Untouched, Known, ProceduresIn, HeadingsIn, ParamsOf
<1> QED
  BY <1>1, <1>2, <1>3, <1>4 DEF Next

-----------------------------------------------------------------------------
(* The procedure visited last.                                             *)

LEMMA LastKept ==
  ASSUME TextInv, TextInv', BodyInv, LastInv, [Next]_vars
  PROVE  LastInv'
<1>1. CASE Parser
  <2>1. phase = "parse" /\ (phase' = "parse" \/ (phase' = "inspect" /\ pc' = 1))
    BY <1>1, ParserPhases
  <2>2. last_proc' = last_proc
    BY <1>1 DEF Parser, ParseProcedure, ParseForward, ParseBegin, ParseUse, ParseCall, ParseReturn,
       ParseStatement, ParseEndProcedure, ParseEndModule, Parsing
  <2>3. CASE phase' = "parse"
    BY <2>1, <2>2, <2>3 DEF LastInv
  <2>4. CASE phase' = "inspect" /\ pc' = 1
    <3>1. ~InBody'
      BY <2>4 DEF InBody
    <3>2. \A j \in ProceduresIn(prog') : ~(j < 1)
      BY DEF ProceduresIn
    <3> QED
      BY <2>1, <2>2, <2>4, <3>1, <3>2 DEF LastInv, LastBefore
  <2> QED
    BY <2>1, <2>3, <2>4
<1>2. CASE Inspector
  <2> SUFFICES ASSUME phase' = "inspect"
               PROVE  LastInv'
    BY <1>2, InspectorAt DEF LastInv
  <2>1. /\ phase = "inspect" /\ prog' = prog /\ pc' = pc + 1
        /\ IsText(prog) /\ pc \in 1 .. Len(prog) /\ Len(prog) \in Nat /\ Bodies(prog)
    BY <1>2, InspectorAt, PassAt DEF Inspected, BodyInv
  <2>2. /\ pc + 1 \in 1 .. Len(prog) /\ prog[pc + 1].block = Following(prog, pc)
        /\ InBody' <=> prog[pc].op \in BodyOps
    <3>1. pc + 1 \in 1 .. Len(prog)
      BY <2>1 DEF TextInv, Walking
    <3> QED
      BY <2>1, <3>1 DEF IsText, InBody
  <2>3. /\ LastInv' <=> IF prog[pc].op \in BodyOps /\ Following(prog, pc) = 1
                          THEN last_proc' = 0 ELSE LastBefore(pc)'
        /\ IF InBody /\ prog[pc].block = 1 THEN last_proc = 0 ELSE LastBefore(pc)
    BY <2>1, <2>2 DEF LastInv, LastBefore
  <2>4. ASSUME last_proc' = last_proc, LastBefore(pc), prog[pc].op # "procedure"
        PROVE  LastBefore(pc)'
    <3>1. \A j \in ProceduresIn(prog) : j < pc + 1 => j < pc
      BY <2>1, <2>4 DEF ProceduresIn
    <3>2. last_proc # 0 => last_proc < pc + 1
      BY <2>1, <2>4 DEF LastBefore, ProceduresIn
    <3> QED
      BY <2>1, <2>4, <3>1, <3>2 DEF LastBefore
  <2>5. CASE prog[pc].op = "procedure"
    <3>1. last_proc' = pc
      BY <1>2, <2>5 DEF Inspector, InspectModule, InspectProcedure, InspectForward,
         InspectBegin, InspectUse, InspectCall, InspectReturn, InspectEndProcedure,
         InspectEndModule, Inspecting, At
    <3>2. pc \in ProceduresIn(prog) /\ pc # 0 /\ pc < pc + 1
          /\ \A j \in ProceduresIn(prog) : j < pc + 1 => j <= pc
      BY <2>1, <2>5 DEF ProceduresIn
    <3>3. LastBefore(pc)'
      BY <2>1, <3>1, <3>2 DEF LastBefore
    <3> QED
      BY <2>3, <2>5, <3>3 DEF BodyOps
  <2>6. CASE prog[pc].op \in {"module", "forward"}
    <3>1. last_proc' = last_proc
      BY <1>2, <2>6 DEF Inspector, InspectModule, InspectProcedure, InspectForward,
         InspectBegin, InspectUse, InspectCall, InspectReturn, InspectEndProcedure,
         InspectEndModule, Inspecting, At
    <3>2. ~InBody
      <4> SUFFICES ASSUME pc > 1, prog[pc - 1].op \in BodyOps
                   PROVE  FALSE
        BY DEF InBody
      <4>1. pc \in 2 .. Len(prog) /\ pc - 1 \in 1 .. Len(prog) - 1 /\ pc - 1 < pc
            /\ (pc - 1) + 1 = pc
        BY <2>1
      <4>2. prog[pc].op = "forward"
        BY <2>1, <2>6, <4>1 DEF IsText
      <4>3. prog[pc].block = Following(prog, pc - 1)
        BY <2>1, <4>1 DEF IsText
      <4>4. prog[pc].block = prog[pc - 1].block
        BY <4>3 DEF Following, BodyOps, IsBlock
      <4> QED
        BY <2>1, <4>1, <4>2, <4>4 DEF Bodies
    <3>3. LastBefore(pc)'
      BY <2>3, <2>4, <2>6, <3>1, <3>2
    <3> QED
      BY <2>3, <2>6, <3>3 DEF BodyOps
  <2>7. CASE prog[pc].op = "begin"
    <3>1. InspectBegin
      BY <1>2, <2>7 DEF Inspector, InspectModule, InspectProcedure, InspectForward,
         InspectBegin, InspectUse, InspectCall, InspectReturn, InspectEndProcedure,
         InspectEndModule, Inspecting, At
    <3>2. pc # 1 /\ prog[pc].block = Here /\ (Here = 1 <=> InModule)
          /\ Following(prog, pc) = prog[pc].block
      BY <2>1, <2>7, PassAt DEF IsText, InModule, Following, IsBlock
    <3>3. last_proc' = IF InModule THEN 0 ELSE last_proc
      BY <3>1 DEF InspectBegin
    <3>4. CASE InModule
      BY <2>3, <2>7, <3>2, <3>3, <3>4 DEF BodyOps
    <3>5. CASE ~InModule
      BY <2>3, <2>4, <2>7, <3>2, <3>3, <3>5
    <3> QED
      BY <3>4, <3>5
  <2>8. CASE prog[pc].op \in {"use", "call", "return", "end"}
    <3>1. last_proc' = last_proc
      BY <1>2, <2>8 DEF Inspector, InspectModule, InspectProcedure, InspectForward,
         InspectBegin, InspectUse, InspectCall, InspectReturn, InspectEndProcedure,
         InspectEndModule, Inspecting, At
    <3>2. InBody
      BY <2>1, <2>8 DEF Bodies, InBody
    <3>3. CASE prog[pc].op = "end"
      <4>1. prog[pc].block # 1
        BY <2>1, <2>2, <3>3 DEF IsText, Ends
      <4> QED
        BY <2>3, <2>4, <3>1, <3>3, <4>1 DEF BodyOps
    <3>4. CASE prog[pc].op \in {"use", "call", "return"}
      <4>1. Following(prog, pc) = prog[pc].block
        BY <3>4 DEF Following, IsBlock
      <4> QED
        BY <2>3, <2>4, <3>1, <3>2, <3>4, <4>1 DEF BodyOps
    <3> QED
      BY <2>8, <3>3, <3>4
  <2> QED
    BY <1>2, <2>5, <2>6, <2>7, <2>8 DEF Inspector, InspectModule, InspectProcedure, InspectForward,
       InspectBegin, InspectUse, InspectCall, InspectReturn, InspectEndProcedure,
       InspectEndModule, Inspecting, At
<1>3. CASE Generator
  BY <1>3, GeneratorSteps DEF LastInv
<1>4. CASE UNCHANGED vars
  BY <1>4 DEF vars, LastInv, LastBefore, InBody
<1> QED
  BY <1>1, <1>2, <1>3, <1>4 DEF Next

(* A RETURN is looked at against the result of its own procedure, unless   *)
(* another procedure is nested in that.                                    *)
LEMMA LastIsInner ==
  ASSUME TextInv, BodyInv, LastInv, WithinInv, phase = "inspect", prog[pc].op = "return",
         prog[pc].block = 1 \/ NestsNothing(prog[pc].block)
  PROVE  last_proc = IF prog[pc].block = 1 THEN 0 ELSE prog[pc].block
<1> DEFINE b == prog[pc].block
<1>1. /\ IsText(prog) /\ IsOpen(prog, open) /\ pc \in 1 .. Len(prog) /\ Len(prog) \in Nat
      /\ Bodies(prog) /\ DOMAIN prog = 1 .. Len(prog)
  BY PassAt DEF BodyInv, IsText, IsSeq
<1>2. pc # 1 /\ Here = b /\ b \in 1 .. pc - 1 /\ Top(open) = b /\ (b = 1 <=> Len(open) = 1)
  <2>1. pc # 1
    BY <1>1 DEF IsText
  <2> QED
    BY <2>1, PassAt
<1>3. InBody
  BY <1>1 DEF Bodies, InBody
<1>4. CASE b = 1
  BY <1>3, <1>4 DEF LastInv
<1>5. CASE b # 1
  <2>1. LastBefore(pc)
    BY <1>5 DEF LastInv
  <2>2. b \in ProceduresIn(prog)
    BY <1>1, <1>2, <1>5, PassAt DEF ProceduresIn, IsBlock, IsText
  <2>3. b <= last_proc /\ b < pc
    BY <1>1, <1>2, <2>1, <2>2 DEF LastBefore
  <2> SUFFICES ASSUME last_proc # b
               PROVE  FALSE
    BY <1>5
  <2>4. last_proc \in ProceduresIn(prog) /\ last_proc < pc /\ b < last_proc
    BY <1>2, <2>1, <2>3 DEF LastBefore, ProceduresIn
  <2> DEFINE Q == {q \in ProceduresIn(prog) : b < q /\ q < pc}
  <2>5. PICK q \in Q : \A r \in Q : q <= r
    <3>1. Q \subseteq Nat /\ Q # {}
      BY <2>4 DEF ProceduresIn
    <3> QED
      BY <3>1, Least
  <2>6. q \in ProceduresIn(prog) /\ b < q /\ q < pc /\ q \in 2 .. Len(prog)
    BY <1>1, <1>2, <2>5 DEF ProceduresIn
  <2>7. prog[q].block \in 1 .. q - 1 /\ IsBlock(prog, prog[q].block)
    BY <1>1, <2>6 DEF IsText
  <2>8. b <= prog[q].block
    <3>1. Len(open) \in 2 .. Len(open) /\ open[Len(open)].item = b
      BY <1>1, <1>2, <1>5 DEF IsOpen, IsSeq, Top
    <3>2. q \in 1 .. Len(prog) /\ q <= pc
      BY <1>1, <2>6
    <3> QED
      BY <2>6, <3>1, <3>2 DEF WithinInv
  <2>9. prog[q].block = b
    <3> SUFFICES ASSUME b < prog[q].block
                 PROVE  FALSE
      BY <1>2, <2>7, <2>8
    <3>1. prog[q].block \in ProceduresIn(prog)
      BY <1>1, <1>2, <2>6, <2>7 DEF ProceduresIn, IsBlock, IsText
    <3>2. prog[q].block \in Q
      BY <1>1, <2>6, <2>7, <3>1
    <3> QED
      BY <2>5, <2>6, <2>7, <3>2
  <2> QED
    BY <1>1, <1>5, <2>6, <2>9 DEF NestsNothing, ProceduresIn
<1> QED
  BY <1>4, <1>5

-----------------------------------------------------------------------------
(* What the inspector finds under a name.                                  *)

LEMMA SymbolFound ==
  ASSUME TextInv, FrameInv, HoldInv, Distinct, phase = "inspect", pc # 1, NEW n \in Idents,
         Found(ft, n)
  PROVE  LET a == Home(n, prog[pc].block)
         IN  /\ a \in BlocksIn(prog) /\ a \in 1 .. pc - 1
             /\ n \in DOMAIN prog[a].decs \/ HeadingsOf(n, a) # {}
             /\ SymbolOf(ft, n) = SymIn(n, a)
             /\ SymIn(n, a).name = n
             /\ SymsOf(prog, ft, a)[n] \in 1 .. Len(heap)
<1> DEFINE b == prog[pc].block
           a == Home(n, b)
<1>1. /\ IsText(prog) /\ IsOpen(prog, open) /\ pc \in 1 .. Len(prog) /\ Len(prog) \in Nat
      /\ b \in 1 .. pc - 1
  BY PassAt
<1>2. /\ Homes(n, b) # {}
      /\ \E k \in 1 .. Len(open) : a = open[k].item
      /\ n \in DOMAIN prog[a].decs \/ HeadingsOf(n, a) # {}
      /\ n \in DOMAIN SymsOf(prog, ft, a)
      /\ Lookup(ft, n) = SymsOf(prog, ft, a)[n]
  BY NameFound
<1>3. a \in BlocksIn(prog)
  BY <1>1, <1>2, OpenBlocks
<1>4. b \in 1 .. Len(prog)
  BY <1>1
<1>5. a \in 1 .. b
  BY <1>1, <1>2, <1>4, HomeIs
<1> HIDE DEF a
<1>6. a \in 1 .. pc - 1
  BY <1>1, <1>5
<1>7. SymsOf(prog, ft, a)[n] \in 1 .. Len(heap)
  BY <1>2, <1>3, CellIn
<1>8. SymIn(n, a).name = n
  BY <1>2, <1>3 DEF HoldInv, Holds, SymIn
<1> QED
  BY <1>2, <1>3, <1>6, <1>7, <1>8 DEF SymbolOf, SymIn, a

(* A variable has the kind that it is declared with. *)
LEMMA KindFound ==
  ASSUME TextInv, FrameInv, HoldInv, TypedInv, Distinct, phase = "inspect", pc # 1,
         NEW n \in Vars, Found(ft, n)
  PROVE  SymbolOf(ft, n).kind = KindOf(n, prog[pc].block)
<1> DEFINE a == Home(n, prog[pc].block)
<1>1. n \in Idents /\ IsText(prog) /\ Len(prog) \in Nat /\ pc \in 1 .. Len(prog)
  BY PassAt DEF Idents
<1>2. /\ a \in BlocksIn(prog) /\ a \in 1 .. pc - 1
      /\ n \in DOMAIN prog[a].decs \/ HeadingsOf(n, a) # {}
      /\ SymbolOf(ft, n) = SymIn(n, a)
  BY <1>1, SymbolFound
<1>3. HeadingsOf(n, a) = {}
  BY <1>1, VarsNotHeaded
<1>4. a < pc
  BY <1>1, <1>2
<1>5. SymIn(n, a).kind = prog[a].decs[n]
  BY <1>2, <1>3, <1>4 DEF TypedInv, TypedBefore, Typed, SymIn
<1> QED
  BY <1>2, <1>5 DEF KindOf

(* Nothing but a forward declaration was declared with the name before. *)
LEMMA NeverDefined ==
  ASSUME TextInv, FrameInv, HoldInv, UniqueInv, HeadedInv, Distinct, phase = "inspect",
         prog[pc].op \in {"procedure", "forward"}
  PROVE  ~AlreadyDefined(Name)
<1> SUFFICES ASSUME Found(ft, Name)
             PROVE  SymbolOf(ft, Name).kind = "fwd"
  BY DEF AlreadyDefined
<1>1. /\ IsText(prog) /\ pc \in 1 .. Len(prog) /\ Len(prog) \in Nat
      /\ pc # 1 /\ Name \in Range(ProcNames) /\ Name \in Idents
  <2>1. IsText(prog) /\ pc \in 1 .. Len(prog) /\ Len(prog) \in Nat
    BY PassAt
  <2> QED
    BY <2>1 DEF IsText, ItemOK, Name, Idents
<1>2. PICK h \in 1 .. Len(heap) : SymbolOf(ft, Name) = heap[h] /\ heap[h].name = Name
  BY <1>1, SymbolFound DEF SymIn
<1>3. Headed(heap[h]) /\ Known(heap[h], pc)
  BY DEF HeadedInv
<1>4. heap[h].kind \in {"fwd", "proc"}
  BY <1>1, <1>2, <1>3 DEF Headed
<1>5. ASSUME heap[h].kind = "proc"
      PROVE  FALSE
  <2>1. PICK j \in ProceduresIn(prog) : j < pc /\ prog[j].name = Name
    BY <1>2, <1>3, <1>5 DEF Known
  <2>2. j \in HeadingsIn(prog) /\ pc \in HeadingsIn(prog)
    BY <1>1, <2>1 DEF ProceduresIn, HeadingsIn
  <2>3. prog[j].op = "forward"
    BY <2>1, <2>2 DEF UniqueInv, Name
  <2> QED
    BY <2>1, <2>3 DEF ProceduresIn
<1> QED
  BY <1>2, <1>4, <1>5

LEMMA ParamsAre ==
  ASSUME IsText(prog), NEW j \in 1 .. Len(prog)
  PROVE  LET decs == prog[j].decs
         IN  /\ Len(ParamsOf(j)) = Cardinality(Params(decs))
             /\ Len(ParamsOf(j)) = 1 =>
                  (ParamsOf(j)[1] = "VAR" <=> \E n \in Params(decs) : decs[n] = "VAR")
<1> DEFINE decs == prog[j].decs
           P  == Params(decs)
           ns == SetToSeq(P)
           x  == ParamsOf(j)
<1>1. P \subseteq Vars /\ IsFiniteSet(P)
  <2>1. P \subseteq Vars
    BY DEF Params, IsText, ItemOK
  <2> QED
    BY <2>1, IdentsFinite, FS_Subset
<1>2. IsSeq(ns) /\ Values(ns) = P /\ Len(ns) = Cardinality(P)
  BY <1>1, VarsInOrder, Enumerated
<1>3. x = [k \in DOMAIN ns |-> decs[ns[k]]]
  BY DEF ParamsOf
<1> HIDE DEF ns, x
<1>4. DOMAIN ns = 1 .. Len(ns) /\ Len(ns) \in Nat
  BY <1>2 DEF IsSeq
<1>5. Len(x) = Len(ns)
  BY <1>3, <1>4, LenOfDomain
<1>6. ASSUME Len(x) = 1
      PROVE  x[1] = "VAR" <=> \E n \in P : decs[n] = "VAR"
  <2>1. 1 \in DOMAIN ns /\ \A k \in DOMAIN ns : k = 1
    BY <1>4, <1>5, <1>6
  <2>2. P = {ns[1]}
    BY <1>2, <1>4, <2>1 DEF Values
  <2>3. x[1] = decs[ns[1]]
    BY <1>3, <2>1
  <2> QED
    BY <2>2, <2>3
<1> QED
  BY <1>2, <1>5, <1>6 DEF x

(* The heading that a call is looked at against. *)
LEMMA HeadingAtIs ==
  ASSUME NEW i, NEW j \in Called(i), j < i, j \in Nat,
         \A k \in Called(i) : k \in Nat /\ (k < i => k <= j)
  PROVE  HeadingAt(i) = prog[j].decs
<1> DEFINE seen == {k \in Called(i) : k < i}
<1>1. j \in seen /\ \A k \in seen : j >= k /\ k \in Nat
  OBVIOUS
<1> HIDE DEF seen
<1>2. Max(seen) = j
  <2>1. \A x \in seen : (\A y \in seen : x >= y) <=> x = j
    BY <1>1
  <2> QED
    BY <1>1, <2>1, Zenon DEF Max
<1>3. seen # {}
  BY <1>1
<1> QED
  BY <1>2, <1>3 DEF HeadingAt, seen

LEMMA NoHeadingAt ==
  ASSUME NEW i, \A k \in Called(i) : ~(k < i)
  PROVE  Params(HeadingAt(i)) = {}
<1>1. HeadingAt(i) = NoBindings
  BY DEF HeadingAt
<1> QED
  BY <1>1 DEF Params, NoBindings

(* A callee that is found has the parameters that are expected. *)
LEMMA CalleeIs ==
  ASSUME TextInv, FrameInv, HoldInv, UniqueInv, ProcsInv, GlobalInv, HeadedInv, Distinct,
         phase = "inspect", prog[pc].op = "call", Found(ft, Name)
  PROVE  LET s == SymbolOf(ft, Name)
             H == HeadingAt(pc)
         IN  /\ IsProcedure(s)
             /\ Len(s.params) = Cardinality(Params(H))
             /\ Len(s.params) = 1 => (s.params[1] = "VAR" <=> \E n \in Params(H) : H[n] = "VAR")
<1> DEFINE s == SymbolOf(ft, Name)
           b == prog[pc].block
           a == Home(Name, b)
           H == HeadingAt(pc)
<1>1. /\ IsText(prog) /\ pc \in 1 .. Len(prog) /\ Len(prog) \in Nat
      /\ pc # 1 /\ Name \in Range(ProcNames) /\ Name \in Idents /\ b \in 1 .. Len(prog)
  <2>1. IsText(prog) /\ pc \in 1 .. Len(prog) /\ Len(prog) \in Nat
    BY PassAt
  <2>2. pc # 1 /\ Name \in Range(ProcNames)
    BY <2>1 DEF IsText, ItemOK, Name
  <2>3. b \in 1 .. pc - 1
    BY <2>2, PassAt
  <2> QED
    BY <2>1, <2>2, <2>3 DEF Idents
<1>2. /\ s = SymIn(Name, a) /\ s.name = Name
      /\ \E h \in 1 .. Len(heap) : s = heap[h]
  BY <1>1, SymbolFound DEF SymIn
<1>3. Headed(s) /\ Known(s, pc)
  BY <1>2 DEF HeadedInv
<1>4. s.kind \in {"fwd", "proc"}
  BY <1>1, <1>2, <1>3 DEF Headed
<1>5. Homes(Name, b) # {}
  BY <1>1, NameFound
<1>6. Called(pc) = {j \in HeadingsIn(prog) : prog[j].name = Name}
      /\ \A j \in Called(pc) : prog[j].block = a
  BY <1>1, <1>5, HomeHeading DEF Called, Name
<1>7. \A j \in Called(pc) : j \in HeadingsIn(prog) /\ j \in Nat /\ j \in 1 .. Len(prog)
                              /\ prog[j].name = Name /\ prog[j].block = a
  BY <1>6 DEF HeadingsIn
<1> HIDE DEF s, a
<1>8. ASSUME NEW j \in Called(pc), j < pc, s.params = ParamsOf(j), prog[j].op = "forward",
             s.kind = "fwd"
      PROVE  HeadingAt(pc) = prog[j].decs
  <2>1. ASSUME NEW k \in Called(pc), k < pc, j < k
        PROVE  FALSE
    <3>1. prog[k].op = "procedure" /\ k \in HeadingsIn(prog)
      BY <1>7, <2>1 DEF UniqueInv
    <3>2. k \in ProceduresIn(prog)
      BY <3>1 DEF ProceduresIn, HeadingsIn
    <3>3. SymIn(Name, a).kind = "proc"
      BY <1>7, <2>1, <3>2 DEF ProcsInv, ProcsBefore, Inspected
    <3> QED
      BY <1>2, <1>8, <3>3
  <2>2. \A k \in Called(pc) : k \in Nat /\ (k < pc => k <= j)
    BY <1>7, <2>1
  <2> QED
    BY <1>7, <1>8, <2>2, HeadingAtIs
<1>9. ASSUME NEW j \in Called(pc), j < pc, prog[j].op = "procedure"
      PROVE  HeadingAt(pc) = prog[j].decs
  <2>1. \A k \in Called(pc) : ~(j < k)
    BY <1>7, <1>9 DEF UniqueInv
  <2>2. \A k \in Called(pc) : k \in Nat /\ (k < pc => k <= j)
    BY <1>7, <2>1
  <2> QED
    BY <1>7, <1>9, <2>2, HeadingAtIs
<1>10. CASE s.kind = "fwd" /\ ~s.global
  <2>1. \A k \in Called(pc) : ~(k < pc)
    <3> SUFFICES ASSUME NEW k \in Called(pc), k < pc
                 PROVE  FALSE
      OBVIOUS
    <3>1. SymIn(Name, a).global
      BY <1>7 DEF GlobalInv, GlobalBefore
    <3> QED
      BY <1>2, <1>10, <3>1
  <2>2. Params(H) = {}
    BY <2>1, NoHeadingAt
  <2>3. s.params = << >>
    BY <1>3, <1>10 DEF Known
  <2> HIDE DEF H
  <2>4. Cardinality(Params(H)) = 0 /\ Len(s.params) = 0
    BY <2>2, <2>3, FS_EmptySet
  <2> QED
    BY <1>10, <2>4 DEF IsProcedure, s, H
<1>11. CASE (s.kind = "fwd" /\ s.global) \/ s.kind = "proc"
  <2>1. PICK j \in Called(pc) : s.params = ParamsOf(j) /\ HeadingAt(pc) = prog[j].decs
    <3>1. CASE s.kind = "fwd" /\ s.global
      <4>1. PICK j \in HeadingsIn(prog) : /\ j < pc /\ prog[j].op = "forward"
                                          /\ prog[j].name = Name /\ s.params = ParamsOf(j)
        BY <1>2, <1>3, <3>1 DEF Known
      <4>2. j \in Called(pc)
        BY <1>6, <4>1
      <4> QED
        BY <1>8, <3>1, <4>1, <4>2
    <3>2. CASE s.kind = "proc"
      <4>1. PICK j \in ProceduresIn(prog) : /\ j < pc /\ prog[j].name = Name
                                            /\ s.params = ParamsOf(j)
        BY <1>2, <1>3, <3>2 DEF Known
      <4>2. j \in Called(pc) /\ prog[j].op = "procedure"
        BY <1>6, <4>1 DEF ProceduresIn, HeadingsIn
      <4> QED
        BY <1>9, <4>1, <4>2
    <3> QED
      BY <1>11, <3>1, <3>2
  <2>2. j \in 1 .. Len(prog)
    BY <1>7
  <2>3. /\ Len(ParamsOf(j)) = Cardinality(Params(prog[j].decs))
        /\ Len(ParamsOf(j)) = 1 =>
             (ParamsOf(j)[1] = "VAR" <=> \E n \in Params(prog[j].decs) : prog[j].decs[n] = "VAR")
    BY <1>1, <2>2, ParamsAre
  <2> QED
    BY <1>4, <2>1, <2>3 DEF IsProcedure, s
<1> QED
  BY <1>4, <1>10, <1>11

-----------------------------------------------------------------------------
(* The verdict, item by item.                                              *)

LEMMA BadStays ==
  ASSUME prog' = prog
  PROVE  /\ \A i : Bad(i)' <=> Bad(i)
         /\ \A i : (Wrong(i) \/ (i \in Returns /\ ~ReturnFits(i)))' <=> Bad(i)
         /\ ReturnsOutside' <=> ReturnsOutside
<1>1. /\ \A n, b : Homes(n, b)' = Homes(n, b) /\ Home(n, b)' = Home(n, b)
      /\ \A i : Called(i)' = Called(i)
  BY ScopesStay, MeaningStays
<1>2. \A n, b : (Unresolved(n, b)' <=> Unresolved(n, b)) /\ KindOf(n, b)' = KindOf(n, b)
  BY <1>1 DEF Unresolved, KindOf
<1>3. ASSUME NEW i
      PROVE  Misfit(i)' <=> Misfit(i)
  <2>1. HeadingAt(i)' = HeadingAt(i)
    BY <1>1 DEF HeadingAt
  <2> QED
    BY <1>2, <2>1 DEF Misfit
<1>4. \A i : Wrong(i)' <=> Wrong(i)
  BY <1>2, <1>3 DEF Wrong
<1>5. \A i : ((i \in Returns)' <=> i \in Returns) /\ (ReturnFits(i)' <=> ReturnFits(i))
  BY DEF Returns, ReturnFits
<1>6. \A b : NestsNothing(b)' <=> NestsNothing(b)
  BY DEF NestsNothing
<1> QED
  BY <1>4, <1>5, <1>6 DEF Bad, ReturnsOutside, Returns

LEMMA CallVerdict ==
  ASSUME TextInv, FrameInv, HoldInv, BodyInv, TypedInv, UniqueInv, ProcsInv, GlobalInv, HeadedInv,
         Distinct, errors \in BOOLEAN, InspectCall
  PROVE  errors' <=> errors \/ Wrong(pc)
<1> DEFINE b   == prog[pc].block
           arg == prog[pc].arg
           s   == SymbolOf(ft, Name)
           H   == HeadingAt(pc)
<1>1. phase = "inspect" /\ prog[pc].op = "call"
  BY DEF InspectCall, Inspecting, At
<1>2. /\ IsText(prog) /\ pc \in 1 .. Len(prog)
      /\ pc # 1 /\ Name \in Idents /\ arg \in Vars \cup {NoName}
  <2>1. IsText(prog) /\ pc \in 1 .. Len(prog)
    BY <1>1, PassAt
  <2> QED
    BY <1>1, <2>1 DEF IsText, ItemOK, Name, Idents
<1>3. Wrong(pc) <=> Unresolved(Name, b) \/ Misfit(pc)
  BY <1>1 DEF Wrong, Name
<1>4. Unresolved(Name, b) <=> ~Found(ft, Name)
  BY <1>1, <1>2, NameFound DEF Unresolved
<1>5. errors' <=> errors \/ BadCall \/ (arg # NoName /\ BadArgument)
  BY DEF InspectCall
<1>6. CASE ~Found(ft, Name)
  BY <1>3, <1>4, <1>5, <1>6 DEF BadCall
<1>7. CASE Found(ft, Name)
  <2>1. /\ IsProcedure(s)
        /\ Len(s.params) = Cardinality(Params(H))
        /\ Len(s.params) = 1 => (s.params[1] = "VAR" <=> \E n \in Params(H) : H[n] = "VAR")
    BY <1>1, <1>7, CalleeIs
  <2>2. BadCall <=> Len(s.params) # IF arg = NoName THEN 0 ELSE 1
    BY <1>7, <2>1 DEF BadCall
  <2> HIDE DEF H
  <2>3. Misfit(pc) <=>
          \/ Len(s.params) # IF arg = NoName THEN 0 ELSE 1
          \/ arg # NoName /\ Unresolved(arg, b)
          \/ /\ arg # NoName /\ KindOf(arg, b) = "const"
             /\ \E n \in Params(H) : H[n] = "VAR"
    BY <2>1 DEF Misfit, H
  <2>4. CASE BadCall \/ arg = NoName
    BY <1>3, <1>4, <1>5, <1>7, <2>2, <2>3, <2>4
  <2>5. CASE ~BadCall /\ arg # NoName
    <3>1. arg \in Vars /\ arg \in Idents /\ Len(s.params) = 1
      BY <1>2, <2>2, <2>5 DEF Idents
    <3>2. Unresolved(arg, b) <=> ~Found(ft, arg)
      BY <1>1, <1>2, <3>1, NameFound DEF Unresolved
    <3>3. Found(ft, arg) => SymbolOf(ft, arg).kind = KindOf(arg, b)
      BY <1>1, <1>2, <3>1, KindFound
    <3>4. BadArgument <=> ~Found(ft, arg) \/ (s.params[1] = "VAR" /\ SymbolOf(ft, arg).kind = "const")
      BY DEF BadArgument
    <3>5. BadArgument <=> Misfit(pc)
      BY <2>1, <2>2, <2>3, <2>5, <3>1, <3>2, <3>3, <3>4
    <3> QED
      BY <1>3, <1>4, <1>5, <1>7, <2>5, <3>5
  <2> QED
    BY <2>4, <2>5
<1> QED
  BY <1>6, <1>7

LEMMA InspectorVerdict ==
  ASSUME TextInv, FrameInv, HoldInv, BodyInv, TypedInv, UniqueInv, ProcsInv, GlobalInv, HeadedInv,
         LastInv, WithinInv, Distinct, ReturnsOutside, Inspector
  PROVE  errors' <=> errors \/ Bad(pc)
<1>1. /\ phase = "inspect" /\ IsText(prog) /\ pc \in 1 .. Len(prog) /\ errors \in BOOLEAN
      /\ DOMAIN prog = 1 .. Len(prog)
  BY InspectorAt, PassAt DEF FrameInv, MiscInv, IsText, IsSeq
<1>2. /\ prog[pc].op \notin {"use", "call"} => ~Wrong(pc)
      /\ prog[pc].op # "return" => pc \notin Returns
  BY DEF Wrong, Returns
<1>3. CASE InspectModule \/ InspectBegin \/ InspectEndProcedure \/ InspectEndModule
  <2>1. errors' = errors /\ prog[pc].op \in {"module", "begin", "end"}
    BY <1>3 DEF InspectModule, InspectBegin, InspectEndProcedure, InspectEndModule, Inspecting, At
  <2> QED
    BY <1>2, <2>1 DEF Bad
<1>4. CASE InspectProcedure \/ InspectForward
  <2>1. errors' = (errors \/ AlreadyDefined(Name)) /\ prog[pc].op \in {"procedure", "forward"}
    BY <1>4 DEF InspectProcedure, InspectForward, Inspecting, At
  <2>2. ~AlreadyDefined(Name)
    BY <1>1, <2>1, NeverDefined
  <2> QED
    BY <1>1, <1>2, <2>1, <2>2 DEF Bad
<1>5. CASE InspectUse
  <2>1. errors' = (errors \/ ~Found(ft, Name)) /\ prog[pc].op = "use"
    BY <1>5 DEF InspectUse, Inspecting, At
  <2>2. pc # 1 /\ Name \in Idents
    BY <1>1, <2>1 DEF IsText, ItemOK, Name, Idents
  <2>3. Wrong(pc) <=> ~Found(ft, Name)
    BY <1>1, <2>1, <2>2, NameFound DEF Wrong, Unresolved, Name
  <2> QED
    BY <1>1, <1>2, <2>1, <2>3 DEF Bad
<1>6. CASE InspectCall
  <2>1. prog[pc].op = "call"
    BY <1>6 DEF InspectCall, Inspecting, At
  <2> QED
    BY <1>1, <1>2, <1>6, <2>1, CallVerdict DEF Bad
<1>7. CASE InspectReturn
  <2>1. /\ errors' = (errors \/ (last_proc # 0 /\ prog[last_proc].result # prog[pc].result))
        /\ prog[pc].op = "return"
    BY <1>7 DEF InspectReturn, Inspecting, At
  <2>2. pc \in Returns /\ (prog[pc].block = 1 \/ NestsNothing(prog[pc].block))
    BY <1>1, <2>1 DEF Returns, ReturnsOutside
  <2>3. last_proc = IF prog[pc].block = 1 THEN 0 ELSE prog[pc].block
    BY <1>1, <2>1, <2>2, LastIsInner
  <2>4. prog[pc].block # 0
    BY <1>1, <2>1, PassAt DEF IsText
  <2>5. ReturnFits(pc) <=> ~(last_proc # 0 /\ prog[last_proc].result # prog[pc].result)
    BY <2>3, <2>4 DEF ReturnFits
  <2> QED
    BY <1>1, <1>2, <2>1, <2>2, <2>5 DEF Bad
<1> QED
  BY <1>3, <1>4, <1>5, <1>6, <1>7 DEF Inspector

LEMMA VerdictKept ==
  ASSUME TextInv, TextInv', FrameInv, HoldInv, BodyInv, TypedInv, UniqueInv, ProcsInv, GlobalInv,
         HeadedInv, LastInv, WithinInv, VerdictInv, Distinct, [Next]_vars
  PROVE  VerdictInv'
<1>1. CASE Parser
  <2>1. phase = "parse" /\ (phase' = "parse" \/ (phase' = "inspect" /\ pc' = 1))
    BY <1>1, ParserPhases
  <2>2. errors' = errors /\ ~errors
    BY <1>1, <2>1 DEF FrameInv, MiscInv, Parser, ParseProcedure, ParseForward, ParseBegin, ParseUse,
       ParseCall, ParseReturn, ParseStatement, ParseEndProcedure, ParseEndModule, Parsing
  <2> QED
    BY <2>1, <2>2 DEF VerdictInv, VerdictRight, Checked
<1>2. CASE Inspector
  <2>1. /\ phase = "inspect" /\ prog' = prog /\ pc \in 1 .. Len(prog) /\ Len(prog) \in Nat
        /\ IsText(prog) /\ DOMAIN prog = 1 .. Len(prog)
    BY <1>2, InspectorAt, PassAt DEF IsText, IsSeq
  <2>2. /\ \A i : Bad(i)' <=> Bad(i)
        /\ \A i : (Wrong(i) \/ (i \in Returns /\ ~ReturnFits(i)))' <=> Bad(i)
        /\ ReturnsOutside' <=> ReturnsOutside
    BY <2>1, BadStays
  <2>3. ReturnsOutside => (errors' <=> \E i \in 1 .. pc : Bad(i))
    <3> SUFFICES ASSUME ReturnsOutside
                 PROVE  errors' <=> \E i \in 1 .. pc : Bad(i)
      OBVIOUS
    <3>1. errors <=> \E i \in 1 .. pc - 1 : Bad(i)
      BY <2>1 DEF VerdictInv
    <3>2. errors' <=> errors \/ Bad(pc)
      BY <1>2, InspectorVerdict
    <3>3. 1 .. pc = (1 .. pc - 1) \cup {pc}
      BY <2>1
    <3> QED
      BY <3>1, <3>2, <3>3
  <2>4. CASE phase' = "inspect"
    <3>1. pc' = pc + 1
      BY <1>2, <2>4, InspectorAt DEF Inspected
    <3>2. pc' - 1 = pc
      BY <2>1, <3>1
    <3> QED
      BY <2>2, <2>3, <2>4, <3>2 DEF VerdictInv, VerdictRight, Checked
  <2>5. CASE phase' # "inspect"
    <3>1. pc = Len(prog)
      BY <1>2, <2>1, <2>5, InspectionEnds DEF Inspector, InspectModule, InspectProcedure,
         InspectForward, InspectBegin, InspectUse, InspectCall, InspectReturn, InspectEndProcedure,
         Onward
    <3>2. ReturnsOutside' => (errors' <=> \E i \in DOMAIN prog' : Bad(i)')
      BY <2>1, <2>2, <2>3, <3>1
    <3>3. VerdictRight'
      BY <3>2 DEF VerdictRight, ReturnsOutside, Bad, Returns
    <3> QED
      BY <2>5, <3>3 DEF VerdictInv
  <2> QED
    BY <2>4, <2>5
<1>3. CASE Generator
  <2>1. /\ phase = "generate" /\ phase' \in {"generate", "done", "aborted"} /\ prog' = prog
        /\ errors' = errors
    BY <1>3 DEF Generator, GenerateModule, GenerateProcedure, GenerateForward, GenerateBegin,
       GenerateUse, GenerateCall, GenerateReturn, GenerateEndProcedure, GenerateEndModule, Abort,
       Generating, Onward
  <2>2. /\ \A i : Bad(i)' <=> Bad(i)
        /\ ReturnsOutside' <=> ReturnsOutside
    BY <2>1, BadStays
  <2>3. ReturnsOutside => (errors <=> \E i \in DOMAIN prog : Bad(i))
    BY <2>1 DEF VerdictInv, VerdictRight, Checked, ReturnsOutside, Bad, Returns
  <2>4. ReturnsOutside' => (errors' <=> \E i \in DOMAIN prog' : Bad(i)')
    BY <2>1, <2>2, <2>3
  <2>5. VerdictRight'
    BY <2>4 DEF VerdictRight, ReturnsOutside, Bad, Returns
  <2> QED
    BY <2>1, <2>5 DEF VerdictInv
<1>4. CASE UNCHANGED vars
  <2>1. prog' = prog /\ phase' = phase /\ pc' = pc /\ errors' = errors
    BY <1>4 DEF vars
  <2>2. /\ \A i : Bad(i)' <=> Bad(i)
        /\ ReturnsOutside' <=> ReturnsOutside
    BY <2>1, BadStays
  <2>3. Checked /\ ReturnsOutside => (errors <=> \E i \in DOMAIN prog : Bad(i))
    BY DEF VerdictInv, VerdictRight, ReturnsOutside, Bad, Returns
  <2>4. (Checked /\ ReturnsOutside)' => (errors' <=> \E i \in DOMAIN prog' : Bad(i)')
    BY <2>1, <2>2, <2>3 DEF Checked
  <2>5. VerdictRight'
    BY <2>4 DEF VerdictRight, ReturnsOutside, Bad, Returns
  <2> QED
    BY <2>1, <2>2, <2>5 DEF VerdictInv
<1> QED
  BY <1>1, <1>2, <1>3, <1>4 DEF Next

LEMMA ReportInit == Init /\ Distinct => ReportInv
<1> SUFFICES ASSUME Init, Distinct
             PROVE  ReportInv
  OBVIOUS
<1>1. phase = "parse" /\ last_proc = 0
  BY DEF Init
<1> QED
  BY <1>1, ReadyInit, HeadedInit DEF ReportInv, LastInv, VerdictInv, VerdictRight, Checked

LEMMA ReportStep == ReportInv /\ Distinct /\ [Next]_vars => ReportInv'
<1> SUFFICES ASSUME ReportInv, Distinct, [Next]_vars
             PROVE  ReportInv'
  OBVIOUS
<1>1. ReadyInv'
  BY ReadyStep DEF ReportInv
<1>2. /\ TextInv /\ TextInv' /\ FrameInv /\ HoldInv /\ BodyInv /\ TypedInv /\ OpenSymbols /\ NoProcs
      /\ UniqueInv /\ ProcsInv /\ GlobalInv /\ WithinInv /\ HeadedInv /\ LastInv /\ VerdictInv
  BY <1>1 DEF ReportInv, ReadyInv, StorageInv, ClosureInv
<1>3. HeadedInv' /\ LastInv'
  BY <1>2, HeadedKept, LastKept
<1>4. VerdictInv'
  BY <1>2, VerdictKept
<1> QED
  BY <1>1, <1>3, <1>4 DEF ReportInv

(* In every program whose procedures have different names, the inspector   *)
(* reports an error exactly when a name does not resolve, a call does not  *)
(* fit the last heading of its procedure before it, forward or actual,     *)
(* which may differ, or a RETURN the result of its procedure (where no     *)
(* procedure is nested): whatever the parser, forward declarations and     *)
(* procedures before it have left in the frames.                           *)
THEOREM VerdictsRight ==
  ASSUME Distinct
  PROVE  Spec => []VerdictRight
<1>1. Init => ReportInv
  BY ReportInit
<1>2. ReportInv /\ [Next]_vars => ReportInv'
  BY ReportStep
<1>3. ReportInv => VerdictRight
  BY DEF ReportInv, VerdictInv
<1> QED
  BY <1>1, <1>2, <1>3, PTL DEF Spec

=============================================================================
