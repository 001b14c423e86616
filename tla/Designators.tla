----------------------------- MODULE Designators ----------------------------
(***************************************************************************)
(* Designators of declared variables: what the inspector makes of them     *)
(* (visit(ASTDesignator)), the address that the code generator computes    *)
(* (get_index), and the equivalence of types by which assignments and      *)
(* arguments are checked.  All are functions of the state of Types.        *)
(***************************************************************************)
EXTENDS Types

CONSTANT MaxDepth \* the levels of records that equiv may enter

-----------------------------------------------------------------------------
(* A designator so far: the type of the last selector (last_type), what it *)
(* resolves to (b_type), the indexes of its fields, whether an error was   *)
(* reported ("error" goes on, "return" stops).                             *)
Designator(last, b, idx, status) == [last |-> last, b |-> b, idx |-> idx, status |-> status]

IsArray(i) == objects[i].id \in {"ARRAY", "OPENARRAY"}
Selectable(i) == IsArray(i) \/ objects[i].id \in {"RECORD", "STRING", "POINTER"}

(* The record whose field is selected: a pointer is followed if its        *)
(* reference is a record and not the alias of one.                         *)
RecordOf(b) ==
    CASE objects[b].id = "RECORD" -> b
      [] objects[b].id = "POINTER" /\ objects[objects[b].of].id = "RECORD" -> objects[b].of
      [] OTHER -> 0

SelectIndex(d, sel) ==
    IF ~(IsArray(d.b) \/ objects[d.b].id = "STRING") THEN [d EXCEPT !.status = "return"]
    ELSE LET dims == objects[d.b].dims
         IN  [d EXCEPT !.last   = IF IsArray(d.b) THEN objects[d.b].of ELSE CharType,
                       !.status = IF IsArray(d.b) /\ dims # << >> /\ Len(dims) # sel.exprs
                                  THEN "error" ELSE @]

(* Field f of record r. *)
FieldIn(d, r, f) ==
    IF r = 0 \/ GetType(objects, r, f) = 0 THEN [d EXCEPT !.status = "return"]
    ELSE [d EXCEPT !.last = GetType(objects, r, f), !.idx = Append(@, GetIndex(objects, r, f))]
SelectField(d, sel) == FieldIn(d, RecordOf(d.b), sel.name)

SelectDeref(d) ==
    IF objects[d.b].id # "POINTER" THEN [d EXCEPT !.status = "return"]
    ELSE [d EXCEPT !.last = objects[d.b].of]

(* update_designator_state, where b is what last_type resolves to: null is *)
(* the end of the compiler.                                                *)
Update(d, b) ==
    IF d.status = "return" THEN d ELSE [d EXCEPT !.b = b, !.status = IF b = 0 THEN "return" ELSE @]
Resolved(d) == Update(d, ResolveType(objects, types, d.last))

(* As Select, which takes the type of the selector for what it stands for. *)
FaultySelect(d, sel) ==
    CASE d.status = "return"                     -> d
      [] d.status # "return" /\ sel.k = "index" -> Update(SelectIndex(d, sel), SelectIndex(d, sel).last)
      [] d.status # "return" /\ sel.k = "field" -> Update(SelectField(d, sel), SelectField(d, sel).last)
      [] d.status # "return" /\ sel.k = "deref" -> Update(SelectDeref(d), SelectDeref(d).last)

Select(d, sel) ==
    CASE d.status = "return"                     -> d
      [] d.status # "return" /\ sel.k = "index" -> Resolved(SelectIndex(d, sel))
      [] d.status # "return" /\ sel.k = "field" -> Resolved(SelectField(d, sel))
      [] d.status # "return" /\ sel.k = "deref" -> Resolved(SelectDeref(d))

InspectedFrom(b, sels) ==
    IF b = 0 \/ (sels # << >> /\ ~Selectable(b))
    THEN Designator(b, b, << >>, "return")
    ELSE FoldLeft(Select, Designator(b, b, << >>, "ok"), sels)
Inspected(v, sels) == InspectedFrom(ResolveType(objects, types, symbols[v]), sels)

-----------------------------------------------------------------------------
(* LLVM types: a structure is the record type it was made for. *)
Scalar(n)     == [k |-> n]
Struct(i)     == [k |-> "struct", rec |-> i]
Sized(dim, e) == [k |-> "array", dim |-> dim, of |-> e]
Invalid       == Scalar("invalid")

(* Type_::get_llvm. *)
LlvmType(i) ==
    LET L[j \in DOMAIN objects] ==
          LET o == objects[j]
          IN  CASE o.id = "INTEGER"               -> Scalar("i64")
                [] o.id \in {"CHAR", "ENUMERATION"} -> Scalar("i32")
                [] o.id \in {"STRING", "POINTER", "OPENARRAY"} -> Scalar("ptr")
                [] o.id = "RECORD"                -> Struct(j)
                [] o.id = "ALIAS"                 -> L[o.of]
                [] o.id = "ARRAY"                 -> FoldLeft(LAMBDA e, d : Sized(d, e), L[o.of], o.dims)
    IN  L[i]

(* getelementptr: the steps it takes into a type, and the type it ends in. *)
Into(acc, item) ==
    CASE acc.type.k = "array" /\ item.k = "expr" ->
           [type |-> acc.type.of, steps |-> acc.steps \union {<< item.sel, item.nth, acc.type.dim >>}]
      [] acc.type.k = "struct" /\ item.k = "field" /\ item.idx \in DOMAIN FieldTypes(objects, types, acc.type.rec) ->
           [type |-> LlvmType(FieldTypes(objects, types, acc.type.rec)[item.idx]),
            steps |-> acc.steps \union {<< item.sel, item.idx >>}]
      [] OTHER -> [acc EXCEPT !.type = Invalid]
Gep(type, items) == FoldLeft(Into, [type |-> type, steps |-> {}], items)

(* As IndexList, in the order of the text. *)
FaultyIndexList(s, n) == [j \in 1 .. n |-> [k |-> "expr", sel |-> s, nth |-> j]]

(* build_index_list: the expressions of one selector, the last one first. *)
IndexList(s, n) == [j \in 1 .. n |-> [k |-> "expr", sel |-> s, nth |-> n + 1 - j]]

(* get_index: how often a pointer is loaded, always from the variable, and *)
(* then the indexes of all selectors in one list.  A string or an open     *)
(* array has no leading zero: its first index is over the elements.  idx   *)
(* are the field indexes that the inspector left in the tree.              *)
AddressFrom(t, sels, idx) ==
    LET o       == objects[t]
        fields(s) == Cardinality({ j \in 1 .. s : sels[j].k = "field" })
        Items[s \in 0 .. Len(sels)] ==
          IF s = 0 THEN << >>
          ELSE Items[s - 1] \o
               CASE sels[s].k = "index" -> IndexList(s, sels[s].exprs)
                 [] sels[s].k = "field" -> << [k |-> "field", sel |-> s, idx |-> idx[fields(s)]] >>
                 [] sels[s].k = "deref" -> << >>
        implicit == o.id = "POINTER" /\ sels[1].k = "field" /\ RecordOf(t) # 0
        source   == CASE o.id = "STRING"    -> Sized("any", Scalar("i32"))
                      [] o.id = "OPENARRAY" -> Sized("any", LlvmType(o.of))
                      [] implicit           -> LlvmType(o.of)
                      [] OTHER              -> LlvmType(t)
    IN  [gep   |-> Gep(source, Items[Len(sels)]),
         loads |-> Cardinality({ j \in DOMAIN sels : sels[j].k = "deref" }) + IF implicit THEN 1 ELSE 0]
Address(v, sels, idx) == AddressFrom(ResolveType(objects, types, symbols[v]), sels, idx)

-----------------------------------------------------------------------------
(* Type_::equiv with RecordType::equiv and is_base: "endless" when it has  *)
(* gone deeper than MaxDepth, which no two types without a cycle do.       *)
Bool(p)  == IF p THEN "yes" ELSE "no"
Or(a, b) == IF a = "no" THEN b ELSE a

(* As All, which looks at the first result only. *)
FaultyAll(s) == IF s = << >> THEN "yes" ELSE s[1]

(* What a && over the sequence s of results yields. *)
All(s) == LET other == { j \in DOMAIN s : s[j] # "yes" }
          IN  IF other = {} THEN "yes" ELSE s[CHOOSE j \in other : \A i \in other : j <= i]

Equiv(a, b) ==
    LET E[k \in 0 .. MaxDepth, l \in DOMAIN objects, r \in DOMAIN objects] ==
          LET L == objects[l]
              R == objects[r]
              same(x, y) ==
                  IF (objects[x].of # 0) # (objects[y].of # 0) \/ Len(objects[x].fields) # Len(objects[y].fields)
                  THEN "no"
                  ELSE All([j \in DOMAIN objects[x].fields |->
                              E[k - 1, objects[x].fields[j].type, objects[y].fields[j].type]])
              isBase(x, y) == IF objects[x].of = 0 THEN "no" ELSE E[k - 1, y, objects[x].of]
          IN  CASE L.id # R.id          -> "no"
                [] L.id = "ENUMERATION" -> Bool(NameOf(objects, l) = NameOf(objects, r))
                [] L.id \notin {"RECORD", "POINTER"} -> "yes"
                [] k = 0                -> "endless"
                [] L.id = "POINTER" /\ 0 \in {L.of, R.of} -> "crash" \* a null reference
                [] L.id = "RECORD"      -> Or(same(l, r), isBase(l, r))
                [] L.id = "POINTER"     ->
                     IF objects[L.of].id = "RECORD" /\ objects[R.of].id = "RECORD"
                     THEN Or(isBase(L.of, R.of), same(L.of, R.of))
                     ELSE IF E[k - 1, L.of, r] = "endless" THEN "endless" ELSE "yes"
    IN  E[MaxDepth, a, b]
=============================================================================
