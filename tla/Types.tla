-------------------------------- MODULE Types -------------------------------
(***************************************************************************)
(* The type table (typetable.cc), the type objects (types/) and the        *)
(* inspector's visits of declarations, types and designators.              *)
(*                                                                         *)
(* The objects are a sequence, so that an object has an identity; 0 is the *)
(* null pointer.  A name is a sequence of strings: a declared type T is    *)
(* named << "T" >>, a record "{x,y}" << "{", "x", "y", "}" >>.             *)
(***************************************************************************)
EXTENDS Naturals, Sequences, FiniteSets, SequencesExt

CONSTANTS
    TypeNames,  \* names that may be declared as types, in the order of their use
    VarNames,   \* names that may be declared as variables, likewise
    Exprs,      \* the type expressions that are declared as types
    VarExprs,   \* and those of variables
    MaxTypes    \* the number of type declarations of a program

(* Type expressions. *)
Named(n)          == [k |-> "name", name |-> n]
PointerTo(n)      == [k |-> "pointer", name |-> n]
Enumeration(vals) == [k |-> "enum", values |-> vals]
ArrayOf(dims, e)  == [k |-> "array", dims |-> dims, of |-> e]
Record(base, fs)  == [k |-> "record", base |-> base, fields |-> fs]
FieldOf(f, e)     == [name |-> f, type |-> e]

NoBase == "none"

(* Selectors of a designator. *)
Index(n) == [k |-> "index", exprs |-> n]
Field(f) == [k |-> "field", name |-> f]
Deref    == [k |-> "deref"]

(* Type objects.  "name" is the name of a basic type, an enumeration or an *)
(* alias, and the ref_name of a pointer; "of" is the alias, reference,     *)
(* base_type or base; a field of "fields" has its type object.             *)
Object(id, name, of, dims, fields) ==
    [id |-> id, name |-> name, of |-> of, dims |-> dims, fields |-> fields]
Simple(id, name) == Object(id, << name >>, 0, << >>, << >>)
Alias(name, i)   == Object("ALIAS", << name >>, i, << >>, << >>)

(* Of the basic types three stand for all, and one alias for all. *)
IntType  == 1
CharType == 2
StrType  == 3
Basic    == << Simple("INTEGER", "INTEGER"), Simple("CHAR", "CHAR"),
               Simple("STRING", "STRING"), Alias("LONGINT", IntType) >>
BasicNames == { Basic[i].name[1] : i \in DOMAIN Basic }

VARIABLES
    objects,       \* the type objects made so far
    types,         \* the type table: a function from names to objects
    symbols,       \* the types of variables and of values of enumerations
    pointer_types, \* the pointers whose references are still to be resolved
    part,          \* the part of the declarations that is visited
    errors,        \* whether an error was reported or thrown
    declared       \* history: the expression of every declared type and variable

vars == << objects, types, symbols, pointer_types, part, errors, declared >>

-----------------------------------------------------------------------------
(* Type_::get_name, for every object of h. *)
NamesOf(h) ==
    LET N[i \in DOMAIN h] ==
          LET o == h[i]
          IN  CASE o.id = "RECORD"    -> << "{" >>
                                          \o (IF o.of = 0 THEN << >> ELSE << "(" >> \o N[o.of] \o << ")" >>)
                                          \o [f \in DOMAIN o.fields |-> o.fields[f].name] \o << "}" >>
                [] o.id \in {"ARRAY", "OPENARRAY"}
                                      -> N[o.of] \o << "[" >> \o o.dims \o << "]" >>
                [] o.id = "POINTER"   -> << "^" >> \o o.name
                [] OTHER              -> o.name
    IN  N
NameOf(h, i) == NamesOf(h)[i]

Find(t, n) == IF n \in DOMAIN t THEN t[n] ELSE 0

Resolve(h, t, n) ==
    LET R[i \in 0 .. Len(h)] ==
          IF i = 0 \/ h[i].id # "ALIAS" THEN i
          ELSE LET next == NameOf(h, h[i].of)
               IN  IF next = h[i].name THEN h[i].of ELSE R[Find(t, next)]
    IN  IF n = << "CHAR", "[", "]" >> THEN StrType ELSE R[Find(t, n)]

ResolveType(h, t, i) == Resolve(h, t, NameOf(h, i))

-----------------------------------------------------------------------------
(* A visit works on the state of the inspector; thrown is a TypeError that *)
(* reaches the module.                                                     *)
State == [objects |-> objects, types |-> types, symbols |-> symbols,
          pointer_types |-> pointer_types, errors |-> errors, last |-> 0, thrown |-> FALSE]

(* As New, which is off by one. *)
FaultyNew(st, o) == [st EXCEPT !.objects = Append(@, o), !.last = Len(st.objects)]

New(st, o) == [st EXCEPT !.objects = Append(@, o), !.last = Len(st.objects) + 1]
PutName(st, n, i) == [st EXCEPT !.types = [m \in DOMAIN @ \union {n} |-> IF m = n THEN i ELSE @[m]]]
(* types.put(last_type->get_name(), last_type) *)
PutLast(st) == PutName(st, NameOf(st.objects, st.last), st.last)
Error(st)   == [st EXCEPT !.errors = TRUE]

VisitName(st, n) ==
    LET i == Find(st.types, << n >>)
    IN  IF i = 0 THEN [Error(st) EXCEPT !.thrown = TRUE] ELSE [st EXCEPT !.last = i]

(* As VisitPointer, which forgets to remember the pointer. *)
FaultyVisitPointer(st, n) ==
    LET i == Find(st.types, << n >>)
    IN  PutLast(New(st, Object("POINTER", << n >>, i, << >>, << >>)))

VisitPointer(st, n) ==
    LET i   == Find(st.types, << n >>)
        st1 == PutLast(New(st, Object("POINTER", << n >>, i, << >>, << >>)))
    IN  [st1 EXCEPT !.pointer_types = Append(@, st1.last)]

(* A value that has a symbol is an error, also from earlier in the list. *)
PutValues(st, values, new) ==
    [st EXCEPT !.symbols = [s \in DOMAIN @ \union new |-> IF s \in new THEN st.last ELSE @[s]],
               !.errors  = @ \/ Cardinality(new) < Len(values)]
VisitEnumeration(st, values) ==
    PutValues(New(st, Object("ENUMERATION", << >>, 0, << >>, << >>)),
              values, ToSet(values) \ DOMAIN st.symbols)

VisitSimple(st, e) ==
    CASE e.k = "name"    -> VisitName(st, e.name)
      [] e.k = "pointer" -> VisitPointer(st, e.name)
      [] e.k = "enum"    -> VisitEnumeration(st, e.values)

(* The array of dims, after the visit of its elements has left st. *)
MakeArray(st, dims) ==
    IF st.thrown THEN st
    ELSE PutLast(New(st, Object(IF dims = << >> THEN "OPENARRAY" ELSE "ARRAY", << >>, st.last, dims, << >>)))
VisitArray(st, dims, e) == MakeArray(VisitSimple(st, e), dims)

(* As HasField, which does not ask the base. *)
FaultyHasField(h, fields, base, f) == \E j \in DOMAIN fields : fields[j].name = f

(* RecordType::has_field, in the record or its base. *)
HasField(h, fields, base, f) ==
    LET Has[i \in 0 .. Len(h)] ==
          i # 0 /\ (Has[h[i].of] \/ \E j \in DOMAIN h[i].fields : h[i].fields[j].name = f)
    IN  (\E j \in DOMAIN fields : fields[j].name = f) \/ Has[base]

(* The record of base b that acc holds, with the next field, after the     *)
(* visit of the type of the field has left st.                             *)
Insert(acc, b, name, st) ==
    IF st.thrown THEN [acc EXCEPT !.st = st]
    ELSE IF HasField(st.objects, acc.fields, b, name) THEN [acc EXCEPT !.st = Error(st)]
    ELSE [st |-> st, fields |-> Append(acc.fields, FieldOf(name, st.last))]

MakeRecord(acc, b) ==
    IF acc.st.thrown THEN acc.st
    ELSE PutLast(New(acc.st, Object("RECORD", << >>, b, << >>, acc.fields)))

VisitFields(st, b, fs) ==
    LET Visited(acc, f) == IF acc.st.thrown THEN acc ELSE Insert(acc, b, f.name, VisitSimple(acc.st, f.type))
    IN  MakeRecord(FoldLeft(Visited, [st |-> st, fields |-> << >>], fs), b)

(* A base that is not found or no record is reported, and left out.  The   *)
(* visit of the base as an identifier reports it too when it is not found. *)
VisitRecord(st, base, fs) ==
    LET Over(b) == IF b # 0 /\ st.objects[b].id = "RECORD" THEN VisitFields(st, b, fs)
                   ELSE VisitFields(Error(st), 0, fs)
    IN  IF base = NoBase THEN VisitFields(st, 0, fs) ELSE Over(Resolve(st.objects, st.types, << base >>))

Visit(st, e) ==
    CASE e.k = "array"  -> VisitArray(st, e.dims, e.of)
      [] e.k = "record" -> VisitRecord(st, e.base, e.fields)
      [] OTHER          -> VisitSimple(st, e)

-----------------------------------------------------------------------------
Assign(st, p) ==
    /\ objects'       = st.objects
    /\ types'         = st.types
    /\ symbols'       = st.symbols
    /\ pointer_types' = st.pointer_types
    /\ errors'        = st.errors
    /\ part'          = IF st.thrown THEN "stopped" ELSE p

Init ==
    /\ objects       = Basic
    /\ types         = [n \in { Basic[i].name : i \in DOMAIN Basic } |->
                          CHOOSE i \in DOMAIN Basic : Basic[i].name = n]
    /\ symbols       = << >>
    /\ pointer_types = << >>
    /\ part          = "types"
    /\ errors        = FALSE
    /\ declared      = << >>

Declare(n, e) == declared' = [m \in DOMAIN declared \union {n} |-> IF m = n THEN e ELSE declared[m]]

(* The new name of an enumeration, once it is known. *)
WithName(st, n) ==
    IF st.objects[st.last].id = "ENUMERATION" THEN [st EXCEPT !.objects[st.last].name = << n >>] ELSE st

(* The names are used in order: which of two fresh names is taken does not matter. *)
Fresh(n, names) == \A i \in DOMAIN names : names[i] = n =>
                       \A j \in 1 .. i - 1 : names[j] \in DOMAIN declared

(* The alias n of the last type of st. *)
PutAlias(st, n) ==
    Assign(PutName(New(st, Alias(n, st.last)), << n >>, Len(st.objects) + 1), "types")

(* The declaration of e as n, whose visit has left st. *)
Enter(n, e, st) ==
    IF st.thrown THEN Assign(st, "stopped") /\ UNCHANGED declared
    ELSE PutAlias(WithName(st, n), n) /\ Declare(n, e)

(* One declaration of a TYPE section. *)
DeclareType(n, e) ==
    /\ part = "types"
    /\ Cardinality(DOMAIN declared \ ToSet(VarNames)) < MaxTypes
    /\ Fresh(n, TypeNames)
    /\ IF << n >> \in DOMAIN types
       THEN Assign(Error(State), "types") /\ UNCHANGED declared
       ELSE Enter(n, e, Visit(State, e))

PutSymbol(st, v) == [st EXCEPT !.symbols = [s \in DOMAIN @ \union {v} |-> IF s = v THEN st.last ELSE @[s]]]

(* One variable of a VAR section. *)
DeclareVar(v, e) ==
    /\ part \in {"types", "vars"}
    /\ v \notin DOMAIN declared
    /\ Fresh(v, VarNames)
    /\ Assign(PutSymbol(Visit(State, e), v), "vars")
    /\ Declare(v, e)

(* The end of visit(ASTVar); the declarations of a procedure may follow. *)
EndVars ==
    /\ part = "vars"
    /\ LET Ref(i) == Resolve(objects, types, objects[i].name)
           Open   == { i \in ToSet(pointer_types) : objects[i].of = 0 }
       IN  Assign([State EXCEPT !.objects = [i \in DOMAIN @ |-> IF i \in Open THEN [@[i] EXCEPT !.of = Ref(i)] ELSE @[i]],
                                !.pointer_types = << >>,
                                !.errors = @ \/ \E i \in Open : Ref(i) = 0],
                  "types")
    /\ UNCHANGED declared

Next ==
    \/ \E n \in ToSet(TypeNames), e \in Exprs : DeclareType(n, e)
    \/ \E v \in ToSet(VarNames), e \in VarExprs : DeclareVar(v, e)
    \/ EndVars

Spec == Init /\ [][Next]_vars

-----------------------------------------------------------------------------
(* Fields of records, as the inspector and the code generator find them. *)
OwnFields(h, i)  == [j \in DOMAIN h[i].fields |-> h[i].fields[j].name]

(* RecordType::get_type: 0 is no field. *)
GetType(h, i, f) ==
    LET T[r \in 0 .. Len(h)] ==
          IF r = 0 THEN 0
          ELSE IF \E j \in DOMAIN h[r].fields : h[r].fields[j].name = f
               THEN h[r].fields[CHOOSE j \in DOMAIN h[r].fields : h[r].fields[j].name = f].type
               ELSE T[h[r].of]
    IN  T[i]

(* RecordType::get_index, from 1 on; 0 is no field.  The fields before the *)
(* own ones are those that the base itself declares (count).               *)
GetIndex(h, i, f) ==
    LET G[r \in 0 .. Len(h)] ==
          IF r = 0 THEN 0
          ELSE IF G[h[r].of] # 0 THEN G[h[r].of]
          ELSE IF f \notin ToSet(OwnFields(h, r)) THEN 0
          ELSE (IF h[r].of = 0 THEN 0 ELSE Len(h[h[r].of].fields))
                 + (CHOOSE j \in DOMAIN h[r].fields : h[r].fields[j].name = f)
    IN  G[i]

(* RecordType::get_fieldTypes: the types of the elements of the structure. *)
FieldTypes(h, t, i) ==
    LET F[r \in 0 .. Len(h)] ==
          IF r = 0 THEN << >>
          ELSE F[h[r].of] \o [j \in DOMAIN h[r].fields |-> ResolveType(h, t, h[r].fields[j].type)]
    IN  F[i]
=============================================================================
