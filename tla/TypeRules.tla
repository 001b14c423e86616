------------------------------ MODULE TypeRules -----------------------------
(***************************************************************************)
(* What the declarations of a program say, read from their text alone, and *)
(* the properties that compare Types and Designators with it.  Where the   *)
(* code differs from the language, the difference is a named condition.    *)
(***************************************************************************)
EXTENDS Designators

CONSTANTS
    Selectors,  \* the selectors of the designators that are looked at
    MaxSels     \* and how many of them a designator may have

Types_ == ToSet(TypeNames) \intersect DOMAIN declared
Vars_  == ToSet(VarNames) \intersect DOMAIN declared
Paths  == BoundedSeq(Selectors, MaxSels)

(* All declarations are visited, and nothing was reported. *)
Accepted == part = "types" /\ pointer_types = << >> /\ ~errors

-----------------------------------------------------------------------------
(* What a type expression stands for: a basic type or a structure. *)
Denoted(e0) ==
    LET D[n \in Types_] ==
          LET e == declared[n]
          IN  IF e.k # "name" \/ e.name \in BasicNames THEN e ELSE D[e.name]
        e == IF e0.k = "name" /\ e0.name \notin BasicNames THEN D[e0.name] ELSE e0
    IN  IF e = Named("LONGINT") THEN Named("INTEGER") ELSE e

(* The fields of a record and of the records it extends, these first. *)
AllFields(rec) ==
    LET F[n \in Types_] ==
          LET e == Denoted(Named(n))
          IN  (IF e.base = NoBase THEN << >> ELSE F[e.base]) \o e.fields
    IN  (IF rec.base = NoBase THEN << >> ELSE F[rec.base]) \o rec.fields

Extends(rec) == rec.base # NoBase
IsOpen(e)    == e.k = "array" /\ e.dims = << >>
IsString(e)  == e = Named("STRING") \/ (IsOpen(e) /\ Denoted(e.of) = Named("CHAR"))

(* The expressions in which a declaration says what it is made of. *)
Components(e) ==
    CASE e.k = "array"  -> {e, e.of}
      [] e.k = "record" -> {e} \union { e.fields[j].type : j \in DOMAIN e.fields }
      [] OTHER          -> {e}
AllExprs == UNION { Components(declared[n]) : n \in DOMAIN declared }
Records  == { e \in AllExprs : e.k = "record" }

-----------------------------------------------------------------------------
(* The differences. *)

(* The type table finds a record by a name made of its base and the names  *)
(* of its fields alone.                                                    *)
RecordName(rec) ==
    LET Names(e) == [j \in DOMAIN e.fields |-> e.fields[j].name]
        R[n \in Types_] ==
          LET e == Denoted(Named(n))
          IN  IF Extends(e) THEN << R[e.base], Names(e) >> ELSE << << >>, Names(e) >>
    IN  IF Extends(rec) THEN << R[rec.base], Names(rec) >> ELSE << << >>, Names(rec) >>
RecordNamesDiffer == \A e1, e2 \in Records : RecordName(e1) = RecordName(e2) => e1 = e2

(* An enumeration that is not the whole of a type declaration has no name. *)
NamelessEnumeration == \E n \in DOMAIN declared : \E e \in Components(declared[n]) :
                           e.k = "enum" /\ ~(n \in Types_ /\ e = declared[n])

(* p.f stands for p^.f only if each pointer to the record type stands      *)
(* before the end of the declaration of that type.                         *)
Position(n) == IF n \in Types_ THEN CHOOSE i \in DOMAIN TypeNames : TypeNames[i] = n ELSE Len(TypeNames) + 1
Before(m)   == \A n \in DOMAIN declared : PointerTo(m) \in Components(declared[n]) => Position(n) <= Position(m)

-----------------------------------------------------------------------------
(* A designator, read as the report says: its type, the steps it takes     *)
(* from where the last pointer leads to, the pointers it follows, and      *)
(* whether it is legal.  Three marks say where the code is different:      *)
(*   refused  the inspector reports an error all the same: an index on a   *)
(*            pointer, which stands for p^[i]; other than all indexes of   *)
(*            an array in one selector, where a[i, j] stands for a[i][j];  *)
(*            a field of a pointer that Before does not allow;             *)
(*   lax      how many indexes a string or an open array has is not        *)
(*            checked;                                                     *)
(*   known    the code generator knows how to take these selectors in this *)
(*            order: pointers are followed first and only then, a string   *)
(*            or an open array is indexed as a variable with one index,    *)
(*            and a record whose base has a base has no fields.            *)
Meaning(e, n, steps, loads, legal) ==
    [e |-> e, n |-> n, steps |-> steps, loads |-> loads, legal |-> legal,
     refused |-> FALSE, lax |-> FALSE, known |-> TRUE]
Illegal(m) == [m EXCEPT !.legal = FALSE]
Step(m, e, steps) == [m EXCEPT !.e = Denoted(e), !.steps = @ \union steps]

MeanDeref(m) ==
    IF m.e.k # "pointer" THEN Illegal(m)
    ELSE [Step(m, Named(m.e.name), {}) EXCEPT !.loads = @ + 1, !.known = @ /\ m.steps = {}]

(* The type of e[i]; e[i, j] stands for e[i][j]. *)
Element(e) ==
    CASE IsString(e) -> Named("CHAR")
      [] ~IsString(e) /\ Len(e.dims) > 1 -> ArrayOf(Tail(e.dims), e.of)
      [] OTHER -> e.of
Length(e) == IF IsString(e) \/ IsOpen(e) THEN "any" ELSE Head(e.dims)

MeanOne(m, j) ==
    LET array == IF m.e.k = "pointer" THEN MeanDeref(m) ELSE m
    IN  IF IsString(array.e) \/ array.e.k = "array"
        THEN Step(array, Element(array.e), {<< m.n, j, Length(array.e) >>})
        ELSE Illegal(m)

MeanIndex(m, sel) ==
    LET loose == IsString(m.e) \/ IsOpen(m.e)
        whole == m.e.k = "array" /\ Len(m.e.dims) = sel.exprs
        One(acc, j) == IF acc.legal THEN MeanOne(acc, j) ELSE acc
    IN  [FoldLeft(One, m, [j \in 1 .. sel.exprs |-> j]) EXCEPT
            !.refused = @ \/ ~(loose \/ whole),
            !.lax     = @ \/ (loose /\ sel.exprs # 1),
            !.known   = @ /\ (IF loose THEN m.n = 1 ELSE m.loads = 0)]

MeanFieldOf(m, f, fields) ==
    LET pos == CHOOSE j \in DOMAIN fields : fields[j].name = f
    IN  IF \A j \in DOMAIN fields : fields[j].name # f THEN Illegal(m)
        ELSE [Step(m, fields[pos].type, {<< m.n, pos >>}) EXCEPT
                !.known = /\ @
                          /\ Extends(m.e) => ~Extends(Denoted(Named(m.e.base)))
                          /\ m.loads = 0 \/ m.n = 1]
MeanField(m, f) == IF m.e.k # "record" THEN Illegal(m) ELSE MeanFieldOf(m, f, AllFields(m.e))

MeanSelector(m, sel) ==
    CASE sel.k = "index" -> MeanIndex(m, sel)
      [] sel.k = "deref" -> MeanDeref(m)
      [] sel.k = "field" ->
           IF m.e.k # "pointer" THEN MeanField(m, sel.name)
           ELSE [MeanField(MeanDeref(m), sel.name) EXCEPT !.refused = @ \/ ~Before(m.e.name)]

Mean(m, sel) == IF m.legal THEN [MeanSelector(m, sel) EXCEPT !.n = m.n + 1] ELSE m

MeantFrom(e, sels) == FoldLeft(Mean, Meaning(e, 1, {}, 0, TRUE), sels)
Meant(v, sels) == MeantFrom(Denoted(declared[v]), sels)

(* Records of one name have one layout, as far as record names differ. *)
Layout(t) == IF t.k = "struct" THEN [k |-> "struct", name |-> NameOf(objects, t.rec)] ELSE t

(* Object i is what the expression e says. *)
Represents(i, e) ==
    LET o == objects[i]
    IN  CASE e.k = "name"    -> o.name = << e.name >> \/ (IsString(e) /\ o.id = "OPENARRAY")
          [] IsString(e) /\ e.k = "array"  -> o.id \in {"STRING", "OPENARRAY"}
          [] ~IsString(e) /\ e.k = "array" ->
               o.id = (IF IsOpen(e) THEN "OPENARRAY" ELSE "ARRAY") /\ o.dims = e.dims
          [] e.k = "pointer" -> o.id = "POINTER" /\ o.name = << e.name >>
          [] e.k = "enum"    -> o.id = "ENUMERATION" /\ \A x \in ToSet(e.values) : symbols[x] = i
          [] e.k = "record"  ->
               /\ o.id = "RECORD"
               /\ Len(FieldTypes(objects, types, i)) = Len(AllFields(e))
               /\ \A j \in DOMAIN AllFields(e) : GetType(objects, i, AllFields(e)[j].name) # 0

-----------------------------------------------------------------------------
(* Every object leads to objects that exist, and every name to an object.  *)
(* (the heap that typetable.hh and types/ build)                           *)
TypeOK ==
    /\ \A i \in DOMAIN objects :
         /\ objects[i].of \in 0 .. Len(objects)
         /\ objects[i].id = "RECORD" => objects[i].of < i
         /\ objects[i].of = 0 => objects[i].id \notin {"ALIAS", "ARRAY", "OPENARRAY"}
         /\ \A j \in DOMAIN objects[i].fields : objects[i].fields[j].type < i
    /\ \A n \in DOMAIN types : types[n] \in DOMAIN objects
    /\ part # "stopped" => \A s \in DOMAIN symbols : symbols[s] \in DOMAIN objects
    /\ ToSet(pointer_types) \subseteq { i \in DOMAIN objects : objects[i].id = "POINTER" }

(* Once the variables are declared, every pointer leads to what its        *)
(* reference name stands for, also one that was declared before its        *)
(* reference (visit(ASTVar)).                                              *)
PointersBound ==
    (Accepted /\ Vars_ # {} /\ RecordNamesDiffer /\ ~NamelessEnumeration) =>
        \A i \in DOMAIN objects : objects[i].id = "POINTER" =>
            /\ objects[i].of # 0
            /\ Represents(ResolveType(objects, types, objects[i].of), Denoted(Named(objects[i].name[1])))

(* What is accepted obeys the rules for declarations: a base is a record,  *)
(* no field has the name of another field of the record or its bases, the  *)
(* values of enumerations differ (visit(ASTRecord), visit(ASTEnumeration)). *)
AcceptedLegal ==
    (~errors /\ pointer_types = << >>) =>
        /\ \A n \in DOMAIN declared : \A e \in Components(declared[n]) : e.k = "record" =>
             /\ Extends(e) => Denoted(Named(e.base)).k = "record"
             /\ \A i, j \in DOMAIN AllFields(e) :
                  AllFields(e)[i].name = AllFields(e)[j].name => i = j
        /\ \A n1, n2 \in DOMAIN declared :
             \A e1 \in Components(declared[n1]), e2 \in Components(declared[n2]) :
               (e1.k = "enum" /\ e2.k = "enum" /\ n1 # n2) => ToSet(e1.values) \intersect ToSet(e2.values) = {}
        /\ \A n \in DOMAIN declared : \A e \in Components(declared[n]) :
             e.k = "enum" => IsInjective(e.values)

TypedAs(d, m) ==
    /\ (d.status = "ok") = (m.legal /\ ~m.refused)
    /\ m.legal /\ ~m.refused => Represents(d.b, m.e)

(* The inspector accepts a designator exactly if it is legal, and gives it *)
(* the type that the declarations say (visit(ASTDesignator) and resolve),  *)
(* but for what is refused and where it is lax.                            *)
DesignatorsTyped ==
    (Accepted /\ RecordNamesDiffer /\ ~NamelessEnumeration) =>
        \A v \in Vars_, sels \in Paths :
            LET m == Meant(v, sels)
            IN  m.lax \/ TypedAs(Inspected(v, sels), m)

LeadsTo(a, d, m) ==
    /\ a.loads = m.loads
    /\ a.gep.steps = m.steps
    /\ m.steps # {} => Layout(a.gep.type) = Layout(LlvmType(d.b))
AddressedAs(v, sels, d, m) == LeadsTo(Address(v, sels, d.idx), d, m)

(* The address of an accepted designator is that of the component it       *)
(* designates, and the type loaded from there is its type (get_index).     *)
AddressesRight ==
    (Accepted /\ RecordNamesDiffer /\ ~NamelessEnumeration) =>
        \A v \in Vars_, sels \in Paths \ {<< >>} :
            LET m == Meant(v, sels)
            IN  (m.legal /\ ~m.refused /\ ~m.lax /\ m.known) =>
                    AddressedAs(v, sels, Inspected(v, sels), m)

(* Pointers lead from a type back to itself. *)
Targets(E) == { Denoted(Named(c.name)) : c \in { c \in UNION { Components(e) : e \in E } : c.k = "pointer" } }
SelfPointer ==
    \E n \in Types_ :
        LET e == Denoted(Named(n))
            Reached[k \in 1 .. MaxTypes] == Targets(IF k = 1 THEN {e} ELSE Reached[k - 1])
        IN  \E k \in 1 .. MaxTypes : e \in Reached[k]

(* A type is equivalent to itself, a record to the record it extends, and  *)
(* two records without bases only if their fields, of basic types, are the *)
(* same; the comparison ends (type_base.cc).                               *)
EquivRight ==
    (Accepted /\ Vars_ # {} /\ RecordNamesDiffer /\ ~NamelessEnumeration /\ ~SelfPointer) =>
        \A m, n \in Types_ :
            LET a == Denoted(Named(m))
                b == Denoted(Named(n))
                r == Equiv(Resolve(objects, types, << m >>), Resolve(objects, types, << n >>))
                Flat(e) == e.k = "record" /\ ~Extends(e)
                             /\ \A j \in DOMAIN e.fields : e.fields[j].type \in {Named("INTEGER"), Named("CHAR")}
            IN  /\ r \notin {"endless", "crash"}
                /\ a = b => r = "yes"
                /\ a.k = "record" /\ Extends(a) /\ Denoted(Named(a.base)) = b => r = "yes"
                /\ Flat(a) /\ Flat(b) =>
                     (r = "yes") = ([j \in DOMAIN a.fields |-> a.fields[j].type]
                                       = [j \in DOMAIN b.fields |-> b.fields[j].type])

(* What the report allows, the inspector accepts: p[e] for p^[e]           *)
(* (report.tex:729), and a[i][j] for a[i, j] (report.tex:726).             *)
LegalAccepted ==
    (Accepted /\ RecordNamesDiffer /\ ~NamelessEnumeration) =>
        \A v \in Vars_, sels \in Paths :
            LET m == Meant(v, sels)
            IN  m.legal /\ ~m.lax => Inspected(v, sels).status = "ok"

(* A field of a record has the type with which the record declares it      *)
(* (report.tex:728), whatever other records are declared.                  *)
FieldsOwnTypes ==
    (Accepted /\ ~NamelessEnumeration) =>
        \A v \in Vars_, sels \in Paths :
            LET m == Meant(v, sels)
            IN  m.lax \/ TypedAs(Inspected(v, sels), m)

(* Two fields of a record never have the same index (report.tex:611: "An   *)
(* extended type T1 consists of the fields of its base type and of the     *)
(* fields which are declared in T1").                                      *)
FieldsApart ==
    Accepted => \A i \in DOMAIN objects : objects[i].id = "RECORD" =>
        \A f, g \in { x.name : x \in UNION { ToSet(objects[j].fields) : j \in DOMAIN objects } } :
            (GetIndex(objects, i, f) = GetIndex(objects, i, g) /\ GetIndex(objects, i, f) # 0) => f = g
=============================================================================
