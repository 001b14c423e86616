------------------------------- MODULE MCTypes ------------------------------
(***************************************************************************)
(* A small instance of TypeRules: three types, three fields and a variable.  *)
(***************************************************************************)
EXTENDS TypeRules

Names == << "A", "B", "C" >>
Vars  == << "v" >>

(* Records of one field that extend A, B or nothing, and of two fields. *)
MCRecords ==
    { Record(b, << FieldOf(f, Named("INTEGER")) >>) : b \in {NoBase, "A"}, f \in {"f", "g"} }
      \union { Record("B", << FieldOf(f, Named("INTEGER")) >>) : f \in {"f", "h"} }
      \union { Record(NoBase, << FieldOf("g", Named("A")) >>) }
      \union { Record(NoBase, << FieldOf("f", Named("INTEGER")), FieldOf("g", e) >>) :
                 e \in {Named("CHAR"), PointerTo("A")} }
      \union { Record(NoBase, << FieldOf("g", Named("INTEGER")), FieldOf("f", Named("INTEGER")) >>) }
MCArrays ==
    { ArrayOf(d, Named("A")) : d \in {<< >>, << "2", "3" >>} } \union { ArrayOf(<< >>, Named("CHAR")) }
MCExprs ==
    MCRecords \union MCArrays
      \union { Named(n) : n \in {"LONGINT", "A"} }
      \union { PointerTo(n) : n \in {"A", "B"} }
      \union { Enumeration(<< "red" >>), Enumeration(<< "blue", "blue" >>) }
MCVarExprs ==
    { Named("B"), Named("C"), PointerTo("B"), ArrayOf(<< >>, Named("CHAR")), ArrayOf(<< "2" >>, Named("B")) }

(* For the violations: an array with two dimensions, and a pointer to one  *)
(* with one dimension.                                                     *)
Matrix   == { ArrayOf(<< "2", "3" >>, Named("INTEGER")) }
Row      == { ArrayOf(<< "2" >>, Named("INTEGER")) }
OfA      == { Named("A") }
PointerA == { PointerTo("A") }
Indexes  == { Index(1) }

MCSelectors == { Index(1), Index(2), Field("f"), Field("g"), Field("h"), Deref }
=============================================================================
