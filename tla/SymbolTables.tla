---------------------------- MODULE SymbolTables ----------------------------
(***************************************************************************)
(* The symbol table of the compiler as a data structure: operators over    *)
(* one record ft that stands for a FrameTable object and for the           *)
(* SymbolTable objects it owns (src/src/compiler/symboltable.hh).          *)
(*                                                                         *)
(*   ft.tables   the SymbolTable objects in the order make_shared created  *)
(*               them; object i is ft.tables[i] and 0 is the null pointer  *)
(*     .syms     its map from names to symbols                             *)
(*     .next     the object its constructor was given                      *)
(*     .free     its free_variables                                        *)
(*   ft.map      frame_map, from frame names to objects                    *)
(*   ft.stack    frame_stack, the top being the last element               *)
(*   ft.current  current_table                                             *)
(*                                                                         *)
(* The parser, the inspector and the code generator share one such record  *)
(* and call these operators; every operator that changes the structure     *)
(* returns the changed record.  The definitions Faulty... are variants     *)
(* with a plausible mistake, which the properties of the specifications    *)
(* are tried on; they are not part of the model.                           *)
(***************************************************************************)
EXTENDS Integers, Sequences, FiniteSets

Root == "."    \* the frame the constructor of FrameTable pushes

(* The function f with k mapped to v, k being in its domain or not. *)
Bind(f, k, v) == [x \in DOMAIN f \cup {k} |-> IF x = k THEN v ELSE f[x]]

(* The function f without the keys in K. *)
Drop(f, K) == [x \in DOMAIN f \ K |-> f[x]]

NoBindings == [x \in {} |-> x]

FaultyNewTable(next) ==
    [syms |-> NoBindings, next |-> IF next = 0 THEN 0 ELSE 1, free |-> {}]

NewTable(next) == [syms |-> NoBindings, next |-> next, free |-> {}]

(* ft with other contents in its tables. *)
WithTables(ft, T) == [tables |-> T, map |-> ft.map,
                      stack |-> ft.stack, current |-> ft.current]

WithSyms(ft, i, syms) ==
    WithTables(ft, [ft.tables EXCEPT ![i] =
                      [syms |-> syms, next |-> @.next, free |-> @.free]])

WithFree(ft, free) ==
    WithTables(ft, [i \in DOMAIN ft.tables |->
                      [syms |-> ft.tables[i].syms, next |-> ft.tables[i].next,
                       free |-> free[i]]])

-----------------------------------------------------------------------------
(* Frames. *)

EmptyFrameTable ==
    [tables |-> << NewTable(0) >>, map |-> [f \in {Root} |-> 1],
     stack |-> << 1 >>, current |-> 1]

FaultyPushFrame(ft, f) ==
    LET id == Len(ft.tables) + 1
    IN  [tables  |-> Append(ft.tables, NewTable(ft.current)),
         map     |-> Bind(ft.map, f, id),
         stack   |-> Append(ft.stack, id),
         current |-> id]

(* push_frame: a known name re-enters the object it was first given,       *)
(* whatever the current table is; a new name gets a new object whose next  *)
(* is the current table.                                                   *)
PushFrame(ft, f) ==
    IF f \in DOMAIN ft.map
      THEN [tables  |-> ft.tables,
            map     |-> ft.map,
            stack   |-> Append(ft.stack, ft.map[f]),
            current |-> ft.map[f]]
      ELSE LET id == Len(ft.tables) + 1
           IN  [tables  |-> Append(ft.tables, NewTable(ft.current)),
                map     |-> Bind(ft.map, f, id),
                stack   |-> Append(ft.stack, id),
                current |-> id]

FaultyPopFrame(ft) ==
    [tables |-> ft.tables, map |-> ft.map, current |-> ft.current,
     stack |-> SubSeq(ft.stack, 1, Len(ft.stack) - 1)]

(* pop_frame; its callers have pushed what they pop, so a frame is left. *)
PopFrame(ft) ==
    LET rest == SubSeq(ft.stack, 1, Len(ft.stack) - 1)
    IN  [tables |-> ft.tables, map |-> ft.map,
         stack |-> rest, current |-> rest[Len(rest)]]

-----------------------------------------------------------------------------
(* Lookups, from the current table along next. *)

(* The tables a lookup visits, innermost first. *)
Chain(ft) ==
    LET C[i \in 0 .. Len(ft.tables)] ==
          IF i = 0 THEN << >> ELSE << i >> \o C[ft.tables[i].next]
    IN  C[ft.current]

Hits(ft, n) ==
    {k \in DOMAIN Chain(ft) : n \in DOMAIN ft.tables[Chain(ft)[k]].syms}

(* find returns something else than nullptr *)
Found(ft, n) == Hits(ft, n) # {}

FaultyNearest(S) == CHOOSE k \in S : \A j \in S : j <= k

Nearest(S) == CHOOSE k \in S : \A j \in S : k <= j

(* The object whose map holds the symbol that find returns. *)
Definer(ft, n) == Chain(ft)[Nearest(Hits(ft, n))]

Lookup(ft, n) == ft.tables[Definer(ft, n)].syms[n]

(* The tables that were passed on the way to the definer record n as a     *)
(* free variable; a lookup that fails records nothing.                     *)
MarkFree(ft, n) ==
    IF ~Found(ft, n) THEN ft
    ELSE LET passed == {Chain(ft)[k] : k \in 1 .. Nearest(Hits(ft, n)) - 1}
             free == [i \in DOMAIN ft.tables |->
                       ft.tables[i].free \cup (IF i \in passed THEN {n} ELSE {})]
         IN  WithFree(ft, free)

-----------------------------------------------------------------------------
(* Updates. *)

Put(ft, n, v) ==
    WithSyms(ft, ft.current, Bind(ft.tables[ft.current].syms, n, v))

(* A write through the shared pointer that find returned (Symbol::set,     *)
(* SymbolFrameTable::set_value): the binding changes where it is defined.  *)
Rebind(ft, n, v) ==
    LET d == Definer(ft, n)
    IN  WithSyms(MarkFree(ft, n), d, Bind(ft.tables[d].syms, n, v))

(* set: put at the defining table, recording n as free on the way. *)
SetValue(ft, n, v) == IF Found(ft, n) THEN Rebind(ft, n, v) ELSE ft

(* remove: erased at the nearest table that holds it. *)
RemoveName(ft, n) ==
    IF Found(ft, n)
      THEN LET d == Definer(ft, n)
           IN  WithSyms(ft, d, Drop(ft.tables[d].syms, {n}))
      ELSE ft

FaultyResetFree(ft) == ft

(* reset_free_variables: this table and everything above it. *)
ResetFree(ft) ==
    LET chain == {Chain(ft)[k] : k \in DOMAIN Chain(ft)}
        free == [i \in DOMAIN ft.tables |->
                   IF i \in chain THEN {} ELSE ft.tables[i].free]
    IN  WithFree(ft, free)

FaultyFreeVariables(ft) == {}

(* get_free_variables *)
FreeVariables(ft) == ft.tables[ft.current].free
=============================================================================
