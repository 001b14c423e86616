----------------------------- MODULE FrameTable -----------------------------
(***************************************************************************)
(* FrameTable<T> of src/src/compiler/symboltable.hh, used by a client that *)
(* walks a program again and again: one action per operation of the        *)
(* interface.  Parent is the program, in which every procedure has its own *)
(* name: the client pushes the frame of f only inside the frame of         *)
(* Parent[f].  (Procedures shows what happens in programs in which a name  *)
(* is used for two procedures.)                                            *)
(***************************************************************************)
EXTENDS SymbolTables

CONSTANTS Names,       \* identifiers
          Symbols,     \* what find returns a pointer to
          NoSymbol,    \* nullptr
          Frames,      \* frame names: the procedures of the program
          Parent       \* the frame around each of them

ASSUME NoSymbolAssumption == NoSymbol \notin Symbols
ASSUME FramesAssumption   == Root \notin Frames
ASSUME ParentAssumption   == Parent \in [Frames -> Frames \cup {Root}]

VARIABLES ft,          \* the FrameTable object
          answer       \* the result of the last find

vars == << ft, answer >>

Init == /\ ft = EmptyFrameTable
        /\ answer = NoSymbol

push_frame(f) ==
    /\ Parent[f] \in DOMAIN ft.map
    /\ ft.current = ft.map[Parent[f]]
    /\ ft' = PushFrame(ft, f)
    /\ UNCHANGED answer

pop_frame ==
    /\ Len(ft.stack) > 1
    /\ ft' = PopFrame(ft)
    /\ UNCHANGED answer

put(n, v) ==
    /\ ft' = Put(ft, n, v)
    /\ UNCHANGED answer

find(n) ==
    /\ answer' = IF Found(ft, n) THEN Lookup(ft, n) ELSE NoSymbol
    /\ ft' = MarkFree(ft, n)

set(n, v) ==
    /\ ft' = SetValue(ft, n, v)
    /\ UNCHANGED answer

remove(n) ==
    /\ ft' = RemoveName(ft, n)
    /\ UNCHANGED answer

reset_free_variables ==
    /\ ft' = ResetFree(ft)
    /\ UNCHANGED answer

Next ==
    \/ \E f \in Frames : push_frame(f)
    \/ pop_frame
    \/ \E n \in Names, v \in Symbols : put(n, v) \/ set(n, v)
    \/ \E n \in Names : find(n) \/ remove(n)
    \/ reset_free_variables

Spec == Init /\ [][Next]_vars

-----------------------------------------------------------------------------

Bindings == UNION {[D -> Symbols] : D \in SUBSET Names}

Tables == [syms : Bindings, next : Nat, free : SUBSET Names]

(* The shape of a FrameTable object: there is always an open frame, every  *)
(* pointer leads to an object that exists, and next to an older one.       *)
TypeOK ==
    /\ ft = [tables |-> ft.tables, map |-> ft.map,
             stack |-> ft.stack, current |-> ft.current]
    /\ ft.tables \in Seq(Tables)
    /\ \A i \in 1 .. Len(ft.tables) : ft.tables[i].next < i
    /\ DOMAIN ft.map \subseteq Frames \cup {Root}
    /\ ft.map \in [DOMAIN ft.map -> 1 .. Len(ft.tables)]
    /\ ft.stack \in Seq(1 .. Len(ft.tables))
    /\ ft.stack # << >>
    /\ ft.current = ft.stack[Len(ft.stack)]

(* Lexical scoping rests on this: the next pointers from the current table *)
(* outward, fixed when a frame is first entered, are the frames that are   *)
(* open now, however often frames were left and entered again.             *)
StaticLink ==
    /\ ft.stack[1] = 1
    /\ ft.tables[1].next = 0
    /\ \A k \in 2 .. Len(ft.stack) :
          ft.tables[ft.stack[k]].next = ft.stack[k - 1]

(* Why it is kept: a frame name leads to one object for good, and that     *)
(* object's next is the object of the enclosing procedure.                 *)
FramesFollowParent ==
    /\ Root \in DOMAIN ft.map
    /\ ft.map[Root] = 1
    /\ \A f \in DOMAIN ft.map \ {Root} :
          /\ Parent[f] \in DOMAIN ft.map
          /\ ft.tables[ft.map[f]].next = ft.map[Parent[f]]

-----------------------------------------------------------------------------
(* The implementation of block structure: the open blocks are the names of *)
(* the frames on the stack.                                                *)

NameOf(i) == CHOOSE f \in DOMAIN ft.map : ft.map[f] = i

OfFrame(f, field, none) ==
    IF f \in DOMAIN ft.map THEN ft.tables[ft.map[f]][field] ELSE none

Scope == INSTANCE LexicalScope WITH
    Blocks <- Frames,
    Module <- Root,
    path   <- [k \in DOMAIN ft.stack |-> NameOf(ft.stack[k])],
    scope  <- [f \in Frames \cup {Root} |-> OfFrame(f, "syms", NoBindings)],
    outer  <- [f \in Frames \cup {Root} |-> OfFrame(f, "free", {})]

(* A lookup along the next pointers answers, and records free variables,   *)
(* exactly as the innermost open declaration would.                        *)
ImplementsLexicalScope == Scope!Spec
=============================================================================
