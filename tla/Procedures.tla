----------------------------- MODULE Procedures -----------------------------
(***************************************************************************)
(* What the compiler does with nested procedures.  Three passes walk the   *)
(* same program in text order over one symbol table: the parser, which     *)
(* builds the program (so every program within the bounds is parsed), the  *)
(* inspector, which checks it and finds the free variables, and the code   *)
(* generator, which turns procedures into functions and free variables     *)
(* into closures.  The frames made by the first pass are entered again by  *)
(* the others.                                                             *)
(*                                                                         *)
(* The program is a sequence of items.  Item 1 is the heading of the       *)
(* module with its declarations; a "procedure" item is a heading with its  *)
(* declarations; "begin" and "end" enclose the statements of a block.  A   *)
(* block is named by the position of its heading, and every item knows the *)
(* block it is in.  Types, expressions and the syntax of statements are    *)
(* left out: a "use" is a designator without selectors in an expression.   *)
(* The definitions Faulty... are variants with a plausible mistake, which  *)
(* the properties are tried on; they are not part of the specification.    *)
(***************************************************************************)
EXTENDS SymbolTables, FiniteSetsExt, SequencesExt

CONSTANTS
    Vars,           \* the names of variables, constants and parameters
    ProcNames,      \* the names of procedures, a sequence
    Kinds,          \* what Vars are declared as: "var", "const", "value", "VAR"
    Results,        \* a subset of BOOLEAN: a procedure has a result
    Statements,     \* a subset of {"use", "call", "return"}
    Distinct,       \* the procedures of a program have different names
    MaxProcs, MaxDepth, MaxForwards, MaxStatements    \* bounds on the program

ASSUME ConstantsAssumption ==
    /\ IsFiniteSet(Vars)
    /\ ProcNames \in Seq(STRING)
    /\ Vars \cap Range(ProcNames) = {}
    /\ Kinds \subseteq {"var", "const", "value", "VAR"}
    /\ Distinct \in BOOLEAN

VARIABLES
    phase,          \* "parse", "inspect", "generate"; "done", "failed", "aborted"
    prog,           \* the program: its text, and the AST
    pc,             \* the item the pass is at
    open,           \* the handlers that have not returned, innermost last
    ft,             \* the SymbolFrameTable that the passes share
    heap,           \* the Symbol objects; the tables hold indices of it
    last_proc,      \* Inspector::last_proc, 0 for nullptr
    errors,         \* there are errors in the ErrorManager
    refs,           \* what the inspector bound the names in statements to
    code            \* what the code generator emitted

vars == << phase, prog, pc, open, ft, heap, last_proc, errors, refs, code >>

-----------------------------------------------------------------------------
(* The text.                                                               *)

NoName == ""

Heading(op, name, block, decs, result) ==
    [op |-> op, name |-> name, block |-> block,
     decs |-> decs, result |-> result, arg |-> NoName]

Item(op, name, block) == Heading(op, name, block, NoBindings, FALSE)

Count(op) == Cardinality({i \in DOMAIN prog : prog[i].op = op})

Params(decs) == {n \in DOMAIN decs : decs[n] \in {"value", "VAR"}}
Locals(decs) == DOMAIN decs \ Params(decs)

DecsOf(kinds) == UNION {[D -> kinds] : D \in SUBSET Vars}

-----------------------------------------------------------------------------
(* Symbols.                                                                *)

(* An llvm::Value: nullptr, a global variable, the alloca that function fn *)
(* made for a name of block, the pointer that fn loaded from its closure   *)
(* argument, or the function fn.                                           *)
Value(what, block, name, fn) ==
    [what |-> what, block |-> block, name |-> name, fn |-> fn]

Main       == << >>
Null       == Value("null", 0, NoName, Main)
Function(f) == Value("function", 0, NoName, f)

(* kind is "void" for a variable until the inspector knows its type.       *)
Symbol(kind, block, name) ==
    [kind |-> kind, block |-> block, name |-> name, global |-> FALSE,
     params |-> << >>, caps |-> {}, value |-> Null]

(* What the inspector makes of the heading i: the parameters are those of   *)
(* do_proc.  Its result is not asked for by a call that is a statement.    *)
ProcSymbol(kind, i) ==
    LET ns == SetToSeq(Params(prog[i].decs))
    IN  [Symbol(kind, prog[i].block, prog[i].name) EXCEPT
            !.global = TRUE,
            !.params = [k \in DOMAIN ns |-> prog[i].decs[ns[k]]]]

SymbolOf(t, n) == heap[Lookup(t, n)]

IsProcedure(s) == s.kind \in {"fwd", "proc"}

(* The names ns put into the current table, bound to the symbols that are  *)
(* appended to a heap with h symbols.                                      *)
PutAll(t, ns, h) ==
    LET new == Range(ns)
        at(n) == h + CHOOSE k \in DOMAIN ns : ns[k] = n
        old == t.tables[t.current].syms
    IN  WithSyms(t, t.current, [n \in DOMAIN old \cup new |->
                                  IF n \in new THEN at(n) ELSE old[n]])

(* set_value for each of the names ns, which are found in t *)
WithValues(t, ns, value(_)) ==
    [h \in DOMAIN heap |->
       IF \E n \in ns : Lookup(t, n) = h
         THEN [heap[h] EXCEPT !.value = value(CHOOSE n \in ns : Lookup(t, n) = h)]
         ELSE heap[h]]

-----------------------------------------------------------------------------
(* The handlers that are active; the module's is at the bottom.            *)

Inner == open[Len(open)]
Here  == Inner.item
InModule == Len(open) = 1

Entered(i, s, f) == Append(open, [item |-> i, sym |-> s, fn |-> f, stats |-> FALSE])
Left == SubSeq(open, 1, Len(open) - 1)
InStatements == [open EXCEPT ![Len(open)].stats = TRUE]

OnlyModule == << [item |-> 1, sym |-> 0, fn |-> Main, stats |-> FALSE] >>

(* get_nested_name, inside the procedure n *)
NestedName(n) == Append([k \in 1 .. Len(open) - 1 |-> prog[open[k + 1].item].name], n)

NoCode == [funcs |-> NoBindings, bodies |-> {}, accesses |-> {}, calls |-> {}]

(* An llvm::FunctionType: a parameter for the closure, and how many others. *)
FunctionType(closure, params) == [closure |-> closure, params |-> params]

(* The functions of the LLVM module with fn, which has type t if it is new. *)
WithFunction(fn, t) ==
    IF fn \in DOMAIN code.funcs THEN code.funcs ELSE Bind(code.funcs, fn, t)

-----------------------------------------------------------------------------
(* The parser.  parse_const and parse_var put names with no type yet; the  *)
(* names of parameters are not put.                                        *)

UntypedSymbols(ns, decs, block) ==
    [k \in DOMAIN ns |->
       Symbol(IF decs[ns[k]] = "const" THEN "const" ELSE "void", block, ns[k])]

(* parse_module, up to its procedures *)
Init ==
    \E decs \in DecsOf(Kinds \cap {"var", "const"}) :
        LET ns == SetToSeq(DOMAIN decs)
        IN  /\ phase = "parse"
            /\ prog = << Heading("module", NoName, 0, decs, FALSE) >>
            /\ pc = 1
            /\ open = OnlyModule
            /\ heap = UntypedSymbols(ns, decs, 1)
            /\ ft = PutAll(EmptyFrameTable, ns, 0)
            /\ last_proc = 0
            /\ errors = FALSE
            /\ refs = {}
            /\ code = NoCode

Parsing == /\ phase = "parse"
           /\ UNCHANGED << last_proc, errors, refs, code >>

Parsed(item) == prog' = Append(prog, item) /\ pc' = pc + 1

Named(op, n) == {i \in DOMAIN prog : prog[i].op = op /\ prog[i].name = n}

Announced(n) == \E i \in Named("forward", n) : prog[i].block = Here

(* Names that occur once are taken in order: which name is which does not  *)
(* matter to the compiler.                                                 *)
Fresh(n) == \E k \in DOMAIN ProcNames :
    /\ ProcNames[k] = n
    /\ \A j \in DOMAIN ProcNames :
          j < k <=> Named("procedure", ProcNames[j]) \cup Named("forward", ProcNames[j]) # {}

Declarable(n) == Distinct => Fresh(n) \/ (Named("procedure", n) = {} /\ Announced(n))

(* parse_procedure, up to the procedures it contains *)
ParseProcedure(n, decs, result) ==
    /\ Parsing
    /\ ~Inner.stats
    /\ Declarable(n)
    /\ Count("procedure") < MaxProcs
    /\ Len(open) <= MaxDepth
    /\ LET ns == SetToSeq(Locals(decs))
       IN  /\ ft' = PutAll(PushFrame(ft, n), ns, Len(heap))
           /\ heap' = heap \o UntypedSymbols(ns, decs, pc + 1)
    /\ Parsed(Heading("procedure", n, Here, decs, result))
    /\ open' = Entered(pc + 1, 0, Main)
    /\ UNCHANGED phase

(* parse_procedureForward: a heading like that of a procedure, whose       *)
(* parameters are declared nowhere.                                        *)
ParseForward(n, decs, result) ==
    /\ Parsing
    /\ ~Inner.stats
    /\ Distinct => Fresh(n)
    /\ Count("forward") < MaxForwards
    /\ Parsed(Heading("forward", n, Here, decs, result))
    /\ ft' = Put(ft, n, Len(heap) + 1)
    /\ heap' = Append(heap, Symbol("fwd", Here, n))
    /\ UNCHANGED << phase, open >>

ParseBegin ==
    /\ Parsing
    /\ ~Inner.stats
    /\ Parsed(Item("begin", NoName, Here))
    /\ open' = InStatements
    /\ UNCHANGED << phase, ft, heap >>

ParseStatement(op) ==
    /\ Parsing
    /\ Inner.stats
    /\ op \in Statements
    /\ Count("use") + Count("call") + Count("return") < MaxStatements
    /\ UNCHANGED << phase, open, heap >>

(* parse_factor looks the identifier up, to see whether it is a call *)
ParseUse(n) ==
    /\ ParseStatement("use")
    /\ Found(ft, n) => SymbolOf(ft, n).kind # "fwd"
    /\ ft' = MarkFree(ft, n)
    /\ Parsed(Item("use", n, Here))

ParseCall(n, arg) ==
    /\ ParseStatement("call")
    /\ Parsed([Item("call", n, Here) EXCEPT !.arg = arg])
    /\ ft' = IF arg = NoName THEN ft ELSE MarkFree(ft, arg)

ParseReturn(result) ==
    /\ ParseStatement("return")
    /\ Parsed([Item("return", NoName, Here) EXCEPT !.result = result])
    /\ UNCHANGED ft

(* parse_procedure from END: the name is put into the outer frame *)
ParseEndProcedure ==
    /\ Parsing
    /\ Inner.stats
    /\ ~InModule
    /\ Parsed(Item("end", prog[Here].name, Here))
    /\ ft' = Put(PopFrame(ft), prog[Here].name, Len(heap) + 1)
    /\ heap' = Append(heap, Symbol("fwd", prog[Here].block, prog[Here].name))
    /\ open' = Left
    /\ UNCHANGED phase

(* parse_module from END; the inspector starts *)
ParseEndModule ==
    /\ Parsing
    /\ Inner.stats
    /\ InModule
    /\ prog' = Append(prog, Item("end", NoName, Here))
    /\ phase' = "inspect"
    /\ pc' = 1
    /\ open' = OnlyModule
    /\ UNCHANGED << ft, heap >>

(* Calls have arguments only if there are parameters. *)
Arguments == {NoName} \cup (IF Kinds \cap {"value", "VAR"} = {} THEN {} ELSE Vars)

Parser ==
    \/ \E n \in Range(ProcNames), decs \in DecsOf(Kinds), result \in Results :
          ParseProcedure(n, decs, result)
    \/ \E n \in Range(ProcNames), decs \in DecsOf(Kinds \cap {"value", "VAR"}),
          result \in Results : ParseForward(n, decs, result)
    \/ ParseBegin
    \/ \E n \in Vars : ParseUse(n)
    \/ \E n \in Range(ProcNames), arg \in Arguments : ParseCall(n, arg)
    \/ \E result \in BOOLEAN : ParseReturn(result)
    \/ ParseEndProcedure
    \/ ParseEndModule

-----------------------------------------------------------------------------
(* The inspector.                                                          *)

At(op) == prog[pc].op = op
Name   == prog[pc].name

Inspecting(op) == /\ phase = "inspect"
                  /\ At(op)
                  /\ UNCHANGED << prog, code >>

Onward == pc' = pc + 1 /\ UNCHANGED phase

TypedSymbols(ns, global) ==
    [k \in DOMAIN ns |-> [Symbol(prog[pc].decs[ns[k]], pc, ns[k]) EXCEPT !.global = global]]

(* visit(ASTModule) up to its procedures *)
InspectModule ==
    /\ Inspecting("module")
    /\ LET ns == SetToSeq(DOMAIN prog[pc].decs)
       IN  /\ ft' = PutAll(ft, ns, Len(heap))
           /\ heap' = heap \o TypedSymbols(ns, TRUE)
    /\ Onward
    /\ UNCHANGED << open, last_proc, errors, refs >>

(* do_proc: a name may be declared again only when it was a forward *)
AlreadyDefined(n) == Found(ft, n) /\ SymbolOf(ft, n).kind # "fwd"

(* visit(ASTProcedure) up to the procedures it contains *)
InspectProcedure ==
    /\ Inspecting("procedure")
    /\ errors' = (errors \/ AlreadyDefined(Name))
    /\ LET ns == SetToSeq(DOMAIN prog[pc].decs)
           declared == Put(MarkFree(ft, Name), Name, Len(heap) + 1)
       IN  /\ ft' = PutAll(PushFrame(declared, Name), ns, Len(heap) + 1)
           /\ heap' = Append(heap, ProcSymbol("proc", pc)) \o TypedSymbols(ns, FALSE)
    /\ last_proc' = pc
    /\ open' = Entered(pc, Len(heap) + 1, Main)
    /\ Onward
    /\ UNCHANGED refs

(* visit(ASTProcedureForward): no heading is compared with another. *)
InspectForward ==
    /\ Inspecting("forward")
    /\ errors' = (errors \/ AlreadyDefined(Name))
    /\ ft' = Put(MarkFree(ft, Name), Name, Len(heap) + 1)
    /\ heap' = Append(heap, ProcSymbol("fwd", pc))
    /\ Onward
    /\ UNCHANGED << open, last_proc, refs >>

InspectBegin ==
    /\ Inspecting("begin")
    /\ last_proc' = IF InModule THEN 0 ELSE last_proc
    /\ ft' = IF InModule THEN ft ELSE ResetFree(ft)
    /\ Onward
    /\ UNCHANGED << open, heap, errors, refs >>

Ref(t, n) == [at |-> pc, name |-> n, block |-> SymbolOf(t, n).block]

(* visit(ASTIdentifier) *)
InspectUse ==
    /\ Inspecting("use")
    /\ errors' = (errors \/ ~Found(ft, Name))
    /\ refs' = refs \cup (IF Found(ft, Name) THEN {Ref(ft, Name)} ELSE {})
    /\ ft' = MarkFree(ft, Name)
    /\ Onward
    /\ UNCHANGED << open, heap, last_proc >>

(* visit(ASTCall): undefined, not a procedure, or a wrong number of        *)
(* arguments; a bound procedure needs a selector, which a call has not.    *)
BadCall ==
    \/ ~Found(ft, Name)
    \/ ~IsProcedure(SymbolOf(ft, Name))
    \/ Len(SymbolOf(ft, Name).params) # IF prog[pc].arg = NoName THEN 0 ELSE 1

FaultyBadArgument == ~Found(ft, prog[pc].arg)

(* ... an undefined argument, or a constant for a VAR parameter *)
BadArgument ==
    LET arg == prog[pc].arg IN
    \/ ~Found(ft, arg)
    \/ SymbolOf(ft, Name).params[1] = "VAR" /\ SymbolOf(ft, arg).kind = "const"

InspectCall ==
    /\ Inspecting("call")
    /\ IF BadCall
         THEN /\ errors' = TRUE
              /\ ft' = MarkFree(ft, Name)
              /\ UNCHANGED refs
         ELSE IF prog[pc].arg = NoName
         THEN /\ ft' = MarkFree(ft, Name)
              /\ refs' = refs \cup {Ref(ft, Name)}
              /\ UNCHANGED errors
         ELSE /\ ft' = MarkFree(MarkFree(ft, Name), prog[pc].arg)
              /\ errors' = (errors \/ BadArgument)
              /\ refs' = refs \cup {Ref(ft, Name)} \cup
                   IF Found(ft, prog[pc].arg) THEN {Ref(ft, prog[pc].arg)} ELSE {}
    /\ Onward
    /\ UNCHANGED << open, heap, last_proc >>

(* visit(ASTReturn) *)
InspectReturn ==
    /\ Inspecting("return")
    /\ errors' = (errors \/ (last_proc # 0 /\ prog[last_proc].result # prog[pc].result))
    /\ Onward
    /\ UNCHANGED << open, ft, heap, last_proc, refs >>

ClosureArg == "$closure"

(* No identifier is spelled like these. *)
ASSUME NamesAssumption ==
    {Root, NoName, ClosureArg} \cap (Vars \cup Range(ProcNames)) = {}

(* visit(ASTProcedure) after the statements: the free variables that are   *)
(* not global become the closure.                                          *)
InspectEndProcedure ==
    /\ Inspecting("end")
    /\ ~InModule
    /\ LET caps == {n \in FreeVariables(ft) \ {prog[Here].name} :
                      ~SymbolOf(ft, n).global /\ SymbolOf(ft, n).kind # "const"}
           closed == [heap EXCEPT ![Inner.sym].caps = caps]
       IN  IF caps = {}
             THEN ft' = PopFrame(ft) /\ UNCHANGED heap
             ELSE /\ ft' = PopFrame(Put(ft, ClosureArg, Len(heap) + 1))
                  /\ heap' = Append(closed, Symbol("closure", Here, ClosureArg))
    /\ open' = Left
    /\ Onward
    /\ UNCHANGED << last_proc, errors, refs >>

(* The driver goes on to the code generator when there are no errors. *)
InspectEndModule ==
    /\ Inspecting("end")
    /\ InModule
    /\ phase' = IF errors THEN "failed" ELSE "generate"
    /\ pc' = 1
    /\ open' = OnlyModule
    /\ UNCHANGED << ft, heap, last_proc, errors, refs >>

Inspector ==
    \/ InspectModule \/ InspectProcedure \/ InspectForward \/ InspectBegin
    \/ InspectUse \/ InspectCall \/ InspectReturn
    \/ InspectEndProcedure \/ InspectEndModule

-----------------------------------------------------------------------------
(* The code generator.                                                     *)

Generating(op) == /\ phase = "generate"
                  /\ At(op)
                  /\ UNCHANGED << prog, last_proc, errors, refs >>

Emit(field, x) == code' = [code EXCEPT ![field] = @ \cup {x}]

(* visit(ASTModule): doTopDecs *)
GenerateModule ==
    /\ Generating("module")
    /\ LET global(n) == Value("global", pc, n, Main)
       IN  heap' = WithValues(ft, DOMAIN prog[pc].decs, global)
    /\ Onward
    /\ UNCHANGED << open, ft, code >>

(* The symbol that a free variable gets inside the procedure *)
FaultyCaptured(n, fn) == \* the storage of the outer function
    [Symbol("var", pc, n) EXCEPT !.value = SymbolOf(ft, n).value]

Captured(n, fn) ==
    [Symbol("var", pc, n) EXCEPT !.value = Value("captured", pc, n, fn)]

(* build_procedure_proto *)
ProcType(s) == FunctionType(s.caps # {}, Len(s.params))

(* create_procedure_function takes the function that exists under the      *)
(* name, which is that of a forward declaration.                           *)
Buildable ==
    LET fn   == NestedName(Name)
        type == ProcType(SymbolOf(ft, Name))
    IN  WithFunction(fn, type)[fn] = type

(* visit(ASTProcedure) up to the procedures it contains.  The variables of *)
(* the closure shadow those of the outer procedures.                       *)
GenerateProcedure ==
    /\ Generating("procedure")
    /\ Buildable
    /\ LET sym  == Lookup(ft, Name)
           fn   == NestedName(Name)
           t    == PushFrame(MarkFree(ft, Name), Name)
           caps == SetToSeq(heap[sym].caps)
           alloca(n) == Value("alloca", pc, n, fn)
       IN  /\ ft' = PutAll(t, caps, Len(heap))
           /\ heap' = WithValues(t, DOMAIN prog[pc].decs, alloca)
                        \o [k \in DOMAIN caps |-> Captured(caps[k], fn)]
           /\ code' = [code EXCEPT !.funcs = WithFunction(fn, ProcType(heap[sym])),
                                   !.bodies = @ \cup {[fn |-> fn, item |-> pc]}]
           /\ open' = Entered(pc, sym, fn)
    /\ Onward

FaultyForwardName(n) == << n, ".1" >> \* a name of its own in any case

(* gen_module_id of the name alone; LLVM renames a second function *)
ForwardName(n) == IF << n >> \in DOMAIN code.funcs THEN << n, ".1" >> ELSE << n >>

(* visit(ASTProcedureForward): a function is made without a body, of the   *)
(* type of the symbol, which is that of the procedure if it has a heading  *)
(* in this scope.                                                          *)
GenerateForward ==
    /\ Generating("forward")
    /\ LET fn == ForwardName(Name)
           value(n) == Function(fn)
           type == FunctionType(FALSE, Len(SymbolOf(ft, Name).params))
       IN  /\ code' = [code EXCEPT !.funcs = WithFunction(fn, type)]
           /\ heap' = WithValues(ft, {Name}, value)
    /\ ft' = MarkFree(ft, Name)
    /\ Onward
    /\ UNCHANGED open

FaultyGenerateBegin ==
    /\ Generating("begin")
    /\ Onward
    /\ UNCHANGED << open, code, heap, ft >>

(* After the nested procedures, before the statements: "for recursion". *)
GenerateBegin ==
    /\ Generating("begin")
    /\ IF InModule
         THEN UNCHANGED << heap, ft >>
         ELSE LET value(n) == Function(Inner.fn)
              IN  /\ heap' = WithValues(ft, {prog[Here].name}, value)
                  /\ ft' = MarkFree(ft, prog[Here].name)
    /\ Onward
    /\ UNCHANGED << open, code >>

FaultyAccess(t, n) ==
    [at |-> pc, name |-> n, value |-> SymbolOf(t, n).value, load |-> FALSE]

(* How an identifier is addressed: the value of its symbol, which is       *)
(* loaded first when the symbol is that of a VAR parameter.                *)
Access(t, n) ==
    [at |-> pc, name |-> n, value |-> SymbolOf(t, n).value,
     load |-> SymbolOf(t, n).kind = "VAR"]

GenerateUse ==
    /\ Generating("use")
    /\ Emit("accesses", Access(ft, Name))
    /\ ft' = MarkFree(ft, Name)
    /\ Onward
    /\ UNCHANGED << open, heap >>

(* visit(ASTCall): the callee has to be a function, and each free variable *)
(* of it to be found and to have a value, or a null pointer is used.       *)
Callable ==
    LET callee == SymbolOf(ft, Name)
    IN  /\ callee.value.what = "function"
        /\ \A n \in callee.caps : Found(ft, n) /\ SymbolOf(ft, n).value # Null

(* The closure is filled from the symbols that the names of the free       *)
(* variables have at the call.                                             *)
GenerateCall ==
    /\ Generating("call")
    /\ Callable
    /\ LET callee == SymbolOf(ft, Name)
           arg    == prog[pc].arg
           passed == [n \in callee.caps |-> SymbolOf(ft, n).value]
       IN  code' = [code EXCEPT
               !.accesses = @ \cup (IF arg = NoName THEN {} ELSE {Access(ft, arg)}),
               !.calls = @ \cup {[at |-> pc, fn |-> callee.value.fn, passed |-> passed]}]
    /\ ft' = MarkFree(ft, Name)
    /\ Onward
    /\ UNCHANGED << open, heap >>

(* The type of function that a call is for *)
CallType ==
    FunctionType(SymbolOf(ft, Name).caps # {}, IF prog[pc].arg = NoName THEN 0 ELSE 1)

(* The generator does not get further: a procedure takes the function of a *)
(* forward declaration with other parameters, so that it reads arguments   *)
(* or parameters that are not there; a call uses a null pointer; or LLVM   *)
(* fails an assertion, because the function takes other arguments (a build *)
(* of LLVM without assertions makes the call: GenerateCall).               *)
Abort ==
    /\ \/ Generating("procedure") /\ ~Buildable
       \/ Generating("call") /\ ~Callable
       \/ /\ Generating("call") /\ Callable
          /\ code.funcs[SymbolOf(ft, Name).value.fn] # CallType
    /\ phase' = "aborted"
    /\ UNCHANGED << pc, open, ft, heap, code >>

GenerateReturn ==
    /\ Generating("return")
    /\ Onward
    /\ UNCHANGED << open, ft, heap, code >>

(* visit(ASTProcedure) after the statements; the name is set once more in  *)
(* the outer scope.                                                        *)
GenerateEndProcedure ==
    /\ Generating("end")
    /\ ~InModule
    /\ LET value(n) == Function(Inner.fn)
       IN  heap' = WithValues(PopFrame(ft), {prog[Here].name}, value)
    /\ ft' = MarkFree(PopFrame(ft), prog[Here].name)
    /\ open' = Left
    /\ Onward
    /\ UNCHANGED code

GenerateEndModule ==
    /\ Generating("end")
    /\ InModule
    /\ phase' = "done"
    /\ UNCHANGED << pc, open, ft, heap, code >>

Generator ==
    \/ GenerateModule \/ GenerateProcedure \/ GenerateForward \/ GenerateBegin
    \/ GenerateUse \/ GenerateCall \/ GenerateReturn
    \/ GenerateEndProcedure \/ GenerateEndModule \/ Abort

Next == Parser \/ Inspector \/ Generator

Spec == Init /\ [][Next]_vars
=============================================================================
