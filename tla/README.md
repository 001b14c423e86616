# Verification of the AX compiler

AX is a compiler for an Oberon dialect (`src/src`, about 11 000 lines of C++
that generate LLVM code). One compilation is a sequential program. What makes it
hard to get right is state that outlives the step that made it: one symbol table
that three passes share and re-enter, one stack of blocks that EXIT jumps to,
"last visited" variables in visitors, types found by structural names, tokens
given back to a lexer that was asked ahead. Compilations of different modules
run side by side (the tests in `xtest/lang/import` do) and share definition
files that are read while they are rewritten. The repository's tests run small
programs; the errors this project looks for need programs with a particular
nesting and order, which a model checker enumerates.

## The system

`main` (`cmd/axcomp.cc`) reads a file and runs, one after the other, parser,
inspector, printer of the definition file, and code generator:

| component | state it keeps | operations | what makes it correct | modelled |
|---|---|---|---|---|
| Lexer (`lexer.cc`) | cursor, one pushed-back character, stack of pushed-back tokens | `get_token`, `peek_token`, `push_token` | every symbol of the text is read once, in order, however peek and push mix | `Lexer` |
| Parser (`parser.cc`) | AST; puts names into the symbol table, and asks it whether an identifier is a call or a module | one `parse_` function per production | the same text means the same thing whatever was declared elsewhere | in the modules of its parts |
| Symbol table (`symboltable.hh`) | tables with a `next` pointer, a map from frame names to tables, a stack of open tables, free variables per table | `push_frame`, `pop_frame`, `put`, `set`, `find`, `remove`, `reset_free_variables` | a name means the declaration in the innermost open block | `SymbolTables`, `FrameTable` |
| Inspector (`inspector.cc`) | `last_type`, `last_proc`, `is_const`, `is_lvalue`, `is_qualid`, `pointer_types`; symbols with types | one `visit` per AST node | errors are reported exactly for wrong programs; closures are exact | `Procedures`, `Types`, `Designators`, `Expressions`, `Imports` |
| Type table, types (`typetable.cc`, `types/`) | map of type names, aliases, operator rules | `resolve`, `check`, `equiv` | a name leads to the type declared; equivalence ends | `Types`, `Designators`, `Expressions` |
| Importer (`importer.cc`) | cache of the symbol tables of modules | `find_module`, `read_module`, `transfer_symbols` | a compilation sees one whole definition of each module, however often it asks | `Imports` |
| Definition files (`defprinter.cc`, `defparser.cc`) | files, shared by all compilations | writing, parsing | a file that nobody writes is a definition | `Imports` |
| Code generator (`codegen.cc`) | LLVM module, insertion point, `last_value`, `last_end`, `nested_procs`, `do_strchar_conv`, `value` fields of symbols | one `visit` per AST node | code reaches the declaration the scope rules name; blocks follow the statements; values have the types of their destinations | `Procedures`, `ControlFlow`, `Designators`, `Expressions`, `Imports` |
| Builtins, printers, errors, runtime | little or none | | | no |

Calls go downward only (driver, then passes; inspector and code generator to the
importer, which runs a lexer, a parser and an inspector of its own; all of them
to the symbol table). The passes communicate through the AST, the symbol table
and the error list. If the error list is not empty after the inspector the
driver stops; parser and code generator stop with an exception. Compilations
communicate through definition files only.

## The modules

* `SymbolTables` — the frame table as operators over one record: tables, map,
  stack, current table. `find` is a mutator here, because it records free
  variables on its way (`MarkFree`), and that is what the closures are made of.
* `LexicalScope` — the abstract specification: block structure. A path of open
  blocks, a set of declarations per block; a name denotes the innermost
  declaration on the path.
* `FrameTable` — `FrameTable<T>` as a state machine, one action per member
  function. Its client pushes a frame only inside the frame of the enclosing
  procedure, as the three passes do. `ImplementsLexicalScope` is the refinement
  to `LexicalScope`; the mapping names the tables on the stack.
* `Procedures` — the three passes over programs with nested procedures. The
  parser's actions build the program, so TLC enumerates all programs in the
  bounds; the inspector's and the code generator's actions then walk it. `ft`
  and `heap` (the `Symbol` objects, shared by pointer) live through all three.
  One action per handler; a handler that calls nested handlers is split where
  they are called (`InspectProcedure`, `InspectBegin`, `InspectEndProcedure`
  are the parts of `visit(ASTProcedure)`), with `open` as the C++ call stack.
  A forward declaration has a heading of its own, which may differ from that of
  the procedure. `Abort` is where the generator cannot go on: a callee that is
  no function, a captured name without a value, a function of a forward
  declaration whose type does not fit.
  `ProcedureScopes` holds its properties: a reference of the scope rules, read
  off the text, against what the passes did.
* `ControlFlow` — statements: `parse_statement` and the `visit` functions of
  all statements, with basic blocks, insertion point and `last_end`. Split in
  the same way: `GenerateWhile` and `GenerateEndWhile` are the halves of
  `visit(ASTWhile)`. `FlowRules` holds its properties: the order in which the
  items of the text act, against the order in which the blocks reach them.
* `TokenStream` — the abstract specification of a lexer: a client takes the
  symbols of a sequence from the front, a few at a time.
* `Lexer` — `LexerUTF8` with its scanners as operators from position to
  position, and three clients of the token stack: `get_token`, `peek_token` and
  `parse_qualident`, which gives two tokens back. Tokens scanned and tokens kept
  are recorded. `LexerRules` says what the symbols of a text are, by the grammar
  instead of by scanning, and that `Lexer` implements `TokenStream` over them.
* `Types` — the type table, the heap of type objects, and the inspector's visits
  of type and variable declarations. Each action declares one type or variable,
  or ends a VAR section. `Designators` — as functions of that state: what the
  inspector makes of a designator, the address that `get_index` computes for it
  in terms of `getelementptr`, and `Type_::equiv`. `TypeRules` compares both
  with a reading of the declarations from their text alone.
* `Expressions` — an expression from left to right, one factor or operator an
  action: parser, inspector and code generator visit the operands in the same
  order, so the three go side by side, with a frame for each open expression.
  The variables that visits leave behind (`is_const`, `is_lvalue`,
  `do_strchar_conv`) are state. An operand carries its type, what it is as an
  LLVM value, the constant that the inspector computes for it with the signed
  integers of C++ (`Evaluate`), the one that LLVM folds from the instructions of
  the generator on bit patterns (`Fold`), and what the text says of it.
  `ExprRules` holds the properties.
* `Imports` — compilers side by side on shared definition files. A compiler
  imports, inspects, writes its own definition line by line, and generates, which
  imports again. `ImportRules` holds the properties: what the texts mean, given
  the definitions that were read.
* `FrameTable_proofs`, `Procedures_proofs`, `ProcedureCode_proofs`,
  `ControlFlow_proofs`, `Lexer_proofs`, `Imports_proofs`, `Expressions_proofs` —
  the theorems. `DataLemmas` — the lemmas they share, about numbers, sequences
  and the operators of `SymbolTables`.
* `MC...` and the `.cfg` files — instances for TLC.

Definitions named `Faulty...` are variants of the definition next to them with
a mistake that is easy to make. No specification uses them; replacing the
definition by its variant must break the property that the variant is for.

## The runs

| run | checks | bounds, and why they are enough |
|---|---|---|
| `frame_table` | shape; `StaticLink`; `FramesFollowParent`; refinement of block structure | one name, two symbols, three frames, one of them nested in another. The interesting case is a frame that is left and re-entered after a sibling: two levels and a sibling suffice, a second name only multiplies states |
| `procedures` | names resolve lexically; frames nest in every pass; closures exact; storage of the own function; where the generator stops | up to three procedures nested up to three deep, one variable name that every scope may declare again, two statements. With three procedures one may call a second that captured a third before that has a function |
| `headings` | the inspector's verdict, with constants and VAR parameters; where the generator stops, what a call reaches, with a forward declaration and RETURN | up to two procedures, both functions, one name, one forward whose heading may differ, two statements: a call of the one procedure and a use of the name, at every place. All three reasons to stop occur. A procedure without result beside a function adds nothing: `RETURN` is compared with its own heading, or with that of a nested procedure, which `VerdictRight` leaves out |
| `control_flow` | the blocks do what the text says; EXIT checked | all texts of up to seven items with every statement kind, three deep: an IF with two more clauses, a CASE with two labels and ELSE, EXIT through an IF from a loop fit |
| `lexer` | no token lost or doubled; directives at their place; refinement of `TokenStream` | all texts of up to 4 to 7 characters over groups of characters that interact (numbers with points and signs; words, blanks and cut code points; nested comments; quotes), and all sequences of four pieces, among them directives. No scanner looks further than two characters ahead |
| `types` | pointers bound; declarations legal; designators typed and addressed; equivalence | three types, one variable, three field names, designators of two selectors: an extension of an extension, a pointer to a later type, an alias of an alias fit. `MaxDepth` 8 is deeper than `equiv` goes on three types without a cycle |
| `expressions` | generated values fit; the inspector's constants and those LLVM folds agree; constants are constant | three factors, two levels, a constant and an assignment; `MaxInt` = 3, integers of 3 bits (-4..3), with the literal 2, so that 2 + 2 overflows and quotients of negative numbers occur; one function with a value, one with a VAR and one without a parameter. Three factors give every pair of operators and a parenthesis or argument between them |
| `imports` | definitions are imported whole and stay whole; verdict; names declared; links; every compilation ends | two compilers, three compilations, three modules of 3, 5 and 10 texts: a definition is written and rewritten while a third compilation reads it |
| `captures`, `layout`, `var_argument`, `read_only` | one statement each of the report or of a comment, which the code violates | the smallest that show it |

Only `Imports` states fairness, and liveness: `WF_vars(Step(c))` for each
compiler. A compiler is a process that waits for nothing, so every step it can
take stays possible until it is taken, and the operating system runs every
process. Nothing is assumed about how steps of compilers interleave, and
`CompilationEnds` has to hold although others change the files. The other
specifications state no fairness: a pass is driven by recursion over a finite
text, so "it ends" is the termination of each handler. They come to an end when
the text does, and so do the compilers after `MaxCompilations`; their
configurations do not check for deadlock. `frame_table` checks it: the table can
always do something.

### What the violations show

* `captures`: closures are not transitive. `p` declares `x`, `q` in `p` contains
  `r` which uses `x`, and `q` itself does not: `q` has no `x` in its closure
  and fills that of `r` with the stack slot of `p` (`codegen.cc:530`).
* `layout`: the index of a field counts the fields of the base without those of
  the base's base (`types/type_record.cc:124`).
* `var_argument`: `a[i]`, `(x)` and `+x` are accepted as VAR arguments
  (`inspector.cc:479`). The code generator passes the address of `a` for `a[i]`
  and that of `x` for `+x`; for `(x)` it throws, since the first factor is no
  designator.
* `read_only`: the symbol of a variable does not get the read-only mark of its
  identifier, so the check in `visit(ASTAssignment)` never applies
  (`inspector.cc:139`).

### Further configurations

The properties that hold name their exceptions. For those below, the modules
state without the exception what the report or a comment says, and a
configuration beside the runs has TLC find the counterexample; `MCForwards`
passes, and is too long to be one of the runs.

| configuration | module | property | what it shows |
|---|---|---|---|
| `MCSameNames` | `MCProcedures` | `ScopesApart` | `push_frame` takes the table of the first procedure of a name, also for one in another block (`symboltable.hh:196`): a name is bound out of its scope (report.tex:207-208) |
| `MCReturns` | `MCProcedures` | `ReturnsFit` | a RETURN behind a nested procedure is compared with the heading of that one (`inspector.cc:227`, report.tex:1223) |
| `MCAgree` | `MCProcedures` | `HeadingsAgree` | the headings of a forward declaration and of the procedure are not compared (`inspector.cc:218`, report.tex:1327) |
| `MCForwards` | `MCProcedures` | `GeneratesReady`, `CallsReachBody` | both hold with three procedures, one declared forward (2 million states) |
| `MCExit` | `FlowRules` | `ExitsFlow` | an EXIT in or after a BEGIN in its loop branches to the end of the BEGIN (`codegen.cc:970`, report.tex:1238-1239) |
| `MCArms` | `FlowRules` | `ArmsFlow` | statements of a CASE label that hold an IF or a loop get no branch at their end (`codegen.cc:745`) |
| `MCFor` | `FlowRules` | `ForTestsFirst` | a FOR runs once before its first test (`codegen.cc:792`, report.tex:1176-1188) |
| `MCCase` | `FlowRules` | `UnmatchedAborts` | a value without a label goes on behind a CASE without ELSE (`codegen.cc:717`), where the program should be aborted (report.tex:1028-1029) |
| `MCIndexes` | `MCTypes` | `LegalAccepted` | `a[i][j]` is refused where `a[i, j]` is accepted (`inspector.cc:930`, report.tex:726) |
| `MCPointerIndex` | `MCTypes` | `LegalAccepted` | `p[i]` is refused where `p^[i]` is accepted (`inspector.cc:913`, report.tex:729) |
| `MCRecords` | `MCTypes` | `FieldsOwnTypes` | a field has the type that another record gives it (`inspector.cc:1188`, report.tex:728) |
| `MCQuotients` | `MCExpressions` | `QuotientsFloored` | (-2) DIV 3 is 0 (`inspector.cc:1114`, `codegen.cc:1277`), where report.tex:353-359 has quotients rounded down |
| `MCCharacters` | `MCExpressions` | `StringsAsCharacters` | a string of length 1 assigned to a CHAR is stored as its address (`codegen.cc:392`, report.tex:139) |

## Differences between the code and the language

The properties that hold name their exceptions; each is a difference that the
model shows and that a reader of the code should know.

Scopes and procedures (`ProcedureScopes`):

* Two procedures of one name share a frame (`symboltable.hh:196`), so a name
  that is out of scope is found (report.tex:208). The runs give all procedures
  different names (`Distinct`); `MCSameNames` does not.
* After a nested procedure RETURN is checked against the heading of that
  procedure (`inspector.cc:227`). `VerdictRight` speaks of a RETURN only where no
  procedure is nested; `MCReturns` shows the rest.
* A forward declaration and its procedure may have different headings
  (`MCAgree`). A call is judged by the last heading before it: that of the
  forward declaration or the procedure's own.
* A procedure that is called before any heading of it is captured like a
  variable (`inspector.cc:281`), and a call of the procedure that captured it
  stores a null pointer while it has no function (`codegen.cc:534-549`). A
  procedure that was declared forward in the module and has a closure takes the
  function of the forward declaration, which has no parameter for it
  (`codegen.cc:1822`, then `codegen.cc:307`). The generator stops there; for
  which items is `Stumbles` in `ProcedureScopes`.
* The function of a forward declaration is called with the arguments of the
  heading that the inspector saw. Where their numbers differ LLVM fails an
  assertion, and a build without assertions goes on: both are in the model.
* Constants and VAR parameters of outer procedures are not addressed correctly
  from nested ones; a nested procedure cannot call the one around it; a forward
  declaration inside a procedure is a function that never gets a body.

Statements (`FlowRules`):

* `visit(ASTBlock)` pushes `last_end` where it should pop, so an EXIT with a
  BEGIN between it and the start of its loop stays in that loop
  (`codegen.cc:970`). `FlowRight` leaves out these EXITs (`Misled`), and only
  these; `MCExit` shows them.
* The branch at the end of a CASE label is decided from the block in which its
  statements begin (`codegen.cc:745`): with an IF or a loop there it is missing.
  `FlowRight` leaves out texts with such a label (`Unended`); `MCArms` shows it.
* FOR runs its statements once before its first test (`codegen.cc:792`,
  `MCFor`), and a CASE without ELSE goes on behind its END when no label has the
  value (`codegen.cc:717`), where the report has the program aborted (`MCCase`).
  `TextNext` in `FlowRules` reads the text as the report does, and `Follows` adds
  these two: `FlowRight` shows that there are no others.
* What BEGIN leaves on `last_end` at the end of one procedure meets the EXITs of
  the next body; the model has one body.

Symbols (`Lexer`, where `strict` marks the report's grammar; with `Strict =
TRUE` in `MCLexer.cfg` the refinement fails at the first text with one of these,
and with `FALSE`, as in the run, they are part of the grammar, so that all else
is compared):

* Numbers without H or X may contain hexadecimal digits; a scale factor may
  lack its letter, its sign or its digits (`1.1+` is a REAL).
* Letters whose low byte is a token are read as that token (U+0428 as `(`,
  U+00FF as the end of the text).
* A line break is accepted among the first two characters of a string, and the
  length of a string counts its opening quote.

Types (`TypeRules`):

* The designators `p[i]` for a pointer `p` to an array, and `a[i][j]` or `a[i]`
  for an array of two dimensions, are refused (`MCPointerIndex`, `MCIndexes`).
  `Mean` in `TypeRules` reads designators as the report does, and marks these as
  `refused`.
* Records with the same base and the same field names share one entry of the
  type table whatever the types of the fields (`MCRecords`);
  enumerations that are not a whole type declaration have no name and resolve to
  nothing. All properties of designators and `EquivRight` leave out both.
* `p.f` abbreviates `p^.f` only if each pointer to the record type stands before
  the end of the declaration of that type.
* The number of indexes of strings and open arrays is not checked; an alias of
  ARRAY OF CHAR is not STRING. Pointers stay unresolved in a module without a
  VAR section.
* `get_index` follows pointers before all other selectors, and knows one index
  of a string or an open array that is a variable: other orders of selectors
  give an invalid `getelementptr`.
* `equiv` does not end for types that lead back to themselves through pointers,
  and takes any two arrays as equivalent. `EquivRight` leaves out the former
  (`SelfPointer`).

Expressions (`odd` in `ExprRules`):

* `/` of two integers is typed REAL, and no code is generated for it; `=` and
  `#` of strings give the integer of `Strings_Compare`.
* The sign of an expression is not checked; DIV and MOD round to zero
  (`MCQuotients`) and take negative divisors; constants wrap around; the smallest
  integer DIV -1 stops the compiler. `ConstantsAgree` compares with the report
  where no step on the way did one of these.
* `do_strchar_conv` is set for arguments only, so a string of length 1 that is
  assigned to a CHAR is stored as its address (`MCCharacters`), and stays set
  behind an argument, so a later string of the same expression becomes a
  character. A call and an element of an array may pass as constants, by what
  their last argument or index leaves in `is_const`; `ConstantsConstant`
  leaves out these two. A CONST of a string of one character has a type without
  rules; one that is made of a named constant is rejected in a module
  (`codegen.cc:216`). Two pointers cannot be compared, nor NIL with a pointer on
  its right, nor enumerations by order.

Modules (`ImportRules`, where `TakenUse` and `RefusedText` name the uses and
texts that `VerdictRight` leaves out):

* `is_qualid` is never reset: after a qualified identifier an undefined one is
  accepted. The coded identifier `B_v` is accepted for `B.v`, a type name as a
  value, and an assignment to a constant through an alias (`inspector.cc:327`).
* The qualifier of a type is not looked at; types of one name in two modules
  clash. A definition that mentions a private or an imported name cannot be
  imported. An aliased constant is not accepted as the length of an array.
* A variable exported with `-` has internal linkage; one of a named type fails
  an assertion of the importer's generator (`codegen.cc:167`).
* A qualified procedure that is named but not called, as in SIZE, passes the
  inspector and has no function in the generator (`codegen.cc:157`).
* In a module that imports itself under an alias, its own name qualifies too.
* The definition file is written before the code generator may fail.

## Assumptions of the models

* `BackOfEmpty`: `back()` of an empty basic block is undefined behaviour. Both
  outcomes are in the model. The runs take "not a branch": the value read lies
  in the list head, where the build finds an aligned pointer and no opcode of
  a branch or return, and nested IF statements, which depend on it, work in the
  repository's tests.
  With the other outcome a procedure without statements gets no return, and
  `FlowRight` fails.
* A block with two terminators is taken to end at the first one.
* A CASE label is one value or one range, and labels do not overlap. Which
  label a value has is nondeterministic, as are conditions.
* The names of variables and the names of procedures are different; the names
  of procedures and of types are taken in order of first use (the compiler
  treats all names alike).
* In `Procedures` a call has at most one argument, a plain name, and an
  expression is a plain name. The type of a function is whether it has a
  parameter for the closure and how many others. The types of parameters are
  left out, and with them that the function of a forward declaration takes a
  value for a VAR parameter, where a call passes an address
  (`ProcedureType::get_llvm`, `types/type_procedure.cc:44-50`). In `Expressions`
  a call has at most one argument, an element one index and a set one element or
  range.
* `Expressions` takes the type of an argument before the argument is read, as
  the code generator knows it from the inspector, and compares where it ends.
* In `Lexer` the alphabet has the characters that the scanners tell apart; of
  the reserved words one stands for all, of the directives one.
* In `Types` three basic types and one alias stand for all.
* In `Imports` a line of a definition file is written at once, at the position
  that its writer has reached. The stream flushes larger pieces in the same
  order, which is coarser; a reader takes a file at once. The text of a module
  does not change while that module is compiled, and all compilers search one
  directory. Definition files have no imports, so reading one reads no other.

## The proofs

Two properties of data had to be proved before anything about the state
machines could be. `DataLemmas!SetInduction` is induction over the natural
numbers with a set in the place of a predicate; with it, what a function that is
defined by recursion computes can be proved by following its chain of values.
`Imports_proofs` does this for the two uses of `FoldLeft`: the partial results
exist (`IterExists`) and each is one application further than the last
(`StepAt`). `DataLemmas` does it for the chain of `next` pointers (`ChainTables`, `ChainIsStack`) and
for the lookup along it (`FoundInnermost`).

**`FrameTable_proofs`**: for every set of names, symbols and frames and every
nesting `Parent`, without bound on depth or number of operations, from the
three assumptions of `FrameTable` (the null pointer is no symbol, the root is no
procedure, each procedure has a parent):

* `TypeCorrect`: `Spec => []TypeOK`. Its part "`next` is older" is what makes
  every lookup end.
* `StaticScoping`: `Spec => []StaticLink`, the tables a lookup visits are the
  frames that are open.
* `FramesStay`: `Spec => []FramesFollowParent`.
* `Implementation`: `Spec => ImplementsLexicalScope`, the refinement of block
  structure.

`StaticLink` is not inductive. When `push_frame` re-enters a frame, the `next`
of its table was set long ago; that it is the current table now needs that the
frame map leads to one table per name whose `next` is the table of the parent
(`FramesFollowParent`) and that the client is in the parent's frame. The
inductive invariant `IInv` is the conjunction of the three. Operations on
contents are handled once for all by lemmas which say that they change no
`next`, no map and no stack. The refinement needs besides (`RInv`) that the map
gives different tables to different names and that the tables on the stack
ascend; then there is one lemma for each operation, from the tables of the chain
to the blocks of the path, and the initial states and each step are mapped
(`InitMaps`, `StepMaps`).

**`Procedures_proofs`**, **`ProcedureCode_proofs`**: for every set of names and every
bound on the program, so for programs of any length and depth, from
`ConstantsAssumption` (finitely many variables; variables and procedures have
different names) and `NamesAssumption` (no name of a program is one of those the
code generator makes up):

* `TypeCorrect`: `Spec => []TypeOK`.
* `FramesAlwaysNest`: `Spec => []FramesNest` if `Distinct`.
* `NamesBoundLexically`: `Spec => []LexicalScoping` if `Distinct`.
* `ClosuresHoldCaptures`: `Spec => []ClosureExact` if `Distinct`.
* `AccessesRight`: `Spec => []OwnAccess` if `Distinct`.
* `ClosuresSupplied`: `Spec => []ClosureSupplied` if `Distinct`.
* `CallsReach`: `Spec => []CallsReachBody` if `Distinct`.
* `VerdictsRight`: `Spec => []VerdictRight` if `Distinct`.

`Distinct` says that all procedures have different names. It is the condition
under which the code is right (see the differences above), not a convenience:
without it TLC finds nesting and binding violated. The invariant has eight
layers, the last three in `ProcedureCode_proofs`; the fourth and the fifth both
rest on the first three, the sixth on all but the fourth, the seventh on the
sixth, the eighth on the seventh:

1. `TextInv`: the text is well nested, and `open`, the handlers that have not
   returned, are the blocks around `pc`, in the parser (`Writing`) as in the
   other passes (`Walking`).
2. `FrameInv`: one frame on the stack for each of `open`, `next` pointers to
   older tables, every frame entered inside the one around it (`NestedIn`), and
   tables, heap and last values hold symbols that exist.
3. `HoldInv`: what frames hold. A block's frame has only names that the block
   declares (`Holds`), and the inspector has put all declarations of every block
   it has entered (`PutBefore`), so that from then on the frame has exactly
   these, although the parser has put names before.
4. `RefsInv`: every name bound so far was bound lexically. A step that binds
   another one finds it in the first table of the chain that has it; layers 2
   and 3 turn that table into the innermost declaring block of the text.
5. For the closures (`ClosureInv`). A lookup marks a name free in the current
   table exactly when the declaration it finds is further out, and these marks
   are taken away at BEGIN; so among the statements of a procedure the marks
   are the names used so far that are declared outside (`FreeInv`). It needs
   that the statements of a block follow all its declarations (`BodyInv`), so
   that the marks of nested procedures cannot come in between, and that the
   frames of blocks already inspected hold symbols of the kind and the level
   the text gives them (`TypedInv`): which of the marked names the inspector
   takes into a closure depends on both. Then the symbol of a procedure has no
   capture before its visit ends (`OpenSymbols`, `NoProcs`) and the right ones
   ever after (`CapsInv`).
6. For the code (`StorageInv`). What the frame of a block has for a variable
   changes once, when the generator enters the block: the variables of the block
   get their storage, and symbols of its captures are added (`GenInv`). So when
   a statement is reached, every open frame has exactly what its block declares
   or captures, with the storage of that block, and the first frame of the chain
   that has a name is the right one: one between the block and the declaration
   would be of a block that declares the name further in than it is meant
   (`HolderInside`). It needs that the heading in the text, the symbol and the
   closure found under its name are of the same procedure (`UniqueInv`,
   `ProcsInv`), that a captured name shadows no declaration of the block
   (`FreeOut`, in `CapsInv` for procedures that were left), that what is used
   resolves (`ResolvedInv`), and that a lookup of the name of a procedure never
   ends at the symbol of a variable (`PassingSet`).
7. For the calls (`ReadyInv`): what the name of a procedure stands for
   (`NamesInv`). The symbol of its headings, in the frame of the block around
   them, is a function from the forward declaration or the BEGIN of the procedure
   on, and the last of these events says which one (`NameRight`). Frames further
   in may hold the name as a captured one, which is no function. This does no
   harm: a procedure is captured only by blocks that come before all its headings
   (`GlobalInv`, `LateInv`), and while such a block is open no heading has been
   passed (`WithinInv`), so nothing is hidden. With the functions the handlers
   keep (`FnsInv`), ends after begins (`BegunInv`), captures of procedures only
   (`PlainInv`) and called names that resolve (`CallsInv`), a callee is a function
   exactly when the call is `Ready`, and its captures are found too
   (`CapturesFound`). So the calls made were `Ready`, and the functions that
   exist, their bodies and what the calls reach are those of the text
   (`FunctionsInv`). Where else the generator stops, at a captured name without
   a value or at a function of another type, is not in the invariant.
8. For the verdict (`ReportInv`): each item adds to `errors` exactly when the
   scope rules find it `Bad` (`InspectorVerdict`), where the inspector asks the
   frames and the rules the text. Names and the kinds of arguments agree by
   layers 3 and 5. A callee is found with the symbol that the parser left, without
   parameters, or with that of a heading which the inspector has passed, forward
   or actual, with the parameters of this heading (`HeadedInv`). The two may
   differ; each replaces the symbol in the same frame, so it is the last heading
   before the call that counts (`CalleeIs`), and no heading finds its name
   defined (`NeverDefined`). `last_proc` is the last procedure
   before the item, or none among the statements of the module (`LastInv`), so a
   RETURN is compared with its own heading when no procedure is nested there
   (`LastIsInner`, from `WithinInv`).

**`ControlFlow_proofs`**: for every `MaxItems` and `MaxDepth`, so for statements of any
length and depth, from `FlowAssumption` (the statements and labels of a program
are among those of the language):

* `HandlersNest`: `Spec => []TextInv`.
* `TypeCorrect`: `Spec => []TypeOK`.
* `ExitsChecked`: `Spec => []ExitChecked`.

Neither of the last two is inductive. What makes the generator stop at an EXIT is
`last_end`, a stack that the visits of loops push and pop; what the property
compares it with is the finished text. Three layers lie between:

1. `TextInv`: the text is well nested, and `open` are the statements that have
   begun and not ended before the item at hand. The parser finds them by what it
   has read, the generator by what it has visited; that both agree is where the
   proof meets the code: a visit returns at the END the parser read for it.
2. `LoopInv`: in a text without BEGIN, `last_end` has as many blocks as there are
   loops among `open`, and every EXIT that was passed has a loop around it. When
   the text is complete, the loops around an EXIT are those that were open when
   it was reached (`LoopsAgree`), which gives `ExitChecked`.
3. `CodeInv`: branches lead to blocks that exist, and so do the blocks that a
   handler keeps for later. For IF this includes counting: `visit(ASTIf)` makes
   a block for each ELSIF at once and takes them one by one, so the number of
   blocks left has to be the number of ELSIFs still to come; otherwise there is
   no block when the last one is reached. It needs that the parts of a
   statement, counted when it begins, are the parts met on the way (`PartSets`,
   `InOrderIs`).

The restriction to texts without BEGIN is that of the two properties: with a
BEGIN the code pushes `last_end` where it should pop it (see the differences
above), and neither holds. TLC checked the three layers as invariants of the run
`control_flow` first.

**`Lexer_proofs`**: `TokensInOrder`, `RulesSpec => []NoTokenLost`, for all texts
and whatever the scanners return, also where they throw. Each operation of the
token stack keeps `read = kept \o queue`; `parse_qualident` takes up to three
tokens and gives two back, so its step is followed through the four buffers it
goes through. That the stack holds at most two tokens, the first of two being a
period, is what shows that what is pushed back is what was read last.

**`Imports_proofs`**: for every number of compilers, modules and texts, from
`BoundsAssumption` and `TextsAssumption` (texts are sequences of imports,
declarations and uses as the parser makes them; no name is empty):

* `WholeImports` (`Spec => []ImportsWhole`), `WholeFiles` (`Spec =>
  []FilesWhole`).
* `TypeCorrect` (`Spec => []TypeOK`), `NamesDeclaredInTime` (`Spec =>
  []NamesGenerated`), `LinksFound` (`Spec => []LinksResolve`).

None is inductive. A file that two compilers write at once holds lines of both;
that it is whole in the end needs that a module's text does not change while it
is compiled, that each line is a line of the definition of that text or a hole,
and that every line that is missing still has a writer in front of it
(`FilesGrow`). That a reader takes in a whole definition then follows from the
reader looking for END: the line is the last of every definition
(`DefinitionPrinted`), and no hole may stand before it. The inductive invariant
of files is `IInv`. That of names is `NInv`, on top of `IInv`: the cache holds,
for each module read, the symbols that inspecting the lines read gives
(`CacheOK`); the qualified symbols of a compiler are those of its cache under
the names of modules (`SymbolsOK`); the globals are what the cache has for
the imports the generator has reached (`GlobalsOK`, `GeneratedOK`); and every
use the inspector has passed had a symbol (`UseOK`). It needs what a compiler
makes of a whole definition, a fold over its lines (`AllVisited`), with one lemma
for each visit. TLC checked both as invariants of the run first.

**`Expressions_proofs`**: for every `MaxInt`, so for integers of any width, and
for texts of any length and depth over any variables, literals and functions,
from `BoundsAssumption` and `TextAssumption` (literals are not negative and fit
an INTEGER; the types are those the language has for variables, literals,
parameters and results):

* `TypeCorrect` (`Spec => []TypeOK`), `GeneratedTypesFit` (`Spec =>
  []GeneratedFits`), `FoldersAgree` (`Spec => []ConstantsAgree`),
  `ConstantsAreConstant` (`Spec => []ConstantsConstant`).

The properties speak of the construct completed last; the invariant `Inv` of
every operand on the way, in three layers:

1. `IsSound`, of one operand: its values fit an INTEGER (`WrapRange`,
   `QuotientRange`), and where the generator has a constant, its bits are those
   of the inspector's value (`FoldIs`). The two are computed differently: one
   with signed integers that wrap round, rounding quotients to zero; the other on
   bit patterns without carry, dividing magnitudes. Patterns of numbers that
   differ by a multiple of the width are the same (`PatternShift`), which gives
   sums, differences and products; for quotients and remainders `QuotientFolded`
   goes through the four cases of signs, with the uniqueness of the quotient
   (`DivisionUnique`), and both leave out the same divisions. The value is the
   report's if no step overflowed (`FittingExact`), divided by a negative number
   or rounded a negative quotient (`QuotientsExact`); that is asked of the
   operands of each step, not of its result. And `is_const` means what it says.
   One lemma for each
   operator (`MulSound`, `AddSound`, `RelationSound`, `SignedSound`, ...) keeps it.
2. `Chain`, of the stack: frames nest as the text, only the last has its operand
   complete, and a parenthesis takes over the argument's assumed type.
3. `Fits` and `FrameFits`: the LLVM type of an operand is that of its type and
   `current`, the type `visit(ASTSimpleExpr)` tracks, is the inspector's, or a
   difference is named. This is where the two sets of rules meet (`MulFits`,
   `AddFits`, `RelationFits`).

What makes it hard is `do_strchar_conv`: in an argument for a CHAR parameter
strings become characters, so operands of the argument need not fit, and inside
it another argument may change the flag. What holds is less: an argument that
turns out to be a single string began with it, at the front of all parentheses
around it (`Leads`), so nothing had changed the flag yet (`Reading`), and its
value is a character (`ArgumentFits`). Simulations of `Inv` with all types and
operators found, before the proof, one exception that `GeneratedFits` lacked: a
value argument inside a VAR argument is inspected but never generated
(`codegen.cc:468`), and what is known of its value is nothing.

Only model-checked:

* liveness: `CompilationEnds`;
* of `Procedures`: `GeneratesReady`, which says where else the generator stops;
* of `Imports`: `VerdictRight`, which compares a whole inspection with a second
  reading of the rules;
* of `ControlFlow`: `FlowRight`, which compares all runs through the blocks with
  all runs through the text;
* everything of `Types` and `Designators`, and of the lexer `TypeOK`,
  `MainAsDirected` and the refinement of `TokenStream`. They rest on recursive
  functions over pairs and positions (scanners, types) whose existence and
  values would have to be proved first, as `Imports_proofs` does for folds.

## Not modelled, and the plan

* Bound procedures (receivers) and the type rules of statements (CASE, FOR,
  conditions): the next to add to `Procedures` and `Expressions`.
* Builtins: straight-line generation of LLVM calls; what is worth a model is
  their use of types as arguments (ANY).
* The short-circuit blocks of `&` and OR: to be composed with `ControlFlow`.
* The runtime meaning of FOR at the largest integer (`codegen.cc:816`), with the
  integers of `Expressions`.
* Theorems: the refinement of `TokenStream`.

Left out for good: formatting (printers), positions of errors, object output,
options, the runtime library.
