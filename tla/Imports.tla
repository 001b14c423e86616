------------------------------- MODULE Imports ------------------------------
(***************************************************************************)
(* Separate compilation.  A compilation reads the definition files of the  *)
(* modules its text imports (importer.cc, defparser.cc), inspects the      *)
(* text, writes the definition file of its own module (defprinter.cc) and  *)
(* generates code.  Compilations run side by side, as the tests of         *)
(* xtest/lang/import do, and share nothing but the files: what one reads   *)
(* may be the part of a file that another has written so far.              *)
(*                                                                         *)
(* A text has imports (a sequence of alias and module), declarations and   *)
(* uses of names.  The coded identifier of a name x is << None, x >>, and  *)
(* that of A.x is << "A", x >>: a plain identifier A_x is the same.        *)
(***************************************************************************)
EXTENDS Integers, Sequences, FiniteSets, Functions, SequencesExt

CONSTANTS
    Compilers,       \* processes
    Texts,           \* Texts[m]: the texts that module m may have
    MaxCompilations  \* compilations begun

Modules == DOMAIN Texts

ASSUME BoundsAssumption == MaxCompilations \in Nat /\ IsFiniteSet(Compilers)

None == "none"

(* What the parser makes texts of; no name is empty. *)
IsList(s) == s \in Seq(Range(s))
IsText(text) ==
    /\ IsList(text.imports) /\ IsList(text.decs) /\ IsList(text.uses)
    /\ \A i \in Range(text.imports) : "" \notin {i[1], i[2]} /\ i[2] # None
    /\ \A d \in Range(text.decs) : d.kind \in {"const", "type", "var", "proc"} /\ d.id # ""
    /\ \A u \in Range(text.uses) : u.how \in {"read", "assign", "length", "call"}
ASSUME TextsAssumption == \A m \in Modules : m \notin {None, ""} /\ \A text \in Texts[m] : IsText(text)

(* A declaration: its kind, name, export mark, and the name that it is     *)
(* made of, a constant or a type, or NoName.                               *)
Name(qual, id) == [qual |-> qual, id |-> id]
NoName == Name(None, None)
Declaration(kind, id, mark, of) == [kind |-> kind, id |-> id, mark |-> mark, of |-> of]
Use(how, qual, id) == [how |-> how, qual |-> qual, id |-> id]

(* The definition of a text: what visit(ASTModule), (ASTConst),            *)
(* (ASTTypeDec) and (ASTVar) of the DefPrinter print, a line at a time.    *)
End  == Declaration("END", None, None, NoName)
Hole == Declaration("hole", None, None, NoName)  \* where a file was not written
Exported(d) == d.mark = "*" \/ (d.mark = "-" /\ d.kind \in {"type", "var"})
Printed(lines, d) == IF Exported(d) THEN Append(lines, d) ELSE lines
Definition(text) == Append(FoldLeft(Printed, << >>, text.decs), End)

(* DefParser::parse_module takes what stands before the first END, and     *)
(* throws at the end of the text and at characters that are no token.      *)
LineOfEnd(lines) ==
    CHOOSE n \in 1 .. Len(lines) + 1 :
      /\ n \in DOMAIN lines => lines[n] = End
      /\ \A i \in 1 .. n - 1 : lines[i] # End
Parsed(lines) == SubSeq(lines, 1, LineOfEnd(lines) - 1)
NoHole(lines) == \A i \in 1 .. LineOfEnd(lines) - 1 : lines[i] # Hole
FaultyReadable(lines) == lines # << >> /\ NoHole(lines) \* the end need not be there
Readable(lines) == LineOfEnd(lines) \in DOMAIN lines /\ NoHole(lines)

-----------------------------------------------------------------------------
(* An inspector: its symbol table, the type names of the compilation,      *)
(* is_qualid, whether an error was added, and whether one was thrown.      *)
Symbol(kind, type) == [kind |-> kind, type |-> type]
Inspector(symbols, types) ==
    [symbols |-> symbols, types |-> types, is_qualid |-> FALSE, errors |-> FALSE, thrown |-> FALSE, used |-> {}]
NoSymbols == << >>
Plain(id) == << None, id >>
PutSymbol(in, key, symbol) == [in EXCEPT !.symbols = [k \in {key} \union DOMAIN @ |-> IF k = key THEN symbol ELSE @[k]]]
InTable(in, key) == key \in DOMAIN in.symbols
KindOf(in, key) == IF InTable(in, key) THEN in.symbols[key].kind ELSE None

(* get_Qualident: the alias becomes the module, and is replaced by it in   *)
(* the syntax tree; what is not the name of a module gives an empty name.  *)
ModuleOf(in, qual) == IF KindOf(in, Plain(qual)) = "module" THEN in.symbols[Plain(qual)].type ELSE None
Qualident(in, qual, id) ==
    IF qual = None THEN id
    ELSE IF ModuleOf(in, qual) # None THEN << ModuleOf(in, qual), id[2] >> ELSE Plain("")

(* visit(ASTQualident) and visit(ASTIdentifier): a name without a          *)
(* qualifier that is not found is an error unless is_qualid is set, or it  *)
(* is the name of a type.                                                  *)
FaultyUndefined(in, qual, key) == ~InTable(in, key) /\ qual = None /\ ~in.is_qualid /\ key[2] \notin in.types
Undefined(in, qual, key) ==
    ~InTable(in, key) /\ (qual = None => ~in.is_qualid /\ key[2] \notin in.types)
VisitName(in, qual, id) ==
    [in EXCEPT !.is_qualid = @ \/ qual # None,
               !.errors = @ \/ Undefined(in, qual, Qualident(in, qual, id))]

(* visit(ASTType): the qualifier is not looked at. *)
BasicTypes == {None, "INTEGER"}
VisitType(in, of) == [in EXCEPT !.thrown = @ \/ of.id \notin in.types \union BasicTypes]

(* One declaration.  A symbol has the type and global_var or cnst, not the *)
(* attributes of its identifier.                                           *)
VisitConst(in, d) ==
    LET named == IF d.of = NoName THEN in ELSE VisitName(in, d.of.qual, Plain(d.of.id))
        isConst == \* a name that is not found leaves is_const as it was
          d.of = NoName \/ KindOf(in, Qualident(in, d.of.qual, Plain(d.of.id))) \in {"const", None}
    IN  PutSymbol([named EXCEPT !.errors = @ \/ ~isConst \/ d.mark = "-"], Plain(d.id), Symbol("const", "INTEGER"))
VisitTypeDec(in, d) ==
    IF d.id \in in.types THEN [in EXCEPT !.errors = TRUE]
    ELSE [VisitType(in, d.of) EXCEPT !.types = @ \union {d.id}]
VisitVar(in, d) ==
    PutSymbol(VisitType(in, d.of), Plain(d.id), Symbol("var", IF d.of.id = None THEN "INTEGER" ELSE d.of.id))
VisitProcedure(in, d) ==
    PutSymbol([VisitType(in, d.of) EXCEPT !.errors = @ \/ d.mark = "-"], Plain(d.id), Symbol("proc", None))
VisitDeclaration(in, d) ==
    CASE in.thrown -> in
      [] ~in.thrown /\ d.kind = "const" -> VisitConst(in, d)
      [] ~in.thrown /\ d.kind = "type" -> VisitTypeDec(in, d)
      [] ~in.thrown /\ d.kind = "var" -> VisitVar(in, d)
      [] ~in.thrown /\ d.kind = "proc" -> VisitProcedure(in, d)
Declared(in, decs) == FoldLeft(VisitDeclaration, in, decs)

(* A use of a name in a statement, or as the length of an array, where it  *)
(* is looked up twice, and the second time by the name of the module.      *)
VisitUse(in, u) ==
    LET key     == Qualident(in, u.qual, u.id)
        named   == VisitName(in, u.qual, u.id)
        written == IF u.qual = None THEN u.id ELSE << u.qual, u.id[2] >>
        again   == IF u.qual = None THEN u.id ELSE Qualident(in, ModuleOf(in, u.qual), u.id)
    IN  CASE u.how = "read" -> named
          [] u.how = "assign" -> \* looked up as it is written, then visited
               IF KindOf(in, written) = "const" THEN [in EXCEPT !.errors = TRUE]
               ELSE [named EXCEPT !.errors = @ \/ KindOf(in, key) \in {"proc", "module"}]
          [] u.how = "length" -> [named EXCEPT !.errors = @ \/ KindOf(in, key) # "const" \/ KindOf(in, again) # "const"]
          [] u.how = "call" -> [in EXCEPT !.errors = @ \/ KindOf(in, key) # "proc",
                                          !.used = IF KindOf(in, key) = "proc" THEN @ \union {key} ELSE @]

-----------------------------------------------------------------------------
VARIABLES
    files,    \* the lines of the definition file of each module that has one
    phase,    \* of each compiler
    job,      \* what each compiler works on, see Job
    begun     \* compilations begun

vars == << files, phase, job, begun >>

(* pos counts the imports, uses or lines done; cache is that of the        *)
(* importer; read is the definition behind each entry of the cache;        *)
(* globals are the imported names that the generator has declared.         *)
Job(m, text, in) ==
    [module |-> m, text |-> text, in |-> in, pos |-> 0, cache |-> << >>, read |-> << >>, globals |-> {}]
NoText == [imports |-> << >>, decs |-> << >>, uses |-> << >>]
NoJob  == Job(None, NoText, Inspector(NoSymbols, {}))

Running(c) == phase[c] \in {"import", "inspect", "write", "generate"}

Init ==
    /\ files = << >>
    /\ phase = [c \in Compilers |-> "idle"]
    /\ job = [c \in Compilers |-> NoJob]
    /\ begun = 0

(* The parser: the module, the aliases and the names declared are put into *)
(* the symbol table; the last of two under one name stays.                 *)
SymbolsOf(m, text) ==
    LET declared == {d.id : d \in {x \in Range(text.decs) : x.kind # "type"}}
        under(n) == {k \in DOMAIN text.imports : text.imports[k][1] = n}
        names == {m} \union {i[1] : i \in Range(text.imports)} \union declared
    IN  [k \in {Plain(n) : n \in names} |->
           IF k[2] \in declared THEN Symbol("parsed", None)
           ELSE Symbol("module", IF under(k[2]) = {} THEN m ELSE text.imports[Max(under(k[2]))][2])]

(* The text of a module does not change while it is compiled. *)
Begin(c, m, text) ==
    /\ ~Running(c) /\ begun < MaxCompilations
    /\ \A d \in Compilers : Running(d) /\ job[d].module = m => job[d].text = text
    /\ phase' = [phase EXCEPT ![c] = "import"]
    /\ job' = [job EXCEPT ![c] = Job(m, text, Inspector(SymbolsOf(m, text), {}))]
    /\ begun' = begun + 1
    /\ UNCHANGED files

Goto(c, p, j) ==
    /\ phase' = [phase EXCEPT ![c] = p]
    /\ job' = [job EXCEPT ![c] = j]
    /\ UNCHANGED begun
FaultyStop(c, p) == UNCHANGED << phase, job, begun >> \* reports and tries again
Stop(c, p) == Goto(c, p, [job[c] EXCEPT !.globals = {}])

(* read_module: the definition is parsed and inspected with tables of its  *)
(* own, but the types and the errors are those of the compilation.         *)
ReadModule(in, lines) == Declared(Inspector(NoSymbols, in.types), Parsed(lines))

(* transfer_symbols *)
Transferred(in, r, symbols) ==
    LET keys == {<< r, k[2] >> : k \in DOMAIN symbols}
    IN  [in EXCEPT !.symbols = [k \in keys \union DOMAIN @ |-> IF k \in keys THEN symbols[Plain(k[2])] ELSE @[k]]]

FaultyRemember(cache, r, x) == cache \* what was read is not kept
Remember(cache, r, x) == [k \in {r} \union DOMAIN cache |-> IF k = r THEN x ELSE cache[k]]

(* find_module: the symbols of module r from the cache, or else from the   *)
(* file; thrown says that there is no such file, or that it cannot be read.*)
NotFound == [Inspector(NoSymbols, {}) EXCEPT !.thrown = TRUE]
Cached(c, r) == r \in DOMAIN job[c].cache
Find(c, r) ==
    CASE Cached(c, r) -> [job[c].in EXCEPT !.symbols = job[c].cache[r]]
      [] ~Cached(c, r) /\ r \in DOMAIN files /\ Readable(files[r]) -> ReadModule(job[c].in, files[r])
      [] OTHER -> NotFound
Kept(c, r, found) ==
    IF Cached(c, r) THEN job[c]
    ELSE [job[c] EXCEPT !.cache = Remember(@, r, found.symbols), !.read = Remember(@, r, Parsed(files[r]))]

(* visit(ASTImport) of the inspector *)
TakenIn(in, r, found) ==
    Transferred([in EXCEPT !.types = found.types, !.errors = @ \/ found.errors], r, found.symbols)
Importing(c, p) == phase[c] = p /\ job[c].pos < Len(job[c].text.imports)
NextModule(c) == job[c].text.imports[job[c].pos + 1][2]
Import(c) ==
    /\ Importing(c, "import")
    /\ \E r \in {NextModule(c)} : \E found \in {Find(c, r)} :
         IF found.thrown THEN Stop(c, "missing")
         ELSE Goto(c, "import", [Kept(c, r, found) EXCEPT !.in = TakenIn(@, r, found), !.pos = @ + 1])
    /\ UNCHANGED files

(* Declarations, then the uses one by one; the driver stops after errors,  *)
(* and else opens the definition file, which empties it.                   *)
InspectDeclarations(c) ==
    /\ phase[c] = "import" /\ job[c].pos = Len(job[c].text.imports)
    /\ \E in \in {Declared(job[c].in, job[c].text.decs)} :
           IF in.thrown THEN Stop(c, "rejected")
           ELSE Goto(c, "inspect", [job[c] EXCEPT !.in = in, !.pos = 0])
    /\ UNCHANGED files
InspectUse(c) ==
    /\ phase[c] = "inspect" /\ job[c].pos < Len(job[c].text.uses)
    /\ \E in \in {VisitUse(job[c].in, job[c].text.uses[job[c].pos + 1])} :
         Goto(c, "inspect", [job[c] EXCEPT !.in = in, !.pos = @ + 1])
    /\ UNCHANGED files
EndInspection(c) ==
    /\ phase[c] = "inspect" /\ job[c].pos = Len(job[c].text.uses)
    /\ IF job[c].in.errors
         THEN Stop(c, "rejected") /\ UNCHANGED files
         ELSE /\ Goto(c, "write", [job[c] EXCEPT !.pos = 0])
              /\ files' = [m \in {job[c].module} \union DOMAIN files |->
                             IF m = job[c].module THEN << >> ELSE files[m]]

(* output_defs, at the position that this compiler has reached *)
FaultyWritten(lines, i, line) == Append(lines, line) \* at the end, wherever that is
Written(lines, i, line) ==
    [k \in 1 .. (IF i > Len(lines) THEN i ELSE Len(lines)) |->
       IF k = i THEN line ELSE IF k <= Len(lines) THEN lines[k] ELSE Hole]
WriteLine(c) ==
    /\ phase[c] = "write" /\ job[c].pos < Len(Definition(job[c].text))
    /\ LET i == job[c].pos + 1
       IN  files' = [files EXCEPT ![job[c].module] = Written(@, i, Definition(job[c].text)[i])]
    /\ Goto(c, "write", [job[c] EXCEPT !.pos = @ + 1])
EndDefinition(c) ==
    /\ phase[c] = "write" /\ job[c].pos = Len(Definition(job[c].text))
    /\ Goto(c, "generate", [job[c] EXCEPT !.pos = 0])
    /\ UNCHANGED files

(* visit(ASTImport) of the generator: variables, constants and the         *)
(* procedures that are used become external globals; a symbol of another   *)
(* type, as that of a variable of a named type, fails an assertion, and so *)
(* does a module that is not found.                                        *)
Generatable(symbol) == symbol.kind \in {"const", "proc"} \/ symbol.type = "INTEGER"
Globals(in, r, symbols) ==
    {k \in {<< r, n[2] >> : n \in DOMAIN symbols} : symbols[Plain(k[2])].kind # "proc" \/ k \in in.used}
GenerateImport(c) ==
    /\ Importing(c, "generate")
    /\ \E r \in {NextModule(c)} : \E found \in {Find(c, r)} :
         IF ~found.thrown /\ \A k \in DOMAIN found.symbols : Generatable(found.symbols[k])
           THEN Goto(c, "generate", [Kept(c, r, found) EXCEPT !.pos = @ + 1,
                                       !.globals = @ \union Globals(job[c].in, r, found.symbols)])
           ELSE Stop(c, "aborted")
    /\ UNCHANGED files

(* doTopDecs: a constant that is made of another one is not an LLVM        *)
(* constant, which throws.                                                 *)
GenerateModule(c) ==
    /\ phase[c] = "generate" /\ job[c].pos = Len(job[c].text.imports)
    /\ IF \E d \in Range(job[c].text.decs) : d.kind = "const" /\ d.of # NoName
         THEN Stop(c, "thrown") ELSE Goto(c, "done", job[c])
    /\ UNCHANGED files

(* Names with external linkage in the object code *)
FaultyExternal(text) == {d.id : d \in {x \in Range(text.decs) : x.kind \in {"const", "proc"} /\ x.mark = "*"}}
External(text) == {d.id : d \in {x \in Range(text.decs) : x.kind # "type" /\ x.mark = "*"}}

Step(c) ==
    \/ Import(c) \/ InspectDeclarations(c) \/ InspectUse(c) \/ EndInspection(c)
    \/ WriteLine(c) \/ EndDefinition(c)
    \/ GenerateImport(c) \/ GenerateModule(c)

Next == \E c \in Compilers : Step(c) \/ \E m \in Modules : \E text \in Texts[m] : Begin(c, m, text)

(* The operating system runs every compiler that can take a step. *)
Spec == Init /\ [][Next]_vars /\ \A c \in Compilers : WF_vars(Step(c))
=============================================================================
