-------------------------- MODULE ProcedureScopes ---------------------------
(***************************************************************************)
(* What Procedures is for: the names in a program mean what the scope      *)
(* rules of the language report say, and the code that is generated        *)
(* reaches what they mean.                                                 *)
(***************************************************************************)
EXTENDS Procedures

TypeOK ==
    /\ phase \in {"parse", "inspect", "generate", "done", "failed", "aborted"}
    /\ pc \in DOMAIN prog
    /\ \A k \in DOMAIN open : open[k].item \in DOMAIN prog
    /\ Len(ft.stack) = Len(open)
    /\ ft.current = Last(ft.stack)
    /\ \A i \in DOMAIN ft.tables : Range(ft.tables[i].syms) \subseteq DOMAIN heap
    /\ last_proc \in DOMAIN prog \cup {0}
    /\ errors \in BOOLEAN
    /\ phase = "parse" => ~errors
    /\ phase \in {"generate", "done", "aborted"} => ~errors

-----------------------------------------------------------------------------
(* The scope rules of the report, read off the text.                       *)

Checked == phase \in {"generate", "done", "failed", "aborted"}

Calls == {i \in DOMAIN prog : prog[i].op = "call"}

(* The blocks around an item of block b, b among them. *)
Around(b) ==
    LET A[i \in 0 .. Len(prog)] == IF i = 0 THEN {} ELSE {i} \cup A[prog[i].block]
    IN  A[b]

HeadingsOf(n, b) ==
    {i \in DOMAIN prog : /\ prog[i].op \in {"procedure", "forward"}
                         /\ prog[i].name = n
                         /\ prog[i].block = b}

Homes(n, b) ==
    {a \in Around(b) : n \in DOMAIN prog[a].decs \/ HeadingsOf(n, a) # {}}

(* The block whose declaration of n is meant in block b. *)
Home(n, b) == Max(Homes(n, b))

KindOf(n, b) == prog[Home(n, b)].decs[n]

(* The headings that the name of the call i stands for. *)
Called(i) == HeadingsOf(prog[i].name, Home(prog[i].name, prog[i].block))

Procedure(i) == CHOOSE j \in Called(i) : prog[j].op = "procedure"

(* The names of variables in the statements of block b. *)
UsedIn(b) ==
    LET within == {i \in DOMAIN prog : prog[i].block = b}
    IN  {prog[i].name : i \in {j \in within : prog[j].op = "use"}}
          \cup ({prog[i].arg : i \in within} \ {NoName})

(* What procedure b needs from the procedures around it. *)
Captures(b) ==
    {n \in UsedIn(b) : /\ Homes(n, b) # {}
                       /\ Home(n, b) \notin {1, b}
                       /\ KindOf(n, b) # "const"}

(* The function that block b becomes, and where its code finds n. *)
FnOf(b) ==
    LET F[i \in 0 .. Len(prog)] ==
          IF i <= 1 THEN Main ELSE Append(F[prog[i].block], prog[i].name)
    IN  F[b]

StorageFor(n, b) ==
    CASE Home(n, b) = 1 -> Value("global", 1, n, Main)
      [] Home(n, b) = b /\ b # 1 -> Value("alloca", b, n, FnOf(b))
      [] Home(n, b) \notin {1, b} -> Value("captured", b, n, FnOf(b))

-----------------------------------------------------------------------------
(* Every name in a statement that the inspector finds is bound to the      *)
(* declaration in the innermost block around the statement that has one.   *)
LexicalScoping ==
    \A ref \in refs :
        LET b == prog[ref.at].block
        IN  Homes(ref.name, b) # {} /\ ref.block = Home(ref.name, b)

(* In each pass, the tables that a lookup visits are the frames of the     *)
(* open blocks: the frame of a procedure is entered only inside the one it *)
(* was created in.                                                         *)
FramesNest ==
    \A k \in 2 .. Len(ft.stack) : ft.tables[ft.stack[k]].next = ft.stack[k - 1]

(* What the inspector should report: an undefined name, a call whose       *)
(* arguments do not fit the heading that the procedure has at the call,    *)
(* that of a forward declaration or its own (a name that is only declared  *)
(* later counts as a procedure without parameters), and a constant for a   *)
(* VAR parameter.  Of headings that differ, against the report, it is the  *)
(* last before the call.                                                   *)
Unresolved(n, b) == Homes(n, b) = {}

HeadingAt(i) ==
    LET seen == {j \in Called(i) : j < i}
    IN  IF seen = {} THEN NoBindings ELSE prog[Max(seen)].decs

Misfit(i) ==
    LET ps  == Params(HeadingAt(i))
        arg == prog[i].arg
        b   == prog[i].block
    IN  \/ Cardinality(ps) # IF arg = NoName THEN 0 ELSE 1
        \/ arg # NoName /\ Unresolved(arg, b)
        \/ /\ arg # NoName /\ KindOf(arg, b) = "const"
           /\ \E n \in ps : HeadingAt(i)[n] = "VAR"

Wrong(i) ==
    CASE prog[i].op = "use"  -> Unresolved(prog[i].name, prog[i].block)
      [] prog[i].op = "call" -> \/ Unresolved(prog[i].name, prog[i].block)
                                \/ Misfit(i)
      [] OTHER -> FALSE

ReturnFits(i) == prog[i].block = 1 \/ prog[i].result = prog[prog[i].block].result

Returns == {i \in DOMAIN prog : prog[i].op = "return"}

NestsNothing(b) == \A i \in DOMAIN prog : prog[i].op = "procedure" => prog[i].block # b

(* The inspector reports an error exactly when a name does not resolve, a  *)
(* call does not fit the heading it can see, or a RETURN does not fit the  *)
(* procedure it is in: nothing that an earlier pass or another procedure   *)
(* left in the frames hides an error or causes one.  (In a procedure,      *)
(* RETURN is looked at where no procedure is nested: the rest is           *)
(* ReturnsFit.)                                                            *)
VerdictRight ==
    Checked /\ (\A i \in Returns : prog[i].block = 1 \/ NestsNothing(prog[i].block)) =>
        (errors <=> \E i \in DOMAIN prog :
                      Wrong(i) \/ (i \in Returns /\ ~ReturnFits(i)))

(* report.tex, Return: the type of the expression must be identical to the *)
(* result type in the heading of the procedure.  The inspector compares    *)
(* with the heading it visited last, and last_proc is not restored after a *)
(* nested procedure.                                                       *)
ReturnsFit == Checked /\ ~errors => \A i \in Returns : ReturnFits(i)

(* report.tex, Procedure declarations: the formal parameter lists of a     *)
(* forward declaration and of the actual declaration must be identical.    *)
HeadingsAgree ==
    Checked /\ ~errors =>
        \A i, j \in DOMAIN prog :
            prog[i].op = "forward" /\ j \in HeadingsOf(prog[i].name, prog[i].block)
              => LET p == prog[i].decs q == prog[j].decs
                 IN  Params(p) = Params(q) /\ \A n \in Params(p) : p[n] = q[n]

(* report.tex, Scope rules: only within one block does a name denote one   *)
(* object.  But procedures of different blocks with one name share a       *)
(* frame, whose next is that of the first of them.                         *)
DeclaredTwice ==
    \E i, j \in DOMAIN prog :
        /\ i < j /\ prog[j].op \in {"procedure", "forward"}
        /\ i \in HeadingsOf(prog[j].name, prog[j].block)
        /\ prog[i].op = "procedure" \/ prog[j].op = "forward"

ScopesApart == ~DeclaredTwice => LexicalScoping

(* The closure of a procedure holds the variables of outer procedures that *)
(* its own statements use, and no other variable: not those of the module, *)
(* and not those that only the procedures nested in it use.                *)
ClosureExact ==
    Checked /\ ~errors => \A s \in Range(heap) :
        s.kind = "proc" =>
          \E b \in HeadingsOf(s.name, s.block) :
              prog[b].op = "procedure" /\ s.caps \cap Vars = Captures(b)

(* The code of a procedure addresses a variable in the storage that its    *)
(* function owns (or that is global), loading first for VAR parameters.    *)
(* Constants and VAR parameters of outer procedures are the exceptions:    *)
(* no closure holds the constants, and the closure forgets that a          *)
(* parameter is VAR.                                                       *)
AccessRight(a) ==
    LET b == prog[a.at].block
    IN  /\ a.value = StorageFor(a.name, b)
        /\ a.load = (KindOf(a.name, b) = "VAR")

OwnAccess ==
    \A a \in code.accesses :
        LET b == prog[a.at].block
        IN  Home(a.name, b) \in {1, b} \/ KindOf(a.name, b) \in {"var", "value"}
              => AccessRight(a)

(* A call fills the closure with the variables that the callee captured,   *)
(* from storage of the caller's function, when the caller itself declares  *)
(* or captures them.                                                       *)
Supplied(c, n) ==
    LET b == prog[c.at].block
        q == Procedure(c.at)
    IN  /\ Home(n, b) = Home(n, q)
        /\ Home(n, b) = b \/ n \in Captures(b)

ClosureSupplied ==
    \A c \in code.calls : \A n \in DOMAIN c.passed \cap Vars :
        Supplied(c, n) => c.passed[n] = StorageFor(n, prog[c.at].block)

(* report.tex: inner procedures have access to the variables of outer      *)
(* procedures, also if they are called from a procedure that has no use    *)
(* for these variables itself.                                             *)
EveryCapture ==
    \A c \in code.calls : \A n \in DOMAIN c.passed \cap Vars :
        /\ Home(n, prog[c.at].block) = Home(n, Procedure(c.at))
        /\ c.passed[n] = StorageFor(n, prog[c.at].block)

(* The function of a procedure is there for a call after a forward         *)
(* declaration or, without one, after the begin of its statements.  A call *)
(* of the enclosing procedure by one nested in it comes before.            *)
Ready(i) ==
    \E j \in Called(i) :
        /\ j < i
        /\ \/ prog[j].op = "forward"
           \/ \E k \in j .. i : prog[k].op = "begin" /\ prog[k].block = j

(* The procedures that block b calls before any heading of theirs; they    *)
(* are captured, as if they were variables.                                *)
Unheaded(b) ==
    {prog[i].name : i \in {i \in Calls : prog[i].block = b /\ \A j \in Called(i) : i < j}}

Closure(b) == Captures(b) \cup Unheaded(b)

(* Where the generator may stop: at a call without a function, at a call   *)
(* that must store a captured procedure, which has no function yet, at one *)
(* that the function of a forward declaration does not fit (it has no      *)
(* parameter for a closure, and as many others as the procedure itself),   *)
(* and at the body of a procedure that was declared forward in the module  *)
(* and has a closure.                                                      *)
Unfit(i) ==
    \E f, j \in Called(i) :
        /\ prog[f].op = "forward" /\ prog[j].op = "procedure"
        /\ \/ Closure(j) # {}
           \/ Cardinality(Params(prog[f].decs)) # Cardinality(Params(prog[j].decs))

Stumbles(i) ==
    CASE prog[i].op = "call" ->
           ~Ready(i) \/ (\E j \in Called(i) : Unheaded(j) # {}) \/ Unfit(i)
      [] prog[i].op = "procedure" ->
           /\ Unheaded(i) # {}
           /\ \E f \in HeadingsOf(prog[i].name, 1) : prog[f].op = "forward"
      [] OTHER -> FALSE

(* A program that is accepted is generated to its end, but for the items   *)
(* at which the generator stumbles; and no program is generated that has a *)
(* call whose function is not there.                                       *)
GeneratesReady ==
    /\ phase = "aborted" => Stumbles(pc)
    /\ phase = "done" => \A i \in Calls : Ready(i)

(* A call calls the function with the code of the procedure that its name  *)
(* denotes; forward declarations inside procedures are the exception.      *)
Reaches(c) == [fn |-> c.fn, item |-> Procedure(c.at)] \in code.bodies

CallsReachBody ==
    phase = "done" => \A c \in code.calls :
        \/ \E j \in Called(c.at) : prog[j].op = "forward" /\ prog[j].block # 1
        \/ \A j \in Called(c.at) : prog[j].op = "forward"
        \/ Reaches(c)
=============================================================================
