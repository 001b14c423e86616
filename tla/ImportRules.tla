----------------------------- MODULE ImportRules ----------------------------
(***************************************************************************)
(* What separate compilation promises.                                     *)
(***************************************************************************)
EXTENDS Imports

(* A table of symbols in the cache has its definition in read; qualified   *)
(* names in the inspector's table are of modules that are in the cache;    *)
(* and only a generator has declared names.                                *)
TypeOK ==
    /\ \A m \in DOMAIN files : m \in Modules /\ files[m] \in Seq({Hole} \union UNION {Range(Definition(t)) : t \in Texts[m]})
    /\ \A c \in Compilers :
         /\ DOMAIN job[c].read = DOMAIN job[c].cache
         /\ \A k \in DOMAIN job[c].in.symbols : k[1] = None \/ k[1] \in DOMAIN job[c].cache
         /\ job[c].globals # {} => phase[c] \in {"generate", "done"}
    /\ begun \in 0 .. MaxCompilations

-----------------------------------------------------------------------------
Defines(m, lines) == \E t \in Texts[m] : lines = Definition(t)

(* A compiler never takes in a part of a definition that another one is    *)
(* still writing, nor a mixture of two: what it has imported is the        *)
(* interface of a text of that module.                                     *)
ImportsWhole ==
    \A c \in Compilers : \A m \in DOMAIN job[c].read : Defines(m, Append(job[c].read[m], End))

(* Compilers that write the definition of one module at once do not spoil  *)
(* it: when none of them writes any more, the file is a definition.        *)
FilesWhole ==
    \A m \in DOMAIN files :
      \/ \E c \in Compilers : phase[c] = "write" /\ job[c].module = m
      \/ Defines(m, files[m])

-----------------------------------------------------------------------------
(* What a text means, given the definitions read.                          *)
Imported(c, qual) == {i[2] : i \in {x \in Range(job[c].text.imports) : x[1] = qual}}
Meant(c, qual, id) ==
    IF qual = None THEN {d \in Range(job[c].text.decs) : id = Plain(d.id)}
    ELSE UNION {{d \in Range(job[c].read[m]) : d.id = id[2]} : m \in Imported(c, qual)}

Fits(how, d) ==
    CASE how = "read" -> d.kind \in {"const", "var", "proc"}
      [] how = "assign" -> d.kind = "var"
      [] how = "call" -> d.kind = "proc"
      [] how = "length" -> d.kind = "const"
RightUse(c, u) == \E d \in Meant(c, u.qual, u.id) : Fits(u.how, d)
RightDeclaration(c, d) ==
    /\ d.mark = "-" => d.kind \in {"type", "var"}
    /\ d.of = NoName \/ \E x \in Meant(c, d.of.qual, Plain(d.of.id)) : x.kind = IF d.kind = "const" THEN "const" ELSE "type"
RightText(c) ==
    /\ \A u \in Range(job[c].text.uses) : RightUse(c, u)
    /\ \A d \in Range(job[c].text.decs) : RightDeclaration(c, d)

(* The uses that are taken although they are wrong: a name after one with  *)
(* a qualifier, the coded identifier itself, the name of a type, a         *)
(* constant that is assigned to by way of an alias, and the module's own   *)
(* name as a qualifier when it imports itself under another ...            *)
Qualified(c) == \/ \E u \in Range(job[c].text.uses) : u.qual # None
                \/ \E d \in Range(job[c].text.decs) : d.kind = "const" /\ d.of.qual # None
TakenUse(c, u) ==
    \/ u.qual = None /\ u.how \in {"read", "assign"} /\ Meant(c, None, u.id) = {} /\ Qualified(c)
    \/ u.qual = None /\ u.id \in DOMAIN job[c].in.symbols /\ u.id[1] # None
    \/ u.qual = None /\ u.how # "call" /\ u.id[2] \in job[c].in.types
    \/ u.qual = job[c].module /\ u.qual \in DOMAIN job[c].read
    \/ u.how = "assign" /\ u.qual \notin Imported(c, u.qual) /\ \E d \in Meant(c, u.qual, u.id) : d.kind = "const"
(* ... and a type of any module under the qualifier of another.            *)
TakenDeclaration(c, d) == d.kind # "const" /\ d.of.id \in job[c].in.types

(* What is refused although it is right: two types of one name in a        *)
(* compilation; a definition that mentions what it does not contain; the   *)
(* length of an array that is an aliased constant.                         *)
Origins(c) == {<< None, job[c].text.decs >>} \union {<< m, job[c].read[m] >> : m \in DOMAIN job[c].read}
TypesOf(o) == {d.id : d \in {x \in Range(o[2]) : x.kind = "type"}}
RefusedText(c) ==
    \/ \E o, p \in Origins(c) : o # p /\ TypesOf(o) \intersect TypesOf(p) # {}
    \/ \E m \in DOMAIN job[c].read : \E d \in Range(job[c].read[m]) :
         d.of # NoName /\ ~\E x \in Range(job[c].read[m]) : d.of = Name(None, x.id)
    \/ \E u \in Range(job[c].text.uses) : u.how = "length" /\ u.qual \notin Imported(c, u.qual)

(* The inspector's verdict is right for every text and whatever the other  *)
(* modules export at that moment, through aliases and modules that two     *)
(* imports share, but for the named cases.                                 *)
Accepted(c) == phase[c] \in {"write", "generate", "done", "thrown", "aborted"}
VerdictRight ==
    \A c \in Compilers :
      /\ Accepted(c) =>
           /\ \A u \in Range(job[c].text.uses) : RightUse(c, u) \/ TakenUse(c, u)
           /\ \A d \in Range(job[c].text.decs) : RightDeclaration(c, d) \/ TakenDeclaration(c, d)
      /\ phase[c] = "rejected" => ~RightText(c) \/ RefusedText(c)

(* The generator, which imports the modules again, has declared every      *)
(* qualified name when it comes to the statements, although the files may  *)
(* have changed since the inspector read them; but not a procedure that    *)
(* the text only names, as an argument of SIZE, and does not call.  The    *)
(* name of the module itself is a qualifier, for one that imports itself.  *)
Qualifies(c, m, qual) == m \in Imported(c, qual) \/ (m = qual /\ m = job[c].module)
NamesGenerated ==
    \A c \in Compilers : phase[c] = "done" =>
      \A u \in Range(job[c].text.uses) :
        u.qual # None /\ u.how # "length" =>
          \E m \in DOMAIN job[c].read :
            /\ Qualifies(c, m, u.qual)
            /\ \/ << m, u.id[2] >> \in job[c].globals
               \/ /\ u.how = "read"
                  /\ \E d \in Range(job[c].read[m]) : d.id = u.id[2] /\ d.kind = "proc"

(* What object code refers to in another module has external linkage in    *)
(* the object code of the text that the definition read is from; variables *)
(* that are exported with - have not.                                      *)
LinksResolve ==
    \A c \in Compilers : phase[c] = "done" =>
      \A k \in job[c].globals : \E t \in Texts[k[1]] :
        /\ Definition(t) = Append(job[c].read[k[1]], End)
        /\ k[2] \in External(t) \/ \E d \in Range(t.decs) : d.id = k[2] /\ d.mark = "-"

(* Every compilation ends, whatever happens to the files it reads. *)
CompilationEnds == \A c \in Compilers : Running(c) ~> ~Running(c)

(* report.tex: "Variables and record fields marked with - in their         *)
(* declaration are read-only in importing modules."                        *)
ReadOnlyImports ==
    \A c \in Compilers : Accepted(c) =>
      \A u \in Range(job[c].text.uses) :
        u.how = "assign" /\ u.qual # None => \A d \in Meant(c, u.qual, u.id) : d.mark # "-"
=============================================================================
