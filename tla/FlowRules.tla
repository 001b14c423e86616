------------------------------ MODULE FlowRules -----------------------------
(***************************************************************************)
(* What ControlFlow is for: the basic blocks of a procedure do, in every   *)
(* run, what its statements say.  The meaning of the text is given by the  *)
(* order in which its items act; it is compared with the order in which    *)
(* the blocks reach the same items.                                        *)
(*                                                                         *)
(* A node << op, item >> is an action of the program: "do" for an          *)
(* assignment, a call, and the first assignment (the FOR) and the step     *)
(* (its END) of a control variable; "test" for a condition or the value of *)
(* a CASE; "ret" for a return.                                             *)
(***************************************************************************)
EXTENDS ControlFlow

Loops == {"while", "repeat", "loop", "for"}

TypeOK ==
    /\ phase \in {"parse", "generate", "done", "failed"}
    /\ phase = "generate" => pc \in DOMAIN text
    /\ at \in DOMAIN code
    /\ \A b \in DOMAIN code : \A k \in DOMAIN code[b] :
           Range(code[b][k].to) \subseteq DOMAIN code
    /\ Range(last_end) \subseteq DOMAIN code
    /\ phase = "generate" /\ (\A i \in DOMAIN text : text[i].op # "begin") =>
           Len(last_end) =
             Cardinality({k \in DOMAIN open : text[open[k].item].op \in Loops})

-----------------------------------------------------------------------------
(* The meaning of the text, once it is complete.                           *)

Complete == phase \in {"done", "failed"}

EndOf(i) == CHOOSE j \in DOMAIN text : text[j] = [op |-> "end", of |-> i]

(* The structured statements around the item p, which may be a part. *)
Surrounding(p) ==
    {i \in DOMAIN text : text[i].op \in Structured /\ i < p /\ p < EndOf(i)}

LoopsAround(p) == {i \in Surrounding(p) : text[i].op \in Loops}

Clauses(i) == Parts(i, {"elsif", "else", "end"})
Arms(i)    == Parts(i, {"value", "range"})

(* The node that acts when control arrives at p, if one does. *)
Acts(p) ==
    LET op == text[p].op
        of == text[p].of
    IN  CASE op \in {"stmt", "for"}                -> << "do", p >>
          [] op \in {"if", "while", "case"}        -> << "test", p >>
          [] op = "return"                         -> << "ret", p >>
          [] op = "end" /\ of = 0                  -> << "ret", p >>
          [] op = "end" /\ text[of].op = "for"     -> << "do", p >>
          [] op = "end" /\ text[of].op = "repeat"  -> << "test", of >>
          [] OTHER                                 -> << >>

(* Where control goes from an item that does nothing itself. *)
Passes(p) ==
    LET op == text[p].op
        of == text[p].of
    IN  CASE op = "exit" -> EndOf(Max(LoopsAround(p))) + 1
          [] op \in {"elsif", "else", "value", "range"} -> EndOf(of) + 1
          [] op = "end" /\ text[of].op = "while" -> of
          [] op = "end" /\ text[of].op = "loop"  -> of + 1
          [] OTHER -> p + 1

Endless == << "endless", 0 >>       \* a loop in which nothing acts
Aborted == << "abort", 0 >>         \* the end of the program by an error

Arrive(p) ==
    LET A[n \in 0 .. 2 * Len(text)] ==
          IF n = 0 THEN p
          ELSE LET q == A[n - 1] IN IF Acts(q) # << >> THEN q ELSE Passes(q)
        q == A[2 * Len(text)]
    IN  IF Acts(q) # << >> THEN Acts(q) ELSE Endless

(* The outcomes of a node: 1 for true and 2 for false, or the number of    *)
(* the label that the value of a CASE has, 0 for none.                     *)
Outcomes(node) ==
    CASE node[1] = "do"   -> {1}
      [] node[1] = "test" -> IF text[node[2]].op = "case"
                               THEN 0 .. Len(Arms(node[2])) ELSE {1, 2}
      [] OTHER -> {}

(* After the IF or ELSIF at i is false. *)
Otherwise(i) ==
    LET head == IF text[i].op = "if" THEN i ELSE text[i].of
        next == CHOOSE j \in Range(Clauses(head)) :
                    j > i /\ \A m \in Range(Clauses(head)) : m <= i \/ j <= m
    IN  IF text[next].op = "elsif" THEN << "test", next >> ELSE Arrive(next + 1)

Chosen(i, k) ==
    IF k > 0 THEN Arrive(Arms(i)[k] + 1)
    ELSE IF Parts(i, {"else"}) # << >> THEN Arrive(Parts(i, {"else"})[1] + 1)
    ELSE Aborted

TextNext(node, k) ==
    LET i  == node[2]
        op == text[i].op
    IN  CASE node[1] = "do" /\ op = "stmt" -> Arrive(i + 1)
          [] node[1] = "do" /\ op = "for"  -> << "test", i >>
          [] node[1] = "do" /\ op = "end"  -> << "test", text[i].of >>
          [] op = "case" -> Chosen(i, k)
          [] op \in {"if", "elsif"} ->
               IF k = 1 THEN Arrive(i + 1) ELSE Otherwise(i)
          [] op \in {"while", "for"} ->
               Arrive(IF k = 1 THEN i + 1 ELSE EndOf(i) + 1)
          [] op = "repeat" ->
               Arrive(IF k = 1 THEN EndOf(i) + 1 ELSE i + 1)

-----------------------------------------------------------------------------
(* The meaning of the blocks.  The first terminator of a block counts; a   *)
(* block that runs out of instructions is "stuck".                         *)

Silent == {"br", "range"}

Reach(b, x, k) ==
    LET Here(l) == IF l[2] \in DOMAIN code[l[1]] THEN code[l[1]][l[2]]
                   ELSE Instr("stuck", 0, << >>)
        To(i)   == i.to[IF i.op = "range" /\ i.item # k THEN 2 ELSE 1]
        L[n \in 0 .. 2 * Len(code)] ==
          IF n = 0 THEN << b, x >>
          ELSE LET l == L[n - 1]
               IN  IF Here(l).op \in Silent THEN << To(Here(l)), 1 >> ELSE l
        last == Here(L[2 * Len(code)])
    IN  CASE last.op \in Silent -> Endless
          [] last.op = "switch" -> << "test", last.item >>
          [] OTHER -> << last.op, last.item >>

Places(node) ==
    {l \in UNION {{b} \X DOMAIN code[b] : b \in DOMAIN code} :
        LET instr == code[l[1]][l[2]]
        IN  /\ instr.item = node[2]
            /\ \/ instr.op = node[1]
               \/ instr.op = "switch" /\ node[1] = "test"}

(* There is one place for each node that the text reaches, see FlowsAsText. *)
CodeNext(node, k) ==
    LET l     == CHOOSE l \in Places(node) : TRUE
        instr == code[l[1]][l[2]]
    IN  CASE instr.op = "do"     -> Reach(l[1], l[2] + 1, 0)
          [] instr.op = "switch" -> Reach(instr.to[k + 1], 1, k)
          [] OTHER               -> Reach(instr.to[k], 1, 0)

-----------------------------------------------------------------------------
(* Two statements of the code differ from those of the text: the test of a *)
(* FOR comes after its statements, also the first time, and a CASE without *)
(* ELSE goes on behind its END when no label has the value.                *)
ForStart(node) == node[1] = "do" /\ text[node[2]].op = "for"

Unmatched(node, k) ==
    /\ node[1] = "test" /\ text[node[2]].op = "case" /\ k = 0
    /\ Parts(node[2], {"else"}) = << >>

Follows(node, k) ==
    IF ForStart(node) THEN Arrive(node[2] + 1)
    ELSE IF Unmatched(node, k) THEN Arrive(EndOf(node[2]) + 1)
    ELSE TextNext(node, k)

(* Nodes that a run can reach. *)
Reached ==
    LET R[n \in 0 .. Len(text)] ==
          IF n = 0 THEN {Arrive(1)}
          ELSE LET S == R[n - 1]
               IN  S \cup UNION {{TextNext(node, k) : k \in Outcomes(node)}
                                 \cup {Follows(node, k) : k \in Outcomes(node)} :
                                    node \in S}
    IN  R[Len(text)] \ {Endless, Aborted}

FlowsAsText ==
    /\ Reach(1, 1, 0) = Arrive(1)
    /\ \A node \in Reached :
          /\ Cardinality(Places(node)) = 1
          /\ \A k \in Outcomes(node) : CodeNext(node, k) = Follows(node, k)

(* An EXIT with a BEGIN between it and the start of its loop: the generator *)
(* branches to the end of the BEGIN ... END.                                *)
Misled(p) ==
    /\ text[p].op = "exit"
    /\ \E i \in DOMAIN text :
          text[i].op = "begin" /\ i < p /\ \A m \in LoopsAround(p) : m < i

(* A label whose statements begin, but for simple ones, with a structured  *)
(* statement other than CASE: the generator omits the branch at its end.   *)
Unended(j) ==
    LET inner == {p \in j + 1 .. EndOf(text[j].of) :
                    text[p].op \in Structured \/ text[p].of = text[j].of}
    IN  /\ text[j].op \in {"value", "range"}
        /\ text[Min(inner)].op \in Structured \ {"case"}

ExitsGuided == \A p \in DOMAIN text : ~Misled(p)
ArmsEnded   == \A j \in DOMAIN text : ~Unended(j)
ExitsInLoop == \A p \in DOMAIN text : text[p].op = "exit" => LoopsAround(p) # {}

(* The blocks of a procedure do what its statements say: each reached      *)
(* action is followed, for each outcome, by the action that follows it in  *)
(* the text.  No block that control reaches lacks a terminator, EXIT goes  *)
(* behind the innermost loop, ELSIF clauses and labels are tried in turn.  *)
(* Left out are the texts of ExitsFlow and ArmsFlow below; the first round *)
(* of FOR and the CASE without ELSE are as in Follows.                     *)
FlowRight == phase = "done" /\ ExitsGuided /\ ArmsEnded => FlowsAsText

(* The generator stops at an EXIT exactly when no loop is around it.       *)
ExitChecked ==
    Complete /\ (\A i \in DOMAIN text : text[i].op # "begin") =>
      LET loose == {i \in DOMAIN text : text[i].op = "exit" /\ LoopsAround(i) = {}}
      IN  IF phase = "failed" THEN pc \in loose ELSE loose = {}

-----------------------------------------------------------------------------
(* What the report says, and the blocks do not do.                         *)

(* An EXIT leaves the loop around it, also with a BEGIN ... END inside     *)
(* that loop.  visit(ASTBlock) pushes last_end a second time.              *)
ExitsFlow == phase = "done" /\ ArmsEnded /\ ExitsInLoop => FlowsAsText

(* What follows a CASE is executed after the statements of each label,     *)
(* also when these contain an IF or a loop.  visit(ASTCase) looks at the   *)
(* block in which they begin.                                              *)
ArmsFlow == phase = "done" /\ ExitsGuided => FlowsAsText

(* The statements of a FOR are not executed when the control variable is   *)
(* behind its end from the start, as in the WHILE the report writes for it.*)
ForTestsFirst ==
    phase = "done" => \A node \in Reached :
        ForStart(node) => CodeNext(node, 1) = TextNext(node, 1)

(* A CASE without ELSE aborts the program when no label has the value.     *)
UnmatchedAborts ==
    phase = "done" => \A node \in Reached : \A k \in Outcomes(node) :
        Unmatched(node, k) => CodeNext(node, k) = TextNext(node, k)
=============================================================================
