----------------------------- MODULE ControlGen -----------------------------
(***************************************************************************)
(* Code for conditions, loops and jumps: the code_gen of blocks and        *)
(* statements and CCondExpr::traverse (sysy/c_gen_e.cpp:159-321, 571-622), *)
(* which hand labels to each other through four global variables, and the  *)
(* Eeyore code they generate, run line by line next to the SysY function   *)
(* (SysYFlow).  Assignments and calls are one line here, and so are the    *)
(* expressions of conditions, whose value is left open.                    *)
(***************************************************************************)
EXTENDS SysYFlow, FiniteSetsExt

CONSTANT Bodies     \* the bodies of functions considered

ASSUME BodyAssumption == \A tree \in Bodies : IsBody(tree)

VARIABLES
    ast,        \* the body of the SysY function
    code,       \* codes_ of the function
    pc,         \* the line of code to run next, 0 after the return
    flag,       \* the value of the expression evaluated last
    todo        \* what the SysY function has still to do

vars == <<ast, code, pc, flag, todo>>

-----------------------------------------------------------------------------
Label(l)     == [op |-> "label", to |-> l]
Goto(l)      == [op |-> "goto", to |-> l]
IfZero(l)    == [op |-> "ifz", to |-> l]
IfNonzero(l) == [op |-> "ifnz", to |-> l]

\* The globals: label_cnt, fall_label, while_start_label, while_next_label.
LabelState == [count : Nat, fall : Nat, start : Nat, next : Nat]
Globals == [count |-> 0, fall |-> 0, start |-> 0, next |-> 0]

NewLabels(g, n) == [g EXCEPT !.count = @ + n]

Generated(lines, g) == [code |-> lines, g |-> g]

\* Mutants that the run must tell from the definition that follows each of
\* them.
RestoredButStart(g, old) == [old EXCEPT !.count = g.count, !.start = g.start]
PlacedAlways(isFresh, l) == <<Label(l)>>
LoopStartingLate(start, test, loop, lines, next) ==
    test \o <<Label(loop)>> \o lines \o <<Label(start), Goto(start), Label(next)>>
BodyAsWritten(body) == body

\* The old labels come back at the end of a statement; the count goes on.
Restored(g, old) == [old EXCEPT !.count = g.count]

Placed(isFresh, l) == IF isFresh THEN <<Label(l)>> ELSE << >>

\* A leaf jumps to the label that control does not fall to.
Branch(trueLabel, falseLabel, g) ==
    IF falseLabel # g.fall THEN <<IfZero(falseLabel)>>
    ELSE IF trueLabel # g.fall THEN <<IfNonzero(trueLabel)>> ELSE << >>

\* traverse() of a condition, given what it does for the parts of it.
Arguments == [trueLabel : Nat, falseLabel : Nat, g : LabelState]
With(trueLabel, falseLabel, g) == [trueLabel |-> trueLabel, falseLabel |-> falseLabel, g |-> g]

TraverseNode(traverse, cond, trueLabel, falseLabel, g) ==
    LET isAnd == cond.op = "land"
        isFresh == g.fall = IF isAnd THEN falseLabel ELSE trueLabel
        target == IF isFresh THEN g.count ELSE IF isAnd THEN falseLabel ELSE trueLabel
        before == IF isFresh THEN NewLabels(g, 1) ELSE g
        lhs == IF isAnd THEN traverse[cond.lhs][With(g.fall, target, before)]
                        ELSE traverse[cond.lhs][With(target, g.fall, before)]
        rhs == traverse[cond.rhs][With(trueLabel, falseLabel, lhs.g)]
    IN  IF cond.op = "leaf"
          THEN Generated(<<cond>> \o Branch(trueLabel, falseLabel, g), g)
          ELSE Generated(lhs.code \o rhs.code \o Placed(isFresh, target), rhs.g)

Traverse(tree) ==
    LET traverse[c \in Conditions(tree)] ==
            [a \in Arguments |-> TraverseNode(traverse, tree[c], a.trueLabel, a.falseLabel, a.g)]
    IN  traverse

IfCode(test, ifLines, elseLabel) == test \o ifLines \o <<Label(elseLabel)>>

IfElseCode(test, ifLabel, ifLines, nextLabel, elseLabel, elseLines) ==
    test \o <<Label(ifLabel)>> \o ifLines \o <<Goto(nextLabel), Label(elseLabel)>>
         \o elseLines \o <<Label(nextLabel)>>

LoopCode(start, test, loop, lines, next) ==
    <<Label(start)>> \o test \o <<Label(loop)>> \o lines \o <<Goto(start), Label(next)>>

\* code_gen of a statement, given what it does for the parts of it.  The
\* labels of a condition are chosen, and it is traversed, after the
\* statements that depend on it have generated their code.
GenItems(gen, s, g) ==
    LET front == gen[s.front][g]
        item == gen[s.item][front.g]
    IN  Generated(front.code \o item.code, item.g)

GenIf(tree, gen, s, g) ==
    LET fall == g.count
        then == gen[s.then][[NewLabels(g, 1) EXCEPT !.fall = fall]]
        else == gen[s.else][then.g]
        elseLabel == else.g.count
        hasElse == tree[s.else].op # "none"
        ifLabel == IF hasElse THEN elseLabel + 1 ELSE fall
        test == Traverse(tree)[s.cond][
                    With(ifLabel, elseLabel, NewLabels(else.g, IF hasElse THEN 2 ELSE 1))]
    IN  IF hasElse
          THEN Generated(IfElseCode(test.code, ifLabel, then.code, test.g.count,
                                    elseLabel, else.code),
                         Restored(NewLabels(test.g, 1), g))
          ELSE Generated(IfCode(test.code, then.code, elseLabel), Restored(test.g, g))

GenWhile(tree, gen, s, g) ==
    LET inner == [count |-> g.count + 3, start |-> g.count,
                  next |-> g.count + 1, fall |-> g.count + 2]
        loop == gen[s.body][inner]
        test == Traverse(tree)[s.cond][With(inner.fall, inner.next, loop.g)]
    IN  Generated(LoopCode(inner.start, test.code, inner.fall, loop.code, inner.next),
                  Restored(test.g, g))

GenNode(tree, gen, s, g) ==
    CASE s.op \in {"simple", "return"} -> Generated(<<s>>, g)
      [] s.op = "break"    -> Generated(<<Goto(g.next)>>, g)
      [] s.op = "continue" -> Generated(<<Goto(g.start)>>, g)
      [] s.op \in {"empty", "none"} -> Generated(<< >>, g)
      [] s.op = "items"    -> GenItems(gen, s, g)
      [] s.op = "if"       -> GenIf(tree, gen, s, g)
      [] s.op = "while"    -> GenWhile(tree, gen, s, g)

CodeGen(tree) ==
    LET gen[s \in Statements(tree)] == [g \in LabelState |-> GenNode(tree, gen, tree[s], g)]
    IN  gen

\* CFuncDef::code_gen adds a man-made return.
EndsWithReturn(body) ==
    Root(body).op = "items" /\ body[Root(body).item].op = "return"

WithReturn(body) ==
    IF EndsWithReturn(body) THEN body
    ELSE body \o <<EndOfBody, [op |-> "items", front |-> Len(body), item |-> Len(body) + 1]>>

Init ==
    /\ ast \in Bodies
    /\ todo = <<Root(ast), EndOfBody>>
    /\ code = << >>
    /\ pc = 1
    /\ flag = FALSE

\* CFuncDef::code_gen; declarations, which go before the code, are left out.
Compile ==
    /\ code = << >>
    /\ code' = LET body == WithReturn(ast) IN CodeGen(body)[Len(body)][Globals].code
    /\ UNCHANGED <<ast, pc, flag, todo>>

-----------------------------------------------------------------------------
\* The SysY function: nothing happens that anyone can tell.
Unfold ==
    /\ code # << >>
    /\ ~Settled(todo)
    /\ todo' = Rewritten(ast, todo)
    /\ UNCHANGED <<ast, code, pc, flag>>

\* The Eeyore machine, next to it.
Line == code[pc]
\* Where a label is; after the end of the code if it is nowhere.
Position(l) == Min({i \in DOMAIN code : code[i] = Label(l)} \cup {Len(code) + 1})

Running(ops) == Settled(todo) /\ pc \in DOMAIN code /\ Line.op \in ops

PassLabel ==
    /\ Running({"label"})
    /\ pc' = pc + 1
    /\ UNCHANGED <<ast, code, flag, todo>>

Jump ==
    /\ Running({"goto"})
    /\ pc' = Position(Line.to)
    /\ UNCHANGED <<ast, code, flag, todo>>

JumpIf ==
    /\ Running({"ifz", "ifnz"})
    /\ pc' = IF flag = (Line.op = "ifnz") THEN Position(Line.to) ELSE pc + 1
    /\ UNCHANGED <<ast, code, flag, todo>>

\* The leaf may have any value each time it is evaluated.
Evaluate(b) ==
    /\ Running({"leaf"})
    /\ flag' = b
    /\ pc' = pc + 1
    /\ todo' = After(todo, b)
    /\ UNCHANGED <<ast, code>>

Perform ==
    /\ Running({"simple"})
    /\ pc' = pc + 1
    /\ todo' = After(todo, FALSE)
    /\ UNCHANGED <<ast, code, flag>>

Return ==
    /\ Running({"return"})
    /\ pc' = 0
    /\ UNCHANGED <<ast, code, flag, todo>>

Execute ==
    \/ Unfold
    \/ PassLabel \/ Jump \/ JumpIf \/ (\E b \in BOOLEAN : Evaluate(b)) \/ Perform \/ Return

Next == Compile \/ Execute

Spec == Init /\ [][Next]_vars /\ WF_vars(Execute)

-----------------------------------------------------------------------------
\* The machine is at a line of the code, or has returned: it never runs off
\* the end of the function, nor to a label that is nowhere.
TypeOK ==
    /\ code # << >> => pc \in 0 .. Len(code)
    /\ flag \in BOOLEAN
    /\ \A i \in DOMAIN code :
        code[i].op \in {"label", "goto", "ifz", "ifnz", "leaf", "simple", "return"}

Observable == Running({"leaf", "simple", "return"})

\* The code does what the source says, in that order: which expression of a
\* condition is evaluated next (and, by short circuit, which is not), which
\* branch is taken, where a break or a continue of nested loops leads.
AgreesWithSource ==
    Observable => Line = Observation(todo)

\* The statement that a jump to line i finds: labels go to the statement
\* that follows them.
StatementAt(i) == Min({j \in i .. Len(code) : code[j].op # "label"} \cup {Len(code) + 1})

\* The lines that control may pass to, and those it ever comes to if it
\* never goes up.
LeadsTo(i) ==
    CASE code[i].op = "goto"           -> {Position(code[i].to)}
      [] code[i].op \in {"ifz", "ifnz"} -> {Position(code[i].to), i + 1}
      [] code[i].op = "return"         -> {}
      [] OTHER                         -> {i + 1}

ReachedGoingDown ==
    LET reached[n \in 0 .. Len(code)] ==
            IF n = 0 THEN {}
            ELSE LET before == reached[n - 1]
                 IN  IF n = 1 \/ \E i \in before : n \in LeadsTo(i) THEN before \cup {n} ELSE before
    IN  reached[Len(code)]

\* What the Eeyore parser, FlowGraph and Backend rely on: a label is defined
\* once and stands before a statement, no statement jumps to itself, the last
\* statement is a return, and what jumps up adds no line to those reached
\* without it.
FitsFlowGraph ==
    (code # << >> /\ pc = 1) =>
    /\ code[Len(code)].op = "return"
    /\ LET reached == ReachedGoingDown
       IN  \A i \in reached : LeadsTo(i) \subseteq reached
    /\ \A i \in DOMAIN code :
        LET line == code[i] IN
        /\ line.op = "label" => \A j \in DOMAIN code : code[j] = line => j = i
        /\ line.op \in {"goto", "ifz", "ifnz"} =>
            /\ Position(line.to) \in DOMAIN code
            /\ StatementAt(Position(line.to)) # i

\* The labels that the compiler adds never form a loop of their own: the
\* code always comes to a line that does something, or has returned.
KeepsMoving == code # << >> ~> (Observable \/ pc = 0)

=============================================================================
