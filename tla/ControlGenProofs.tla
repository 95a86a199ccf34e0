-------------------------- MODULE ControlGenProofs --------------------------
(***************************************************************************)
(* Proofs about ControlGen, for every function body: the code that is      *)
(* generated does what the source says, in that order, and has the shape   *)
(* that the Eeyore parser and the flow graph rely on.                      *)
(*                                                                         *)
(* The recursive functions of the compiler exist, since trees refer to     *)
(* smaller trees, and so obey their equations.  By induction over the tree *)
(* the code of a part places the labels it creates once, jumps to those    *)
(* and to the labels of the loop around it only, and goes up to the start  *)
(* of loops only.                                                          *)
(*                                                                         *)
(* For the agreement with the source, what remains to be done is laid out  *)
(* in the code: each thing in it is linked to the lines that it was        *)
(* generated as, and these lead, by labels and gotos only, to the lines of *)
(* the next.  The layout is preserved as the source unfolds, whereby the   *)
(* labels that conditions and loops pass to each other are accounted for,  *)
(* and the machine is on its way to the first line of it.                  *)
(***************************************************************************)
EXTENDS ControlGen, NaturalLemmas, SequenceTheorems

-----------------------------------------------------------------------------
(* Trees, and the types of what is generated for their nodes.              *)

IsTree(tree) ==
    /\ tree \in Seq({tree[i] : i \in DOMAIN tree})
    /\ \A i \in DOMAIN tree : IsNode(tree, i)

Lines == [op : {"label", "goto", "ifz", "ifnz"}, to : Nat]
            \cup [op : {"leaf", "simple", "return"}, id : Nat]

\* The states that generating code may lead to from g.
Later(g) == {h \in LabelState : h.count >= g.count /\ h.fall = g.fall
                                    /\ h.start = g.start /\ h.next = g.next}

Results == [code : Seq(Lines), g : LabelState]
Tests == {v \in [Arguments -> Results] :
            \A a \in Arguments : v[a].g \in Later(a.g)}
Pieces == {v \in [LabelState -> Results] : \A g \in LabelState : v[g].g \in Later(g)}

LEMMA TreeSize ==
    ASSUME NEW tree, IsTree(tree)
    PROVE  /\ Len(tree) \in Nat /\ DOMAIN tree = 1 .. Len(tree)
           /\ Conditions(tree) \in SUBSET (0 .. Len(tree))
           /\ Statements(tree) \in SUBSET (0 .. Len(tree))
           /\ Conditions(tree) \cup Statements(tree) = DOMAIN tree
<1>1. Len(tree) \in Nat /\ DOMAIN tree = 1 .. Len(tree)
  BY DEF IsTree
<1> QED BY <1>1 DEF Conditions, Statements

\* What the nodes of a tree look like.
LEMMA ConditionForms ==
    ASSUME NEW tree, IsTree(tree), NEW c \in Conditions(tree)
    PROVE  \/ tree[c].op = "leaf" /\ tree[c] \in [op : {"leaf"}, id : Nat]
           \/ /\ tree[c].op \in {"land", "lor"}
              /\ tree[c].lhs \in Conditions(tree) /\ tree[c].lhs < c
              /\ tree[c].rhs \in Conditions(tree) /\ tree[c].rhs < c
<1>1. c \in DOMAIN tree /\ tree[c].op \in {"leaf", "land", "lor"}
  BY DEF Conditions
<1>2. IsNode(tree, c)
  BY <1>1 DEF IsTree
<1> QED BY <1>1, <1>2 DEF IsNode

LEMMA StatementForms ==
    ASSUME NEW tree, IsTree(tree), NEW s \in Statements(tree)
    PROVE  \/ /\ tree[s].op \in {"simple", "return"}
              /\ tree[s] \in [op : {"simple", "return"}, id : Nat]
           \/ tree[s].op \in {"empty", "none", "break", "continue"}
           \/ /\ tree[s].op = "items"
              /\ tree[s].front \in Statements(tree) /\ tree[s].front < s
              /\ tree[s].item \in Statements(tree) /\ tree[s].item < s
           \/ /\ tree[s].op = "if"
              /\ tree[s].cond \in Conditions(tree) /\ tree[s].cond < s
              /\ tree[s].then \in Statements(tree) /\ tree[s].then < s
              /\ tree[s].else \in Statements(tree) /\ tree[s].else < s
           \/ /\ tree[s].op = "while"
              /\ tree[s].cond \in Conditions(tree) /\ tree[s].cond < s
              /\ tree[s].body \in Statements(tree) /\ tree[s].body < s
<1>1. s \in DOMAIN tree /\ tree[s].op \notin {"leaf", "land", "lor"}
  BY DEF Statements, Conditions
<1>2. IsNode(tree, s)
  BY <1>1 DEF IsTree
<1> QED BY <1>1, <1>2 DEF IsNode

-----------------------------------------------------------------------------
(* Traverse(tree) is a function with the equation that defines it.         *)

LEMMA LabelLines ==
    ASSUME NEW l \in Nat
    PROVE  /\ Label(l) \in Lines /\ Goto(l) \in Lines
           /\ IfZero(l) \in Lines /\ IfNonzero(l) \in Lines
BY DEF Lines, Label, Goto, IfZero, IfNonzero

LEMMA LaterTransitive ==
    ASSUME NEW g \in LabelState, NEW h \in Later(g), NEW k \in Later(h)
    PROVE  k \in Later(g)
BY DEF Later, LabelState

LEMMA NewLabelsLater ==
    ASSUME NEW g \in LabelState, NEW n \in Nat
    PROVE  NewLabels(g, n) \in Later(g) /\ NewLabels(g, n).count = g.count + n
BY DEF Later, LabelState, NewLabels

LEMMA WithTest ==
    ASSUME NEW v \in Tests, NEW T \in Nat, NEW F \in Nat, NEW g \in LabelState
    PROVE  /\ With(T, F, g) \in Arguments
           /\ v[With(T, F, g)] \in Results /\ v[With(T, F, g)].g \in Later(g)
<1>1. With(T, F, g) \in Arguments /\ With(T, F, g).g = g
  BY DEF With, Arguments
<1> QED BY <1>1 DEF Tests

LEMMA TraverseNodeType ==
    ASSUME NEW tree, IsTree(tree), NEW c \in Conditions(tree), NEW f,
           \A r \in Conditions(tree) : r < c => f[r] \in Tests,
           NEW T \in Nat, NEW F \in Nat, NEW g \in LabelState
    PROVE  /\ TraverseNode(f, tree[c], T, F, g) \in Results
           /\ TraverseNode(f, tree[c], T, F, g).g \in Later(g)
<1> DEFINE cond == tree[c]
<1>1. CASE cond.op = "leaf"
  <2>1. cond \in Lines
    BY <1>1, ConditionForms DEF Lines
  <2>2. Branch(T, F, g) \in Seq(Lines)
    BY LabelLines DEF Branch
  <2>3. TraverseNode(f, cond, T, F, g) = [code |-> <<cond>> \o Branch(T, F, g), g |-> g]
    BY <1>1 DEF TraverseNode, Generated
  <2>4. g \in Later(g)
    BY DEF Later, LabelState
  <2> HIDE DEF cond
  <2>5. <<cond>> \o Branch(T, F, g) \in Seq(Lines)
    BY <2>1, <2>2
  <2>6. TraverseNode(f, cond, T, F, g) \in Results
    BY <2>3, <2>5 DEF Results
  <2> QED BY <2>3, <2>4, <2>6 DEF cond
<1>2. CASE cond.op # "leaf"
  <2> DEFINE isAnd == cond.op = "land"
             isFresh == g.fall = IF isAnd THEN F ELSE T
             target == IF isFresh THEN g.count ELSE IF isAnd THEN F ELSE T
             before == IF isFresh THEN NewLabels(g, 1) ELSE g
             lhs == IF isAnd THEN f[cond.lhs][With(g.fall, target, before)]
                             ELSE f[cond.lhs][With(target, g.fall, before)]
             rhs == f[cond.rhs][With(T, F, lhs.g)]
  <2>1. f[cond.lhs] \in Tests /\ f[cond.rhs] \in Tests
    BY <1>2, ConditionForms
  <2>2. target \in Nat /\ g.fall \in Nat
    BY DEF LabelState
  <2>3. before \in LabelState /\ before \in Later(g)
    BY NewLabelsLater DEF Later, LabelState
  <2> HIDE DEF target, before
  <2>4. lhs \in Results /\ lhs.g \in Later(before)
    BY <2>1, <2>2, <2>3, WithTest
  <2> HIDE DEF lhs
  <2>5. lhs.g \in LabelState /\ lhs.code \in Seq(Lines)
    BY <2>4 DEF Results
  <2>6. rhs \in Results /\ rhs.g \in Later(lhs.g)
    BY <2>1, <2>5, WithTest
  <2> HIDE DEF rhs
  <2>7. Placed(isFresh, target) \in Seq(Lines)
    BY <2>2, LabelLines DEF Placed
  <2>8. TraverseNode(f, cond, T, F, g)
            = [code |-> lhs.code \o rhs.code \o Placed(isFresh, target), g |-> rhs.g]
    BY <1>2 DEF TraverseNode, Generated, lhs, rhs, target, before
  <2> HIDE DEF cond, isFresh, isAnd
  <2>9. rhs.code \in Seq(Lines) /\ rhs.g \in LabelState
    BY <2>6 DEF Results
  <2>10. lhs.code \o rhs.code \o Placed(isFresh, target) \in Seq(Lines)
    BY <2>5, <2>7, <2>9
  <2>11. TraverseNode(f, cond, T, F, g) \in Results
    BY <2>8, <2>9, <2>10 DEF Results
  <2>12. rhs.g \in Later(g)
    BY <2>3, <2>4, <2>6, LaterTransitive
  <2> QED BY <2>8, <2>11, <2>12 DEF cond
<1> QED BY <1>1, <1>2

\* Both recursive functions are solutions of their equations because the
\* parts of a node come before it.
TraverseEquation(tree, f) ==
    [c \in Conditions(tree) |->
        [a \in Arguments |-> TraverseNode(f, tree[c], a.trueLabel, a.falseLabel, a.g)]]

LEMMA TraverseNodeLocal ==
    ASSUME NEW tree, IsTree(tree), NEW c \in Conditions(tree), NEW f, NEW h,
           \A r \in Conditions(tree) : r < c => f[r] = h[r]
    PROVE  \A T, F, g : TraverseNode(f, tree[c], T, F, g) = TraverseNode(h, tree[c], T, F, g)
<1> SUFFICES ASSUME NEW T, NEW F, NEW g
             PROVE  TraverseNode(f, tree[c], T, F, g) = TraverseNode(h, tree[c], T, F, g)
  OBVIOUS
<1>1. CASE tree[c].op = "leaf"
  BY <1>1, Zenon DEF TraverseNode
<1>2. CASE tree[c].op # "leaf"
  <2>1. f[tree[c].lhs] = h[tree[c].lhs] /\ f[tree[c].rhs] = h[tree[c].rhs]
    BY <1>2, ConditionForms
  <2> QED BY <2>1, Zenon DEF TraverseNode
<1> QED BY <1>1, <1>2

LEMMA TraverseEquationHolds ==
    ASSUME NEW tree, IsTree(tree)
    PROVE  /\ Traverse(tree) = TraverseEquation(tree, Traverse(tree))
           /\ Traverse(tree) \in [Conditions(tree) -> Tests]
<1> DEFINE C == Conditions(tree)
           Node(f, c) == [a \in Arguments |-> TraverseNode(f, tree[c], a.trueLabel, a.falseLabel, a.g)]
           Step == [c \in C |-> [f \in [C -> Tests] |-> Node(f, c)]]
<1>1. ASSUME NEW f, NEW c \in C, \A r \in C : r < c => f[r] \in Tests
      PROVE  Node(f, c) \in Tests
  <2>1. ASSUME NEW a \in Arguments
        PROVE  /\ TraverseNode(f, tree[c], a.trueLabel, a.falseLabel, a.g) \in Results
               /\ TraverseNode(f, tree[c], a.trueLabel, a.falseLabel, a.g).g \in Later(a.g)
    BY <1>1, TraverseNodeType DEF Arguments
  <2> QED BY <2>1 DEF Tests
<1>2. \E f : f = TraverseEquation(tree, f)
  <2>1. Step \in [C -> [[C -> Tests] -> Tests]]
    <3>1. ASSUME NEW c \in C, NEW f \in [C -> Tests] PROVE Node(f, c) \in Tests
      BY <1>1
    <3> HIDE DEF Node
    <3> QED BY <3>1
  <2>2. ASSUME NEW c \in C, NEW f \in [C -> Tests], NEW h \in [C -> Tests],
               \A r \in C : r < c => f[r] = h[r]
        PROVE  Step[c][f] = Step[c][h]
    <3>1. \A a \in Arguments : TraverseNode(f, tree[c], a.trueLabel, a.falseLabel, a.g)
                                 = TraverseNode(h, tree[c], a.trueLabel, a.falseLabel, a.g)
      <4> \A T, F, k : TraverseNode(f, tree[c], T, F, k) = TraverseNode(h, tree[c], T, F, k)
        BY <2>2, TraverseNodeLocal
      <4> QED OBVIOUS
    <3>2. Node(f, c) = Node(h, c)
      BY <3>1
    <3> HIDE DEF Node
    <3> QED BY <3>2
  <2>3. Tests # {}
    <3> DEFINE v == [a \in Arguments |-> [code |-> << >>, g |-> a.g]]
    <3>1. \A a \in Arguments : a.g \in LabelState /\ a.g \in Later(a.g)
      BY DEF Arguments, Later, LabelState
    <3>2. v \in Tests
      BY <3>1 DEF Tests, Results
    <3> QED BY <3>2
  <2>4. C \in SUBSET (0 .. Len(tree)) /\ Len(tree) \in Nat
    BY TreeSize
  <2>5. PICK f \in [C -> Tests] : \A c \in C : f[c] = Step[c][f]
    <3>1. PICK v \in Tests : TRUE
      BY <2>3
    <3>2. DependsBelow(Step, C, Tests)
      <4> HIDE DEF Step, C
      <4> QED BY <2>2 DEF DependsBelow
    <3>3. HasSolution(Step, C, Tests)
      <4> HIDE DEF Step, C
      <4> QED BY <2>1, <2>4, <3>1, <3>2, RecursiveFunction, Zenon
    <3> QED BY <3>3 DEF HasSolution
  <2>6. \A c \in C : f[c] = Node(f, c)
    <3> HIDE DEF Node
    <3> QED BY <2>5
  <2>7. f = TraverseEquation(tree, f)
    <3> HIDE DEF Node
    <3>1. f = [c \in C |-> Node(f, c)]
      BY <2>6
    <3> QED BY <3>1 DEF TraverseEquation, Node
  <2> QED BY <2>7
<1>3. Traverse(tree) = TraverseEquation(tree, Traverse(tree))
  <2>1. Traverse(tree) = CHOOSE f : f = TraverseEquation(tree, f)
    BY DEF Traverse, TraverseEquation
  <2> QED BY <1>2, <2>1
<1>4. ASSUME NEW c \in C PROVE Traverse(tree)[c] = Node(Traverse(tree), c)
  BY <1>3 DEF TraverseEquation
<1>5. \A c \in C : Traverse(tree)[c] \in Tests
  <2> DEFINE Good == {c \in C : Traverse(tree)[c] \in Tests}
  <2>1. ASSUME NEW c \in C, \A r \in C : r < c => r \in Good PROVE c \in Good
    <3>1. \A r \in C : r < c => Traverse(tree)[r] \in Tests
      BY <2>1
    <3>2. Node(Traverse(tree), c) \in Tests
      BY <1>1, <3>1
    <3> QED BY <1>4, <3>2
  <2>2. C \in SUBSET Nat
    <3>1. C \in SUBSET (0 .. Len(tree)) /\ Len(tree) \in Nat
      BY TreeSize
    <3> HIDE DEF C
    <3> QED BY <3>1
  <2>3. \A c \in C : c \in Good
    <3> HIDE DEF Good, C
    <3> QED BY <2>1, <2>2, StrongInduction
  <2> QED BY <2>3
<1> QED BY <1>3, <1>5 DEF TraverseEquation

-----------------------------------------------------------------------------
(* CodeGen(tree) is one too.                                               *)

\* What a loop and an if give to their parts.
LoopLabels(g) ==
    [count |-> g.count + 3, start |-> g.count, next |-> g.count + 1, fall |-> g.count + 2]
IfLabels(g) == [NewLabels(g, 1) EXCEPT !.fall = g.count]

LEMMA PartLabels ==
    ASSUME NEW g \in LabelState
    PROVE  /\ LoopLabels(g) \in LabelState
           /\ LoopLabels(g).count = g.count + 3 /\ LoopLabels(g).fall = g.count + 2
           /\ LoopLabels(g).start = g.count /\ LoopLabels(g).next = g.count + 1
           /\ IfLabels(g) \in LabelState
           /\ IfLabels(g).count = g.count + 1 /\ IfLabels(g).fall = g.count
           /\ IfLabels(g).start = g.start /\ IfLabels(g).next = g.next
<1>1. NewLabels(g, 1) \in LabelState /\ NewLabels(g, 1) \in Later(g)
      /\ NewLabels(g, 1).count = g.count + 1 /\ g.count \in Nat
  BY NewLabelsLater DEF Later, LabelState
<1>2. /\ IfLabels(g) \in LabelState /\ IfLabels(g).fall = g.count
      /\ IfLabels(g).count = NewLabels(g, 1).count
      /\ IfLabels(g).start = NewLabels(g, 1).start /\ IfLabels(g).next = NewLabels(g, 1).next
  BY <1>1 DEF IfLabels, LabelState
<1>3. /\ LoopLabels(g) \in LabelState
      /\ LoopLabels(g).count = g.count + 3 /\ LoopLabels(g).fall = g.count + 2
      /\ LoopLabels(g).start = g.count /\ LoopLabels(g).next = g.count + 1
  BY <1>1 DEF LoopLabels, LabelState
<1> QED BY <1>1, <1>2, <1>3 DEF Later

LEMMA RestoredLater ==
    ASSUME NEW g \in LabelState, NEW h \in LabelState, h.count >= g.count
    PROVE  Restored(h, g) \in Later(g) /\ Restored(h, g).count = h.count
BY DEF Restored, Later, LabelState

LEMMA PieceTyped ==
    ASSUME NEW v \in Pieces, NEW g \in LabelState
    PROVE  /\ v[g] \in Results /\ v[g].g \in Later(g) /\ v[g].g \in LabelState
           /\ v[g].code \in Seq(Lines)
BY DEF Pieces, Results

LEMMA TestTyped ==
    ASSUME NEW v \in Tests, NEW T \in Nat, NEW F \in Nat, NEW g \in LabelState
    PROVE  /\ v[With(T, F, g)] \in Results /\ v[With(T, F, g)].g \in Later(g)
           /\ v[With(T, F, g)].g \in LabelState /\ v[With(T, F, g)].code \in Seq(Lines)
BY WithTest DEF Results

LEMMA GenItemsType ==
    ASSUME NEW gen, NEW s, NEW g \in LabelState,
           gen[s.front] \in Pieces, gen[s.item] \in Pieces
    PROVE  GenItems(gen, s, g) \in Results /\ GenItems(gen, s, g).g \in Later(g)
<1> DEFINE front == gen[s.front][g]
           item == gen[s.item][front.g]
<1>1. front.code \in Seq(Lines) /\ front.g \in Later(g) /\ front.g \in LabelState
  BY PieceTyped
<1> HIDE DEF front
<1>2. item.code \in Seq(Lines) /\ item.g \in Later(front.g) /\ item.g \in LabelState
  BY <1>1, PieceTyped
<1>3. GenItems(gen, s, g) = [code |-> front.code \o item.code, g |-> item.g]
  BY DEF GenItems, Generated, front
<1> HIDE DEF item
<1>4. item.g \in Later(g)
  BY <1>1, <1>2, LaterTransitive
<1> QED BY <1>1, <1>2, <1>3, <1>4 DEF Results

LEMMA GenIfType ==
    ASSUME NEW tree, NEW gen, NEW s, NEW g \in LabelState,
           Traverse(tree)[s.cond] \in Tests,
           gen[s.then] \in Pieces, gen[s.else] \in Pieces
    PROVE  GenIf(tree, gen, s, g) \in Results /\ GenIf(tree, gen, s, g).g \in Later(g)
<1> DEFINE then == gen[s.then][IfLabels(g)]
           else == gen[s.else][then.g]
           elseLabel == else.g.count
           hasElse == tree[s.else].op # "none"
           ifLabel == IF hasElse THEN elseLabel + 1 ELSE g.count
           before == NewLabels(else.g, IF hasElse THEN 2 ELSE 1)
           test == Traverse(tree)[s.cond][With(ifLabel, elseLabel, before)]
<1>1. then.code \in Seq(Lines) /\ then.g \in Later(IfLabels(g)) /\ then.g \in LabelState
  BY PartLabels, PieceTyped
<1> HIDE DEF then
<1>2. else.code \in Seq(Lines) /\ else.g \in Later(then.g) /\ else.g \in LabelState
  BY <1>1, PieceTyped
<1> HIDE DEF else
<1>3. elseLabel \in Nat /\ ifLabel \in Nat
  BY <1>2 DEF LabelState
<1>4. before \in LabelState /\ before.count >= g.count
  <2>1. then.g.count >= g.count + 1 /\ else.g.count >= then.g.count /\ g.count \in Nat
        /\ then.g.count \in Nat /\ else.g.count \in Nat
    BY <1>1, <1>2, PartLabels DEF Later, LabelState
  <2>2. before \in Later(else.g)
    BY <1>2, NewLabelsLater
  <2> QED BY <1>2, <2>1, <2>2 DEF Later, LabelState
<1> HIDE DEF elseLabel, ifLabel, before
<1>5. test.code \in Seq(Lines) /\ test.g \in Later(before) /\ test.g \in LabelState
  BY <1>3, <1>4, TestTyped
<1> HIDE DEF test
<1>6. test.g.count \in Nat /\ test.g.count >= g.count
  BY <1>4, <1>5 DEF Later, LabelState
<1>7. NewLabels(test.g, 1) \in LabelState /\ NewLabels(test.g, 1).count >= g.count
  BY <1>5, <1>6, NewLabelsLater DEF Later, LabelState
<1>8. CASE hasElse
  <2>1. GenIf(tree, gen, s, g)
          = [code |-> IfElseCode(test.code, ifLabel, then.code, test.g.count, elseLabel, else.code),
             g |-> Restored(NewLabels(test.g, 1), g)]
    BY <1>8 DEF GenIf, Generated, test, before, ifLabel, elseLabel, else, then, IfLabels
  <2>2. IfElseCode(test.code, ifLabel, then.code, test.g.count, elseLabel, else.code) \in Seq(Lines)
    <3>1. <<Label(ifLabel)>> \in Seq(Lines)
          /\ <<Goto(test.g.count), Label(elseLabel)>> \in Seq(Lines)
          /\ <<Label(test.g.count)>> \in Seq(Lines)
      BY <1>3, <1>6, LabelLines
    <3> QED BY <1>1, <1>2, <1>5, <3>1 DEF IfElseCode
  <2>3. Restored(NewLabels(test.g, 1), g) \in Later(g)
    BY <1>7, RestoredLater
  <2> QED BY <2>1, <2>2, <2>3 DEF Results, Later
<1>9. CASE ~hasElse
  <2>1. GenIf(tree, gen, s, g)
          = [code |-> IfCode(test.code, then.code, elseLabel), g |-> Restored(test.g, g)]
    BY <1>9 DEF GenIf, Generated, test, before, ifLabel, elseLabel, else, then, IfLabels
  <2>2. IfCode(test.code, then.code, elseLabel) \in Seq(Lines)
    <3>1. <<Label(elseLabel)>> \in Seq(Lines)
      BY <1>3, LabelLines
    <3> QED BY <1>1, <1>5, <3>1 DEF IfCode
  <2>3. Restored(test.g, g) \in Later(g)
    BY <1>5, <1>6, RestoredLater
  <2> QED BY <2>1, <2>2, <2>3 DEF Results, Later
<1> QED BY <1>8, <1>9

LEMMA GenWhileType ==
    ASSUME NEW tree, NEW gen, NEW s, NEW g \in LabelState,
           Traverse(tree)[s.cond] \in Tests, gen[s.body] \in Pieces
    PROVE  GenWhile(tree, gen, s, g) \in Results /\ GenWhile(tree, gen, s, g).g \in Later(g)
<1> DEFINE inner == LoopLabels(g)
           loop == gen[s.body][inner]
           test == Traverse(tree)[s.cond][With(inner.fall, inner.next, loop.g)]
<1>1. inner \in LabelState /\ inner.count >= g.count
  BY PartLabels DEF LabelState
<1>2. loop.code \in Seq(Lines) /\ loop.g \in Later(inner) /\ loop.g \in LabelState
  BY <1>1, PieceTyped
<1>3. inner.fall \in Nat /\ inner.next \in Nat /\ inner.start \in Nat
  BY <1>1 DEF LabelState
<1> HIDE DEF loop, inner
<1>4. test.code \in Seq(Lines) /\ test.g \in Later(loop.g) /\ test.g \in LabelState
  BY <1>2, <1>3, TestTyped
<1> HIDE DEF test
<1>5. test.g.count >= g.count
  BY <1>1, <1>2, <1>4 DEF Later, LabelState
<1>6. GenWhile(tree, gen, s, g)
          = [code |-> LoopCode(inner.start, test.code, inner.fall, loop.code, inner.next),
             g |-> Restored(test.g, g)]
  BY DEF GenWhile, Generated, test, loop, inner, LoopLabels
<1>7. LoopCode(inner.start, test.code, inner.fall, loop.code, inner.next) \in Seq(Lines)
  <2>1. <<Label(inner.start)>> \in Seq(Lines) /\ <<Label(inner.fall)>> \in Seq(Lines)
        /\ <<Goto(inner.start), Label(inner.next)>> \in Seq(Lines)
    BY <1>3, LabelLines
  <2> QED BY <1>2, <1>4, <2>1 DEF LoopCode
<1>8. Restored(test.g, g) \in Later(g)
  BY <1>4, <1>5, RestoredLater
<1> QED BY <1>6, <1>7, <1>8 DEF Results, Later

LEMMA GenNodeType ==
    ASSUME NEW tree, IsTree(tree), NEW s \in Statements(tree), NEW gen,
           \A r \in Statements(tree) : r < s => gen[r] \in Pieces, NEW g \in LabelState
    PROVE  /\ GenNode(tree, gen, tree[s], g) \in Results
           /\ GenNode(tree, gen, tree[s], g).g \in Later(g)
<1> DEFINE node == tree[s]
<1>0. g \in Later(g) /\ g.start \in Nat /\ g.next \in Nat
  BY DEF Later, LabelState
<1>1. CASE node.op \in {"simple", "return"}
  <2>1. node \in Lines
    BY <1>1, StatementForms DEF Lines
  <2>2. GenNode(tree, gen, node, g) = [code |-> <<node>>, g |-> g]
    BY <1>1 DEF GenNode, Generated
  <2> HIDE DEF node
  <2>3. <<node>> \in Seq(Lines)
    BY <2>1
  <2> QED BY <1>0, <2>2, <2>3 DEF Results, node
<1>2. CASE node.op \in {"empty", "none"}
  <2>1. GenNode(tree, gen, node, g) = [code |-> << >>, g |-> g]
    BY <1>2 DEF GenNode, Generated
  <2> QED BY <1>0, <2>1 DEF Results
<1>3. CASE node.op \in {"break", "continue"}
  <2>1. PICK l \in Nat : GenNode(tree, gen, node, g) = [code |-> <<Goto(l)>>, g |-> g]
    BY <1>0, <1>3 DEF GenNode, Generated
  <2>2. <<Goto(l)>> \in Seq(Lines)
    BY LabelLines
  <2> QED BY <1>0, <2>1, <2>2 DEF Results
<1>4. CASE node.op = "items"
  <2>1. GenNode(tree, gen, node, g) = GenItems(gen, node, g)
    BY <1>4 DEF GenNode
  <2>2. gen[node.front] \in Pieces /\ gen[node.item] \in Pieces
    BY <1>4, StatementForms
  <2> HIDE DEF node
  <2> QED BY <2>1, <2>2, GenItemsType DEF node
<1>5. CASE node.op = "if"
  <2>1. GenNode(tree, gen, node, g) = GenIf(tree, gen, node, g)
    BY <1>5 DEF GenNode
  <2>2. gen[node.then] \in Pieces /\ gen[node.else] \in Pieces /\ node.cond \in Conditions(tree)
    BY <1>5, StatementForms
  <2>3. Traverse(tree)[node.cond] \in Tests
    BY <2>2, TraverseEquationHolds
  <2> HIDE DEF node
  <2> QED BY <2>1, <2>2, <2>3, GenIfType DEF node
<1>6. CASE node.op = "while"
  <2>1. GenNode(tree, gen, node, g) = GenWhile(tree, gen, node, g)
    BY <1>6 DEF GenNode
  <2>2. gen[node.body] \in Pieces /\ node.cond \in Conditions(tree)
    BY <1>6, StatementForms
  <2>3. Traverse(tree)[node.cond] \in Tests
    BY <2>2, TraverseEquationHolds
  <2> HIDE DEF node
  <2> QED BY <2>1, <2>2, <2>3, GenWhileType DEF node
<1> QED BY <1>1, <1>2, <1>3, <1>4, <1>5, <1>6, StatementForms

CodeEquation(tree, gen) ==
    [s \in Statements(tree) |-> [g \in LabelState |-> GenNode(tree, gen, tree[s], g)]]

LEMMA GenNodeLocal ==
    ASSUME NEW tree, IsTree(tree), NEW s \in Statements(tree), NEW f, NEW h,
           \A r \in Statements(tree) : r < s => f[r] = h[r]
    PROVE  \A g : GenNode(tree, f, tree[s], g) = GenNode(tree, h, tree[s], g)
<1> SUFFICES ASSUME NEW g
             PROVE  GenNode(tree, f, tree[s], g) = GenNode(tree, h, tree[s], g)
  OBVIOUS
<1>1. CASE tree[s].op \in {"simple", "return", "empty", "none", "break", "continue"}
  BY <1>1 DEF GenNode
<1>2. CASE tree[s].op = "items"
  <2>1. f[tree[s].front] = h[tree[s].front] /\ f[tree[s].item] = h[tree[s].item]
    BY <1>2, StatementForms
  <2>2. GenItems(f, tree[s], g) = GenItems(h, tree[s], g)
    BY <2>1, Zenon DEF GenItems
  <2> QED BY <1>2, <2>2 DEF GenNode
<1>3. CASE tree[s].op = "if"
  <2>1. f[tree[s].then] = h[tree[s].then] /\ f[tree[s].else] = h[tree[s].else]
    BY <1>3, StatementForms
  <2>2. GenIf(tree, f, tree[s], g) = GenIf(tree, h, tree[s], g)
    BY <2>1, Zenon DEF GenIf
  <2> QED BY <1>3, <2>2 DEF GenNode
<1>4. CASE tree[s].op = "while"
  <2>1. f[tree[s].body] = h[tree[s].body]
    BY <1>4, StatementForms
  <2>2. GenWhile(tree, f, tree[s], g) = GenWhile(tree, h, tree[s], g)
    BY <2>1, Zenon DEF GenWhile
  <2> QED BY <1>4, <2>2 DEF GenNode
<1> QED BY <1>1, <1>2, <1>3, <1>4, StatementForms

LEMMA CodeEquationHolds ==
    ASSUME NEW tree, IsTree(tree)
    PROVE  /\ CodeGen(tree) = CodeEquation(tree, CodeGen(tree))
           /\ CodeGen(tree) \in [Statements(tree) -> Pieces]
<1> DEFINE S == Statements(tree)
           Node(f, s) == [g \in LabelState |-> GenNode(tree, f, tree[s], g)]
           Step == [s \in S |-> [f \in [S -> Pieces] |-> Node(f, s)]]
<1>1. ASSUME NEW f, NEW s \in S, \A r \in S : r < s => f[r] \in Pieces
      PROVE  Node(f, s) \in Pieces
  <2>1. ASSUME NEW g \in LabelState
        PROVE  /\ GenNode(tree, f, tree[s], g) \in Results
               /\ GenNode(tree, f, tree[s], g).g \in Later(g)
    BY <1>1, GenNodeType
  <2> QED BY <2>1 DEF Pieces
<1>2. \E f : f = CodeEquation(tree, f)
  <2>1. Step \in [S -> [[S -> Pieces] -> Pieces]]
    <3>1. ASSUME NEW s \in S, NEW f \in [S -> Pieces] PROVE Node(f, s) \in Pieces
      BY <1>1
    <3> HIDE DEF Node
    <3> QED BY <3>1
  <2>2. ASSUME NEW s \in S, NEW f \in [S -> Pieces], NEW h \in [S -> Pieces],
               \A r \in S : r < s => f[r] = h[r]
        PROVE  Step[s][f] = Step[s][h]
    <3>1. \A g \in LabelState : GenNode(tree, f, tree[s], g) = GenNode(tree, h, tree[s], g)
      <4> \A k : GenNode(tree, f, tree[s], k) = GenNode(tree, h, tree[s], k)
        BY <2>2, GenNodeLocal
      <4> QED OBVIOUS
    <3>2. Node(f, s) = Node(h, s)
      BY <3>1
    <3> HIDE DEF Node
    <3> QED BY <3>2
  <2>3. Pieces # {}
    <3> DEFINE v == [g \in LabelState |-> [code |-> << >>, g |-> g]]
    <3>1. \A g \in LabelState : g \in Later(g)
      BY DEF Later, LabelState
    <3>2. v \in Pieces
      BY <3>1 DEF Pieces, Results
    <3> QED BY <3>2
  <2>4. S \in SUBSET (0 .. Len(tree)) /\ Len(tree) \in Nat
    BY TreeSize
  <2>5. PICK f \in [S -> Pieces] : \A s \in S : f[s] = Step[s][f]
    <3>1. PICK v \in Pieces : TRUE
      BY <2>3
    <3>2. DependsBelow(Step, S, Pieces)
      <4> HIDE DEF Step, S
      <4> QED BY <2>2 DEF DependsBelow
    <3>3. HasSolution(Step, S, Pieces)
      <4> HIDE DEF Step, S
      <4> QED BY <2>1, <2>4, <3>1, <3>2, RecursiveFunction, Zenon
    <3> QED BY <3>3 DEF HasSolution
  <2>6. \A s \in S : f[s] = Node(f, s)
    <3> HIDE DEF Node
    <3> QED BY <2>5
  <2>7. f = CodeEquation(tree, f)
    <3> HIDE DEF Node
    <3>1. f = [s \in S |-> Node(f, s)]
      BY <2>6
    <3> QED BY <3>1 DEF CodeEquation, Node
  <2> QED BY <2>7
<1>3. CodeGen(tree) = CodeEquation(tree, CodeGen(tree))
  <2>1. CodeGen(tree) = CHOOSE f : f = CodeEquation(tree, f)
    BY DEF CodeGen, CodeEquation
  <2> QED BY <1>2, <2>1
<1>4. ASSUME NEW s \in S PROVE CodeGen(tree)[s] = Node(CodeGen(tree), s)
  BY <1>3 DEF CodeEquation
<1>5. \A s \in S : CodeGen(tree)[s] \in Pieces
  <2> DEFINE Good == {s \in S : CodeGen(tree)[s] \in Pieces}
  <2>1. ASSUME NEW s \in S, \A r \in S : r < s => r \in Good PROVE s \in Good
    <3>1. \A r \in S : r < s => CodeGen(tree)[r] \in Pieces
      BY <2>1
    <3>2. Node(CodeGen(tree), s) \in Pieces
      BY <1>1, <3>1
    <3> QED BY <1>4, <3>2
  <2>2. S \in SUBSET Nat
    <3>1. S \in SUBSET (0 .. Len(tree)) /\ Len(tree) \in Nat
      BY TreeSize
    <3> HIDE DEF S
    <3> QED BY <3>1
  <2>3. \A s \in S : s \in Good
    <3> HIDE DEF Good, S
    <3> QED BY <2>1, <2>2, StrongInduction
  <2> QED BY <2>3
<1> QED BY <1>3, <1>5 DEF CodeEquation

-----------------------------------------------------------------------------
(* And so is JumpsOut(tree), which does not change when a tree grows.      *)

OutOf(tree, out, s) ==
    \/ s.op \in {"break", "continue"}
    \/ s.op = "items" /\ (out[s.front] \/ out[s.item])
    \/ s.op = "if" /\ (out[s.then] \/ out[s.else])

OutEquation(tree, out) == [s \in Statements(tree) |-> OutOf(tree, out, tree[s])]

LEMMA OutEquationHolds ==
    ASSUME NEW tree, IsTree(tree)
    PROVE  JumpsOut(tree) = OutEquation(tree, JumpsOut(tree))
<1> DEFINE S == Statements(tree)
           Step == [s \in S |-> [f \in [S -> BOOLEAN] |-> OutOf(tree, f, tree[s])]]
<1>1. \E f : f = OutEquation(tree, f)
  <2>1. Step \in [S -> [[S -> BOOLEAN] -> BOOLEAN]]
    <3>1. ASSUME NEW s \in S, NEW f \in [S -> BOOLEAN] PROVE OutOf(tree, f, tree[s]) \in BOOLEAN
      BY DEF OutOf
    <3> QED BY <3>1
  <2>2. ASSUME NEW s \in S, NEW f \in [S -> BOOLEAN], NEW h \in [S -> BOOLEAN],
               \A r \in S : r < s => f[r] = h[r]
        PROVE  Step[s][f] = Step[s][h]
    <3>1. /\ tree[s].op = "items" => f[tree[s].front] = h[tree[s].front] /\ f[tree[s].item] = h[tree[s].item]
          /\ tree[s].op = "if" => f[tree[s].then] = h[tree[s].then] /\ f[tree[s].else] = h[tree[s].else]
      BY <2>2, StatementForms
    <3>2. OutOf(tree, f, tree[s]) = OutOf(tree, h, tree[s])
      BY <3>1, Zenon DEF OutOf
    <3> QED BY <3>2
  <2>4. S \in SUBSET (0 .. Len(tree)) /\ Len(tree) \in Nat
    BY TreeSize
  <2>5. PICK f \in [S -> BOOLEAN] : \A s \in S : f[s] = Step[s][f]
    <3>2. DependsBelow(Step, S, BOOLEAN)
      <4> HIDE DEF Step, S
      <4> QED BY <2>2 DEF DependsBelow
    <3>3. HasSolution(Step, S, BOOLEAN)
      <4> TRUE \in BOOLEAN
        OBVIOUS
      <4> HIDE DEF Step, S
      <4> QED BY <2>1, <2>4, <3>2, RecursiveFunction, Zenon
    <3> QED BY <3>3 DEF HasSolution
  <2>6. \A s \in S : f[s] = OutOf(tree, f, tree[s])
    BY <2>5
  <2>7. f = [s \in S |-> OutOf(tree, f, tree[s])]
    BY <2>6
  <2> QED BY <2>7 DEF OutEquation
<1>2. JumpsOut(tree) = CHOOSE f : f = OutEquation(tree, f)
  BY DEF JumpsOut, OutEquation, OutOf
<1> QED BY <1>1, <1>2

\* A tree with more nodes after those of another.
Extends(tree, base) ==
    /\ IsTree(tree) /\ IsTree(base)
    /\ Len(base) <= Len(tree) /\ \A i \in DOMAIN base : tree[i] = base[i]

LEMMA ExtensionNodes ==
    ASSUME NEW tree, NEW base, Extends(tree, base)
    PROVE  /\ Conditions(base) \subseteq Conditions(tree)
           /\ Statements(base) \subseteq Statements(tree)
           /\ \A i \in Conditions(base) \cup Statements(base) : tree[i] = base[i]
<1>1. DOMAIN base \subseteq DOMAIN tree
  <2>1. /\ DOMAIN base = 1 .. Len(base) /\ Len(base) \in Nat
        /\ DOMAIN tree = 1 .. Len(tree) /\ Len(tree) \in Nat
    BY TreeSize DEF Extends
  <2> QED BY <2>1 DEF Extends
<1> QED BY <1>1 DEF Extends, Conditions, Statements

LEMMA ExtensionJumps ==
    ASSUME NEW tree, NEW base, Extends(tree, base)
    PROVE  \A s \in Statements(base) : JumpsOut(tree)[s] <=> JumpsOut(base)[s]
<1> DEFINE S == Statements(base)
           Good == {s \in S : JumpsOut(tree)[s] <=> JumpsOut(base)[s]}
<1>0. IsTree(tree) /\ IsTree(base)
  BY DEF Extends
<1>1. ASSUME NEW s \in S, \A r \in S : r < s => r \in Good PROVE s \in Good
  <2>1. s \in Statements(tree) /\ tree[s] = base[s]
    BY ExtensionNodes
  <2>2. /\ JumpsOut(tree)[s] = OutOf(tree, JumpsOut(tree), base[s])
        /\ JumpsOut(base)[s] = OutOf(base, JumpsOut(base), base[s])
    BY <1>0, <2>1, OutEquationHolds DEF OutEquation
  <2>3. /\ base[s].op = "items" => base[s].front \in Good /\ base[s].item \in Good
        /\ base[s].op = "if" => base[s].then \in Good /\ base[s].else \in Good
    <3> HIDE DEF Good
    <3> QED BY <1>0, <1>1, StatementForms
  <2>4. OutOf(tree, JumpsOut(tree), base[s]) <=> OutOf(base, JumpsOut(base), base[s])
    BY <2>3, Zenon DEF OutOf
  <2> QED BY <2>2, <2>4, Zenon
<1>2. S \in SUBSET Nat
  <2>1. S \in SUBSET (0 .. Len(base)) /\ Len(base) \in Nat
    BY <1>0, TreeSize
  <2> HIDE DEF S
  <2> QED BY <2>1
<1>3. \A s \in S : s \in Good
  <2> HIDE DEF Good, S
  <2> QED BY <1>1, <1>2, StrongInduction
<1> QED BY <1>3

-----------------------------------------------------------------------------
(* The code generated for each kind of node.                               *)

Test(tree, c, T, F, g) == Traverse(tree)[c][With(T, F, g)]
Piece(tree, s, g) == CodeGen(tree)[s][g]

LEMMA TestType ==
    ASSUME NEW tree, IsTree(tree), NEW c \in Conditions(tree),
           NEW T \in Nat, NEW F \in Nat, NEW g \in LabelState
    PROVE  /\ Test(tree, c, T, F, g).code \in Seq(Lines)
           /\ Test(tree, c, T, F, g).g \in LabelState /\ Test(tree, c, T, F, g).g \in Later(g)
<1>1. Traverse(tree)[c] \in Tests
  BY TraverseEquationHolds
<1> QED BY <1>1, TestTyped DEF Test

LEMMA PieceType ==
    ASSUME NEW tree, IsTree(tree), NEW s \in Statements(tree), NEW g \in LabelState
    PROVE  /\ Piece(tree, s, g).code \in Seq(Lines)
           /\ Piece(tree, s, g).g \in LabelState /\ Piece(tree, s, g).g \in Later(g)
<1>1. CodeGen(tree)[s] \in Pieces
  BY CodeEquationHolds
<1> QED BY <1>1, PieceTyped DEF Piece

LEMMA TestIs ==
    ASSUME NEW tree, IsTree(tree), NEW c \in Conditions(tree),
           NEW T \in Nat, NEW F \in Nat, NEW g \in LabelState
    PROVE  Test(tree, c, T, F, g) = TraverseNode(Traverse(tree), tree[c], T, F, g)
<1>1. Traverse(tree)[c] = [a \in Arguments |->
                TraverseNode(Traverse(tree), tree[c], a.trueLabel, a.falseLabel, a.g)]
  <2>1. PICK f : f = Traverse(tree)
    OBVIOUS
  <2>2. f = TraverseEquation(tree, f)
    BY <2>1, TraverseEquationHolds, Zenon
  <2>3. TraverseEquation(tree, f)[c]
          = [a \in Arguments |-> TraverseNode(f, tree[c], a.trueLabel, a.falseLabel, a.g)]
    BY DEF TraverseEquation
  <2>4. f[c] = TraverseEquation(tree, f)[c]
    BY <2>2, Zenon
  <2>5. f[c] = [a \in Arguments |-> TraverseNode(f, tree[c], a.trueLabel, a.falseLabel, a.g)]
    BY <2>3, <2>4, Zenon
  <2> QED BY <2>1, <2>5, Zenon
<1>2. With(T, F, g) \in Arguments /\ With(T, F, g).trueLabel = T
      /\ With(T, F, g).falseLabel = F /\ With(T, F, g).g = g
  BY DEF With, Arguments
<1> QED BY <1>1, <1>2 DEF Test

LEMMA PieceIs ==
    ASSUME NEW tree, IsTree(tree), NEW s \in Statements(tree), NEW g \in LabelState
    PROVE  Piece(tree, s, g) = GenNode(tree, CodeGen(tree), tree[s], g)
<1>1. CodeGen(tree)[s] = [k \in LabelState |-> GenNode(tree, CodeGen(tree), tree[s], k)]
  BY CodeEquationHolds, Zenon DEF CodeEquation
<1> QED BY <1>1 DEF Piece

LeafLines(leaf, T, F, g) == <<leaf>> \o Branch(T, F, g)

LEMMA LeafCode ==
    ASSUME NEW tree, IsTree(tree), NEW c \in Conditions(tree), tree[c].op = "leaf",
           NEW T \in Nat, NEW F \in Nat, NEW g \in LabelState
    PROVE  /\ Test(tree, c, T, F, g).code = LeafLines(tree[c], T, F, g)
           /\ Test(tree, c, T, F, g).g = g
<1>1. Test(tree, c, T, F, g) = TraverseNode(Traverse(tree), tree[c], T, F, g)
  BY TestIs
<1> QED BY <1>1 DEF TraverseNode, Generated, LeafLines

\* lhs and rhs are what traverse() does for the operands, target is the label
\* that goes to the first of them.
IsBinaryCode(tree, c, T, F, g, lhs, rhs, isFresh, target) ==
    LET isAnd == tree[c].op = "land"
        before == IF isFresh THEN NewLabels(g, 1) ELSE g
    IN  /\ isFresh = (g.fall = IF isAnd THEN F ELSE T)
        /\ target = IF isFresh THEN g.count ELSE IF isAnd THEN F ELSE T
        /\ lhs = Test(tree, tree[c].lhs, IF isAnd THEN g.fall ELSE target,
                                         IF isAnd THEN target ELSE g.fall, before)
        /\ rhs = Test(tree, tree[c].rhs, T, F, lhs.g)
        /\ before \in LabelState /\ before \in Later(g)
        /\ lhs.code \in Seq(Lines) /\ lhs.g \in LabelState /\ lhs.g \in Later(before)
        /\ rhs.code \in Seq(Lines) /\ rhs.g \in LabelState /\ rhs.g \in Later(lhs.g)

LEMMA BinaryCode ==
    ASSUME NEW tree, IsTree(tree), NEW c \in Conditions(tree), tree[c].op # "leaf",
           NEW T \in Nat, NEW F \in Nat, NEW g \in LabelState
    PROVE  \E lhs, rhs : \E isFresh \in BOOLEAN, target \in Nat :
              /\ IsBinaryCode(tree, c, T, F, g, lhs, rhs, isFresh, target)
              /\ Test(tree, c, T, F, g)
                    = [code |-> lhs.code \o rhs.code \o Placed(isFresh, target), g |-> rhs.g]
<1> DEFINE cond == tree[c]
           isAnd == cond.op = "land"
           isFresh == g.fall = IF isAnd THEN F ELSE T
           target == IF isFresh THEN g.count ELSE IF isAnd THEN F ELSE T
           before == IF isFresh THEN NewLabels(g, 1) ELSE g
           lhs == Test(tree, cond.lhs, IF isAnd THEN g.fall ELSE target,
                                       IF isAnd THEN target ELSE g.fall, before)
           rhs == Test(tree, cond.rhs, T, F, lhs.g)
<1>1. cond.lhs \in Conditions(tree) /\ cond.rhs \in Conditions(tree)
  BY ConditionForms
<1>2. target \in Nat /\ g.fall \in Nat /\ isFresh \in BOOLEAN
  BY DEF LabelState
<1>3. before \in LabelState /\ before \in Later(g)
  BY NewLabelsLater DEF Later, LabelState
<1>4. lhs.code \in Seq(Lines) /\ lhs.g \in LabelState /\ lhs.g \in Later(before)
  <2> HIDE DEF target, before, cond
  <2> QED BY <1>1, <1>2, <1>3, TestType
<1>5. rhs.code \in Seq(Lines) /\ rhs.g \in LabelState /\ rhs.g \in Later(lhs.g)
  <2> HIDE DEF lhs, cond
  <2> QED BY <1>1, <1>4, TestType
<1>6. Test(tree, c, T, F, g)
        = [code |-> lhs.code \o rhs.code \o Placed(isFresh, target), g |-> rhs.g]
  <2>1. Test(tree, c, T, F, g) = TraverseNode(Traverse(tree), cond, T, F, g)
    BY TestIs
  <2> QED BY <2>1 DEF TraverseNode, Generated, Test
<1>7. IsBinaryCode(tree, c, T, F, g, lhs, rhs, isFresh, target)
  <2>1. /\ isFresh = (g.fall = IF tree[c].op = "land" THEN F ELSE T)
        /\ target = IF isFresh THEN g.count ELSE IF tree[c].op = "land" THEN F ELSE T
    OBVIOUS
  <2>2. lhs = Test(tree, tree[c].lhs, IF isAnd THEN g.fall ELSE target,
                                      IF isAnd THEN target ELSE g.fall, before)
        /\ rhs = Test(tree, tree[c].rhs, T, F, lhs.g)
    BY Zenon
  <2> HIDE DEF lhs, rhs
  <2> QED BY <1>3, <1>4, <1>5, <2>2, Zenon DEF IsBinaryCode
<1> HIDE DEF lhs, rhs, isFresh, target
<1> QED BY <1>2, <1>6, <1>7

LEMMA OneLineCode ==
    ASSUME NEW tree, IsTree(tree), NEW s \in Statements(tree), NEW g \in LabelState
    PROVE  /\ tree[s].op \in {"simple", "return"} =>
                Piece(tree, s, g) = [code |-> <<tree[s]>>, g |-> g]
           /\ tree[s].op = "break" => Piece(tree, s, g) = [code |-> <<Goto(g.next)>>, g |-> g]
           /\ tree[s].op = "continue" => Piece(tree, s, g) = [code |-> <<Goto(g.start)>>, g |-> g]
           /\ tree[s].op \in {"empty", "none"} => Piece(tree, s, g) = [code |-> << >>, g |-> g]
<1>1. Piece(tree, s, g) = GenNode(tree, CodeGen(tree), tree[s], g)
  BY PieceIs
<1> QED BY <1>1 DEF GenNode, Generated

IsItemsCode(tree, s, g, front, item) ==
    /\ front = Piece(tree, tree[s].front, g)
    /\ item = Piece(tree, tree[s].item, front.g)
    /\ front.code \in Seq(Lines) /\ front.g \in LabelState /\ front.g \in Later(g)
    /\ item.code \in Seq(Lines) /\ item.g \in LabelState /\ item.g \in Later(front.g)

LEMMA ItemsCode ==
    ASSUME NEW tree, IsTree(tree), NEW s \in Statements(tree), tree[s].op = "items",
           NEW g \in LabelState
    PROVE  \E front, item :
              /\ IsItemsCode(tree, s, g, front, item)
              /\ Piece(tree, s, g) = [code |-> front.code \o item.code, g |-> item.g]
<1> DEFINE front == Piece(tree, tree[s].front, g)
           item == Piece(tree, tree[s].item, front.g)
<1>1. tree[s].front \in Statements(tree) /\ tree[s].item \in Statements(tree)
  BY StatementForms
<1>2. front.code \in Seq(Lines) /\ front.g \in LabelState /\ front.g \in Later(g)
  BY <1>1, PieceType
<1>3. item.code \in Seq(Lines) /\ item.g \in LabelState /\ item.g \in Later(front.g)
  <2> HIDE DEF front
  <2> QED BY <1>1, <1>2, PieceType
<1>4. Piece(tree, s, g) = [code |-> front.code \o item.code, g |-> item.g]
  <2>1. Piece(tree, s, g) = GenNode(tree, CodeGen(tree), tree[s], g)
    BY PieceIs
  <2> QED BY <2>1 DEF GenNode, GenItems, Generated, Piece
<1>5. IsItemsCode(tree, s, g, front, item)
  <2>1. front = Piece(tree, tree[s].front, g) /\ item = Piece(tree, tree[s].item, front.g)
    OBVIOUS
  <2> HIDE DEF front, item
  <2> QED BY <1>2, <1>3, <2>1, Zenon DEF IsItemsCode
<1> HIDE DEF front, item
<1> QED BY <1>4, <1>5

\* last is the label after the whole if.
IsIfCode(tree, s, g, then, else, test, ifLabel, elseLabel) ==
    LET hasElse == tree[tree[s].else].op # "none"
        before == NewLabels(else.g, IF hasElse THEN 2 ELSE 1)
    IN  /\ then = Piece(tree, tree[s].then, IfLabels(g))
        /\ else = Piece(tree, tree[s].else, then.g)
        /\ elseLabel = else.g.count
        /\ ifLabel = IF hasElse THEN elseLabel + 1 ELSE g.count
        /\ test = Test(tree, tree[s].cond, ifLabel, elseLabel, before)
        /\ then.code \in Seq(Lines) /\ then.g \in LabelState /\ then.g \in Later(IfLabels(g))
        /\ else.code \in Seq(Lines) /\ else.g \in LabelState /\ else.g \in Later(then.g)
        /\ test.code \in Seq(Lines) /\ test.g \in LabelState /\ test.g \in Later(before)
        /\ before \in LabelState /\ before.count = elseLabel + IF hasElse THEN 2 ELSE 1
        /\ before \in Later(else.g)

LEMMA ChoiceCode ==
    ASSUME NEW tree, IsTree(tree), NEW s \in Statements(tree), tree[s].op = "if",
           NEW g \in LabelState
    PROVE  \E then, else, test : \E ifLabel, elseLabel \in Nat :
              /\ IsIfCode(tree, s, g, then, else, test, ifLabel, elseLabel)
              /\ tree[tree[s].else].op # "none" =>
                    Piece(tree, s, g)
                      = [code |-> IfElseCode(test.code, ifLabel, then.code, test.g.count,
                                             elseLabel, else.code),
                         g |-> Restored(NewLabels(test.g, 1), g)]
              /\ tree[tree[s].else].op = "none" =>
                    Piece(tree, s, g)
                      = [code |-> IfCode(test.code, then.code, elseLabel), g |-> Restored(test.g, g)]
<1> DEFINE then == Piece(tree, tree[s].then, IfLabels(g))
           else == Piece(tree, tree[s].else, then.g)
           elseLabel == else.g.count
           hasElse == tree[tree[s].else].op # "none"
           ifLabel == IF hasElse THEN elseLabel + 1 ELSE g.count
           before == NewLabels(else.g, IF hasElse THEN 2 ELSE 1)
           test == Test(tree, tree[s].cond, ifLabel, elseLabel, before)
<1>1. /\ tree[s].then \in Statements(tree) /\ tree[s].else \in Statements(tree)
      /\ tree[s].cond \in Conditions(tree)
  BY StatementForms
<1>2. then.code \in Seq(Lines) /\ then.g \in LabelState /\ then.g \in Later(IfLabels(g))
  BY <1>1, PieceType, PartLabels
<1>3. else.code \in Seq(Lines) /\ else.g \in LabelState /\ else.g \in Later(then.g)
  <2> HIDE DEF then
  <2> QED BY <1>1, <1>2, PieceType
<1>4. elseLabel \in Nat /\ ifLabel \in Nat
  <2> HIDE DEF else
  <2> QED BY <1>3 DEF LabelState
<1>5. /\ before \in LabelState /\ before.count = elseLabel + IF hasElse THEN 2 ELSE 1
      /\ before \in Later(else.g)
  <2> HIDE DEF else
  <2> QED BY <1>3, NewLabelsLater DEF Later
<1>6. test.code \in Seq(Lines) /\ test.g \in LabelState /\ test.g \in Later(before)
  <2> HIDE DEF before, ifLabel, elseLabel
  <2> QED BY <1>1, <1>4, <1>5, TestType
<1>7. Piece(tree, s, g) = GenIf(tree, CodeGen(tree), tree[s], g)
  <2>1. Piece(tree, s, g) = GenNode(tree, CodeGen(tree), tree[s], g)
    BY PieceIs
  <2> QED BY <2>1 DEF GenNode
<1>8. hasElse => Piece(tree, s, g)
                   = [code |-> IfElseCode(test.code, ifLabel, then.code, test.g.count,
                                          elseLabel, else.code),
                      g |-> Restored(NewLabels(test.g, 1), g)]
  BY <1>7, Zenon DEF GenIf, Generated, Test, Piece, IfLabels
<1>9. ~hasElse => Piece(tree, s, g)
                   = [code |-> IfCode(test.code, then.code, elseLabel), g |-> Restored(test.g, g)]
  BY <1>7, Zenon DEF GenIf, Generated, Test, Piece, IfLabels
<1>10. IsIfCode(tree, s, g, then, else, test, ifLabel, elseLabel)
  <2>1. /\ then = Piece(tree, tree[s].then, IfLabels(g))
        /\ else = Piece(tree, tree[s].else, then.g)
        /\ elseLabel = else.g.count
        /\ ifLabel = IF hasElse THEN elseLabel + 1 ELSE g.count
        /\ test = Test(tree, tree[s].cond, ifLabel, elseLabel, before)
    BY Zenon
  <2> HIDE DEF then, else, test, ifLabel, elseLabel
  <2> QED BY <1>2, <1>3, <1>5, <1>6, <2>1, Zenon DEF IsIfCode
<1> HIDE DEF then, else, test, ifLabel, elseLabel
<1> QED BY <1>4, <1>8, <1>9, <1>10

IsWhileCode(tree, s, g, loop, test) ==
    /\ loop = Piece(tree, tree[s].body, LoopLabels(g))
    /\ test = Test(tree, tree[s].cond, g.count + 2, g.count + 1, loop.g)
    /\ loop.code \in Seq(Lines) /\ loop.g \in LabelState /\ loop.g \in Later(LoopLabels(g))
    /\ test.code \in Seq(Lines) /\ test.g \in LabelState /\ test.g \in Later(loop.g)

LEMMA WhileCode ==
    ASSUME NEW tree, IsTree(tree), NEW s \in Statements(tree), tree[s].op = "while",
           NEW g \in LabelState
    PROVE  \E loop, test :
              /\ IsWhileCode(tree, s, g, loop, test)
              /\ Piece(tree, s, g)
                    = [code |-> LoopCode(g.count, test.code, g.count + 2, loop.code, g.count + 1),
                       g |-> Restored(test.g, g)]
<1> DEFINE loop == Piece(tree, tree[s].body, LoopLabels(g))
           test == Test(tree, tree[s].cond, g.count + 2, g.count + 1, loop.g)
<1>1. tree[s].body \in Statements(tree) /\ tree[s].cond \in Conditions(tree)
  BY StatementForms
<1>2. loop.code \in Seq(Lines) /\ loop.g \in LabelState /\ loop.g \in Later(LoopLabels(g))
  BY <1>1, PieceType, PartLabels
<1>3. g.count + 2 \in Nat /\ g.count + 1 \in Nat
  BY DEF LabelState
<1>4. test.code \in Seq(Lines) /\ test.g \in LabelState /\ test.g \in Later(loop.g)
  <2> HIDE DEF loop
  <2> QED BY <1>1, <1>2, <1>3, TestType
<1>5. Piece(tree, s, g)
        = [code |-> LoopCode(g.count, test.code, g.count + 2, loop.code, g.count + 1),
           g |-> Restored(test.g, g)]
  <2>1. Piece(tree, s, g) = GenNode(tree, CodeGen(tree), tree[s], g)
    BY PieceIs
  <2>2. Piece(tree, s, g) = GenWhile(tree, CodeGen(tree), tree[s], g)
    BY <2>1 DEF GenNode
  <2> QED BY <2>2 DEF GenWhile, Generated, Test, Piece, LoopLabels
<1>6. IsWhileCode(tree, s, g, loop, test)
  <2>1. /\ loop = Piece(tree, tree[s].body, LoopLabels(g))
        /\ test = Test(tree, tree[s].cond, g.count + 2, g.count + 1, loop.g)
    BY Zenon
  <2> HIDE DEF loop, test
  <2> QED BY <1>2, <1>4, <2>1, Zenon DEF IsWhileCode
<1> HIDE DEF loop, test
<1> QED BY <1>5, <1>6

-----------------------------------------------------------------------------
(* Where lines stand in pieces of code that are put together.              *)

JumpOps == {"goto", "ifz", "ifnz"}
LabelAt(c, k, l) == k \in 1 .. Len(c) /\ c[k].op = "label" /\ c[k].to = l
JumpAt(c, k, l)  == k \in 1 .. Len(c) /\ c[k].op \in JumpOps /\ c[k].to = l
LeafAt(c, k)     == k \in 1 .. Len(c) /\ c[k].op = "leaf"

Labels(c)  == {l \in Nat : \E k \in Nat : LabelAt(c, k, l)}
Targets(c) == {l \in Nat : \E k \in Nat : JumpAt(c, k, l)}

\* No label is placed twice.
Unique(c) == \A l \in Nat : \A j, k \in Nat : LabelAt(c, j, l) /\ LabelAt(c, k, l) => j = k

\* No jump in c goes up.
Forward(c) == \A l \in Nat : \A k, t \in Nat : JumpAt(c, k, l) /\ LabelAt(c, t, l) => k < t

\* A condition is evaluated first thing at line t, and lines t + 1 .. e are
\* entered by the jumps of lines t .. e only.
IsLoop(c, t, e) ==
    /\ LeafAt(c, t + 1) /\ t < e
    /\ \A l \in Nat : \A j, m \in Nat :
            JumpAt(c, j, l) /\ LabelAt(c, m, l) /\ t < m /\ m <= e => t <= j /\ j <= e

\* The jumps that go up do so to the start of a loop that they are in.
Looping(c) ==
    \A l \in Nat : \A k, t \in Nat :
        JumpAt(c, k, l) /\ LabelAt(c, t, l) /\ t <= k => \E e \in Nat : k <= e /\ e <= Len(c) /\ IsLoop(c, t, e)

LEMMA ForwardLooping ==
    ASSUME NEW c, Forward(c)
    PROVE  Looping(c)
BY DEF Forward, Looping

LEMMA LineCases ==
    ASSUME NEW c \in Seq(Lines), NEW d \in Seq(Lines)
    PROVE  /\ c \o d \in Seq(Lines) /\ Len(c \o d) = Len(c) + Len(d)
           /\ Len(c) \in Nat /\ Len(d) \in Nat
           /\ \A k \in 1 .. Len(c) : (c \o d)[k] = c[k]
           /\ \A k \in 1 .. Len(d) : (c \o d)[Len(c) + k] = d[k]
OBVIOUS

LEMMA JoinedLines ==
    ASSUME NEW c \in Seq(Lines), NEW d \in Seq(Lines), NEW k \in Int
    PROVE  /\ \A l : LabelAt(c \o d, k, l) <=> LabelAt(c, k, l) \/ LabelAt(d, k - Len(c), l)
           /\ \A l : JumpAt(c \o d, k, l) <=> JumpAt(c, k, l) \/ JumpAt(d, k - Len(c), l)
           /\ LeafAt(c \o d, k) <=> LeafAt(c, k) \/ LeafAt(d, k - Len(c))
<1> DEFINE b == c \o d
<1>1. /\ b \in Seq(Lines) /\ Len(b) = Len(c) + Len(d)
      /\ Len(c) \in Nat /\ Len(d) \in Nat
      /\ \A i \in 1 .. Len(c) : b[i] = c[i]
      /\ \A i \in 1 .. Len(d) : b[Len(c) + i] = d[i]
  BY LineCases
<1> HIDE DEF b
<1>2. CASE k \in 1 .. Len(c)
  BY <1>1, <1>2 DEF LabelAt, JumpAt, LeafAt, b
<1>3. CASE k - Len(c) \in 1 .. Len(d)
  <2>1. k \in 1 .. Len(b) /\ k \notin 1 .. Len(c) /\ b[k] = d[k - Len(c)]
    <3>1. b[Len(c) + (k - Len(c))] = d[k - Len(c)] /\ Len(c) + (k - Len(c)) = k
      BY <1>1, <1>3
    <3> QED BY <1>1, <1>3, <3>1
  <2> QED BY <1>3, <2>1 DEF LabelAt, JumpAt, LeafAt, b
<1>4. CASE k \notin 1 .. Len(c) /\ k - Len(c) \notin 1 .. Len(d)
  BY <1>1, <1>4 DEF LabelAt, JumpAt, LeafAt, b
<1> QED BY <1>2, <1>3, <1>4

LEMMA JoinedLabels ==
    ASSUME NEW c \in Seq(Lines), NEW d \in Seq(Lines)
    PROVE  Labels(c \o d) = Labels(c) \cup Labels(d) /\ Targets(c \o d) = Targets(c) \cup Targets(d)
<1>0. Len(c) \in Nat /\ Len(d) \in Nat
  OBVIOUS
<1>1. ASSUME NEW l \in Nat PROVE l \in Labels(c \o d) <=> l \in Labels(c) \cup Labels(d)
  <2>1. ASSUME NEW k \in Nat, LabelAt(c \o d, k, l) PROVE l \in Labels(c) \cup Labels(d)
    <3>1. CASE LabelAt(c, k, l)
      BY <3>1 DEF Labels
    <3>2. CASE LabelAt(d, k - Len(c), l)
      <4>1. k - Len(c) \in Nat
        BY <1>0, <3>2 DEF LabelAt
      <4> QED BY <3>2, <4>1 DEF Labels
    <3> QED BY <2>1, <3>1, <3>2, JoinedLines
  <2>2. ASSUME NEW k \in Nat, LabelAt(c, k, l) PROVE LabelAt(c \o d, k, l)
    BY <2>2, JoinedLines
  <2>3. ASSUME NEW k \in Nat, LabelAt(d, k, l) PROVE LabelAt(c \o d, k + Len(c), l)
    <3>1. k + Len(c) \in Int /\ (k + Len(c)) - Len(c) = k
      BY <1>0
    <3> QED BY <2>3, <3>1, JoinedLines
  <2>4. \A k \in Nat : k + Len(c) \in Nat
    BY <1>0
  <2> QED BY <2>1, <2>2, <2>3, <2>4 DEF Labels
<1>2. ASSUME NEW l \in Nat PROVE l \in Targets(c \o d) <=> l \in Targets(c) \cup Targets(d)
  <2>1. ASSUME NEW k \in Nat, JumpAt(c \o d, k, l) PROVE l \in Targets(c) \cup Targets(d)
    <3>1. CASE JumpAt(c, k, l)
      BY <3>1 DEF Targets
    <3>2. CASE JumpAt(d, k - Len(c), l)
      <4>1. k - Len(c) \in Nat
        BY <1>0, <3>2 DEF JumpAt
      <4> QED BY <3>2, <4>1 DEF Targets
    <3> QED BY <2>1, <3>1, <3>2, JoinedLines
  <2>2. ASSUME NEW k \in Nat, JumpAt(c, k, l) PROVE JumpAt(c \o d, k, l)
    BY <2>2, JoinedLines
  <2>3. ASSUME NEW k \in Nat, JumpAt(d, k, l) PROVE JumpAt(c \o d, k + Len(c), l)
    <3>1. k + Len(c) \in Int /\ (k + Len(c)) - Len(c) = k
      BY <1>0
    <3> QED BY <2>3, <3>1, JoinedLines
  <2>4. \A k \in Nat : k + Len(c) \in Nat
    BY <1>0
  <2> QED BY <2>1, <2>2, <2>3, <2>4 DEF Targets
<1>3. /\ Labels(c \o d) \subseteq Nat /\ Labels(c) \cup Labels(d) \subseteq Nat
      /\ Targets(c \o d) \subseteq Nat /\ Targets(c) \cup Targets(d) \subseteq Nat
  BY DEF Labels, Targets
<1> QED BY <1>1, <1>2, <1>3

LEMMA JoinedUnique ==
    ASSUME NEW c \in Seq(Lines), NEW d \in Seq(Lines), Unique(c), Unique(d),
           Labels(c) \cap Labels(d) = {}
    PROVE  Unique(c \o d)
<1>0. Len(c) \in Nat /\ Len(d) \in Nat
  OBVIOUS
<1>1. SUFFICES ASSUME NEW l \in Nat, NEW j \in Nat, NEW k \in Nat,
                      LabelAt(c \o d, j, l), LabelAt(c \o d, k, l)
               PROVE  j = k
  BY DEF Unique
<1>2. /\ LabelAt(c, j, l) \/ LabelAt(d, j - Len(c), l)
      /\ LabelAt(c, k, l) \/ LabelAt(d, k - Len(c), l)
  BY <1>1, JoinedLines
<1>3. \A i \in Nat : LabelAt(d, i - Len(c), l) => i - Len(c) \in Nat
  BY <1>0 DEF LabelAt
<1>4. \A i \in Nat : LabelAt(c, i, l) => l \in Labels(c)
  BY DEF Labels
<1>5. \A i \in Nat : LabelAt(d, i - Len(c), l) => l \in Labels(d)
  BY <1>3 DEF Labels
<1>6. CASE LabelAt(c, j, l) /\ LabelAt(c, k, l)
  BY <1>6 DEF Unique
<1>7. CASE LabelAt(d, j - Len(c), l) /\ LabelAt(d, k - Len(c), l)
  <2>1. j - Len(c) = k - Len(c)
    BY <1>3, <1>7 DEF Unique
  <2> QED BY <1>0, <2>1
<1> QED BY <1>2, <1>4, <1>5, <1>6, <1>7

\* A jump of one part to a label of the other.
LEMMA JumpsBetween ==
    ASSUME NEW c \in Seq(Lines), NEW d \in Seq(Lines),
           NEW l \in Nat, NEW k \in Nat, NEW t \in Nat,
           JumpAt(c \o d, k, l), LabelAt(c \o d, t, l)
    PROVE  \/ JumpAt(c, k, l) /\ LabelAt(c, t, l)
           \/ /\ k - Len(c) \in Nat /\ t - Len(c) \in Nat
              /\ JumpAt(d, k - Len(c), l) /\ LabelAt(d, t - Len(c), l)
           \/ k \in 1 .. Len(c) /\ t > Len(c) /\ l \in Targets(c) /\ l \in Labels(d)
           \/ l \in Targets(d) /\ l \in Labels(c)
<1>0. Len(c) \in Nat /\ Len(d) \in Nat
  OBVIOUS
<1>1. /\ JumpAt(c, k, l) \/ JumpAt(d, k - Len(c), l)
      /\ LabelAt(c, t, l) \/ LabelAt(d, t - Len(c), l)
  BY JoinedLines
<1>2. /\ JumpAt(c, k, l) => l \in Targets(c) /\ k \in 1 .. Len(c)
      /\ LabelAt(c, t, l) => l \in Labels(c)
  BY DEF Targets, Labels, JumpAt
<1>3. /\ JumpAt(d, k - Len(c), l) => k - Len(c) \in Nat
      /\ LabelAt(d, t - Len(c), l) => t - Len(c) \in Nat /\ t > Len(c)
  BY <1>0 DEF JumpAt, LabelAt
<1>4. /\ JumpAt(d, k - Len(c), l) => l \in Targets(d)
      /\ LabelAt(d, t - Len(c), l) => l \in Labels(d)
  BY <1>3 DEF Targets, Labels
<1> QED BY <1>1, <1>2, <1>3, <1>4

LEMMA JoinedForward ==
    ASSUME NEW c \in Seq(Lines), NEW d \in Seq(Lines), Forward(c), Forward(d),
           Targets(d) \cap Labels(c) = {}
    PROVE  Forward(c \o d)
<1>0. Len(c) \in Nat
  OBVIOUS
<1>1. SUFFICES ASSUME NEW l \in Nat, NEW k \in Nat, NEW t \in Nat,
                      JumpAt(c \o d, k, l), LabelAt(c \o d, t, l)
               PROVE  k < t
  BY DEF Forward
<1>2. CASE JumpAt(c, k, l) /\ LabelAt(c, t, l)
  BY <1>2 DEF Forward
<1>3. CASE /\ k - Len(c) \in Nat /\ t - Len(c) \in Nat
           /\ JumpAt(d, k - Len(c), l) /\ LabelAt(d, t - Len(c), l)
  <2>1. k - Len(c) < t - Len(c)
    BY <1>3 DEF Forward
  <2> QED BY <1>0, <2>1
<1>4. CASE k \in 1 .. Len(c) /\ t > Len(c)
  BY <1>0, <1>4
<1> QED BY <1>1, <1>2, <1>3, <1>4, JumpsBetween

\* A loop of the first or of the second part is one of both together when
\* the other part does not jump to its labels.
LEMMA LoopOnTheLeft ==
    ASSUME NEW c \in Seq(Lines), NEW d \in Seq(Lines),
           NEW t \in Nat, NEW e \in Nat, e <= Len(c), IsLoop(c, t, e),
           \A l \in Targets(d) : \A m \in Nat : LabelAt(c, m, l) => m <= t
    PROVE  IsLoop(c \o d, t, e)
<1>0. Len(c) \in Nat /\ t + 1 \in Int
  OBVIOUS
<1>1. LeafAt(c \o d, t + 1)
  BY <1>0, JoinedLines DEF IsLoop
<1>2. ASSUME NEW l \in Nat, NEW j \in Nat, NEW m \in Nat,
             JumpAt(c \o d, j, l), LabelAt(c \o d, m, l), t < m, m <= e
      PROVE  t <= j /\ j <= e
  <2>1. ~(m > Len(c)) /\ ~(m - Len(c) \in Nat /\ LabelAt(d, m - Len(c), l))
    BY <1>0, <1>2 DEF LabelAt
  <2>2. LabelAt(c, m, l)
    <3>1. m \in Int /\ (LabelAt(d, m - Len(c), l) => m - Len(c) \in Nat)
      BY <1>0 DEF LabelAt
    <3> QED BY <1>2, <2>1, <3>1, JoinedLines
  <2>3. l \notin Targets(d)
    <3>1. ~(m <= t)
      BY <1>2
    <3> QED BY <2>2, <3>1
  <2>4. JumpAt(c, j, l)
    BY <1>2, <2>1, <2>3, JumpsBetween
  <2> QED BY <1>2, <2>2, <2>4 DEF IsLoop
<1> QED BY <1>1, <1>2 DEF IsLoop

LEMMA LoopOnTheRight ==
    ASSUME NEW c \in Seq(Lines), NEW d \in Seq(Lines),
           NEW t \in Nat, NEW e \in Nat, IsLoop(d, t, e),
           Targets(c) \cap Labels(d) = {}
    PROVE  IsLoop(c \o d, Len(c) + t, Len(c) + e)
<1>0. Len(c) \in Nat
  OBVIOUS
<1>1. LeafAt(c \o d, Len(c) + t + 1) /\ Len(c) + t < Len(c) + e
  <2>1. Len(c) + t + 1 \in Int /\ (Len(c) + t + 1) - Len(c) = t + 1
    BY <1>0
  <2> QED BY <1>0, <2>1, JoinedLines DEF IsLoop
<1>2. ASSUME NEW l \in Nat, NEW j \in Nat, NEW m \in Nat,
             JumpAt(c \o d, j, l), LabelAt(c \o d, m, l), Len(c) + t < m, m <= Len(c) + e
      PROVE  Len(c) + t <= j /\ j <= Len(c) + e
  <2>1. ~LabelAt(c, m, l)
    BY <1>0, <1>2 DEF LabelAt
  <2>2. LabelAt(d, m - Len(c), l) /\ m - Len(c) \in Nat
    BY <1>0, <1>2, <2>1, JoinedLines DEF LabelAt
  <2>3. l \in Labels(d)
    BY <2>2 DEF Labels
  <2>4. ~JumpAt(c, j, l)
    BY <2>3 DEF Targets
  <2>5. JumpAt(d, j - Len(c), l) /\ j - Len(c) \in Nat
    BY <1>0, <1>2, <2>4, JoinedLines DEF JumpAt
  <2>6. t < m - Len(c) /\ m - Len(c) <= e
    BY <1>0, <1>2
  <2>7. t <= j - Len(c) /\ j - Len(c) <= e
    BY <2>2, <2>5, <2>6 DEF IsLoop
  <2> QED BY <1>0, <2>7
<1> QED BY <1>0, <1>1, <1>2 DEF IsLoop

LEMMA JoinedLooping ==
    ASSUME NEW c \in Seq(Lines), NEW d \in Seq(Lines), Looping(c), Looping(d),
           Targets(d) \cap Labels(c) = {},
           Forward(d) \/ Targets(c) \cap Labels(d) = {}
    PROVE  Looping(c \o d)
<1>0. Len(c) \in Nat /\ Len(d) \in Nat /\ Len(c \o d) = Len(c) + Len(d)
  OBVIOUS
<1>1. SUFFICES ASSUME NEW l \in Nat, NEW k \in Nat, NEW t \in Nat,
                      JumpAt(c \o d, k, l), LabelAt(c \o d, t, l), t <= k
               PROVE  \E e \in Nat : k <= e /\ e <= Len(c \o d) /\ IsLoop(c \o d, t, e)
  BY DEF Looping
<1>2. CASE JumpAt(c, k, l) /\ LabelAt(c, t, l)
  <2>1. PICK e \in Nat : k <= e /\ e <= Len(c) /\ IsLoop(c, t, e)
    BY <1>1, <1>2 DEF Looping
  <2>2. \A i \in Targets(d) : \A m \in Nat : LabelAt(c, m, i) => m <= t
    BY DEF Labels, Targets
  <2>3. IsLoop(c \o d, t, e)
    BY <2>1, <2>2, LoopOnTheLeft
  <2> QED BY <1>0, <2>1, <2>3
<1>3. CASE /\ k - Len(c) \in Nat /\ t - Len(c) \in Nat
           /\ JumpAt(d, k - Len(c), l) /\ LabelAt(d, t - Len(c), l)
  <2>0. t - Len(c) <= k - Len(c)
    BY <1>0, <1>1
  <2>1. PICK e \in Nat : k - Len(c) <= e /\ e <= Len(d) /\ IsLoop(d, t - Len(c), e)
    BY <1>3, <2>0 DEF Looping
  <2>2. Targets(c) \cap Labels(d) = {}
    BY <1>3, <2>0 DEF Forward
  <2>3. IsLoop(c \o d, Len(c) + (t - Len(c)), Len(c) + e)
    BY <1>3, <2>1, <2>2, LoopOnTheRight
  <2>4. Len(c) + (t - Len(c)) = t /\ Len(c) + e \in Nat
        /\ k <= Len(c) + e /\ Len(c) + e <= Len(c \o d)
    BY <1>0, <2>1
  <2> QED BY <2>3, <2>4
<1>4. CASE k \in 1 .. Len(c) /\ t > Len(c)
  BY <1>0, <1>1, <1>4
<1> QED BY <1>1, <1>2, <1>3, <1>4, JumpsBetween

LEMMA JoinedStart ==
    ASSUME NEW c \in Seq(Lines), NEW d \in Seq(Lines), LeafAt(c, 1)
    PROVE  LeafAt(c \o d, 1)
BY JoinedLines

\* Code of one line, and of none.
LEMMA NoLines ==
    /\ << >> \in Seq(Lines) /\ Unique(<< >>) /\ Forward(<< >>)
    /\ Labels(<< >>) = {} /\ Targets(<< >>) = {}
BY DEF Unique, Forward, Labels, Targets, LabelAt, JumpAt

LEMMA OneLine ==
    ASSUME NEW line \in Lines
    PROVE  /\ <<line>> \in Seq(Lines) /\ Unique(<<line>>) /\ Forward(<<line>>)
           /\ Labels(<<line>>) = IF line.op = "label" THEN {line.to} ELSE {}
           /\ Targets(<<line>>) = IF line.op \in JumpOps THEN {line.to} ELSE {}
           /\ line.op = "leaf" => LeafAt(<<line>>, 1)
<1>1. /\ \A k \in Nat, l \in Nat : LabelAt(<<line>>, k, l) <=> k = 1 /\ line.op = "label" /\ line.to = l
      /\ \A k \in Nat, l \in Nat : JumpAt(<<line>>, k, l) <=> k = 1 /\ line.op \in JumpOps /\ line.to = l
  BY DEF LabelAt, JumpAt
<1>2. line.op \in JumpOps \cup {"label"} => line.to \in Nat
  BY DEF Lines, JumpOps
<1>3. line.op \in JumpOps => line.op # "label"
  BY DEF JumpOps
<1>4. Unique(<<line>>) /\ Forward(<<line>>)
  BY <1>1, <1>3 DEF Unique, Forward
<1>5. Labels(<<line>>) = IF line.op = "label" THEN {line.to} ELSE {}
  BY <1>1, <1>2 DEF Labels
<1>6. Targets(<<line>>) = IF line.op \in JumpOps THEN {line.to} ELSE {}
  BY <1>1, <1>2 DEF Targets
<1>7. line.op = "leaf" => LeafAt(<<line>>, 1)
  BY DEF LeafAt
<1> QED BY <1>4, <1>5, <1>6, <1>7

LEMMA LabelLine ==
    ASSUME NEW l \in Nat
    PROVE  /\ <<Label(l)>> \in Seq(Lines) /\ Unique(<<Label(l)>>) /\ Forward(<<Label(l)>>)
           /\ Labels(<<Label(l)>>) = {l} /\ Targets(<<Label(l)>>) = {}
<1>1. Label(l) \in Lines /\ Label(l).op = "label" /\ Label(l).to = l /\ Label(l).op \notin JumpOps
  BY LabelLines DEF Label, JumpOps
<1> QED BY <1>1, OneLine

LEMMA JumpLine ==
    ASSUME NEW l \in Nat, NEW line \in {Goto(l), IfZero(l), IfNonzero(l)}
    PROVE  /\ <<line>> \in Seq(Lines) /\ Unique(<<line>>) /\ Forward(<<line>>)
           /\ Labels(<<line>>) = {} /\ Targets(<<line>>) = {l}
<1>1. line \in Lines
  BY LabelLines
<1>2. line.op \in JumpOps /\ line.to = l /\ line.op # "label"
  BY DEF Goto, IfZero, IfNonzero, JumpOps
<1> QED BY <1>1, <1>2, OneLine

LEMMA GotoLabelLines ==
    ASSUME NEW a \in Nat, NEW b \in Nat
    PROVE  /\ <<Goto(a), Label(b)>> \in Seq(Lines)
           /\ Unique(<<Goto(a), Label(b)>>) /\ Forward(<<Goto(a), Label(b)>>)
           /\ Labels(<<Goto(a), Label(b)>>) = {b} /\ Targets(<<Goto(a), Label(b)>>) = {a}
<1>1. <<Goto(a), Label(b)>> = <<Goto(a)>> \o <<Label(b)>>
  OBVIOUS
<1>2. /\ <<Goto(a)>> \in Seq(Lines) /\ Unique(<<Goto(a)>>) /\ Forward(<<Goto(a)>>)
      /\ Labels(<<Goto(a)>>) = {} /\ Targets(<<Goto(a)>>) = {a}
  BY JumpLine
<1>3. /\ <<Label(b)>> \in Seq(Lines) /\ Unique(<<Label(b)>>) /\ Forward(<<Label(b)>>)
      /\ Labels(<<Label(b)>>) = {b} /\ Targets(<<Label(b)>>) = {}
  BY LabelLine
<1>4. <<Goto(a)>> \o <<Label(b)>> \in Seq(Lines)
  BY <1>2, <1>3
<1> HIDE DEF Goto, Label
<1>5. Unique(<<Goto(a)>> \o <<Label(b)>>) /\ Forward(<<Goto(a)>> \o <<Label(b)>>)
  BY <1>2, <1>3, JoinedUnique, JoinedForward
<1>6. Labels(<<Goto(a)>> \o <<Label(b)>>) = {b} /\ Targets(<<Goto(a)>> \o <<Label(b)>>) = {a}
  BY <1>2, <1>3, JoinedLabels
<1> QED BY <1>1, <1>4, <1>5, <1>6

-----------------------------------------------------------------------------
(* The labels and jumps of a condition.                                    *)

Between(a, b) == {l \in Nat : a <= l /\ l < b}

\* r is what traverse() returns: it places fresh labels, jumps down to them
\* and to those of T and F that control does not fall to.
IsTestCode(r, T, F, g) ==
    /\ Unique(r.code) /\ Forward(r.code) /\ LeafAt(r.code, 1)
    /\ Labels(r.code) \subseteq Between(g.count, r.g.count)
    /\ Targets(r.code) \subseteq Labels(r.code) \cup ({T, F} \ {g.fall})

LEMMA BranchLabels ==
    ASSUME NEW T \in Nat, NEW F \in Nat, NEW g \in LabelState
    PROVE  /\ Branch(T, F, g) \in Seq(Lines) /\ Unique(Branch(T, F, g)) /\ Forward(Branch(T, F, g))
           /\ Labels(Branch(T, F, g)) = {} /\ Targets(Branch(T, F, g)) \subseteq {T, F} \ {g.fall}
<1>1. CASE F # g.fall
  <2>1. Branch(T, F, g) = <<IfZero(F)>>
    BY <1>1 DEF Branch
  <2>2. /\ <<IfZero(F)>> \in Seq(Lines) /\ Unique(<<IfZero(F)>>) /\ Forward(<<IfZero(F)>>)
        /\ Labels(<<IfZero(F)>>) = {} /\ Targets(<<IfZero(F)>>) = {F}
    BY JumpLine
  <2> QED BY <1>1, <2>1, <2>2
<1>2. CASE F = g.fall /\ T # g.fall
  <2>1. Branch(T, F, g) = <<IfNonzero(T)>>
    BY <1>2 DEF Branch
  <2>2. /\ <<IfNonzero(T)>> \in Seq(Lines) /\ Unique(<<IfNonzero(T)>>) /\ Forward(<<IfNonzero(T)>>)
        /\ Labels(<<IfNonzero(T)>>) = {} /\ Targets(<<IfNonzero(T)>>) = {T}
    BY JumpLine
  <2> QED BY <1>2, <2>1, <2>2
<1>3. CASE F = g.fall /\ T = g.fall
  <2>1. Branch(T, F, g) = << >>
    BY <1>3 DEF Branch
  <2> QED BY <2>1, NoLines
<1> QED BY <1>1, <1>2, <1>3

LEMMA LeafTestCode ==
    ASSUME NEW tree, IsTree(tree), NEW c \in Conditions(tree), tree[c].op = "leaf",
           NEW T \in Nat, NEW F \in Nat, NEW g \in LabelState
    PROVE  IsTestCode(Test(tree, c, T, F, g), T, F, g)
<1> DEFINE branch == Branch(T, F, g)
           line == <<tree[c]>>
<1>1. tree[c] \in Lines
  BY ConditionForms DEF Lines
<1>2. /\ line \in Seq(Lines) /\ Unique(line) /\ Forward(line)
      /\ Labels(line) = {} /\ Targets(line) = {} /\ LeafAt(line, 1)
  <2>1. tree[c].op \notin JumpOps /\ tree[c].op # "label"
    BY DEF JumpOps
  <2> QED BY <1>1, <2>1, OneLine
<1>3. /\ branch \in Seq(Lines) /\ Unique(branch) /\ Forward(branch)
      /\ Labels(branch) = {} /\ Targets(branch) \subseteq {T, F} \ {g.fall}
  BY BranchLabels
<1> HIDE DEF line, branch
<1>4. Unique(line \o branch) /\ Forward(line \o branch) /\ LeafAt(line \o branch, 1)
  BY <1>2, <1>3, JoinedUnique, JoinedForward, JoinedStart
<1>5. Labels(line \o branch) = {} /\ Targets(line \o branch) \subseteq {T, F} \ {g.fall}
  BY <1>2, <1>3, JoinedLabels
<1>6. Test(tree, c, T, F, g).code = line \o branch
  <2>1. Test(tree, c, T, F, g).code = LeafLines(tree[c], T, F, g)
    BY LeafCode
  <2> QED BY <2>1 DEF line, branch, LeafLines
<1> QED BY <1>4, <1>5, <1>6 DEF IsTestCode

LEMMA BinaryTestCode ==
    ASSUME NEW tree, IsTree(tree), NEW c \in Conditions(tree), tree[c].op # "leaf",
           NEW T \in Nat, NEW F \in Nat, NEW g \in LabelState,
           T < g.count, F < g.count, g.fall < g.count,
           \A r \in Conditions(tree) : r < c =>
              \A t, f \in Nat, k \in LabelState :
                 t < k.count /\ f < k.count /\ k.fall < k.count
                    => IsTestCode(Test(tree, r, t, f, k), t, f, k)
    PROVE  IsTestCode(Test(tree, c, T, F, g), T, F, g)
<1> DEFINE cond == tree[c]
           isAnd == cond.op = "land"
<1>0. PICK lhs, rhs :
         \E isFresh \in BOOLEAN, target \in Nat :
            /\ IsBinaryCode(tree, c, T, F, g, lhs, rhs, isFresh, target)
            /\ Test(tree, c, T, F, g)
                  = [code |-> lhs.code \o rhs.code \o Placed(isFresh, target), g |-> rhs.g]
  BY BinaryCode, Zenon
<1>1. PICK isFresh \in BOOLEAN, target \in Nat :
            /\ IsBinaryCode(tree, c, T, F, g, lhs, rhs, isFresh, target)
            /\ Test(tree, c, T, F, g)
                  = [code |-> lhs.code \o rhs.code \o Placed(isFresh, target), g |-> rhs.g]
  BY <1>0
<1> DEFINE before == IF isFresh THEN NewLabels(g, 1) ELSE g
           t1 == IF isAnd THEN g.fall ELSE target
           f1 == IF isAnd THEN target ELSE g.fall
<1>2. /\ isFresh = (g.fall = IF isAnd THEN F ELSE T)
      /\ target = IF isFresh THEN g.count ELSE IF isAnd THEN F ELSE T
      /\ lhs = Test(tree, cond.lhs, t1, f1, before)
      /\ rhs = Test(tree, cond.rhs, T, F, lhs.g)
      /\ before \in LabelState /\ before \in Later(g)
      /\ lhs.code \in Seq(Lines) /\ lhs.g \in LabelState /\ lhs.g \in Later(before)
      /\ rhs.code \in Seq(Lines) /\ rhs.g \in LabelState /\ rhs.g \in Later(lhs.g)
  BY <1>1, Zenon DEF IsBinaryCode
<1>3. /\ cond.lhs \in Conditions(tree) /\ cond.lhs < c
      /\ cond.rhs \in Conditions(tree) /\ cond.rhs < c
  BY ConditionForms
<1>4. /\ g.count \in Nat /\ g.fall \in Nat /\ before.count \in Nat /\ before.fall = g.fall
      /\ lhs.g.count \in Nat /\ rhs.g.count \in Nat /\ lhs.g.fall = g.fall
      /\ g.count <= before.count /\ before.count <= lhs.g.count /\ lhs.g.count <= rhs.g.count
  <2> HIDE DEF before
  <2> QED BY <1>2 DEF Later, LabelState
<1>5. isFresh => target = g.count /\ before.count = g.count + 1
  BY <1>2, NewLabelsLater
<1>6. ~isFresh => target \in {T, F}
  BY <1>2
<1>7. target # g.fall /\ target < before.count
  <2>1. CASE isFresh
    <3> HIDE DEF before
    <3> QED BY <1>4, <1>5, <2>1
  <2>2. CASE ~isFresh
    <3>1. target = (IF isAnd THEN F ELSE T) /\ g.fall # (IF isAnd THEN F ELSE T)
      BY <1>2, <2>2, Zenon
    <3> HIDE DEF before, isAnd
    <3> QED BY <1>4, <3>1
  <2> QED BY <2>1, <2>2
<1> HIDE DEF before
<1>8. IsTestCode(lhs, t1, f1, before)
  <2>1. t1 \in Nat /\ f1 \in Nat /\ t1 < before.count /\ f1 < before.count /\ before.fall < before.count
    BY <1>4, <1>7
  <2> HIDE DEF t1, f1, cond
  <2> QED BY <1>2, <1>3, <2>1
<1>9. IsTestCode(rhs, T, F, lhs.g)
  <2>1. T < lhs.g.count /\ F < lhs.g.count /\ lhs.g.fall < lhs.g.count
    BY <1>4
  <2> HIDE DEF cond
  <2> QED BY <1>2, <1>3, <2>1
<1> DEFINE both == lhs.code \o rhs.code
           end == Placed(isFresh, target)
<1>10. /\ Labels(lhs.code) \subseteq Between(before.count, lhs.g.count)
       /\ Targets(lhs.code) \subseteq Labels(lhs.code) \cup {target}
       /\ Labels(rhs.code) \subseteq Between(lhs.g.count, rhs.g.count)
       /\ Targets(rhs.code) \subseteq Labels(rhs.code) \cup ({T, F} \ {g.fall})
       /\ Unique(lhs.code) /\ Forward(lhs.code) /\ LeafAt(lhs.code, 1)
       /\ Unique(rhs.code) /\ Forward(rhs.code)
  <2>1. {t1, f1} \ {before.fall} = {target}
    BY <1>4, <1>7
  <2> HIDE DEF t1, f1
  <2> QED BY <1>4, <1>8, <1>9, <2>1 DEF IsTestCode
<1>11. /\ Labels(lhs.code) \cap Labels(rhs.code) = {}
       /\ Targets(rhs.code) \cap Labels(lhs.code) = {}
  BY <1>4, <1>10 DEF Between
<1>12. /\ both \in Seq(Lines) /\ Unique(both) /\ Forward(both) /\ LeafAt(both, 1)
       /\ Labels(both) = Labels(lhs.code) \cup Labels(rhs.code)
       /\ Targets(both) = Targets(lhs.code) \cup Targets(rhs.code)
  <2>1. lhs.code \in Seq(Lines) /\ rhs.code \in Seq(Lines)
    BY <1>2
  <2>2. both \in Seq(Lines)
    BY <2>1
  <2>3. Unique(both) /\ Forward(both) /\ LeafAt(both, 1)
    BY <1>10, <1>11, <2>1, JoinedUnique, JoinedForward, JoinedStart
  <2> QED BY <2>1, <2>2, <2>3, JoinedLabels
<1>13. /\ end \in Seq(Lines) /\ Unique(end) /\ Forward(end) /\ Targets(end) = {}
       /\ Labels(end) = IF isFresh THEN {g.count} ELSE {}
  <2>1. CASE isFresh
    <3>1. end = <<Label(target)>>
      BY <2>1 DEF Placed
    <3> QED BY <1>5, <2>1, <3>1, LabelLine
  <2>2. CASE ~isFresh
    <3>1. end = << >>
      BY <2>2 DEF Placed
    <3> QED BY <2>2, <3>1, NoLines
  <2> QED BY <2>1, <2>2
<1> HIDE DEF both, end
<1>14. Labels(both) \cap Labels(end) = {}
  BY <1>4, <1>5, <1>10, <1>12, <1>13 DEF Between
<1>15. /\ Unique(both \o end) /\ Forward(both \o end) /\ LeafAt(both \o end, 1)
       /\ Labels(both \o end) = Labels(both) \cup Labels(end)
       /\ Targets(both \o end) = Targets(both) \cup Targets(end)
  BY <1>12, <1>13, <1>14, JoinedUnique, JoinedForward, JoinedStart, JoinedLabels
<1>16. Labels(both \o end) \subseteq Between(g.count, rhs.g.count)
  <2>1. Between(before.count, lhs.g.count) \cup Between(lhs.g.count, rhs.g.count)
            \subseteq Between(g.count, rhs.g.count)
    BY <1>4 DEF Between
  <2>2. Labels(end) \subseteq Between(g.count, rhs.g.count)
    <3>1. isFresh => g.count < rhs.g.count
      BY <1>4, <1>5
    <3> QED BY <1>4, <1>13, <3>1 DEF Between
  <2> QED BY <1>10, <1>12, <1>15, <2>1, <2>2
<1>17. Targets(both \o end) \subseteq Labels(both \o end) \cup ({T, F} \ {g.fall})
  <2>1. isFresh => target \in Labels(end)
    BY <1>5, <1>13
  <2>2. ~isFresh => target \in {T, F} \ {g.fall}
    BY <1>6, <1>7
  <2> QED BY <1>10, <1>12, <1>13, <1>15, <2>1, <2>2
<1>18. Test(tree, c, T, F, g).code = both \o end /\ Test(tree, c, T, F, g).g = rhs.g
  <2>1. Test(tree, c, T, F, g) = [code |-> both \o end, g |-> rhs.g]
    BY <1>1 DEF both, end
  <2> QED BY <2>1
<1> QED BY <1>15, <1>16, <1>17, <1>18 DEF IsTestCode

\* What traverse() returns for a condition of any shape.
LEMMA TestCode ==
    ASSUME NEW tree, IsTree(tree), NEW c \in Conditions(tree),
           NEW T \in Nat, NEW F \in Nat, NEW g \in LabelState,
           T < g.count, F < g.count, g.fall < g.count
    PROVE  IsTestCode(Test(tree, c, T, F, g), T, F, g)
<1> DEFINE C == Conditions(tree)
           Fine(r) == \A t, f \in Nat, k \in LabelState :
                         t < k.count /\ f < k.count /\ k.fall < k.count
                            => IsTestCode(Test(tree, r, t, f, k), t, f, k)
           Good == {r \in C : Fine(r)}
<1>1. ASSUME NEW r \in C, \A q \in C : q < r => q \in Good PROVE r \in Good
  <2>1. ASSUME NEW t \in Nat, NEW f \in Nat, NEW k \in LabelState,
               t < k.count, f < k.count, k.fall < k.count
        PROVE  IsTestCode(Test(tree, r, t, f, k), t, f, k)
    <3>1. CASE tree[r].op = "leaf"
      BY <3>1, LeafTestCode
    <3>2. CASE tree[r].op # "leaf"
      <4>1. \A q \in C : q < r => Fine(q)
        BY <1>1
      <4> QED BY <2>1, <3>2, <4>1, BinaryTestCode
    <3> QED BY <3>1, <3>2
  <2> QED BY <2>1
<1>2. C \in SUBSET Nat
  <2>1. C \in SUBSET (0 .. Len(tree)) /\ Len(tree) \in Nat
    BY TreeSize
  <2> HIDE DEF C
  <2> QED BY <2>1
<1>3. c \in Good
  <2> HIDE DEF Good, C
  <2>1. \A r \in C : r \in Good
    BY <1>1, <1>2, StrongInduction
  <2>2. c \in C
    BY DEF C
  <2> QED BY <2>1, <2>2
<1> QED BY <1>3

-----------------------------------------------------------------------------
(* The labels and jumps of a statement.                                    *)

LEMMA JoinedCode ==
    ASSUME NEW c \in Seq(Lines), NEW d \in Seq(Lines), Unique(c), Unique(d),
           Looping(c), Looping(d),
           Labels(c) \cap Labels(d) = {}, Targets(d) \cap Labels(c) = {},
           Forward(d) \/ Targets(c) \cap Labels(d) = {}
    PROVE  /\ c \o d \in Seq(Lines) /\ Unique(c \o d) /\ Looping(c \o d)
           /\ Labels(c \o d) = Labels(c) \cup Labels(d)
           /\ Targets(c \o d) = Targets(c) \cup Targets(d)
<1>1. c \o d \in Seq(Lines)
  OBVIOUS
<1>2. Unique(c \o d) /\ Looping(c \o d)
  BY JoinedUnique, JoinedLooping
<1> QED BY <1>1, <1>2, JoinedLabels

\* A loop put around code that begins with its condition.
LEMMA AroundLooping ==
    ASSUME NEW c \in Seq(Lines), LeafAt(c, 1), Unique(c), Looping(c),
           NEW start \in Nat, NEW next \in Nat, start # next,
           start \notin Labels(c), next \notin Labels(c)
    PROVE  LET b == <<Label(start)>> \o c \o <<Goto(start), Label(next)>>
           IN  /\ b \in Seq(Lines) /\ Unique(b) /\ Looping(b)
               /\ Labels(b) = Labels(c) \cup {start, next}
               /\ Targets(b) = Targets(c) \cup {start}
<1> DEFINE a == <<Label(start)>>
           d == <<Goto(start), Label(next)>>
           ac == a \o c
           b == ac \o d
<1>1. /\ a \in Seq(Lines) /\ Unique(a) /\ Forward(a) /\ Labels(a) = {start} /\ Targets(a) = {}
      /\ d \in Seq(Lines) /\ Unique(d) /\ Forward(d) /\ Labels(d) = {next} /\ Targets(d) = {start}
  BY LabelLine, GotoLabelLines
<1>2. Len(a) = 1 /\ LabelAt(a, 1, start)
  BY DEF LabelAt, Label
<1> HIDE DEF a, d
<1>3. /\ ac \in Seq(Lines) /\ Unique(ac)
      /\ Labels(ac) = Labels(c) \cup {start} /\ Targets(ac) = Targets(c)
  <2>1. Labels(a) \cap Labels(c) = {}
    BY <1>1
  <2>2. Unique(ac)
    BY <1>1, <2>1, JoinedUnique
  <2>3. ac \in Seq(Lines)
    BY <1>1
  <2>4. Labels(ac) = Labels(a) \cup Labels(c) /\ Targets(ac) = Targets(a) \cup Targets(c)
    BY <1>1, JoinedLabels
  <2> QED BY <1>1, <2>2, <2>3, <2>4
<1>4. LabelAt(ac, 1, start) /\ LeafAt(ac, 2) /\ Len(ac) >= 2 /\ Len(ac) \in Nat
  <2>1. LabelAt(ac, 1, start)
    BY <1>1, <1>2, JoinedLines
  <2>2. LeafAt(ac, 2)
    <3>1. 2 \in Int /\ 2 - Len(a) = 1
      BY <1>2
    <3> QED BY <1>1, <3>1, JoinedLines
  <2>3. Len(ac) \in Nat
    BY <1>3
  <2> QED BY <2>1, <2>2, <2>3 DEF LeafAt
<1> HIDE DEF ac
<1>5. /\ b \in Seq(Lines) /\ Unique(b)
      /\ Labels(b) = Labels(c) \cup {start, next} /\ Targets(b) = Targets(c) \cup {start}
  <2>1. Labels(ac) \cap Labels(d) = {}
    BY <1>1, <1>3
  <2>2. Unique(b)
    BY <1>1, <1>3, <2>1, JoinedUnique
  <2>3. b \in Seq(Lines)
    BY <1>1, <1>3
  <2>4. Labels(b) = Labels(ac) \cup Labels(d) /\ Targets(b) = Targets(ac) \cup Targets(d)
    BY <1>1, <1>3, JoinedLabels
  <2> QED BY <1>1, <1>3, <2>2, <2>3, <2>4
<1>6. LabelAt(b, 1, start) /\ LeafAt(b, 2) /\ Len(b) \in Nat /\ Len(b) >= 2
  <2>1. Len(d) \in Nat /\ Len(b) = Len(ac) + Len(d)
    BY <1>1, <1>3
  <2> QED BY <1>1, <1>3, <1>4, <2>1, JoinedLines
<1>7. ASSUME NEW l \in Nat, NEW k \in Nat, NEW t \in Nat, JumpAt(b, k, l), LabelAt(b, t, l), t <= k
      PROVE  \E e \in Nat : k <= e /\ e <= Len(b) /\ IsLoop(b, t, e)
  <2>1. CASE l = start
    <3>1. t = 1
      BY <1>5, <1>6, <1>7, <2>1 DEF Unique
    <3>2. IsLoop(b, 1, Len(b))
      BY <1>6 DEF IsLoop, JumpAt
    <3> QED BY <1>6, <1>7, <3>1, <3>2 DEF JumpAt
  <2>2. CASE l # start
    <3>1. JumpAt(ac, k, l) /\ LabelAt(ac, t, l)
      <4>1. l \notin Targets(d)
        BY <1>1, <2>2
      <4>2. ~(k \in 1 .. Len(ac) /\ t > Len(ac))
        BY <1>4, <1>7
      <4>3. \A i \in Nat : ~JumpAt(d, i, l)
        BY <4>1 DEF Targets
      <4> QED BY <1>1, <1>3, <1>7, <4>1, <4>2, <4>3, JumpsBetween
    <3>2. k - 1 \in Nat /\ t - 1 \in Nat /\ JumpAt(c, k - 1, l) /\ LabelAt(c, t - 1, l)
      <4>1. l \notin Targets(a) /\ l \notin Labels(a)
        BY <1>1, <2>2
      <4>2. ~JumpAt(a, k, l)
        BY <4>1 DEF Targets
      <4> QED BY <1>1, <1>2, <1>7, <3>1, <4>1, <4>2, JumpsBetween DEF ac
    <3>3. PICK e \in Nat : k - 1 <= e /\ e <= Len(c) /\ IsLoop(c, t - 1, e)
      <4>1. t - 1 <= k - 1
        BY <1>7
      <4> QED BY <3>2, <4>1 DEF Looping
    <3>4. IsLoop(ac, t, e + 1)
      <4>1. Targets(a) \cap Labels(c) = {}
        BY <1>1
      <4>2. IsLoop(ac, Len(a) + (t - 1), Len(a) + e)
        BY <1>1, <3>2, <3>3, <4>1, LoopOnTheRight DEF ac
      <4>3. Len(a) + (t - 1) = t /\ Len(a) + e = e + 1
        BY <1>2
      <4> QED BY <4>2, <4>3
    <3>5. e + 1 <= Len(ac) /\ Len(ac) <= Len(b) /\ k <= e + 1
      <4>1. Len(ac) = Len(a) + Len(c) /\ Len(b) = Len(ac) + Len(d) /\ Len(c) \in Nat /\ Len(d) \in Nat
        BY <1>1, <1>3 DEF ac
      <4> QED BY <1>2, <1>4, <3>3, <4>1
    <3>6. \A i \in Targets(d) : \A m \in Nat : LabelAt(ac, m, i) => m <= t
      <4>1. \A m \in Nat : LabelAt(ac, m, start) => m = 1
        BY <1>3, <1>4 DEF Unique
      <4> QED BY <1>1, <3>2, <4>1
    <3>7. IsLoop(b, t, e + 1)
      BY <1>1, <1>3, <3>4, <3>5, <3>6, LoopOnTheLeft
    <3> QED BY <3>5, <3>7
  <2> QED BY <2>1, <2>2
<1>8. Looping(b)
  BY <1>7 DEF Looping
<1> QED BY <1>5, <1>8 DEF a, d, ac

\* r is what linesgen of a statement returns, isOut tells whether it leaves a
\* loop around it: it places fresh labels, and jumps to them or out of it.
Outer(isOut, g) == IF isOut THEN {g.start, g.next} ELSE {}

IsPieceCode(r, isOut, g) ==
    /\ Unique(r.code) /\ Looping(r.code)
    /\ Labels(r.code) \subseteq Between(g.count, r.g.count)
    /\ Targets(r.code) \subseteq Labels(r.code) \cup Outer(isOut, g)

LEMMA OneLinePiece ==
    ASSUME NEW tree, IsTree(tree), NEW s \in Statements(tree), NEW g \in LabelState,
           tree[s].op \notin {"items", "if", "while"}
    PROVE  IsPieceCode(Piece(tree, s, g), JumpsOut(tree)[s], g)
<1> DEFINE r == Piece(tree, s, g)
<1>0. JumpsOut(tree)[s] <=> tree[s].op \in {"break", "continue"}
  <2>1. JumpsOut(tree)[s] = OutOf(tree, JumpsOut(tree), tree[s])
    BY OutEquationHolds DEF OutEquation
  <2>2. OutOf(tree, JumpsOut(tree), tree[s]) <=> tree[s].op \in {"break", "continue"}
    BY DEF OutOf
  <2> QED BY <2>1, <2>2, Zenon
<1>1. g.start \in Nat /\ g.next \in Nat
  BY DEF LabelState
<1>2. CASE tree[s].op \in {"simple", "return"}
  <2>1. tree[s] \in Lines /\ tree[s].op # "label" /\ tree[s].op \notin JumpOps
    BY <1>2, StatementForms DEF Lines, JumpOps
  <2>2. r.code = <<tree[s]>>
    <3>1. r = [code |-> <<tree[s]>>, g |-> g]
      BY <1>2, OneLineCode
    <3> QED BY <3>1
  <2>3. /\ Unique(<<tree[s]>>) /\ Forward(<<tree[s]>>)
        /\ Labels(<<tree[s]>>) = {} /\ Targets(<<tree[s]>>) = {}
    BY <2>1, OneLine
  <2> HIDE DEF r
  <2>4. Unique(r.code) /\ Forward(r.code) /\ Labels(r.code) = {} /\ Targets(r.code) = {}
    BY <2>2, <2>3
  <2> QED BY <2>4, ForwardLooping DEF IsPieceCode, r
<1>3. CASE tree[s].op \in {"empty", "none"}
  <2>1. r.code = << >>
    <3>1. r = [code |-> << >>, g |-> g]
      BY <1>3, OneLineCode
    <3> QED BY <3>1
  <2> HIDE DEF r
  <2>2. Unique(r.code) /\ Forward(r.code) /\ Labels(r.code) = {} /\ Targets(r.code) = {}
    BY <2>1, NoLines
  <2> QED BY <2>2, ForwardLooping DEF IsPieceCode, r
<1>4. CASE tree[s].op \in {"break", "continue"}
  <2>1. PICK l \in {g.start, g.next} : r.code = <<Goto(l)>>
    <3>1. tree[s].op = "break" => r = [code |-> <<Goto(g.next)>>, g |-> g]
      BY OneLineCode
    <3>2. tree[s].op = "continue" => r = [code |-> <<Goto(g.start)>>, g |-> g]
      BY OneLineCode
    <3> QED BY <1>4, <3>1, <3>2
  <2> HIDE DEF r
  <2>2. l \in Nat
    BY <1>1
  <2>3. Unique(r.code) /\ Forward(r.code) /\ Labels(r.code) = {} /\ Targets(r.code) = {l}
    BY <2>1, <2>2, JumpLine
  <2>4. Outer(JumpsOut(tree)[s], g) = {g.start, g.next}
    BY <1>0, <1>4 DEF Outer
  <2> QED BY <2>3, <2>4, ForwardLooping DEF IsPieceCode, r
<1> QED BY <1>2, <1>3, <1>4, StatementForms

LEMMA ItemsPiece ==
    ASSUME NEW tree, IsTree(tree), NEW s \in Statements(tree), NEW g \in LabelState,
           tree[s].op = "items", Outer(JumpsOut(tree)[s], g) \subseteq Between(0, g.count),
           \A r \in Statements(tree) : r < s => \A k \in LabelState :
              Outer(JumpsOut(tree)[r], k) \subseteq Between(0, k.count)
                 => IsPieceCode(Piece(tree, r, k), JumpsOut(tree)[r], k)
    PROVE  IsPieceCode(Piece(tree, s, g), JumpsOut(tree)[s], g)
<1> DEFINE node == tree[s]
           out == JumpsOut(tree)
<1>0. out[s] = (out[node.front] \/ out[node.item])
  <2>1. JumpsOut(tree)[s] = OutOf(tree, JumpsOut(tree), tree[s])
    BY OutEquationHolds DEF OutEquation
  <2> QED BY <2>1 DEF OutOf
<1>1. PICK front, item :
         /\ IsItemsCode(tree, s, g, front, item)
         /\ Piece(tree, s, g) = [code |-> front.code \o item.code, g |-> item.g]
  BY ItemsCode, Zenon
<1>2. /\ front = Piece(tree, node.front, g)
      /\ item = Piece(tree, node.item, front.g)
      /\ front.code \in Seq(Lines) /\ front.g \in LabelState /\ front.g \in Later(g)
      /\ item.code \in Seq(Lines) /\ item.g \in LabelState /\ item.g \in Later(front.g)
  BY <1>1, Zenon DEF IsItemsCode
<1>3. node.front \in Statements(tree) /\ node.front < s /\ node.item \in Statements(tree) /\ node.item < s
  BY StatementForms
<1>4. /\ g.count \in Nat /\ front.g.count \in Nat /\ item.g.count \in Nat
      /\ g.count <= front.g.count /\ front.g.count <= item.g.count
      /\ front.g.start = g.start /\ front.g.next = g.next
  BY <1>2 DEF Later, LabelState
<1>5. /\ Outer(out[node.front], g) \subseteq Outer(out[s], g)
      /\ Outer(out[node.item], front.g) \subseteq Outer(out[s], g)
      /\ Outer(out[s], g) \subseteq Between(0, g.count)
      /\ Between(0, g.count) \subseteq Between(0, front.g.count)
  <2>1. out[node.front] => out[s]
    BY <1>0
  <2>2. out[node.item] => out[s]
    BY <1>0
  <2>3. Between(0, g.count) \subseteq Between(0, front.g.count)
    BY <1>4 DEF Between
  <2> HIDE DEF out, node
  <2> QED BY <1>4, <2>1, <2>2, <2>3 DEF Outer, out
<1>6. IsPieceCode(front, out[node.front], g)
  <2>1. Outer(out[node.front], g) \subseteq Between(0, g.count)
    BY <1>5
  <2> HIDE DEF node
  <2> QED BY <1>2, <1>3, <2>1
<1>7. IsPieceCode(item, out[node.item], front.g)
  <2>1. Outer(out[node.item], front.g) \subseteq Between(0, front.g.count)
    BY <1>5
  <2> HIDE DEF node
  <2> QED BY <1>2, <1>3, <2>1
<1>8. /\ Labels(front.code) \subseteq Between(g.count, front.g.count)
      /\ Labels(item.code) \subseteq Between(front.g.count, item.g.count)
      /\ Targets(front.code) \subseteq Labels(front.code) \cup Outer(out[s], g)
      /\ Targets(item.code) \subseteq Labels(item.code) \cup Outer(out[s], g)
      /\ Unique(front.code) /\ Looping(front.code) /\ Unique(item.code) /\ Looping(item.code)
  BY <1>5, <1>6, <1>7 DEF IsPieceCode
<1>9. /\ Labels(front.code) \cap Labels(item.code) = {}
      /\ Outer(out[s], g) \cap Labels(front.code) = {}
      /\ Outer(out[s], g) \cap Labels(item.code) = {}
  <2>1. /\ Between(g.count, front.g.count) \cap Between(front.g.count, item.g.count) = {}
        /\ Between(0, g.count) \cap Between(g.count, front.g.count) = {}
        /\ Between(0, g.count) \cap Between(front.g.count, item.g.count) = {}
    BY <1>4 DEF Between
  <2> QED BY <1>5, <1>8, <2>1
<1> DEFINE c == front.code
           d == item.code
<1>10. c \in Seq(Lines) /\ d \in Seq(Lines)
  BY <1>2
<1>11. Targets(d) \cap Labels(c) = {} /\ Targets(c) \cap Labels(d) = {}
  BY <1>8, <1>9
<1>12. /\ Unique(c \o d) /\ Looping(c \o d)
       /\ Labels(c \o d) = Labels(c) \cup Labels(d)
       /\ Targets(c \o d) = Targets(c) \cup Targets(d)
  BY <1>8, <1>9, <1>10, <1>11, JoinedCode
<1>13. Labels(c \o d) \subseteq Between(g.count, item.g.count)
  <2>1. /\ Between(g.count, front.g.count) \subseteq Between(g.count, item.g.count)
        /\ Between(front.g.count, item.g.count) \subseteq Between(g.count, item.g.count)
    BY <1>4 DEF Between
  <2> QED BY <1>8, <1>12, <2>1
<1>14. Piece(tree, s, g).code = c \o d /\ Piece(tree, s, g).g = item.g
  <2>1. Piece(tree, s, g) = [code |-> c \o d, g |-> item.g]
    BY <1>1, Zenon
  <2> HIDE DEF c, d
  <2> QED BY <2>1
<1> HIDE DEF c, d
<1> QED BY <1>8, <1>12, <1>13, <1>14 DEF IsPieceCode, c, d

\* An if put together from pieces whose labels do not meet.
LEMMA IfElseJoined ==
    ASSUME NEW test \in Seq(Lines), NEW then \in Seq(Lines), NEW else \in Seq(Lines),
           Unique(test), Forward(test), Unique(then), Looping(then), Unique(else), Looping(else),
           NEW ifLabel \in Nat, NEW next \in Nat, NEW elseLabel \in Nat, NEW outer,
           ifLabel # elseLabel, ifLabel # next, elseLabel # next,
           {ifLabel, next, elseLabel} \cap (Labels(test) \cup Labels(then) \cup Labels(else) \cup outer) = {},
           Labels(test) \cap (Labels(then) \cup Labels(else) \cup outer) = {},
           Labels(then) \cap (Labels(else) \cup outer) = {}, Labels(else) \cap outer = {},
           Targets(test) \subseteq Labels(test) \cup {ifLabel, elseLabel},
           Targets(then) \subseteq Labels(then) \cup outer,
           Targets(else) \subseteq Labels(else) \cup outer
    PROVE  LET b == IfElseCode(test, ifLabel, then, next, elseLabel, else)
           IN  /\ Unique(b) /\ Looping(b)
               /\ Labels(b) = Labels(test) \cup Labels(then) \cup Labels(else)
                                 \cup {ifLabel, next, elseLabel}
               /\ Targets(b) \subseteq Labels(b) \cup outer
<1> DEFINE d1 == <<Label(ifLabel)>>
           d3 == <<Goto(next), Label(elseLabel)>>
           d5 == <<Label(next)>>
           c1 == test \o d1
           c2 == c1 \o then
           c3 == c2 \o d3
           c4 == c3 \o else
           c5 == c4 \o d5
<1>1. /\ d1 \in Seq(Lines) /\ Unique(d1) /\ Forward(d1) /\ Labels(d1) = {ifLabel} /\ Targets(d1) = {}
      /\ d3 \in Seq(Lines) /\ Unique(d3) /\ Forward(d3) /\ Labels(d3) = {elseLabel} /\ Targets(d3) = {next}
      /\ d5 \in Seq(Lines) /\ Unique(d5) /\ Forward(d5) /\ Labels(d5) = {next} /\ Targets(d5) = {}
  BY LabelLine, GotoLabelLines
<1>2. Looping(test) /\ Looping(d1) /\ Looping(d3) /\ Looping(d5)
  BY <1>1, ForwardLooping
<1> HIDE DEF d1, d3, d5
<1>3. /\ c1 \in Seq(Lines) /\ Unique(c1) /\ Looping(c1)
      /\ Labels(c1) = Labels(test) \cup {ifLabel} /\ Targets(c1) = Targets(test)
  <2>1. Labels(test) \cap Labels(d1) = {} /\ Targets(d1) \cap Labels(test) = {}
    BY <1>1
  <2>2. /\ c1 \in Seq(Lines) /\ Unique(c1) /\ Looping(c1)
        /\ Labels(c1) = Labels(test) \cup Labels(d1) /\ Targets(c1) = Targets(test) \cup Targets(d1)
    BY <1>1, <1>2, <2>1, JoinedCode
  <2> QED BY <1>1, <2>2
<1> HIDE DEF c1
<1>4. /\ c2 \in Seq(Lines) /\ Unique(c2) /\ Looping(c2)
      /\ Labels(c2) = Labels(test) \cup {ifLabel} \cup Labels(then)
      /\ Targets(c2) = Targets(test) \cup Targets(then)
  <2>1. Labels(c1) \cap Labels(then) = {} /\ Targets(then) \cap Labels(c1) = {}
        /\ Targets(c1) \cap Labels(then) = {}
    BY <1>3
  <2>2. /\ c2 \in Seq(Lines) /\ Unique(c2) /\ Looping(c2)
        /\ Labels(c2) = Labels(c1) \cup Labels(then) /\ Targets(c2) = Targets(c1) \cup Targets(then)
    BY <1>3, <2>1, JoinedCode
  <2> QED BY <1>3, <2>2
<1> HIDE DEF c2
<1>5. /\ c3 \in Seq(Lines) /\ Unique(c3) /\ Looping(c3)
      /\ Labels(c3) = Labels(test) \cup {ifLabel} \cup Labels(then) \cup {elseLabel}
      /\ Targets(c3) = Targets(test) \cup Targets(then) \cup {next}
  <2>1. Labels(c2) \cap Labels(d3) = {} /\ Targets(d3) \cap Labels(c2) = {}
    BY <1>1, <1>4
  <2>2. /\ c3 \in Seq(Lines) /\ Unique(c3) /\ Looping(c3)
        /\ Labels(c3) = Labels(c2) \cup Labels(d3) /\ Targets(c3) = Targets(c2) \cup Targets(d3)
    BY <1>1, <1>2, <1>4, <2>1, JoinedCode
  <2> QED BY <1>1, <1>4, <2>2
<1> HIDE DEF c3
<1>6. /\ c4 \in Seq(Lines) /\ Unique(c4) /\ Looping(c4)
      /\ Labels(c4) = Labels(test) \cup {ifLabel} \cup Labels(then) \cup {elseLabel} \cup Labels(else)
      /\ Targets(c4) = Targets(test) \cup Targets(then) \cup {next} \cup Targets(else)
  <2>1. Labels(c3) \cap Labels(else) = {} /\ Targets(else) \cap Labels(c3) = {}
        /\ Targets(c3) \cap Labels(else) = {}
    BY <1>5
  <2>2. /\ c4 \in Seq(Lines) /\ Unique(c4) /\ Looping(c4)
        /\ Labels(c4) = Labels(c3) \cup Labels(else) /\ Targets(c4) = Targets(c3) \cup Targets(else)
    BY <1>5, <2>1, JoinedCode
  <2> QED BY <1>5, <2>2
<1> HIDE DEF c4
<1>7. /\ Unique(c5) /\ Looping(c5)
      /\ Labels(c5) = Labels(c4) \cup {next} /\ Targets(c5) = Targets(c4)
  <2>1. Labels(c4) \cap Labels(d5) = {} /\ Targets(d5) \cap Labels(c4) = {}
    BY <1>1, <1>6
  <2>2. /\ Unique(c5) /\ Looping(c5)
        /\ Labels(c5) = Labels(c4) \cup Labels(d5) /\ Targets(c5) = Targets(c4) \cup Targets(d5)
    BY <1>1, <1>2, <1>6, <2>1, JoinedCode
  <2> QED BY <1>1, <2>2
<1>8. IfElseCode(test, ifLabel, then, next, elseLabel, else) = c5
  BY DEF IfElseCode, c1, c2, c3, c4, d1, d3, d5
<1> HIDE DEF c5
<1>9. Labels(c5) = Labels(test) \cup Labels(then) \cup Labels(else) \cup {ifLabel, next, elseLabel}
  BY <1>6, <1>7
<1>10. Targets(c5) \subseteq Labels(c5) \cup outer
  BY <1>6, <1>7, <1>9
<1> QED BY <1>7, <1>8, <1>9, <1>10

LEMMA IfJoined ==
    ASSUME NEW test \in Seq(Lines), NEW then \in Seq(Lines),
           Unique(test), Forward(test), Unique(then), Looping(then),
           NEW elseLabel \in Nat, NEW outer,
           elseLabel \notin Labels(test) \cup Labels(then) \cup outer,
           Labels(test) \cap (Labels(then) \cup outer) = {}, Labels(then) \cap outer = {},
           Targets(test) \subseteq Labels(test) \cup {elseLabel},
           Targets(then) \subseteq Labels(then) \cup outer
    PROVE  LET b == IfCode(test, then, elseLabel)
           IN  /\ Unique(b) /\ Looping(b)
               /\ Labels(b) = Labels(test) \cup Labels(then) \cup {elseLabel}
               /\ Targets(b) \subseteq Labels(b) \cup outer
<1> DEFINE d2 == <<Label(elseLabel)>>
           c1 == test \o then
           c2 == c1 \o d2
<1>1. d2 \in Seq(Lines) /\ Unique(d2) /\ Forward(d2) /\ Labels(d2) = {elseLabel} /\ Targets(d2) = {}
  BY LabelLine
<1>2. Looping(test) /\ Looping(d2)
  BY <1>1, ForwardLooping
<1> HIDE DEF d2
<1>3. /\ c1 \in Seq(Lines) /\ Unique(c1) /\ Looping(c1)
      /\ Labels(c1) = Labels(test) \cup Labels(then) /\ Targets(c1) = Targets(test) \cup Targets(then)
  <2>1. Labels(test) \cap Labels(then) = {} /\ Targets(then) \cap Labels(test) = {}
        /\ Targets(test) \cap Labels(then) = {}
    OBVIOUS
  <2> QED BY <1>2, <2>1, JoinedCode
<1> HIDE DEF c1
<1>4. /\ Unique(c2) /\ Looping(c2)
      /\ Labels(c2) = Labels(c1) \cup {elseLabel} /\ Targets(c2) = Targets(c1)
  <2>1. Labels(c1) \cap Labels(d2) = {} /\ Targets(d2) \cap Labels(c1) = {}
    BY <1>1, <1>3
  <2>2. /\ Unique(c2) /\ Looping(c2)
        /\ Labels(c2) = Labels(c1) \cup Labels(d2) /\ Targets(c2) = Targets(c1) \cup Targets(d2)
    BY <1>1, <1>2, <1>3, <2>1, JoinedCode
  <2> QED BY <1>1, <2>2
<1>5. IfCode(test, then, elseLabel) = c2
  BY DEF IfCode, c1, d2
<1> HIDE DEF c2
<1>6. Labels(c2) = Labels(test) \cup Labels(then) \cup {elseLabel}
  BY <1>3, <1>4
<1> QED BY <1>3, <1>4, <1>5, <1>6

LEMMA IfPiece ==
    ASSUME NEW tree, IsTree(tree), NEW s \in Statements(tree), NEW g \in LabelState,
           tree[s].op = "if", Outer(JumpsOut(tree)[s], g) \subseteq Between(0, g.count),
           \A r \in Statements(tree) : r < s => \A k \in LabelState :
              Outer(JumpsOut(tree)[r], k) \subseteq Between(0, k.count)
                 => IsPieceCode(Piece(tree, r, k), JumpsOut(tree)[r], k)
    PROVE  IsPieceCode(Piece(tree, s, g), JumpsOut(tree)[s], g)
<1> DEFINE node == tree[s]
           out == JumpsOut(tree)
           outer == Outer(out[s], g)
           hasElse == tree[node.else].op # "none"
<1>0. out[s] <=> (out[node.then] \/ out[node.else])
  <2>1. JumpsOut(tree)[s] = OutOf(tree, JumpsOut(tree), tree[s])
    BY OutEquationHolds DEF OutEquation
  <2> QED BY <2>1 DEF OutOf
<1>a. PICK then, else, test :
         \E ifLabel, elseLabel \in Nat :
            /\ IsIfCode(tree, s, g, then, else, test, ifLabel, elseLabel)
            /\ tree[tree[s].else].op # "none" => Piece(tree, s, g)
                  = [code |-> IfElseCode(test.code, ifLabel, then.code, test.g.count,
                                         elseLabel, else.code),
                     g |-> Restored(NewLabels(test.g, 1), g)]
            /\ tree[tree[s].else].op = "none" => Piece(tree, s, g)
                  = [code |-> IfCode(test.code, then.code, elseLabel), g |-> Restored(test.g, g)]
  BY ChoiceCode, Zenon
<1>1. PICK ifLabel \in Nat, elseLabel \in Nat :
            /\ IsIfCode(tree, s, g, then, else, test, ifLabel, elseLabel)
            /\ hasElse => Piece(tree, s, g)
                  = [code |-> IfElseCode(test.code, ifLabel, then.code, test.g.count,
                                         elseLabel, else.code),
                     g |-> Restored(NewLabels(test.g, 1), g)]
            /\ ~hasElse => Piece(tree, s, g)
                  = [code |-> IfCode(test.code, then.code, elseLabel), g |-> Restored(test.g, g)]
  BY <1>a, Zenon
<1> DEFINE before == NewLabels(else.g, IF hasElse THEN 2 ELSE 1)
<1>2. /\ then = Piece(tree, node.then, IfLabels(g))
      /\ else = Piece(tree, node.else, then.g)
      /\ elseLabel = else.g.count
      /\ ifLabel = IF hasElse THEN elseLabel + 1 ELSE g.count
      /\ test = Test(tree, node.cond, ifLabel, elseLabel, before)
      /\ then.code \in Seq(Lines) /\ then.g \in LabelState /\ then.g \in Later(IfLabels(g))
      /\ else.code \in Seq(Lines) /\ else.g \in LabelState /\ else.g \in Later(then.g)
      /\ test.code \in Seq(Lines) /\ test.g \in LabelState /\ test.g \in Later(before)
      /\ before \in LabelState /\ before.count = elseLabel + IF hasElse THEN 2 ELSE 1
      /\ before \in Later(else.g)
  BY <1>1, Zenon DEF IsIfCode
<1>3. /\ node.then \in Statements(tree) /\ node.then < s
      /\ node.else \in Statements(tree) /\ node.else < s /\ node.cond \in Conditions(tree)
  BY StatementForms
<1> HIDE DEF before, hasElse, node
<1>4. /\ g.count \in Nat /\ then.g.count \in Nat /\ test.g.count \in Nat /\ before.count \in Nat
      /\ g.count + 1 <= then.g.count /\ then.g.count <= elseLabel
      /\ elseLabel < before.count /\ before.count <= test.g.count
      /\ hasElse => elseLabel + 1 < before.count
      /\ before.fall = g.count
      /\ then.g.start = g.start /\ then.g.next = g.next
  <2>1. /\ IfLabels(g).count = g.count + 1 /\ IfLabels(g).fall = g.count /\ g.count \in Nat
        /\ IfLabels(g).start = g.start /\ IfLabels(g).next = g.next
    BY PartLabels DEF LabelState
  <2>2. /\ then.g.count \in Nat /\ else.g.count \in Nat
        /\ then.g.count >= IfLabels(g).count /\ then.g.fall = IfLabels(g).fall
        /\ then.g.start = IfLabels(g).start /\ then.g.next = IfLabels(g).next
        /\ else.g.count >= then.g.count /\ else.g.fall = then.g.fall
        /\ before.fall = else.g.fall /\ before.count \in Nat
        /\ test.g.count >= before.count /\ test.g.count \in Nat
    BY <1>2 DEF Later, LabelState
  <2>3. elseLabel = else.g.count /\ before.count = elseLabel + IF hasElse THEN 2 ELSE 1
    BY <1>2
  <2> QED BY <2>1, <2>2, <2>3
<1>5. /\ Outer(out[node.then], IfLabels(g)) \subseteq outer
      /\ Outer(out[node.else], then.g) \subseteq outer
  <2>1. IfLabels(g).start = g.start /\ IfLabels(g).next = g.next
    BY PartLabels
  <2>2. /\ out[node.then] => out[s]
        /\ out[node.else] => out[s]
    BY <1>0
  <2> HIDE DEF out
  <2> QED BY <1>4, <2>1, <2>2 DEF Outer
<1>6. IsPieceCode(then, out[node.then], IfLabels(g)) /\ IfLabels(g).count = g.count + 1
  <2>1. IfLabels(g) \in LabelState /\ IfLabels(g).count = g.count + 1
    BY PartLabels
  <2>2. Between(0, g.count) \subseteq Between(0, IfLabels(g).count)
    BY <1>4, <2>1 DEF Between
  <2>3. Outer(out[node.then], IfLabels(g)) \subseteq Between(0, IfLabels(g).count)
    BY <1>5, <2>2
  <2> QED BY <1>2, <1>3, <2>1, <2>3
<1>7. IsPieceCode(else, out[node.else], then.g)
  <2>1. Between(0, g.count) \subseteq Between(0, then.g.count)
    BY <1>4 DEF Between
  <2>2. Outer(out[node.else], then.g) \subseteq Between(0, then.g.count)
    BY <1>5, <2>1
  <2> QED BY <1>2, <1>3, <2>2
<1>8. IsTestCode(test, ifLabel, elseLabel, before)
  <2>0. ifLabel = IF hasElse THEN elseLabel + 1 ELSE g.count
    BY <1>2
  <2>1. ifLabel < before.count /\ elseLabel < before.count /\ before.fall < before.count
    BY <1>4, <2>0
  <2> QED BY <1>2, <1>3, <2>1, TestCode
<1> DEFINE ct == test.code
           ch == then.code
           ce == else.code
<1>9. /\ Labels(ch) \subseteq Between(g.count + 1, then.g.count)
      /\ Labels(ce) \subseteq Between(then.g.count, elseLabel)
      /\ Labels(ct) \subseteq Between(before.count, test.g.count)
      /\ Targets(ch) \subseteq Labels(ch) \cup outer
      /\ Targets(ce) \subseteq Labels(ce) \cup outer
      /\ Targets(ct) \subseteq Labels(ct) \cup ({ifLabel, elseLabel} \ {g.count})
      /\ Unique(ct) /\ Forward(ct) /\ Unique(ch) /\ Looping(ch) /\ Unique(ce) /\ Looping(ce)
      /\ outer \subseteq Between(0, g.count)
  <2> HIDE DEF outer, out
  <2>1. /\ Labels(ch) \subseteq Between(g.count + 1, then.g.count)
        /\ Targets(ch) \subseteq Labels(ch) \cup outer /\ Unique(ch) /\ Looping(ch)
    BY <1>5, <1>6 DEF IsPieceCode
  <2>2. /\ Labels(ce) \subseteq Between(then.g.count, elseLabel)
        /\ Targets(ce) \subseteq Labels(ce) \cup outer /\ Unique(ce) /\ Looping(ce)
    BY <1>2, <1>5, <1>7 DEF IsPieceCode
  <2>3. /\ Labels(ct) \subseteq Between(before.count, test.g.count)
        /\ Targets(ct) \subseteq Labels(ct) \cup ({ifLabel, elseLabel} \ {g.count})
        /\ Unique(ct) /\ Forward(ct)
    BY <1>4, <1>8 DEF IsTestCode
  <2> QED BY <2>1, <2>2, <2>3 DEF outer, out
<1> HIDE DEF outer
<1>10. ct \in Seq(Lines) /\ ch \in Seq(Lines) /\ ce \in Seq(Lines)
  BY <1>2
<1>11. /\ Labels(ct) \cap (Labels(ch) \cup Labels(ce) \cup outer) = {}
       /\ Labels(ch) \cap (Labels(ce) \cup outer) = {} /\ Labels(ce) \cap outer = {}
       /\ elseLabel \notin Labels(ct) \cup Labels(ch) \cup Labels(ce) \cup outer
  <2> HIDE DEF ct, ch, ce
  <2> QED BY <1>4, <1>9 DEF Between
<1>12. CASE hasElse
  <2> DEFINE next == test.g.count
             b == IfElseCode(ct, ifLabel, ch, next, elseLabel, ce)
  <2>1. ifLabel = elseLabel + 1
    BY <1>2, <1>12
  <2>2. /\ ifLabel # elseLabel /\ ifLabel # next /\ elseLabel # next
        /\ {ifLabel, next, elseLabel} \cap (Labels(ct) \cup Labels(ch) \cup Labels(ce) \cup outer) = {}
    <3> HIDE DEF ct, ch, ce
    <3>1. ifLabel \notin (Labels(ct) \cup Labels(ch) \cup Labels(ce) \cup outer)
      BY <1>4, <1>9, <1>12, <2>1 DEF Between
    <3>2. next \notin (Labels(ct) \cup Labels(ch) \cup Labels(ce) \cup outer)
      BY <1>4, <1>9 DEF Between
    <3> QED BY <1>4, <1>11, <1>12, <2>1, <3>1, <3>2
  <2>3. Targets(ct) \subseteq Labels(ct) \cup {ifLabel, elseLabel}
    BY <1>9
  <2>4. /\ Unique(b) /\ Looping(b)
        /\ Labels(b) = Labels(ct) \cup Labels(ch) \cup Labels(ce) \cup {ifLabel, next, elseLabel}
        /\ Targets(b) \subseteq Labels(b) \cup outer
    <3>1. next \in Nat
      BY <1>4
    <3> HIDE DEF ct, ch, ce, next
    <3> QED BY <1>9, <1>10, <1>11, <2>2, <2>3, <3>1, IfElseJoined
  <2>5. Piece(tree, s, g).code = b /\ Piece(tree, s, g).g.count = test.g.count + 1
    <3>1. Piece(tree, s, g) = [code |-> b, g |-> Restored(NewLabels(test.g, 1), g)]
      BY <1>1, <1>12
    <3>2. NewLabels(test.g, 1) \in LabelState /\ NewLabels(test.g, 1).count = test.g.count + 1
      <4>1. test.g \in LabelState
        BY <1>2
      <4> QED BY <4>1, NewLabelsLater DEF Later
    <3>3. Restored(NewLabels(test.g, 1), g).count = test.g.count + 1
      BY <1>4, <3>2, RestoredLater
    <3> HIDE DEF b
    <3> QED BY <3>1, <3>3
  <2>6. Labels(b) \subseteq Between(g.count, test.g.count + 1)
    <3> HIDE DEF b, ct, ch, ce
    <3>1. ifLabel \in Between(g.count, test.g.count + 1) /\ next \in Between(g.count, test.g.count + 1)
          /\ elseLabel \in Between(g.count, test.g.count + 1)
      BY <1>4, <1>12, <2>1 DEF Between
    <3>2. Labels(ct) \cup Labels(ch) \cup Labels(ce) \subseteq Between(g.count, test.g.count + 1)
      BY <1>4, <1>9 DEF Between
    <3> HIDE DEF next
    <3> QED BY <2>4, <3>1, <3>2
  <2> HIDE DEF b
  <2> QED BY <2>4, <2>5, <2>6 DEF IsPieceCode, outer
<1>13. CASE ~hasElse
  <2> DEFINE b == IfCode(ct, ch, elseLabel)
  <2>1. ifLabel = g.count
    BY <1>2, <1>13
  <2>2. Targets(ct) \subseteq Labels(ct) \cup {elseLabel}
    BY <1>9, <2>1
  <2>3. /\ Unique(b) /\ Looping(b)
        /\ Labels(b) = Labels(ct) \cup Labels(ch) \cup {elseLabel}
        /\ Targets(b) \subseteq Labels(b) \cup outer
    <3>1. /\ Labels(ct) \cap (Labels(ch) \cup outer) = {}
          /\ elseLabel \notin Labels(ct) \cup Labels(ch) \cup outer /\ Labels(ch) \cap outer = {}
      BY <1>11
    <3> HIDE DEF ct, ch, ce
    <3> QED BY <1>9, <1>10, <2>2, <3>1, IfJoined
  <2>4. Piece(tree, s, g).code = b /\ Piece(tree, s, g).g.count = test.g.count
    <3>1. Piece(tree, s, g) = [code |-> b, g |-> Restored(test.g, g)]
      BY <1>1, <1>13
    <3>2. Restored(test.g, g).count = test.g.count
      <4>1. test.g \in LabelState /\ test.g.count >= g.count
        <5>1. test.g \in LabelState
          BY <1>2
        <5> QED BY <1>4, <5>1
      <4> QED BY <4>1, RestoredLater
    <3> HIDE DEF b
    <3> QED BY <3>1, <3>2
  <2>5. Labels(b) \subseteq Between(g.count, test.g.count)
    <3> HIDE DEF b, ct, ch, ce
    <3>1. elseLabel \in Between(g.count, test.g.count)
      BY <1>4 DEF Between
    <3>2. Labels(ct) \cup Labels(ch) \subseteq Between(g.count, test.g.count)
      BY <1>4, <1>9 DEF Between
    <3> QED BY <2>3, <3>1, <3>2
  <2> HIDE DEF b
  <2> QED BY <2>3, <2>4, <2>5 DEF IsPieceCode, outer
<1> QED BY <1>12, <1>13

LEMMA WhilePiece ==
    ASSUME NEW tree, IsTree(tree), NEW s \in Statements(tree), NEW g \in LabelState,
           tree[s].op = "while", Outer(JumpsOut(tree)[s], g) \subseteq Between(0, g.count),
           \A r \in Statements(tree) : r < s => \A k \in LabelState :
              Outer(JumpsOut(tree)[r], k) \subseteq Between(0, k.count)
                 => IsPieceCode(Piece(tree, r, k), JumpsOut(tree)[r], k)
    PROVE  IsPieceCode(Piece(tree, s, g), JumpsOut(tree)[s], g)
<1> DEFINE node == tree[s]
           out == JumpsOut(tree)
           start == g.count
           next == g.count + 1
           body == g.count + 2
<1>1. PICK loop, test :
         /\ IsWhileCode(tree, s, g, loop, test)
         /\ Piece(tree, s, g)
               = [code |-> LoopCode(g.count, test.code, g.count + 2, loop.code, g.count + 1),
                  g |-> Restored(test.g, g)]
  BY WhileCode, Zenon
<1>2. /\ loop = Piece(tree, node.body, LoopLabels(g))
      /\ test = Test(tree, node.cond, body, next, loop.g)
      /\ loop.code \in Seq(Lines) /\ loop.g \in LabelState /\ loop.g \in Later(LoopLabels(g))
      /\ test.code \in Seq(Lines) /\ test.g \in LabelState /\ test.g \in Later(loop.g)
  BY <1>1, Zenon DEF IsWhileCode
<1>3. node.body \in Statements(tree) /\ node.body < s /\ node.cond \in Conditions(tree)
  BY StatementForms
<1> HIDE DEF node
<1>4. /\ g.count \in Nat /\ loop.g.count \in Nat /\ test.g.count \in Nat
      /\ g.count + 3 <= loop.g.count /\ loop.g.count <= test.g.count
      /\ loop.g.fall = g.count + 2
      /\ LoopLabels(g) \in LabelState /\ LoopLabels(g).count = g.count + 3
      /\ LoopLabels(g).start = g.count /\ LoopLabels(g).next = g.count + 1
  <2>1. /\ LoopLabels(g).count = g.count + 3 /\ LoopLabels(g).fall = g.count + 2
        /\ LoopLabels(g).start = g.count /\ LoopLabels(g).next = g.count + 1
        /\ g.count \in Nat /\ LoopLabels(g) \in LabelState
    BY PartLabels DEF LabelState
  <2>2. /\ loop.g.count \in Nat /\ test.g.count \in Nat
        /\ loop.g.count >= LoopLabels(g).count /\ loop.g.fall = LoopLabels(g).fall
        /\ test.g.count >= loop.g.count
    BY <1>2 DEF Later, LabelState
  <2> QED BY <2>1, <2>2
<1>5. IsPieceCode(loop, out[node.body], LoopLabels(g))
  <2>1. Outer(out[node.body], LoopLabels(g)) \subseteq Between(0, LoopLabels(g).count)
    BY <1>4 DEF Outer, Between
  <2> QED BY <1>2, <1>3, <1>4, <2>1
<1>6. IsTestCode(test, body, next, loop.g)
  <2>1. body \in Nat /\ next \in Nat /\ body < loop.g.count /\ next < loop.g.count /\ loop.g.fall < loop.g.count
    BY <1>4
  <2> HIDE DEF body, next
  <2> QED BY <1>2, <1>3, <2>1, TestCode
<1> DEFINE ct == test.code
           cl == loop.code
           d == <<Label(body)>>
           c1 == ct \o d
           c2 == c1 \o cl
           a == <<Label(start)>>
           e == <<Goto(start), Label(next)>>
<1>7. /\ Labels(cl) \subseteq Between(g.count + 3, loop.g.count)
      /\ Labels(ct) \subseteq Between(loop.g.count, test.g.count)
      /\ Targets(cl) \subseteq Labels(cl) \cup {start, next}
      /\ Targets(ct) \subseteq Labels(ct) \cup {next}
      /\ Unique(ct) /\ Forward(ct) /\ LeafAt(ct, 1) /\ Unique(cl) /\ Looping(cl)
  <2>1. Outer(out[node.body], LoopLabels(g)) \subseteq {start, next}
    BY <1>4 DEF Outer
  <2>2. {body, next} \ {loop.g.fall} \subseteq {next}
    BY <1>4
  <2> HIDE DEF start, next, body, out
  <2> QED BY <1>4, <1>5, <1>6, <2>1, <2>2 DEF IsPieceCode, IsTestCode
<1>8. /\ start \in Nat /\ next \in Nat /\ body \in Nat
      /\ start # next /\ start # body /\ next # body
      /\ {start, next, body} \cap (Labels(ct) \cup Labels(cl)) = {}
      /\ Labels(ct) \cap Labels(cl) = {}
      /\ Between(g.count + 3, loop.g.count) \cup Between(loop.g.count, test.g.count) \cup {start, next, body}
             \subseteq Between(g.count, test.g.count)
  <2> HIDE DEF ct, cl
  <2> QED BY <1>4, <1>7 DEF Between
<1>9. ct \in Seq(Lines) /\ cl \in Seq(Lines)
  BY <1>2
<1> HIDE DEF ct, cl, start, next, body
<1>10. /\ a \in Seq(Lines) /\ d \in Seq(Lines) /\ e \in Seq(Lines)
       /\ Unique(d) /\ Forward(d) /\ Labels(d) = {body} /\ Targets(d) = {}
  BY <1>8, LabelLine, GotoLabelLines
<1> HIDE DEF a, d, e
<1>11. Looping(ct) /\ Looping(d)
  BY <1>7, <1>10, ForwardLooping
<1>12. /\ c1 \in Seq(Lines) /\ Unique(c1) /\ Looping(c1) /\ LeafAt(c1, 1)
       /\ Labels(c1) = Labels(ct) \cup {body} /\ Targets(c1) = Targets(ct)
  <2>1. Labels(ct) \cap Labels(d) = {} /\ Targets(d) \cap Labels(ct) = {}
    BY <1>8, <1>10
  <2>2. /\ c1 \in Seq(Lines) /\ Unique(c1) /\ Looping(c1)
        /\ Labels(c1) = Labels(ct) \cup Labels(d) /\ Targets(c1) = Targets(ct) \cup Targets(d)
    BY <1>7, <1>9, <1>10, <1>11, <2>1, JoinedCode
  <2>3. LeafAt(c1, 1)
    BY <1>7, <1>9, <1>10, JoinedStart
  <2> QED BY <1>10, <2>2, <2>3
<1> HIDE DEF c1
<1>13. /\ c2 \in Seq(Lines) /\ Unique(c2) /\ Looping(c2) /\ LeafAt(c2, 1)
       /\ Labels(c2) = Labels(ct) \cup {body} \cup Labels(cl)
       /\ Targets(c2) = Targets(ct) \cup Targets(cl)
  <2>1. Labels(c1) \cap Labels(cl) = {} /\ Targets(cl) \cap Labels(c1) = {}
        /\ Targets(c1) \cap Labels(cl) = {}
    BY <1>7, <1>8, <1>12
  <2>2. /\ c2 \in Seq(Lines) /\ Unique(c2) /\ Looping(c2)
        /\ Labels(c2) = Labels(c1) \cup Labels(cl) /\ Targets(c2) = Targets(c1) \cup Targets(cl)
    BY <1>7, <1>9, <1>12, <2>1, JoinedCode
  <2>3. LeafAt(c2, 1)
    BY <1>9, <1>12, JoinedStart
  <2> QED BY <1>12, <2>2, <2>3
<1> DEFINE b == (a \o c2) \o e
<1>14. /\ Unique(b) /\ Looping(b)
       /\ Labels(b) = Labels(c2) \cup {start, next} /\ Targets(b) = Targets(c2) \cup {start}
  <2>1. start \notin Labels(c2) /\ next \notin Labels(c2)
    BY <1>8, <1>13
  <2> HIDE DEF c2
  <2> QED BY <1>8, <1>13, <2>1, AroundLooping DEF a, e
<1>15. LoopCode(start, ct, body, cl, next) = b
  <2>1. (a \o ct) \o d = a \o (ct \o d)
    BY <1>9, <1>10, ConcatAssociative
  <2>2. (a \o c1) \o cl = a \o (c1 \o cl)
    BY <1>9, <1>10, <1>12, ConcatAssociative
  <2>3. LoopCode(start, ct, body, cl, next) = (((a \o ct) \o d) \o cl) \o e
    BY DEF LoopCode, a, d, e
  <2> QED BY <2>1, <2>2, <2>3 DEF c1
<1>16. Piece(tree, s, g).code = b /\ Piece(tree, s, g).g.count = test.g.count
  <2>1. Piece(tree, s, g) = [code |-> LoopCode(start, ct, body, cl, next), g |-> Restored(test.g, g)]
    BY <1>1 DEF start, body, next, ct, cl
  <2>2. test.g \in LabelState /\ test.g.count >= g.count
    <3>1. test.g \in LabelState
      BY <1>2
    <3> QED BY <1>4, <3>1
  <2>3. Restored(test.g, g).count = test.g.count
    BY <2>2, RestoredLater
  <2> HIDE DEF b
  <2> QED BY <1>15, <2>1, <2>3
<1> HIDE DEF b, c2
<1>17. Labels(b) \subseteq Between(g.count, test.g.count)
  BY <1>7, <1>8, <1>13, <1>14
<1>18. Targets(b) \subseteq Labels(b)
  BY <1>7, <1>13, <1>14
<1> QED BY <1>14, <1>16, <1>17, <1>18 DEF IsPieceCode

\* What linesgen returns for a statement of any shape.
LEMMA PieceCode ==
    ASSUME NEW tree, IsTree(tree), NEW s \in Statements(tree), NEW g \in LabelState,
           Outer(JumpsOut(tree)[s], g) \subseteq Between(0, g.count)
    PROVE  IsPieceCode(Piece(tree, s, g), JumpsOut(tree)[s], g)
<1> DEFINE S == Statements(tree)
           Fine(r) == \A k \in LabelState :
                         Outer(JumpsOut(tree)[r], k) \subseteq Between(0, k.count)
                            => IsPieceCode(Piece(tree, r, k), JumpsOut(tree)[r], k)
           Good == {r \in S : Fine(r)}
<1>1. ASSUME NEW r \in S, \A q \in S : q < r => q \in Good PROVE r \in Good
  <2>1. \A q \in S : q < r => Fine(q)
    BY <1>1
  <2>2. ASSUME NEW k \in LabelState, Outer(JumpsOut(tree)[r], k) \subseteq Between(0, k.count)
        PROVE  IsPieceCode(Piece(tree, r, k), JumpsOut(tree)[r], k)
    <3>1. CASE tree[r].op = "items"
      BY <2>1, <2>2, <3>1, ItemsPiece
    <3>2. CASE tree[r].op = "if"
      BY <2>1, <2>2, <3>2, IfPiece
    <3>3. CASE tree[r].op = "while"
      BY <2>1, <2>2, <3>3, WhilePiece
    <3>4. CASE tree[r].op \notin {"items", "if", "while"}
      BY <3>4, OneLinePiece
    <3> QED BY <3>1, <3>2, <3>3, <3>4
  <2> QED BY <2>2
<1>2. S \in SUBSET Nat
  <2>1. S \in SUBSET (0 .. Len(tree)) /\ Len(tree) \in Nat
    BY TreeSize
  <2> HIDE DEF S
  <2> QED BY <2>1
<1>3. s \in Good
  <2> HIDE DEF Good, S
  <2>1. \A r \in S : r \in Good
    BY <1>1, <1>2, StrongInduction
  <2>2. s \in S
    BY DEF S
  <2> QED BY <2>1, <2>2
<1> QED BY <1>3

-----------------------------------------------------------------------------
(* The body with its return, and its code as a whole.                      *)

CodeOf(tree) == LET body == WithReturn(tree) IN CodeGen(body)[Len(body)][Globals].code

LEMMA BodyIsTree ==
    ASSUME NEW tree, IsBody(tree)
    PROVE  /\ IsTree(tree) /\ Len(tree) \in Nat /\ Len(tree) >= 1
           /\ Len(tree) \in Statements(tree) /\ tree[Len(tree)].op \in {"empty", "items"}
<1>1. IsTree(tree)
  BY DEF IsBody, IsTree
<1>2. Len(tree) \in Nat /\ DOMAIN tree = 1 .. Len(tree)
  BY <1>1, TreeSize
<1>3. Len(tree) >= 1
  BY <1>2 DEF IsBody
<1>4. tree[Len(tree)].op \in {"empty", "items"}
  BY DEF IsBody, Root
<1> QED BY <1>1, <1>2, <1>3, <1>4 DEF Statements, Conditions

\* A return and an item that consists of it, added to a body.
IsLonger(body, tree) ==
    /\ Len(body) = Len(tree) + 2 /\ DOMAIN body = 1 .. Len(tree) + 2
    /\ \A i \in 1 .. Len(tree) : body[i] = tree[i]
    /\ body[Len(tree) + 1] = EndOfBody
    /\ body[Len(tree) + 2] = [op |-> "items", front |-> Len(tree), item |-> Len(tree) + 1]

LEMMA LongerBody ==
    ASSUME NEW tree, IsBody(tree), ~EndsWithReturn(tree)
    PROVE  IsLonger(WithReturn(tree), tree) /\ IsTree(WithReturn(tree))
<1> DEFINE n == Len(tree)
           last == [op |-> "items", front |-> n, item |-> n + 1]
           T == {tree[i] : i \in DOMAIN tree} \cup {EndOfBody, last}
           body == tree \o <<EndOfBody, last>>
<1>0. WithReturn(tree) = body
  BY DEF WithReturn
<1>1. n \in Nat /\ n >= 1 /\ DOMAIN tree = 1 .. n /\ IsTree(tree) /\ n \in Statements(tree)
  BY BodyIsTree, TreeSize
<1>2. tree \in Seq(T)
  BY <1>1 DEF IsTree
<1>3. <<EndOfBody, last>> \in Seq(T) /\ Len(<<EndOfBody, last>>) = 2
      /\ <<EndOfBody, last>>[1] = EndOfBody /\ <<EndOfBody, last>>[2] = last
  OBVIOUS
<1>4. IsLonger(body, tree) /\ body \in [1 .. n + 2 -> T]
  <2> HIDE DEF T, last
  <2>1. /\ body \in Seq(T) /\ Len(body) = n + 2
        /\ \A i \in 1 .. n : body[i] = tree[i]
        /\ body[n + 1] = EndOfBody /\ body[n + 2] = last
    BY <1>1, <1>2, <1>3
  <2> HIDE DEF body
  <2>2. body \in [1 .. n + 2 -> T] /\ DOMAIN body = 1 .. n + 2
    BY <2>1, <1>1
  <2> QED BY <2>1, <2>2 DEF IsLonger, last
<1> HIDE DEF body
<1>5. body \in Seq({body[i] : i \in DOMAIN body})
  <2> DEFINE R == {body[i] : i \in DOMAIN body}
  <2>1. body \in [1 .. n + 2 -> R]
    BY <1>4 DEF IsLonger
  <2>2. n + 2 \in Nat
    BY <1>1
  <2> HIDE DEF R
  <2>3. body \in Seq(R)
    BY <2>1, <2>2
  <2> QED BY <2>3 DEF R
<1>6. ASSUME NEW i \in DOMAIN body PROVE IsNode(body, i)
  <2>1. CASE i \in 1 .. n
    <3>1. body[i] = tree[i] /\ IsNode(tree, i)
      BY <1>1, <1>4, <2>1 DEF IsLonger, IsTree
    <3>2. /\ {j \in Conditions(tree) : j < i} = {j \in Conditions(body) : j < i}
          /\ {j \in Statements(tree) : j < i} = {j \in Statements(body) : j < i}
      <4>1. \A j : j \in DOMAIN tree /\ j < i <=> j \in DOMAIN body /\ j < i
        BY <1>1, <1>4, <2>1 DEF IsLonger
      <4>2. \A j \in DOMAIN tree : body[j] = tree[j]
        BY <1>1, <1>4 DEF IsLonger
      <4> QED BY <4>1, <4>2, Zenon DEF Conditions, Statements
    <3> QED BY <3>1, <3>2, Zenon DEF IsNode
  <2>2. CASE i = n + 1
    <3>1. body[i] \in [op : {"leaf", "simple", "return"}, id : Nat]
      BY <1>4, <2>2 DEF IsLonger, EndOfBody
    <3> QED BY <3>1, Zenon DEF IsNode
  <2>3. CASE i = n + 2
    <3>1. n \in Statements(body) /\ n + 1 \in Statements(body) /\ n < i /\ n + 1 < i
      <4>1. n \in DOMAIN body /\ n + 1 \in DOMAIN body /\ body[n] = tree[n]
        BY <1>1, <1>4 DEF IsLonger
      <4>2. body[n].op \notin {"leaf", "land", "lor"} /\ body[n + 1].op \notin {"leaf", "land", "lor"}
        BY <1>1, <1>4, <4>1 DEF IsLonger, Statements, Conditions, EndOfBody
      <4> QED BY <1>1, <2>3, <4>1, <4>2 DEF Statements, Conditions
    <3>2. body[i] = last
      BY <1>4, <2>3 DEF IsLonger
    <3>3. body[i] \in [op : {"items"}, front : {j \in Statements(body) : j < i},
                                       item : {j \in Statements(body) : j < i}]
      BY <3>1, <3>2
    <3> QED BY <3>3, Zenon DEF IsNode
  <2>4. i \in 1 .. n \/ i = n + 1 \/ i = n + 2
    BY <1>1, <1>4 DEF IsLonger
  <2> QED BY <2>1, <2>2, <2>3, <2>4
<1>7. IsTree(body)
  BY <1>5, <1>6 DEF IsTree
<1> QED BY <1>0, <1>4, <1>7

\* The body that code is generated for.
LEMMA BodyWithReturn ==
    ASSUME NEW tree, IsBody(tree)
    PROVE  LET body == WithReturn(tree)
           IN  /\ IsTree(body) /\ Extends(body, tree)
               /\ Len(body) \in Statements(body) /\ ~JumpsOut(body)[Len(body)]
               /\ body[Len(body)].op = "items"
               /\ body[body[Len(body)].item].op = "return"
               /\ body[Len(body)].item \in Statements(body)
<1> DEFINE body == WithReturn(tree)
<1>0. body = WithReturn(tree)
  OBVIOUS
<1>1. /\ IsTree(tree) /\ Len(tree) \in Nat /\ Len(tree) >= 1
      /\ Len(tree) \in Statements(tree)
  BY BodyIsTree
<1>2. ~JumpsOut(tree)[Len(tree)]
  BY DEF IsBody
<1>3. CASE EndsWithReturn(tree)
  <2>1. body = tree
    BY <1>3 DEF WithReturn
  <2>2. Extends(tree, tree)
    BY <1>1 DEF Extends
  <2>3. tree[Len(tree)].op = "items" /\ tree[tree[Len(tree)].item].op = "return"
    BY <1>3 DEF EndsWithReturn, Root
  <2>4. tree[Len(tree)].item \in Statements(tree)
    BY <1>1, <2>3, StatementForms
  <2> HIDE DEF body
  <2> QED BY <1>0, <1>1, <1>2, <2>1, <2>2, <2>3, <2>4, Zenon
<1>4. CASE ~EndsWithReturn(tree)
  <2> DEFINE n == Len(tree)
  <2>1. IsLonger(body, tree) /\ IsTree(body)
    BY <1>4, LongerBody
  <2> HIDE DEF body
  <2>2. DOMAIN tree = 1 .. n
    BY <1>1, TreeSize
  <2>3. Extends(body, tree)
    BY <1>1, <2>1, <2>2 DEF Extends, IsLonger
  <2>4. /\ body[n + 2].op = "items" /\ body[n + 2].front = n /\ body[n + 2].item = n + 1
        /\ body[n + 1].op = "return" /\ Len(body) = n + 2
        /\ n + 1 \in DOMAIN body /\ n + 2 \in DOMAIN body
    BY <1>1, <2>1 DEF IsLonger, EndOfBody
  <2>5. n + 1 \in Statements(body) /\ n + 2 \in Statements(body)
    BY <2>4 DEF Statements, Conditions
  <2>6. JumpsOut(body)[n + 2] <=> JumpsOut(body)[n] \/ JumpsOut(body)[n + 1]
    BY <2>1, <2>4, <2>5, OutEquationHolds DEF OutEquation, OutOf
  <2>7. ~JumpsOut(body)[n + 1]
    BY <2>1, <2>4, <2>5, OutEquationHolds DEF OutEquation, OutOf
  <2>8. ~JumpsOut(body)[n]
    BY <1>1, <1>2, <2>3, ExtensionJumps
  <2>9. ~JumpsOut(body)[n + 2]
    BY <2>6, <2>7, <2>8, Zenon
  <2>10. Len(body) = n + 2 /\ body[n + 2].item = n + 1
    BY <2>4
  <2> QED BY <1>0, <2>1, <2>3, <2>4, <2>5, <2>9, <2>10, Zenon
<1> QED BY <1>3, <1>4

\* The code of a whole function: no label is missing, and it ends with a
\* return.
IsWhole(c) ==
    /\ c \in Seq(Lines) /\ Len(c) >= 1 /\ c[Len(c)].op = "return"
    /\ Unique(c) /\ Looping(c) /\ Targets(c) \subseteq Labels(c)

LEMMA CompiledCode ==
    ASSUME NEW tree, IsBody(tree)
    PROVE  IsWhole(CodeOf(tree))
<1> DEFINE body == WithReturn(tree)
           n == Len(body)
           c == Piece(body, n, Globals).code
<1>1. CodeOf(tree) = c
  BY DEF CodeOf, Piece
<1>2. /\ IsTree(body) /\ n \in Statements(body) /\ ~JumpsOut(body)[n]
      /\ body[n].op = "items" /\ body[body[n].item].op = "return"
      /\ body[n].item \in Statements(body)
  BY BodyWithReturn
<1> HIDE DEF body
<1>3. Globals \in LabelState
  BY DEF Globals, LabelState
<1>4. Outer(JumpsOut(body)[n], Globals) = {}
  BY <1>2 DEF Outer
<1>5. IsPieceCode(Piece(body, n, Globals), JumpsOut(body)[n], Globals)
  BY <1>2, <1>3, <1>4, PieceCode
<1>6. Unique(c) /\ Looping(c) /\ Targets(c) \subseteq Labels(c)
  BY <1>4, <1>5 DEF IsPieceCode
<1>7. PICK front, item :
        /\ IsItemsCode(body, n, Globals, front, item)
        /\ Piece(body, n, Globals) = [code |-> front.code \o item.code, g |-> item.g]
  BY <1>2, <1>3, ItemsCode, Zenon
<1> HIDE DEF c
<1>8. c = front.code \o item.code
  <2>1. Piece(body, n, Globals) = [code |-> front.code \o item.code, g |-> item.g]
    BY <1>7, Zenon
  <2>2. \A x, y : [code |-> x, g |-> y].code = x
    OBVIOUS
  <2> QED BY <2>1, <2>2, Zenon DEF c
<1>9. /\ front.code \in Seq(Lines) /\ item.code \in Seq(Lines) /\ front.g \in LabelState
      /\ item = Piece(body, body[n].item, front.g)
  BY <1>7 DEF IsItemsCode
<1>10. item = [code |-> <<body[body[n].item]>>, g |-> front.g]
  BY <1>2, <1>9, OneLineCode
<1>11. item.code = <<body[body[n].item]>>
  BY <1>10
<1>12. c \in Seq(Lines) /\ Len(c) >= 1 /\ c[Len(c)].op = "return"
  <2>1. Len(item.code) = 1 /\ item.code[1] = body[body[n].item]
    BY <1>11
  <2>2. /\ c \in Seq(Lines) /\ Len(c) = Len(front.code) + Len(item.code) /\ Len(front.code) \in Nat
        /\ \A k \in 1 .. Len(item.code) : c[Len(front.code) + k] = item.code[k]
    BY <1>8, <1>9, LineCases, Zenon
  <2>3. c[Len(front.code) + 1] = body[body[n].item]
    BY <2>1, <2>2
  <2> QED BY <1>2, <2>1, <2>2, <2>3
<1> QED BY <1>1, <1>6, <1>12 DEF IsWhole

\* Labels and what jumps to them.
LEMMA LabelIs ==
    ASSUME NEW c \in Seq(Lines), NEW k, NEW l \in Nat
    PROVE  LabelAt(c, k, l) <=> k \in DOMAIN c /\ c[k] = Label(l)
<1>1. DOMAIN c = 1 .. Len(c) /\ \A i \in 1 .. Len(c) : c[i] \in Lines
  OBVIOUS
<1>2. \A line \in Lines : line.op = "label" /\ line.to = l => line = Label(l)
  BY DEF Lines, Label
<1>3. Label(l).op = "label" /\ Label(l).to = l
  BY DEF Label
<1> QED BY <1>1, <1>2, <1>3 DEF LabelAt

LEMMA PositionIs ==
    ASSUME IsWhole(code), NEW l \in Nat, NEW k \in Nat, LabelAt(code, k, l)
    PROVE  Position(l) = k /\ k \in DOMAIN code /\ k < Len(code)
<1>1. /\ code \in Seq(Lines) /\ Len(code) \in Nat /\ DOMAIN code = 1 .. Len(code)
      /\ code[Len(code)].op = "return"
  BY DEF IsWhole
<1>2. \A i \in DOMAIN code : code[i] = Label(l) => i = k
  <2> TAKE i \in DOMAIN code
  <2> HAVE code[i] = Label(l)
  <2>1. i \in Nat /\ LabelAt(code, i, l)
    BY <1>1, LabelIs
  <2> QED BY <2>1 DEF IsWhole, Unique
<1>3. k \in DOMAIN code /\ code[k] = Label(l)
  BY <1>1, LabelIs
<1>4. {i \in DOMAIN code : code[i] = Label(l)} = {k}
  BY <1>2, <1>3
<1>5. Position(l) = CHOOSE x \in {k, Len(code) + 1} : \A y \in {k, Len(code) + 1} : x <= y
  <2>1. {k} \cup {Len(code) + 1} = {k, Len(code) + 1}
    OBVIOUS
  <2> QED BY <1>4, <2>1 DEF Position, Min
<1>6. k <= Len(code)
  BY <1>1, <1>3
<1>7. Position(l) = k
  <2>1. \A x \in {k, Len(code) + 1} : (\A y \in {k, Len(code) + 1} : x <= y) <=> x = k
    BY <1>1, <1>6
  <2>2. \E x \in {k, Len(code) + 1} : \A y \in {k, Len(code) + 1} : x <= y
    BY <2>1
  <2> QED BY <1>5, <2>1, <2>2
<1>8. k # Len(code)
  <2>1. code[k].op = "label"
    BY DEF LabelAt
  <2> QED BY <1>1, <2>1
<1>9. k < Len(code)
  BY <1>1, <1>6, <1>8
<1> QED BY <1>3, <1>7, <1>9

LEMMA JumpsArrive ==
    ASSUME IsWhole(code), NEW i \in DOMAIN code, code[i].op \in JumpOps
    PROVE  /\ code[i].to \in Nat /\ JumpAt(code, i, code[i].to)
           /\ LabelAt(code, Position(code[i].to), code[i].to)
           /\ Position(code[i].to) \in DOMAIN code /\ Position(code[i].to) < Len(code)
<1>1. code \in Seq(Lines) /\ DOMAIN code = 1 .. Len(code) /\ Len(code) \in Nat /\ code[i] \in Lines
  BY DEF IsWhole
<1>2. code[i].to \in Nat
  BY <1>1 DEF Lines, JumpOps
<1>3. JumpAt(code, i, code[i].to)
  BY <1>1 DEF JumpAt
<1>4. code[i].to \in Targets(code)
  BY <1>1, <1>2, <1>3 DEF Targets
<1>5. PICK k \in Nat : LabelAt(code, k, code[i].to)
  BY <1>4 DEF IsWhole, Labels
<1> QED BY <1>2, <1>3, <1>5, PositionIs

-----------------------------------------------------------------------------
(* What is reached without going up is all that is reached.                *)

LEMMA FlowBetweenLines ==
    ASSUME IsWhole(code), NEW i \in DOMAIN code
    PROVE  /\ LeadsTo(i) \subseteq DOMAIN code
           /\ \A m \in LeadsTo(i) :
                \/ m = i + 1
                \/ code[i].op \in JumpOps /\ code[i].to \in Nat
                      /\ JumpAt(code, i, code[i].to) /\ LabelAt(code, m, code[i].to)
<1>1. DOMAIN code = 1 .. Len(code) /\ Len(code) \in Nat /\ code[Len(code)].op = "return"
  BY DEF IsWhole
<1>2. code[i].op \in JumpOps =>
        /\ code[i].to \in Nat /\ JumpAt(code, i, code[i].to)
        /\ LabelAt(code, Position(code[i].to), code[i].to)
        /\ Position(code[i].to) \in DOMAIN code
  BY JumpsArrive
<1>3. code[i].op # "return" => i + 1 \in DOMAIN code
  BY <1>1
<1>4. CASE code[i].op = "goto"
  <2>1. LeadsTo(i) = {Position(code[i].to)}
    BY <1>4 DEF LeadsTo
  <2> QED BY <1>2, <1>4, <2>1 DEF JumpOps
<1>5. CASE code[i].op \in {"ifz", "ifnz"}
  <2>1. LeadsTo(i) = {Position(code[i].to), i + 1}
    BY <1>5 DEF LeadsTo
  <2> QED BY <1>2, <1>3, <1>5, <2>1 DEF JumpOps
<1>6. CASE code[i].op = "return"
  <2>1. LeadsTo(i) = {}
    BY <1>6 DEF LeadsTo
  <2> QED BY <2>1
<1>7. CASE code[i].op \notin {"goto", "ifz", "ifnz", "return"}
  <2>1. LeadsTo(i) = {i + 1}
    BY <1>7 DEF LeadsTo
  <2> QED BY <1>3, <1>7, <2>1
<1> QED BY <1>4, <1>5, <1>6, <1>7

\* ReachedGoingDown is defined by recursion over the lines.
Reaching(f, n) ==
    IF n = 0 THEN {}
    ELSE IF n = 1 \/ \E i \in f[n - 1] : n \in LeadsTo(i) THEN f[n - 1] \cup {n} ELSE f[n - 1]

LEMMA ReachingHolds ==
    ASSUME Len(code) \in Nat
    PROVE  \E f : /\ f \in [0 .. Len(code) -> SUBSET Nat]
                  /\ \A n \in 0 .. Len(code) : f[n] = Reaching(f, n)
                  /\ ReachedGoingDown = f[Len(code)]
<1> DEFINE S == 0 .. Len(code)
           V == SUBSET Nat
           Step == [n \in S |-> [f \in [S -> V] |-> Reaching(f, n)]]
           Solution(f) == f = [n \in S |-> Reaching(f, n)]
<1>1. \A n \in S : n # 0 => n - 1 \in S
  OBVIOUS
<1>2. Step \in [S -> [[S -> V] -> V]]
  <2>1. ASSUME NEW n \in S, NEW f \in [S -> V] PROVE Reaching(f, n) \in V
    BY <1>1 DEF Reaching
  <2> QED BY <2>1
<1>3. DependsBelow(Step, S, V)
  <2>1. ASSUME NEW s \in S, NEW f \in [S -> V], NEW h \in [S -> V],
               \A r \in S : r < s => f[r] = h[r]
        PROVE  Step[s][f] = Step[s][h]
    <3>1. s # 0 => s - 1 \in S /\ s - 1 < s
      BY <1>1
    <3>2. Reaching(f, s) = Reaching(h, s)
      BY <2>1, <3>1, Zenon DEF Reaching
    <3> QED BY <3>2
  <2> HIDE DEF Step, S, V
  <2> QED BY <2>1 DEF DependsBelow
<1>4. HasSolution(Step, S, V)
  <2> {} \in V /\ S \in SUBSET (0 .. Len(code))
    OBVIOUS
  <2> HIDE DEF Step, S, V
  <2> QED BY <1>2, <1>3, RecursiveFunction, Zenon
<1>5. PICK f \in [S -> V] : \A n \in S : f[n] = Step[n][f]
  BY <1>4 DEF HasSolution
<1>6. \A n \in S : f[n] = Reaching(f, n)
  BY <1>5
<1>7. f = [n \in S |-> Reaching(f, n)]
  <2>1. f = [n \in S |-> f[n]]
    OBVIOUS
  <2> QED BY <1>6, <2>1
<1>8. PICK h : h = CHOOSE e : Solution(e)
  OBVIOUS
<1>9. Solution(h)
  BY <1>7, <1>8
<1>10. ReachedGoingDown = h[Len(code)]
  BY <1>8 DEF ReachedGoingDown, Reaching
<1>11. h \in [S -> V] /\ \A n \in S : h[n] = Reaching(h, n)
  <2>1. DOMAIN h = S /\ \A n \in S : h[n] = Reaching(h, n)
    BY <1>9
  <2> DEFINE Good == {n \in S : h[n] \in V}
  <2>2. ASSUME NEW n \in S, \A r \in S : r < n => r \in Good PROVE n \in Good
    <3>1. n # 0 => n - 1 \in S /\ n - 1 < n
      BY <1>1
    <3>2. Reaching(h, n) \in V
      BY <2>2, <3>1 DEF Reaching
    <3> QED BY <2>1, <3>2
  <2>3. \A n \in S : n \in Good
    <3> S \in SUBSET Nat
      OBVIOUS
    <3> HIDE DEF Good, S
    <3> QED BY <2>2, StrongInduction
  <2>4. h = [n \in S |-> h[n]]
    BY <1>9
  <2>5. \A n \in S : h[n] \in V
    BY <2>3
  <2> HIDE DEF V, S
  <2> QED BY <2>1, <2>4, <2>5
<1> QED BY <1>10, <1>11

\* A line is reached exactly if it is the first, or a line above leads to it.
LEMMA ReachedFromAbove ==
    ASSUME Len(code) \in Nat
    PROVE  /\ ReachedGoingDown \subseteq 1 .. Len(code)
           /\ \A m \in 1 .. Len(code) :
                m \in ReachedGoingDown <=>
                    m = 1 \/ \E i \in ReachedGoingDown : i < m /\ m \in LeadsTo(i)
<1> DEFINE S == 0 .. Len(code)
           R == ReachedGoingDown
<1>1. PICK f : /\ f \in [S -> SUBSET Nat]
               /\ \A n \in S : f[n] = Reaching(f, n)
               /\ R = f[Len(code)]
  BY ReachingHolds, Zenon
<1>2. f[0] = {}
  BY <1>1 DEF Reaching
<1>3. \A n \in S : n # 0 => n - 1 \in S /\ n - 1 < n /\ n \in Nat /\ n >= 1
  OBVIOUS
<1>4. \A n \in S : n # 0 =>
        f[n] = IF n = 1 \/ \E i \in f[n - 1] : n \in LeadsTo(i) THEN f[n - 1] \cup {n} ELSE f[n - 1]
  BY <1>1, Zenon DEF Reaching
<1> DEFINE Nested(m) == f[m] \subseteq 1 .. m /\ \A n \in S : n <= m => f[n] = f[m] \cap (1 .. n)
           Good == {m \in S : Nested(m)}
<1> HIDE DEF R
<1>5. ASSUME NEW m \in S, \A n \in S : n < m => n \in Good PROVE m \in Good
  <2>1. CASE m = 0
    <3>1. \A n \in S : n <= 0 => n = 0
      OBVIOUS
    <3> QED BY <1>2, <2>1, <3>1
  <2>2. CASE m # 0
    <3>1. m - 1 \in S /\ Nested(m - 1) /\ m \in Nat /\ m >= 1
      BY <1>3, <1>5, <2>2
    <3>2. f[m] = f[m - 1] \/ f[m] = f[m - 1] \cup {m}
      BY <1>4, <2>2
    <3>3. f[m] \subseteq 1 .. m
      BY <3>1, <3>2
    <3>4. ASSUME NEW n \in S, n <= m PROVE f[n] = f[m] \cap (1 .. n)
      <4>1. CASE n = m
        BY <3>3, <4>1
      <4>2. CASE n # m
        <5>1. n <= m - 1 /\ m \notin 1 .. n /\ f[n] = f[m - 1] \cap (1 .. n)
          BY <3>1, <3>4, <4>2
        <5> QED BY <3>2, <5>1
      <4> QED BY <4>1, <4>2
    <3> QED BY <3>3, <3>4
  <2> QED BY <2>1, <2>2
<1>6. \A m \in S : m \in Good
  <2> S \in SUBSET Nat
    OBVIOUS
  <2> HIDE DEF Good, S
  <2> QED BY <1>5, StrongInduction
<1>7. R \subseteq 1 .. Len(code) /\ \A n \in S : f[n] = R \cap (1 .. n)
  <2>1. Len(code) \in S /\ Nested(Len(code)) /\ \A n \in S : n <= Len(code)
    BY <1>6
  <2> QED BY <1>1, <2>1
<1>8. ASSUME NEW m \in 1 .. Len(code)
      PROVE  m \in R <=> m = 1 \/ \E i \in R : i < m /\ m \in LeadsTo(i)
  <2>1. m \in S /\ m # 0 /\ m - 1 \in S /\ m \in 1 .. m /\ m \notin 1 .. m - 1
    OBVIOUS
  <2>2. m \in R <=> m \in f[m]
    BY <1>7, <2>1
  <2>3. m \notin f[m - 1]
    BY <1>7, <2>1
  <2>4. m \in f[m] <=> m = 1 \/ \E i \in f[m - 1] : m \in LeadsTo(i)
    <3>1. f[m] = IF m = 1 \/ \E i \in f[m - 1] : m \in LeadsTo(i) THEN f[m - 1] \cup {m} ELSE f[m - 1]
      BY <1>4, <2>1
    <3> QED BY <2>3, <3>1
  <2>5. \A i : i \in f[m - 1] <=> i \in R /\ i < m
    <3>1. f[m - 1] = R \cap (1 .. m - 1)
      BY <1>7, <2>1
    <3>2. \A i \in R : i \in 1 .. m - 1 <=> i < m
      BY <1>7
    <3> QED BY <3>1, <3>2
  <2> QED BY <2>2, <2>4, <2>5
<1> QED BY <1>7, <1>8 DEF R

\* A loop is entered at its top, so what jumps up to it was reached from it.
LEMMA ReachedIsAll ==
    ASSUME IsWhole(code)
    PROVE  \A i \in ReachedGoingDown : LeadsTo(i) \subseteq ReachedGoingDown
<1> DEFINE R == ReachedGoingDown
<1>1. DOMAIN code = 1 .. Len(code) /\ Len(code) \in Nat
  BY DEF IsWhole
<1>2. /\ R \subseteq 1 .. Len(code)
      /\ \A m \in 1 .. Len(code) : m \in R <=> m = 1 \/ \E i \in R : i < m /\ m \in LeadsTo(i)
  BY <1>1, ReachedFromAbove
<1> HIDE DEF R
<1>3. ASSUME NEW i \in R, NEW t \in LeadsTo(i) PROVE t \in R
  <2>1. i \in 1 .. Len(code) /\ t \in 1 .. Len(code)
    BY <1>1, <1>2, <1>3, FlowBetweenLines
  <2>2. CASE i < t
    BY <1>2, <1>3, <2>1, <2>2
  <2>3. CASE t <= i
    <3>1. t # i + 1
      BY <2>1, <2>3
    <3>2. code[i].to \in Nat /\ JumpAt(code, i, code[i].to) /\ LabelAt(code, t, code[i].to)
      BY <1>1, <1>3, <2>1, <3>1, FlowBetweenLines
    <3>3. PICK e \in Nat : i <= e /\ IsLoop(code, t, e)
      BY <2>1, <2>3, <3>2 DEF IsWhole, Looping
    <3> DEFINE Above == {m \in R : t <= m /\ m <= e}
    <3>4. Above \in SUBSET Nat /\ i \in Above
      <4>1. \A m \in R : m \in Nat
        BY <1>2
      <4>2. i \in R /\ t <= i /\ i <= e
        BY <1>3, <2>3, <3>3
      <4> QED BY <4>1, <4>2
    <3>5. PICK m \in Above : \A j \in Above : m <= j
      <4> HIDE DEF Above
      <4> QED BY <3>4, LeastNatural
    <3>6. m \in R /\ t <= m /\ m <= e /\ m \in 1 .. Len(code)
      BY <1>2
    <3>7. CASE m # t
      <4>1. m # 1 /\ t < m
        BY <2>1, <3>6, <3>7
      <4>2. PICK j \in R : j < m /\ m \in LeadsTo(j)
        BY <1>2, <3>6, <4>1
      <4>3. j \in 1 .. Len(code)
        BY <1>2
      <4>4. j \notin Above
        BY <3>5, <3>6, <4>2, <4>3
      <4>5. ~ (t <= j)
        BY <3>6, <4>2, <4>3, <4>4
      <4>6. m # j + 1
        BY <2>1, <3>6, <4>1, <4>3, <4>5
      <4>7. code[j].to \in Nat /\ JumpAt(code, j, code[j].to) /\ LabelAt(code, m, code[j].to)
        BY <1>1, <4>2, <4>3, <4>6, FlowBetweenLines
      <4>8. j \in Nat /\ m \in Nat
        BY <3>6, <4>3
      <4>9. t <= j
        BY <3>3, <3>6, <4>1, <4>7, <4>8 DEF IsLoop
      <4> QED BY <4>5, <4>9
    <3> QED BY <3>6, <3>7
  <2> QED BY <2>1, <2>2, <2>3
<1> QED BY <1>3 DEF R

LEMMA StatementAtIs ==
    ASSUME IsWhole(code), NEW i \in DOMAIN code
    PROVE  /\ i <= StatementAt(i) /\ StatementAt(i) \in Nat
           /\ code[i].op = "label" /\ i + 1 \in DOMAIN code /\ code[i + 1].op # "label"
                => StatementAt(i) = i + 1
<1> DEFINE N == Len(code)
           T == {j \in i .. N : code[j].op # "label"} \cup {N + 1}
<1>1. DOMAIN code = 1 .. N /\ N \in Nat /\ i \in 1 .. N
  BY DEF IsWhole
<1>2. T \in SUBSET Nat /\ T # {} /\ \A j \in T : i <= j
  BY <1>1
<1>3. \E x \in T : \A y \in T : x <= y
  <2> HIDE DEF T
  <2> QED BY <1>2, LeastNatural
<1>4. StatementAt(i) = CHOOSE x \in T : \A y \in T : x <= y
  BY DEF StatementAt, Min
<1>5. StatementAt(i) \in T /\ \A y \in T : StatementAt(i) <= y
  <2> HIDE DEF T
  <2> QED BY <1>3, <1>4
<1>6. ASSUME code[i].op = "label", i + 1 \in DOMAIN code, code[i + 1].op # "label"
      PROVE  StatementAt(i) = i + 1
  <2>1. i + 1 \in T
    BY <1>1, <1>6
  <2>2. StatementAt(i) <= i + 1 /\ i <= StatementAt(i) /\ StatementAt(i) \in Nat
    BY <1>2, <1>5, <2>1
  <2>3. StatementAt(i) # i
    <3>1. i \notin T
      BY <1>1, <1>6
    <3> HIDE DEF T
    <3> QED BY <1>5, <3>1
  <2> QED BY <1>1, <2>2, <2>3
<1> QED BY <1>2, <1>5, <1>6

\* All that FitsFlowGraph says.
LEMMA WholeFits ==
    ASSUME IsWhole(code)
    PROVE  FitsFlowGraph
<1>1. /\ DOMAIN code = 1 .. Len(code) /\ Len(code) \in Nat /\ code \in Seq(Lines)
      /\ code[Len(code)].op = "return"
  BY DEF IsWhole
<1>2. \A i \in ReachedGoingDown : LeadsTo(i) \subseteq ReachedGoingDown
  BY ReachedIsAll
<1>3. ASSUME NEW i \in DOMAIN code, code[i].op = "label", NEW j \in DOMAIN code, code[j] = code[i]
      PROVE  j = i
  <2>1. code[i].to \in Nat /\ LabelAt(code, i, code[i].to) /\ LabelAt(code, j, code[i].to)
    <3>1. code[i] \in Lines
      BY <1>1
    <3> QED BY <1>1, <1>3, <3>1 DEF Lines, LabelAt
  <2> QED BY <1>1, <2>1 DEF IsWhole, Unique
<1>4. ASSUME NEW i \in DOMAIN code, code[i].op \in JumpOps
      PROVE  Position(code[i].to) \in DOMAIN code /\ StatementAt(Position(code[i].to)) # i
  <2> DEFINE t == Position(code[i].to)
  <2>1. /\ code[i].to \in Nat /\ JumpAt(code, i, code[i].to) /\ LabelAt(code, t, code[i].to)
        /\ t \in DOMAIN code
    BY <1>4, JumpsArrive
  <2> HIDE DEF t
  <2>2. i \in Nat /\ t \in Nat
    BY <1>1, <2>1
  <2>3. CASE i < t
    <3>1. t <= StatementAt(t) /\ StatementAt(t) \in Nat
      BY <2>1, StatementAtIs
    <3>2. StatementAt(t) # i
      BY <2>2, <2>3, <3>1
    <3> QED BY <2>1, <3>2 DEF t
  <2>4. CASE t <= i
    <3>1. LeafAt(code, t + 1)
      BY <2>1, <2>2, <2>4 DEF IsWhole, Looping, IsLoop
    <3>2. code[t].op = "label" /\ t + 1 \in DOMAIN code /\ code[t + 1].op = "leaf"
      BY <1>1, <2>1, <3>1 DEF LeafAt, LabelAt
    <3>3. StatementAt(t) = t + 1
      BY <2>1, <3>2, StatementAtIs
    <3>4. code[i].op # "leaf"
      BY <1>4 DEF JumpOps
    <3>5. StatementAt(t) # i
      BY <3>2, <3>3, <3>4
    <3> QED BY <2>1, <3>5 DEF t
  <2> QED BY <2>2, <2>3, <2>4
<1> QED BY <1>1, <1>2, <1>3, <1>4 DEF FitsFlowGraph, JumpOps

-----------------------------------------------------------------------------
(* The code of the function, and the line that the machine is at.          *)

CodeInv ==
    /\ IsBody(ast) /\ flag \in BOOLEAN
    /\ IF code = << >> THEN pc = 1 ELSE code = CodeOf(ast) /\ pc \in 0 .. Len(code)

\* Lines that do not return have a line after them.
LEMMA NextLine ==
    ASSUME IsWhole(code), NEW i \in DOMAIN code, code[i].op # "return"
    PROVE  i + 1 \in DOMAIN code /\ i + 1 \in 0 .. Len(code)
<1>1. DOMAIN code = 1 .. Len(code) /\ Len(code) \in Nat /\ code[Len(code)].op = "return"
  BY DEF IsWhole
<1> QED BY <1>1

LEMMA CodeInvStep ==
    ASSUME CodeInv, [Next]_vars
    PROVE  CodeInv'
<1>1. /\ IsWhole(CodeOf(ast)) /\ IsBody(ast) /\ flag \in BOOLEAN
      /\ Len(CodeOf(ast)) \in Nat /\ Len(CodeOf(ast)) >= 1 /\ CodeOf(ast) # << >>
  <2>1. IsWhole(CodeOf(ast)) /\ IsBody(ast) /\ flag \in BOOLEAN
    BY CompiledCode DEF CodeInv
  <2>2. Len(CodeOf(ast)) \in Nat /\ Len(CodeOf(ast)) >= 1
    BY <2>1 DEF IsWhole
  <2> QED BY <2>1, <2>2
<1>2. ASSUME ast' = ast, code' = code, flag' \in BOOLEAN, pc' = pc PROVE CodeInv'
  BY <1>2 DEF CodeInv
<1>3. CASE Compile
  <2>1. code = << >> /\ code' = CodeOf(ast) /\ ast' = ast /\ pc' = pc /\ flag' = flag
    BY <1>3 DEF Compile, CodeOf
  <2>2. pc = 1 /\ 1 \in 0 .. Len(CodeOf(ast))
    BY <1>1, <2>1 DEF CodeInv
  <2>3. code' # << >> /\ pc' \in 0 .. Len(code')
    BY <1>1, <2>1, <2>2
  <2> QED BY <1>1, <2>1, <2>3 DEF CodeInv
<1>4. CASE Unfold
  <2>1. ast' = ast /\ code' = code /\ flag' = flag /\ pc' = pc
    BY <1>4 DEF Unfold
  <2> QED BY <1>1, <1>2, <2>1
<1>5. ASSUME pc \in DOMAIN code
      PROVE  IsWhole(code) /\ code = CodeOf(ast) /\ code # << >>
  <2>1. code # << >>
    BY <1>5
  <2> QED BY <1>1, <2>1 DEF CodeInv
<1>6. ASSUME pc \in DOMAIN code, ast' = ast, code' = code, flag' \in BOOLEAN, pc' \in 0 .. Len(code)
      PROVE  CodeInv'
  BY <1>1, <1>5, <1>6 DEF CodeInv
<1>7. CASE PassLabel
  BY <1>1, <1>5, <1>6, <1>7, NextLine DEF PassLabel, Running, Line
<1>8. ASSUME pc \in DOMAIN code, Line.op \in JumpOps
      PROVE  Position(Line.to) \in 0 .. Len(code)
  <2>1. IsWhole(code) /\ DOMAIN code = 1 .. Len(code)
    BY <1>5, <1>8 DEF IsWhole
  <2>2. Position(Line.to) \in DOMAIN code
    BY <1>8, <2>1, JumpsArrive DEF Line
  <2> QED BY <2>1, <2>2
<1>9. CASE Jump
  BY <1>1, <1>6, <1>8, <1>9 DEF Jump, Running, JumpOps
<1>10. CASE JumpIf
  <2>1. pc \in DOMAIN code /\ Line.op \in JumpOps /\ Line.op # "return"
        /\ ast' = ast /\ code' = code /\ flag' = flag
        /\ (pc' = Position(Line.to) \/ pc' = pc + 1)
    BY <1>10 DEF JumpIf, Running, JumpOps
  <2>2. pc + 1 \in 0 .. Len(code)
    BY <1>5, <2>1, NextLine DEF Line
  <2> QED BY <1>1, <1>6, <1>8, <2>1, <2>2
<1>11. ASSUME NEW b \in BOOLEAN, Evaluate(b) PROVE CodeInv'
  BY <1>5, <1>6, <1>11, NextLine DEF Evaluate, Running, Line
<1>12. CASE Perform
  BY <1>1, <1>5, <1>6, <1>12, NextLine DEF Perform, Running, Line
<1>13. CASE Return
  <2>1. pc \in DOMAIN code /\ ast' = ast /\ code' = code /\ flag' = flag /\ pc' = 0
    BY <1>13 DEF Return, Running
  <2>2. 0 \in 0 .. Len(code)
    BY <1>1, <1>5, <2>1
  <2> QED BY <1>1, <1>6, <2>1, <2>2
<1>14. CASE UNCHANGED vars
  BY <1>1, <1>2, <1>14 DEF vars
<1> QED BY <1>3, <1>4, <1>7, <1>9, <1>10, <1>11, <1>12, <1>13, <1>14 DEF Next, Execute

LEMMA CodeInvHolds == Spec => []CodeInv
<1>1. Init => CodeInv
  BY BodyAssumption DEF Init, CodeInv
<1>2. CodeInv /\ [Next]_vars => CodeInv'
  BY CodeInvStep
<1> QED BY <1>1, <1>2, PTL DEF Spec

LEMMA CodeInvWhole ==
    ASSUME CodeInv, code # << >>
    PROVE  IsWhole(code) /\ code = CodeOf(ast) /\ pc \in 0 .. Len(code)
BY CompiledCode DEF CodeInv

\* The machine never runs off the end of the code, nor to a label that is
\* nowhere: generated code (sysy/c_gen_e.cpp:159-321, 571-622) ends with a
\* return and places every label that it jumps to.
THEOREM TypeCorrect == Spec => []TypeOK
<1>1. CodeInv => TypeOK
  <2> SUFFICES ASSUME CodeInv PROVE TypeOK
    OBVIOUS
  <2>1. ASSUME NEW i \in DOMAIN code
        PROVE  code[i].op \in {"label", "goto", "ifz", "ifnz", "leaf", "simple", "return"}
    <3>1. code # << >>
      BY <2>1
    <3>2. code[i] \in Lines
      BY <2>1, <3>1, CodeInvWhole DEF IsWhole
    <3> QED BY <3>2 DEF Lines
  <2> QED BY <2>1 DEF CodeInv, TypeOK
<1> QED BY <1>1, CodeInvHolds, PTL

\* The code keeps to what the Eeyore parser and the flow graph rely on: labels
\* are placed once and before a statement, nothing jumps to itself, the last
\* line is a return, and what is reached is reached without going up
\* (sysy/c_gen_e.cpp:159-321, 571-622).
THEOREM CodeFitsFlowGraph == Spec => []FitsFlowGraph
<1>1. CodeInv => FitsFlowGraph
  <2>1. CASE code # << >>
    BY <2>1, CodeInvWhole, WholeFits
  <2>2. CASE code = << >>
    BY <2>2 DEF FitsFlowGraph
  <2> QED BY <2>1, <2>2
<1> QED BY <1>1, CodeInvHolds, PTL

-----------------------------------------------------------------------------
(* What remains to be done is a sequence of things of many kinds.          *)

IsSeq(q) == q \in Seq({q[i] : i \in DOMAIN q})

LEMMA SeqOf ==
    ASSUME NEW S, NEW q \in Seq(S)
    PROVE  IsSeq(q)
<1> DEFINE R == {q[i] : i \in DOMAIN q}
<1>1. Len(q) \in Nat /\ DOMAIN q = 1 .. Len(q) /\ q = [i \in 1 .. Len(q) |-> q[i]]
  OBVIOUS
<1>2. q \in [1 .. Len(q) -> R]
  BY <1>1
<1> HIDE DEF R
<1>3. q \in Seq(R)
  BY <1>1, <1>2
<1> QED BY <1>3 DEF IsSeq, R

LEMMA Pushed ==
    ASSUME NEW q, IsSeq(q), NEW a
    PROVE  /\ IsSeq(<<a>> \o q) /\ <<a>> \o q # << >>
           /\ Head(<<a>> \o q) = a /\ Tail(<<a>> \o q) = q
<1> DEFINE S == {q[i] : i \in DOMAIN q} \cup {a}
<1>1. q \in Seq(S) /\ <<a>> \in Seq(S)
  BY DEF IsSeq
<1> HIDE DEF S
<1>2. <<a>> \o q \in Seq(S)
  BY <1>1
<1>3. <<a>> \o q # << >> /\ Head(<<a>> \o q) = a /\ Tail(<<a>> \o q) = q
  BY <1>1
<1> QED BY <1>2, <1>3, SeqOf

LEMMA PushedTwice ==
    ASSUME NEW q, IsSeq(q), NEW a, NEW b
    PROVE  <<a, b>> \o q = <<a>> \o (<<b>> \o q) /\ << >> \o q = q
<1> DEFINE S == {q[i] : i \in DOMAIN q} \cup {a, b}
<1>1. q \in Seq(S) /\ a \in S /\ b \in S
  BY DEF IsSeq
<1> HIDE DEF S
<1>2. << >> \o q = q
  BY <1>1, ConcatEmptySeq
<1>3. <<a, b>> = <<a>> \o <<b>> /\ <<a>> \in Seq(S) /\ <<b>> \in Seq(S)
  <2>1. <<a>> \in Seq(S) /\ <<b>> \in Seq(S) /\ <<a, b>> \in Seq(S)
    BY <1>1
  <2> DEFINE x == <<a>> \o <<b>>
             y == <<a, b>>
  <2>2. x \in Seq(S) /\ Len(x) = 2 /\ x[1] = a /\ x[2] = b
    BY <2>1
  <2>3. y \in Seq(S) /\ Len(y) = 2 /\ y[1] = a /\ y[2] = b
    BY <2>1
  <2>4. x = y
    <3> HIDE DEF x, y
    <3>1. Len(x) = Len(y) /\ \A i \in 1 .. Len(x) : x[i] = y[i]
      BY <2>2, <2>3
    <3> QED BY <2>2, <2>3, <3>1, SeqEqual
  <2> QED BY <2>1, <2>4
<1>4. (<<a>> \o <<b>>) \o q = <<a>> \o (<<b>> \o q)
  BY <1>1, <1>3, ConcatAssociative
<1> QED BY <1>2, <1>3, <1>4

LEMMA Popped ==
    ASSUME NEW q, IsSeq(q), q # << >>
    PROVE  IsSeq(Tail(q)) /\ q = <<Head(q)>> \o Tail(q)
<1> DEFINE S == {q[i] : i \in DOMAIN q}
<1>1. q \in Seq(S)
  BY DEF IsSeq
<1> HIDE DEF S
<1>2. Tail(q) \in Seq(S) /\ q = <<Head(q)>> \o Tail(q)
  BY <1>1
<1> QED BY <1>2, SeqOf

-----------------------------------------------------------------------------
(* Pieces of code in the code of the function.                             *)

\* The lines of part are those of c from line p on.
Occurs(c, part, p) ==
    /\ p \in Nat /\ p >= 1
    /\ \A k \in 1 .. Len(part) : p + k - 1 \in 1 .. Len(c) /\ c[p + k - 1] = part[k]

LEMMA OccursJoined ==
    ASSUME NEW c, NEW a \in Seq(Lines), NEW b \in Seq(Lines), NEW p, Occurs(c, a \o b, p)
    PROVE  /\ Occurs(c, a, p) /\ Occurs(c, b, p + Len(a))
           /\ p \in Nat /\ p + Len(a) \in Nat /\ Len(a) \in Nat /\ Len(b) \in Nat
           /\ p + Len(a \o b) = p + Len(a) + Len(b)
<1>1. /\ Len(a) \in Nat /\ Len(b) \in Nat /\ Len(a \o b) = Len(a) + Len(b)
      /\ \A k \in 1 .. Len(a) : (a \o b)[k] = a[k]
      /\ \A k \in 1 .. Len(b) : (a \o b)[Len(a) + k] = b[k]
  BY LineCases
<1> DEFINE d == a \o b
<1> HIDE DEF d
<1>2. p \in Nat /\ p >= 1
  BY DEF Occurs
<1>3. \A k \in 1 .. Len(d) : p + k - 1 \in 1 .. Len(c) /\ c[p + k - 1] = d[k]
  BY DEF Occurs, d
<1>4. ASSUME NEW k \in 1 .. Len(a) PROVE p + k - 1 \in 1 .. Len(c) /\ c[p + k - 1] = a[k]
  <2>1. k \in 1 .. Len(d)
    BY <1>1 DEF d
  <2> QED BY <1>1, <1>3, <2>1 DEF d
<1>5. ASSUME NEW k \in 1 .. Len(b)
      PROVE  p + Len(a) + k - 1 \in 1 .. Len(c) /\ c[p + Len(a) + k - 1] = b[k]
  <2>1. Len(a) + k \in 1 .. Len(d) /\ p + (Len(a) + k) - 1 = p + Len(a) + k - 1
    BY <1>1, <1>2 DEF d
  <2> QED BY <1>1, <1>3, <2>1 DEF d
<1> QED BY <1>1, <1>2, <1>4, <1>5 DEF Occurs

LEMMA OccursLine ==
    ASSUME NEW c, NEW line, NEW p, Occurs(c, <<line>>, p)
    PROVE  p \in 1 .. Len(c) /\ p \in Nat /\ c[p] = line
<1>1. p \in Nat /\ p + 1 - 1 \in 1 .. Len(c) /\ c[p + 1 - 1] = line
  <2>1. 1 \in 1 .. Len(<<line>>) /\ <<line>>[1] = line
    OBVIOUS
  <2> QED BY <2>1 DEF Occurs
<1>2. p + 1 - 1 = p
  BY <1>1
<1> QED BY <1>1, <1>2

-----------------------------------------------------------------------------
(* The lines that control passes, from one that is passed without anything *)
(* being done.                                                             *)

Passing(c, z, X) ==
    /\ z \in 1 .. Len(c)
    /\ \/ c[z].op = "label" /\ z + 1 \in X
       \/ c[z].op = "goto" /\ \E k \in X : LabelAt(c, k, c[z].to)

\* From line x control passes labels and gotos only until it comes to y, if
\* ever.
Leads(c, x, y) == \E X : x \in X /\ \A z \in X : z = y \/ Passing(c, z, X)

GoesTo(c, l, y) == \E k \in Nat : LabelAt(c, k, l) /\ Leads(c, k, y)

LEMMA LeadsToItself ==
    ASSUME NEW c, NEW x
    PROVE  Leads(c, x, x)
<1> DEFINE X == {x}
<1>1. x \in X /\ \A z \in X : z = x \/ Passing(c, z, X)
  OBVIOUS
<1> HIDE DEF X
<1> QED BY <1>1, Zenon DEF Leads

LEMMA LeadsInversion ==
    ASSUME NEW c, NEW x, NEW y, Leads(c, x, y)
    PROVE  \/ x = y
           \/ /\ x \in 1 .. Len(c)
              /\ \/ c[x].op = "label" /\ Leads(c, x + 1, y)
                 \/ c[x].op = "goto" /\ \E k : LabelAt(c, k, c[x].to) /\ Leads(c, k, y)
<1>1. PICK X : x \in X /\ \A z \in X : z = y \/ Passing(c, z, X)
  BY DEF Leads
<1>2. \A k \in X : Leads(c, k, y)
  BY <1>1 DEF Leads
<1>3. x = y \/ Passing(c, x, X)
  BY <1>1
<1> QED BY <1>2, <1>3 DEF Passing

LEMMA PassingMore ==
    ASSUME NEW c, NEW z, NEW X, NEW Y, X \subseteq Y, Passing(c, z, X)
    PROVE  Passing(c, z, Y)
BY DEF Passing

LEMMA LeadsOn ==
    ASSUME NEW c, NEW x, NEW y, NEW z, Leads(c, x, y), Leads(c, y, z)
    PROVE  Leads(c, x, z)
<1>1. PICK X : x \in X /\ \A w \in X : w = y \/ Passing(c, w, X)
  BY DEF Leads
<1>2. PICK Y : y \in Y /\ \A w \in Y : w = z \/ Passing(c, w, Y)
  BY DEF Leads
<1>3. X \subseteq X \cup Y /\ Y \subseteq X \cup Y /\ x \in X \cup Y
  BY <1>1
<1>4. ASSUME NEW w \in X \cup Y PROVE w = z \/ Passing(c, w, X \cup Y)
  <2>1. CASE w \in Y
    BY <1>2, <1>3, <2>1, PassingMore
  <2>2. CASE w \in X /\ w # y
    BY <1>1, <1>3, <2>2, PassingMore
  <2>3. CASE w = y
    BY <1>2, <1>3, <2>3, PassingMore
  <2> QED BY <2>1, <2>2, <2>3
<1> QED BY <1>3, <1>4 DEF Leads

\* One step of it.
LEMMA LeadsStep ==
    ASSUME NEW c, NEW x \in 1 .. Len(c), NEW y, NEW k, Leads(c, k, y),
           \/ c[x].op = "label" /\ k = x + 1
           \/ c[x].op = "goto" /\ LabelAt(c, k, c[x].to)
    PROVE  Leads(c, x, y)
<1>1. PICK X : k \in X /\ \A w \in X : w = y \/ Passing(c, w, X)
  BY DEF Leads
<1>2. Passing(c, x, X)
  BY <1>1 DEF Passing
<1>3. \A w \in X \cup {x} : w = y \/ Passing(c, w, X \cup {x})
  <2> X \subseteq X \cup {x}
    OBVIOUS
  <2> QED BY <1>1, <1>2, PassingMore
<1> QED BY <1>3 DEF Leads

LEMMA LeadsPast ==
    ASSUME NEW c, NEW p, NEW l \in Nat, NEW y, Occurs(c, <<Label(l)>>, p), Leads(c, p + 1, y)
    PROVE  Leads(c, p, y) /\ LabelAt(c, p, l) /\ GoesTo(c, l, y) /\ p \in Nat
<1>1. p \in 1 .. Len(c) /\ p \in Nat /\ c[p] = Label(l)
  BY OccursLine
<1>2. c[p].op = "label" /\ c[p].to = l
  BY <1>1 DEF Label
<1>3. Leads(c, p, y)
  BY <1>1, <1>2, LeadsStep
<1> QED BY <1>1, <1>2, <1>3 DEF LabelAt, GoesTo

LEMMA LeadsAcross ==
    ASSUME NEW c, NEW p, NEW l \in Nat, NEW y, Occurs(c, <<Goto(l)>>, p), GoesTo(c, l, y)
    PROVE  Leads(c, p, y)
<1>1. p \in 1 .. Len(c) /\ c[p] = Goto(l)
  BY OccursLine
<1>2. c[p].op = "goto" /\ c[p].to = l
  BY <1>1 DEF Goto
<1>3. PICK k \in Nat : LabelAt(c, k, l) /\ Leads(c, k, y)
  BY DEF GoesTo
<1> QED BY <1>1, <1>2, <1>3, LeadsStep

\* A label is in one place.
LEMMA GoesToIs ==
    ASSUME NEW c, IsWhole(c), NEW l \in Nat, NEW k \in Nat, LabelAt(c, k, l), NEW y, GoesTo(c, l, y)
    PROVE  Leads(c, k, y)
BY DEF GoesTo, IsWhole, Unique

LEMMA GoesOn ==
    ASSUME NEW c, NEW l, NEW x, NEW y, GoesTo(c, l, x), Leads(c, x, y)
    PROVE  GoesTo(c, l, y)
BY LeadsOn DEF GoesTo

-----------------------------------------------------------------------------
(* How what remains to be done is laid out in the code.                    *)

\* An entry says where the code for the next thing to be done begins: line
\* yes, or, after a condition (two), line yes or no according to its value.
\* The labels start and next are those of the loop around it (loop).
Entries == [yes : Nat, no : Nat, start : Nat, next : Nat, loop : BOOLEAN, two : BOOLEAN]

Conditional == {"leaf", "land", "lor"}
Marks == {"pending", "value", "again"}

SameLoop(e, n) == e.start = n.start /\ e.next = n.next /\ e.loop = n.loop

\* The code c of statement t, node i of the body, at line p; what follows it
\* has entry n.
IsStatementAt(c, tree, t, p, n, i, g) ==
    LET body == WithReturn(tree)
        lines == Piece(body, i, g).code
    IN  /\ t = body[i] /\ (i \in Statements(tree) \/ t.op = "return")
        /\ g.start = n.start /\ g.next = n.next
        /\ Occurs(c, lines, p)
        /\ JumpsOut(body)[i] => n.loop
        /\ \/ t.op \in {"break", "continue"}
           \/ ~n.two /\ Leads(c, p + Len(lines), n.yes)

StatementAtLine(c, tree, t, p, n) ==
    \E i \in Statements(WithReturn(tree)), g \in LabelState : IsStatementAt(c, tree, t, p, n, i, g)

\* From the end of a condition with labels T and F, control goes to n.yes or
\* n.no according to its value.
Decides(c, T, F, g, end, n) ==
    /\ F # g.fall => Leads(c, end, n.yes) /\ GoesTo(c, F, n.no)
    /\ F = g.fall => T # g.fall /\ Leads(c, end, n.no)
    /\ T # g.fall => GoesTo(c, T, n.yes)

IsConditionAt(c, tree, t, p, n, i, T, F, g) ==
    LET lines == Test(WithReturn(tree), i, T, F, g).code
    IN  /\ t = tree[i] /\ g.fall < g.count
        /\ Occurs(c, lines, p)
        /\ Decides(c, T, F, g, p + Len(lines), n)

ConditionAtLine(c, tree, t, p, n) ==
    n.two /\ \E i \in Conditions(tree), g \in LabelState : \E T, F \in Nat :
                IsConditionAt(c, tree, t, p, n, i, T, F, g)

\* Loop t at line p, to be evaluated again.
AgainAtLine(c, tree, t, e, n) ==
    /\ StatementAtLine(c, tree, t, e.yes, n) /\ t.op = "while"
    /\ e.loop /\ ~e.two
    /\ LabelAt(c, e.yes, e.start) /\ GoesTo(c, e.next, n.yes)

\* The part of t that is chosen by the value of its condition.
PendingAt(c, tree, t, e, n) ==
    \/ /\ t.op = "land" /\ n.two
       /\ ConditionAtLine(c, tree, tree[t.rhs], e.yes, n) /\ Leads(c, e.no, n.no)
    \/ /\ t.op = "lor" /\ n.two
       /\ ConditionAtLine(c, tree, tree[t.rhs], e.no, n) /\ Leads(c, e.yes, n.yes)
    \/ /\ t.op = "if"
       /\ StatementAtLine(c, tree, tree[t.then], e.yes, n)
       /\ StatementAtLine(c, tree, tree[t.else], e.no, n)
    \/ /\ t.op = "while" /\ ~n.two /\ Leads(c, e.no, n.yes)
       /\ \E m \in Entries : /\ StatementAtLine(c, tree, tree[t.body], e.yes, m)
                             /\ AgainAtLine(c, tree, t, m, n)

\* The code for t begins as e says, what follows it as n says.
Linked(c, tree, t, e, n) ==
    \/ /\ t.op \notin Conditional \cup Marks /\ ~e.two /\ SameLoop(e, n)
       /\ StatementAtLine(c, tree, t, e.yes, n)
    \/ /\ t.op \in Conditional /\ ~e.two /\ SameLoop(e, n)
       /\ ConditionAtLine(c, tree, t, e.yes, n)
    \/ /\ t.op = "value" /\ t.is \in BOOLEAN /\ ~e.two /\ n.two /\ SameLoop(e, n)
       /\ Leads(c, e.yes, IF t.is THEN n.yes ELSE n.no)
    \/ /\ t.op = "pending" /\ e.two /\ SameLoop(e, n)
       /\ PendingAt(c, tree, t.of, e, n)
    \/ /\ t.op = "again" /\ AgainAtLine(c, tree, t.loop, e, n)

\* A return ends all.
Ends(tree, t) ==
    \/ t.op = "return"
    \/ t.op = "items" /\ tree[t.item].op = "return"

\* X pairs what remains to be done with its entry.
Layout(c, tree, X) ==
    \A w \in X :
        /\ IsSeq(w[1]) /\ w[1] # << >>
        /\ \E n \in Entries :
            /\ Linked(c, tree, Head(w[1]), w[2], n)
            /\ <<Tail(w[1]), n>> \in X \/ (Ends(tree, Head(w[1])) /\ ~n.loop)

LaidOut(c, tree, q, e) == e \in Entries /\ \E X : <<q, e>> \in X /\ Layout(c, tree, X)

LEMMA LaidOutInversion ==
    ASSUME NEW c, NEW tree, NEW q, NEW e, LaidOut(c, tree, q, e)
    PROVE  /\ IsSeq(q) /\ q # << >> /\ e \in Entries
           /\ \E n \in Entries :
                /\ Linked(c, tree, Head(q), e, n)
                /\ LaidOut(c, tree, Tail(q), n) \/ (Ends(tree, Head(q)) /\ ~n.loop)
<1>1. PICK X : <<q, e>> \in X /\ Layout(c, tree, X)
  BY DEF LaidOut
<1>2. /\ IsSeq(q) /\ q # << >>
      /\ \E n \in Entries :
            /\ Linked(c, tree, Head(q), e, n)
            /\ <<Tail(q), n>> \in X \/ (Ends(tree, Head(q)) /\ ~n.loop)
  <2>1. <<q, e>>[1] = q /\ <<q, e>>[2] = e
    OBVIOUS
  <2> QED BY <1>1, <2>1, Zenon DEF Layout
<1>3. PICK n \in Entries : /\ Linked(c, tree, Head(q), e, n)
                           /\ <<Tail(q), n>> \in X \/ (Ends(tree, Head(q)) /\ ~n.loop)
  BY <1>2
<1>4. <<Tail(q), n>> \in X => LaidOut(c, tree, Tail(q), n)
  BY <1>1 DEF LaidOut
<1>5. e \in Entries
  BY DEF LaidOut
<1> QED BY <1>2, <1>3, <1>4, <1>5, Zenon

LEMMA LaidOutLast ==
    ASSUME NEW c, NEW tree, NEW q, IsSeq(q), NEW t, NEW e \in Entries, NEW n \in Entries,
           Linked(c, tree, t, e, n),
           LaidOut(c, tree, q, n) \/ (Ends(tree, t) /\ ~n.loop)
    PROVE  LaidOut(c, tree, <<t>> \o q, e)
<1> DEFINE r == <<t>> \o q
<1>1. IsSeq(r) /\ r # << >> /\ Head(r) = t /\ Tail(r) = q
  BY Pushed
<1> HIDE DEF r
<1>2. PICK X : Layout(c, tree, X) /\ (<<q, n>> \in X \/ (Ends(tree, t) /\ ~n.loop))
  <2>1. CASE LaidOut(c, tree, q, n)
    BY <2>1 DEF LaidOut
  <2>2. CASE Ends(tree, t) /\ ~n.loop
    <3>1. Layout(c, tree, {})
      BY DEF Layout
    <3> QED BY <2>2, <3>1, Zenon
  <2> QED BY <2>1, <2>2
<1> DEFINE Y == X \cup {<<r, e>>}
<1>3. ASSUME NEW w \in Y
      PROVE  /\ IsSeq(w[1]) /\ w[1] # << >>
             /\ \E m \in Entries :
                  /\ Linked(c, tree, Head(w[1]), w[2], m)
                  /\ <<Tail(w[1]), m>> \in Y \/ (Ends(tree, Head(w[1])) /\ ~m.loop)
  <2>1. CASE w \in X
    <3>1. /\ IsSeq(w[1]) /\ w[1] # << >>
          /\ \E m \in Entries :
                /\ Linked(c, tree, Head(w[1]), w[2], m)
                /\ <<Tail(w[1]), m>> \in X \/ (Ends(tree, Head(w[1])) /\ ~m.loop)
      BY <1>2, <2>1, Zenon DEF Layout
    <3> QED BY <3>1, Zenon
  <2>2. CASE w = <<r, e>>
    <3>1. w[1] = r /\ w[2] = e
      BY <2>2
    <3>2. <<Tail(r), n>> \in Y \/ (Ends(tree, Head(r)) /\ ~n.loop)
      BY <1>1, <1>2
    <3>3. Linked(c, tree, Head(r), e, n)
      BY <1>1
    <3> HIDE DEF Y
    <3> QED BY <1>1, <3>1, <3>2, <3>3, Zenon
  <2> QED BY <2>1, <2>2
<1>4. Layout(c, tree, Y) /\ <<r, e>> \in Y
  BY <1>3, Zenon DEF Layout
<1>5. LaidOut(c, tree, r, e)
  BY <1>4, Zenon DEF LaidOut
<1> QED BY <1>5 DEF r

\* Entries before n for a statement or a condition at line y, and for what
\* depends on a condition and begins at line y or z.
At(y, n) == [yes |-> y, no |-> 0, start |-> n.start, next |-> n.next,
             loop |-> n.loop, two |-> FALSE]
AtEither(y, z, n) == [yes |-> y, no |-> z, start |-> n.start, next |-> n.next,
                      loop |-> n.loop, two |-> TRUE]

LEMMA AtIs ==
    ASSUME NEW n \in Entries, NEW y \in Nat
    PROVE  /\ At(y, n) \in Entries /\ At(y, n).yes = y /\ ~At(y, n).two /\ SameLoop(At(y, n), n)
BY DEF Entries, At, SameLoop

LEMMA AtEitherIs ==
    ASSUME NEW n \in Entries, NEW y \in Nat, NEW z \in Nat
    PROVE  /\ AtEither(y, z, n) \in Entries /\ AtEither(y, z, n).two
           /\ AtEither(y, z, n).yes = y /\ AtEither(y, z, n).no = z /\ SameLoop(AtEither(y, z, n), n)
BY DEF Entries, AtEither, SameLoop

LEMMA SameLoopOn ==
    ASSUME NEW e, NEW m, NEW n, SameLoop(e, m)
    PROVE  /\ SameLoop(m, e) /\ SameLoop(n, n)
           /\ e.start = m.start /\ e.next = m.next /\ e.loop = m.loop
           /\ SameLoop(m, n) => SameLoop(e, n)
BY DEF SameLoop

\* The kinds of things, and the links that they have.
LEMMA StatementKinds ==
    ASSUME NEW tree, IsTree(tree), NEW i \in Statements(tree)
    PROVE  tree[i].op \notin Conditional \cup Marks
BY StatementForms DEF Conditional, Marks

LEMMA StatementLink ==
    ASSUME NEW tree, IsBody(tree), NEW c, NEW t, NEW e, NEW n, ~e.two, SameLoop(e, n),
           StatementAtLine(c, tree, t, e.yes, n)
    PROVE  Linked(c, tree, t, e, n)
<1>1. PICK i \in Statements(WithReturn(tree)) : t = WithReturn(tree)[i]
  BY DEF StatementAtLine, IsStatementAt
<1>2. t.op \notin Conditional \cup Marks
  BY <1>1, BodyWithReturn, StatementKinds
<1> QED BY <1>2 DEF Linked

LEMMA ConditionLink ==
    ASSUME NEW tree, NEW c, NEW t, NEW e, NEW n, ~e.two, SameLoop(e, n),
           ConditionAtLine(c, tree, t, e.yes, n)
    PROVE  Linked(c, tree, t, e, n)
<1>1. PICK i \in Conditions(tree) : t = tree[i]
  BY DEF ConditionAtLine, IsConditionAt
<1>2. t.op \in Conditional
  BY <1>1 DEF Conditions, Conditional
<1> QED BY <1>2 DEF Linked

LEMMA LinkOf ==
    ASSUME NEW tree, NEW c, NEW t, NEW e, NEW n, Linked(c, tree, t, e, n)
    PROVE  /\ t.op \notin Conditional \cup Marks =>
                ~e.two /\ SameLoop(e, n) /\ StatementAtLine(c, tree, t, e.yes, n)
           /\ t.op \in Conditional =>
                ~e.two /\ SameLoop(e, n) /\ ConditionAtLine(c, tree, t, e.yes, n)
           /\ t.op = "value" =>
                /\ t.is \in BOOLEAN /\ ~e.two /\ n.two /\ SameLoop(e, n)
                /\ Leads(c, e.yes, IF t.is THEN n.yes ELSE n.no)
           /\ t.op = "pending" => e.two /\ SameLoop(e, n) /\ PendingAt(c, tree, t.of, e, n)
           /\ t.op = "again" => AgainAtLine(c, tree, t.loop, e, n)
           /\ e.two => t.op = "pending"
           /\ t.op # "again" => SameLoop(e, n)
BY DEF Linked, Conditional, Marks, AgainAtLine

\* A node of the body and the code for it.
LEMMA StatementOpened ==
    ASSUME NEW tree, IsBody(tree), NEW c, NEW t, NEW p, NEW n, t.op # "return",
           StatementAtLine(c, tree, t, p, n)
    PROVE  \E i \in Statements(tree), g \in LabelState :
             /\ t = tree[i] /\ g.start = n.start /\ g.next = n.next
             /\ Occurs(c, Piece(WithReturn(tree), i, g).code, p)
             /\ JumpsOut(tree)[i] => n.loop
             /\ \/ t.op \in {"break", "continue"}
                \/ ~n.two /\ Leads(c, p + Len(Piece(WithReturn(tree), i, g).code), n.yes)
<1> DEFINE body == WithReturn(tree)
<1>1. PICK i \in Statements(body), g \in LabelState : IsStatementAt(c, tree, t, p, n, i, g)
  BY DEF StatementAtLine
<1>2. i \in Statements(tree)
  BY <1>1 DEF IsStatementAt
<1>3. body[i] = tree[i] /\ (JumpsOut(body)[i] <=> JumpsOut(tree)[i])
  <2>1. Extends(body, tree)
    BY BodyWithReturn
  <2> QED BY <1>2, <2>1, ExtensionNodes, ExtensionJumps
<1>4. /\ t = body[i] /\ g.start = n.start /\ g.next = n.next
      /\ Occurs(c, Piece(body, i, g).code, p)
      /\ JumpsOut(body)[i] => n.loop
      /\ \/ t.op \in {"break", "continue"}
         \/ ~n.two /\ Leads(c, p + Len(Piece(body, i, g).code), n.yes)
  BY <1>1, Zenon DEF IsStatementAt
<1>5. (JumpsOut(tree)[i] => n.loop) /\ t = tree[i]
  BY <1>3, <1>4, Zenon
<1> QED BY <1>2, <1>4, <1>5, Zenon

LEMMA StatementGoesOn ==
    ASSUME NEW tree, IsBody(tree), NEW c, NEW t, NEW p, NEW n,
           t.op \notin {"return", "break", "continue"}, StatementAtLine(c, tree, t, p, n)
    PROVE  \E i \in Statements(tree), g \in LabelState :
             /\ t = tree[i] /\ g.start = n.start /\ g.next = n.next
             /\ Occurs(c, Piece(WithReturn(tree), i, g).code, p)
             /\ JumpsOut(tree)[i] => n.loop
             /\ ~n.two /\ Leads(c, p + Len(Piece(WithReturn(tree), i, g).code), n.yes)
<1>1. t.op # "return"
  OBVIOUS
<1>2. PICK i \in Statements(tree), g \in LabelState :
             /\ t = tree[i] /\ g.start = n.start /\ g.next = n.next
             /\ Occurs(c, Piece(WithReturn(tree), i, g).code, p)
             /\ JumpsOut(tree)[i] => n.loop
             /\ \/ t.op \in {"break", "continue"}
                \/ ~n.two /\ Leads(c, p + Len(Piece(WithReturn(tree), i, g).code), n.yes)
  BY <1>1, StatementOpened
<1> QED BY <1>2

LEMMA StatementPlaced ==
    ASSUME NEW tree, IsBody(tree), NEW c, NEW p, NEW n, NEW i \in Statements(tree), NEW g \in LabelState,
           g.start = n.start, g.next = n.next, JumpsOut(tree)[i] => n.loop, ~n.two,
           Occurs(c, Piece(WithReturn(tree), i, g).code, p),
           Leads(c, p + Len(Piece(WithReturn(tree), i, g).code), n.yes)
    PROVE  StatementAtLine(c, tree, tree[i], p, n)
<1> DEFINE body == WithReturn(tree)
<1>1. Extends(body, tree)
  BY BodyWithReturn
<1>2. i \in Statements(body) /\ body[i] = tree[i] /\ (JumpsOut(body)[i] <=> JumpsOut(tree)[i])
  BY <1>1, ExtensionNodes, ExtensionJumps
<1>3. tree[i] = body[i] /\ (JumpsOut(body)[i] => n.loop)
  BY <1>2, Zenon
<1>4. IsStatementAt(c, tree, tree[i], p, n, i, g)
  BY <1>3, Zenon DEF IsStatementAt
<1> QED BY <1>2, <1>4, Zenon DEF StatementAtLine

\* What has jumps of a statement out of it are jumps of its parts.
LEMMA JumpsOfParts ==
    ASSUME NEW tree, IsTree(tree), NEW i \in Statements(tree), NEW n, JumpsOut(tree)[i] => n.loop
    PROVE  /\ tree[i].op = "items" => /\ JumpsOut(tree)[tree[i].front] => n.loop
                                      /\ JumpsOut(tree)[tree[i].item] => n.loop
           /\ tree[i].op = "if" => /\ JumpsOut(tree)[tree[i].then] => n.loop
                                   /\ JumpsOut(tree)[tree[i].else] => n.loop
           /\ tree[i].op \in {"break", "continue"} => n.loop
<1>1. JumpsOut(tree)[i] = OutOf(tree, JumpsOut(tree), tree[i])
  BY OutEquationHolds DEF OutEquation
<1> QED BY <1>1, Zenon DEF OutOf

-----------------------------------------------------------------------------
(* The source unfolds while the code only passes labels and gotos.         *)

\* q is laid out from a line that e leads to.
Unfolded(c, tree, q, e) ==
    \E d \in Entries : LaidOut(c, tree, q, d) /\ ~d.two /\ Leads(c, e.yes, d.yes)

\* What an items node is laid out as.
LEMMA ItemsOpened ==
    ASSUME NEW tree, IsBody(tree), NEW c, NEW t, t.op = "items", NEW e \in Entries, NEW n \in Entries,
           Linked(c, tree, t, e, n)
    PROVE  \E d \in Entries, m \in Entries :
             /\ Linked(c, tree, tree[t.front], d, m) /\ Linked(c, tree, tree[t.item], m, n)
             /\ ~d.two /\ Leads(c, e.yes, d.yes)
<1> DEFINE body == WithReturn(tree)
<1>0. PICK p : p = e.yes
  OBVIOUS
<1>1. IsTree(tree) /\ IsTree(body) /\ Extends(body, tree)
  BY BodyIsTree, BodyWithReturn
<1>2. ~e.two /\ SameLoop(e, n) /\ StatementAtLine(c, tree, t, p, n)
  BY <1>0, LinkOf DEF Conditional, Marks
<1>3. PICK i \in Statements(tree), g \in LabelState :
        /\ t = tree[i] /\ g.start = n.start /\ g.next = n.next
        /\ Occurs(c, Piece(body, i, g).code, p)
        /\ JumpsOut(tree)[i] => n.loop
        /\ ~n.two /\ Leads(c, p + Len(Piece(body, i, g).code), n.yes)
  BY <1>2, StatementGoesOn
<1>4. body[i] = tree[i] /\ i \in Statements(body)
  BY <1>1, ExtensionNodes
<1> HIDE DEF body
<1>5. PICK front, item :
        /\ IsItemsCode(body, i, g, front, item)
        /\ Piece(body, i, g) = [code |-> front.code \o item.code, g |-> item.g]
  BY <1>1, <1>3, <1>4, ItemsCode, Zenon
<1>6. Piece(body, i, g).code = front.code \o item.code
  <2>1. \A x, y : [code |-> x, g |-> y].code = x
    OBVIOUS
  <2> QED BY <1>5, <2>1, Zenon
<1>7. /\ front = Piece(body, t.front, g) /\ item = Piece(body, t.item, front.g)
      /\ front.code \in Seq(Lines) /\ item.code \in Seq(Lines)
      /\ front.g \in Later(g) /\ front.g \in LabelState
  BY <1>3, <1>4, <1>5, Zenon DEF IsItemsCode
<1>8. t.front \in Statements(tree) /\ t.item \in Statements(tree)
  BY <1>1, <1>3, StatementForms
<1>9. front.g.start = n.start /\ front.g.next = n.next
  BY <1>3, <1>7 DEF Later
<1>10. (JumpsOut(tree)[t.front] => n.loop) /\ (JumpsOut(tree)[t.item] => n.loop)
  BY <1>1, <1>3, JumpsOfParts
<1> DEFINE y == p + Len(front.code)
<1>11. /\ Occurs(c, front.code, p) /\ Occurs(c, item.code, y) /\ p \in Nat /\ y \in Nat
       /\ p + Len(front.code \o item.code) = y + Len(item.code)
  <2>1. Occurs(c, front.code \o item.code, p)
    BY <1>3, <1>6
  <2>2. front.code \in Seq(Lines) /\ item.code \in Seq(Lines)
    BY <1>7
  <2> HIDE DEF y
  <2>3. /\ Occurs(c, front.code, p) /\ Occurs(c, item.code, p + Len(front.code))
        /\ p \in Nat /\ p + Len(front.code) \in Nat
        /\ p + Len(front.code \o item.code) = p + Len(front.code) + Len(item.code)
    <3> DEFINE a == front.code
               b == item.code
    <3> HIDE DEF a, b
    <3>1. Occurs(c, a \o b, p) /\ a \in Seq(Lines) /\ b \in Seq(Lines)
      BY <2>1, <2>2 DEF a, b
    <3>2. Occurs(c, a, p) /\ Occurs(c, b, p + Len(a))
      BY <3>1, OccursJoined
    <3>3. p \in Nat /\ p + Len(a) \in Nat
      BY <3>1, OccursJoined
    <3>4. p + Len(a \o b) = p + Len(a) + Len(b)
      BY <3>1, OccursJoined
    <3> QED BY <3>2, <3>3, <3>4 DEF a, b
  <2> QED BY <2>3, Zenon DEF y
<1> HIDE DEF y
<1>12. /\ At(y, n) \in Entries /\ At(y, n).yes = y /\ ~At(y, n).two /\ SameLoop(At(y, n), n)
       /\ At(p, n) \in Entries /\ At(p, n).yes = p /\ ~At(p, n).two /\ SameLoop(At(p, n), n)
  BY <1>11, AtIs
<1>13. /\ At(y, n).start = n.start /\ At(y, n).next = n.next /\ At(y, n).loop = n.loop
       /\ SameLoop(At(p, n), At(y, n))
  BY <1>12, SameLoopOn
<1>14. StatementAtLine(c, tree, tree[t.item], y, n)
  <2>1. Leads(c, y + Len(item.code), n.yes)
    BY <1>3, <1>6, <1>11
  <2> QED BY <1>3, <1>7, <1>8, <1>9, <1>10, <1>11, <2>1, StatementPlaced DEF body
<1>15. StatementAtLine(c, tree, tree[t.front], p, At(y, n))
  <2>1. Leads(c, p + Len(front.code), At(y, n).yes)
    BY <1>12, LeadsToItself DEF y
  <2>2. /\ g.start = At(y, n).start /\ g.next = At(y, n).next
        /\ JumpsOut(tree)[t.front] => At(y, n).loop
    BY <1>3, <1>10, <1>13
  <2> QED BY <1>7, <1>8, <1>11, <1>12, <2>1, <2>2, StatementPlaced DEF body
<1>16. Linked(c, tree, tree[t.front], At(p, n), At(y, n))
  BY <1>12, <1>13, <1>15, StatementLink
<1>17. Linked(c, tree, tree[t.item], At(y, n), n)
  BY <1>12, <1>14, StatementLink
<1>18. Leads(c, e.yes, At(p, n).yes)
  BY <1>0, <1>12, LeadsToItself
<1> QED BY <1>12, <1>16, <1>17, <1>18

LEMMA ItemsUnfolded ==
    ASSUME NEW tree, IsBody(tree), NEW c, NEW q, NEW e, LaidOut(c, tree, q, e), Head(q).op = "items"
    PROVE  Unfolded(c, tree, <<tree[Head(q).front], tree[Head(q).item]>> \o Tail(q), e)
<1> DEFINE t == Head(q)
           a == tree[t.front]
           b == tree[t.item]
<1>1. IsSeq(q) /\ q # << >> /\ e \in Entries
  BY LaidOutInversion
<1>2. PICK n \in Entries :
        /\ Linked(c, tree, t, e, n)
        /\ LaidOut(c, tree, Tail(q), n) \/ (Ends(tree, t) /\ ~n.loop)
  BY LaidOutInversion
<1>3. IsSeq(Tail(q))
  BY <1>1, Popped
<1>4. PICK d \in Entries, m \in Entries :
        Linked(c, tree, a, d, m) /\ Linked(c, tree, b, m, n) /\ ~d.two /\ Leads(c, e.yes, d.yes)
  BY <1>1, <1>2, ItemsOpened
<1>5. Ends(tree, t) => Ends(tree, b)
  BY DEF Ends
<1> HIDE DEF a, b
<1>6. LaidOut(c, tree, <<b>> \o Tail(q), m)
  BY <1>2, <1>3, <1>4, <1>5, LaidOutLast
<1>7. IsSeq(<<b>> \o Tail(q))
  BY <1>3, Pushed
<1>8. LaidOut(c, tree, <<a>> \o (<<b>> \o Tail(q)), d)
  BY <1>4, <1>6, <1>7, LaidOutLast
<1>9. <<a, b>> \o Tail(q) = <<a>> \o (<<b>> \o Tail(q))
  BY <1>3, PushedTwice
<1>10. Unfolded(c, tree, <<a, b>> \o Tail(q), e)
  BY <1>4, <1>8, <1>9 DEF Unfolded
<1> QED BY <1>10 DEF a, b

\* What does not end all has something after it.
LEMMA LaidOutGoesOn ==
    ASSUME NEW c, NEW tree, NEW q, NEW e, LaidOut(c, tree, q, e), Head(q).op \notin {"return", "items"}
    PROVE  /\ IsSeq(q) /\ q # << >> /\ e \in Entries /\ IsSeq(Tail(q))
           /\ \E n \in Entries : Linked(c, tree, Head(q), e, n) /\ LaidOut(c, tree, Tail(q), n)
<1>1. IsSeq(q) /\ q # << >> /\ e \in Entries
  BY LaidOutInversion
<1>2. PICK n \in Entries :
        /\ Linked(c, tree, Head(q), e, n)
        /\ LaidOut(c, tree, Tail(q), n) \/ (Ends(tree, Head(q)) /\ ~n.loop)
  BY LaidOutInversion
<1>3. ~Ends(tree, Head(q))
  BY DEF Ends
<1>4. IsSeq(Tail(q))
  BY <1>1, Popped
<1> QED BY <1>1, <1>2, <1>3, <1>4

LEMMA EmptyUnfolded ==
    ASSUME NEW tree, IsBody(tree), NEW c, NEW q, NEW e, LaidOut(c, tree, q, e),
           Head(q).op \in {"empty", "none"}
    PROVE  Unfolded(c, tree, Tail(q), e)
<1> DEFINE t == Head(q)
           body == WithReturn(tree)
<1>1. PICK n \in Entries : Linked(c, tree, t, e, n) /\ LaidOut(c, tree, Tail(q), n)
  BY LaidOutGoesOn
<1>2. StatementAtLine(c, tree, t, e.yes, n)
  BY <1>1, LinkOf DEF Conditional, Marks
<1>3. PICK i \in Statements(tree), g \in LabelState :
        /\ t = tree[i]
        /\ Occurs(c, Piece(body, i, g).code, e.yes)
        /\ ~n.two /\ Leads(c, e.yes + Len(Piece(body, i, g).code), n.yes)
  BY <1>2, StatementGoesOn
<1>4. IsTree(body) /\ i \in Statements(body) /\ body[i] = tree[i]
  BY BodyWithReturn, ExtensionNodes
<1>5. Piece(body, i, g) = [code |-> << >>, g |-> g]
  BY <1>3, <1>4, OneLineCode
<1>6. Len(Piece(body, i, g).code) = 0
  <2>1. Piece(body, i, g).code = << >>
    BY <1>5
  <2> QED BY <2>1
<1>7. e.yes \in Nat
  BY <1>3 DEF Occurs
<1>8. e.yes + Len(Piece(body, i, g).code) = e.yes
  BY <1>6, <1>7
<1>9. Leads(c, e.yes, n.yes)
  BY <1>3, <1>8
<1> QED BY <1>1, <1>3, <1>9 DEF Unfolded

\* A break or a continue, and the goto that it is in the code.
LEMMA LeaveOpened ==
    ASSUME NEW tree, IsBody(tree), NEW c, NEW t, t.op \in {"break", "continue"}, NEW p, NEW n,
           StatementAtLine(c, tree, t, p, n)
    PROVE  /\ n.loop /\ n.start \in Nat /\ n.next \in Nat
           /\ Occurs(c, <<Goto(IF t.op = "break" THEN n.next ELSE n.start)>>, p)
           /\ \A m : m.start = n.start /\ m.next = n.next /\ m.loop
                        => StatementAtLine(c, tree, t, p, m)
<1> DEFINE body == WithReturn(tree)
<1>1. PICK i \in Statements(body), g \in LabelState : IsStatementAt(c, tree, t, p, n, i, g)
  BY DEF StatementAtLine
<1>2. /\ t = body[i] /\ (i \in Statements(tree) \/ t.op = "return")
      /\ g.start = n.start /\ g.next = n.next
      /\ Occurs(c, Piece(body, i, g).code, p)
      /\ JumpsOut(body)[i] => n.loop
  BY <1>1, Zenon DEF IsStatementAt
<1>3. IsTree(body)
  BY BodyWithReturn
<1>4. Piece(body, i, g) = [code |-> <<Goto(IF t.op = "break" THEN g.next ELSE g.start)>>, g |-> g]
  BY <1>2, <1>3, OneLineCode
<1>5. Piece(body, i, g).code = <<Goto(IF t.op = "break" THEN n.next ELSE n.start)>>
  BY <1>2, <1>4
<1>6. n.loop
  BY <1>2, <1>3, JumpsOfParts
<1>7. ASSUME NEW m, m.start = n.start, m.next = n.next, m.loop
      PROVE  StatementAtLine(c, tree, t, p, m)
  <2>1. IsStatementAt(c, tree, t, p, m, i, g)
    BY <1>2, <1>7, Zenon DEF IsStatementAt
  <2> QED BY <2>1, Zenon DEF StatementAtLine
<1>8. n.start \in Nat /\ n.next \in Nat
  BY <1>2 DEF LabelState
<1>9. Occurs(c, <<Goto(IF t.op = "break" THEN n.next ELSE n.start)>>, p)
  BY <1>2, <1>5
<1> QED BY <1>6, <1>7, <1>8, <1>9

LEMMA LeaveUnfolded ==
    ASSUME NEW tree, IsBody(tree), NEW c, NEW q, NEW e, LaidOut(c, tree, q, e),
           Head(q).op \in {"break", "continue"}
    PROVE  /\ IsSeq(Tail(q))
           /\ Head(Tail(q)).op = "again" =>
                Unfolded(c, tree, IF Head(q).op = "break" THEN Tail(Tail(q)) ELSE Tail(q), e)
           /\ Head(Tail(q)).op # "again" => Unfolded(c, tree, <<Head(q)>> \o Tail(Tail(q)), e)
<1> DEFINE t == Head(q)
           u == Head(Tail(q))
<1>1. IsSeq(Tail(q)) /\ e \in Entries
  BY LaidOutGoesOn
<1>2. PICK n \in Entries : Linked(c, tree, t, e, n) /\ LaidOut(c, tree, Tail(q), n)
  BY LaidOutGoesOn
<1>3. ~e.two /\ SameLoop(e, n) /\ StatementAtLine(c, tree, t, e.yes, n)
  BY <1>2, LinkOf DEF Conditional, Marks
<1>4. /\ n.loop /\ n.start \in Nat /\ n.next \in Nat
      /\ Occurs(c, <<Goto(IF t.op = "break" THEN n.next ELSE n.start)>>, e.yes)
      /\ \A m : m.start = n.start /\ m.next = n.next /\ m.loop
                    => StatementAtLine(c, tree, t, e.yes, m)
  BY <1>3, LeaveOpened
<1>5. Tail(q) # << >> /\ IsSeq(Tail(Tail(q)))
  BY <1>2, LaidOutInversion, Popped
<1>6. PICK m \in Entries :
        /\ Linked(c, tree, u, n, m)
        /\ LaidOut(c, tree, Tail(Tail(q)), m) \/ (Ends(tree, u) /\ ~m.loop)
  BY <1>2, LaidOutInversion
<1>7. CASE u.op = "again"
  <2>1. AgainAtLine(c, tree, u.loop, n, m)
    BY <1>6, <1>7, LinkOf
  <2>2. LabelAt(c, n.yes, n.start) /\ GoesTo(c, n.next, m.yes) /\ n.yes \in Nat /\ ~n.two
    BY <2>1 DEF AgainAtLine, Entries
  <2>3. CASE t.op = "break"
    <3>1. Leads(c, e.yes, m.yes)
      BY <1>4, <2>2, <2>3, LeadsAcross
    <3>2. LaidOut(c, tree, Tail(Tail(q)), m)
      BY <1>6, <1>7 DEF Ends
    <3>3. ~m.two
      <4>1. u.loop.op = "while" /\ StatementAtLine(c, tree, u.loop, n.yes, m)
        BY <2>1 DEF AgainAtLine
      <4> QED BY <4>1, StatementGoesOn
    <3> QED BY <1>1, <1>7, <2>3, <3>1, <3>2, <3>3 DEF Unfolded
  <2>4. CASE t.op = "continue"
    <3>1. GoesTo(c, n.start, n.yes)
      BY <2>2, LeadsToItself DEF GoesTo
    <3>2. Leads(c, e.yes, n.yes)
      BY <1>4, <2>4, <3>1, LeadsAcross
    <3> QED BY <1>1, <1>2, <1>7, <2>2, <2>4, <3>2 DEF Unfolded
  <2> QED BY <2>3, <2>4
<1>8. CASE u.op # "again"
  <2>1. SameLoop(n, m)
    BY <1>6, <1>8, LinkOf
  <2>2. LaidOut(c, tree, Tail(Tail(q)), m)
    BY <1>4, <1>6, <2>1 DEF SameLoop
  <2>3. m.start = n.start /\ m.next = n.next /\ m.loop
    BY <1>4, <2>1 DEF SameLoop
  <2>4. SameLoop(e, m)
    BY <1>3, <2>1, SameLoopOn
  <2>5. Linked(c, tree, t, e, m)
    BY <1>3, <1>4, <2>3, <2>4, StatementLink
  <2>6. LaidOut(c, tree, <<t>> \o Tail(Tail(q)), e)
    BY <1>1, <1>5, <2>2, <2>5, LaidOutLast
  <2>7. Leads(c, e.yes, e.yes)
    BY LeadsToItself
  <2> QED BY <1>1, <1>3, <1>8, <2>6, <2>7 DEF Unfolded
<1> QED BY <1>7, <1>8

LEMMA AgainUnfolded ==
    ASSUME NEW tree, IsBody(tree), NEW c, NEW q, NEW e, LaidOut(c, tree, q, e), Head(q).op = "again"
    PROVE  Unfolded(c, tree, <<Head(q).loop>> \o Tail(q), e)
<1>1. IsSeq(Tail(q)) /\ e \in Entries
  BY LaidOutGoesOn
<1>2. PICK n \in Entries : Linked(c, tree, Head(q), e, n) /\ LaidOut(c, tree, Tail(q), n)
  BY LaidOutGoesOn
<1>3. StatementAtLine(c, tree, Head(q).loop, e.yes, n)
  BY <1>2, LinkOf DEF AgainAtLine
<1> DEFINE d == At(e.yes, n)
<1>4. d \in Entries /\ d.yes = e.yes /\ ~d.two /\ SameLoop(d, n)
  <2>1. e.yes \in Nat
    BY <1>1 DEF Entries
  <2> QED BY <2>1, AtIs
<1> HIDE DEF d
<1>5. Linked(c, tree, Head(q).loop, d, n)
  BY <1>3, <1>4, StatementLink
<1>6. LaidOut(c, tree, <<Head(q).loop>> \o Tail(q), d)
  BY <1>1, <1>2, <1>4, <1>5, LaidOutLast
<1>7. Leads(c, e.yes, d.yes)
  BY <1>4, LeadsToItself
<1> QED BY <1>4, <1>6, <1>7 DEF Unfolded

\* A statement or a condition put before q at line y.
LEMMA PlacedBefore ==
    ASSUME NEW tree, IsBody(tree), NEW c, NEW q, NEW n, IsSeq(q), LaidOut(c, tree, q, n),
           NEW e, NEW y \in Nat, Leads(c, e.yes, y), NEW t,
           StatementAtLine(c, tree, t, y, n) \/ ConditionAtLine(c, tree, t, y, n)
    PROVE  Unfolded(c, tree, <<t>> \o q, e)
<1>1. n \in Entries
  BY DEF LaidOut
<1> DEFINE d == At(y, n)
<1>2. d \in Entries /\ d.yes = y /\ ~d.two /\ SameLoop(d, n)
  BY <1>1, AtIs
<1> HIDE DEF d
<1>3. Linked(c, tree, t, d, n)
  BY <1>2, StatementLink, ConditionLink
<1>4. LaidOut(c, tree, <<t>> \o q, d)
  BY <1>1, <1>2, <1>3, LaidOutLast
<1> QED BY <1>2, <1>4 DEF Unfolded

LEMMA ValueBefore ==
    ASSUME NEW tree, NEW c, NEW q, NEW n, IsSeq(q), LaidOut(c, tree, q, n), n.two, NEW b \in BOOLEAN,
           NEW e, NEW y \in Nat, Leads(c, e.yes, y), Leads(c, y, IF b THEN n.yes ELSE n.no)
    PROVE  Unfolded(c, tree, <<Value(b)>> \o q, e)
<1>1. n \in Entries
  BY DEF LaidOut
<1> DEFINE d == At(y, n)
<1>2. d \in Entries /\ d.yes = y /\ ~d.two /\ SameLoop(d, n)
  BY <1>1, AtIs
<1> HIDE DEF d
<1>3. Value(b).op = "value" /\ Value(b).is = b
  BY DEF Value
<1>4. Linked(c, tree, Value(b), d, n)
  BY <1>2, <1>3 DEF Linked
<1>5. LaidOut(c, tree, <<Value(b)>> \o q, d)
  BY <1>1, <1>2, <1>4, LaidOutLast
<1> QED BY <1>2, <1>5 DEF Unfolded

\* The choice that a value makes.
LEMMA ChoiceMade ==
    ASSUME NEW tree, IsBody(tree), NEW c, NEW q, NEW n, NEW m, IsSeq(q), LaidOut(c, tree, q, m),
           n \in Entries, NEW t, PendingAt(c, tree, t, n, m), NEW b \in BOOLEAN,
           NEW e, Leads(c, e.yes, IF b THEN n.yes ELSE n.no)
    PROVE  Unfolded(c, tree, Chosen(tree, t, b) \o q, e)
<1>1. n.yes \in Nat /\ n.no \in Nat /\ m \in Entries
  BY DEF Entries, LaidOut
<1>2. ASSUME t.op = "land", m.two,
             ConditionAtLine(c, tree, tree[t.rhs], n.yes, m), Leads(c, n.no, m.no)
      PROVE  Unfolded(c, tree, Chosen(tree, t, b) \o q, e)
  <2>1. Chosen(tree, t, b) = <<IF b THEN tree[t.rhs] ELSE Value(b)>>
    BY <1>2 DEF Chosen
  <2>2. CASE b
    <3>1. Chosen(tree, t, b) = <<tree[t.rhs]>>
      BY <2>1, <2>2
    <3>2. Leads(c, e.yes, n.yes)
      BY <2>2
    <3> QED BY <1>1, <1>2, <3>1, <3>2, PlacedBefore
  <2>3. CASE ~b
    <3>1. Chosen(tree, t, b) = <<Value(b)>>
      BY <2>1, <2>3
    <3>2. Leads(c, e.yes, n.no) /\ Leads(c, n.no, IF b THEN m.yes ELSE m.no)
      BY <1>2, <2>3
    <3> QED BY <1>1, <1>2, <3>1, <3>2, ValueBefore
  <2> QED BY <2>2, <2>3
<1>3. ASSUME t.op = "lor", m.two,
             ConditionAtLine(c, tree, tree[t.rhs], n.no, m), Leads(c, n.yes, m.yes)
      PROVE  Unfolded(c, tree, Chosen(tree, t, b) \o q, e)
  <2>1. Chosen(tree, t, b) = <<IF b THEN Value(b) ELSE tree[t.rhs]>>
    BY <1>3 DEF Chosen
  <2>2. CASE ~b
    <3>1. Chosen(tree, t, b) = <<tree[t.rhs]>>
      BY <2>1, <2>2
    <3>2. Leads(c, e.yes, n.no)
      BY <2>2
    <3> QED BY <1>1, <1>3, <3>1, <3>2, PlacedBefore
  <2>3. CASE b
    <3>1. Chosen(tree, t, b) = <<Value(b)>>
      BY <2>1, <2>3
    <3>2. Leads(c, e.yes, n.yes) /\ Leads(c, n.yes, IF b THEN m.yes ELSE m.no)
      BY <1>3, <2>3
    <3> QED BY <1>1, <1>3, <3>1, <3>2, ValueBefore
  <2> QED BY <2>2, <2>3
<1>4. ASSUME t.op = "if",
             StatementAtLine(c, tree, tree[t.then], n.yes, m),
             StatementAtLine(c, tree, tree[t.else], n.no, m)
      PROVE  Unfolded(c, tree, Chosen(tree, t, b) \o q, e)
  <2>1. Chosen(tree, t, b) = <<tree[IF b THEN t.then ELSE t.else]>>
    BY <1>4 DEF Chosen
  <2>2. CASE b
    <3>1. Chosen(tree, t, b) = <<tree[t.then]>> /\ Leads(c, e.yes, n.yes)
      BY <2>1, <2>2
    <3> QED BY <1>1, <1>4, <3>1, PlacedBefore
  <2>3. CASE ~b
    <3>1. Chosen(tree, t, b) = <<tree[t.else]>> /\ Leads(c, e.yes, n.no)
      BY <2>1, <2>3
    <3> QED BY <1>1, <1>4, <3>1, PlacedBefore
  <2> QED BY <2>2, <2>3
<1>5. ASSUME t.op = "while", ~m.two, Leads(c, n.no, m.yes), NEW l \in Entries,
             StatementAtLine(c, tree, tree[t.body], n.yes, l), AgainAtLine(c, tree, t, l, m)
      PROVE  Unfolded(c, tree, Chosen(tree, t, b) \o q, e)
  <2>1. Chosen(tree, t, b) = IF b THEN <<tree[t.body], Again(t)>> ELSE << >>
    BY <1>5 DEF Chosen
  <2>2. CASE b
    <3>1. Chosen(tree, t, b) = <<tree[t.body], Again(t)>> /\ Leads(c, e.yes, n.yes)
      BY <2>1, <2>2
    <3>2. Again(t).op = "again" /\ Again(t).loop = t
      BY DEF Again
    <3>3. Linked(c, tree, Again(t), l, m)
      BY <1>5, <3>2 DEF Linked
    <3>4. LaidOut(c, tree, <<Again(t)>> \o q, l) /\ IsSeq(<<Again(t)>> \o q)
      BY <1>1, <1>5, <3>3, LaidOutLast, Pushed
    <3>5. Unfolded(c, tree, <<tree[t.body]>> \o (<<Again(t)>> \o q), e)
      BY <1>1, <1>5, <3>1, <3>4, PlacedBefore
    <3>6. <<tree[t.body], Again(t)>> \o q = <<tree[t.body]>> \o (<<Again(t)>> \o q)
      BY PushedTwice
    <3> QED BY <3>1, <3>5, <3>6, Zenon
  <2>3. CASE ~b
    <3>1. Chosen(tree, t, b) = << >> /\ Leads(c, e.yes, n.no)
      BY <2>1, <2>3
    <3>2. Leads(c, e.yes, m.yes)
      BY <1>5, <3>1, LeadsOn
    <3>3. Chosen(tree, t, b) \o q = q
      BY <3>1, PushedTwice
    <3> QED BY <1>1, <1>5, <3>2, <3>3 DEF Unfolded
  <2> QED BY <2>2, <2>3
<1> QED BY <1>2, <1>3, <1>4, <1>5 DEF PendingAt

LEMMA ValueUnfolded ==
    ASSUME NEW tree, IsBody(tree), NEW c, NEW q, NEW e, LaidOut(c, tree, q, e), Head(q).op = "value"
    PROVE  Unfolded(c, tree, Chosen(tree, Head(Tail(q)).of, Head(q).is) \o Tail(Tail(q)), e)
<1> DEFINE u == Head(Tail(q))
<1>1. PICK n \in Entries : Linked(c, tree, Head(q), e, n) /\ LaidOut(c, tree, Tail(q), n)
  BY LaidOutGoesOn
<1>2. Head(q).is \in BOOLEAN /\ n.two /\ Leads(c, e.yes, IF Head(q).is THEN n.yes ELSE n.no)
  BY <1>1, LinkOf
<1>3. PICK m \in Entries :
        /\ Linked(c, tree, u, n, m)
        /\ LaidOut(c, tree, Tail(Tail(q)), m) \/ (Ends(tree, u) /\ ~m.loop)
  BY <1>1, LaidOutInversion
<1>4. u.op = "pending" /\ PendingAt(c, tree, u.of, n, m)
  BY <1>2, <1>3, LinkOf
<1>5. LaidOut(c, tree, Tail(Tail(q)), m) /\ IsSeq(Tail(Tail(q)))
  <2>1. ~Ends(tree, u)
    BY <1>4 DEF Ends
  <2> QED BY <1>3, <2>1, LaidOutInversion
<1> HIDE DEF u
<1>6. Unfolded(c, tree, Chosen(tree, u.of, Head(q).is) \o Tail(Tail(q)), e)
  BY <1>2, <1>4, <1>5, ChoiceMade
<1> QED BY <1>6 DEF u

\* A condition at line x, and after it what depends on it.
LEMMA PendingBefore ==
    ASSUME NEW tree, NEW c, NEW q, NEW n, IsSeq(q), LaidOut(c, tree, q, n),
           NEW t, NEW w \in Entries, w.two, SameLoop(w, n), PendingAt(c, tree, t, w, n),
           NEW s, NEW x \in Nat, ConditionAtLine(c, tree, s, x, w), NEW e, Leads(c, e.yes, x)
    PROVE  Unfolded(c, tree, <<s, Pending(t)>> \o q, e)
<1>1. Pending(t).op = "pending" /\ Pending(t).of = t
  BY DEF Pending
<1>2. Linked(c, tree, Pending(t), w, n)
  BY <1>1 DEF Linked
<1>3. n \in Entries
  BY DEF LaidOut
<1>4. LaidOut(c, tree, <<Pending(t)>> \o q, w) /\ IsSeq(<<Pending(t)>> \o q)
  BY <1>2, <1>3, LaidOutLast, Pushed
<1> DEFINE d == At(x, w)
<1>5. d \in Entries /\ d.yes = x /\ ~d.two /\ SameLoop(d, w)
  BY AtIs
<1> HIDE DEF d
<1>6. Linked(c, tree, s, d, w)
  BY <1>5, ConditionLink
<1>7. LaidOut(c, tree, <<s>> \o (<<Pending(t)>> \o q), d)
  BY <1>4, <1>5, <1>6, LaidOutLast
<1>8. <<s, Pending(t)>> \o q = <<s>> \o (<<Pending(t)>> \o q)
  BY PushedTwice
<1> QED BY <1>5, <1>7, <1>8 DEF Unfolded

\* The label that goes to the first operand of a condition, and the second
\* operand before the place of that label.
IsTarget(T, F, g, isAnd, isFresh, target) ==
    /\ isFresh <=> g.fall = (IF isAnd THEN F ELSE T)
    /\ target = IF isFresh THEN g.count ELSE IF isAnd THEN F ELSE T

DecidedBy(c, T, F, g, end, n, isAnd, target) ==
    /\ target # g.fall /\ Decides(c, T, F, g, end, n)
    /\ \E z \in Nat : GoesTo(c, target, z) /\ Leads(c, z, IF isAnd THEN n.no ELSE n.yes)
LEMMA OperandsDecide ==
    ASSUME NEW c, NEW T \in Nat, NEW F \in Nat, NEW g \in LabelState, g.fall < g.count,
           NEW n, NEW end \in Nat, NEW isAnd \in BOOLEAN, NEW isFresh \in BOOLEAN, NEW target \in Nat,
           IsTarget(T, F, g, isAnd, isFresh, target),
           Occurs(c, Placed(isFresh, target), end),
           Decides(c, T, F, g, end + Len(Placed(isFresh, target)), n)
    PROVE  DecidedBy(c, T, F, g, end, n, isAnd, target)
<1>0. g.fall \in Nat /\ g.count \in Nat /\ g.fall # g.count
  BY DEF LabelState
<1> USE DEF IsTarget
<1> DEFINE after == end + Len(Placed(isFresh, target))
           out == IF isAnd THEN n.no ELSE n.yes
<1>1. /\ F # g.fall => Leads(c, after, n.yes) /\ GoesTo(c, F, n.no)
      /\ F = g.fall => T # g.fall /\ Leads(c, after, n.no)
      /\ T # g.fall => GoesTo(c, T, n.yes)
  BY DEF Decides
<1>2. CASE isFresh
  <2>1. Placed(isFresh, target) = <<Label(target)>>
    BY <1>2 DEF Placed
  <2>2. after = end + 1 /\ Occurs(c, <<Label(target)>>, end)
    BY <2>1
  <2>3. target = g.count /\ g.fall = IF isAnd THEN F ELSE T
    BY <1>2
  <2> HIDE DEF after
  <2>4. Leads(c, after, out)
    <3>1. CASE isAnd
      BY <1>1, <2>3, <3>1
    <3>2. CASE ~isAnd
      BY <1>1, <2>3, <3>2
    <3> QED BY <3>1, <3>2
  <2>5. LabelAt(c, end, target) /\ Leads(c, end, out)
    <3>1. Leads(c, end + 1, out)
      BY <2>2, <2>4
    <3> QED BY <2>2, <3>1, LeadsPast
  <2>6. GoesTo(c, target, end)
    BY <2>5, LeadsToItself DEF GoesTo
  <2>7. Decides(c, T, F, g, end, n)
    <3>1. CASE isAnd
      <4>1. F = g.fall /\ Leads(c, end, n.no)
        BY <2>3, <2>5, <3>1
      <4> QED BY <1>1, <4>1 DEF Decides
    <3>2. CASE ~isAnd
      <4>1. T = g.fall /\ Leads(c, end, n.yes)
        BY <2>3, <2>5, <3>2
      <4> QED BY <1>1, <4>1 DEF Decides
    <3> QED BY <3>1, <3>2
  <2> QED BY <1>0, <2>3, <2>5, <2>6, <2>7 DEF DecidedBy
<1>3. CASE ~isFresh
  <2>1. Placed(isFresh, target) = << >>
    BY <1>3 DEF Placed
  <2>2. after = end
    BY <2>1
  <2>3. target = (IF isAnd THEN F ELSE T) /\ target # g.fall
    BY <1>3
  <2>4. Decides(c, T, F, g, end, n)
    BY <2>2
  <2>5. GoesTo(c, target, out)
    <3>1. CASE isAnd
      BY <1>1, <2>3, <3>1
    <3>2. CASE ~isAnd
      BY <1>1, <2>3, <3>2
    <3> QED BY <3>1, <3>2
  <2>6. PICK z \in Nat : LabelAt(c, z, target) /\ Leads(c, z, out)
    BY <2>5 DEF GoesTo
  <2>7. GoesTo(c, target, z)
    BY <2>6, LeadsToItself DEF GoesTo
  <2> QED BY <2>3, <2>4, <2>6, <2>7 DEF DecidedBy
<1> QED BY <1>2, <1>3

LEMMA PlacedLines ==
    ASSUME NEW isFresh, NEW l \in Nat
    PROVE  Placed(isFresh, l) \in Seq(Lines)
BY LabelLine, NoLines DEF Placed

\* Two pieces of code and a label.
LEMMA OccursBinary ==
    ASSUME NEW c, NEW a \in Seq(Lines), NEW b \in Seq(Lines), NEW d \in Seq(Lines), NEW p,
           Occurs(c, a \o b \o d, p)
    PROVE  LET y == p + Len(a)
               z == y + Len(b)
           IN  /\ p \in Nat /\ y \in Nat /\ z \in Nat
               /\ Occurs(c, a, p) /\ Occurs(c, b, y) /\ Occurs(c, d, z)
               /\ p + Len(a \o b \o d) = z + Len(d)
<1> DEFINE ab == a \o b
<1>1. ab \in Seq(Lines) /\ Len(a) \in Nat /\ Len(b) \in Nat /\ Len(d) \in Nat
  BY LineCases
<1>2. Occurs(c, ab, p) /\ Occurs(c, d, p + Len(ab)) /\ p + Len(ab \o d) = p + Len(ab) + Len(d)
  <2> HIDE DEF ab
  <2>1. Occurs(c, ab \o d, p)
    BY DEF ab
  <2> QED BY <1>1, <2>1, OccursJoined
<1>3. /\ Occurs(c, a, p) /\ Occurs(c, b, p + Len(a)) /\ p \in Nat
      /\ p + Len(ab) = p + Len(a) + Len(b)
  BY <1>2, OccursJoined
<1> HIDE DEF ab
<1>4. p + Len(ab) + Len(d) = p + Len(a) + Len(b) + Len(d)
  BY <1>3, Zenon
<1>5. p + Len(a) \in Nat /\ p + Len(a) + Len(b) \in Nat
  BY <1>1, <1>3
<1>6. p + Len(ab \o d) = p + Len(a) + Len(b) + Len(d)
  BY <1>2, <1>4, Zenon
<1>7. Occurs(c, d, p + Len(a) + Len(b))
  BY <1>2, <1>3, Zenon
<1> QED BY <1>3, <1>5, <1>6, <1>7, Zenon DEF ab

LEMMA BinaryUnfolded ==
    ASSUME NEW tree, IsBody(tree), NEW c, NEW q, NEW e, LaidOut(c, tree, q, e),
           Head(q).op \in {"land", "lor"}
    PROVE  Unfolded(c, tree, <<tree[Head(q).lhs], Pending(Head(q))>> \o Tail(q), e)
<1> DEFINE body == WithReturn(tree)
           t == Head(q)
<1>1. IsTree(tree) /\ IsTree(body) /\ Extends(body, tree)
  BY BodyIsTree, BodyWithReturn
<1>2. PICK n \in Entries : Linked(c, tree, t, e, n) /\ LaidOut(c, tree, Tail(q), n)
  BY LaidOutGoesOn
<1>3. IsSeq(Tail(q)) /\ e \in Entries
  BY LaidOutGoesOn
<1>4. PICK p : p = e.yes
  OBVIOUS
<1>5. n.two /\ ConditionAtLine(c, tree, t, p, n)
  BY <1>2, <1>4, LinkOf DEF Conditional, ConditionAtLine
<1>6. PICK i \in Conditions(tree), g \in LabelState : \E T, F \in Nat :
        IsConditionAt(c, tree, t, p, n, i, T, F, g)
  BY <1>5 DEF ConditionAtLine
<1>7. PICK T \in Nat, F \in Nat : IsConditionAt(c, tree, t, p, n, i, T, F, g)
  BY <1>6
<1>8. /\ t = tree[i] /\ g.fall < g.count
      /\ Occurs(c, Test(body, i, T, F, g).code, p)
      /\ Decides(c, T, F, g, p + Len(Test(body, i, T, F, g).code), n)
  BY <1>7, Zenon DEF IsConditionAt
<1>9. body[i] = tree[i] /\ i \in Conditions(body) /\ body[i].op # "leaf"
  BY <1>1, <1>8, ExtensionNodes
<1> HIDE DEF body
<1>10. PICK lhs, rhs : \E isFresh \in BOOLEAN, target \in Nat :
        /\ IsBinaryCode(body, i, T, F, g, lhs, rhs, isFresh, target)
        /\ Test(body, i, T, F, g)
              = [code |-> lhs.code \o rhs.code \o Placed(isFresh, target), g |-> rhs.g]
  BY <1>1, <1>9, BinaryCode, Zenon
<1>11. PICK isFresh \in BOOLEAN, target \in Nat :
        /\ IsBinaryCode(body, i, T, F, g, lhs, rhs, isFresh, target)
        /\ Test(body, i, T, F, g)
              = [code |-> lhs.code \o rhs.code \o Placed(isFresh, target), g |-> rhs.g]
  BY <1>10, Zenon
<1> DEFINE isAnd == t.op = "land"
           before == IF isFresh THEN NewLabels(g, 1) ELSE g
<1>12. /\ isFresh = (g.fall = IF isAnd THEN F ELSE T)
       /\ target = IF isFresh THEN g.count ELSE IF isAnd THEN F ELSE T
       /\ lhs = Test(body, t.lhs, IF isAnd THEN g.fall ELSE target,
                                  IF isAnd THEN target ELSE g.fall, before)
       /\ rhs = Test(body, t.rhs, T, F, lhs.g)
       /\ before \in LabelState /\ before \in Later(g)
       /\ lhs.code \in Seq(Lines) /\ lhs.g \in LabelState /\ lhs.g \in Later(before)
       /\ rhs.code \in Seq(Lines)
  <2>1. body[i] = t
    BY <1>8, <1>9
  <2> QED BY <1>11, <2>1, Zenon DEF IsBinaryCode
<1>13. Test(body, i, T, F, g).code = lhs.code \o rhs.code \o Placed(isFresh, target)
  <2>1. \A x, y : [code |-> x, g |-> y].code = x
    OBVIOUS
  <2> QED BY <1>11, <2>1, Zenon
<1>14. PICK a \in Seq(Lines), b \in Seq(Lines), d \in Seq(Lines) :
        a = lhs.code /\ b = rhs.code /\ d = Placed(isFresh, target)
  BY <1>12, PlacedLines
<1>15. Occurs(c, a \o b \o d, p) /\ Decides(c, T, F, g, p + Len(a \o b \o d), n)
  BY <1>8, <1>13, <1>14
<1>16. PICK y \in Nat, end \in Nat :
         /\ p \in Nat /\ y = p + Len(a) /\ end = y + Len(b)
         /\ Occurs(c, a, p) /\ Occurs(c, b, y) /\ Occurs(c, d, end)
         /\ p + Len(a \o b \o d) = end + Len(d)
  BY <1>15, OccursBinary
<1>17. Decides(c, T, F, g, end + Len(d), n)
  BY <1>15, <1>16, Zenon
<1>18. /\ target # g.fall /\ Decides(c, T, F, g, end, n)
       /\ \E z \in Nat : GoesTo(c, target, z) /\ Leads(c, z, IF isAnd THEN n.no ELSE n.yes)
  <2> HIDE DEF isAnd
  <2>1. isAnd \in BOOLEAN
    BY DEF isAnd
  <2>2. isFresh <=> g.fall = (IF isAnd THEN F ELSE T)
    BY <1>12, Zenon
  <2>3. IsTarget(T, F, g, isAnd, isFresh, target)
    BY <1>12, <2>2 DEF IsTarget
  <2>4. /\ Occurs(c, Placed(isFresh, target), end)
        /\ Decides(c, T, F, g, end + Len(Placed(isFresh, target)), n)
    BY <1>14, <1>16, <1>17
  <2>5. isFresh \in BOOLEAN /\ target \in Nat /\ T \in Nat /\ F \in Nat /\ end \in Nat
        /\ g \in LabelState /\ g.fall < g.count
    BY <1>6, <1>7, <1>8, <1>11, <1>16
  <2>6. DecidedBy(c, T, F, g, end, n, isAnd, target)
    BY <2>1, <2>3, <2>4, <2>5, OperandsDecide
  <2> QED BY <2>6 DEF DecidedBy
<1>19. PICK z \in Nat : GoesTo(c, target, z) /\ Leads(c, z, IF isAnd THEN n.no ELSE n.yes)
  BY <1>18
<1>20. /\ g.fall \in Nat /\ before.fall = g.fall /\ before.fall < before.count
       /\ lhs.g.fall = g.fall /\ lhs.g.fall < lhs.g.count
  <2> HIDE DEF before
  <2>1. /\ g.fall \in Nat /\ g.count \in Nat /\ before.fall = g.fall /\ before.count >= g.count
        /\ before.count \in Nat
    BY <1>12 DEF Later, LabelState
  <2>2. lhs.g.fall = before.fall /\ lhs.g.count >= before.count /\ lhs.g.count \in Nat
    BY <1>12 DEF Later, LabelState
  <2> QED BY <1>8, <2>1, <2>2
<1>21. t.lhs \in Conditions(tree) /\ t.rhs \in Conditions(tree)
  BY <1>1, <1>8, ConditionForms
<1>22. ConditionAtLine(c, tree, tree[t.rhs], y, n)
  <2>1. Decides(c, T, F, lhs.g, y + Len(Test(body, t.rhs, T, F, lhs.g).code), n)
    <3>1. Test(body, t.rhs, T, F, lhs.g).code = b /\ end = y + Len(b)
      BY <1>12, <1>14, <1>16, Zenon
    <3>2. Decides(c, T, F, lhs.g, end, n)
      BY <1>18, <1>20 DEF Decides
    <3> QED BY <3>1, <3>2, Zenon
  <2>2. Occurs(c, Test(body, t.rhs, T, F, lhs.g).code, y)
    BY <1>12, <1>14, <1>16
  <2>3. IsConditionAt(c, tree, tree[t.rhs], y, n, t.rhs, T, F, lhs.g)
    BY <1>20, <2>1, <2>2, Zenon DEF IsConditionAt, body
  <2> QED BY <1>5, <1>12, <1>21, <2>3 DEF ConditionAtLine
<1> HIDE DEF before
<1>23. CASE isAnd
  <2> DEFINE w == AtEither(y, z, n)
  <2>1. w \in Entries /\ w.two /\ w.yes = y /\ w.no = z /\ SameLoop(w, n)
    BY AtEitherIs
  <2> HIDE DEF w
  <2>2. lhs = Test(body, t.lhs, g.fall, target, before)
    BY <1>12, <1>23
  <2>3. Decides(c, g.fall, target, before, y, w)
    BY <1>18, <1>19, <1>20, <2>1, LeadsToItself DEF Decides
  <2>4. IsConditionAt(c, tree, tree[t.lhs], p, w, t.lhs, g.fall, target, before)
    <3>1. /\ Occurs(c, Test(body, t.lhs, g.fall, target, before).code, p)
          /\ Decides(c, g.fall, target, before, p + Len(Test(body, t.lhs, g.fall, target, before).code), w)
      BY <1>14, <1>16, <2>2, <2>3
    <3> QED BY <1>20, <3>1, Zenon DEF IsConditionAt, body
  <2>5. ConditionAtLine(c, tree, tree[t.lhs], p, w)
    BY <1>12, <1>20, <1>21, <2>1, <2>4 DEF ConditionAtLine
  <2>6. PendingAt(c, tree, t, w, n)
    <3>1. t.op = "land" /\ Leads(c, w.no, n.no) /\ ConditionAtLine(c, tree, tree[t.rhs], w.yes, n)
      BY <1>19, <1>22, <1>23, <2>1
    <3> QED BY <1>5, <3>1 DEF PendingAt
  <2>7. Leads(c, e.yes, p)
    BY <1>4, LeadsToItself
  <2> QED BY <1>2, <1>3, <1>16, <2>1, <2>5, <2>6, <2>7, PendingBefore
<1>24. CASE ~isAnd
  <2> DEFINE w == AtEither(z, y, n)
  <2>1. w \in Entries /\ w.two /\ w.yes = z /\ w.no = y /\ SameLoop(w, n)
    BY AtEitherIs
  <2> HIDE DEF w
  <2>2. lhs = Test(body, t.lhs, target, g.fall, before)
    BY <1>12, <1>24
  <2>3. Decides(c, target, g.fall, before, y, w)
    BY <1>18, <1>19, <1>20, <2>1, LeadsToItself DEF Decides
  <2>4. IsConditionAt(c, tree, tree[t.lhs], p, w, t.lhs, target, g.fall, before)
    <3>1. /\ Occurs(c, Test(body, t.lhs, target, g.fall, before).code, p)
          /\ Decides(c, target, g.fall, before, p + Len(Test(body, t.lhs, target, g.fall, before).code), w)
      BY <1>14, <1>16, <2>2, <2>3
    <3> QED BY <1>20, <3>1, Zenon DEF IsConditionAt, body
  <2>5. ConditionAtLine(c, tree, tree[t.lhs], p, w)
    BY <1>12, <1>20, <1>21, <2>1, <2>4 DEF ConditionAtLine
  <2>6. PendingAt(c, tree, t, w, n)
    <3>1. t.op = "lor" /\ Leads(c, w.yes, n.yes) /\ ConditionAtLine(c, tree, tree[t.rhs], w.no, n)
      BY <1>19, <1>22, <1>24, <2>1
    <3> QED BY <1>5, <3>1 DEF PendingAt
  <2>7. Leads(c, e.yes, p)
    BY <1>4, LeadsToItself
  <2> QED BY <1>2, <1>3, <1>16, <2>1, <2>5, <2>6, <2>7, PendingBefore
<1> QED BY <1>23, <1>24

\* The lines of an if and of a loop.
LEMMA OccursPair ==
    ASSUME NEW c, NEW u, NEW v, NEW p, Occurs(c, <<u, v>>, p)
    PROVE  p \in Nat /\ Occurs(c, <<u>>, p) /\ Occurs(c, <<v>>, p + 1)
<1>1. p \in Nat /\ p >= 1
  BY DEF Occurs
<1>2. \A k \in 1 .. 2 : p + k - 1 \in 1 .. Len(c) /\ c[p + k - 1] = <<u, v>>[k]
  <2>1. Len(<<u, v>>) = 2
    OBVIOUS
  <2> QED BY <2>1 DEF Occurs
<1>3. p \in 1 .. Len(c) /\ c[p] = u /\ p + 1 \in 1 .. Len(c) /\ c[p + 1] = v
  <2>1. p + 1 - 1 \in 1 .. Len(c) /\ c[p + 1 - 1] = <<u, v>>[1]
    BY <1>2
  <2>2. p + 2 - 1 \in 1 .. Len(c) /\ c[p + 2 - 1] = <<u, v>>[2]
    BY <1>2
  <2>3. p + 1 - 1 = p /\ p + 2 - 1 = p + 1
    BY <1>1
  <2> QED BY <2>1, <2>2, <2>3
<1>4. ASSUME NEW x \in Nat, x >= 1, NEW line, x \in 1 .. Len(c), c[x] = line
      PROVE  Occurs(c, <<line>>, x)
  <2>1. Len(<<line>>) = 1 /\ <<line>>[1] = line /\ x + 1 - 1 = x
    BY <1>4
  <2>2. \A k \in 1 .. Len(<<line>>) : k = 1
    BY <2>1
  <2> QED BY <1>4, <2>1, <2>2 DEF Occurs
<1> QED BY <1>1, <1>3, <1>4

LEMMA OccursLast ==
    ASSUME NEW c, NEW a \in Seq(Lines), NEW line \in Lines, NEW p, Occurs(c, a \o <<line>>, p)
    PROVE  /\ Occurs(c, a, p) /\ Occurs(c, <<line>>, p + Len(a)) /\ p \in Nat /\ p + Len(a) \in Nat
           /\ p + Len(a \o <<line>>) = p + Len(a) + 1
<1>1. <<line>> \in Seq(Lines) /\ Len(<<line>>) = 1
  OBVIOUS
<1> DEFINE b == <<line>>
<1> HIDE DEF b
<1>2. /\ Occurs(c, a, p) /\ Occurs(c, b, p + Len(a)) /\ p \in Nat /\ p + Len(a) \in Nat
      /\ p + Len(a \o b) = p + Len(a) + Len(b)
  <2>1. b \in Seq(Lines) /\ Occurs(c, a \o b, p)
    BY <1>1 DEF b
  <2> QED BY <2>1, OccursJoined
<1>3. Len(b) = 1
  BY <1>1 DEF b
<1>4. p + Len(a \o b) = p + Len(a) + 1
  BY <1>2, <1>3
<1> QED BY <1>2, <1>4 DEF b

OccursIfElse(c, p, a, ifLabel, b, next, elseLabel, d, x, y, z) ==
    /\ p \in Nat /\ x = p + Len(a) /\ y = x + 1 + Len(b) /\ z = y + 2 + Len(d)
    /\ Occurs(c, a, p) /\ Occurs(c, <<Label(ifLabel)>>, x)
    /\ Occurs(c, b, x + 1) /\ Occurs(c, <<Goto(next)>>, y) /\ Occurs(c, <<Label(elseLabel)>>, y + 1)
    /\ Occurs(c, d, y + 2) /\ Occurs(c, <<Label(next)>>, z)
    /\ p + Len(IfElseCode(a, ifLabel, b, next, elseLabel, d)) = z + 1

LEMMA IfElseLines ==
    ASSUME NEW c, NEW p, NEW a \in Seq(Lines), NEW b \in Seq(Lines), NEW d \in Seq(Lines),
           NEW ifLabel \in Nat, NEW next \in Nat, NEW elseLabel \in Nat,
           Occurs(c, IfElseCode(a, ifLabel, b, next, elseLabel, d), p)
    PROVE  \E x, y, z \in Nat : OccursIfElse(c, p, a, ifLabel, b, next, elseLabel, d, x, y, z)
<1> DEFINE b1 == a \o <<Label(ifLabel)>>
           b2 == b1 \o b
           pair == <<Goto(next), Label(elseLabel)>>
           b3 == b2 \o pair
           b4 == b3 \o d
           all == b4 \o <<Label(next)>>
<1>1. IfElseCode(a, ifLabel, b, next, elseLabel, d) = all
  BY DEF IfElseCode
<1>2. /\ Label(ifLabel) \in Lines /\ Label(next) \in Lines /\ pair \in Seq(Lines) /\ Len(pair) = 2
      /\ <<Label(ifLabel)>> \in Seq(Lines)
  <2>1. Label(ifLabel) \in Lines /\ Label(next) \in Lines
    BY LabelLines
  <2>2. pair \in Seq(Lines)
    BY GotoLabelLines
  <2> QED BY <2>1, <2>2
<1>3. b1 \in Seq(Lines)
  BY <1>2, LineCases
<1>4. b2 \in Seq(Lines)
  <2> HIDE DEF b1
  <2> QED BY <1>3, LineCases
<1>5. b3 \in Seq(Lines)
  <2> HIDE DEF b2, pair
  <2> QED BY <1>2, <1>4, LineCases
<1>6. b4 \in Seq(Lines)
  <2> HIDE DEF b3
  <2> QED BY <1>5, LineCases
<1>7. /\ Occurs(c, b4, p) /\ Occurs(c, <<Label(next)>>, p + Len(b4))
      /\ p + Len(all) = p + Len(b4) + 1 /\ p \in Nat
  <2> HIDE DEF b4
  <2>1. Occurs(c, b4 \o <<Label(next)>>, p)
    BY <1>1
  <2> QED BY <1>2, <1>6, <2>1, OccursLast
<1>8. /\ Occurs(c, b3, p) /\ Occurs(c, d, p + Len(b3))
      /\ p + Len(b4) = p + Len(b3) + Len(d)
  <2> HIDE DEF b3
  <2> QED BY <1>5, <1>7, OccursJoined
<1>9. /\ Occurs(c, b2, p) /\ Occurs(c, pair, p + Len(b2))
      /\ p + Len(b3) = p + Len(b2) + Len(pair)
  <2> HIDE DEF b2, pair
  <2>1. b2 \in Seq(Lines) /\ pair \in Seq(Lines) /\ Occurs(c, b2 \o pair, p)
    BY <1>2, <1>4, <1>8
  <2> QED BY <2>1, OccursJoined
<1>10. /\ Occurs(c, b1, p) /\ Occurs(c, b, p + Len(b1))
       /\ p + Len(b2) = p + Len(b1) + Len(b)
  <2> HIDE DEF b1
  <2> QED BY <1>3, <1>9, OccursJoined
<1>11. /\ Occurs(c, a, p) /\ Occurs(c, <<Label(ifLabel)>>, p + Len(a))
       /\ p + Len(b1) = p + Len(a) + 1
  BY <1>2, <1>10, OccursLast
<1>12. Occurs(c, <<Goto(next)>>, p + Len(b2)) /\ Occurs(c, <<Label(elseLabel)>>, p + Len(b2) + 1)
  BY <1>9, OccursPair
<1>13. Len(a) \in Nat /\ Len(b) \in Nat /\ Len(d) \in Nat
  OBVIOUS
<1> HIDE DEF b1, b2, b3, b4, all, pair
<1> DEFINE x == p + Len(a)
           y == x + 1 + Len(b)
           z == y + 2 + Len(d)
<1>14. x \in Nat /\ y \in Nat /\ z \in Nat
  BY <1>7, <1>13
<1>15. p + Len(b1) = x + 1 /\ p + Len(b2) = y
  BY <1>10, <1>11
<1>16. p + Len(b3) = y + 2
  BY <1>2, <1>9, <1>15
<1>17. p + Len(b4) = z
  BY <1>8, <1>16
<1> HIDE DEF x, y, z
<1>18. OccursIfElse(c, p, a, ifLabel, b, next, elseLabel, d, x, y, z)
  <2>1. p + Len(IfElseCode(a, ifLabel, b, next, elseLabel, d)) = z + 1
    BY <1>1, <1>7, <1>17
  <2>2. Occurs(c, b, x + 1) /\ Occurs(c, d, y + 2) /\ Occurs(c, <<Label(next)>>, z)
    BY <1>7, <1>8, <1>10, <1>15, <1>16, <1>17
  <2>3. Occurs(c, <<Goto(next)>>, y) /\ Occurs(c, <<Label(elseLabel)>>, y + 1)
    BY <1>12, <1>15
  <2>4. Occurs(c, a, p) /\ Occurs(c, <<Label(ifLabel)>>, x)
    BY <1>11 DEF x
  <2>5. x = p + Len(a) /\ y = x + 1 + Len(b) /\ z = y + 2 + Len(d)
    BY DEF x, y, z
  <2> QED BY <1>7, <2>1, <2>2, <2>3, <2>4, <2>5 DEF OccursIfElse
<1> QED BY <1>14, <1>18

OccursIf(c, p, a, b, elseLabel, x, y) ==
    /\ p \in Nat /\ x = p + Len(a) /\ y = x + Len(b)
    /\ Occurs(c, a, p) /\ Occurs(c, b, x) /\ Occurs(c, <<Label(elseLabel)>>, y)
    /\ p + Len(IfCode(a, b, elseLabel)) = y + 1

LEMMA IfLines ==
    ASSUME NEW c, NEW p, NEW a \in Seq(Lines), NEW b \in Seq(Lines), NEW elseLabel \in Nat,
           Occurs(c, IfCode(a, b, elseLabel), p)
    PROVE  \E x, y \in Nat : OccursIf(c, p, a, b, elseLabel, x, y)
<1> DEFINE ab == a \o b
<1>1. Label(elseLabel) \in Lines /\ ab \in Seq(Lines) /\ Len(a) \in Nat /\ Len(b) \in Nat
  BY LabelLines, LineCases
<1>2. IfCode(a, b, elseLabel) = ab \o <<Label(elseLabel)>>
  BY DEF IfCode
<1>3. /\ Occurs(c, ab, p) /\ Occurs(c, <<Label(elseLabel)>>, p + Len(ab))
      /\ p + Len(ab \o <<Label(elseLabel)>>) = p + Len(ab) + 1 /\ p \in Nat
  <2> HIDE DEF ab
  <2>1. Occurs(c, ab \o <<Label(elseLabel)>>, p)
    BY <1>2
  <2> QED BY <1>1, <2>1, OccursLast
<1>4. /\ Occurs(c, a, p) /\ Occurs(c, b, p + Len(a)) /\ p + Len(ab) = p + Len(a) + Len(b)
  BY <1>3, OccursJoined
<1> HIDE DEF ab
<1> DEFINE x == p + Len(a)
           y == x + Len(b)
<1>5. x \in Nat /\ y \in Nat
  BY <1>1, <1>3
<1>6. p + Len(ab) = y
  BY <1>4
<1> HIDE DEF x, y
<1>7. Occurs(c, <<Label(elseLabel)>>, y) /\ p + Len(IfCode(a, b, elseLabel)) = y + 1
  BY <1>2, <1>3, <1>6
<1>8. x = p + Len(a) /\ y = x + Len(b) /\ Occurs(c, b, x)
  BY <1>4 DEF x, y
<1>9. OccursIf(c, p, a, b, elseLabel, x, y)
  BY <1>3, <1>4, <1>7, <1>8 DEF OccursIf
<1> QED BY <1>5, <1>9

OccursLoop(c, p, start, a, loop, b, next, x, y) ==
    /\ p \in Nat /\ x = p + 1 + Len(a) /\ y = x + 1 + Len(b)
    /\ Occurs(c, <<Label(start)>>, p) /\ Occurs(c, a, p + 1) /\ Occurs(c, <<Label(loop)>>, x)
    /\ Occurs(c, b, x + 1) /\ Occurs(c, <<Goto(start)>>, y) /\ Occurs(c, <<Label(next)>>, y + 1)
    /\ p + Len(LoopCode(start, a, loop, b, next)) = y + 2

LEMMA LoopLines ==
    ASSUME NEW c, NEW p, NEW a \in Seq(Lines), NEW b \in Seq(Lines),
           NEW start \in Nat, NEW loop \in Nat, NEW next \in Nat,
           Occurs(c, LoopCode(start, a, loop, b, next), p)
    PROVE  \E x, y \in Nat : OccursLoop(c, p, start, a, loop, b, next, x, y)
<1> DEFINE b0 == <<Label(start)>>
           b1 == b0 \o a
           b2 == b1 \o <<Label(loop)>>
           b3 == b2 \o b
           pair == <<Goto(start), Label(next)>>
           all == b3 \o pair
<1>1. LoopCode(start, a, loop, b, next) = all
  BY DEF LoopCode
<1>2. /\ b0 \in Seq(Lines) /\ Len(b0) = 1 /\ Label(loop) \in Lines /\ <<Label(loop)>> \in Seq(Lines)
      /\ pair \in Seq(Lines) /\ Len(pair) = 2
  <2>1. Label(start) \in Lines /\ Label(loop) \in Lines
    BY LabelLines
  <2>2. pair \in Seq(Lines)
    BY GotoLabelLines
  <2> QED BY <2>1, <2>2
<1>3. b1 \in Seq(Lines)
  <2> HIDE DEF b0
  <2> QED BY <1>2, LineCases
<1>4. b2 \in Seq(Lines)
  <2> HIDE DEF b1
  <2> QED BY <1>2, <1>3, LineCases
<1>5. b3 \in Seq(Lines)
  <2> HIDE DEF b2
  <2> QED BY <1>4, LineCases
<1>6. /\ Occurs(c, b3, p) /\ Occurs(c, pair, p + Len(b3)) /\ p \in Nat
      /\ p + Len(all) = p + Len(b3) + Len(pair)
  <2> HIDE DEF b3, pair
  <2>1. b3 \in Seq(Lines) /\ pair \in Seq(Lines) /\ Occurs(c, b3 \o pair, p)
    BY <1>1, <1>2, <1>5
  <2> QED BY <2>1, OccursJoined
<1>7. /\ Occurs(c, b2, p) /\ Occurs(c, b, p + Len(b2)) /\ p + Len(b3) = p + Len(b2) + Len(b)
  <2> HIDE DEF b2
  <2> QED BY <1>4, <1>6, OccursJoined
<1>8. /\ Occurs(c, b1, p) /\ Occurs(c, <<Label(loop)>>, p + Len(b1))
      /\ p + Len(b2) = p + Len(b1) + 1
  <2> HIDE DEF b1
  <2> QED BY <1>2, <1>3, <1>7, OccursLast
<1>9. /\ Occurs(c, b0, p) /\ Occurs(c, a, p + Len(b0)) /\ p + Len(b1) = p + Len(b0) + Len(a)
  <2> HIDE DEF b0
  <2>1. b0 \in Seq(Lines) /\ Occurs(c, b0 \o a, p)
    BY <1>2, <1>8
  <2> QED BY <2>1, OccursJoined
<1>10. Occurs(c, <<Goto(start)>>, p + Len(b3)) /\ Occurs(c, <<Label(next)>>, p + Len(b3) + 1)
  BY <1>6, OccursPair
<1>11. Occurs(c, <<Label(start)>>, p)
  BY <1>9
<1>12. Len(a) \in Nat /\ Len(b) \in Nat
  OBVIOUS
<1> HIDE DEF b0, b1, b2, b3, all, pair
<1> DEFINE x == p + 1 + Len(a)
           y == x + 1 + Len(b)
<1>13. x \in Nat /\ y \in Nat
  BY <1>6, <1>12
<1>14. p + Len(b0) = p + 1
  BY <1>2
<1>15. p + Len(b1) = x
  BY <1>9, <1>14
<1>16. p + Len(b2) = x + 1
  BY <1>8, <1>15
<1>17. p + Len(b3) = y
  BY <1>7, <1>16
<1>18. p + Len(all) = y + 2
  BY <1>2, <1>6, <1>17
<1> HIDE DEF x, y
<1>19. x = p + 1 + Len(a) /\ y = x + 1 + Len(b)
  BY DEF x, y
<1>20. /\ Occurs(c, a, p + 1) /\ Occurs(c, <<Label(loop)>>, x) /\ Occurs(c, b, x + 1)
       /\ Occurs(c, <<Goto(start)>>, y) /\ Occurs(c, <<Label(next)>>, y + 1)
  BY <1>7, <1>8, <1>9, <1>10, <1>14, <1>15, <1>16, <1>17
<1>21. p + Len(LoopCode(start, a, loop, b, next)) = y + 2
  BY <1>1, <1>18
<1>22. OccursLoop(c, p, start, a, loop, b, next, x, y)
  BY <1>6, <1>11, <1>19, <1>20, <1>21 DEF OccursLoop
<1> QED BY <1>13, <1>22

\* The labels that the parts of an if are generated with.
IfLabelsFit(g, then, else, before, ifLabel, elseLabel, hasElse) ==
    /\ then.g \in LabelState /\ then.g.start = g.start /\ then.g.next = g.next
    /\ IfLabels(g) \in LabelState /\ IfLabels(g).start = g.start /\ IfLabels(g).next = g.next
    /\ before \in LabelState /\ before.fall = g.count /\ before.fall < before.count
    /\ elseLabel # before.fall /\ (~hasElse => ifLabel = before.fall)

LEMMA IfLabelsDoFit ==
    ASSUME NEW tree, NEW s, NEW g \in LabelState, NEW then, NEW else, NEW test,
           NEW ifLabel \in Nat, NEW elseLabel \in Nat,
           IsIfCode(tree, s, g, then, else, test, ifLabel, elseLabel)
    PROVE  LET hasElse == tree[tree[s].else].op # "none"
               before == NewLabels(else.g, IF hasElse THEN 2 ELSE 1)
           IN  IfLabelsFit(g, then, else, before, ifLabel, elseLabel, hasElse)
<1> DEFINE hasElse == tree[tree[s].else].op # "none"
           before == NewLabels(else.g, IF hasElse THEN 2 ELSE 1)
<1>1. /\ elseLabel = else.g.count /\ ifLabel = IF hasElse THEN elseLabel + 1 ELSE g.count
      /\ then.g \in LabelState /\ then.g \in Later(IfLabels(g))
      /\ else.g \in LabelState /\ else.g \in Later(then.g)
      /\ before \in LabelState /\ before.count = elseLabel + (IF hasElse THEN 2 ELSE 1)
      /\ before \in Later(else.g)
  BY Zenon DEF IsIfCode
<1>2. /\ IfLabels(g) \in LabelState /\ IfLabels(g).count = g.count + 1 /\ IfLabels(g).fall = g.count
      /\ IfLabels(g).start = g.start /\ IfLabels(g).next = g.next
  BY PartLabels
<1> HIDE DEF before, hasElse
<1>3. /\ then.g.start = g.start /\ then.g.next = g.next /\ then.g.fall = g.count
      /\ then.g.count >= g.count + 1
  BY <1>1, <1>2 DEF Later
<1>4. else.g.fall = g.count /\ else.g.count >= then.g.count
  BY <1>1, <1>3 DEF Later
<1>5. before.fall = g.count
  BY <1>1, <1>4 DEF Later
<1>6. /\ g.count \in Nat /\ then.g.count \in Nat /\ else.g.count \in Nat
  BY <1>1 DEF LabelState
<1>7. elseLabel > g.count /\ before.count > elseLabel
  BY <1>1, <1>3, <1>4, <1>6
<1>8. before.fall < before.count /\ elseLabel # before.fall
  <2>1. before.count \in Nat
    BY <1>1 DEF LabelState
  <2> QED BY <1>5, <1>6, <1>7, <2>1
<1>9. ~hasElse => ifLabel = before.fall
  BY <1>1, <1>5
<1>10. IfLabelsFit(g, then, else, before, ifLabel, elseLabel, hasElse)
  BY <1>1, <1>2, <1>3, <1>5, <1>8, <1>9 DEF IfLabelsFit
<1> QED BY <1>10 DEF before, hasElse

LEMMA IfUnfolded ==
    ASSUME NEW tree, IsBody(tree), NEW c, NEW q, NEW e, LaidOut(c, tree, q, e), Head(q).op = "if"
    PROVE  Unfolded(c, tree, <<tree[Head(q).cond], Pending(Head(q))>> \o Tail(q), e)
<1> DEFINE body == WithReturn(tree)
           t == Head(q)
<1>1. IsTree(tree) /\ IsTree(body) /\ Extends(body, tree)
  BY BodyIsTree, BodyWithReturn
<1>2. PICK n \in Entries : Linked(c, tree, t, e, n) /\ LaidOut(c, tree, Tail(q), n)
  BY LaidOutGoesOn
<1>3. IsSeq(Tail(q)) /\ e \in Entries
  BY LaidOutGoesOn
<1>4. PICK p : p = e.yes
  OBVIOUS
<1>5. StatementAtLine(c, tree, t, p, n)
  BY <1>2, <1>4, LinkOf DEF Conditional, Marks
<1>6. PICK i \in Statements(tree), g \in LabelState :
        /\ t = tree[i] /\ g.start = n.start /\ g.next = n.next
        /\ Occurs(c, Piece(body, i, g).code, p)
        /\ JumpsOut(tree)[i] => n.loop
        /\ ~n.two /\ Leads(c, p + Len(Piece(body, i, g).code), n.yes)
  BY <1>5, StatementGoesOn
<1>7. /\ t.cond \in Conditions(tree) /\ t.then \in Statements(tree) /\ t.else \in Statements(tree)
      /\ JumpsOut(tree)[t.then] => n.loop
      /\ JumpsOut(tree)[t.else] => n.loop
  BY <1>1, <1>6, StatementForms, JumpsOfParts
<1>8. /\ body[i] = t /\ i \in Statements(body) /\ body[t.else] = tree[t.else]
      /\ t.else \in Statements(body)
  BY <1>1, <1>6, <1>7, ExtensionNodes
<1> DEFINE hasElse == body[t.else].op # "none"
<1> HIDE DEF body
<1>9. PICK then, else, test : \E ifLabel, elseLabel \in Nat :
        /\ IsIfCode(body, i, g, then, else, test, ifLabel, elseLabel)
        /\ body[body[i].else].op # "none" =>
              Piece(body, i, g)
                = [code |-> IfElseCode(test.code, ifLabel, then.code, test.g.count,
                                       elseLabel, else.code),
                   g |-> Restored(NewLabels(test.g, 1), g)]
        /\ body[body[i].else].op = "none" =>
              Piece(body, i, g)
                = [code |-> IfCode(test.code, then.code, elseLabel), g |-> Restored(test.g, g)]
  BY <1>1, <1>8, ChoiceCode, Zenon
<1>10. PICK ifLabel \in Nat, elseLabel \in Nat :
        /\ IsIfCode(body, i, g, then, else, test, ifLabel, elseLabel)
        /\ body[body[i].else].op # "none" =>
              Piece(body, i, g)
                = [code |-> IfElseCode(test.code, ifLabel, then.code, test.g.count,
                                       elseLabel, else.code),
                   g |-> Restored(NewLabels(test.g, 1), g)]
        /\ body[body[i].else].op = "none" =>
              Piece(body, i, g)
                = [code |-> IfCode(test.code, then.code, elseLabel), g |-> Restored(test.g, g)]
  BY <1>9, Zenon
<1> DEFINE before == NewLabels(else.g, IF hasElse THEN 2 ELSE 1)
<1>11. /\ then = Piece(body, t.then, IfLabels(g)) /\ else = Piece(body, t.else, then.g)
       /\ test = Test(body, t.cond, ifLabel, elseLabel, before)
       /\ then.code \in Seq(Lines) /\ else.code \in Seq(Lines) /\ test.code \in Seq(Lines)
       /\ test.g \in LabelState
  BY <1>8, <1>10, Zenon DEF IsIfCode
<1>12. IfLabelsFit(g, then, else, before, ifLabel, elseLabel, hasElse)
  BY <1>8, <1>10, IfLabelsDoFit
<1>13. PICK a \in Seq(Lines), b \in Seq(Lines), d \in Seq(Lines), next \in Nat :
         a = test.code /\ b = then.code /\ d = else.code /\ next = test.g.count
  BY <1>11 DEF LabelState
<1>14. \A x, y : [code |-> x, g |-> y].code = x
  OBVIOUS
<1> HIDE DEF before
\* What remains is to find lines for both branches.
<1>15. ASSUME NEW x \in Nat, NEW y \in Nat, NEW end,
              StatementAtLine(c, tree, tree[t.then], x, n), StatementAtLine(c, tree, tree[t.else], y, n),
              Occurs(c, a, p), end = p + Len(a), p \in Nat,
              Leads(c, end, x), GoesTo(c, elseLabel, y), hasElse => GoesTo(c, ifLabel, x)
       PROVE  Unfolded(c, tree, <<tree[t.cond], Pending(t)>> \o Tail(q), e)
  <2> DEFINE w == AtEither(x, y, n)
  <2>1. w \in Entries /\ w.two /\ w.yes = x /\ w.no = y /\ SameLoop(w, n)
    BY AtEitherIs
  <2> HIDE DEF w, hasElse
  <2>2. Decides(c, ifLabel, elseLabel, before, end, w)
    BY <1>12, <1>15, <2>1 DEF Decides, IfLabelsFit
  <2>3. IsConditionAt(c, tree, tree[t.cond], p, w, t.cond, ifLabel, elseLabel, before)
    <3>1. Test(body, t.cond, ifLabel, elseLabel, before).code = a
      BY <1>11, <1>13
    <3>2. /\ Occurs(c, Test(body, t.cond, ifLabel, elseLabel, before).code, p)
          /\ Decides(c, ifLabel, elseLabel, before,
                     p + Len(Test(body, t.cond, ifLabel, elseLabel, before).code), w)
      BY <1>15, <2>2, <3>1, Zenon
    <3>3. before.fall < before.count
      BY <1>12, Zenon DEF IfLabelsFit
    <3> QED BY <3>2, <3>3, Zenon DEF IsConditionAt, body
  <2>4. ConditionAtLine(c, tree, tree[t.cond], p, w)
    <3>1. before \in LabelState
      BY <1>12, Zenon DEF IfLabelsFit
    <3> QED BY <1>7, <1>10, <2>1, <2>3, <3>1 DEF ConditionAtLine
  <2>5. PendingAt(c, tree, t, w, n)
    BY <1>15, <2>1 DEF PendingAt
  <2>6. Leads(c, e.yes, p)
    BY <1>4, LeadsToItself
  <2> QED BY <1>2, <1>3, <1>15, <2>1, <2>4, <2>5, <2>6, PendingBefore
<1>16. ASSUME NEW x \in Nat, Occurs(c, b, x), Leads(c, x + Len(b), n.yes)
       PROVE  StatementAtLine(c, tree, tree[t.then], x, n)
  <2>1. /\ Occurs(c, Piece(body, t.then, IfLabels(g)).code, x)
        /\ Leads(c, x + Len(Piece(body, t.then, IfLabels(g)).code), n.yes)
    BY <1>11, <1>13, <1>16
  <2>2. IfLabels(g) \in LabelState /\ IfLabels(g).start = n.start /\ IfLabels(g).next = n.next
    BY <1>6, <1>12 DEF IfLabelsFit
  <2> QED BY <1>6, <1>7, <2>1, <2>2, StatementPlaced DEF body
<1>17. ASSUME NEW x \in Nat, Occurs(c, d, x), Leads(c, x + Len(d), n.yes)
       PROVE  StatementAtLine(c, tree, tree[t.else], x, n)
  <2>1. /\ Occurs(c, Piece(body, t.else, then.g).code, x)
        /\ Leads(c, x + Len(Piece(body, t.else, then.g).code), n.yes)
    BY <1>11, <1>13, <1>17
  <2>2. then.g \in LabelState /\ then.g.start = n.start /\ then.g.next = n.next
    BY <1>6, <1>12 DEF IfLabelsFit
  <2> QED BY <1>6, <1>7, <2>1, <2>2, StatementPlaced DEF body
<1>18. CASE hasElse
  <2>1. Piece(body, i, g).code = IfElseCode(a, ifLabel, b, next, elseLabel, d)
    BY <1>8, <1>10, <1>13, <1>14, <1>18, Zenon
  <2>2. PICK x \in Nat, y \in Nat, z \in Nat :
          OccursIfElse(c, p, a, ifLabel, b, next, elseLabel, d, x, y, z)
    BY <1>6, <1>10, <2>1, IfElseLines
  <2>3. /\ p \in Nat /\ x = p + Len(a) /\ y = x + 1 + Len(b) /\ z = y + 2 + Len(d)
        /\ Occurs(c, a, p) /\ Occurs(c, <<Label(ifLabel)>>, x)
        /\ Occurs(c, b, x + 1) /\ Occurs(c, <<Goto(next)>>, y) /\ Occurs(c, <<Label(elseLabel)>>, y + 1)
        /\ Occurs(c, d, y + 2) /\ Occurs(c, <<Label(next)>>, z)
        /\ p + Len(IfElseCode(a, ifLabel, b, next, elseLabel, d)) = z + 1
    BY <2>2, Zenon DEF OccursIfElse
  <2>4. Leads(c, z + 1, n.yes)
    BY <1>6, <2>1, <2>3
  <2>5. Leads(c, z, n.yes) /\ GoesTo(c, next, n.yes)
    BY <1>13, <2>3, <2>4, LeadsPast
  <2>6. Leads(c, y, n.yes)
    BY <1>13, <2>3, <2>5, LeadsAcross
  <2>7. x + 1 \in Nat /\ y + 2 \in Nat /\ y + 1 + 1 = y + 2
    BY <2>2
  <2>8. StatementAtLine(c, tree, tree[t.then], x + 1, n)
    BY <1>16, <2>3, <2>6, <2>7
  <2>9. StatementAtLine(c, tree, tree[t.else], y + 2, n)
    BY <1>17, <2>3, <2>5, <2>7
  <2>10. Leads(c, x, x + 1) /\ GoesTo(c, ifLabel, x + 1)
    BY <1>10, <2>3, LeadsToItself, LeadsPast
  <2>11. GoesTo(c, elseLabel, y + 2)
    <3>1. Leads(c, y + 1 + 1, y + 2)
      BY <2>7, LeadsToItself
    <3> QED BY <1>10, <2>3, <3>1, LeadsPast
  <2> QED BY <1>15, <2>3, <2>7, <2>8, <2>9, <2>10, <2>11
<1>19. CASE ~hasElse
  <2>1. Piece(body, i, g).code = IfCode(a, b, elseLabel)
    BY <1>8, <1>10, <1>13, <1>14, <1>19, Zenon
  <2>2. PICK x \in Nat, y \in Nat : OccursIf(c, p, a, b, elseLabel, x, y)
    BY <1>6, <1>10, <2>1, IfLines
  <2>3. /\ p \in Nat /\ x = p + Len(a) /\ y = x + Len(b)
        /\ Occurs(c, a, p) /\ Occurs(c, b, x) /\ Occurs(c, <<Label(elseLabel)>>, y)
        /\ p + Len(IfCode(a, b, elseLabel)) = y + 1
    BY <2>2, Zenon DEF OccursIf
  <2>4. Leads(c, y + 1, n.yes)
    BY <1>6, <2>1, <2>3
  <2>5. Leads(c, y, n.yes) /\ LabelAt(c, y, elseLabel)
    BY <1>10, <2>3, <2>4, LeadsPast
  <2>6. StatementAtLine(c, tree, tree[t.then], x, n)
    BY <1>16, <2>3, <2>5
  <2>7. d = << >>
    <3>1. else = [code |-> << >>, g |-> then.g]
      <4>1. then.g \in LabelState
        BY <1>12, Zenon DEF IfLabelsFit
      <4> QED BY <1>1, <1>8, <1>11, <1>19, <4>1, OneLineCode
    <3> QED BY <1>13, <3>1
  <2>8. Occurs(c, d, y) /\ y + Len(d) = y
    <3>1. y \in Nat /\ y >= 1
      BY <2>3 DEF Occurs
    <3>2. Len(d) = 0
      BY <2>7
    <3> QED BY <3>1, <3>2 DEF Occurs
  <2>9. StatementAtLine(c, tree, tree[t.else], y, n)
    BY <1>17, <2>5, <2>8
  <2>10. Leads(c, x, x) /\ GoesTo(c, elseLabel, y)
    BY <2>5, LeadsToItself DEF GoesTo
  <2> QED BY <1>15, <1>19, <2>3, <2>6, <2>9, <2>10
<1> QED BY <1>18, <1>19

LEMMA WhileUnfolded ==
    ASSUME NEW tree, IsBody(tree), NEW c, NEW q, NEW e, LaidOut(c, tree, q, e), Head(q).op = "while"
    PROVE  Unfolded(c, tree, <<tree[Head(q).cond], Pending(Head(q))>> \o Tail(q), e)
<1> DEFINE body == WithReturn(tree)
           t == Head(q)
<1>1. IsTree(tree) /\ IsTree(body) /\ Extends(body, tree)
  BY BodyIsTree, BodyWithReturn
<1>2. PICK n \in Entries : Linked(c, tree, t, e, n) /\ LaidOut(c, tree, Tail(q), n)
  BY LaidOutGoesOn
<1>3. IsSeq(Tail(q)) /\ e \in Entries
  BY LaidOutGoesOn
<1>4. PICK p : p = e.yes
  OBVIOUS
<1>5. StatementAtLine(c, tree, t, p, n)
  BY <1>2, <1>4, LinkOf DEF Conditional, Marks
<1>6. PICK i \in Statements(tree), g \in LabelState :
        /\ t = tree[i] /\ g.start = n.start /\ g.next = n.next
        /\ Occurs(c, Piece(body, i, g).code, p)
        /\ JumpsOut(tree)[i] => n.loop
        /\ ~n.two /\ Leads(c, p + Len(Piece(body, i, g).code), n.yes)
  BY <1>5, StatementGoesOn
<1>7. t.cond \in Conditions(tree) /\ t.body \in Statements(tree)
  BY <1>1, <1>6, StatementForms
<1>8. body[i] = t /\ i \in Statements(body)
  BY <1>1, <1>6, ExtensionNodes
<1> HIDE DEF body
<1>9. PICK loop, test :
        /\ IsWhileCode(body, i, g, loop, test)
        /\ Piece(body, i, g)
              = [code |-> LoopCode(g.count, test.code, g.count + 2, loop.code, g.count + 1),
                 g |-> Restored(test.g, g)]
  BY <1>1, <1>8, WhileCode, Zenon
<1>10. /\ loop = Piece(body, t.body, LoopLabels(g))
       /\ test = Test(body, t.cond, g.count + 2, g.count + 1, loop.g)
       /\ loop.code \in Seq(Lines) /\ test.code \in Seq(Lines)
       /\ loop.g \in LabelState /\ loop.g \in Later(LoopLabels(g))
  BY <1>8, <1>9, Zenon DEF IsWhileCode
<1>11. \A x, y : [code |-> x, g |-> y].code = x
  OBVIOUS
<1>12. PICK a \in Seq(Lines), b \in Seq(Lines) : a = test.code /\ b = loop.code
  BY <1>10
<1>13. PICK start \in Nat, next \in Nat, top \in Nat :
         start = g.count /\ next = g.count + 1 /\ top = g.count + 2
  BY DEF LabelState
<1>14. Piece(body, i, g).code = LoopCode(start, a, top, b, next)
  BY <1>9, <1>11, <1>12, <1>13, Zenon
<1>15. PICK x \in Nat, y \in Nat : OccursLoop(c, p, start, a, top, b, next, x, y)
  BY <1>6, <1>14, LoopLines
<1>16. /\ p \in Nat /\ x = p + 1 + Len(a) /\ y = x + 1 + Len(b)
       /\ Occurs(c, <<Label(start)>>, p) /\ Occurs(c, a, p + 1) /\ Occurs(c, <<Label(top)>>, x)
       /\ Occurs(c, b, x + 1) /\ Occurs(c, <<Goto(start)>>, y) /\ Occurs(c, <<Label(next)>>, y + 1)
       /\ p + Len(LoopCode(start, a, top, b, next)) = y + 2
  BY <1>15, Zenon DEF OccursLoop
<1>17. p + 1 \in Nat /\ x + 1 \in Nat /\ y + 1 \in Nat /\ y + 1 + 1 = y + 2
  BY <1>16
<1>18. Leads(c, p, p + 1) /\ LabelAt(c, p, start) /\ GoesTo(c, start, p)
  <2>1. Leads(c, p, p + 1) /\ LabelAt(c, p, start)
    BY <1>13, <1>16, LeadsToItself, LeadsPast
  <2> QED BY <1>16, <2>1, LeadsToItself DEF GoesTo
<1>19. Leads(c, y, p)
  BY <1>13, <1>16, <1>18, LeadsAcross
<1>20. LabelAt(c, y + 1, next) /\ Leads(c, y + 1, n.yes) /\ GoesTo(c, next, n.yes) /\ GoesTo(c, next, y + 1)
  <2>1. Leads(c, y + 1 + 1, n.yes)
    BY <1>6, <1>14, <1>16, <1>17
  <2>2. LabelAt(c, y + 1, next) /\ Leads(c, y + 1, n.yes) /\ GoesTo(c, next, n.yes)
    BY <1>13, <1>16, <2>1, LeadsPast
  <2> QED BY <1>17, <2>2, LeadsToItself DEF GoesTo
\* The loop to be evaluated again.
<1> DEFINE m == [yes |-> p, no |-> 0, start |-> start, next |-> next, loop |-> TRUE, two |-> FALSE]
           w == AtEither(x + 1, y + 1, n)
<1>21. /\ m \in Entries /\ m.yes = p /\ m.start = start /\ m.next = next /\ m.loop /\ ~m.two
  BY <1>13, <1>16 DEF Entries
<1>22. w \in Entries /\ w.two /\ w.yes = x + 1 /\ w.no = y + 1 /\ SameLoop(w, n)
  <2>1. \A u, v \in Nat :
          /\ AtEither(u, v, n) \in Entries /\ AtEither(u, v, n).two
          /\ AtEither(u, v, n).yes = u /\ AtEither(u, v, n).no = v /\ SameLoop(AtEither(u, v, n), n)
    BY AtEitherIs
  <2> QED BY <1>17, <2>1, Zenon
<1> HIDE DEF m, w
<1>23. AgainAtLine(c, tree, t, m, n)
  BY <1>5, <1>18, <1>20, <1>21 DEF AgainAtLine
<1>24. /\ LoopLabels(g) \in LabelState /\ LoopLabels(g).fall = g.count + 2
       /\ LoopLabels(g).count = g.count + 3
       /\ LoopLabels(g).start = start /\ LoopLabels(g).next = next
  BY <1>6, <1>13, PartLabels
<1>25. StatementAtLine(c, tree, tree[t.body], x + 1, m)
  <2>1. Leads(c, x + 1 + Len(b), m.yes)
    BY <1>16, <1>19, <1>21
  <2>2. /\ Occurs(c, Piece(WithReturn(tree), t.body, LoopLabels(g)).code, x + 1)
        /\ Leads(c, x + 1 + Len(Piece(WithReturn(tree), t.body, LoopLabels(g)).code), m.yes)
    BY <1>10, <1>12, <1>16, <2>1 DEF body
  <2> QED BY <1>7, <1>21, <1>24, <2>2, StatementPlaced
<1>26. PendingAt(c, tree, t, w, n)
  <2>1. Leads(c, w.no, n.yes) /\ StatementAtLine(c, tree, tree[t.body], w.yes, m)
    BY <1>20, <1>22, <1>25
  <2> QED BY <1>6, <1>21, <1>23, <2>1 DEF PendingAt
<1>27. loop.g.fall = top /\ loop.g.fall < loop.g.count /\ top \in Nat /\ next # top
  <2>1. loop.g.fall = top /\ loop.g.count >= g.count + 3 /\ loop.g.count \in Nat /\ g.count \in Nat
    BY <1>10, <1>13, <1>24 DEF Later, LabelState
  <2>2. PICK j \in Nat, k \in Nat : j = g.count /\ k = loop.g.count
    BY <2>1
  <2>3. top = j + 2 /\ next = j + 1 /\ k >= j + 3 /\ loop.g.fall = top
    BY <1>13, <2>1, <2>2
  <2>4. top < k /\ next # top
    BY <2>3
  <2> QED BY <2>2, <2>3, <2>4
<1>28. Decides(c, top, next, loop.g, x, w)
  <2>1. Leads(c, x, x + 1)
    BY <1>13, <1>16, LeadsToItself, LeadsPast
  <2> QED BY <1>20, <1>22, <1>27, <2>1 DEF Decides
<1>29. IsConditionAt(c, tree, tree[t.cond], p + 1, w, t.cond, top, next, loop.g)
  <2>1. Test(body, t.cond, top, next, loop.g).code = a
    BY <1>10, <1>12, <1>13
  <2>2. /\ Occurs(c, Test(body, t.cond, top, next, loop.g).code, p + 1)
        /\ Decides(c, top, next, loop.g, p + 1 + Len(Test(body, t.cond, top, next, loop.g).code), w)
    BY <1>16, <1>28, <2>1
  <2> QED BY <1>27, <2>2, Zenon DEF IsConditionAt, body
<1>30. ConditionAtLine(c, tree, tree[t.cond], p + 1, w)
  BY <1>7, <1>10, <1>13, <1>22, <1>29 DEF ConditionAtLine
<1>31. Leads(c, e.yes, p + 1)
  BY <1>4, <1>18
<1> QED BY <1>2, <1>3, <1>17, <1>22, <1>26, <1>30, <1>31, PendingBefore

\* What can be the first thing to be done.
Heads == {"simple", "return", "empty", "none", "break", "continue", "items", "if", "while",
          "leaf", "land", "lor", "value", "again"}

LEMMA HeadKinds ==
    ASSUME NEW tree, IsBody(tree), NEW c, NEW t, NEW e, NEW n, Linked(c, tree, t, e, n), ~e.two
    PROVE  t.op \in Heads
<1>1. CASE t.op \notin Conditional \cup Marks
  <2>1. StatementAtLine(c, tree, t, e.yes, n)
    BY <1>1, LinkOf
  <2>2. PICK i \in Statements(WithReturn(tree)) : t = WithReturn(tree)[i]
    BY <2>1 DEF StatementAtLine, IsStatementAt
  <2>3. IsTree(WithReturn(tree))
    BY BodyWithReturn
  <2> QED BY <2>2, <2>3, StatementForms DEF Heads
<1>2. CASE t.op \in Conditional
  BY <1>2 DEF Conditional, Heads
<1>3. CASE t.op \in Marks
  <2>1. t.op # "pending"
    BY LinkOf
  <2> QED BY <1>3, <2>1 DEF Marks, Heads
<1> QED BY <1>1, <1>2, <1>3

\* One rewriting of what remains to be done.
LEMMA RewritingUnfolded ==
    ASSUME NEW tree, IsBody(tree), NEW c, NEW q, NEW e, LaidOut(c, tree, q, e), ~e.two, ~Settled(q)
    PROVE  Unfolded(c, tree, Rewritten(tree, q), e)
<1> DEFINE t == Head(q)
           rest == Tail(q)
<1>1. PICK n \in Entries : Linked(c, tree, t, e, n)
  BY LaidOutInversion
<1>2. t.op \notin {"simple", "return", "leaf"}
  BY DEF Settled
<1>3. CASE t.op \in {"empty", "none"}
  <2>1. Rewritten(tree, q) = rest
    BY <1>3 DEF Rewritten
  <2> QED BY <1>3, <2>1, EmptyUnfolded
<1>4. CASE t.op = "items"
  <2>1. Rewritten(tree, q) = <<tree[t.front], tree[t.item]>> \o rest
    BY <1>4 DEF Rewritten
  <2> QED BY <1>4, <2>1, ItemsUnfolded
<1>5. CASE t.op = "if"
  <2>1. Rewritten(tree, q) = <<tree[t.cond], Pending(t)>> \o rest
    BY <1>5 DEF Rewritten
  <2> QED BY <1>5, <2>1, IfUnfolded
<1>6. CASE t.op = "while"
  <2>1. Rewritten(tree, q) = <<tree[t.cond], Pending(t)>> \o rest
    BY <1>6 DEF Rewritten
  <2> QED BY <1>6, <2>1, WhileUnfolded
<1>7. CASE t.op \in {"land", "lor"}
  <2>1. Rewritten(tree, q) = <<tree[t.lhs], Pending(t)>> \o rest
    BY <1>7 DEF Rewritten
  <2> QED BY <1>7, <2>1, BinaryUnfolded
<1>8. CASE t.op = "value"
  <2>1. Rewritten(tree, q) = Chosen(tree, Head(rest).of, t.is) \o Tail(rest)
    BY <1>8 DEF Rewritten
  <2> QED BY <1>8, <2>1, ValueUnfolded
<1>9. CASE t.op = "again"
  <2>1. Rewritten(tree, q) = <<t.loop>> \o rest
    BY <1>9 DEF Rewritten
  <2> QED BY <1>9, <2>1, AgainUnfolded
<1>10. CASE t.op \in {"break", "continue"}
  <2>1. Rewritten(tree, q) =
          IF Head(rest).op = "again" THEN (IF t.op = "break" THEN Tail(rest) ELSE rest)
          ELSE <<t>> \o Tail(rest)
    BY <1>10 DEF Rewritten
  <2> QED BY <1>10, <2>1, LeaveUnfolded
<1>11. t.op \in Heads
  BY <1>1, HeadKinds
<1> QED BY <1>2, <1>3, <1>4, <1>5, <1>6, <1>7, <1>8, <1>9, <1>10, <1>11 DEF Heads

-----------------------------------------------------------------------------
(* The machine on its way to the line of what is to be done next.          *)

\* The line m that follows a conditional jump at line k, b being the flag.
Taken(c, k, b, m) ==
    IF b = (c[k].op = "ifnz") THEN LabelAt(c, m, c[k].to) ELSE m = k + 1

\* From line k the machine comes to y, passing at most one conditional jump
\* and then labels and gotos only.
Arrives(c, k, b, y) ==
    \/ Leads(c, k, y)
    \/ /\ k \in 1 .. Len(c) /\ c[k].op \in {"ifz", "ifnz"}
       /\ \E m \in Nat : Taken(c, k, b, m) /\ Leads(c, m, y)

\* q is laid out from a line that the machine comes to.
IsAhead(c, tree, q, k, b) ==
    \E e \in Entries : LaidOut(c, tree, q, e) /\ ~e.two /\ Arrives(c, k, b, e.yes)

LEMMA ArrivesOn ==
    ASSUME NEW c, NEW k, NEW b, NEW x, NEW y, Arrives(c, k, b, x), Leads(c, x, y)
    PROVE  Arrives(c, k, b, y)
<1>1. CASE Leads(c, k, x)
  BY <1>1, LeadsOn DEF Arrives
<1>2. ASSUME k \in 1 .. Len(c), c[k].op \in {"ifz", "ifnz"},
             NEW m \in Nat, Taken(c, k, b, m), Leads(c, m, x)
      PROVE  Arrives(c, k, b, y)
  <2>1. Leads(c, m, y)
    BY <1>2, LeadsOn
  <2> QED BY <1>2, <2>1 DEF Arrives
<1> QED BY <1>1, <1>2 DEF Arrives

LEMMA UnfoldedAhead ==
    ASSUME NEW tree, IsBody(tree), NEW c, NEW q, NEW k, NEW b, IsAhead(c, tree, q, k, b), ~Settled(q)
    PROVE  IsAhead(c, tree, Rewritten(tree, q), k, b)
<1>1. PICK e \in Entries : LaidOut(c, tree, q, e) /\ ~e.two /\ Arrives(c, k, b, e.yes)
  BY DEF IsAhead
<1>2. PICK d \in Entries :
        LaidOut(c, tree, Rewritten(tree, q), d) /\ ~d.two /\ Leads(c, e.yes, d.yes)
  BY <1>1, RewritingUnfolded DEF Unfolded
<1>3. Arrives(c, k, b, d.yes)
  BY <1>1, <1>2, ArrivesOn
<1> QED BY <1>2, <1>3 DEF IsAhead

\* A leaf and the jump after it.
LEMMA LeafOpened ==
    ASSUME NEW tree, IsBody(tree), NEW c, NEW t, t.op = "leaf", NEW p, NEW n,
           ConditionAtLine(c, tree, t, p, n)
    PROVE  /\ n.two /\ p \in Nat /\ Occurs(c, <<t>>, p)
           /\ \A b \in BOOLEAN : Arrives(c, p + 1, b, IF b THEN n.yes ELSE n.no)
<1> DEFINE body == WithReturn(tree)
<1>1. PICK i \in Conditions(tree), g \in LabelState : \E T, F \in Nat :
        IsConditionAt(c, tree, t, p, n, i, T, F, g)
  BY DEF ConditionAtLine
<1>2. PICK T \in Nat, F \in Nat : IsConditionAt(c, tree, t, p, n, i, T, F, g)
  BY <1>1
<1>3. /\ t = tree[i]
      /\ Occurs(c, Test(body, i, T, F, g).code, p)
      /\ Decides(c, T, F, g, p + Len(Test(body, i, T, F, g).code), n)
  BY <1>2, Zenon DEF IsConditionAt
<1>4. IsTree(body) /\ i \in Conditions(body) /\ body[i] = t
  BY <1>3, BodyWithReturn, ExtensionNodes
<1>5. t \in Lines
  <2>1. t \in [op : {"leaf"}, id : Nat]
    BY <1>4, ConditionForms
  <2> QED BY <2>1 DEF Lines
<1> HIDE DEF body
<1>6. Test(body, i, T, F, g).code = <<t>> \o Branch(T, F, g)
  <2>1. body[i].op = "leaf" /\ i \in Conditions(body) /\ g \in LabelState /\ T \in Nat /\ F \in Nat
    BY <1>1, <1>2, <1>4
  <2>2. Test(body, i, T, F, g).code = LeafLines(body[i], T, F, g)
    BY <1>4, <2>1, LeafCode
  <2> QED BY <1>4, <2>2, Zenon DEF LeafLines
<1>7. PICK B \in Seq(Lines) : B = Branch(T, F, g)
  BY <1>2, JumpLine, NoLines, LabelLines DEF Branch
<1>8. PICK A \in Seq(Lines) : A = <<t>>
  BY <1>5, OneLine
<1>9. /\ Occurs(c, A, p) /\ Occurs(c, B, p + Len(A)) /\ p \in Nat
      /\ p + Len(A \o B) = p + Len(A) + Len(B)
  <2>1. Occurs(c, A \o B, p)
    BY <1>3, <1>6, <1>7, <1>8
  <2> QED BY <2>1, OccursJoined
<1>10. Len(A) = 1 /\ p + 1 \in Nat /\ p + 1 >= 1
  BY <1>8, <1>9
<1>11. Occurs(c, <<t>>, p) /\ Occurs(c, B, p + 1) /\ Decides(c, T, F, g, p + 1 + Len(B), n)
  <2>1. Len(Test(body, i, T, F, g).code) = Len(A \o B)
    BY <1>6, <1>7, <1>8
  <2>2. p + Len(Test(body, i, T, F, g).code) = p + 1 + Len(B)
    BY <1>9, <1>10, <2>1
  <2> QED BY <1>3, <1>8, <1>9, <1>10, <2>2
\* Either branch of the jump.
<1>12. ASSUME NEW l \in Nat, NEW line, line.to = l, line.op \in {"ifz", "ifnz"}, B = <<line>>,
              NEW up, NEW down, GoesTo(c, l, up), Leads(c, p + 1 + Len(B), down), NEW b \in BOOLEAN
       PROVE  Arrives(c, p + 1, b, IF b = (line.op = "ifnz") THEN up ELSE down)
  <2>1. p + 1 \in 1 .. Len(c) /\ c[p + 1] = line
    BY <1>11, <1>12, OccursLine
  <2>2. CASE b = (line.op = "ifnz")
    <3>1. PICK m \in Nat : LabelAt(c, m, l) /\ Leads(c, m, up)
      BY <1>12 DEF GoesTo
    <3>2. Taken(c, p + 1, b, m)
      BY <1>12, <2>1, <2>2, <3>1 DEF Taken
    <3> QED BY <1>12, <2>1, <2>2, <3>1, <3>2 DEF Arrives
  <2>3. CASE b # (line.op = "ifnz")
    <3>1. Len(B) = 1
      BY <1>12
    <3>2. Leads(c, p + 1 + 1, down)
      BY <1>12, <3>1
    <3>3. Taken(c, p + 1, b, p + 1 + 1) /\ p + 1 + 1 \in Nat
      BY <1>10, <2>1, <2>3 DEF Taken
    <3> QED BY <1>12, <2>1, <2>3, <3>2, <3>3 DEF Arrives
  <2> QED BY <2>2, <2>3
<1>13. CASE F # g.fall
  <2>1. B = <<IfZero(F)>> /\ IfZero(F).to = F /\ IfZero(F).op = "ifz"
    BY <1>7, <1>13 DEF Branch, IfZero
  <2>2. Leads(c, p + 1 + Len(B), n.yes) /\ GoesTo(c, F, n.no)
    BY <1>11, <1>13 DEF Decides
  <2>3. \A b \in BOOLEAN : Arrives(c, p + 1, b, IF b = (IfZero(F).op = "ifnz") THEN n.no ELSE n.yes)
    BY <1>2, <1>12, <2>1, <2>2
  <2>4. \A b \in BOOLEAN : Arrives(c, p + 1, b, IF b THEN n.yes ELSE n.no)
    BY <2>1, <2>3
  <2> QED BY <1>9, <1>11, <2>4 DEF ConditionAtLine
<1>14. CASE F = g.fall
  <2>0. T # g.fall
    BY <1>11, <1>14 DEF Decides
  <2>1. B = <<IfNonzero(T)>> /\ IfNonzero(T).to = T /\ IfNonzero(T).op = "ifnz"
    BY <1>7, <1>14, <2>0 DEF Branch, IfNonzero
  <2>2. Leads(c, p + 1 + Len(B), n.no) /\ GoesTo(c, T, n.yes)
    BY <1>11, <1>14, <2>0 DEF Decides
  <2>3. \A b \in BOOLEAN : Arrives(c, p + 1, b, IF b = (IfNonzero(T).op = "ifnz") THEN n.yes ELSE n.no)
    BY <1>2, <1>12, <2>1, <2>2
  <2>4. \A b \in BOOLEAN : Arrives(c, p + 1, b, IF b THEN n.yes ELSE n.no)
    BY <2>1, <2>3
  <2> QED BY <1>9, <1>11, <2>4 DEF ConditionAtLine
<1> QED BY <1>13, <1>14

\* A statement that does something.
GoesOnAfter(c, p, n) == ~n.two /\ Leads(c, p + 1, n.yes)

LEMMA LineOpened ==
    ASSUME NEW tree, IsBody(tree), NEW c, NEW t, t.op \in {"simple", "return"}, NEW p, NEW n,
           StatementAtLine(c, tree, t, p, n)
    PROVE  /\ p \in Nat /\ Occurs(c, <<t>>, p)
           /\ GoesOnAfter(c, p, n)
<1> DEFINE body == WithReturn(tree)
<1>1. PICK i \in Statements(body), g \in LabelState : IsStatementAt(c, tree, t, p, n, i, g)
  BY DEF StatementAtLine
<1>2. /\ t = body[i] /\ Occurs(c, Piece(body, i, g).code, p)
      /\ \/ t.op \in {"break", "continue"}
         \/ ~n.two /\ Leads(c, p + Len(Piece(body, i, g).code), n.yes)
  BY <1>1, Zenon DEF IsStatementAt
<1>3. IsTree(body)
  BY BodyWithReturn
<1> HIDE DEF body
<1>4. Piece(body, i, g) = [code |-> <<t>>, g |-> g]
  BY <1>1, <1>2, <1>3, OneLineCode
<1>5. Piece(body, i, g).code = <<t>>
  BY <1>4
<1>6. Occurs(c, <<t>>, p) /\ p \in Nat
  BY <1>2, <1>5 DEF Occurs
<1>7. ~n.two /\ Leads(c, p + Len(<<t>>), n.yes)
  BY <1>2, <1>5
<1>8. p + Len(<<t>>) = p + 1
  OBVIOUS
<1> QED BY <1>6, <1>7, <1>8 DEF GoesOnAfter

\* What is to be done next, if it is something that can be observed, is the
\* line that the machine comes to.
LEMMA SettledLine ==
    ASSUME NEW tree, IsBody(tree), NEW c, NEW q, NEW e, LaidOut(c, tree, q, e), Settled(q)
    PROVE  e.yes \in 1 .. Len(c) /\ c[e.yes] = Head(q)
<1> DEFINE t == Head(q)
<1>1. PICK n \in Entries : Linked(c, tree, t, e, n)
  BY LaidOutInversion
<1>2. t.op \in {"simple", "return", "leaf"}
  BY DEF Settled
<1>3. Occurs(c, <<t>>, e.yes)
  <2>1. CASE t.op \in {"simple", "return"}
    <3>1. StatementAtLine(c, tree, t, e.yes, n)
      BY <1>1, <2>1, LinkOf DEF Conditional, Marks
    <3> QED BY <2>1, <3>1, LineOpened
  <2>2. CASE t.op = "leaf"
    <3>1. ConditionAtLine(c, tree, t, e.yes, n)
      BY <1>1, <2>2, LinkOf DEF Conditional
    <3> QED BY <2>2, <3>1, LeafOpened
  <2> QED BY <1>2, <2>1, <2>2
<1> QED BY <1>3, OccursLine

LEMMA NextSettled ==
    ASSUME NEW tree, IsBody(tree), NEW c, NEW q, NEW k, NEW b, IsAhead(c, tree, q, k, b), Settled(q)
    PROVE  \E y \in Nat : y \in 1 .. Len(c) /\ c[y] = Head(q) /\ Arrives(c, k, b, y)
<1>1. PICK e \in Entries : LaidOut(c, tree, q, e) /\ ~e.two /\ Arrives(c, k, b, e.yes)
  BY DEF IsAhead
<1>2. e.yes \in 1 .. Len(c) /\ c[e.yes] = Head(q) /\ e.yes \in Nat
  BY <1>1, SettledLine DEF Entries
<1> QED BY <1>1, <1>2

\* The machine is there once it is at a line that can be observed.
LEMMA AheadIsHere ==
    ASSUME NEW tree, IsBody(tree), NEW c, NEW q, NEW k, NEW b, IsAhead(c, tree, q, k, b), Settled(q),
           c[k].op \in {"leaf", "simple", "return"}
    PROVE  /\ c[k] = Head(q)
           /\ \E e \in Entries : LaidOut(c, tree, q, e) /\ ~e.two /\ e.yes = k
<1>1. PICK e \in Entries : LaidOut(c, tree, q, e) /\ ~e.two /\ Arrives(c, k, b, e.yes)
  BY DEF IsAhead
<1>2. c[e.yes] = Head(q)
  BY <1>1, SettledLine
<1>3. Leads(c, k, e.yes)
  BY <1>1 DEF Arrives
<1>4. k = e.yes
  BY <1>3, LeadsInversion
<1> QED BY <1>1, <1>2, <1>4

\* The steps of the machine.
LEMMA AheadPastLabel ==
    ASSUME NEW tree, IsBody(tree), NEW c, NEW q, NEW k, NEW b, IsAhead(c, tree, q, k, b), Settled(q),
           c[k].op = "label"
    PROVE  IsAhead(c, tree, q, k + 1, b)
<1>1. PICK e \in Entries : LaidOut(c, tree, q, e) /\ ~e.two /\ Arrives(c, k, b, e.yes)
  BY DEF IsAhead
<1>2. c[e.yes].op \in {"leaf", "simple", "return"}
  BY <1>1, SettledLine DEF Settled
<1>3. k # e.yes /\ Leads(c, k, e.yes)
  BY <1>1, <1>2 DEF Arrives
<1>4. Leads(c, k + 1, e.yes)
  BY <1>3, LeadsInversion
<1> QED BY <1>1, <1>4 DEF IsAhead, Arrives

LEMMA AheadAcrossGoto ==
    ASSUME NEW tree, IsBody(tree), NEW c, IsWhole(c), NEW q, NEW k, NEW b,
           IsAhead(c, tree, q, k, b), Settled(q), c[k].op = "goto",
           NEW m \in Nat, LabelAt(c, m, c[k].to), c[k].to \in Nat
    PROVE  IsAhead(c, tree, q, m, b)
<1>1. PICK e \in Entries : LaidOut(c, tree, q, e) /\ ~e.two /\ Arrives(c, k, b, e.yes)
  BY DEF IsAhead
<1>2. c[e.yes].op \in {"leaf", "simple", "return"}
  BY <1>1, SettledLine DEF Settled
<1>3. k # e.yes /\ Leads(c, k, e.yes)
  BY <1>1, <1>2 DEF Arrives
<1>4. PICK j : LabelAt(c, j, c[k].to) /\ Leads(c, j, e.yes)
  BY <1>3, LeadsInversion
<1>5. j \in Nat
  BY <1>4 DEF LabelAt
<1>6. j = m
  BY <1>4, <1>5 DEF IsWhole, Unique
<1> QED BY <1>1, <1>4, <1>6 DEF IsAhead, Arrives

LEMMA AheadAcrossJump ==
    ASSUME NEW tree, IsBody(tree), NEW c, IsWhole(c), NEW q, NEW k \in Nat, NEW b,
           IsAhead(c, tree, q, k, b), Settled(q), c[k].op \in {"ifz", "ifnz"}, c[k].to \in Nat,
           NEW m \in Nat, Taken(c, k, b, m)
    PROVE  IsAhead(c, tree, q, m, b)
<1>1. PICK e \in Entries : LaidOut(c, tree, q, e) /\ ~e.two /\ Arrives(c, k, b, e.yes)
  BY DEF IsAhead
<1>2. c[e.yes].op \in {"leaf", "simple", "return"}
  BY <1>1, SettledLine DEF Settled
<1>3. ~Leads(c, k, e.yes)
  BY <1>2, LeadsInversion
<1>4. PICK j \in Nat : Taken(c, k, b, j) /\ Leads(c, j, e.yes)
  BY <1>1, <1>3 DEF Arrives
<1>5. j = m
  BY <1>4 DEF Taken, IsWhole, Unique
<1> QED BY <1>1, <1>4, <1>5 DEF IsAhead, Arrives

LEMMA AheadOfValue ==
    ASSUME NEW tree, IsBody(tree), NEW c, NEW q, NEW k, NEW a, IsAhead(c, tree, q, k, a),
           Settled(q), c[k].op = "leaf", NEW b \in BOOLEAN
    PROVE  IsAhead(c, tree, After(q, b), k + 1, b)
<1>1. PICK e \in Entries : LaidOut(c, tree, q, e) /\ ~e.two /\ e.yes = k
  BY AheadIsHere
<1>2. Head(q).op = "leaf"
  BY AheadIsHere
<1>3. PICK n \in Entries : Linked(c, tree, Head(q), e, n) /\ LaidOut(c, tree, Tail(q), n)
  BY <1>1, <1>2, LaidOutGoesOn
<1>4. ConditionAtLine(c, tree, Head(q), k, n)
  BY <1>1, <1>2, <1>3, LinkOf DEF Conditional
<1>5. n.two /\ Arrives(c, k + 1, b, IF b THEN n.yes ELSE n.no)
  BY <1>2, <1>4, LeafOpened
<1>6. IsSeq(Tail(q))
  BY <1>1, <1>2, LaidOutGoesOn
<1> DEFINE y == IF b THEN n.yes ELSE n.no
<1>7. y \in Nat
  BY DEF Entries
<1>8. At(y, n).yes = y /\ Leads(c, At(y, n).yes, y) /\ Leads(c, y, y)
  BY <1>7, AtIs, LeadsToItself
<1>9. Unfolded(c, tree, <<Value(b)>> \o Tail(q), At(y, n))
  BY <1>3, <1>5, <1>6, <1>7, <1>8, ValueBefore
<1> HIDE DEF y
<1>10. PICK d \in Entries :
         /\ LaidOut(c, tree, <<Value(b)>> \o Tail(q), d) /\ ~d.two
         /\ Leads(c, At(y, n).yes, d.yes)
  BY <1>9 DEF Unfolded
<1>11. Arrives(c, k + 1, b, d.yes)
  BY <1>5, <1>8, <1>10, ArrivesOn DEF y
<1>12. After(q, b) = <<Value(b)>> \o Tail(q)
  BY <1>2 DEF After
<1> QED BY <1>10, <1>11, <1>12 DEF IsAhead

LEMMA AheadOfStatement ==
    ASSUME NEW tree, IsBody(tree), NEW c, NEW q, NEW k, NEW a, IsAhead(c, tree, q, k, a),
           Settled(q), c[k].op = "simple", NEW b, NEW d
    PROVE  IsAhead(c, tree, After(q, d), k + 1, b)
<1>1. PICK e \in Entries : LaidOut(c, tree, q, e) /\ ~e.two /\ e.yes = k
  BY AheadIsHere
<1>2. Head(q).op = "simple"
  BY AheadIsHere
<1>3. PICK n \in Entries : Linked(c, tree, Head(q), e, n) /\ LaidOut(c, tree, Tail(q), n)
  BY <1>1, <1>2, LaidOutGoesOn
<1>4. StatementAtLine(c, tree, Head(q), k, n)
  BY <1>1, <1>2, <1>3, LinkOf DEF Conditional, Marks
<1>5. ~n.two /\ Leads(c, k + 1, n.yes)
  <2>1. Head(q).op \in {"simple", "return"}
    BY <1>2
  <2>2. k \in Nat /\ Occurs(c, <<Head(q)>>, k) /\ GoesOnAfter(c, k, n)
    BY <1>4, <2>1, LineOpened
  <2> QED BY <2>2 DEF GoesOnAfter
<1>6. IsSeq(Tail(q))
  BY <1>1, <1>2, LaidOutGoesOn
<1>7. After(q, d) = Tail(q)
  <2>1. After(q, d) = << >> \o Tail(q)
    BY <1>2 DEF After
  <2> QED BY <1>6, <2>1, PushedTwice
<1> QED BY <1>3, <1>5, <1>7 DEF IsAhead, Arrives

-----------------------------------------------------------------------------
(* The function as it is compiled.                                         *)

\* After the code nothing is to be done.
AfterCode(c) == [yes |-> Len(c) + 1, no |-> 0, start |-> 0, next |-> 0, loop |-> FALSE, two |-> FALSE]

LEMMA AfterCodeIs ==
    ASSUME NEW c, Len(c) \in Nat
    PROVE  /\ AfterCode(c) \in Entries /\ AfterCode(c).yes = Len(c) + 1
           /\ AfterCode(c).start = 0 /\ AfterCode(c).next = 0
           /\ ~AfterCode(c).loop /\ ~AfterCode(c).two
BY DEF AfterCode, Entries

LEMMA WholeOccurs ==
    ASSUME NEW c, Len(c) \in Nat
    PROVE  Occurs(c, c, 1)
<1>1. \A k \in 1 .. Len(c) : 1 + k - 1 = k
  OBVIOUS
<1> QED BY <1>1 DEF Occurs

\* A function that ends with a return.
LEMMA BodyAhead ==
    ASSUME NEW tree, IsBody(tree), EndsWithReturn(tree), NEW b
    PROVE  IsAhead(CodeOf(tree), tree, <<Root(tree)>> \o <<EndOfBody>>, 1, b)
<1> DEFINE c == CodeOf(tree)
           k == Len(tree)
           n == AfterCode(c)
           t == Root(tree)
<1>1. IsWhole(c) /\ Len(c) \in Nat
  <2>1. IsWhole(c)
    BY CompiledCode
  <2> QED BY <2>1 DEF IsWhole
<1>2. IsTree(tree) /\ k \in Statements(tree) /\ ~JumpsOut(tree)[k]
  BY BodyIsTree DEF IsBody
<1>3. WithReturn(tree) = tree
  BY DEF WithReturn
<1>4. c = Piece(WithReturn(tree), k, Globals).code
  BY <1>3 DEF CodeOf, Piece
<1> HIDE DEF c
<1>5. /\ n \in Entries /\ n.yes = Len(c) + 1 /\ n.start = 0 /\ n.next = 0 /\ ~n.loop /\ ~n.two
  BY <1>1, AfterCodeIs
<1>6. Globals \in LabelState /\ Globals.start = 0 /\ Globals.next = 0
  BY DEF Globals, LabelState
<1> HIDE DEF n
<1>7. Occurs(c, c, 1) /\ Leads(c, 1 + Len(c), n.yes)
  <2>1. 1 + Len(c) = n.yes
    BY <1>1, <1>5
  <2> QED BY <1>1, <2>1, WholeOccurs, LeadsToItself
<1>8. StatementAtLine(c, tree, tree[k], 1, n)
  <2>1. /\ Occurs(c, Piece(WithReturn(tree), k, Globals).code, 1)
        /\ Leads(c, 1 + Len(Piece(WithReturn(tree), k, Globals).code), n.yes)
    BY <1>4, <1>7
  <2>2. Globals.start = n.start /\ Globals.next = n.next
    BY <1>5, <1>6
  <2> HIDE DEF k
  <2> QED BY <1>2, <1>5, <1>6, <2>1, <2>2, StatementPlaced
<1> DEFINE e == At(1, n)
<1>9. e \in Entries /\ e.yes = 1 /\ ~e.two /\ SameLoop(e, n)
  BY <1>5, AtIs
<1> HIDE DEF e
<1>10. Linked(c, tree, t, e, n)
  <2>1. StatementAtLine(c, tree, t, e.yes, n)
    BY <1>8, <1>9 DEF Root
  <2> QED BY <1>9, <2>1, StatementLink
<1>11. Ends(tree, t)
  BY DEF EndsWithReturn, Ends
<1>12. IsSeq(<<EndOfBody>>)
  <2>1. <<EndOfBody>> \in Seq({EndOfBody})
    OBVIOUS
  <2> QED BY <2>1, SeqOf
<1>13. LaidOut(c, tree, <<t>> \o <<EndOfBody>>, e)
  BY <1>5, <1>9, <1>10, <1>11, <1>12, LaidOutLast
<1>14. Arrives(c, 1, b, e.yes)
  BY <1>9, LeadsToItself DEF Arrives
<1>15. IsAhead(c, tree, <<t>> \o <<EndOfBody>>, 1, b)
  BY <1>9, <1>13, <1>14 DEF IsAhead
<1> QED BY <1>15 DEF c

\* A function that a return is added to.
LEMMA LongerBodyAhead ==
    ASSUME NEW tree, IsBody(tree), ~EndsWithReturn(tree), NEW b
    PROVE  IsAhead(CodeOf(tree), tree, <<Root(tree)>> \o <<EndOfBody>>, 1, b)
<1> DEFINE body == WithReturn(tree)
           c == CodeOf(tree)
           k == Len(tree)
           n == AfterCode(c)
           t == Root(tree)
<1>1. IsWhole(c) /\ Len(c) \in Nat
  <2>1. IsWhole(c)
    BY CompiledCode
  <2> QED BY <2>1 DEF IsWhole
<1>2. IsTree(tree) /\ k \in Statements(tree) /\ k \in Nat /\ k >= 1 /\ ~JumpsOut(tree)[k]
  BY BodyIsTree DEF IsBody
<1>3. IsLonger(body, tree) /\ IsTree(body)
  BY LongerBody
<1>4. c = Piece(body, k + 2, Globals).code
  BY <1>3 DEF CodeOf, Piece, IsLonger
<1> HIDE DEF body, c
<1>5. /\ body[k + 2].op = "items" /\ body[k + 2].front = k /\ body[k + 2].item = k + 1
      /\ body[k + 1] = EndOfBody /\ k + 1 \in Statements(body) /\ k + 2 \in Statements(body)
  BY <1>2, <1>3 DEF IsLonger, EndOfBody, Statements, Conditions
<1>6. Globals \in LabelState /\ Globals.start = 0 /\ Globals.next = 0
  BY DEF Globals, LabelState
<1>7. PICK front, item :
        /\ IsItemsCode(body, k + 2, Globals, front, item)
        /\ Piece(body, k + 2, Globals) = [code |-> front.code \o item.code, g |-> item.g]
  BY <1>3, <1>5, <1>6, ItemsCode, Zenon
<1>8. /\ front = Piece(body, k, Globals) /\ item = Piece(body, k + 1, front.g)
      /\ front.code \in Seq(Lines) /\ item.code \in Seq(Lines)
      /\ front.g \in LabelState /\ front.g \in Later(Globals)
  BY <1>5, <1>7, Zenon DEF IsItemsCode
<1>9. item.code = <<EndOfBody>>
  <2>1. EndOfBody.op = "return"
    BY DEF EndOfBody
  <2>2. item = [code |-> <<EndOfBody>>, g |-> front.g]
    BY <1>3, <1>5, <1>8, <2>1, OneLineCode
  <2> QED BY <2>2
<1>10. c = front.code \o item.code
  <2>1. \A x, y : [code |-> x, g |-> y].code = x
    OBVIOUS
  <2> QED BY <1>4, <1>7, <2>1, Zenon
<1>11. PICK A \in Seq(Lines), B \in Seq(Lines) : A = front.code /\ B = item.code
  BY <1>8
<1>12. /\ Occurs(c, A, 1) /\ Occurs(c, B, 1 + Len(A)) /\ Len(A) \in Nat /\ Len(B) \in Nat
       /\ 1 + Len(c) = 1 + Len(A) + Len(B)
  <2>1. c = A \o B /\ Occurs(c, c, 1)
    BY <1>1, <1>10, <1>11, WholeOccurs
  <2>2. Occurs(c, A \o B, 1)
    BY <2>1
  <2>3. Occurs(c, A, 1) /\ Occurs(c, B, 1 + Len(A))
    BY <1>11, <2>2, OccursJoined
  <2>4. Len(A) \in Nat /\ Len(B) \in Nat
    OBVIOUS
  <2>5. 1 + Len(A \o B) = 1 + Len(A) + Len(B)
    BY <2>4, LineCases
  <2> QED BY <2>1, <2>3, <2>4, <2>5
<1>13. /\ n \in Entries /\ n.yes = Len(c) + 1 /\ n.start = 0 /\ n.next = 0 /\ ~n.loop /\ ~n.two
  BY <1>1, AfterCodeIs
<1> HIDE DEF n
<1>14. PICK y \in Nat : y = 1 + Len(A)
  BY <1>12
\* The return.
<1>15. StatementAtLine(c, tree, EndOfBody, y, n)
  <2>1. ~JumpsOut(body)[k + 1]
    BY <1>3, <1>5, OutEquationHolds DEF OutEquation, OutOf, EndOfBody
  <2>2. front.g.start = n.start /\ front.g.next = n.next
    BY <1>6, <1>8, <1>13 DEF Later
  <2>3. Occurs(c, Piece(body, k + 1, front.g).code, y)
    BY <1>8, <1>11, <1>12, <1>14
  <2>4. Leads(c, y + Len(Piece(body, k + 1, front.g).code), n.yes)
    <3>1. y + Len(B) = n.yes
      BY <1>1, <1>12, <1>13, <1>14
    <3>2. Piece(body, k + 1, front.g).code = B
      BY <1>8, <1>11
    <3> QED BY <3>1, <3>2, LeadsToItself
  <2>5. EndOfBody = body[k + 1] /\ EndOfBody.op = "return"
    BY <1>5 DEF EndOfBody
  <2>6. IsStatementAt(c, tree, EndOfBody, y, n, k + 1, front.g)
    BY <1>13, <2>1, <2>2, <2>3, <2>4, <2>5, Zenon DEF IsStatementAt, body
  <2> QED BY <1>5, <1>8, <2>6, Zenon DEF StatementAtLine, body
<1> DEFINE m == At(y, n)
           e == At(1, m)
<1>16. m \in Entries /\ m.yes = y /\ ~m.two /\ SameLoop(m, n)
  BY <1>13, <1>14, AtIs
<1>17. m.start = 0 /\ m.next = 0
  BY <1>13, <1>16 DEF SameLoop
<1> HIDE DEF m
<1>18. e \in Entries /\ e.yes = 1 /\ ~e.two /\ SameLoop(e, m)
  BY <1>16, AtIs
<1> HIDE DEF e
\* The body itself.
<1>19. StatementAtLine(c, tree, tree[k], 1, m)
  <2>1. /\ Occurs(c, Piece(body, k, Globals).code, 1)
        /\ Leads(c, 1 + Len(Piece(body, k, Globals).code), m.yes)
    BY <1>8, <1>11, <1>12, <1>14, <1>16, LeadsToItself
  <2>2. Globals.start = m.start /\ Globals.next = m.next
    BY <1>6, <1>17
  <2> HIDE DEF k
  <2> QED BY <1>2, <1>6, <1>16, <2>1, <2>2, StatementPlaced DEF body
<1>20. Linked(c, tree, EndOfBody, m, n)
  BY <1>15, <1>16, StatementLink
<1>21. Linked(c, tree, t, e, m)
  <2>1. StatementAtLine(c, tree, t, e.yes, m)
    BY <1>18, <1>19 DEF Root
  <2> QED BY <1>18, <2>1, StatementLink
<1>22. IsSeq(<< >>) /\ <<EndOfBody>> \o << >> = <<EndOfBody>> /\ IsSeq(<<EndOfBody>>)
  <2>1. << >> \in Seq({EndOfBody}) /\ <<EndOfBody>> \in Seq({EndOfBody})
    OBVIOUS
  <2> QED BY <2>1, SeqOf, ConcatEmptySeq
<1>23. LaidOut(c, tree, <<EndOfBody>>, m)
  <2>1. Ends(tree, EndOfBody)
    BY DEF Ends, EndOfBody
  <2>2. LaidOut(c, tree, <<EndOfBody>> \o << >>, m)
    BY <1>13, <1>16, <1>20, <1>22, <2>1, LaidOutLast
  <2> QED BY <1>22, <2>2
<1>24. LaidOut(c, tree, <<t>> \o <<EndOfBody>>, e)
  BY <1>16, <1>18, <1>21, <1>22, <1>23, LaidOutLast
<1>25. Arrives(c, 1, b, e.yes)
  BY <1>18, LeadsToItself DEF Arrives
<1>26. IsAhead(c, tree, <<t>> \o <<EndOfBody>>, 1, b)
  BY <1>18, <1>24, <1>25 DEF IsAhead
<1> QED BY <1>26 DEF c

LEMMA CompiledAhead ==
    ASSUME NEW tree, IsBody(tree), NEW b
    PROVE  IsAhead(CodeOf(tree), tree, <<Root(tree), EndOfBody>>, 1, b)
<1>1. <<Root(tree), EndOfBody>> = <<Root(tree)>> \o <<EndOfBody>>
  <2>1. \A s, t : <<s, t>> = <<s>> \o <<t>>
    <3> TAKE s, t
    <3>1. << >> \in Seq({s, t}) /\ <<t>> \in Seq({s, t})
      OBVIOUS
    <3>2. <<t>> \o << >> = <<t>> /\ IsSeq(<< >>)
      BY <3>1, SeqOf, ConcatEmptySeq
    <3>3. <<s, t>> \o << >> = <<s>> \o (<<t>> \o << >>)
      BY <3>2, PushedTwice
    <3>4. <<s, t>> \o << >> = <<s, t>>
      <4>1. <<s, t>> \in Seq({s, t})
        OBVIOUS
      <4> QED BY <4>1, ConcatEmptySeq
    <3> QED BY <3>2, <3>3, <3>4
  <2> QED BY <2>1, Zenon
<1> QED BY <1>1, BodyAhead, LongerBodyAhead

-----------------------------------------------------------------------------
(* The machine and the function keep together.                             *)

\* Until the code is there nothing is done; then the machine comes to what is
\* to be done next, until it has returned.
FlowInv ==
    IF code = << >> THEN todo = <<Root(ast), EndOfBody>>
    ELSE pc # 0 => IsAhead(code, ast, todo, pc, flag)

LEMMA FlowInvStep ==
    ASSUME CodeInv, FlowInv, [Next]_vars
    PROVE  FlowInv'
<1>1. IsBody(ast) /\ IsWhole(CodeOf(ast)) /\ CodeOf(ast) # << >>
  <2>1. IsBody(ast)
    BY DEF CodeInv
  <2>2. IsWhole(CodeOf(ast))
    BY <2>1, CompiledCode
  <2>3. Len(CodeOf(ast)) >= 1
    BY <2>2 DEF IsWhole
  <2> QED BY <2>1, <2>2, <2>3
<1>2. CASE Compile
  <2>1. code = << >> /\ code' = CodeOf(ast) /\ ast' = ast /\ pc' = pc /\ flag' = flag /\ todo' = todo
    BY <1>2 DEF Compile, CodeOf
  <2>2. pc = 1 /\ todo = <<Root(ast), EndOfBody>>
    BY <2>1 DEF CodeInv, FlowInv
  <2>3. IsAhead(CodeOf(ast), ast, <<Root(ast), EndOfBody>>, 1, flag)
    BY <1>1, CompiledAhead
  <2>4. IsAhead(code', ast', todo', pc', flag')
    BY <2>1, <2>2, <2>3
  <2>5. code' # << >>
    BY <1>1, <2>1
  <2> QED BY <2>4, <2>5 DEF FlowInv
<1>3. ASSUME code # << >>, ast' = ast, code' = code, NEW q, NEW k, NEW b,
             todo' = q, pc' = k, flag' = b, k # 0 => IsAhead(code, ast, q, k, b)
      PROVE  FlowInv'
  <2>1. pc' # 0 => IsAhead(code', ast', todo', pc', flag')
    BY <1>3
  <2> QED BY <1>3, <2>1 DEF FlowInv
<1>4. CASE Unfold
  <2>1. /\ code # << >> /\ ~Settled(todo) /\ todo' = Rewritten(ast, todo)
        /\ ast' = ast /\ code' = code /\ flag' = flag /\ pc' = pc
    BY <1>4 DEF Unfold
  <2>2. pc # 0 => IsAhead(code, ast, todo, pc, flag)
    BY <2>1 DEF FlowInv
  <2>3. pc # 0 => IsAhead(code, ast, Rewritten(ast, todo), pc, flag)
    BY <1>1, <2>1, <2>2, UnfoldedAhead
  <2> QED BY <1>3, <2>1, <2>3
<1>5. ASSUME NEW ops, Running(ops)
      PROVE  /\ code # << >> /\ IsWhole(code) /\ pc \in 1 .. Len(code) /\ pc \in Nat /\ pc # 0
             /\ Settled(todo) /\ IsAhead(code, ast, todo, pc, flag)
             /\ pc \in DOMAIN code /\ code[pc].op \in ops
  <2>1. Settled(todo) /\ pc \in DOMAIN code /\ code[pc].op \in ops
    BY <1>5 DEF Running, Line
  <2>2. code # << >>
    BY <2>1
  <2>3. IsWhole(code)
    BY <2>2, CodeInvWhole
  <2>4. DOMAIN code = 1 .. Len(code) /\ Len(code) \in Nat
    BY <2>3 DEF IsWhole
  <2>5. pc \in Nat /\ pc # 0
    BY <2>1, <2>4
  <2> QED BY <2>1, <2>2, <2>3, <2>4, <2>5 DEF FlowInv
<1>6. ASSUME pc \in DOMAIN code, IsWhole(code), code[pc].op \in JumpOps
      PROVE  /\ code[pc].to \in Nat /\ Position(code[pc].to) \in Nat
             /\ LabelAt(code, Position(code[pc].to), code[pc].to)
  <2>1. DOMAIN code = 1 .. Len(code) /\ Len(code) \in Nat
    BY <1>6 DEF IsWhole
  <2> QED BY <1>6, <2>1, JumpsArrive
<1>7. CASE PassLabel
  <2>1. Running({"label"}) /\ pc' = pc + 1 /\ ast' = ast /\ code' = code /\ flag' = flag /\ todo' = todo
    BY <1>7 DEF PassLabel
  <2>2. code[pc].op = "label"
    BY <1>5, <2>1
  <2>3. IsAhead(code, ast, todo, pc + 1, flag)
    BY <1>1, <1>5, <2>1, <2>2, AheadPastLabel
  <2> QED BY <1>3, <1>5, <2>1, <2>3
<1>8. CASE Jump
  <2>1. /\ Running({"goto"}) /\ pc' = Position(code[pc].to)
        /\ ast' = ast /\ code' = code /\ flag' = flag /\ todo' = todo
    BY <1>8 DEF Jump, Line
  <2>2. code[pc].op = "goto" /\ code[pc].op \in JumpOps
    BY <1>5, <2>1 DEF JumpOps
  <2>3. IsAhead(code, ast, todo, Position(code[pc].to), flag)
    BY <1>1, <1>5, <1>6, <2>1, <2>2, AheadAcrossGoto
  <2> QED BY <1>3, <1>5, <2>1, <2>3
<1>9. CASE JumpIf
  <2>1. /\ Running({"ifz", "ifnz"})
        /\ pc' = IF flag = (code[pc].op = "ifnz") THEN Position(code[pc].to) ELSE pc + 1
        /\ ast' = ast /\ code' = code /\ flag' = flag /\ todo' = todo
    BY <1>9 DEF JumpIf, Line
  <2>2. code[pc].op \in {"ifz", "ifnz"} /\ code[pc].op \in JumpOps
    BY <1>5, <2>1 DEF JumpOps
  <2>3. code[pc].to \in Nat /\ pc' \in Nat /\ Taken(code, pc, flag, pc')
    <3>1. CASE flag = (code[pc].op = "ifnz")
      BY <1>5, <1>6, <2>1, <2>2, <3>1 DEF Taken
    <3>2. CASE flag # (code[pc].op = "ifnz")
      BY <1>5, <1>6, <2>1, <2>2, <3>2 DEF Taken
    <3> QED BY <3>1, <3>2
  <2>4. IsAhead(code, ast, todo, pc', flag)
    BY <1>1, <1>5, <2>1, <2>2, <2>3, AheadAcrossJump
  <2> QED BY <1>3, <1>5, <2>1, <2>4
<1>10. ASSUME NEW b \in BOOLEAN, Evaluate(b) PROVE FlowInv'
  <2>1. /\ Running({"leaf"}) /\ pc' = pc + 1 /\ flag' = b /\ todo' = After(todo, b)
        /\ ast' = ast /\ code' = code
    BY <1>10 DEF Evaluate
  <2>2. code[pc].op = "leaf"
    BY <1>5, <2>1
  <2>3. IsAhead(code, ast, After(todo, b), pc + 1, b)
    BY <1>1, <1>5, <2>1, <2>2, AheadOfValue
  <2> QED BY <1>3, <1>5, <2>1, <2>3
<1>11. CASE Perform
  <2>1. /\ Running({"simple"}) /\ pc' = pc + 1 /\ flag' = flag /\ todo' = After(todo, FALSE)
        /\ ast' = ast /\ code' = code
    BY <1>11 DEF Perform
  <2>2. code[pc].op = "simple"
    BY <1>5, <2>1
  <2>3. IsAhead(code, ast, After(todo, FALSE), pc + 1, flag)
    BY <1>1, <1>5, <2>1, <2>2, AheadOfStatement
  <2> QED BY <1>3, <1>5, <2>1, <2>3
<1>12. CASE Return
  <2>1. Running({"return"}) /\ pc' = 0 /\ flag' = flag /\ todo' = todo /\ ast' = ast /\ code' = code
    BY <1>12 DEF Return
  <2> QED BY <1>3, <1>5, <2>1
<1>13. CASE UNCHANGED vars
  BY <1>13 DEF vars, FlowInv
<1> QED BY <1>2, <1>4, <1>7, <1>8, <1>9, <1>10, <1>11, <1>12, <1>13 DEF Next, Execute

LEMMA FlowInvHolds == Spec => []FlowInv
<1>1. Init => FlowInv
  BY DEF Init, FlowInv
<1>2. CodeInv /\ FlowInv /\ [Next]_vars => FlowInv'
  BY FlowInvStep
<1> QED BY <1>1, <1>2, CodeInvHolds, PTL DEF Spec

\* The code does what the source says, in that order: the expressions of
\* conditions that are evaluated, by short circuit, the branches taken, and
\* where breaks and continues of nested loops lead, for every body that the
\* parser builds (sysy/c_gen_e.cpp:159-321, 571-622).
THEOREM CodeAgreesWithSource == Spec => []AgreesWithSource
<1>1. CodeInv /\ FlowInv => AgreesWithSource
  <2> SUFFICES ASSUME CodeInv, FlowInv, Observable PROVE Line = Observation(todo)
    BY DEF AgreesWithSource
  <2>1. Settled(todo) /\ pc \in DOMAIN code /\ code[pc].op \in {"leaf", "simple", "return"}
    BY DEF Observable, Running, Line
  <2>2. code # << >> /\ IsBody(ast)
    BY <2>1 DEF CodeInv
  <2>3. pc # 0
    <3>1. IsWhole(code)
      BY <2>2, CodeInvWhole
    <3>2. DOMAIN code = 1 .. Len(code) /\ Len(code) \in Nat
      BY <3>1 DEF IsWhole
    <3> QED BY <2>1, <3>2
  <2>4. IsAhead(code, ast, todo, pc, flag)
    BY <2>2, <2>3 DEF FlowInv
  <2>5. code[pc] = Head(todo)
    BY <2>1, <2>2, <2>4, AheadIsHere
  <2> QED BY <2>5 DEF Line, Observation
<1> QED BY <1>1, CodeInvHolds, FlowInvHolds, PTL

=============================================================================
