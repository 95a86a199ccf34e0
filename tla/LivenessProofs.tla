--------------------------- MODULE LivenessProofs ---------------------------
(***************************************************************************)
(* Proofs about Liveness, for every flow graph, number of statements and   *)
(* set of variables.  Termination is left to TLC.                          *)
(***************************************************************************)
EXTENDS Liveness, TLAPS

-----------------------------------------------------------------------------
\* The elements of a concatenation, as Requeued appends to the queue.
LEMMA ElementsConcat ==
    ASSUME NEW S, NEW s \in Seq(S), NEW t \in Seq(S)
    PROVE  Elements(s \o t) = Elements(s) \cup Elements(t)
<1>1. \A e \in Elements(s \o t) : e \in Elements(s) \cup Elements(t)
  <2> TAKE e \in Elements(s \o t)
  <2>1. PICK i \in 1 .. Len(s \o t) : e = (s \o t)[i]
    BY DEF Elements
  <2>2. CASE i <= Len(s)
    BY <2>1, <2>2 DEF Elements
  <2>3. CASE i > Len(s)
    <3>1. i - Len(s) \in 1 .. Len(t) /\ e = t[i - Len(s)]
      BY <2>1, <2>3
    <3> QED BY <3>1 DEF Elements
  <2> QED BY <2>1, <2>2, <2>3
<1>2. \A e \in Elements(s) : e \in Elements(s \o t)
  <2> TAKE e \in Elements(s)
  <2>1. PICK i \in 1 .. Len(s) : e = s[i]
    BY DEF Elements
  <2>2. i \in 1 .. Len(s \o t) /\ e = (s \o t)[i]
    BY <2>1
  <2> QED BY <2>2 DEF Elements
<1>3. \A e \in Elements(t) : e \in Elements(s \o t)
  <2> TAKE e \in Elements(t)
  <2>1. PICK i \in 1 .. Len(t) : e = t[i]
    BY DEF Elements
  <2>2. (Len(s) + i) \in 1 .. Len(s \o t) /\ e = (s \o t)[Len(s) + i]
    BY <2>1
  <2> QED BY <2>2 DEF Elements
<1> QED BY <1>1, <1>2, <1>3

\* Popping the front of the queue takes at most the front statement out.
LEMMA ElementsTail ==
    ASSUME NEW S, NEW s \in Seq(S), s # << >>
    PROVE  /\ Head(s) \in S
           /\ Tail(s) \in Seq(S)
           /\ Elements(s) \subseteq {Head(s)} \cup Elements(Tail(s))
<1>1. Head(s) \in S /\ Tail(s) \in Seq(S)
  OBVIOUS
<1>2. \A e \in Elements(s) : e = Head(s) \/ e \in Elements(Tail(s))
  <2> TAKE e \in Elements(s)
  <2>1. PICK i \in 1 .. Len(s) : e = s[i]
    BY DEF Elements
  <2>2. CASE i = 1
    BY <2>1, <2>2
  <2>3. CASE i # 1
    <3>1. i - 1 \in 1 .. Len(Tail(s)) /\ e = Tail(s)[i - 1]
      BY <2>1, <2>3
    <3> QED BY <3>1 DEF Elements
  <2> QED BY <2>2, <2>3
<1> QED BY <1>1, <1>2

\* liveness_analysis queues every statement of the function to begin with.
LEMMA InitialQueueFull == InitialQueue \in Seq(Stmt) /\ Elements(InitialQueue) = Stmt
<1> USE SizeAssumption
<1>1. InitialQueue \in Seq(Stmt) /\ Len(InitialQueue) = NumStmts
  BY DEF InitialQueue, Stmt
<1>2. \A n \in Stmt : n \in Elements(InitialQueue)
  <2> TAKE n \in Stmt
  <2>1. (NumStmts - n) \in 1 .. NumStmts /\ InitialQueue[NumStmts - n] = n
    BY DEF InitialQueue, Stmt
  <2> QED BY <1>1, <2>1 DEF Elements
<1>3. \A n \in Elements(InitialQueue) : n \in Stmt
  BY <1>1 DEF Elements, InitialQueue, Stmt
<1> QED BY <1>1, <1>2, <1>3

-----------------------------------------------------------------------------
\* The values GrownOut and NewIn compute are sets of variables.
LEMMA StepTypes ==
    ASSUME TypeOK, NEW n \in Node
    PROVE  GrownOut(n) \subseteq Var /\ NewIn(n) \subseteq Var
<1>1. IsFlowGraph(graph)
  BY GraphAssumption DEF TypeOK
<1> QED BY <1>1 DEF TypeOK, IsFlowGraph, GrownOut, NewIn

\* At first every statement is queued and every set is empty.
LEMMA InitTypeOK == Init => TypeOK
<1> SUFFICES ASSUME Init PROVE TypeOK
  OBVIOUS
<1>1. workList \in Seq(Node)
  BY InitialQueueFull DEF Init, Node
<1> QED BY <1>1 DEF Init, TypeOK

\* One turn of the loop keeps the types.
LEMMA StepTypeOK == TypeOK /\ [Next]_vars => TypeOK'
<1> SUFFICES ASSUME TypeOK, [Next]_vars PROVE TypeOK'
  OBVIOUS
<1>1. CASE Process
  <2> DEFINE n == Head(workList)
  <2>1. n \in Node /\ Tail(workList) \in Seq(Node)
    BY <1>1, ElementsTail DEF Process, TypeOK
  <2>2. GrownOut(n) \subseteq Var /\ NewIn(n) \subseteq Var
    BY <2>1, StepTypes
  <2>3. Requeued(n) \in Seq(Node)
    BY <2>1, GraphAssumption DEF Requeued, TypeOK, IsFlowGraph
  <2>4. workList' \in Seq(Node)
    BY <1>1, <2>1, <2>3 DEF Process
  <2> QED BY <1>1, <2>1, <2>2, <2>4 DEF Process, TypeOK
<1>2. CASE UNCHANGED vars
  BY <1>2 DEF vars, TypeOK
<1> QED BY <1>1, <1>2 DEF Next

\* Type correctness: the queue holds statements, the sets hold variables.
THEOREM TypeCorrect == Spec => []TypeOK
BY InitTypeOK, StepTypeOK, PTL DEF Spec

-----------------------------------------------------------------------------
\* Facts about one turn of the loop, in a state that satisfies the invariant:
\* accumulating live_out_ yields exactly the union over the successors, and
\* the new sets contain the old ones.
LEMMA ProcessFacts ==
    ASSUME TypeOK, IInv, Process
    PROVE  LET n == Head(workList) IN
           /\ n \in Node
           /\ liveOut' = [liveOut EXCEPT ![n] = Abstract!Out(n, liveIn)]
           /\ liveIn'  = [liveIn  EXCEPT ![n] = Abstract!In(n, Abstract!Out(n, liveIn))]
           /\ graph' = graph
           /\ \A k \in Node : liveIn[k] \subseteq liveIn'[k] /\ liveOut[k] \subseteq liveOut'[k]
           /\ \A k \in Node : k \in Elements(workList) =>
                 k = n \/ k \in Elements(workList')
           /\ liveIn'[n] # liveIn[n] =>
                 \A k \in Node : n \in graph.succs[k] => k \in Elements(workList')
<1> DEFINE n == Head(workList)
<1>1. n \in Node /\ Tail(workList) \in Seq(Node)
      /\ Elements(workList) \subseteq {n} \cup Elements(Tail(workList))
  BY ElementsTail DEF Process, TypeOK
<1>2. IsFlowGraph(graph)
  BY GraphAssumption DEF TypeOK
<1>3. graph.succs[n] \ {n} = graph.succs[n]
  BY <1>1, <1>2 DEF IsFlowGraph
<1>4. GrownOut(n) = Abstract!Out(n, liveIn)
  BY <1>1, <1>3 DEF GrownOut, IInv, SetsJustified, Abstract!Out
<1>5. NewIn(n) = Abstract!In(n, Abstract!Out(n, liveIn))
  BY <1>4 DEF NewIn, Abstract!In
<1>6. liveOut' = [liveOut EXCEPT ![n] = Abstract!Out(n, liveIn)]
      /\ liveIn'  = [liveIn  EXCEPT ![n] = Abstract!In(n, Abstract!Out(n, liveIn))]
      /\ graph' = graph
  BY <1>4, <1>5 DEF Process
<1>7. liveOut[n] \subseteq Abstract!Out(n, liveIn)
      /\ liveIn[n] \subseteq Abstract!In(n, Abstract!Out(n, liveIn))
  BY <1>1 DEF IInv, SetsJustified, Abstract!In
<1>8. \A k \in Node : liveIn[k] \subseteq liveIn'[k] /\ liveOut[k] \subseteq liveOut'[k]
  BY <1>1, <1>6, <1>7 DEF TypeOK
<1>9. Requeued(n) \in Seq(Node)
  BY <1>1, <1>2 DEF Requeued, IsFlowGraph
<1>10. Elements(workList') = Elements(Tail(workList)) \cup Elements(Requeued(n))
  BY <1>1, <1>9, ElementsConcat DEF Process
<1>11. liveIn'[n] # liveIn[n] =>
         \A k \in Node : n \in graph.succs[k] => k \in Elements(workList')
  <2> SUFFICES ASSUME liveIn'[n] # liveIn[n], NEW k \in Node, n \in graph.succs[k]
               PROVE  k \in Elements(workList')
    OBVIOUS
  <2>1. NewIn(n) # liveIn[n]
    BY <1>1, <1>5, <1>6 DEF TypeOK
  <2>2. k \in Elements(graph.preds[n])
    BY <1>1, <1>2 DEF IsFlowGraph
  <2> QED BY <1>10, <2>1, <2>2 DEF Requeued
<1> QED BY <1>1, <1>6, <1>8, <1>10, <1>11

\* The invariant holds initially: every statement is queued, all sets are empty.
LEMMA InitIInv == Init => IInv
<1> SUFFICES ASSUME Init PROVE IInv
  OBVIOUS
<1>1. IsFlowGraph(graph)
  BY GraphAssumption DEF Init
<1>2. SetsJustified
  BY DEF Init, SetsJustified
<1>3. SettledUnlessQueued
  <2> SUFFICES ASSUME NEW n \in Node, ~Queued(n)
               PROVE  Abstract!Solved(n, liveIn, liveOut)
    BY DEF SettledUnlessQueued
  <2>1. n \in Dead
    BY InitialQueueFull DEF Init, Queued, Node
  <2>2. graph.succs[n] = {} /\ graph.use[n] = {}
    BY <1>1, <2>1 DEF IsFlowGraph
  <2> QED BY <2>2 DEF Init, Abstract!Solved, Abstract!Out, Abstract!In
<1> QED BY <1>2, <1>3 DEF IInv

\* One turn of the loop preserves the invariant: the statement processed
\* satisfies its equations, and one whose successor changed is queued again.
LEMMA StepIInv == TypeOK /\ IInv /\ [Next]_vars => IInv'
<1> SUFFICES ASSUME TypeOK, IInv, [Next]_vars PROVE IInv'
  OBVIOUS
<1>1. CASE UNCHANGED vars
  BY <1>1 DEF vars, IInv, SetsJustified, SettledUnlessQueued, Queued,
     Abstract!Solved, Abstract!Out, Abstract!In
<1>2. CASE Process
  <2> DEFINE n == Head(workList)
  <2>0. IsFlowGraph(graph)
    BY GraphAssumption DEF TypeOK
  <2>1. n \in Node /\ graph' = graph
        /\ liveOut' = [liveOut EXCEPT ![n] = Abstract!Out(n, liveIn)]
        /\ liveIn'  = [liveIn  EXCEPT ![n] = Abstract!In(n, Abstract!Out(n, liveIn))]
        /\ \A k \in Node : liveIn[k] \subseteq liveIn'[k]
    BY <1>2, ProcessFacts
  <2>2. \A k \in Node : k \in Elements(workList) => k = n \/ k \in Elements(workList')
    BY <1>2, ProcessFacts
  <2>3. liveIn'[n] # liveIn[n] =>
          \A k \in Node : n \in graph.succs[k] => k \in Elements(workList')
    BY <1>2, ProcessFacts
  <2>4. SetsJustified'
    <3> SUFFICES ASSUME NEW k \in Node
                 PROVE  /\ liveIn'[k]  \subseteq graph.use[k] \cup (liveOut'[k] \ graph.def[k])
                        /\ liveOut'[k] \subseteq UNION {liveIn'[m] : m \in graph.succs[k]}
      BY <2>1 DEF SetsJustified, Abstract!Out, Abstract!In
    <3>1. UNION {liveIn[m] : m \in graph.succs[k]} \subseteq UNION {liveIn'[m] : m \in graph.succs[k]}
      BY <2>0, <2>1 DEF IsFlowGraph
    <3>2. CASE k = n
      BY <2>1, <3>1, <3>2 DEF TypeOK, Abstract!Out, Abstract!In
    <3>3. CASE k # n
      BY <2>1, <3>1, <3>3 DEF TypeOK, IInv, SetsJustified, Abstract!Out, Abstract!In
    <3> QED BY <3>2, <3>3
  <2>5. SettledUnlessQueued'
    <3> SUFFICES ASSUME NEW k \in Node, k \notin Elements(workList')
                 PROVE  /\ liveOut'[k] = UNION {liveIn'[m] : m \in graph.succs[k]}
                        /\ liveIn'[k] = graph.use[k] \cup (liveOut'[k] \ graph.def[k])
      BY <2>1 DEF SettledUnlessQueued, Queued, Abstract!Solved, Abstract!Out, Abstract!In
    <3>1. \A m \in graph.succs[k] : liveIn'[m] = liveIn[m]
      <4>1. CASE n \in graph.succs[k]
        <5>1. liveIn'[n] = liveIn[n]
          BY <2>3, <4>1
        <5> QED BY <2>0, <2>1, <5>1 DEF TypeOK, IsFlowGraph
      <4>2. CASE n \notin graph.succs[k]
        BY <2>0, <2>1, <4>2 DEF TypeOK, IsFlowGraph
      <4> QED BY <4>1, <4>2
    <3>2. UNION {liveIn'[m] : m \in graph.succs[k]} = UNION {liveIn[m] : m \in graph.succs[k]}
      BY <3>1
    <3>3. CASE k = n
      BY <2>1, <3>2, <3>3 DEF TypeOK, Abstract!Out, Abstract!In
    <3>4. CASE k # n
      <4>1. Abstract!Solved(k, liveIn, liveOut)
        BY <2>2, <3>4 DEF IInv, SettledUnlessQueued, Queued
      <4> QED BY <2>1, <3>2, <3>4, <4>1 DEF TypeOK, Abstract!Solved, Abstract!Out, Abstract!In
    <3> QED BY <3>3, <3>4
  <2> QED BY <2>4, <2>5 DEF IInv
<1> QED BY <1>1, <1>2 DEF Next

\* A statement that is not queued satisfies its dataflow equations, so the
\* sets solve them all when the queue is empty.
THEOREM Settled == Spec => []SettledUnlessQueued
<1>1. IInv => SettledUnlessQueued
  BY DEF IInv
<1> QED BY <1>1, TypeCorrect, InitIInv, StepIInv, PTL DEF Spec

\* What is live out of a statement is live into one of its successors, and
\* what is live into it is used there or lives on: nothing is live for no
\* reason.
THEOREM Justified == Spec => []SetsJustified
<1>1. IInv => SetsJustified
  BY DEF IInv
<1> QED BY <1>1, TypeCorrect, InitIInv, StepIInv, PTL DEF Spec

-----------------------------------------------------------------------------
\* What one solution sol has to do with the sets: it contains them.
Below(sol) ==
    \A n \in Node : liveIn[n] \subseteq sol[n] /\ liveOut[n] \subseteq Abstract!Out(n, sol)

BelowSolutions == \A sol \in [Node -> SUBSET Var] : IsSolution(sol) => Below(sol)

\* One turn of the loop adds no variable that a solution does without.
LEMMA StepBelow ==
    ASSUME TypeOK, BelowSolutions, [Next]_vars
    PROVE  BelowSolutions'
<1>1. CASE UNCHANGED vars
  BY <1>1 DEF vars, BelowSolutions, Below, IsSolution, Abstract!Out
<1>2. CASE Process
  <2> SUFFICES ASSUME NEW sol \in [Node -> SUBSET Var], IsSolution(sol)'
               PROVE  Below(sol)'
    BY DEF BelowSolutions
  <2> DEFINE n == Head(workList)
  <2>1. n \in Node /\ graph' = graph
        /\ liveOut' = [liveOut EXCEPT ![n] = GrownOut(n)]
        /\ liveIn'  = [liveIn  EXCEPT ![n] = NewIn(n)]
    BY <1>2, ElementsTail DEF Process, TypeOK
  <2>2. IsSolution(sol) /\ Below(sol)
    BY <2>1 DEF IsSolution, BelowSolutions, Abstract!Out
  <2>3. IsFlowGraph(graph)
    BY GraphAssumption DEF TypeOK
  <2>4. GrownOut(n) \subseteq Abstract!Out(n, sol)
    BY <2>1, <2>2, <2>3 DEF GrownOut, Below, Abstract!Out, IsFlowGraph
  <2>5. NewIn(n) \subseteq sol[n]
    BY <2>1, <2>2, <2>4 DEF NewIn, IsSolution
  <2> QED BY <2>1, <2>2, <2>4, <2>5 DEF TypeOK, Below, Abstract!Out
<1> QED BY <1>1, <1>2 DEF Next

\* The sets never hold a variable that some solution of the equations does
\* without: with Settled, the loop computes the least solution.
THEOREM Least == Spec => []LeastSolution
<1>1. Init => BelowSolutions
  BY DEF Init, BelowSolutions, Below
<1>2. BelowSolutions => LeastSolution
  BY DEF BelowSolutions, Below, LeastSolution
<1> QED BY <1>1, <1>2, StepBelow, TypeCorrect, PTL DEF Spec

-----------------------------------------------------------------------------
\* Every turn of the loop is a recomputation of one statement's sets from
\* its successors: accumulation and the queue add nothing to that.
THEOREM Refinement == Spec => AbstractSafety
<1>1. Init => Abstract!Init
  BY DEF Init, Abstract!Init
<1>2. TypeOK /\ IInv /\ [Next]_vars => [Abstract!Next]_(Abstract!avars)
  <2> SUFFICES ASSUME TypeOK, IInv, [Next]_vars
               PROVE  [Abstract!Next]_(Abstract!avars)
    OBVIOUS
  <2>1. CASE Process
    BY <2>1, ProcessFacts DEF Abstract!Next, Abstract!Recompute
  <2>2. CASE UNCHANGED vars
    BY <2>2 DEF vars, Abstract!avars
  <2> QED BY <2>1, <2>2 DEF Next
<1> QED BY <1>1, <1>2, TypeCorrect, InitIInv, StepIInv, PTL DEF Spec, AbstractSafety

=============================================================================
