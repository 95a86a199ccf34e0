------------------------------ MODULE Liveness ------------------------------
(***************************************************************************)
(* Newpiler::liveness_analysis (backend/dataflow.cpp:244-289): the         *)
(* backward dataflow analysis that the register allocator relies on.  It   *)
(* keeps a queue of statements whose sets may be out of date.              *)
(*                                                                         *)
(* A graph is what gen_control_flow_graph and set_stmt_pred_succ leave:    *)
(* succs_ and preds_ of every statement of func->stmts_, and the def_ and  *)
(* use_ sets that set_def_use fills.  A block that the reachability pass   *)
(* drops (dataflow.cpp:116-124) stays in preds_ of the blocks it led to,   *)
(* so preds may name Dead statements, which have no successors and no      *)
(* variables of their own.                                                 *)
(***************************************************************************)
EXTENDS Naturals, Sequences

CONSTANTS
    NumStmts,   \* func->stmts_.size()
    Dead,       \* exit statements of the unreachable blocks
    Var,        \* variables of the function
    Graphs      \* the flow graphs considered

Stmt == 0 .. NumStmts - 1
Node == Stmt \cup Dead

VARIABLES
    graph,      \* the function's flow graph, fixed
    workList,   \* std::deque<ENodePtr> work_list
    liveIn,     \* stmt->live_in_
    liveOut     \* stmt->live_out_

vars == <<graph, workList, liveIn, liveOut>>

-----------------------------------------------------------------------------
Elements(s) == {s[i] : i \in 1 .. Len(s)}

\* No statement follows itself: every jump the front end emits crosses at
\* least one statement (c_gen_e.cpp:256-321).
IsFlowGraph(g) ==
    /\ g.succs \in [Node -> SUBSET Node]
    /\ g.preds \in [Node -> Seq(Node)]
    /\ g.def   \in [Node -> SUBSET Var]
    /\ g.use   \in [Node -> SUBSET Var]
    /\ \A n \in Node : n \notin g.succs[n]
    /\ \A n \in Node, m \in Node : m \in g.succs[n] => n \in Elements(g.preds[m])
    /\ \A n \in Dead : g.succs[n] = {} /\ g.use[n] = {}

ASSUME SizeAssumption  == NumStmts \in Nat \ {0}
ASSUME GraphAssumption == \A g \in Graphs : IsFlowGraph(g)

-----------------------------------------------------------------------------
\* Mutants of the definitions below, which the runs must tell from them.
InitialQueueOffByOne == [i \in 1 .. NumStmts |-> NumStmts - i + 1]
InitialQueueWithoutFirst == [i \in 1 .. NumStmts - 1 |-> NumStmts - i]

\* work_list.push_front over func->stmts_: the last statement is first.
InitialQueue == [i \in 1 .. NumStmts |-> NumStmts - i]

Init ==
    /\ graph \in Graphs
    /\ workList = InitialQueue
    /\ liveIn  = [n \in Node |-> {}]
    /\ liveOut = [n \in Node |-> {}]

\* live_out_ only grows.  live_in_ of n itself was moved into old_in before
\* the loop over the successors reads it.
GrownOut(n) == liveOut[n] \cup UNION {liveIn[m] : m \in graph.succs[n] \ {n}}

NewInKeepingDefs(n) == graph.use[n] \cup GrownOut(n)

NewIn(n) == graph.use[n] \cup (GrownOut(n) \ graph.def[n])

RequeuedFirstOnly(n) ==
    IF NewIn(n) # liveIn[n] THEN SubSeq(graph.preds[n], 1, 1) ELSE << >>
RequeuedAlways(n) == graph.preds[n]

Requeued(n) == IF NewIn(n) # liveIn[n] THEN graph.preds[n] ELSE << >>

\* One turn of the while loop on the statement at the front of the queue.
Process ==
    /\ workList # << >>
    /\ LET n == Head(workList) IN
        /\ liveOut'  = [liveOut EXCEPT ![n] = GrownOut(n)]
        /\ liveIn'   = [liveIn  EXCEPT ![n] = NewIn(n)]
        /\ workList' = Tail(workList) \o Requeued(n)
    /\ UNCHANGED graph

Next == Process

Spec == Init /\ [][Next]_vars /\ WF_vars(Next)

-----------------------------------------------------------------------------
Abstract == INSTANCE DataflowSolution

\* The state stays well typed; in particular only statements the function
\* has, or unreachable ones, are ever queued.
TypeOK ==
    /\ graph \in Graphs
    /\ workList \in Seq(Node)
    /\ liveIn  \in [Node -> SUBSET Var]
    /\ liveOut \in [Node -> SUBSET Var]

Queued(n) == n \in Elements(workList)

\* A statement that is not queued satisfies its dataflow equations: the
\* queue never loses a statement whose successors have changed.
SettledUnlessQueued ==
    \A n \in Node : ~Queued(n) => Abstract!Solved(n, liveIn, liveOut)

\* Each set holds only what its neighbours account for at that moment; with
\* SettledUnlessQueued, the invariant by which the loop is shown correct.
SetsJustified ==
    \A n \in Node :
        /\ liveIn[n]  \subseteq Abstract!In(n, liveOut[n])
        /\ liveOut[n] \subseteq Abstract!Out(n, liveIn)

IInv == SetsJustified /\ SettledUnlessQueued

\* An assignment of live-in sets closed under the dataflow equations.
IsSolution(in) ==
    \A n \in Node : graph.use[n] \cup (Abstract!Out(n, in) \ graph.def[n]) \subseteq in[n]

\* At every moment the sets hold no variable that some solution does
\* without: nothing is ever called live that need not be, whatever the order.
LeastSolution ==
    \A sol \in [Node -> SUBSET Var] :
        IsSolution(sol) => \A n \in Node : liveIn[n] \subseteq sol[n]

\* The loop ends, and then every statement satisfies its equations.
Terminates == <>[](workList = << >> /\ \A n \in Node : Abstract!Solved(n, liveIn, liveOut))

\* With its queue hidden, the loop is a fair recomputation of the sets.
ImplementsAbstract == Abstract!Spec

\* The part of it that needs no fairness.
AbstractSafety == Abstract!Init /\ [][Abstract!Next]_(Abstract!avars)

=============================================================================
