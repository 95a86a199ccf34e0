-------------------------- MODULE DataflowSolution --------------------------
(***************************************************************************)
(* What liveness_analysis (backend/dataflow.cpp) promises, with no         *)
(* worklist: any statement, in any order, may recompute its two sets from  *)
(* those of its successors (dataflow.cpp:277-284), and every statement     *)
(* whose sets are out of date is recomputed in the end.                    *)
(***************************************************************************)

CONSTANTS
    Node,       \* statements, by stmtno_
    Graphs      \* the flow graphs the analysis may be given

VARIABLES
    graph,      \* [succs, def, use : functions on Node]
    liveIn,     \* stmt->live_in_
    liveOut     \* stmt->live_out_

avars == <<graph, liveIn, liveOut>>

\* out[n] := UNION of in[m] over the successors m of n
Out(n, in) == UNION {in[m] : m \in graph.succs[n]}

\* in[n] := use[n] \cup (out[n] - def[n])
In(n, out) == graph.use[n] \cup (out \ graph.def[n])

\* The dataflow equations of statement n.
Solved(n, in, out) ==
    /\ out[n] = Out(n, in)
    /\ in[n]  = In(n, out[n])

Init ==
    /\ graph \in Graphs
    /\ liveIn  = [n \in Node |-> {}]
    /\ liveOut = [n \in Node |-> {}]

Recompute(n) ==
    /\ liveOut' = [liveOut EXCEPT ![n] = Out(n, liveIn)]
    /\ liveIn'  = [liveIn  EXCEPT ![n] = In(n, Out(n, liveIn))]
    /\ UNCHANGED graph

Next == \E n \in Node : Recompute(n)

Spec == Init /\ [][Next]_avars /\ \A n \in Node : WF_avars(Recompute(n))

=============================================================================
