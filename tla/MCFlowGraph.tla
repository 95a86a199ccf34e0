---------------------------- MODULE MCFlowGraph -----------------------------
(***************************************************************************)
(* Every function of five statements that ends with a return, and a second *)
(* function, a loop, of three.                                             *)
(***************************************************************************)
EXTENDS FlowGraph

\* No statement of parsed Eeyore jumps to itself (c_gen_e.cpp:256-321), and
\* a man-made return ends a function that has none (c_gen_e.cpp:161-169).
Statements(s, n) ==
    {[op |-> "other", to |-> s], [op |-> "ret", to |-> s]}
        \cup [op : {"goto", "if"}, to : (1 .. n) \ {s}]

Return(n) == [op |-> "ret", to |-> n]

First ==
    {<<a, b, c, d, Return(5)>> : a \in Statements(1, 5), b \in Statements(2, 5),
                                 c \in Statements(3, 5), d \in Statements(4, 5)}

Second == <<[op |-> "if", to |-> 3], [op |-> "goto", to |-> 1], Return(3)>>

AllPrograms == {<<f, Second>> : f \in First}

MCPrograms == AllPrograms

=============================================================================
