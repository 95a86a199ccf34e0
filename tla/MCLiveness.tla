----------------------------- MODULE MCLiveness -----------------------------
(***************************************************************************)
(* Every function of four reachable statements: each one falls through,    *)
(* jumps, branches or returns, and leaves x alone, reads it or defines it  *)
(* (a statement that does both has the equations of one that reads).       *)
(* Statement 1 also has an unreachable predecessor, numbered far from the  *)
(* others.                                                                 *)
(***************************************************************************)
EXTENDS Liveness, TLC

CONSTANT x

MCNumStmts == 4
MCVar == {x}
DeadStmt == 10
MCDead == {DeadStmt}
MCStmt == 0 .. MCNumStmts - 1

FallThrough(n) == IF n + 1 < MCNumStmts THEN {n + 1} ELSE {}

Succs(n) ==
    {{}, FallThrough(n)} \cup UNION {{{m}, {m} \cup FallThrough(n)} : m \in MCStmt \ {n}}

Reached(succs) ==
    LET step(S) == S \cup UNION {succs[n] : n \in S}
    IN  step(step(step({0})))

Shapes ==
    LET all == {0 :> a @@ 1 :> b @@ 2 :> c @@ 3 :> d :
                    a \in Succs(0), b \in Succs(1), c \in Succs(2), d \in Succs(3)}
    IN  {s \in all : Reached(s) = MCStmt}

PredsOf(s, n) ==
    SelectSeq(<<0, 1, 2, 3>>, LAMBDA m : n \in s[m]) \o (IF n = 1 THEN <<DeadStmt>> ELSE << >>)

WithDead(f, d) == f @@ DeadStmt :> d

AllGraphs ==
    {[succs |-> WithDead(s, {}),
      preds |-> WithDead([n \in MCStmt |-> PredsOf(s, n)], << >>),
      def   |-> WithDead([n \in MCStmt |-> IF k[n] = "def" THEN {x} ELSE {}], {}),
      use   |-> WithDead([n \in MCStmt |-> IF k[n] = "use" THEN {x} ELSE {}], {})] :
        s \in Shapes, k \in [MCStmt -> {"none", "def", "use"}]}

MCGraphs == AllGraphs

=============================================================================
