------------------------------ MODULE SysYFlow ------------------------------
(***************************************************************************)
(* How control goes through the body of a SysY function, as the language   *)
(* defines it: the reference for the code that ControlGen generates.       *)
(*                                                                         *)
(* A body is the tree that the parser builds, a sequence of nodes that     *)
(* refer to their parts, which are built before them, by position:         *)
(*   simple and return   [op, id];  break, continue   [op];                *)
(*   blocks              [op |-> "empty"], and with one more item          *)
(*                       [op |-> "items", front, item];                    *)
(*   loops               [op |-> "while", cond, body];                     *)
(*   choices             [op |-> "if", cond, then, else];                  *)
(*   no else             [op |-> "none"];                                  *)
(*   conditions          [op |-> "leaf", id], an expression, and           *)
(*                       [op |-> "land" or "lor", lhs, rhs].               *)
(* What remains to be done is a sequence of nodes, of values of conditions *)
(* with what depends on them, and of marks that end the body of a loop.    *)
(***************************************************************************)
EXTENDS Naturals, Sequences

Conditions(tree) == {i \in DOMAIN tree : tree[i].op \in {"leaf", "land", "lor"}}
Statements(tree) == DOMAIN tree \ Conditions(tree)

IsNode(tree, i) ==
    LET conditions == {j \in Conditions(tree) : j < i}
        statements == {j \in Statements(tree) : j < i}
    IN  \/ tree[i] \in [op : {"leaf", "simple", "return"}, id : Nat]
        \/ tree[i] \in [op : {"empty", "none", "break", "continue"}]
        \/ tree[i] \in [op : {"land", "lor"}, lhs : conditions, rhs : conditions]
        \/ tree[i] \in [op : {"items"}, front : statements, item : statements]
        \/ tree[i] \in [op : {"if"}, cond : conditions, then : statements, else : statements]
        \/ tree[i] \in [op : {"while"}, cond : conditions, body : statements]

\* Whether a statement has a break or a continue that leaves it.
JumpsOut(tree) ==
    LET out[i \in Statements(tree)] ==
            LET s == tree[i]
            IN  \/ s.op \in {"break", "continue"}
                \/ s.op = "items" /\ (out[s.front] \/ out[s.item])
                \/ s.op = "if" /\ (out[s.then] \/ out[s.else])
    IN  out

Root(tree) == tree[Len(tree)]

\* The body of a function is a block, with jumps in its loops only.
IsBody(tree) ==
    /\ tree \in Seq({tree[i] : i \in DOMAIN tree})
    /\ tree # << >>
    /\ \A i \in DOMAIN tree : IsNode(tree, i)
    /\ Root(tree).op \in {"empty", "items"}
    /\ ~JumpsOut(tree)[Len(tree)]

\* A statement or a condition the first part of which is being evaluated.
Pending(t) == [op |-> "pending", of |-> t]
Value(b) == [op |-> "value", is |-> b]
Again(loop) == [op |-> "again", loop |-> loop]

\* What is to be done for a pending t, b being the value of its part.
Chosen(tree, t, b) ==
    CASE t.op = "if"    -> <<tree[IF b THEN t.then ELSE t.else]>>
      [] t.op = "while" -> IF b THEN <<tree[t.body], Again(t)>> ELSE << >>
      [] t.op = "land"  -> <<IF b THEN tree[t.rhs] ELSE Value(b)>>
      [] t.op = "lor"   -> <<IF b THEN Value(b) ELSE tree[t.rhs]>>

\* One rewriting of a head that does nothing by itself.  A break or continue
\* gives up what remains until the end of the innermost loop.
Rewritten(tree, todo) ==
    LET t == Head(todo)
        rest == Tail(todo)
    IN  CASE t.op \in {"empty", "none"} -> rest
          [] t.op = "items"          -> <<tree[t.front], tree[t.item]>> \o rest
          [] t.op \in {"if", "while"} -> <<tree[t.cond], Pending(t)>> \o rest
          [] t.op \in {"land", "lor"} -> <<tree[t.lhs], Pending(t)>> \o rest
          [] t.op = "value"          -> Chosen(tree, Head(rest).of, t.is) \o Tail(rest)
          [] t.op = "again"          -> <<t.loop>> \o rest
          [] t.op = "break"          ->
                IF Head(rest).op = "again" THEN Tail(rest) ELSE <<t>> \o Tail(rest)
          [] t.op = "continue"       ->
                IF Head(rest).op = "again" THEN rest ELSE <<t>> \o Tail(rest)

\* The head is a statement that does something, or a leaf.
Settled(todo) == Head(todo).op \in {"simple", "return", "leaf"}

\* What a settled function does next.
Observation(todo) == Head(todo)

\* What remains after it; b is the value of the leaf.
After(todo, b) == (IF Head(todo).op = "leaf" THEN <<Value(b)>> ELSE << >>) \o Tail(todo)

\* At the end of its body a function returns.
EndOfBody == [op |-> "return", id |-> 0]

=============================================================================
