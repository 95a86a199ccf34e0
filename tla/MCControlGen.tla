---------------------------- MODULE MCControlGen ----------------------------
(***************************************************************************)
(* Bodies with statements nested three deep under small conditions, and a  *)
(* loop and an if under every condition of up to three operands of ||,     *)
(* each of up to three operands of &&.                                     *)
(***************************************************************************)
EXTENDS ControlGen, SequencesExt

Node(t)      == <<t>>
Simple(i)    == Node([op |-> "simple", id |-> i])
Leave(i)     == Node([op |-> "return", id |-> i])
Leaf(i)      == Node([op |-> "leaf", id |-> i])

\* A tree after n nodes of others, and a node with its parts before it.
Moved(t, n) ==
    [i \in DOMAIN t |->
        [f \in DOMAIN t[i] |-> IF f \in {"op", "id"} THEN t[i][f] ELSE t[i][f] + n]]
Together(s, t) == s \o Moved(t, Len(s))

Items(s, t) ==
    LET parts == Together(s, t)
    IN  Append(parts, [op |-> "items", front |-> Len(s), item |-> Len(parts)])
Block(items) == FoldLeft(Items, Node([op |-> "empty"]), items)
If(c, s, t) ==
    LET test == Together(c, s)
        parts == Together(test, t)
    IN  Append(parts, [op |-> "if", cond |-> Len(c), then |-> Len(test), else |-> Len(parts)])
While(c, s) ==
    LET parts == Together(c, s)
    IN  Append(parts, [op |-> "while", cond |-> Len(c), body |-> Len(parts)])
Binary(op, c, d) ==
    LET parts == Together(c, d)
    IN  Append(parts, [op |-> op, lhs |-> Len(c), rhs |-> Len(parts)])
And(c, d)    == Binary("land", c, d)
Or(c, d)     == Binary("lor", c, d)

\* Ids are p, p + 1, ... so that those of different parts differ.  The
\* operators associate to the left, as in the grammar (c_parser.y:227-234).
Conjuncts(p) ==
    {Leaf(p), And(Leaf(p), Leaf(p + 1)), And(And(Leaf(p), Leaf(p + 1)), Leaf(p + 2))}
EveryCondition ==
    LET two == {Or(c, d) : c \in Conjuncts(1), d \in Conjuncts(4)}
    IN  Conjuncts(1) \cup two \cup {Or(c, d) : c \in two, d \in Conjuncts(7)}
SmallConditions(p) ==
    {Leaf(p), And(Leaf(p), Leaf(p + 1)), Or(Leaf(p), Leaf(p + 1))}

None  == Node([op |-> "none"])
Jumps == {Node([op |-> "break"]), Node([op |-> "continue"])}

\* Statements that may stand where a loop is around them, by depth.
Statements0(p) == {Simple(p), Leave(p), Block(<< >>)} \cup Jumps

Elses(p) == {None} \cup Statements0(p)

Compound(conditions, inner, elses) ==
    {If(c, s, t) : c \in conditions, s \in inner, t \in elses}
        \cup {While(c, s) : c \in conditions, s \in inner}

Statements1(p) ==
    Statements0(p) \cup Compound(SmallConditions(p), Statements0(p + 2), Elses(p + 3))

\* A nested statement first, last, or on one side of an if, in a loop.
InLoop(s) ==
    {Block(<<Simple(30), s>>)} \cup {Block(<<s, t>>) : t \in {Simple(30)} \cup Jumps}
        \cup {If(c, s, t) : c \in SmallConditions(2), t \in Elses(30)}
        \cup {If(Leaf(2), t, s) : t \in Statements0(30)}

Nested ==
    {Block(<<While(c, b), Simple(31)>>) :
        c \in {Leaf(1), Or(Leaf(0), Leaf(1))}, b \in UNION {InLoop(s) : s \in Statements1(10)}}

UnderEveryCondition ==
    Compound(EveryCondition, {Simple(20), Leave(20)}, {None, Simple(21)})

MCBodies ==
    {Block(<< >>), Block(<<Simple(1)>>), Block(<<Leave(1)>>)}
        \cup {Block(<<s>>) : s \in UnderEveryCondition}
        \cup {Block(<<s, Simple(22)>>) : s \in UnderEveryCondition}
        \cup Nested

=============================================================================
