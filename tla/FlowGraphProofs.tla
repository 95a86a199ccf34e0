-------------------------- MODULE FlowGraphProofs ---------------------------
(***************************************************************************)
(* Proofs about FlowGraph, for programs of any number of functions of any  *)
(* length.                                                                 *)
(***************************************************************************)
EXTENDS FlowGraph, NaturalLemmas, FiniteSetTheorems, SequenceTheorems

\* What the assumption says of the program that is compiled.
LEMMA ProgramFacts ==
    ASSUME program \in Programs
    PROVE  /\ Func = 1 .. Len(program) /\ Len(program) \in Nat \ {0}
           /\ \A f \in Func :
                /\ \E n \in Nat \ {0} : Stmts(f) = 1 .. n /\ Op(f, n) = "ret"
                /\ \A s \in Stmts(f) :
                    /\ Op(f, s) \in {"goto", "if", "ret", "other"} /\ Target(f, s) \in Stmts(f)
                    /\ Op(f, s) \in {"goto", "if"} => Target(f, s) # s
                    /\ Follows(f, s) = IF s + 1 \in Stmts(f) THEN <<s + 1>> ELSE << >>
<1>1. IsProgram(program)
  BY ProgramAssumption
<1>2. Func = 1 .. Len(program) /\ Len(program) \in Nat \ {0}
  BY <1>1 DEF IsProgram, Func
<1>3. ASSUME NEW f \in Func
      PROVE  /\ \E n \in Nat \ {0} : Stmts(f) = 1 .. n /\ Op(f, n) = "ret"
             /\ \A s \in Stmts(f) :
                    /\ Op(f, s) \in {"goto", "if", "ret", "other"} /\ Target(f, s) \in Stmts(f)
                    /\ Op(f, s) \in {"goto", "if"} => Target(f, s) # s
  <2>1. IsFunction(program[f])
    BY <1>1 DEF IsProgram, Func
  <2> DEFINE S == [op : {"goto", "if", "ret", "other"}, to : Stmts(f)]
  <2>2. program[f] \in Seq(S) /\ program[f] # << >>
    BY <2>1 DEF IsFunction, Stmts
  <2>3. Len(program[f]) \in Nat \ {0} /\ Stmts(f) = 1 .. Len(program[f])
    BY <2>2 DEF Stmts
  <2>4. \A s \in Stmts(f) : program[f][s] \in S
    <3> HIDE DEF S
    <3> QED BY <2>2, <2>3, ElementOfSeq
  <2>5. /\ program[f][Len(program[f])].op = "ret"
        /\ \A s \in Stmts(f) : program[f][s].op \in {"goto", "if"} => program[f][s].to # s
    BY <2>1 DEF IsFunction, Stmts
  <2> QED BY <2>3, <2>4, <2>5 DEF Op, Target
<1> QED BY <1>2, <1>3 DEF Follows

-----------------------------------------------------------------------------
\* The entries and exits of f are as the first two traversals leave them.
EntriesMade(f) == entries[f] = {1} \cup JumpTargets(f) \cup AfterIfs(f)

ExitsMade(f) ==
    exits[f] = {s \in Stmts(f) : Op(f, s) # "other" \/ ToSet(Follows(f, s)) \subseteq entries[f]}

\* The sequences of at most two elements that the model uses.
LEMMA NoElement ==
    ASSUME NEW S
    PROVE  << >> \in Seq(S) /\ DOMAIN << >> = {} /\ ToSet(<< >>) = {}
BY DEF ToSet

LEMMA OneElement ==
    ASSUME NEW S, NEW x \in S, NEW q, q = <<x>>
    PROVE  q \in Seq(S) /\ DOMAIN q = {1} /\ q[1] = x /\ ToSet(q) = {x} /\ q \o << >> = q
BY DEF ToSet

LEMMA TwoElements ==
    ASSUME NEW S, NEW x \in S, NEW y \in S
    PROVE  <<x>> \o <<y>> = <<x, y>> /\ <<x, y>> \in Seq(S)
<1> DEFINE a == <<x>> b == <<y>> c == <<x, y>>
<1>1. a \in Seq(S) /\ Len(a) = 1 /\ a[1] = x
  OBVIOUS
<1>2. b \in Seq(S) /\ Len(b) = 1 /\ b[1] = y
  OBVIOUS
<1>3. c \in Seq(S) /\ Len(c) = 2 /\ c[1] = x /\ c[2] = y
  OBVIOUS
<1> HIDE DEF a, b, c
<1>4. a \o b \in Seq(S) /\ Len(a \o b) = 2 /\ (a \o b)[1] = x /\ (a \o b)[2] = y
  BY <1>1, <1>2, ConcatProperties
<1>5. a \o b = c
  BY <1>3, <1>4, SeqEqual
<1> QED BY <1>3, <1>5 DEF a, b, c

\* What follows a statement, if there is something that does.
LEMMA FollowsFacts ==
    ASSUME program \in Programs, NEW f \in Func, NEW s \in Stmts(f)
    PROVE  ToSet(Follows(f, s)) = {s + 1} \cap Stmts(f)
<1>1. CASE s + 1 \in Stmts(f)
  <2>1. Follows(f, s) = <<s + 1>>
    BY <1>1 DEF Follows
  <2> QED BY <1>1, <2>1, OneElement
<1>2. CASE s + 1 \notin Stmts(f)
  BY <1>2, NoElement DEF Follows
<1> QED BY <1>1, <1>2

LEMMA EntryFacts ==
    ASSUME program \in Programs, NEW f \in Func, EntriesMade(f)
    PROVE  /\ entries[f] \subseteq Stmts(f) /\ 1 \in entries[f]
           /\ \A s \in Stmts(f) : Op(f, s) \in {"goto", "if"} => Target(f, s) \in entries[f]
           /\ \A s \in Stmts(f) : Op(f, s) = "if" => ToSet(Follows(f, s)) \subseteq entries[f]
<1>1. JumpTargets(f) \subseteq Stmts(f) /\ AfterIfs(f) \subseteq Stmts(f) /\ 1 \in Stmts(f)
  BY ProgramFacts, FollowsFacts DEF JumpTargets, AfterIfs
<1>2. \A s \in Stmts(f) : Op(f, s) \in {"goto", "if"} => Target(f, s) \in JumpTargets(f)
  BY DEF JumpTargets
<1>3. \A s \in Stmts(f) : Op(f, s) = "if" => ToSet(Follows(f, s)) \subseteq AfterIfs(f)
  BY DEF AfterIfs
<1> QED BY <1>1, <1>2, <1>3 DEF EntriesMade

\* A block ends at its first exit: before it there are only statements that
\* lead to the next one, which is no entry.
LEMMA ExitFacts ==
    ASSUME program \in Programs, NEW f \in Func, EntriesMade(f), ExitsMade(f),
           NEW b \in Stmts(f)
    PROVE  /\ ExitOf(f, b) \in Stmts(f) /\ ExitOf(f, b) \in exits[f] /\ b <= ExitOf(f, b)
           /\ \A s \in Stmts(f) : b <= s /\ s < ExitOf(f, b) =>
                Op(f, s) = "other" /\ s + 1 \in Stmts(f) /\ s + 1 \notin entries[f]
<1>1. PICK n \in Nat \ {0} : Stmts(f) = 1 .. n /\ Op(f, n) = "ret"
  BY ProgramFacts
<1> DEFINE T == {s \in exits[f] : s >= b}
<1>2. T \subseteq Nat /\ n \in T /\ T \subseteq Stmts(f)
  BY <1>1 DEF ExitsMade
<1>3. \E x \in T : \A y \in T : x <= y
  BY <1>2, LeastNatural
<1>4. ExitOf(f, b) \in T /\ \A y \in T : ExitOf(f, b) <= y
  BY <1>3 DEF ExitOf, Min
<1>5. ASSUME NEW s \in Stmts(f), b <= s, s < ExitOf(f, b)
      PROVE  Op(f, s) = "other" /\ s + 1 \in Stmts(f) /\ s + 1 \notin entries[f]
  <2>1. s \notin exits[f]
    BY <1>1, <1>2, <1>4, <1>5
  <2>2. Op(f, s) = "other" /\ ~ ToSet(Follows(f, s)) \subseteq entries[f]
    BY <2>1 DEF ExitsMade
  <2>3. s + 1 \in Stmts(f)
    BY <1>1, <1>2, <1>4, <1>5
  <2> QED BY <2>2, <2>3, FollowsFacts
<1> QED BY <1>2, <1>4, <1>5

\* A block ends before the next entry.
LEMMA EndsBeforeNext ==
    ASSUME program \in Programs, NEW f \in Func, EntriesMade(f), ExitsMade(f),
           NEW b \in entries[f], NEW c \in entries[f], b < c
    PROVE  ExitOf(f, b) < c
<1> SUFFICES ASSUME c <= ExitOf(f, b) PROVE FALSE
  BY ProgramFacts, EntryFacts, ExitFacts
<1>1. PICK n \in Nat \ {0} : Stmts(f) = 1 .. n
  BY ProgramFacts
<1>2. c - 1 \in Stmts(f) /\ b <= c - 1 /\ c - 1 < ExitOf(f, b) /\ b \in Stmts(f)
  BY <1>1, EntryFacts, ExitFacts
<1>3. (c - 1) + 1 \notin entries[f]
  BY <1>2, ExitFacts
<1> QED BY <1>1, <1>3, EntryFacts

\* Blocks that start at different entries have no statement in common.
LEMMA BlocksApart ==
    ASSUME program \in Programs, NEW f \in Func, EntriesMade(f), ExitsMade(f),
           NEW b \in entries[f], NEW c \in entries[f], NEW s \in Stmts(f),
           b <= s, s <= ExitOf(f, b), c <= s, s <= ExitOf(f, c)
    PROVE  b = c
<1>1. \A d, e \in entries[f] : d < e => ExitOf(f, d) < e
  BY EndsBeforeNext
<1>2. b \in Nat /\ c \in Nat /\ s \in Nat /\ ExitOf(f, b) \in Nat /\ ExitOf(f, c) \in Nat
  BY ProgramFacts, EntryFacts, ExitFacts
<1> QED BY <1>1, <1>2

\* The successors of a block are what its last statement leads to.
LEMMA SuccFacts ==
    ASSUME program \in Programs, NEW f \in Func, EntriesMade(f), ExitsMade(f),
           NEW b \in entries[f]
    PROVE  /\ SuccBlocks(f, b) \in Seq(entries[f])
           /\ DOMAIN SuccBlocks(f, b) \subseteq {1, 2}
           /\ ToSet(SuccBlocks(f, b)) = Flow(f, ExitOf(f, b))
           /\ Op(f, ExitOf(f, b)) \in {"goto", "if"} =>
                1 \in DOMAIN SuccBlocks(f, b) /\ SuccBlocks(f, b)[1] = Target(f, ExitOf(f, b))
<1> SUFFICES ASSUME NEW s, s = ExitOf(f, b), NEW q, q = SuccBlocks(f, b)
             PROVE  /\ q \in Seq(entries[f]) /\ DOMAIN q \subseteq {1, 2}
                    /\ ToSet(q) = Flow(f, s)
                    /\ Op(f, s) \in {"goto", "if"} => 1 \in DOMAIN q /\ q[1] = Target(f, s)
  OBVIOUS
<1>1. b \in Stmts(f) /\ s \in Stmts(f) /\ s \in exits[f]
  BY EntryFacts, ExitFacts
<1>2. Op(f, s) \in {"goto", "if"} => Target(f, s) \in entries[f]
  BY <1>1, EntryFacts
<1>3. Op(f, s) \in {"if", "other"} => ToSet(Follows(f, s)) \subseteq entries[f]
  BY <1>1, EntryFacts DEF ExitsMade
<1>4. CASE Op(f, s) = "goto"
  <2>1. q = <<Target(f, s)>> /\ Flow(f, s) = {Target(f, s)}
    BY <1>4 DEF SuccBlocks, Flow
  <2>2. Target(f, s) \in entries[f]
    BY <1>2, <1>4
  <2>3. q \in Seq(entries[f]) /\ DOMAIN q = {1} /\ q[1] = Target(f, s) /\ ToSet(q) = {Target(f, s)}
    BY <2>1, <2>2, OneElement
  <2> QED BY <2>1, <2>3
<1>5. CASE Op(f, s) = "if" /\ s + 1 \in Stmts(f)
  <2> SUFFICES ASSUME NEW t, t = s + 1
               PROVE  /\ q \in Seq(entries[f]) /\ DOMAIN q \subseteq {1, 2}
                      /\ ToSet(q) = Flow(f, s)
                      /\ Op(f, s) \in {"goto", "if"} => 1 \in DOMAIN q /\ q[1] = Target(f, s)
    OBVIOUS
  <2>1. q = <<Target(f, s)>> \o <<t>>
    BY <1>5 DEF SuccBlocks, Follows
  <2>2. Flow(f, s) = {Target(f, s), t}
    BY <1>1, <1>5, FollowsFacts DEF Flow
  <2>3. Target(f, s) \in entries[f] /\ t \in entries[f]
    BY <1>1, <1>2, <1>3, <1>5, FollowsFacts
  <2>4. /\ q \in Seq(entries[f]) /\ DOMAIN q = {1, 2} /\ q[1] = Target(f, s)
        /\ ToSet(q) = {Target(f, s), t}
    <3>1. /\ <<Target(f, s)>> \o <<t>> = <<Target(f, s), t>>
          /\ <<Target(f, s), t>> \in Seq(entries[f])
      BY <2>3, TwoElements, Zenon
    <3>2. q = <<Target(f, s), t>>
      BY <2>1, <3>1
    <3>3. q \in Seq(entries[f])
      BY <3>1, <3>2, Zenon
    <3>4. DOMAIN q = {1, 2} /\ q[1] = Target(f, s) /\ q[2] = t
      BY <3>2
    <3>5. ToSet(q) = {q[1], q[2]}
      BY <3>4 DEF ToSet
    <3> QED BY <3>3, <3>4, <3>5
  <2> QED BY <2>2, <2>4
<1>6. CASE Op(f, s) = "if" /\ s + 1 \notin Stmts(f)
  <2>1. q = <<Target(f, s)>> \o << >>
    BY <1>6 DEF SuccBlocks, Follows
  <2>2. Flow(f, s) = {Target(f, s)}
    BY <1>1, <1>6, FollowsFacts DEF Flow
  <2>3. Target(f, s) \in entries[f]
    BY <1>2, <1>6
  <2>4. q = <<Target(f, s)>>
    BY <2>1, <2>3, OneElement
  <2>5. q \in Seq(entries[f]) /\ DOMAIN q = {1} /\ q[1] = Target(f, s) /\ ToSet(q) = {Target(f, s)}
    BY <2>3, <2>4, OneElement
  <2> QED BY <2>2, <2>5
<1>7. CASE Op(f, s) = "ret"
  <2>1. q = << >> /\ Flow(f, s) = {}
    BY <1>7 DEF SuccBlocks, Flow
  <2> QED BY <1>7, <2>1, NoElement
<1>8. CASE Op(f, s) = "other" /\ s + 1 \in Stmts(f)
  <2>1. q = <<s + 1>>
    BY <1>8 DEF SuccBlocks, Follows
  <2>2. Flow(f, s) = {s + 1}
    BY <1>1, <1>8, FollowsFacts DEF Flow
  <2>3. s + 1 \in entries[f]
    BY <1>1, <1>3, <1>8, FollowsFacts
  <2>4. q \in Seq(entries[f]) /\ DOMAIN q = {1} /\ ToSet(q) = {s + 1}
    BY <2>1, <2>3, OneElement
  <2> QED BY <1>8, <2>2, <2>4
<1>9. CASE Op(f, s) = "other" /\ s + 1 \notin Stmts(f)
  <2>1. q = << >>
    BY <1>9 DEF SuccBlocks, Follows
  <2>2. Flow(f, s) = {}
    BY <1>1, <1>9, FollowsFacts DEF Flow
  <2> QED BY <1>9, <2>1, <2>2, NoElement
<1> QED BY <1>1, <1>4, <1>5, <1>6, <1>7, <1>8, <1>9, ProgramFacts

-----------------------------------------------------------------------------
\* How far the loops have come with f.
InGraphLoop == pass \in {"mark", "exits", "blocks", "visit"}
Marked(f) == InGraphLoop => f < func \/ (f = func /\ pass # "mark")
HasExits(f) == InGraphLoop => f < func \/ (f = func /\ pass \in {"blocks", "visit"})
HasBlocks(f) == InGraphLoop => f < func \/ (f = func /\ pass = "visit")
Trimmed(f) == InGraphLoop => f < func
Relabelled(f) == ~InGraphLoop /\ (pass = "label" => f < func)
Linked(f) == pass \in {"order", "done"} \/ (pass = "link" /\ f < func)
Ordered(f) == pass = "done" \/ (pass = "order" /\ f < func)

\* Where the loops are, and over what the variables are functions.
LoopsRight ==
    /\ program \in Programs /\ func \in Func
    /\ pass \in {"mark", "exits", "blocks", "visit", "label", "link", "order", "done"}
    /\ DOMAIN entries = Func /\ DOMAIN exits = Func /\ DOMAIN blocks = Func
    /\ DOMAIN succs = Func /\ DOMAIN preds = Func /\ DOMAIN visited = Func
    /\ DOMAIN labels = Func /\ DOMAIN where = Func /\ DOMAIN order = Func
    /\ DOMAIN stmtSuccs = Func /\ DOMAIN stmtPreds = Func

\* The first two traversals determine is_entry_ and is_exit_.
MarksRight(f) ==
    /\ IF Marked(f) THEN EntriesMade(f) ELSE entries[f] = {} /\ exits[f] = {}
    /\ HasExits(f) => ExitsMade(f)
    /\ Marked(f) /\ ~HasExits(f) => exits[f] = {s \in Stmts(f) : Op(f, s) # "other"}

SuccsMade(f) ==
    succs[f] = [b \in Stmts(f) |-> IF b \in entries[f] THEN SuccBlocks(f, b) ELSE << >>]

PredsMade(f) == preds[f] = [t \in Stmts(f) |-> PredBlocks(f, t)]

\* The next two determine the blocks and the edges between them.
BlocksRight(f) ==
    /\ HasBlocks(f) => SuccsMade(f) /\ PredsMade(f)
    /\ HasBlocks(f) /\ ~Trimmed(f) => blocks[f] = entries[f]
    /\ ~HasBlocks(f) =>
        /\ succs[f] = [s \in Stmts(f) |-> << >>] /\ preds[f] = [s \in Stmts(f) |-> {}]
        /\ blocks[f] = {} /\ visited[f] = {}

\* S has the first block and, with a block, those that it leads to.
ClosedBlocks(f, S) == 1 \in S /\ \A b \in S : b \in entries[f] => ToSet(succs[f][b]) \subseteq S

\* The search has visited blocks that control can reach; at the end, all.
VisitsRight(f) ==
    /\ visited[f] \subseteq entries[f]
    /\ \A S \in SUBSET Stmts(f) : HasBlocks(f) /\ ClosedBlocks(f, S) => visited[f] \subseteq S
    /\ Trimmed(f) => Reachable(f) \subseteq visited[f] /\ blocks[f] = visited[f]

\* A jump of a block names the label its target has.
JumpRight(f, s) ==
    IF Op(f, s) \in {"goto", "if"} /\ IsBlockExit(f, s)
      THEN labels[f][Target(f, s)] # NoLabel /\ where[f][s] = labels[f][Target(f, s)]
      ELSE where[f][s] = NoLabel

LabelsRight(f) ==
    /\ DOMAIN labels[f] = Stmts(f) /\ DOMAIN where[f] = Stmts(f)
    /\ \A s \in Stmts(f) :
        /\ labels[f][s] = NoLabel \/ (s \in blocks[f] /\ labels[f][s] \in 0 .. total - 1)
        /\ Relabelled(f) => JumpRight(f, s)
        /\ ~Relabelled(f) => labels[f][s] = NoLabel /\ where[f][s] = NoLabel

\* No label is given to two statements of the program.
LabelsUnique ==
    \A f, g \in Func : \A s \in Stmts(f), t \in Stmts(g) :
        labels[f][s] = labels[g][t] => labels[f][s] = NoLabel \/ (f = g /\ s = t)

LinksRight(f) ==
    \A s \in Stmts(f) :
        /\ stmtSuccs[f][s] = IF Linked(f) THEN SuccStmts(f, s) ELSE {}
        /\ stmtPreds[f][s] = IF Linked(f) THEN PredStmts(f, s) ELSE {}

\* The loop over blocks_ has come to some first blocks and has all of their
\* statements, in order.
OrderRight(f) ==
    LET o == order[f]
        done == blocks[f] \cap ToSet(o)
    IN  /\ o \in Seq(Stmts(f))
        /\ \A i, j \in DOMAIN o : i < j => o[i] < o[j]
        /\ ToSet(o) = UNION {b .. ExitOf(f, b) : b \in done}
        /\ \A b \in done, c \in blocks[f] \ done : b < c
        /\ Ordered(f) => blocks[f] \subseteq ToSet(o)
        /\ ~Ordered(f) => o = << >> \/ (pass = "order" /\ f = func)

IInv ==
    /\ LoopsRight
    /\ \A f \in Func : MarksRight(f) /\ BlocksRight(f) /\ VisitsRight(f)
    /\ total \in Nat
    /\ \A f \in Func : LabelsRight(f)
    /\ LabelsUnique
    /\ \A f \in Func : LinksRight(f) /\ OrderRight(f)


-----------------------------------------------------------------------------
\* Each part is about variables at f, and about how far f has come.
LEMMA MarksFrame ==
    ASSUME NEW f, program' = program, entries'[f] = entries[f], exits'[f] = exits[f],
           Marked(f)' <=> Marked(f), HasExits(f)' <=> HasExits(f), MarksRight(f)
    PROVE  MarksRight(f)'
BY DEF MarksRight, EntriesMade, ExitsMade, JumpTargets, AfterIfs, Follows, Stmts, Op, Target

LEMMA SameBlocks ==
    ASSUME NEW f, program' = program, exits'[f] = exits[f]
    PROVE  \A b : /\ ExitOf(f, b)' = ExitOf(f, b)
                  /\ SuccBlocks(f, b)' = SuccBlocks(f, b)
                  /\ Flow(f, b)' = Flow(f, b)
BY DEF ExitOf, SuccBlocks, Flow, Op, Target, Follows, Stmts

LEMMA BlocksFrame ==
    ASSUME NEW f, program' = program, entries'[f] = entries[f], exits'[f] = exits[f],
           succs'[f] = succs[f], preds'[f] = preds[f], blocks'[f] = blocks[f],
           visited'[f] = visited[f],
           HasBlocks(f)' <=> HasBlocks(f), Trimmed(f)' <=> Trimmed(f), BlocksRight(f)
    PROVE  BlocksRight(f)'
<1>1. Stmts(f)' = Stmts(f)
  BY DEF Stmts
<1>2. SuccsMade(f)' <=> SuccsMade(f)
  BY <1>1, SameBlocks DEF SuccsMade
<1>3. PredsMade(f)' <=> PredsMade(f)
  <2>1. \A t : PredBlocks(f, t)' = PredBlocks(f, t)
    BY SameBlocks DEF PredBlocks
  <2> QED BY <1>1, <2>1 DEF PredsMade
<1> QED BY <1>1, <1>2, <1>3 DEF BlocksRight

LEMMA VisitsFrame ==
    ASSUME NEW f, program' = program, entries'[f] = entries[f], succs'[f] = succs[f],
           blocks'[f] = blocks[f], visited'[f] = visited[f],
           HasBlocks(f)' <=> HasBlocks(f), Trimmed(f)' <=> Trimmed(f), VisitsRight(f)
    PROVE  VisitsRight(f)'
BY DEF VisitsRight, ClosedBlocks, Reachable, Stmts

LEMMA LabelsFrame ==
    ASSUME NEW f, program' = program, labels'[f] = labels[f], where'[f] = where[f],
           total \in Nat, total' \in Nat, total <= total', Relabelled(f)' <=> Relabelled(f),
           Relabelled(f) => blocks'[f] = blocks[f] /\ exits'[f] = exits[f], LabelsRight(f)
    PROVE  LabelsRight(f)'
<1>1. Stmts(f)' = Stmts(f) /\ \A s : Op(f, s)' = Op(f, s) /\ Target(f, s)' = Target(f, s)
  BY DEF Stmts, Op, Target
<1>2. CASE Relabelled(f)
  <2>1. \A s : IsBlockExit(f, s)' <=> IsBlockExit(f, s)
    BY <1>2, SameBlocks DEF IsBlockExit
  <2>2. \A s : JumpRight(f, s)' <=> JumpRight(f, s)
    BY <1>1, <2>1 DEF JumpRight
  <2> QED BY <1>1, <1>2, <2>2 DEF LabelsRight
<1>3. CASE ~Relabelled(f)
  BY <1>1, <1>3 DEF LabelsRight
<1> QED BY <1>2, <1>3

LEMMA UniqueFrame ==
    ASSUME program' = program, labels' = labels, LabelsUnique
    PROVE  LabelsUnique'
BY DEF LabelsUnique, Func, Stmts

LEMMA LinksFrame ==
    ASSUME NEW f, program' = program, stmtSuccs'[f] = stmtSuccs[f], stmtPreds'[f] = stmtPreds[f],
           Linked(f)' <=> Linked(f),
           Linked(f) => /\ blocks'[f] = blocks[f] /\ exits'[f] = exits[f]
                        /\ succs'[f] = succs[f] /\ preds'[f] = preds[f],
           LinksRight(f)
    PROVE  LinksRight(f)'
<1>1. Stmts(f)' = Stmts(f)
  BY DEF Stmts
<1>2. CASE Linked(f)
  <2>1. \A s, t : WithinBlock(f, s, t)' <=> WithinBlock(f, s, t)
    BY <1>2, SameBlocks DEF WithinBlock
  <2>2. \A s : SuccStmts(f, s)' = SuccStmts(f, s)
    BY <1>1, <1>2, <2>1, SameBlocks DEF SuccStmts
  <2>3. \A s : PredStmts(f, s)' = PredStmts(f, s)
    BY <1>1, <1>2, <2>1, SameBlocks DEF PredStmts
  <2> QED BY <1>1, <1>2, <2>2, <2>3 DEF LinksRight
<1>3. CASE ~Linked(f)
  BY <1>1, <1>3 DEF LinksRight
<1> QED BY <1>2, <1>3

LEMMA OrderFrame ==
    ASSUME NEW f, program' = program, order'[f] = order[f],
           Ordered(f)' <=> Ordered(f), OrderRight(f),
           order[f] = << >> \/ (blocks'[f] = blocks[f] /\ exits'[f] = exits[f]),
           ~Ordered(f) => order[f] = << >> \/ (pass' = pass /\ func' = func),
           Ordered(f) => blocks'[f] = blocks[f]
    PROVE  OrderRight(f)'
<1>1. Stmts(f)' = Stmts(f)
  BY DEF Stmts
<1>2. CASE blocks'[f] = blocks[f] /\ exits'[f] = exits[f]
  BY <1>1, <1>2, SameBlocks DEF OrderRight
<1>3. CASE order[f] = << >>
  <2>1. ToSet(order[f]) = {} /\ DOMAIN order[f] = {} /\ order[f] \in Seq(Stmts(f))
    BY <1>3, NoElement
  <2> QED BY <1>1, <1>3, <2>1 DEF OrderRight
<1> QED BY <1>2, <1>3


-----------------------------------------------------------------------------
LEMMA TurnFacts ==
    ASSUME program \in Programs, func \in Func, program' = program,
           NEW this, NEW next, EndOfTurn(this, next)
    PROVE  /\ func' \in Func /\ func' = IF func < Len(program) THEN func + 1 ELSE 1
           /\ pass' = IF func < Len(program) THEN this ELSE next
           /\ \A f \in Func : f \in Nat /\ f >= 1 /\ f <= Len(program)
           /\ Len(program) \in Nat /\ Func' = Func
BY ProgramFacts DEF EndOfTurn, Func

\* Before any loop has begun everything is as parsed.
LEMMA InitIInv == Init => IInv
<1> SUFFICES ASSUME Init PROVE IInv
  OBVIOUS
<1>1. program \in Programs /\ pass = "mark" /\ func = 1 /\ total = 0
  BY DEF Init
<1>2. 1 \in Func
  BY <1>1, ProgramFacts
<1>3. LoopsRight
  BY <1>1, <1>2 DEF Init, LoopsRight, PerFunc, PerStmt
<1>4. ASSUME NEW f \in Func
      PROVE  MarksRight(f) /\ BlocksRight(f) /\ VisitsRight(f) /\ LabelsRight(f)
             /\ LinksRight(f) /\ OrderRight(f)
  <2>1. ~Marked(f) /\ ~HasExits(f) /\ ~HasBlocks(f) /\ ~Trimmed(f) /\ ~Relabelled(f)
        /\ ~Linked(f) /\ ~Ordered(f)
    BY <1>1, ProgramFacts DEF Marked, HasExits, HasBlocks, Trimmed, Relabelled, Linked, Ordered,
       InGraphLoop
  <2>2. /\ entries[f] = {} /\ exits[f] = {} /\ blocks[f] = {} /\ visited[f] = {}
        /\ succs[f] = [s \in Stmts(f) |-> << >>] /\ preds[f] = [s \in Stmts(f) |-> {}]
        /\ labels[f] = [s \in Stmts(f) |-> NoLabel] /\ where[f] = [s \in Stmts(f) |-> NoLabel]
        /\ stmtSuccs[f] = [s \in Stmts(f) |-> {}] /\ stmtPreds[f] = [s \in Stmts(f) |-> {}]
        /\ order[f] = << >>
    BY DEF Init, PerFunc, PerStmt
  <2>3. MarksRight(f) /\ BlocksRight(f) /\ VisitsRight(f)
    BY <2>1, <2>2 DEF MarksRight, BlocksRight, VisitsRight
  <2>4. LabelsRight(f) /\ LinksRight(f)
    BY <2>1, <2>2 DEF LabelsRight, LinksRight
  <2>5. ToSet(order[f]) = {} /\ DOMAIN order[f] = {} /\ order[f] \in Seq(Stmts(f))
    BY <2>2, NoElement
  <2>6. OrderRight(f)
    BY <2>1, <2>2, <2>5 DEF OrderRight
  <2> QED BY <2>3, <2>4, <2>6
<1>5. LabelsUnique
  BY DEF Init, LabelsUnique, PerFunc, PerStmt
<1> QED BY <1>1, <1>3, <1>4, <1>5 DEF IInv

LEMMA StutterIInv ==
    ASSUME IInv, UNCHANGED vars
    PROVE  IInv'
<1> USE DEF vars
<1>1. LoopsRight'
  BY DEF IInv, LoopsRight, Func
<1>2. ASSUME NEW f \in Func'
      PROVE  (MarksRight(f) /\ BlocksRight(f) /\ VisitsRight(f) /\ LabelsRight(f)
                /\ LinksRight(f) /\ OrderRight(f))'
  <2>1. /\ f \in Func /\ total \in Nat /\ MarksRight(f) /\ BlocksRight(f) /\ VisitsRight(f)
        /\ LabelsRight(f) /\ LinksRight(f) /\ OrderRight(f)
    BY <1>2 DEF Func, IInv
  <2>2. /\ Marked(f)' <=> Marked(f)
        /\ HasExits(f)' <=> HasExits(f)
        /\ HasBlocks(f)' <=> HasBlocks(f)
        /\ Trimmed(f)' <=> Trimmed(f)
        /\ Relabelled(f)' <=> Relabelled(f)
        /\ Linked(f)' <=> Linked(f)
        /\ Ordered(f)' <=> Ordered(f)
    BY DEF Marked, HasExits, HasBlocks, Trimmed, Relabelled, Linked, Ordered, InGraphLoop
  <2>3. MarksRight(f)' /\ BlocksRight(f)' /\ VisitsRight(f)'
    BY <2>1, <2>2, MarksFrame, BlocksFrame, VisitsFrame
  <2>4. LabelsRight(f)' /\ LinksRight(f)' /\ OrderRight(f)'
    BY <2>1, <2>2, LabelsFrame, LinksFrame, OrderFrame
  <2> QED BY <2>3, <2>4
<1>3. LabelsUnique' /\ total' \in Nat
  BY UniqueFrame DEF IInv
<1> QED BY <1>1, <1>2, <1>3 DEF IInv


\* The loop that makes the graph leaves what the later ones are for alone.
LEMMA LaterPartsKept ==
    ASSUME IInv, program' = program, UNCHANGED <<Labelling, Linking>>, InGraphLoop,
           InGraphLoop' \/ (pass' = "label" /\ func' = 1)
    PROVE  /\ total' \in Nat /\ LabelsUnique'
           /\ \A f \in Func : LabelsRight(f)' /\ LinksRight(f)' /\ OrderRight(f)'
<1> USE DEF Labelling, Linking
<1>1. total' \in Nat /\ LabelsUnique'
  BY UniqueFrame DEF IInv
<1>2. ASSUME NEW f \in Func
      PROVE  LabelsRight(f)' /\ LinksRight(f)' /\ OrderRight(f)'
  <2>1. total \in Nat /\ LabelsRight(f) /\ LinksRight(f) /\ OrderRight(f)
    BY DEF IInv
  <2>2. f \in Nat /\ f >= 1
    BY ProgramFacts DEF IInv, LoopsRight
  <2>3. /\ ~Relabelled(f) /\ ~Linked(f) /\ ~Ordered(f) /\ pass # "order"
        /\ ~Relabelled(f)' /\ ~Linked(f)' /\ ~Ordered(f)'
    BY <2>2 DEF Relabelled, Linked, Ordered, InGraphLoop
  <2>4. order[f] = << >>
    BY <2>1, <2>3 DEF OrderRight
  <2>5. LabelsRight(f)'
    BY <2>1, <2>3, LabelsFrame
  <2>6. LinksRight(f)'
    BY <2>1, <2>3, LinksFrame
  <2>7. OrderRight(f)'
    BY <2>1, <2>3, <2>4, OrderFrame
  <2> QED BY <2>5, <2>6, <2>7
<1> QED BY <1>1, <1>2

LEMMA MarkEntriesIInv ==
    ASSUME IInv, MarkEntries
    PROVE  IInv'
<1> USE DEF MarkEntries, Graph
<1>1. program \in Programs /\ Func' = Func /\ LoopsRight
  BY DEF IInv, LoopsRight, Func
<1>2. LoopsRight'
  BY <1>1 DEF LoopsRight, Labelling, Linking
<1>3. /\ total' \in Nat /\ LabelsUnique'
      /\ \A f \in Func : LabelsRight(f)' /\ LinksRight(f)' /\ OrderRight(f)'
  BY LaterPartsKept DEF InGraphLoop
<1>4. ASSUME NEW f \in Func
      PROVE  MarksRight(f)' /\ BlocksRight(f)' /\ VisitsRight(f)'
  <2>1. MarksRight(f) /\ BlocksRight(f) /\ VisitsRight(f) /\ f \in Nat /\ func \in Nat
    BY <1>1, ProgramFacts DEF IInv, LoopsRight
  <2>2. /\ Marked(f)' <=> Marked(f) \/ f = func
        /\ HasExits(f)' <=> HasExits(f)
        /\ HasBlocks(f)' <=> HasBlocks(f)
        /\ Trimmed(f)' <=> Trimmed(f)
        /\ f = func => ~Marked(f) /\ ~HasExits(f) /\ ~HasBlocks(f) /\ ~Trimmed(f)
    BY <2>1 DEF Marked, HasExits, HasBlocks, Trimmed, InGraphLoop
  <2>3. CASE f # func
    <3>1. entries'[f] = entries[f] /\ exits'[f] = exits[f]
      BY <1>1, <2>3 DEF LoopsRight
    <3> QED BY <2>1, <2>2, <2>3, <3>1, MarksFrame, BlocksFrame, VisitsFrame
  <2>4. CASE f = func
    <3>1. /\ entries'[f] = {1} \cup JumpTargets(f) \cup AfterIfs(f)
          /\ exits'[f] = {s \in Stmts(f) : Op(f, s) # "other"}
      BY <1>1, <2>4 DEF LoopsRight
    <3>2. /\ JumpTargets(f)' = JumpTargets(f) /\ AfterIfs(f)' = AfterIfs(f)
          /\ Stmts(f)' = Stmts(f) /\ \A s : Op(f, s)' = Op(f, s)
      BY DEF JumpTargets, AfterIfs, Follows, Stmts, Op, Target
    <3>3. MarksRight(f)'
      BY <2>2, <2>4, <3>1, <3>2 DEF MarksRight, EntriesMade
    <3>4. BlocksRight(f)'
      BY <2>1, <2>2, <2>4, <3>2 DEF BlocksRight
    <3>5. VisitsRight(f)'
      BY <2>1, <2>2, <2>4, <3>2 DEF VisitsRight, BlocksRight
    <3> QED BY <3>3, <3>4, <3>5
  <2> QED BY <2>3, <2>4
<1> QED BY <1>1, <1>2, <1>3, <1>4 DEF IInv

LEMMA MarkExitsIInv ==
    ASSUME IInv, MarkExits
    PROVE  IInv'
<1> USE DEF MarkExits, Graph
<1>1. program \in Programs /\ Func' = Func /\ LoopsRight
  BY DEF IInv, LoopsRight, Func
<1>2. LoopsRight'
  BY <1>1 DEF LoopsRight, Labelling, Linking
<1>3. /\ total' \in Nat /\ LabelsUnique'
      /\ \A f \in Func : LabelsRight(f)' /\ LinksRight(f)' /\ OrderRight(f)'
  BY LaterPartsKept DEF InGraphLoop
<1>4. ASSUME NEW f \in Func
      PROVE  MarksRight(f)' /\ BlocksRight(f)' /\ VisitsRight(f)'
  <2>1. MarksRight(f) /\ BlocksRight(f) /\ VisitsRight(f) /\ f \in Nat /\ func \in Nat
    BY <1>1, ProgramFacts DEF IInv, LoopsRight
  <2>2. /\ Marked(f)' <=> Marked(f)
        /\ HasExits(f)' <=> HasExits(f) \/ f = func
        /\ HasBlocks(f)' <=> HasBlocks(f)
        /\ Trimmed(f)' <=> Trimmed(f)
        /\ f = func => Marked(f) /\ ~HasExits(f) /\ ~HasBlocks(f) /\ ~Trimmed(f)
    BY <2>1 DEF Marked, HasExits, HasBlocks, Trimmed, InGraphLoop
  <2>3. CASE f # func
    <3>1. exits'[f] = exits[f]
      BY <1>1, <2>3 DEF LoopsRight
    <3> QED BY <2>1, <2>2, <2>3, <3>1, MarksFrame, BlocksFrame, VisitsFrame
  <2>4. CASE f = func
    <3>1. /\ exits'[f] = exits[f] \cup
                {s \in Stmts(f) : ToSet(Follows(f, s)) \subseteq entries[f]}
          /\ exits[f] = {s \in Stmts(f) : Op(f, s) # "other"} /\ EntriesMade(f)
      BY <1>1, <2>1, <2>2, <2>4 DEF LoopsRight, MarksRight
    <3>2. /\ JumpTargets(f)' = JumpTargets(f) /\ AfterIfs(f)' = AfterIfs(f)
          /\ Stmts(f)' = Stmts(f) /\ \A s : Op(f, s)' = Op(f, s) /\ Follows(f, s)' = Follows(f, s)
      BY DEF JumpTargets, AfterIfs, Follows, Stmts, Op, Target
    <3>3. EntriesMade(f)' /\ ExitsMade(f)'
      BY <3>1, <3>2 DEF EntriesMade, ExitsMade
    <3>4. MarksRight(f)'
      BY <2>2, <2>4, <3>3 DEF MarksRight
    <3>5. BlocksRight(f)'
      BY <2>1, <2>2, <2>4, <3>2 DEF BlocksRight
    <3>6. VisitsRight(f)'
      BY <2>1, <2>2, <2>4, <3>2, VisitsFrame
    <3> QED BY <3>4, <3>5, <3>6
  <2> QED BY <2>3, <2>4
<1> QED BY <1>1, <1>2, <1>3, <1>4 DEF IInv

LEMMA MakeBlocksIInv ==
    ASSUME IInv, MakeBlocks
    PROVE  IInv'
<1> USE DEF MakeBlocks, Graph
<1>1. program \in Programs /\ Func' = Func /\ LoopsRight
  BY DEF IInv, LoopsRight, Func
<1>2. LoopsRight'
  BY <1>1 DEF LoopsRight, Labelling, Linking
<1>3. /\ total' \in Nat /\ LabelsUnique'
      /\ \A f \in Func : LabelsRight(f)' /\ LinksRight(f)' /\ OrderRight(f)'
  BY LaterPartsKept DEF InGraphLoop
<1>4. ASSUME NEW f \in Func
      PROVE  MarksRight(f)' /\ BlocksRight(f)' /\ VisitsRight(f)'
  <2>1. MarksRight(f) /\ BlocksRight(f) /\ VisitsRight(f) /\ f \in Nat /\ func \in Nat
    BY <1>1, ProgramFacts DEF IInv, LoopsRight
  <2>2. /\ Marked(f)' <=> Marked(f)
        /\ HasExits(f)' <=> HasExits(f)
        /\ HasBlocks(f)' <=> HasBlocks(f) \/ f = func
        /\ Trimmed(f)' <=> Trimmed(f)
        /\ f = func => ~HasBlocks(f) /\ ~Trimmed(f)
    BY <2>1 DEF Marked, HasExits, HasBlocks, Trimmed, InGraphLoop
  <2>3. MarksRight(f)'
    BY <2>1, <2>2, MarksFrame
  <2>4. CASE f # func
    <3>1. blocks'[f] = blocks[f] /\ succs'[f] = succs[f] /\ preds'[f] = preds[f]
      BY <1>1, <2>4 DEF LoopsRight
    <3> QED BY <2>1, <2>2, <2>3, <2>4, <3>1, BlocksFrame, VisitsFrame
  <2>5. CASE f = func
    <3>1. /\ blocks'[f] = entries[f]
          /\ succs'[f] = [b \in Stmts(f) |-> IF b \in entries[f] THEN SuccBlocks(f, b) ELSE << >>]
          /\ preds'[f] = [t \in Stmts(f) |-> PredBlocks(f, t)]
      BY <1>1, <2>5 DEF LoopsRight
    <3>2. Stmts(f)' = Stmts(f) /\ \A b : SuccBlocks(f, b)' = SuccBlocks(f, b)
      BY SameBlocks DEF Stmts
    <3>3. \A t : PredBlocks(f, t)' = PredBlocks(f, t)
      BY <3>2 DEF PredBlocks
    <3>4. SuccsMade(f)' /\ PredsMade(f)'
      BY <3>1, <3>2, <3>3 DEF SuccsMade, PredsMade
    <3>5. BlocksRight(f)'
      BY <2>2, <2>5, <3>1, <3>4 DEF BlocksRight
    <3>6. visited[f] = {}
      BY <2>1, <2>2, <2>5 DEF BlocksRight
    <3>7. VisitsRight(f)'
      BY <2>2, <2>5, <3>6 DEF VisitsRight
    <3> QED BY <2>3, <3>5, <3>7
  <2> QED BY <2>4, <2>5
<1> QED BY <1>1, <1>2, <1>3, <1>4 DEF IInv


\* Once its blocks are made, a function's marks and edges are there.
LEMMA EdgeFacts ==
    ASSUME program \in Programs, NEW f \in Func, MarksRight(f), BlocksRight(f), HasBlocks(f)
    PROVE  /\ EntriesMade(f) /\ ExitsMade(f) /\ SuccsMade(f) /\ PredsMade(f)
           /\ entries[f] \subseteq Stmts(f)
           /\ \A b \in entries[f] :
                /\ succs[f][b] = SuccBlocks(f, b)
                /\ ToSet(succs[f][b]) = Flow(f, ExitOf(f, b))
                /\ ToSet(succs[f][b]) \subseteq entries[f]
<1>1. Marked(f) /\ HasExits(f)
  BY DEF HasBlocks, Marked, HasExits
<1>2. EntriesMade(f) /\ ExitsMade(f) /\ SuccsMade(f) /\ PredsMade(f)
  BY <1>1 DEF MarksRight, BlocksRight
<1>3. entries[f] \subseteq Stmts(f)
  BY <1>2, EntryFacts
<1>4. ASSUME NEW b \in entries[f]
      PROVE  /\ succs[f][b] = SuccBlocks(f, b)
             /\ ToSet(succs[f][b]) = Flow(f, ExitOf(f, b))
             /\ ToSet(succs[f][b]) \subseteq entries[f]
  <2>1. succs[f][b] = SuccBlocks(f, b)
    BY <1>2, <1>3 DEF SuccsMade
  <2>2. succs[f][b] \in Seq(entries[f]) /\ ToSet(succs[f][b]) = Flow(f, ExitOf(f, b))
    BY <1>2, <2>1, SuccFacts
  <2>3. ToSet(succs[f][b]) \subseteq entries[f]
    BY <2>2 DEF ToSet
  <2> QED BY <2>1, <2>2, <2>3
<1> QED BY <1>2, <1>3, <1>4

LEMMA VisitBlockIInv ==
    ASSUME IInv, NEW b \in Stmts(func), VisitBlock(b)
    PROVE  IInv'
<1> USE DEF VisitBlock
<1>1. program \in Programs /\ Func' = Func /\ LoopsRight
  BY DEF IInv, LoopsRight, Func
<1>2. LoopsRight'
  BY <1>1 DEF LoopsRight, Labelling, Linking
<1>3. /\ total' \in Nat /\ LabelsUnique'
      /\ \A f \in Func : LabelsRight(f)' /\ LinksRight(f)' /\ OrderRight(f)'
  BY LaterPartsKept DEF InGraphLoop
<1>4. ASSUME NEW f \in Func
      PROVE  MarksRight(f)' /\ BlocksRight(f)' /\ VisitsRight(f)'
  <2>1. MarksRight(f) /\ BlocksRight(f) /\ VisitsRight(f) /\ f \in Nat /\ func \in Nat
    BY <1>1, ProgramFacts DEF IInv, LoopsRight
  <2>2. /\ Marked(f)' <=> Marked(f)
        /\ HasExits(f)' <=> HasExits(f)
        /\ HasBlocks(f)' <=> HasBlocks(f)
        /\ Trimmed(f)' <=> Trimmed(f)
        /\ f = func => HasBlocks(f) /\ ~Trimmed(f)
    BY <2>1 DEF Marked, HasExits, HasBlocks, Trimmed, InGraphLoop
  <2>3. MarksRight(f)'
    BY <2>1, <2>2, MarksFrame
  <2>4. CASE f # func
    <3>1. visited'[f] = visited[f]
      BY <1>1, <2>4 DEF LoopsRight
    <3> QED BY <2>1, <2>2, <2>3, <3>1, BlocksFrame, VisitsFrame
  <2>5. CASE f = func
    <3>1. visited'[f] = visited[f] \cup {b} /\ b \in Reachable(f)
      BY <1>1, <2>5 DEF LoopsRight
    <3>2. /\ EntriesMade(f) /\ 1 \in entries[f]
          /\ \A c \in entries[f] : ToSet(succs[f][c]) \subseteq entries[f]
      BY <1>1, <2>1, <2>2, <2>5, EdgeFacts, EntryFacts
    <3>3. visited[f] \subseteq entries[f]
      BY <2>1 DEF VisitsRight
    <3>4. visited'[f] \subseteq entries'[f]
      BY <3>1, <3>2, <3>3 DEF Reachable
    <3>5. ASSUME NEW S \in SUBSET Stmts(f), ClosedBlocks(f, S)
          PROVE  visited'[f] \subseteq S
      <4>1. visited[f] \subseteq S
        BY <2>1, <2>2, <2>5, <3>5 DEF VisitsRight
      <4>2. b \in S
        BY <3>1, <3>3, <3>5, <4>1 DEF Reachable, ClosedBlocks
      <4> QED BY <3>1, <4>1, <4>2
    <3>6. Stmts(f)' = Stmts(f) /\ \A S : ClosedBlocks(f, S)' <=> ClosedBlocks(f, S)
      BY DEF Stmts, ClosedBlocks
    <3>7. VisitsRight(f)'
      BY <2>2, <2>5, <3>4, <3>5, <3>6 DEF VisitsRight
    <3>8. Stmts(f)' = Stmts(f) /\ SuccsMade(f)' /\ PredsMade(f)' /\ blocks'[f] = entries'[f]
      <4>1. SuccsMade(f) /\ PredsMade(f) /\ blocks[f] = entries[f]
        BY <2>1, <2>2, <2>5 DEF BlocksRight
      <4>2. Stmts(f)' = Stmts(f) /\ \A c : SuccBlocks(f, c)' = SuccBlocks(f, c)
        BY SameBlocks DEF Stmts
      <4>3. \A t : PredBlocks(f, t)' = PredBlocks(f, t)
        BY <4>2 DEF PredBlocks
      <4> QED BY <4>1, <4>2, <4>3 DEF SuccsMade, PredsMade
    <3>9. BlocksRight(f)'
      BY <2>2, <2>5, <3>8 DEF BlocksRight
    <3> QED BY <2>3, <3>7, <3>9
  <2> QED BY <2>4, <2>5
<1> QED BY <1>1, <1>2, <1>3, <1>4 DEF IInv

LEMMA DropDeadBlocksIInv ==
    ASSUME IInv, DropDeadBlocks
    PROVE  IInv'
<1> USE DEF DropDeadBlocks
<1>1. program \in Programs /\ func \in Func /\ Func' = Func /\ LoopsRight
  BY DEF IInv, LoopsRight, Func
<1>2. /\ func' \in Func /\ func' = IF func < Len(program) THEN func + 1 ELSE 1
      /\ pass' = IF func < Len(program) THEN "mark" ELSE "label"
      /\ Len(program) \in Nat /\ \A f \in Func : f \in Nat /\ f >= 1 /\ f <= Len(program)
  BY <1>1, TurnFacts
<1>3. LoopsRight'
  BY <1>1, <1>2 DEF LoopsRight, Labelling, Linking
<1>4. /\ total' \in Nat /\ LabelsUnique'
      /\ \A f \in Func : LabelsRight(f)' /\ LinksRight(f)' /\ OrderRight(f)'
  BY <1>2, LaterPartsKept DEF InGraphLoop
<1>5. ASSUME NEW f \in Func
      PROVE  MarksRight(f)' /\ BlocksRight(f)' /\ VisitsRight(f)'
  <2>1. MarksRight(f) /\ BlocksRight(f) /\ VisitsRight(f) /\ f \in Nat /\ func \in Nat
    BY <1>1, <1>2 DEF IInv
  <2>2. /\ Marked(f)' <=> Marked(f)
        /\ HasExits(f)' <=> HasExits(f)
        /\ HasBlocks(f)' <=> HasBlocks(f)
        /\ Trimmed(f)' <=> Trimmed(f) \/ f = func
        /\ f = func => HasBlocks(f) /\ ~Trimmed(f)
    BY <1>1, <1>2, <2>1 DEF Marked, HasExits, HasBlocks, Trimmed, InGraphLoop
  <2>3. MarksRight(f)'
    BY <2>1, <2>2, MarksFrame
  <2>4. CASE f # func
    <3>1. blocks'[f] = blocks[f]
      BY <1>1, <2>4 DEF LoopsRight
    <3> QED BY <2>1, <2>2, <2>3, <2>4, <3>1, BlocksFrame, VisitsFrame
  <2>5. CASE f = func
    <3>1. blocks'[f] = blocks[f] \cap visited[f] /\ blocks[f] = entries[f]
          /\ visited[f] \subseteq entries[f]
      BY <1>1, <2>1, <2>2, <2>5 DEF LoopsRight, BlocksRight, VisitsRight
    <3>2. blocks'[f] = visited[f]
      BY <3>1
    <3>3. SuccsMade(f) /\ PredsMade(f)
      BY <2>1, <2>2, <2>5 DEF BlocksRight
    <3>4. Stmts(f)' = Stmts(f) /\ \A c : SuccBlocks(f, c)' = SuccBlocks(f, c)
      BY SameBlocks DEF Stmts
    <3>5. \A t : PredBlocks(f, t)' = PredBlocks(f, t)
      BY <3>4 DEF PredBlocks
    <3>6. SuccsMade(f)' /\ PredsMade(f)'
      BY <3>3, <3>4, <3>5 DEF SuccsMade, PredsMade
    <3>7. BlocksRight(f)'
      BY <2>2, <2>5, <3>6 DEF BlocksRight
    <3>8. Reachable(f)' = Reachable(f) /\ \A S : ClosedBlocks(f, S)' <=> ClosedBlocks(f, S)
      BY DEF Reachable, ClosedBlocks
    <3>9. VisitsRight(f)'
      BY <2>1, <2>2, <2>5, <3>2, <3>4, <3>8 DEF VisitsRight
    <3> QED BY <2>3, <3>7, <3>9
  <2> QED BY <2>4, <2>5
<1> QED BY <1>1, <1>3, <1>4, <1>5 DEF IInv


-----------------------------------------------------------------------------
\* The later loops leave the graph alone.
LEMMA GraphPartsKept ==
    ASSUME IInv, program' = program, UNCHANGED <<entries, exits, Graph>>,
           ~InGraphLoop, ~InGraphLoop'
    PROVE  \A f \in Func : MarksRight(f)' /\ BlocksRight(f)' /\ VisitsRight(f)'
<1> SUFFICES ASSUME NEW f \in Func
             PROVE  MarksRight(f)' /\ BlocksRight(f)' /\ VisitsRight(f)'
  OBVIOUS
<1>1. MarksRight(f) /\ BlocksRight(f) /\ VisitsRight(f)
  BY DEF IInv
<1>2. /\ Marked(f)' <=> Marked(f)
      /\ HasExits(f)' <=> HasExits(f)
      /\ HasBlocks(f)' <=> HasBlocks(f)
      /\ Trimmed(f)' <=> Trimmed(f)
  BY DEF Marked, HasExits, HasBlocks, Trimmed
<1> QED BY <1>1, <1>2, MarksFrame, BlocksFrame, VisitsFrame DEF Graph

\* The blocks that are left, when the first loop has dealt with all functions.
LEMMA BlockFacts ==
    ASSUME IInv, ~InGraphLoop, NEW f \in Func
    PROVE  /\ EntriesMade(f) /\ ExitsMade(f) /\ SuccsMade(f) /\ PredsMade(f)
           /\ blocks[f] \subseteq entries[f] /\ entries[f] \subseteq Stmts(f) /\ 1 \in blocks[f]
           /\ IsFiniteSet(blocks[f]) /\ Stmts(f) \subseteq Nat
           /\ \A b \in blocks[f] :
                /\ succs[f][b] = SuccBlocks(f, b)
                /\ ToSet(succs[f][b]) = Flow(f, ExitOf(f, b))
                /\ ToSet(succs[f][b]) \subseteq blocks[f]
           /\ \A S \in SUBSET Stmts(f) : ClosedBlocks(f, S) => blocks[f] \subseteq S
<1>1. program \in Programs /\ MarksRight(f) /\ BlocksRight(f) /\ VisitsRight(f)
  BY DEF IInv, LoopsRight
<1>2. HasBlocks(f) /\ Trimmed(f)
  BY DEF HasBlocks, Trimmed
<1>3. blocks[f] = visited[f] /\ visited[f] \subseteq entries[f] /\ Reachable(f) \subseteq visited[f]
  BY <1>1, <1>2 DEF VisitsRight
<1>4. 1 \in blocks[f] /\ \A b \in blocks[f] : ToSet(succs[f][b]) \subseteq blocks[f]
  BY <1>3 DEF Reachable
<1>5. entries[f] \subseteq Stmts(f)
  BY <1>1, <1>2, EdgeFacts
<1>6. IsFiniteSet(blocks[f]) /\ Stmts(f) \subseteq Nat
  <2>1. PICK n \in Nat \ {0} : Stmts(f) = 1 .. n
    BY <1>1, ProgramFacts
  <2>2. IsFiniteSet(1 .. n)
    BY FS_Interval
  <2>3. blocks[f] \in SUBSET (1 .. n)
    BY <1>3, <1>5, <2>1
  <2> QED BY <2>1, <2>2, <2>3, FS_Subset
<1>7. \A S \in SUBSET Stmts(f) : ClosedBlocks(f, S) => blocks[f] \subseteq S
  BY <1>1, <1>2, <1>3 DEF VisitsRight
<1> QED BY <1>1, <1>2, <1>3, <1>4, <1>5, <1>6, <1>7, EdgeFacts

\* The numbers of the blocks of a function are different and start at 0.
LEMMA BlockIdFacts ==
    ASSUME NEW f, IsFiniteSet(blocks[f]), blocks[f] \subseteq Nat
    PROVE  /\ Cardinality(blocks[f]) \in Nat
           /\ \A b \in blocks[f] : BlockId(f, b) \in 0 .. Cardinality(blocks[f]) - 1
           /\ \A b, c \in blocks[f] : BlockId(f, b) = BlockId(f, c) => b = c
<1> DEFINE Before(b) == {c \in blocks[f] : c < b}
<1>1. \A b : IsFiniteSet(Before(b)) /\ Cardinality(Before(b)) \in Nat
  <2> SUFFICES ASSUME NEW b PROVE IsFiniteSet(Before(b)) /\ Cardinality(Before(b)) \in Nat
    OBVIOUS
  <2>1. Before(b) \in SUBSET blocks[f]
    OBVIOUS
  <2> HIDE DEF Before
  <2>2. IsFiniteSet(Before(b))
    BY <2>1, FS_Subset
  <2> QED BY <2>2, FS_CardinalityType
<1>2. Cardinality(blocks[f]) \in Nat
  BY FS_CardinalityType
<1>3. ASSUME NEW b \in blocks[f]
      PROVE  Cardinality(Before(b)) < Cardinality(blocks[f])
  <2>1. Before(b) \in SUBSET blocks[f] /\ b \notin Before(b)
    OBVIOUS
  <2> HIDE DEF Before
  <2>2. Cardinality(Before(b)) <= Cardinality(blocks[f])
        /\ Cardinality(blocks[f]) # Cardinality(Before(b))
    BY <2>1, FS_Subset
  <2> QED BY <1>1, <1>2, <2>2
<1>4. ASSUME NEW b \in blocks[f], NEW c \in blocks[f], b < c
      PROVE  Cardinality(Before(b)) # Cardinality(Before(c))
  <2>1. Before(b) \in SUBSET Before(c) /\ b \notin Before(b) /\ b \in Before(c)
    BY <1>4
  <2> HIDE DEF Before
  <2> QED BY <1>1, <2>1, FS_Subset
<1>5. \A b : BlockId(f, b) = Cardinality(Before(b))
  BY DEF BlockId
<1> HIDE DEF Before
<1>6. \A b \in blocks[f] : BlockId(f, b) \in 0 .. Cardinality(blocks[f]) - 1
  BY <1>1, <1>2, <1>3, <1>5
<1>7. \A b, c \in blocks[f] : BlockId(f, b) = BlockId(f, c) => b = c
  <2> SUFFICES ASSUME NEW b \in blocks[f], NEW c \in blocks[f], b # c
               PROVE  BlockId(f, b) # BlockId(f, c)
    OBVIOUS
  <2>1. b < c \/ c < b
    OBVIOUS
  <2> QED BY <1>4, <1>5, <2>1
<1> QED BY <1>2, <1>6, <1>7


\* The statement a reachable jump leads to starts a block that gets a label:
\* the jump is in preds_, and if it alone is, then not for falling through.
LEMMA TargetsAreLabelled ==
    ASSUME IInv, ~InGraphLoop, NEW f \in Func, NEW b \in blocks[f],
           Op(f, ExitOf(f, b)) \in {"goto", "if"}
    PROVE  /\ Target(f, ExitOf(f, b)) \in blocks[f]
           /\ NeedsLabel(f, Target(f, ExitOf(f, b)))
<1> DEFINE t == Target(f, ExitOf(f, b)) q == SuccBlocks(f, b)
<1>1. /\ program \in Programs /\ EntriesMade(f) /\ ExitsMade(f) /\ PredsMade(f)
      /\ b \in entries[f] /\ succs[f][b] = q /\ ToSet(succs[f][b]) \subseteq blocks[f]
      /\ blocks[f] \subseteq Stmts(f)
  BY BlockFacts DEF IInv, LoopsRight
<1>2. q \in Seq(entries[f]) /\ 1 \in DOMAIN q /\ q[1] = t
  BY <1>1, SuccFacts
<1> HIDE DEF t, q
<1>3. t \in blocks[f]
  BY <1>1, <1>2 DEF ToSet
<1>4. preds[f][t] = {p \in entries[f] \X {1, 2} :
                        p[2] \in DOMAIN SuccBlocks(f, p[1]) /\ SuccBlocks(f, p[1])[p[2]] = t}
  BY <1>1, <1>3 DEF PredsMade, PredBlocks
<1>5. <<b, 1>> \in preds[f][t]
  BY <1>1, <1>2, <1>4 DEF q
<1>6. ASSUME NEW p, preds[f][t] = {p}, FallsThroughIf(f, p, t)
      PROVE  FALSE
  <2>1. p = <<b, 1>>
    BY <1>5, <1>6
  <2>2. Len(q) = 2 /\ q[2] = t
    BY <1>1, <1>6, <2>1 DEF FallsThroughIf
  <2>3. 2 \in DOMAIN q
    BY <1>2, <2>2
  <2>4. <<b, 2>> \in preds[f][t]
    BY <1>1, <1>4, <2>2, <2>3 DEF q
  <2> QED BY <1>6, <2>1, <2>4
<1> QED BY <1>3, <1>5, <1>6 DEF NeedsLabel, t

LEMMA RelabelIInv ==
    ASSUME IInv, Relabel
    PROVE  IInv'
<1> USE DEF Relabel
<1>1. program \in Programs /\ func \in Func /\ Func' = Func /\ LoopsRight /\ total \in Nat
  BY DEF IInv, LoopsRight, Func
<1>2. /\ func' \in Func /\ func' = IF func < Len(program) THEN func + 1 ELSE 1
      /\ pass' = IF func < Len(program) THEN "label" ELSE "link"
      /\ Len(program) \in Nat /\ \A f \in Func : f \in Nat /\ f >= 1 /\ f <= Len(program)
  BY <1>1, TurnFacts
<1>3. LoopsRight'
  BY <1>1, <1>2 DEF LoopsRight, Graph, Linking
<1>4. ~InGraphLoop /\ ~InGraphLoop'
  BY <1>2 DEF InGraphLoop
<1>5. \A f \in Func : MarksRight(f)' /\ BlocksRight(f)' /\ VisitsRight(f)'
  BY <1>4, GraphPartsKept
<1> DEFINE n == Cardinality(blocks[func])
<1>6. /\ n \in Nat /\ \A b \in blocks[func] : BlockId(func, b) \in 0 .. n - 1
      /\ \A b, c \in blocks[func] : BlockId(func, b) = BlockId(func, c) => b = c
  <2>1. IsFiniteSet(blocks[func]) /\ blocks[func] \subseteq Nat
    BY <1>1, <1>4, BlockFacts
  <2> QED BY <2>1, BlockIdFacts
<1>7. total' = total + n /\ total' \in Nat /\ total <= total'
  BY <1>1, <1>6
<1> HIDE DEF n
<1>8. \A s \in Stmts(func) :
        /\ labels'[func][s] = IF s \in blocks[func] /\ NeedsLabel(func, s)
                                THEN total + BlockId(func, s) ELSE NoLabel
        /\ where'[func][s] = IF Op(func, s) \in {"goto", "if"} /\ IsBlockExit(func, s)
                                THEN total + BlockId(func, Target(func, s)) ELSE NoLabel
  BY <1>1 DEF LoopsRight
<1>9. DOMAIN labels'[func] = Stmts(func) /\ DOMAIN where'[func] = Stmts(func)
  BY <1>1 DEF LoopsRight
<1>10. \A f \in Func : f # func => labels'[f] = labels[f] /\ where'[f] = where[f]
  BY <1>1 DEF LoopsRight
<1>11. ASSUME NEW f \in Func
       PROVE  LabelsRight(f)'
  <2>1. CASE f # func
    <3>1. Relabelled(f)' <=> Relabelled(f)
      BY <1>1, <1>2, <1>4, <2>1 DEF Relabelled
    <3> QED BY <1>1, <1>7, <1>10, <2>1, <3>1, LabelsFrame DEF IInv, Graph
  <2>2. CASE f = func
    <3>1. Relabelled(f)'
      BY <1>1, <1>2, <1>4, <2>2 DEF Relabelled
    <3>2. Stmts(f)' = Stmts(f) /\ \A s : Op(f, s)' = Op(f, s) /\ Target(f, s)' = Target(f, s)
      BY DEF Stmts, Op, Target
    <3>3. \A s : IsBlockExit(f, s)' <=> IsBlockExit(f, s)
      BY SameBlocks DEF IsBlockExit, Graph
    <3>4. ASSUME NEW s \in Stmts(f)
          PROVE  /\ labels'[f][s] = NoLabel \/ (s \in blocks'[f] /\ labels'[f][s] \in 0 .. total' - 1)
                 /\ JumpRight(f, s)'
      <4>1. labels'[f][s] = NoLabel \/ (s \in blocks'[f] /\ labels'[f][s] \in 0 .. total' - 1)
        BY <1>1, <1>6, <1>7, <1>8, <2>2 DEF Graph
      <4>2. CASE Op(f, s) \in {"goto", "if"} /\ IsBlockExit(f, s)
        <5>1. PICK b \in blocks[f] : s = ExitOf(f, b)
          BY <4>2 DEF IsBlockExit
        <5>2. Target(f, s) \in blocks[f] /\ NeedsLabel(f, Target(f, s))
          BY <1>4, <4>2, <5>1, TargetsAreLabelled
        <5>3. Target(f, s) \in Stmts(f)
          BY <1>1, ProgramFacts
        <5>4. /\ labels'[f][Target(f, s)] = total + BlockId(f, Target(f, s))
              /\ where'[f][s] = total + BlockId(f, Target(f, s))
          BY <1>8, <2>2, <4>2, <5>2, <5>3
        <5>5. total + BlockId(f, Target(f, s)) # NoLabel
          BY <1>1, <1>6, <2>2, <5>2 DEF NoLabel
        <5> QED BY <3>2, <3>3, <4>1, <4>2, <5>4, <5>5 DEF JumpRight
      <4>3. CASE ~(Op(f, s) \in {"goto", "if"} /\ IsBlockExit(f, s))
        <5>1. where'[f][s] = NoLabel
          BY <1>8, <2>2, <4>3
        <5> QED BY <3>2, <3>3, <4>1, <4>3, <5>1 DEF JumpRight
      <4> QED BY <4>2, <4>3
    <3> QED BY <1>9, <2>2, <3>1, <3>2, <3>4 DEF LabelsRight
  <2> QED BY <2>1, <2>2
<1>12. LabelsUnique'
  <2>1. \A f \in Func : \A s \in Stmts(f) : f # func => labels'[f][s] = NoLabel \/ labels'[f][s] < total
    BY <1>1, <1>10 DEF IInv, LabelsRight
  <2>2. \A s \in Stmts(func) : labels'[func][s] = NoLabel \/
            (s \in blocks[func] /\ labels'[func][s] = total + BlockId(func, s)
                /\ labels'[func][s] >= total)
    BY <1>1, <1>6, <1>8
  <2>3. ASSUME NEW f \in Func, NEW g \in Func, NEW s \in Stmts(f), NEW t \in Stmts(g),
               labels'[f][s] = labels'[g][t], labels'[f][s] # NoLabel
        PROVE  f = g /\ s = t
    <3>1. CASE f # func /\ g # func
      BY <1>10, <2>3, <3>1 DEF IInv, LabelsUnique
    <3>2. CASE f = func /\ g = func
      BY <1>1, <1>6, <2>2, <2>3, <3>2
    <3>3. CASE f = func /\ g # func
      BY <1>1, <1>6, <2>1, <2>2, <2>3, <3>3
    <3>4. CASE f # func /\ g = func
      BY <1>1, <1>6, <2>1, <2>2, <2>3, <3>4
    <3> QED BY <3>1, <3>2, <3>3, <3>4
  <2>4. \A f : Stmts(f)' = Stmts(f)
    BY DEF Stmts
  <2> QED BY <1>1, <2>3, <2>4 DEF LabelsUnique
<1>13. ASSUME NEW f \in Func
       PROVE  LinksRight(f)' /\ OrderRight(f)'
  <2>1. LinksRight(f) /\ OrderRight(f)
    BY DEF IInv
  <2>2. ~Linked(f) /\ ~Ordered(f) /\ ~Linked(f)' /\ ~Ordered(f)'
    BY <1>1, <1>2 DEF Linked, Ordered
  <2>3. order[f] = << >>
    BY <2>1, <2>2 DEF OrderRight
  <2>4. UNCHANGED <<stmtSuccs, stmtPreds, order>>
    BY DEF Linking
  <2>5. LinksRight(f)'
    BY <2>1, <2>2, <2>4, LinksFrame
  <2> QED BY <2>1, <2>2, <2>3, <2>4, <2>5, OrderFrame
<1> QED BY <1>1, <1>3, <1>5, <1>7, <1>11, <1>12, <1>13 DEF IInv


-----------------------------------------------------------------------------
LEMMA LinkStatementsIInv ==
    ASSUME IInv, LinkStatements
    PROVE  IInv'
<1> USE DEF LinkStatements
<1>1. program \in Programs /\ func \in Func /\ Func' = Func /\ LoopsRight /\ total \in Nat
  BY DEF IInv, LoopsRight, Func
<1>2. /\ func' \in Func /\ func' = IF func < Len(program) THEN func + 1 ELSE 1
      /\ pass' = IF func < Len(program) THEN "link" ELSE "order"
      /\ Len(program) \in Nat /\ \A f \in Func : f \in Nat /\ f >= 1 /\ f <= Len(program)
  BY <1>1, TurnFacts
<1>3. LoopsRight'
  BY <1>1, <1>2 DEF LoopsRight, Graph, Labelling
<1>4. ~InGraphLoop /\ ~InGraphLoop'
  BY <1>2 DEF InGraphLoop
<1>5. \A f \in Func : MarksRight(f)' /\ BlocksRight(f)' /\ VisitsRight(f)'
  BY <1>4, GraphPartsKept
<1>6. total' \in Nat /\ LabelsUnique'
  BY <1>1, UniqueFrame DEF IInv, Labelling
<1>7. ASSUME NEW f \in Func
      PROVE  LabelsRight(f)' /\ LinksRight(f)' /\ OrderRight(f)'
  <2>1. LabelsRight(f) /\ LinksRight(f) /\ OrderRight(f)
    BY DEF IInv
  <2>2. /\ Relabelled(f)' <=> Relabelled(f)
        /\ Linked(f)' <=> Linked(f) \/ f = func
        /\ ~Ordered(f) /\ ~Ordered(f)'
    BY <1>1, <1>2, <1>4 DEF Relabelled, Linked, Ordered
  <2>3. LabelsRight(f)'
    BY <1>1, <2>1, <2>2, LabelsFrame DEF Graph, Labelling
  <2>4. order[f] = << >>
    BY <2>1, <2>2 DEF OrderRight
  <2>5. OrderRight(f)'
    BY <2>1, <2>2, <2>4, OrderFrame
  <2>6. CASE f # func
    <3>1. stmtSuccs'[f] = stmtSuccs[f] /\ stmtPreds'[f] = stmtPreds[f]
      BY <1>1, <2>6 DEF LoopsRight
    <3> QED BY <2>1, <2>2, <2>3, <2>5, <2>6, <3>1, LinksFrame DEF Graph
  <2>7. CASE f = func
    <3>1. \A s \in Stmts(f) : /\ stmtSuccs'[f][s] = SuccStmts(f, s)
                              /\ stmtPreds'[f][s] = PredStmts(f, s)
      BY <1>1, <2>7 DEF LoopsRight
    <3>2. Stmts(f)' = Stmts(f) /\ \A s, t : WithinBlock(f, s, t)' <=> WithinBlock(f, s, t)
      BY SameBlocks DEF Stmts, WithinBlock, Graph
    <3>3. \A s : SuccStmts(f, s)' = SuccStmts(f, s)
      BY <3>2, SameBlocks DEF SuccStmts, Graph
    <3>4. \A s : PredStmts(f, s)' = PredStmts(f, s)
      BY <3>2, SameBlocks DEF PredStmts, Graph
    <3>5. LinksRight(f)'
      BY <2>2, <2>7, <3>1, <3>2, <3>3, <3>4 DEF LinksRight
    <3> QED BY <2>3, <2>5, <3>5
  <2> QED BY <2>6, <2>7
<1> QED BY <1>1, <1>3, <1>5, <1>6, <1>7 DEF IInv

\* While order_stmts runs nothing but the order changes.
LEMMA EarlierPartsKept ==
    ASSUME IInv, program' = program, pass = "order", pass' \in {"order", "done"},
           UNCHANGED <<entries, exits, Graph, Labelling, stmtSuccs, stmtPreds>>
    PROVE  /\ total' \in Nat /\ LabelsUnique'
           /\ \A f \in Func : MarksRight(f)' /\ BlocksRight(f)' /\ VisitsRight(f)'
                                /\ LabelsRight(f)' /\ LinksRight(f)'
<1>1. ~InGraphLoop /\ ~InGraphLoop'
  BY DEF InGraphLoop
<1>2. \A f \in Func : MarksRight(f)' /\ BlocksRight(f)' /\ VisitsRight(f)'
  BY <1>1, GraphPartsKept
<1>3. total' \in Nat /\ LabelsUnique'
  BY UniqueFrame DEF IInv, Labelling
<1>4. ASSUME NEW f \in Func
      PROVE  LabelsRight(f)' /\ LinksRight(f)'
  <2>1. Relabelled(f) /\ Relabelled(f)' /\ Linked(f) /\ Linked(f)'
    BY <1>1 DEF Relabelled, Linked
  <2>2. LabelsRight(f) /\ LinksRight(f) /\ total \in Nat
    BY DEF IInv
  <2> QED BY <2>1, <2>2, LabelsFrame, LinksFrame DEF Graph, Labelling
<1> QED BY <1>2, <1>3, <1>4

LEMMA OrderBlockIInv ==
    ASSUME IInv, OrderBlock
    PROVE  IInv'
<1> USE DEF OrderBlock
<1>1. program \in Programs /\ func \in Func /\ Func' = Func /\ LoopsRight /\ OrderRight(func)
  BY DEF IInv, LoopsRight, Func
<1>2. LoopsRight'
  BY <1>1 DEF LoopsRight, Graph, Labelling
<1>3. /\ total' \in Nat /\ LabelsUnique'
      /\ \A f \in Func : MarksRight(f)' /\ BlocksRight(f)' /\ VisitsRight(f)'
                            /\ LabelsRight(f)' /\ LinksRight(f)'
  BY EarlierPartsKept
<1>4. ASSUME NEW f \in Func, f # func
      PROVE  OrderRight(f)'
  <2>1. OrderRight(f) /\ order'[f] = order[f]
    BY <1>1, <1>4 DEF IInv, LoopsRight
  <2>2. Ordered(f)' <=> Ordered(f)
    BY DEF Ordered
  <2> QED BY <2>1, <2>2, OrderFrame DEF Graph
<1>5. OrderRight(func)'
  <2> DEFINE f == func
             o == order[f]
             done == blocks[f] \cap ToSet(o)
             b == Min(BlocksToOrder)
             e == ExitOf(f, b)
             new == StmtsOf(f, b)
  <2>1. /\ EntriesMade(f) /\ ExitsMade(f) /\ blocks[f] \subseteq entries[f]
        /\ entries[f] \subseteq Stmts(f) /\ Stmts(f) \subseteq Nat
    BY <1>1, BlockFacts DEF InGraphLoop
  <2>2. b \in BlocksToOrder /\ \A c \in BlocksToOrder : b <= c
    <3>1. BlocksToOrder \in SUBSET Nat
      BY <2>1 DEF BlocksToOrder
    <3>2. \E x \in BlocksToOrder : \A y \in BlocksToOrder : x <= y
      BY <3>1, LeastNatural
    <3> QED BY <3>2 DEF Min
  <2>3. b \in blocks[f] /\ b \notin done /\ \A c \in blocks[f] : c \notin done => b <= c
    BY <2>2 DEF BlocksToOrder
  <2>4. /\ o \in Seq(Stmts(f)) /\ \A i, j \in DOMAIN o : i < j => o[i] < o[j]
        /\ ToSet(o) = UNION {c .. ExitOf(f, c) : c \in done}
        /\ \A d \in done, c \in blocks[f] \ done : d < c
    BY <1>1 DEF OrderRight
  <2>5. b \in Stmts(f) /\ e \in Stmts(f) /\ b <= e /\ b \in Nat /\ e \in Nat
    BY <1>1, <2>1, <2>3, ExitFacts
  <2>6. b .. e \subseteq Stmts(f)
    BY <1>1, <2>5, ProgramFacts
  <2>7. order'[f] = o \o new
    BY <1>1 DEF LoopsRight
  <2> HIDE DEF b
  <2>8. /\ new \in Seq(Stmts(f)) /\ Len(new) = e - b + 1
        /\ \A i \in 1 .. Len(new) : new[i] = b + i - 1
    <3>1. new = [i \in 1 .. e - b + 1 |-> b + i - 1]
      BY DEF StmtsOf
    <3>2. \A i \in 1 .. e - b + 1 : b + i - 1 \in Stmts(f)
      BY <2>5, <2>6
    <3> HIDE DEF new, e
    <3> QED BY <2>5, <3>1, <3>2
  <2> HIDE DEF new, e, o, done, f
  <2>9. /\ o \o new \in Seq(Stmts(f)) /\ Len(o \o new) = Len(o) + Len(new)
        /\ \A i \in 1 .. Len(o) + Len(new) :
            (o \o new)[i] = IF i <= Len(o) THEN o[i] ELSE new[i - Len(o)]
    BY <2>4, <2>8, ConcatProperties
  <2>10. Len(o) \in Nat /\ DOMAIN o = 1 .. Len(o) /\ Len(new) \in Nat
         /\ DOMAIN (o \o new) = 1 .. Len(o) + Len(new)
    BY <2>4, <2>8, <2>9
  <2>11. \A d \in done : ExitOf(f, d) < b
    BY <1>1, <2>1, <2>3, <2>4, EndsBeforeNext DEF done, f
  <2>12. \A i \in DOMAIN o : o[i] < b
    <3> SUFFICES ASSUME NEW i \in DOMAIN o PROVE o[i] < b
      OBVIOUS
    <3>1. o[i] \in ToSet(o)
      BY DEF ToSet
    <3>2. PICK d \in done : o[i] \in d .. ExitOf(f, d)
      BY <2>4, <3>1
    <3>3. ExitOf(f, d) < b /\ d \in Nat /\ ExitOf(f, d) \in Nat
      BY <1>1, <2>1, <2>11, ExitFacts DEF done, f
    <3> QED BY <2>5, <3>2, <3>3
  <2>13. \A i, j \in DOMAIN (o \o new) : i < j => (o \o new)[i] < (o \o new)[j]
    <3> SUFFICES ASSUME NEW i \in 1 .. Len(o) + Len(new), NEW j \in 1 .. Len(o) + Len(new), i < j
                 PROVE  (o \o new)[i] < (o \o new)[j]
      BY <2>10
    <3>1. CASE j <= Len(o)
      BY <2>4, <2>9, <2>10, <3>1
    <3>2. CASE i <= Len(o) /\ j > Len(o)
      <4>1. (o \o new)[i] = o[i] /\ (o \o new)[j] = b + (j - Len(o)) - 1
        BY <2>8, <2>9, <2>10, <3>2
      <4>2. o[i] \in Nat /\ o[i] < b
        BY <2>1, <2>4, <2>10, <2>12, <3>2, ElementOfSeq DEF f
      <4> QED BY <2>5, <2>10, <3>2, <4>1, <4>2
    <3>3. CASE i > Len(o)
      <4>1. /\ (o \o new)[i] = b + (i - Len(o)) - 1
            /\ (o \o new)[j] = b + (j - Len(o)) - 1
        BY <2>8, <2>9, <2>10, <3>3
      <4> QED BY <2>5, <2>10, <4>1
    <3> QED BY <2>10, <3>1, <3>2, <3>3
  <2>14. ToSet(o \o new) = ToSet(o) \cup (b .. e)
    <3>1. ToSet(o \o new) \subseteq ToSet(o) \cup (b .. e)
      <4> SUFFICES ASSUME NEW i \in 1 .. Len(o) + Len(new)
                   PROVE  (o \o new)[i] \in ToSet(o) \cup (b .. e)
        BY <2>10 DEF ToSet
      <4>1. CASE i <= Len(o)
        BY <2>9, <2>10, <4>1 DEF ToSet
      <4>2. CASE i > Len(o)
        BY <2>5, <2>8, <2>9, <2>10, <4>2
      <4> QED BY <2>10, <4>1, <4>2
    <3>2. ToSet(o) \subseteq ToSet(o \o new)
      <4> SUFFICES ASSUME NEW i \in 1 .. Len(o) PROVE o[i] \in ToSet(o \o new)
        BY <2>10 DEF ToSet
      <4>1. (o \o new)[i] = o[i] /\ i \in DOMAIN (o \o new)
        BY <2>9, <2>10
      <4> QED BY <4>1 DEF ToSet
    <3>3. b .. e \subseteq ToSet(o \o new)
      <4> SUFFICES ASSUME NEW s \in b .. e PROVE s \in ToSet(o \o new)
        OBVIOUS
      <4>1. PICK i \in 1 .. Len(new) : i = s - b + 1
        BY <2>5, <2>8
      <4>2. /\ Len(o) + i \in DOMAIN (o \o new)
            /\ (o \o new)[Len(o) + i] = s
        BY <2>5, <2>8, <2>9, <2>10, <4>1
      <4> QED BY <4>2 DEF ToSet
    <3> QED BY <3>1, <3>2, <3>3
  <2>15. blocks[f] \cap ToSet(o \o new) = done \cup {b}
    <3>1. \A c \in blocks[f] : c \in b .. e => c = b
      BY <1>1, <2>1, <2>3, <2>5, EndsBeforeNext DEF e, f
    <3> QED BY <2>3, <2>5, <2>14, <3>1 DEF done
  <2>16. ToSet(o \o new) = UNION {c .. ExitOf(f, c) : c \in done \cup {b}}
    BY <2>4, <2>14 DEF e
  <2>17. \A d \in done \cup {b}, c \in blocks[f] \ (done \cup {b}) : d < c
    <3>1. \A c \in blocks[f] \ (done \cup {b}) : b < c
      BY <2>1, <2>3, <2>5 DEF f
    <3> QED BY <2>4, <3>1
  <2>18. Stmts(f)' = Stmts(f) /\ \A c : ExitOf(f, c)' = ExitOf(f, c)
    BY SameBlocks DEF Stmts, f
  <2>19. ~Ordered(f)'
    BY <1>1, ProgramFacts DEF Ordered, f
  <2>20. (order[f])' = o \o new /\ (blocks[f])' = blocks[f] /\ f' = f /\ f = func
    BY <2>7 DEF f, Graph
  <2> QED BY <2>9, <2>13, <2>15, <2>16, <2>17, <2>18, <2>19, <2>20 DEF OrderRight, f
<1> QED BY <1>1, <1>2, <1>3, <1>4, <1>5 DEF IInv

LEMMA EndOrderIInv ==
    ASSUME IInv, EndOrder
    PROVE  IInv'
<1> USE DEF EndOrder
<1>1. program \in Programs /\ func \in Func /\ Func' = Func /\ LoopsRight
  BY DEF IInv, LoopsRight, Func
<1>2. /\ func' \in Func /\ func' = IF func < Len(program) THEN func + 1 ELSE 1
      /\ pass' = IF func < Len(program) THEN "order" ELSE "done"
      /\ Len(program) \in Nat /\ \A f \in Func : f \in Nat /\ f >= 1 /\ f <= Len(program)
  BY <1>1, TurnFacts
<1>3. LoopsRight'
  BY <1>1, <1>2 DEF LoopsRight, Graph, Labelling, Linking
<1>4. /\ total' \in Nat /\ LabelsUnique'
      /\ \A f \in Func : MarksRight(f)' /\ BlocksRight(f)' /\ VisitsRight(f)'
                            /\ LabelsRight(f)' /\ LinksRight(f)'
  BY <1>2, EarlierPartsKept DEF Linking
<1>5. ASSUME NEW f \in Func
      PROVE  OrderRight(f)'
  <2>1. OrderRight(f)
    BY DEF IInv
  <2>2. Ordered(f)' <=> Ordered(f) \/ f = func
    BY <1>1, <1>2 DEF Ordered
  <2>3. UNCHANGED <<blocks, exits, order>>
    BY DEF Graph, Linking
  <2>4. CASE f # func
    <3>1. ~Ordered(f) => order[f] = << >>
      BY <2>1, <2>4 DEF OrderRight
    <3> QED BY <2>1, <2>2, <2>3, <2>4, <3>1, OrderFrame
  <2>5. CASE f = func
    <3>1. blocks[f] \subseteq ToSet(order[f])
      BY <2>5 DEF BlocksToOrder
    <3>2. Stmts(f)' = Stmts(f) /\ \A c : ExitOf(f, c)' = ExitOf(f, c)
      BY <2>3, SameBlocks DEF Stmts
    <3> QED BY <2>1, <2>2, <2>3, <2>5, <3>1, <3>2 DEF OrderRight
  <2> QED BY <2>4, <2>5
<1> QED BY <1>1, <1>3, <1>4, <1>5 DEF IInv


-----------------------------------------------------------------------------
\* The inductive invariant holds throughout.
THEOREM Invariance == Spec => []IInv
<1>1. IInv /\ [Next]_vars => IInv'
  <2> SUFFICES ASSUME IInv, [Next]_vars PROVE IInv'
    OBVIOUS
  <2>1. CASE \E b \in Stmts(func) : VisitBlock(b)
    BY <2>1, VisitBlockIInv
  <2> QED BY <2>1, MarkEntriesIInv, MarkExitsIInv, MakeBlocksIInv, DropDeadBlocksIInv, RelabelIInv,
             LinkStatementsIInv, OrderBlockIInv, EndOrderIInv, StutterIInv DEF Next
<1> QED BY <1>1, InitIInv, PTL DEF Spec

\* What set_stmt_pred_succ makes of a statement in a block that is left.
LEMMA SuccStmtsAreFlow ==
    ASSUME IInv, ~InGraphLoop, NEW f \in Func, NEW b \in blocks[f], NEW s \in Stmts(f),
           b <= s, s <= ExitOf(f, b)
    PROVE  /\ SuccStmts(f, s) = Flow(f, s)
           /\ \A t \in Flow(f, s) :
                t \in blocks[f] \/ (t = s + 1 /\ t <= ExitOf(f, b) /\ t \in Stmts(f))
           /\ Op(f, s) # "other" => s = ExitOf(f, b)
           /\ s < ExitOf(f, b) => Op(f, s) = "other"
<1>1. /\ program \in Programs /\ EntriesMade(f) /\ ExitsMade(f)
      /\ blocks[f] \subseteq entries[f] /\ entries[f] \subseteq Stmts(f) /\ Stmts(f) \subseteq Nat
      /\ ToSet(succs[f][b]) = Flow(f, ExitOf(f, b)) /\ ToSet(succs[f][b]) \subseteq blocks[f]
  BY BlockFacts DEF IInv, LoopsRight
<1>2. /\ \A c \in blocks[f] : /\ c \in Nat /\ ExitOf(f, c) \in Nat /\ c <= ExitOf(f, c)
                              /\ c <= s /\ s <= ExitOf(f, c) => c = b
      /\ s \in Nat
  <2> SUFFICES ASSUME NEW c \in blocks[f]
               PROVE  /\ c \in Nat /\ ExitOf(f, c) \in Nat /\ c <= ExitOf(f, c)
                      /\ c <= s /\ s <= ExitOf(f, c) => c = b
    BY <1>1
  <2>1. c \in Stmts(f) /\ ExitOf(f, c) \in Stmts(f) /\ c <= ExitOf(f, c)
    BY <1>1, ExitFacts
  <2>2. c <= s /\ s <= ExitOf(f, c) => c = b
    BY <1>1, BlocksApart
  <2> QED BY <1>1, <2>1, <2>2
<1>3. CASE s = ExitOf(f, b)
  <2>1. {c \in blocks[f] : s = ExitOf(f, c)} = {b}
    BY <1>2, <1>3
  <2>2. \A t : ~WithinBlock(f, s, t)
    BY <1>2, <1>3 DEF WithinBlock
  <2>3. SuccStmts(f, s) = ToSet(succs[f][b])
    BY <2>1, <2>2 DEF SuccStmts
  <2> QED BY <1>1, <1>2, <1>3, <2>3
<1>4. CASE s < ExitOf(f, b)
  <2>1. {c \in blocks[f] : s = ExitOf(f, c)} = {}
    BY <1>2, <1>4
  <2>2. Op(f, s) = "other" /\ s + 1 \in Stmts(f)
    BY <1>1, <1>4, ExitFacts
  <2>3. WithinBlock(f, s, s + 1) /\ \A t : WithinBlock(f, s, t) => t = s + 1
    BY <1>2, <1>4 DEF WithinBlock
  <2>4. SuccStmts(f, s) = {s + 1}
    <3>1. UNION {ToSet(succs[f][c]) : c \in {c \in blocks[f] : s = ExitOf(f, c)}} = {}
      BY <2>1
    <3>2. {t \in Stmts(f) : WithinBlock(f, s, t)} = {s + 1}
      BY <2>2, <2>3
    <3> QED BY <3>1, <3>2 DEF SuccStmts
  <2>5. Flow(f, s) = ToSet(Follows(f, s))
    BY <2>2 DEF Flow
  <2>6. Flow(f, s) = {s + 1}
    BY <1>1, <2>2, <2>5, FollowsFacts
  <2> QED BY <1>2, <1>4, <2>2, <2>4, <2>6
<1> QED BY <1>2, <1>3, <1>4

\* The statements that are left are those of the blocks that are.
LEMMA KeptFacts ==
    ASSUME IInv, pass = "done", NEW f \in Func
    PROVE  /\ ~InGraphLoop /\ ToSet(order[f]) \subseteq Stmts(f) /\ Stmts(f) \subseteq Nat
           /\ \A s \in Stmts(f) : s \in ToSet(order[f]) <=>
                \E b \in blocks[f] : b <= s /\ s <= ExitOf(f, b)
           /\ \A s \in ToSet(order[f]) :
                stmtSuccs[f][s] = Flow(f, s) /\ Flow(f, s) \subseteq ToSet(order[f])
<1>1. ~InGraphLoop /\ Linked(f) /\ Ordered(f)
  BY DEF InGraphLoop, Linked, Ordered
<1>2. OrderRight(f) /\ LinksRight(f)
  BY DEF IInv
<1>3. /\ program \in Programs /\ EntriesMade(f) /\ ExitsMade(f)
      /\ blocks[f] \subseteq entries[f] /\ entries[f] \subseteq Stmts(f) /\ Stmts(f) \subseteq Nat
  BY <1>1, BlockFacts DEF IInv, LoopsRight
<1>4. ToSet(order[f]) \subseteq Stmts(f)
  BY <1>2 DEF OrderRight, ToSet
<1>5. ToSet(order[f]) = UNION {b .. ExitOf(f, b) : b \in blocks[f]}
  BY <1>1, <1>2 DEF OrderRight
<1>6. \A b \in blocks[f] : b \in Nat /\ ExitOf(f, b) \in Nat
  BY <1>3, ExitFacts
<1>7. \A s \in Stmts(f) : s \in ToSet(order[f]) <=>
        \E b \in blocks[f] : b <= s /\ s <= ExitOf(f, b)
  BY <1>3, <1>5, <1>6
<1>8. ASSUME NEW s \in ToSet(order[f])
      PROVE  stmtSuccs[f][s] = Flow(f, s) /\ Flow(f, s) \subseteq ToSet(order[f])
  <2>1. PICK b \in blocks[f] : b <= s /\ s <= ExitOf(f, b)
    BY <1>4, <1>7
  <2>2. stmtSuccs[f][s] = SuccStmts(f, s)
    BY <1>1, <1>2, <1>4 DEF LinksRight
  <2>3. /\ SuccStmts(f, s) = Flow(f, s)
        /\ \A t \in Flow(f, s) :
             t \in blocks[f] \/ (t = s + 1 /\ t <= ExitOf(f, b) /\ t \in Stmts(f))
    BY <1>1, <1>4, <2>1, SuccStmtsAreFlow
  <2>4. \A c \in blocks[f] : c \in ToSet(order[f])
    <3>1. \A c \in blocks[f] : c \in Stmts(f) /\ c <= c /\ c <= ExitOf(f, c)
      BY <1>3, ExitFacts
    <3> QED BY <1>7, <3>1
  <2>5. s + 1 \in Stmts(f) /\ s + 1 <= ExitOf(f, b) => s + 1 \in ToSet(order[f])
    BY <1>3, <1>4, <1>6, <1>7, <2>1
  <2> QED BY <2>2, <2>3, <2>4, <2>5
<1> QED BY <1>1, <1>3, <1>4, <1>7, <1>8


-----------------------------------------------------------------------------
LEMMA IInvTypes == IInv => TypeOK
<1> SUFFICES ASSUME IInv PROVE TypeOK
  OBVIOUS
<1>1. /\ program \in Programs /\ func \in Func /\ total \in Nat
      /\ pass \in {"mark", "exits", "blocks", "visit", "label", "link", "order", "done"}
  BY DEF IInv, LoopsRight
<1>2. ASSUME NEW f \in Func
      PROVE  /\ entries[f] \subseteq Stmts(f) /\ exits[f] \subseteq Stmts(f)
             /\ visited[f] \subseteq entries[f] /\ blocks[f] \subseteq entries[f]
             /\ ToSet(order[f]) \subseteq Stmts(f)
             /\ \A s \in Stmts(f) :
                 /\ succs[f][s] \in Seq(entries[f]) /\ preds[f][s] \subseteq entries[f] \X {1, 2}
                 /\ stmtSuccs[f][s] \cup stmtPreds[f][s] \subseteq Stmts(f)
                 /\ labels[f][s] < total /\ where[f][s] < total
  <2>1. /\ MarksRight(f) /\ BlocksRight(f) /\ VisitsRight(f) /\ LabelsRight(f)
        /\ LinksRight(f) /\ OrderRight(f)
    BY DEF IInv
  <2>2. entries[f] \subseteq Stmts(f) /\ exits[f] \subseteq Stmts(f)
    <3>1. CASE Marked(f)
      BY <1>1, <2>1, <3>1, EntryFacts DEF MarksRight, ExitsMade
    <3> QED BY <2>1, <3>1 DEF MarksRight
  <2>3. visited[f] \subseteq entries[f] /\ blocks[f] \subseteq entries[f]
    BY <2>1 DEF VisitsRight, BlocksRight
  <2>4. ToSet(order[f]) \subseteq Stmts(f)
    BY <2>1 DEF OrderRight, ToSet
  <2>5. ASSUME NEW s \in Stmts(f)
        PROVE  succs[f][s] \in Seq(entries[f]) /\ preds[f][s] \subseteq entries[f] \X {1, 2}
    <3>1. CASE HasBlocks(f)
      <4>1. SuccsMade(f) /\ PredsMade(f) /\ EntriesMade(f) /\ ExitsMade(f)
        BY <1>1, <2>1, <3>1, EdgeFacts
      <4>2. CASE s \in entries[f]
        BY <1>1, <4>1, <4>2, SuccFacts DEF SuccsMade, PredsMade, PredBlocks
      <4>3. CASE s \notin entries[f]
        BY <4>1, <4>3, NoElement DEF SuccsMade, PredsMade, PredBlocks
      <4> QED BY <4>2, <4>3
    <3>2. CASE ~HasBlocks(f)
      BY <2>1, <3>2, NoElement DEF BlocksRight
    <3> QED BY <3>1, <3>2
  <2>6. ASSUME NEW s \in Stmts(f)
        PROVE  stmtSuccs[f][s] \cup stmtPreds[f][s] \subseteq Stmts(f)
    <3>1. CASE Linked(f)
      <4>1. /\ EntriesMade(f) /\ ExitsMade(f) /\ entries[f] \subseteq Stmts(f)
            /\ \A b \in blocks[f] : ToSet(succs[f][b]) \subseteq entries[f]
        BY <3>1, BlockFacts DEF Linked, InGraphLoop
      <4>2. SuccStmts(f, s) \subseteq Stmts(f)
        BY <4>1 DEF SuccStmts
      <4>3. \A p \in preds[f][s] : ExitOf(f, p[1]) \in Stmts(f)
        BY <1>1, <2>5, <4>1, ExitFacts
      <4>4. PredStmts(f, s) \subseteq Stmts(f)
        BY <4>3 DEF PredStmts
      <4> QED BY <2>1, <3>1, <4>2, <4>4 DEF LinksRight
    <3>2. CASE ~Linked(f)
      BY <2>1, <3>2 DEF LinksRight
    <3> QED BY <3>1, <3>2
  <2>7. \A s \in Stmts(f) : labels[f][s] < total
    BY <1>1, <2>1 DEF LabelsRight, NoLabel
  <2>8. \A s \in Stmts(f) : where[f][s] < total
    BY <1>1, <2>1, <2>7, ProgramFacts DEF LabelsRight, JumpRight, NoLabel
  <2> QED BY <2>2, <2>3, <2>4, <2>5, <2>6, <2>7, <2>8
<1> QED BY <1>1, <1>2 DEF TypeOK

\* Every field of the graph has its type; labels are below their counter.
THEOREM TypesCorrect == Spec => []TypeOK
BY Invariance, IInvTypes, PTL

LEMMA IInvBasic == IInv => BlocksAreBasic
<1> SUFFICES ASSUME IInv, NEW f \in Func, NEW b \in blocks[f], NEW s \in Stmts(f),
                    b <= s, s < ExitOf(f, b)
             PROVE  /\ Op(f, s) = "other"
                    /\ \A t \in Stmts(f) : Op(f, t) \in {"goto", "if"} => Target(f, t) # s + 1
  BY DEF BlocksAreBasic
<1>1. program \in Programs /\ MarksRight(f) /\ BlocksRight(f) /\ VisitsRight(f)
  BY DEF IInv, LoopsRight
<1>2. HasBlocks(f)
  BY <1>1 DEF BlocksRight
<1>3. EntriesMade(f) /\ ExitsMade(f) /\ b \in entries[f] /\ entries[f] \subseteq Stmts(f)
  BY <1>1, <1>2, EdgeFacts DEF BlocksRight, VisitsRight
<1>4. Op(f, s) = "other" /\ s + 1 \notin entries[f]
  BY <1>1, <1>3, ExitFacts
<1> QED BY <1>1, <1>3, <1>4, EntryFacts

\* In every function and at every time, control enters the blocks there are at
\* the first statement and leaves them at the last.
THEOREM BlocksBasic == Spec => []BlocksAreBasic
BY Invariance, IInvBasic, PTL


-----------------------------------------------------------------------------
\* A set of statements that control does not leave has, with the first
\* statement of a block, the others, so it has every block that is left.
LEMMA ClosedHasBlocks ==
    ASSUME IInv, ~InGraphLoop, NEW f \in Func, NEW S \in SUBSET Stmts(f), Closed(f, S)
    PROVE  \A b \in blocks[f] : \A s \in Stmts(f) : b <= s /\ s <= ExitOf(f, b) => s \in S
<1>1. /\ program \in Programs /\ EntriesMade(f) /\ ExitsMade(f) /\ SuccsMade(f)
      /\ blocks[f] \subseteq entries[f] /\ entries[f] \subseteq Stmts(f) /\ Stmts(f) \subseteq Nat
      /\ \A T \in SUBSET Stmts(f) : ClosedBlocks(f, T) => blocks[f] \subseteq T
  BY BlockFacts DEF IInv, LoopsRight
<1>2. ASSUME NEW b \in entries[f], b \in S, NEW s \in Stmts(f), b <= s, s <= ExitOf(f, b)
      PROVE  s \in S
  <2> SUFFICES ASSUME s \notin S PROVE FALSE
    OBVIOUS
  <2> DEFINE T == {t \in Stmts(f) : b <= t /\ t <= ExitOf(f, b) /\ t \notin S}
  <2>1. T \in SUBSET Nat /\ T # {}
    BY <1>1, <1>2
  <2>2. PICK t \in T : \A u \in T : t <= u
    BY <2>1, LeastNatural
  <2>3. /\ b \in Stmts(f) /\ b \in Nat /\ t \in Nat /\ t \in Stmts(f) /\ b < t
        /\ ExitOf(f, b) \in Nat /\ t <= ExitOf(f, b) /\ t \notin S
    BY <1>1, <1>2, <2>2, ExitFacts
  <2>4. t - 1 \in Stmts(f) /\ b <= t - 1 /\ t - 1 < ExitOf(f, b)
    <3>1. PICK n \in Nat \ {0} : Stmts(f) = 1 .. n
      BY <1>1, ProgramFacts
    <3> QED BY <2>3, <3>1
  <2>5. t - 1 \in S
    BY <2>2, <2>3, <2>4
  <2>6. Op(f, t - 1) = "other"
    BY <1>1, <2>3, <2>4, ExitFacts
  <2>7. Flow(f, t - 1) = ToSet(Follows(f, t - 1))
    BY <2>6 DEF Flow
  <2>8. (t - 1) + 1 = t
    BY <2>3
  <2>9. t \in Flow(f, t - 1)
    BY <1>1, <2>3, <2>4, <2>7, <2>8, FollowsFacts
  <2> QED BY <2>3, <2>5, <2>9 DEF Closed
<1>3. ClosedBlocks(f, S)
  <2> SUFFICES ASSUME NEW b \in entries[f], b \in S
               PROVE  ToSet(succs[f][b]) \subseteq S
    BY DEF ClosedBlocks, Closed
  <2>1. b \in Stmts(f) /\ ExitOf(f, b) \in Stmts(f) /\ b <= ExitOf(f, b)
        /\ ExitOf(f, b) <= ExitOf(f, b)
    BY <1>1, ExitFacts
  <2>2. ExitOf(f, b) \in S
    BY <1>2, <2>1
  <2>3. ToSet(succs[f][b]) = Flow(f, ExitOf(f, b))
    BY <1>1, SuccFacts DEF SuccsMade
  <2> QED BY <2>2, <2>3 DEF Closed
<1> QED BY <1>1, <1>2, <1>3

LEMMA IInvFlow == IInv => FlowPreserved
<1> SUFFICES ASSUME IInv, pass = "done", NEW f \in Func
             PROVE  /\ Closed(f, ToSet(order[f]))
                    /\ \A S \in SUBSET Stmts(f) : Closed(f, S) => ToSet(order[f]) \subseteq S
                    /\ \A i, j \in DOMAIN order[f] : i < j => order[f][i] < order[f][j]
                    /\ \A s \in ToSet(order[f]) : stmtSuccs[f][s] = Flow(f, s)
  BY DEF FlowPreserved
<1>1. Closed(f, ToSet(order[f]))
  <2>1. 1 \in blocks[f] /\ 1 \in Stmts(f) /\ 1 <= 1 /\ 1 <= ExitOf(f, 1)
    BY KeptFacts, BlockFacts, ExitFacts DEF IInv, LoopsRight
  <2>2. 1 \in ToSet(order[f])
    BY <2>1, KeptFacts
  <2> QED BY <2>2, KeptFacts DEF Closed
<1>2. \A S \in SUBSET Stmts(f) : Closed(f, S) => ToSet(order[f]) \subseteq S
  <2> SUFFICES ASSUME NEW S \in SUBSET Stmts(f), Closed(f, S), NEW s \in ToSet(order[f])
               PROVE  s \in S
    OBVIOUS
  <2>1. s \in Stmts(f) /\ \E b \in blocks[f] : b <= s /\ s <= ExitOf(f, b)
    BY KeptFacts
  <2> QED BY <2>1, KeptFacts, ClosedHasBlocks
<1>3. \A i, j \in DOMAIN order[f] : i < j => order[f][i] < order[f][j]
  BY DEF IInv, OrderRight
<1> QED BY <1>1, <1>2, <1>3, KeptFacts

\* The passes keep exactly what control can reach, with its flow, in order.
THEOREM KeepsFlow == Spec => []FlowPreserved
BY Invariance, IInvFlow, PTL

LEMMA IInvText == IInv => TextKeepsFlow
<1> SUFFICES ASSUME IInv, pass = "done", NEW f \in Func, NEW i \in DOMAIN order[f]
             PROVE  /\ TextFlow(f, i) = {<<f, t>> : t \in Flow(f, order[f][i])}
                    /\ Op(f, order[f][i]) \in {"goto", "if"} =>
                         Labelled(where[f][order[f][i]]) = {<<f, Target(f, order[f][i])>>}
  BY DEF TextKeepsFlow
<1> DEFINE s == order[f][i]
           jump == Labelled(where[f][s])
           fall == IF i < Len(order[f]) THEN {<<f, order[f][i + 1]>>} ELSE {}
<1>1. /\ ~InGraphLoop /\ s \in ToSet(order[f]) /\ s \in Stmts(f) /\ program \in Programs
      /\ Flow(f, s) \subseteq ToSet(order[f])
  BY KeptFacts DEF ToSet, IInv, LoopsRight
<1>2. /\ order[f] \in Seq(Stmts(f)) /\ Stmts(f) \subseteq Nat
      /\ \A k, l \in DOMAIN order[f] : k < l => order[f][k] < order[f][l]
  BY KeptFacts DEF IInv, OrderRight
<1> HIDE DEF s
<1>3. PICK b \in blocks[f] : b <= s /\ s <= ExitOf(f, b)
  BY <1>1, KeptFacts
<1>4. ASSUME Op(f, s) \in {"goto", "if"}
      PROVE  jump = {<<f, Target(f, s)>>}
  <2>1. IsBlockExit(f, s)
    <3>1. s = ExitOf(f, b)
      BY <1>1, <1>3, <1>4, SuccStmtsAreFlow
    <3> QED BY <3>1 DEF IsBlockExit
  <2>2. /\ labels[f][Target(f, s)] # NoLabel /\ where[f][s] = labels[f][Target(f, s)]
    <3>1. Relabelled(f)
      BY <1>1 DEF Relabelled
    <3>2. JumpRight(f, s)
      BY <1>1, <3>1 DEF IInv, LabelsRight
    <3> QED BY <1>4, <2>1, <3>2 DEF JumpRight
  <2>3. Target(f, s) \in ToSet(order[f])
    <3>1. Target(f, s) \in Flow(f, s)
      BY <1>4 DEF Flow
    <3> QED BY <1>1, <3>1
  <2>4. \A g \in Func : \A t \in ToSet(order[g]) :
            labels[g][t] = labels[f][Target(f, s)] => g = f /\ t = Target(f, s)
    BY <2>2, <2>3, KeptFacts DEF IInv, LabelsUnique
  <2>5. Labelled(labels[f][Target(f, s)]) = {<<f, Target(f, s)>>}
    BY <2>3, <2>4 DEF Labelled
  <2> QED BY <2>2, <2>5
<1>5. ASSUME Op(f, s) \in {"if", "other"}
      PROVE  ToSet(Follows(f, s)) = {s + 1} /\ fall = {<<f, s + 1>>}
  <2>1. s + 1 \in Stmts(f)
    BY <1>1, <1>5, ProgramFacts
  <2>2. ToSet(Follows(f, s)) = {s + 1}
    BY <1>1, <2>1, FollowsFacts
  <2>3. s + 1 \in Flow(f, s)
    BY <1>5, <2>2 DEF Flow
  <2>4. PICK j \in DOMAIN order[f] : order[f][j] = s + 1
    BY <1>1, <2>3 DEF ToSet
  <2>5. i \in 1 .. Len(order[f]) /\ j \in 1 .. Len(order[f]) /\ Len(order[f]) \in Nat
    BY <1>2
  <2>6. \A k \in 1 .. Len(order[f]) : order[f][k] \in Nat
    BY <1>2, ElementOfSeq
  <2>7. i < j
    BY <1>2, <2>4, <2>5, <2>6 DEF s
  <2>8. j = i + 1
    <3> SUFFICES ASSUME i + 1 < j PROVE FALSE
      BY <2>5, <2>7
    <3>1. order[f][i] < order[f][i + 1] /\ order[f][i + 1] < order[f][j]
      BY <1>2, <2>5
    <3> QED BY <2>4, <2>5, <2>6, <3>1 DEF s
  <2> QED BY <2>2, <2>4, <2>5, <2>8
<1>6. TextFlow(f, i) = {<<f, t>> : t \in Flow(f, s)}
  <2>1. CASE Op(f, s) = "goto"
    <3>1. TextFlow(f, i) = jump /\ Flow(f, s) = {Target(f, s)}
      BY <2>1 DEF TextFlow, Flow, s
    <3> QED BY <1>4, <2>1, <3>1
  <2>2. CASE Op(f, s) = "if"
    <3>1. TextFlow(f, i) = jump \cup fall /\ Flow(f, s) = {Target(f, s)} \cup ToSet(Follows(f, s))
      BY <2>2 DEF TextFlow, Flow, s
    <3>2. TextFlow(f, i) = {<<f, Target(f, s)>>, <<f, s + 1>>} /\ Flow(f, s) = {Target(f, s), s + 1}
      BY <1>4, <1>5, <2>2, <3>1
    <3> QED BY <3>2
  <2>3. CASE Op(f, s) = "ret"
    <3>1. TextFlow(f, i) = {} /\ Flow(f, s) = {}
      BY <2>3 DEF TextFlow, Flow, s
    <3> QED BY <3>1
  <2>4. CASE Op(f, s) = "other"
    <3>1. TextFlow(f, i) = fall /\ Flow(f, s) = ToSet(Follows(f, s))
      BY <2>4 DEF TextFlow, Flow, s
    <3> QED BY <1>5, <2>4, <3>1
  <2> QED BY <1>1, <2>1, <2>2, <2>3, <2>4, ProgramFacts
<1> QED BY <1>4, <1>6 DEF s

\* In the text that is emitted every jump finds exactly one label, the right
\* one, and every fall through the right statement.
THEOREM TextRight == Spec => []TextKeepsFlow
BY Invariance, IInvText, PTL


LEMMA IInvLive == IInv => FitsLiveness
<1> SUFFICES ASSUME IInv, pass = "done", NEW f \in Func
             PROVE  /\ \A s \in ToSet(order[f]) : \A t \in stmtSuccs[f][s] : s \in stmtPreds[f][t]
                    /\ \A t \in ToSet(order[f]) : \A s \in stmtPreds[f][t] :
                         t \notin stmtSuccs[f][s] => s \notin ToSet(order[f]) /\ stmtSuccs[f][s] = {}
                    /\ \A s \in ToSet(order[f]) : s \notin stmtSuccs[f][s]
  BY DEF FitsLiveness
<1>1. /\ program \in Programs /\ EntriesMade(f) /\ ExitsMade(f) /\ SuccsMade(f) /\ PredsMade(f)
      /\ blocks[f] \subseteq entries[f] /\ entries[f] \subseteq Stmts(f)
      /\ \A b \in blocks[f] : ToSet(succs[f][b]) \subseteq blocks[f]
  BY KeptFacts, BlockFacts DEF IInv, LoopsRight
<1>2. /\ ToSet(order[f]) \subseteq Stmts(f) /\ Stmts(f) \subseteq Nat
      /\ \A s \in Stmts(f) : s \in ToSet(order[f]) <=>
            \E b \in blocks[f] : b <= s /\ s <= ExitOf(f, b)
      /\ \A s \in ToSet(order[f]) :
            stmtSuccs[f][s] = Flow(f, s) /\ Flow(f, s) \subseteq ToSet(order[f])
  BY KeptFacts
<1>3. \A s \in Stmts(f) : stmtSuccs[f][s] = SuccStmts(f, s) /\ stmtPreds[f][s] = PredStmts(f, s)
  BY DEF IInv, LinksRight, Linked
<1>4. \A b \in entries[f] : /\ b \in Nat /\ ExitOf(f, b) \in Stmts(f) /\ b <= ExitOf(f, b)
                            /\ DOMAIN succs[f][b] \subseteq {1, 2}
  BY <1>1, <1>2, ExitFacts, SuccFacts DEF SuccsMade
<1>5. \A t \in Stmts(f) : preds[f][t] =
        {p \in entries[f] \X {1, 2} : p[2] \in DOMAIN succs[f][p[1]] /\ succs[f][p[1]][p[2]] = t}
  BY <1>1 DEF SuccsMade, PredsMade, PredBlocks
<1>6. ASSUME NEW s \in ToSet(order[f]), NEW t \in stmtSuccs[f][s]
      PROVE  s \in stmtPreds[f][t]
  <2>1. s \in Stmts(f) /\ t \in Stmts(f) /\ t \in SuccStmts(f, s)
    BY <1>2, <1>3, <1>6
  <2>2. CASE WithinBlock(f, s, t)
    BY <1>3, <2>1, <2>2 DEF PredStmts
  <2>3. ASSUME NEW b \in blocks[f], s = ExitOf(f, b), t \in ToSet(succs[f][b])
        PROVE  s \in stmtPreds[f][t]
    <3>1. PICK k \in DOMAIN succs[f][b] : succs[f][b][k] = t
      BY <2>3 DEF ToSet
    <3>2. <<b, k>> \in preds[f][t]
      BY <1>1, <1>4, <1>5, <2>1, <3>1
    <3>3. t \in blocks[f]
      BY <1>1, <2>3
    <3>4. ExitOf(f, <<b, k>>[1]) \in PredStmts(f, t)
      BY <3>2, <3>3 DEF PredStmts
    <3> QED BY <1>3, <2>1, <2>3, <3>4
  <2> QED BY <2>1, <2>2, <2>3 DEF SuccStmts
<1>7. ASSUME NEW t \in ToSet(order[f]), NEW s \in stmtPreds[f][t], t \notin stmtSuccs[f][s]
      PROVE  s \notin ToSet(order[f]) /\ stmtSuccs[f][s] = {}
  <2>1. t \in Stmts(f) /\ s \in PredStmts(f, t)
    BY <1>2, <1>3, <1>7
  <2>2. ~(s \in Stmts(f) /\ WithinBlock(f, s, t))
    BY <1>3, <1>7, <2>1 DEF SuccStmts
  <2>3. PICK p \in preds[f][t] : s = ExitOf(f, p[1]) /\ t \in blocks[f]
    BY <2>1, <2>2 DEF PredStmts
  <2> DEFINE d == p[1]
  <2>4. /\ d \in entries[f] /\ s = ExitOf(f, d) /\ s \in Stmts(f) /\ d <= s
        /\ t \in ToSet(succs[f][d])
    BY <1>4, <1>5, <2>1, <2>3 DEF ToSet
  <2> HIDE DEF d
  <2>5. d \notin blocks[f]
    <3> SUFFICES ASSUME d \in blocks[f] PROVE FALSE
      OBVIOUS
    <3>1. t \in SuccStmts(f, s)
      BY <2>4 DEF SuccStmts
    <3> QED BY <1>3, <1>7, <2>4, <3>1
  <2>6. \A b \in blocks[f] : ~(b <= s /\ s <= ExitOf(f, b))
    <3> SUFFICES ASSUME NEW b \in blocks[f], b <= s, s <= ExitOf(f, b) PROVE FALSE
      OBVIOUS
    <3>1. s <= ExitOf(f, d)
      BY <1>2, <2>4
    <3>2. b = d
      BY <1>1, <2>4, <3>1, BlocksApart
    <3> QED BY <2>5, <3>2
  <2>7. \A b \in blocks[f] : s # ExitOf(f, b)
    BY <1>1, <1>2, <1>4, <2>6
  <2>8. \A u : ~WithinBlock(f, s, u)
    <3> SUFFICES ASSUME NEW b \in blocks[f], b <= s, s + 1 <= ExitOf(f, b) PROVE FALSE
      BY DEF WithinBlock
    <3>1. ExitOf(f, b) \in Nat /\ s \in Nat
      BY <1>1, <1>2, <1>4, <2>4
    <3> QED BY <2>6, <3>1
  <2>9. SuccStmts(f, s) = {}
    <3>1. {c \in blocks[f] : s = ExitOf(f, c)} = {}
      BY <2>7
    <3>2. UNION {ToSet(succs[f][c]) : c \in {c \in blocks[f] : s = ExitOf(f, c)}} = {}
      BY <3>1
    <3>3. {u \in Stmts(f) : WithinBlock(f, s, u)} = {}
      BY <2>8
    <3> QED BY <3>2, <3>3 DEF SuccStmts
  <2> QED BY <1>2, <1>3, <2>4, <2>6, <2>9
<1>8. ASSUME NEW s \in ToSet(order[f])
      PROVE  s \notin stmtSuccs[f][s]
  <2>1. s \in Stmts(f) /\ s \in Nat /\ stmtSuccs[f][s] = Flow(f, s)
    BY <1>2
  <2>2. s \notin ToSet(Follows(f, s))
    BY <1>1, <2>1, FollowsFacts
  <2>3. Op(f, s) \in {"goto", "if"} => Target(f, s) # s
    BY <1>1, <2>1, ProgramFacts
  <2>4. CASE Op(f, s) = "goto"
    BY <2>1, <2>3, <2>4, Zenon DEF Flow
  <2>5. CASE Op(f, s) = "if"
    BY <2>1, <2>2, <2>3, <2>5, Zenon DEF Flow
  <2>6. CASE Op(f, s) = "ret"
    BY <2>1, <2>6, Zenon DEF Flow
  <2>7. CASE Op(f, s) = "other"
    BY <2>1, <2>2, <2>7, Zenon DEF Flow
  <2> QED BY <1>1, <2>1, <2>4, <2>5, <2>6, <2>7, ProgramFacts
<1> QED BY <1>6, <1>7, <1>8

\* What is linked is a flow graph in the sense of Liveness; a dead pred is no
\* statement of the function and leads nowhere.
THEOREM LinksFitLiveness == Spec => []FitsLiveness
BY Invariance, IInvLive, PTL


=============================================================================
