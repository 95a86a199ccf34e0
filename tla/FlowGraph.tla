----------------------------- MODULE FlowGraph ------------------------------
(***************************************************************************)
(* The flow graph of each function and the order of its statements:        *)
(* gen_control_flow_graph, set_stmt_pred_succ and order_stmts              *)
(* (backend/dataflow.cpp:4-199), one function after the other.             *)
(*                                                                         *)
(* A function is a sequence of statements [op, to].  The op is "goto",     *)
(* "if", "ret" or "other"; the label a jump names is, through              *)
(* label_to_node_, the statement to.  A block goes by its first statement, *)
(* and blocks_ is always in the order of these, so it is a set here.       *)
(***************************************************************************)
EXTENDS Integers, Sequences, SequencesExt, FiniteSets, FiniteSetsExt

CONSTANT Programs   \* the programs considered: sequences of functions

NoLabel == -1

\* A function has a statement (asserted in dataflow.cpp:26) and its last is a
\* return (c_gen_e.cpp:161-169); label_to_node_ finds the label of every jump,
\* and no jump is to itself (c_gen_e.cpp:256-321).
IsFunction(fn) ==
    /\ fn \in Seq([op : {"goto", "if", "ret", "other"}, to : DOMAIN fn])
    /\ fn # << >>
    /\ fn[Len(fn)].op = "ret"
    /\ \A s \in DOMAIN fn : fn[s].op \in {"goto", "if"} => fn[s].to # s

IsProgram(p) ==
    /\ DOMAIN p = 1 .. Len(p) /\ Len(p) \in Nat \ {0}
    /\ \A f \in DOMAIN p : IsFunction(p[f])

ASSUME ProgramAssumption == \A p \in Programs : IsProgram(p)

VARIABLES
    program,    \* stmts_ of each function as parsed, fixed
    pass,       \* the loop that is running
    func,       \* the function it has come to
    entries,    \* statements with is_entry_ and with is_exit_, by function
    exits,
    blocks,     \* blocks_
    succs,      \* succs_ of each block, in order
    preds,      \* preds_ of each block: <<b, k>> for b with it as k-th of succs_
    visited,    \* blocks with is_vis_
    labels,     \* labels_ of a statement, after relabelling at most one
    where,      \* where_ of a jump
    total,      \* total_blk_cnt
    stmtSuccs,  \* succs_ and preds_ of each statement, sets here
    stmtPreds,
    order       \* stmts_ at the end; stmtno_ is the position, from 0

vars == <<program, pass, func, entries, exits, blocks, succs, preds, visited,
          labels, where, total, stmtSuccs, stmtPreds, order>>

Func == DOMAIN program
Stmts(f) == DOMAIN program[f]
Op(f, s) == program[f][s].op
Target(f, s) == program[f][s].to
Follows(f, s) == IF s + 1 \in Stmts(f) THEN <<s + 1>> ELSE << >>

\* Mutants that the run must tell from the definition that follows each of
\* them: JumpTargetsOfGotos, SuccBlocksWithoutFallThrough,
\* NeedsLabelUnlessSomePredFallsThrough and PredStmtsAcrossBlocks.

-----------------------------------------------------------------------------
PerFunc(value) == [f \in Func |-> value]
PerStmt(value) == [f \in Func |-> [s \in Stmts(f) |-> value]]

Init ==
    /\ program \in Programs
    /\ pass = "mark"
    /\ func = 1
    /\ entries = PerFunc({}) /\ exits = PerFunc({})
    /\ blocks = PerFunc({})
    /\ succs = PerStmt(<< >>) /\ preds = PerStmt({})
    /\ visited = PerFunc({})
    /\ labels = PerStmt(NoLabel) /\ where = PerStmt(NoLabel)
    /\ total = 0
    /\ stmtSuccs = PerStmt({}) /\ stmtPreds = PerStmt({})
    /\ order = PerFunc(<< >>)

Graph == <<blocks, succs, preds, visited>>
Labelling == <<labels, where, total>>
Linking == <<stmtSuccs, stmtPreds, order>>

\* A loop over the functions turns to the next, or the next loop starts.
EndOfTurn(this, next) ==
    IF func < Len(program) THEN pass' = this /\ func' = func + 1
                           ELSE pass' = next /\ func' = 1

-----------------------------------------------------------------------------
JumpTargetsOfGotos(f) == {Target(f, s) : s \in {s \in Stmts(f) : Op(f, s) = "goto"}}

JumpTargets(f) == {Target(f, s) : s \in {s \in Stmts(f) : Op(f, s) \in {"goto", "if"}}}
AfterIfs(f) == UNION {ToSet(Follows(f, s)) : s \in {s \in Stmts(f) : Op(f, s) = "if"}}

\* The first traversal: is_entry_, and is_exit_ of jumps and returns.
MarkEntries ==
    /\ pass = "mark"
    /\ entries' = [entries EXCEPT ![func] = {1} \cup JumpTargets(func) \cup AfterIfs(func)]
    /\ exits' = [exits EXCEPT ![func] = {s \in Stmts(func) : Op(func, s) # "other"}]
    /\ pass' = "exits"
    /\ UNCHANGED <<program, func, Graph, Labelling, Linking>>

\* The second traversal: is_exit_ of the last statement and before entries.
MarkExits ==
    /\ pass = "exits"
    /\ exits' = [exits EXCEPT ![func] =
                    @ \cup {s \in Stmts(func) : ToSet(Follows(func, s)) \subseteq entries[func]}]
    /\ pass' = "blocks"
    /\ UNCHANGED <<program, func, entries, Graph, Labelling, Linking>>

\* The statements from an entry on up to the first exit.
ExitOf(f, b) == Min({s \in exits[f] : s >= b})
StmtsOf(f, b) == [i \in 1 .. ExitOf(f, b) - b + 1 |-> b + i - 1]

SuccBlocksWithoutFallThrough(f, b) ==
    LET s == ExitOf(f, b)
    IN  CASE Op(f, s) \in {"goto", "if"} -> <<Target(f, s)>>
          [] Op(f, s) = "ret"   -> << >>
          [] Op(f, s) = "other" -> Follows(f, s)

\* For an if the target comes first, then the statement that follows.
SuccBlocks(f, b) ==
    LET s == ExitOf(f, b)
    IN  CASE Op(f, s) = "goto"  -> <<Target(f, s)>>
          [] Op(f, s) = "if"    -> <<Target(f, s)>> \o Follows(f, s)
          [] Op(f, s) = "ret"   -> << >>
          [] Op(f, s) = "other" -> Follows(f, s)

\* A block is among preds_ of another once for every time that is among its
\* succs_.
PredBlocks(f, t) ==
    {p \in entries[f] \X {1, 2} :
        p[2] \in DOMAIN SuccBlocks(f, p[1]) /\ SuccBlocks(f, p[1])[p[2]] = t}

\* The third and fourth traversals.
MakeBlocks ==
    /\ pass = "blocks"
    /\ blocks' = [blocks EXCEPT ![func] = entries[func]]
    /\ succs' = [succs EXCEPT ![func] =
            [b \in Stmts(func) |-> IF b \in entries[func] THEN SuccBlocks(func, b) ELSE << >>]]
    /\ preds' = [preds EXCEPT ![func] = [t \in Stmts(func) |-> PredBlocks(func, t)]]
    /\ pass' = "visit"
    /\ UNCHANGED <<program, func, entries, exits, visited, Labelling, Linking>>

\* One call of CFG_dfs that finds its block not visited.
Reachable(f) == {1} \cup UNION {ToSet(succs[f][b]) : b \in visited[f]}

VisitBlock(b) ==
    /\ pass = "visit"
    /\ b \in Reachable(func) \ visited[func]
    /\ visited' = [visited EXCEPT ![func] = @ \cup {b}]
    /\ UNCHANGED <<program, pass, func, entries, exits, blocks, succs, preds, Labelling, Linking>>

\* Blocks not visited leave blocks_, but not preds_ of the others.
DropDeadBlocks ==
    /\ pass = "visit"
    /\ Reachable(func) \subseteq visited[func]
    /\ blocks' = [blocks EXCEPT ![func] = @ \cap visited[func]]
    /\ EndOfTurn("mark", "label")
    /\ UNCHANGED <<program, entries, exits, succs, preds, visited, Labelling, Linking>>

-----------------------------------------------------------------------------
\* The visited blocks are numbered from 0.
BlockId(f, b) == Cardinality({c \in blocks[f] : c < b})

IsBlockExit(f, s) == \E b \in blocks[f] : s = ExitOf(f, b)

\* b is what comes after the if that ends the block p[1].
FallsThroughIf(f, p, b) == Len(succs[f][p[1]]) = 2 /\ succs[f][p[1]][2] = b

NeedsLabelUnlessSomePredFallsThrough(f, b) ==
    preds[f][b] # {} /\ ~ \E p \in preds[f][b] : FallsThroughIf(f, p, b)

\* No label where control only arrives by falling through an if.
NeedsLabel(f, b) ==
    preds[f][b] # {} /\ ~ \E p \in preds[f][b] : preds[f][b] = {p} /\ FallsThroughIf(f, p, b)

\* The blocks of the program are numbered throughout.
Relabel ==
    /\ pass = "label"
    /\ labels' = [labels EXCEPT ![func] =
            [s \in Stmts(func) |->
                IF s \in blocks[func] /\ NeedsLabel(func, s)
                  THEN total + BlockId(func, s) ELSE NoLabel]]
    /\ where' = [where EXCEPT ![func] =
            [s \in Stmts(func) |->
                IF Op(func, s) \in {"goto", "if"} /\ IsBlockExit(func, s)
                  THEN total + BlockId(func, Target(func, s)) ELSE NoLabel]]
    /\ total' = total + Cardinality(blocks[func])
    /\ EndOfTurn("label", "link")
    /\ UNCHANGED <<program, entries, exits, Graph, Linking>>

-----------------------------------------------------------------------------
\* s comes right before t in a block.
WithinBlock(f, s, t) == \E b \in blocks[f] : b <= s /\ t = s + 1 /\ t <= ExitOf(f, b)

SuccStmts(f, s) ==
    (UNION {ToSet(succs[f][b]) : b \in {b \in blocks[f] : s = ExitOf(f, b)}})
    \cup {t \in Stmts(f) : WithinBlock(f, s, t)}

PredStmtsAcrossBlocks(f, s) ==
    IF s \in blocks[f] THEN {ExitOf(f, p[1]) : p \in preds[f][s]} ELSE {}

PredStmts(f, s) ==
    (IF s \in blocks[f] THEN {ExitOf(f, p[1]) : p \in preds[f][s]} ELSE {})
    \cup {t \in Stmts(f) : WithinBlock(f, t, s)}

\* set_stmt_pred_succ: edges between blocks, then within each block.
LinkStatements ==
    /\ pass = "link"
    /\ stmtSuccs' = [stmtSuccs EXCEPT ![func] = [s \in Stmts(func) |-> SuccStmts(func, s)]]
    /\ stmtPreds' = [stmtPreds EXCEPT ![func] = [s \in Stmts(func) |-> PredStmts(func, s)]]
    /\ EndOfTurn("link", "order")
    /\ UNCHANGED <<program, entries, exits, Graph, Labelling, order>>

\* order_stmts: the statements of one block after those of another.
BlocksToOrder == blocks[func] \ ToSet(order[func])

OrderBlock ==
    /\ pass = "order" /\ BlocksToOrder # {}
    /\ order' = [order EXCEPT ![func] = @ \o StmtsOf(func, Min(BlocksToOrder))]
    /\ UNCHANGED <<program, pass, func, entries, exits, Graph, Labelling, stmtSuccs, stmtPreds>>

EndOrder ==
    /\ pass = "order" /\ BlocksToOrder = {}
    /\ EndOfTurn("order", "done")
    /\ UNCHANGED <<program, entries, exits, Graph, Labelling, Linking>>

Next ==
    \/ MarkEntries \/ MarkExits \/ MakeBlocks
    \/ \E b \in Stmts(func) : VisitBlock(b)
    \/ DropDeadBlocks \/ Relabel \/ LinkStatements \/ OrderBlock \/ EndOrder

Spec == Init /\ [][Next]_vars

-----------------------------------------------------------------------------
\* The fields have their types; of a jump in a reachable block, where_ is
\* the number of a block of the program.
TypeOK ==
    /\ program \in Programs /\ func \in Func
    /\ pass \in {"mark", "exits", "blocks", "visit", "label", "link", "order", "done"}
    /\ total \in Nat
    /\ \A f \in Func :
        /\ entries[f] \subseteq Stmts(f) /\ exits[f] \subseteq Stmts(f)
        /\ visited[f] \subseteq entries[f] /\ blocks[f] \subseteq entries[f]
        /\ ToSet(order[f]) \subseteq Stmts(f)
        /\ \A s \in Stmts(f) :
            /\ succs[f][s] \in Seq(entries[f]) /\ preds[f][s] \subseteq entries[f] \X {1, 2}
            /\ stmtSuccs[f][s] \cup stmtPreds[f][s] \subseteq Stmts(f)
            /\ labels[f][s] < total /\ where[f][s] < total

\* Control enters a block at its first statement and leaves it at its last.
BlocksAreBasic ==
    \A f \in Func : \A b \in blocks[f], s \in Stmts(f) :
        (b <= s /\ s < ExitOf(f, b)) =>
            /\ Op(f, s) = "other"
            /\ \A t \in Stmts(f) : Op(f, t) \in {"goto", "if"} => Target(f, t) # s + 1

\* What a statement leads to in the Eeyore text as parsed.
Flow(f, s) ==
    CASE Op(f, s) = "goto"  -> {Target(f, s)}
      [] Op(f, s) = "if"    -> {Target(f, s)} \cup ToSet(Follows(f, s))
      [] Op(f, s) = "ret"   -> {}
      [] Op(f, s) = "other" -> ToSet(Follows(f, s))

Closed(f, S) == 1 \in S /\ \A s \in S : Flow(f, s) \subseteq S

\* The passes keep the statements that control can reach, and no other, in
\* their order and with the successors they had.
FlowPreserved ==
    pass = "done" =>
        \A f \in Func :
            LET kept == ToSet(order[f]) IN
            /\ Closed(f, kept)
            /\ \A S \in SUBSET Stmts(f) : Closed(f, S) => kept \subseteq S
            /\ \A i, j \in DOMAIN order[f] : i < j => order[f][i] < order[f][j]
            /\ \A s \in kept : stmtSuccs[f][s] = Flow(f, s)

\* Where control goes from the i-th statement of f in the text that
\* compile_eeyore emits: labels name a statement of the whole program.
Labelled(l) ==
    UNION {{<<f, s>> : s \in {s \in ToSet(order[f]) : labels[f][s] = l}} : f \in Func}

TextFlow(f, i) ==
    LET s == order[f][i]
        jump == Labelled(where[f][s])
        fall == IF i < Len(order[f]) THEN {<<f, order[f][i + 1]>>} ELSE {}
    IN  CASE Op(f, s) = "goto"  -> jump
          [] Op(f, s) = "if"    -> jump \cup fall
          [] Op(f, s) = "ret"   -> {}
          [] Op(f, s) = "other" -> fall

\* After unreachable blocks are gone and labels are renamed, dropped or
\* shared out anew, every jump still finds one label, the right one, and
\* every fall through the right statement.
TextKeepsFlow ==
    pass = "done" =>
        \A f \in Func : \A i \in DOMAIN order[f] :
            /\ TextFlow(f, i) = {<<f, t>> : t \in Flow(f, order[f][i])}
            /\ Op(f, order[f][i]) \in {"goto", "if"} =>
                    Labelled(where[f][order[f][i]]) = {<<f, Target(f, order[f][i])>>}

\* What liveness_analysis relies on (IsFlowGraph in Liveness): a statement
\* is among the preds_ of its successors, and a pred that leads nowhere is
\* no longer a statement of the function.
FitsLiveness ==
    pass = "done" =>
        \A f \in Func :
            LET kept == ToSet(order[f]) IN
            /\ \A s \in kept : \A t \in stmtSuccs[f][s] : s \in stmtPreds[f][t]
            /\ \A t \in kept : \A s \in stmtPreds[f][t] :
                    t \notin stmtSuccs[f][s] => s \notin kept /\ stmtSuccs[f][s] = {}
            /\ \A s \in kept : s \notin stmtSuccs[f][s]

=============================================================================
