---------------------------- MODULE EeyoreParser ----------------------------
(***************************************************************************)
(* From lines of Eeyore to statements: parse_eeyore (eeyore/e_parser.cpp)  *)
(* and the symbol table it fills (eeyore/e_symtab.cpp).                    *)
(*                                                                         *)
(* A line is a sequence of tokens, what >> reads from it up to a blank; a  *)
(* token is a tuple that begins with its kind.  The state of the parser is *)
(* a record with, for every function, its locals_, param_num_, stmts_ and  *)
(* label_to_node_, and with cur_func_, params_ and labels_.                *)
(***************************************************************************)
EXTENDS Integers, Sequences, SequencesExt, TLC

Word(w) == <<"word", w>>            \* var, end, if, goto, ..., operators
Num(n)  == <<"num", n>>
Func(f) == <<"f_", f>>
Elem(id, index) == <<"elem", id, index>>        \* id[index]
ParamNum(n) == <<"[]", n>>                      \* [n] in the head of a function
LabelId(l)  == <<"l", l>>                       \* l3: and the l3 of goto l3
Becomes == Word("=")

Global == <<"global">>              \* the "function" that is not one

RegisterFunc(p, f, n) ==
    [p EXCEPT !.func = f,
              !.locals = (f :> << >>) @@ @, !.paramNum = (f :> n) @@ @,
              !.stmts = (f :> << >>) @@ @,  !.labelToNode = (f :> << >>) @@ @]

RegisterVar(p, id, isArr, width) ==
    [p EXCEPT !.locals[p.func] = (id :> [isArr |-> isArr, width |-> width]) @@ @]

NoFunction ==
    [func |-> Global, locals |-> << >>, paramNum |-> << >>, stmts |-> << >>,
     labelToNode |-> << >>, params |-> << >>, labels |-> << >>]

\* ESymbolTable registers "global" first.
InitialTable == RegisterFunc(NoFunction, Global, 0)

\* add_stmt, and the labels seen since the last statement.
AddStmt(p, stmt) ==
    LET n == Len(p.stmts[p.func]) + 1
    IN  [p EXCEPT !.stmts[p.func] = Append(@, stmt),
                  !.labelToNode[p.func] = [l \in ToSet(p.labels) |-> n] @@ @,
                  !.labels = << >>]

ParseRval(t) == IF t[1] = "num" THEN [op |-> "num", val |-> t[2]] ELSE [op |-> "sym", id |-> t]

IsCall(ts) == Len(ts) = 2 /\ ts[1] = Word("call")

ParseExpr(ts, params) ==
    CASE Len(ts) = 3 -> [op |-> "bin", f |-> ts[2][2], lhs |-> ParseRval(ts[1]), rhs |-> ParseRval(ts[3])]
      [] IsCall(ts)  -> [op |-> "call", func |-> ts[2], params |-> params]
      [] Len(ts) = 2 /\ ~IsCall(ts) -> [op |-> "un", f |-> ts[1][2], arg |-> ParseRval(ts[2])]
      [] Len(ts) = 1 /\ ts[1][1] = "elem" ->
            [op |-> "arr", lhs |-> ParseRval(ts[1][2]), index |-> ParseRval(ts[1][3])]
      [] Len(ts) = 1 /\ ts[1][1] # "elem" -> ParseRval(ts[1])

\* params_ is used up by the call.
ParamsLeft(ts, params) == IF IsCall(ts) THEN << >> ELSE params

\* parse_eeyore_line: what the first token decides.
ParseLine(p, line) ==
    LET head == line[1]
        rest == SubSeq(line, 2, Len(line))
    IN
    CASE head = Word("var") ->
            IF line[2][1] = "num" THEN RegisterVar(p, line[3], TRUE, line[2][2])
                                  ELSE RegisterVar(p, line[2], FALSE, 0)
      [] head[1] = "f_" -> RegisterFunc(p, head, line[2][2])
      [] head = Word("end") -> [p EXCEPT !.func = Global]
      [] head = Word("if") ->
            AddStmt(p, [op |-> "if", to |-> line[6][2], cond |-> ParseExpr(SubSeq(line, 2, 4), << >>)])
      [] head = Word("goto") -> AddStmt(p, [op |-> "goto", to |-> line[2][2]])
      [] head = Word("param") -> [p EXCEPT !.params = Append(@, ParseRval(line[2]))]
      [] head = Word("call") ->
            AddStmt([p EXCEPT !.params = ParamsLeft(line, @)], ParseExpr(line, p.params))
      [] head = Word("return") -> AddStmt(p, [op |-> "return", val |-> [i \in DOMAIN rest |-> ParseRval(rest[i])]])
      [] head[1] = "l" -> [p EXCEPT !.labels = Append(@, head[2])]
      [] head[1] \in {"T", "t", "p", "elem"} ->
            LET rhs == SubSeq(line, 3, Len(line))
            IN  AddStmt([p EXCEPT !.params = ParamsLeft(rhs, @)],
                        [op |-> "assign", lhs |-> ParseExpr(<<head>>, << >>), rhs |-> ParseExpr(rhs, p.params)])

\* parse_eeyore; blank lines are left out.
ParseEeyore(lines) == FoldLeft(ParseLine, InitialTable, lines)

=============================================================================
