------------------------------ MODULE ValueGen ------------------------------
(***************************************************************************)
(* Code for declarations and expressions: CSymbolTable (sysy/c_symtab.cpp) *)
(* and the code_gen, const_fold and gen_temp of what is declared and       *)
(* computed (sysy/c_gen_e.cpp:23-246, 325-569), item by item in the order  *)
(* of the source; then the lines of Eeyore are parsed (EeyoreParser) and   *)
(* run (EeyoreMachine) next to the program (SysYValues).  Statements with  *)
(* labels are the subject of ControlGen.                                   *)
(***************************************************************************)
EXTENDS EeyoreMachine

CONSTANTS
    Templates,  \* the programs considered: a set of sequences of sets of items
    Library,    \* its functions: name -> [isVoid, params], a number of params
    Main        \* the name main

VARIABLES
    program, ahead,         \* the items of the program so far, what may follow
    symtab,                 \* c_sym_tab and temp_cnt
    body,                   \* codes_ of the items of the function
    text,                   \* the lines generated for whole functions and globals
    parsed,                 \* the symbol table of the Eeyore parser
    outcome                 \* what the program does: [meaning, result]

vars == <<program, ahead, symtab, body, text, parsed, outcome>>

IntSize == 4
Temp(n) == <<"t", n>>
Nowhere == ""

-----------------------------------------------------------------------------
\* CSymbolTable: the blocks on blk_stack_ map names to entries.
EmptyTable ==
    [blocks |-> << >>, vars |-> 0, params |-> 0, temps |-> 0, func |-> Nowhere,
     functions |-> [f \in DOMAIN Library |->
                        [isVoid |-> Library[f].isVoid, params |-> Library[f].params, locals |-> << >>]]]

InGlobalBlock(s) == Len(s.blocks) = 1

NewBlk(s) == [s EXCEPT !.blocks = Append(@, << >>)]

\* MUTANT: the number of params is not reset.
DeleteBlkOnly(s) == [s EXCEPT !.blocks = Front(@)]

DeleteBlk(s) ==
    LET popped == [s EXCEPT !.blocks = Front(@)]
    IN  IF InGlobalBlock(popped) THEN [popped EXCEPT !.params = 0, !.func = Nowhere] ELSE popped

RegisterFunction(s, f, isVoid) ==
    [s EXCEPT !.func = f,
              !.functions = (f :> [isVoid |-> isVoid, params |-> 0, locals |-> << >>]) @@ @]

\* register_var: an entry has its Eeyore id already.
Register(s, name, entry) ==
    LET registered == [s EXCEPT !.blocks[Len(s.blocks)] = (name :> entry) @@ @]
    IN  IF InGlobalBlock(s) THEN registered
        ELSE [registered EXCEPT !.functions[s.func].locals = Append(@, entry)]

Entry(id, widths, values, isConst, isArr) ==
    [id |-> id, widths |-> widths, values |-> values, isConst |-> isConst, isArr |-> isArr]

\* MUTANT: a temp is not declared.
NoTemp(s, n) == s

RegisterTemp(s, n) == Register(s, <<"#t", n>>, Entry(Temp(n), << >>, << >>, FALSE, FALSE))

RegisterParam(s, name, widths, isPtr) ==
    LET counted == [s EXCEPT !.params = @ + 1, !.functions[s.func].params = @ + 1]
    IN  Register(counted, name, Entry(<<"p", s.params>>, widths, << >>, FALSE, isPtr))

RegisterVariable(s, name, widths, values, isConst) ==
    Register([s EXCEPT !.vars = @ + 1], name,
             Entry(<<"T", s.vars>>, widths, values, isConst, widths # << >>))

\* find_var, from the innermost block on.
FindEntry(s, name) ==
    s.blocks[Max({i \in DOMAIN s.blocks : name \in DOMAIN s.blocks[i]})][name]

-----------------------------------------------------------------------------
\* Expressions after const_fold: a node, and the symbol table after it.
Folded(node, s) == [node |-> node, s |-> s]

Node(type, id, code) ==
    [type |-> type, val |-> 0, id |-> id, code |-> code, temped |-> FALSE]

NumNode(n) == [Node("NUM", <<Num(n)>>, << >>) EXCEPT !.val = n]

\* C's operators on constants.
Constant(f, a, b) ==
    CASE f = "+" -> a + b
      [] f = "-" -> a - b
      [] f = "*" -> a * b
      [] f = "/" -> Quotient(a, b)
      [] f = "%" -> a - b * Quotient(a, b)

\* CExpr::gen_temp and CCallExpr::gen_temp.
GenTemp(x) ==
    IF x.node.temped \/ x.node.type \in {"NUM", "VAR"} THEN x
    ELSE LET t == Temp(x.s.temps)
         IN  Folded([x.node EXCEPT !.code = Append(@, <<t, Becomes>> \o x.node.id),
                                   !.id = <<t>>, !.temped = TRUE],
                    RegisterTemp([x.s EXCEPT !.temps = @ + 1], x.s.temps))

\* CArithExpr::const_fold with two operands, folded, and with one.
FoldBinary(f, l, r, s) ==
    LET lhs == GenTemp(Folded(l, s))
        rhs == GenTemp(Folded(r, lhs.s))
        a == lhs.node
        b == rhs.node
    IN  Folded(IF a.type = "NUM" /\ b.type = "NUM" THEN NumNode(Constant(f, a.val, b.val))
               ELSE Node("ARITH",
                         IF f = "load" THEN <<Elem(a.id[1], b.id[1])>> ELSE a.id \o <<Word(f)>> \o b.id,
                         a.code \o b.code),
               rhs.s)

FoldUnary(f, x) ==
    LET arg == GenTemp(x)
        a == arg.node
    IN  Folded(IF a.type = "NUM" THEN NumNode(IF f = "-" THEN -a.val ELSE Truth(a.val = 0))
               ELSE Node("ARITH", <<Word(f)>> \o a.id, a.code),
               arg.s)

Scaled(x, n) == FoldBinary("*", x.node, NumNode(n), x.s)
Added(x, node) == FoldBinary("+", x.node, node, x.s)

\* MUTANT: scaled by the width of the dimension before.
IndexUnfoldBefore(index, widths) ==
    IF index.nodes = << >> THEN Folded(NumNode(0), index.s)
    ELSE FoldLeft(LAMBDA x, i : Added(Scaled(x, widths[i - 1]), index.nodes[i]),
                  Folded(index.nodes[1], index.s), [i \in 1 .. Len(index.nodes) - 1 |-> i + 1])

\* index_unfold: ((i0 * w1) + i1) * w2 + i2 ...
IndexUnfold(index, widths) ==
    IF index.nodes = << >> THEN Folded(NumNode(0), index.s)
    ELSE FoldLeft(LAMBDA x, i : Added(Scaled(x, widths[i]), index.nodes[i]),
                  Folded(index.nodes[1], index.s), [i \in 1 .. Len(index.nodes) - 1 |-> i + 1])

RECURSIVE ConstFold(_, _)

\* Each folded and given a temp: indices, params of a call, values.
AddNode(acc, x) == [nodes |-> Append(acc.nodes, x.node), s |-> x.s]

FoldAll(es, s) ==
    FoldLeft(LAMBDA acc, e : AddNode(acc, GenTemp(ConstFold(e, acc.s))), [nodes |-> << >>, s |-> s], es)

CodeOf(nodes) == FlattenSeq([i \in DOMAIN nodes |-> nodes[i].code])

\* CLValExpr::const_fold of an array: a load, or the address of a part.
FoldAccess(entry, isValue, offset) ==
    LET x == FoldBinary(IF isValue THEN "load" ELSE "+",
                        Node("VAR", <<entry.id>>, << >>), offset.node, offset.s)
    IN  [x EXCEPT !.node.type = IF isValue THEN "ARR" ELSE "PTR"]

FoldElement(entry, index) ==
    LET n == Len(index.nodes)
        isValue == n = Len(entry.widths)
        size == IF isValue THEN IntSize ELSE IntSize * Size(From(entry.widths, n + 1))
    IN  FoldAccess(entry, isValue, Scaled(IndexUnfold(index, entry.widths), size))

FoldLVal(e, s) ==
    LET entry == FindEntry(s, e.name)
    IN  IF entry.isArr THEN FoldElement(entry, FoldAll(e.index, s))
        ELSE Folded(IF entry.isConst THEN NumNode(entry.values[1])
                    ELSE Node("VAR", <<entry.id>>, << >>), s)

\* MUTANT: each argument is computed right before its param.
FoldCallByArgument(e, args) ==
    LET computed == [i \in DOMAIN e.args |->
                        Append(args.nodes[i].code, <<Word("param")>> \o args.nodes[i].id)]
    IN  Folded(Node("CALL", <<Word("call"), Func(e.func)>>, FlattenSeq(computed)), args.s)

\* CCallExpr::const_fold: the params come right before the call.
FoldCall(e, args) ==
    LET params == [i \in DOMAIN e.args |-> <<Word("param")>> \o args.nodes[i].id]
    IN  Folded(Node("CALL", <<Word("call"), Func(e.func)>>, CodeOf(args.nodes) \o params), args.s)

FoldPair(f, l, r) == FoldBinary(f, l.node, r.node, r.s)

ConstFold(e, s) ==
    CASE e.op = "num"  -> Folded(NumNode(e.val), s)
      [] e.op = "lval" -> FoldLVal(e, s)
      [] e.op = "un"   -> FoldUnary(e.f, ConstFold(e.arg, s))
      [] e.op = "call" -> FoldCall(e, FoldAll(e.args, s))
      [] e.op = "bin"  -> LET l == GenTemp(ConstFold(e.lhs, s)) IN FoldPair(e.f, l, ConstFold(e.rhs, l.s))

RECURSIVE SetValues(_, _, _, _)

\* set_values: a list is a row, filled up with 0 unless it begins within one.
AddValues(acc, x) ==
    [nodes |-> acc.nodes \o x.nodes, s |-> x.s, filled |-> acc.filled + Len(x.nodes)]

FillRow(widths, filled, all) ==
    LET missing == IF filled = 0 THEN Size(widths) - all.filled ELSE 0
    IN  [nodes |-> all.nodes \o [i \in 1 .. missing |-> NumNode(0)], s |-> all.s]

SetValues(widths, items, filled, s) ==
    IF widths = << >> THEN FoldAll(<<Head(items)>>, s)
    ELSE FillRow(widths, filled,
            FoldLeft(LAMBDA acc, item :
                        AddValues(acc, IF item.op = "list"
                                         THEN SetValues(Tail(widths), item.items,
                                                        acc.filled % Size(Tail(widths)), acc.s)
                                         ELSE FoldAll(<<item>>, acc.s)),
                     [nodes |-> << >>, s |-> s, filled |-> filled], items))

-----------------------------------------------------------------------------
\* Declarations and statements: lines of code, and the symbol table.
Generated(code, s) == [code |-> code, s |-> s]

VarLine(entry) ==
    IF entry.isArr THEN <<Word("var"), Num(IntSize * Size(entry.widths)), entry.id>>
                   ELSE <<Word("var"), entry.id>>

Initialization(entry, nodes) ==
    FlattenSeq([i \in DOMAIN nodes |->
        Append(nodes[i].code,
               <<IF entry.isArr THEN Elem(entry.id, Num((i - 1) * IntSize)) ELSE entry.id, Becomes>>
               \o nodes[i].id)])

ConstWidths(exprs, s) == [i \in DOMAIN exprs |-> ConstFold(exprs[i], s).node.val]

\* CVarDecl::code_gen, of variables and of params.
VarCode(entry, nodes, constants, s) ==
    Generated(IF ~InGlobalBlock(s) THEN Initialization(entry, nodes)
              ELSE IF entry.isArr THEN <<VarLine(entry)>>
              ELSE <<VarLine(entry), <<entry.id, Becomes, Num(constants[1])>>>>,
              s)

RegisterDecl(d, widths, values) ==
    LET constants == [i \in 1 .. Size(widths) |->
                        IF i \in DOMAIN values.nodes THEN values.nodes[i].val ELSE 0]
        registered == RegisterVariable(values.s, d.name, widths, constants, d.const)
    IN  VarCode(FindEntry(registered, d.name), values.nodes, constants, registered)

DeclCode(d, s) ==
    LET widths == ConstWidths(d.widths, s)
    IN  RegisterDecl(d, widths,
            IF d.init = << >> THEN [nodes |-> << >>, s |-> s]
            ELSE SetValues(widths, IF widths # << >> THEN d.init[1].items ELSE d.init, 0, s))

ParamCode(d, s) ==
    RegisterParam(s, d.name, (IF d.isPtr THEN <<0>> ELSE << >>) \o ConstWidths(d.widths, s), d.isPtr)

\* An element is assigned the temp of a value, and not its expression.
ValueFor(l, r) ==
    IF l.node.type = "ARR" THEN GenTemp(Folded(r.node, l.s)) ELSE Folded(r.node, l.s)

Assignment(id, code, value) ==
    Generated(Append(value.node.code \o code, id \o <<Becomes>> \o value.node.id), value.s)

\* MUTANT: the code of the indices on the left is left out.
AssignValueOnly(l, r) == Assignment(l.node.id, << >>, ValueFor(l, r))

AssignLhs(l, r) == Assignment(l.node.id, l.node.code, ValueFor(l, r))

AssignCode(lhs, rhs, s) ==
    LET r == ConstFold(rhs, s) IN AssignLhs(ConstFold(lhs, r.s), r)

\* CExprStmt::code_gen
CallCode(f, x) ==
    LET temped == GenTemp(x)
    IN  IF x.node.type # "CALL" THEN Generated(<< >>, x.s)
        ELSE IF x.s.functions[f].isVoid THEN Generated(Append(x.node.code, x.node.id), x.s)
        ELSE Generated(temped.node.code, temped.s)

ReturnValue(x) ==
    Generated(Append(CodeOf(x.nodes), <<Word("return")>> \o (IF x.nodes = << >> THEN << >> ELSE x.nodes[1].id)), x.s)

ReturnCode(val, s) == ReturnValue(FoldAll(val, s))

\* At the head of main: the elements of global arrays that are not 0.
GlobalArrays(s) ==
    LET set(entry) ==
            LET at == SelectSeq([i \in DOMAIN entry.values |-> i], LAMBDA i : entry.values[i] # 0)
            IN  [k \in DOMAIN at |-> <<Elem(entry.id, Num((at[k] - 1) * IntSize)), Becomes, Num(entry.values[at[k]])>>]
    IN  FoldSet(LAMBDA entry, code : code \o set(entry), << >>, {e \in Range(s.blocks[1]) : e.isArr})

FunctionCode(s, code) ==
    LET f == s.functions[s.func]
        locals == SelectSeq(f.locals, LAMBDA e : e.id[1] # "p")
    IN  <<<<Func(s.func), ParamNum(f.params)>>>>
        \o [i \in DOMAIN locals |-> VarLine(locals[i])]
        \o (IF s.func = Main THEN GlobalArrays(s) ELSE << >>)
        \o code
        \o <<<<Word("end"), Func(s.func)>>>>

-----------------------------------------------------------------------------
\* One item of the program after the other.
Init ==
    /\ program = << >> /\ ahead \in Templates
    /\ symtab = NewBlk(EmptyTable)
    /\ body = << >> /\ text = << >>
    /\ parsed = InitialTable
    /\ outcome = << >>

Choose(item) ==
    /\ program' = Append(program, item) /\ ahead' = Tail(ahead)
    /\ UNCHANGED <<parsed, outcome>>

\* code is generated where the item is: for the text, or for the function.
DeclareGlobal(d) ==
    /\ d.op = "decl" /\ InGlobalBlock(symtab)
    /\ Choose(d)
    /\ LET g == DeclCode(d, symtab) IN symtab' = g.s /\ text' = text \o g.code
    /\ UNCHANGED body

InBody(g) ==
    /\ symtab' = g.s
    /\ body' = body \o g.code
    /\ UNCHANGED text

DeclareLocal(d) ==
    /\ d.op = "decl" /\ ~InGlobalBlock(symtab)
    /\ Choose(d)
    /\ InBody(DeclCode(d, symtab))

\* The params and the body of a function share a block.
BeginFunction(f) ==
    /\ f.op = "func"
    /\ Choose(f)
    /\ symtab' = FoldLeft(LAMBDA s, d : ParamCode(d, s),
                          NewBlk([RegisterFunction(symtab, f.name, f.isVoid) EXCEPT !.temps = 0]),
                          f.params)
    /\ body' = << >>
    /\ UNCHANGED text

\* Braces around nothing generate nothing, and are left out.
OpenBlock(b) ==
    /\ b.op = "open"
    /\ Choose(b)
    /\ InBody(Generated(<< >>, NewBlk(symtab)))

CloseBlock(b) ==
    /\ b.op = "close"
    /\ Choose(b)
    /\ InBody(Generated(<< >>, DeleteBlk(symtab)))

AssignStmt(a) ==
    /\ a.op = "assign"
    /\ Choose(a)
    /\ InBody(AssignCode(a.lhs, a.rhs, symtab))

ExprStmt(x) ==
    /\ x.op = "expr"
    /\ Choose(x)
    /\ InBody(CallCode(x.e.func, ConstFold(x.e, symtab)))

RetStmt(x) ==
    /\ x.op = "return"
    /\ Choose(x)
    /\ InBody(ReturnCode(x.val, symtab))

\* The rest of CFuncDef::code_gen, with the man-made return.
EndFunction(x) ==
    /\ x.op = "end"
    /\ Choose(x)
    /\ LET isVoid == symtab.functions[symtab.func].isVoid
           manMade == ReturnCode(IF isVoid THEN << >> ELSE <<[op |-> "num", val |-> 0]>>, symtab)
           last == IF Last(program).op = "return" THEN Generated(<< >>, symtab) ELSE manMade
       IN  /\ text' = text \o FunctionCode(last.s, body \o last.code)
           /\ symtab' = DeleteBlk(last.s)
    /\ UNCHANGED body

GenerateCode ==
    ahead # << >> /\ \E item \in Head(ahead) :
        \/ DeclareGlobal(item) \/ BeginFunction(item) \/ EndFunction(item)
        \/ DeclareLocal(item) \/ OpenBlock(item) \/ CloseBlock(item)
        \/ AssignStmt(item) \/ ExprStmt(item) \/ RetStmt(item)

Parse ==
    /\ ahead = << >> /\ parsed = InitialTable
    /\ parsed' = ParseEeyore(text)
    /\ UNCHANGED <<program, ahead, symtab, body, text, outcome>>

-----------------------------------------------------------------------------
\* What the program means, and what its Eeyore code does.
FirstAfter(i, op) == Min({j \in i .. Len(program) : program[j].op = op})
Heads == {i \in DOMAIN program : program[i].op = "func"}
Functions ==
    [f \in {program[i].name : i \in Heads} |->
        LET i == CHOOSE j \in Heads : program[j].name = f
        IN  [params |-> program[i].params, items |-> SubSeq(program, i + 1, FirstAfter(i, "end") - 1)]]
InFunction(i) == \E j \in Heads : j <= i /\ i <= FirstAfter(j, "end")
GlobalItems ==
    LET at == SelectSeq([i \in DOMAIN program |-> i], LAMBDA i : ~InFunction(i))
    IN  [k \in DOMAIN at |-> program[at[k]]]

\* The data of the globals, from compile_eeyore and parse_compile_tigger:
\* .comm for an array, else .word with the number of the first statement
\* that assigns to the variable.
GlobalData(p) ==
    [id \in DOMAIN p.locals[Global] |->
        LET var == p.locals[Global][id]
            stmts == p.stmts[Global]
            first == Min({i \in DOMAIN stmts : stmts[i].lhs.id = id})
        IN  IF var.isArr THEN [i \in 1 .. var.width \div IntSize |-> 0] ELSE <<stmts[first].rhs.val>>]

Execute ==
    /\ parsed # InitialTable /\ outcome = << >>
    /\ outcome' = <<Meaning(GlobalItems, Functions, Main), RunProgram(parsed, GlobalData(parsed), Func(Main))>>
    /\ UNCHANGED <<program, ahead, symtab, body, text, parsed>>

Next == GenerateCode \/ Parse \/ Execute

Spec == Init /\ [][Next]_vars

-----------------------------------------------------------------------------
IsParsed == parsed # InitialTable

\* The symbol table is that of the place in the program: blocks as deep as
\* the braces, no function and no params left outside of functions.
TypeOK ==
    LET count(op) == Len(SelectSeq(program, LAMBDA item : item.op = op))
    IN  /\ Len(symtab.blocks) = 1 + count("func") - count("end") + count("open") - count("close")
        /\ {symtab.vars, symtab.params, symtab.temps} \subseteq Nat
        /\ InGlobalBlock(symtab) => symtab.func = Nowhere /\ symtab.params = 0
        /\ \A i \in DOMAIN text : text[i] # << >>

\* The expressions of a statement, the names in one, the name it assigns.
Names(e) ==
    LET among(rvals) == {v.id : v \in {r \in rvals : r.op = "sym"}}
    IN  CASE e.op \in {"num", "sym"} -> among({e})
          [] e.op = "arr"  -> among({e.lhs, e.index})
          [] e.op = "bin"  -> among({e.lhs, e.rhs})
          [] e.op = "un"   -> among({e.arg})
          [] e.op = "call" -> among(ToSet(e.params))

Assigned(stmt) == IF stmt.op = "assign" /\ stmt.lhs.op = "sym" THEN {stmt.lhs.id} ELSE {}

Evaluated(stmt) ==
    CASE stmt.op = "call"   -> {stmt}
      [] stmt.op = "return" -> ToSet(stmt.val)
      [] stmt.op = "assign" -> {stmt.rhs} \cup (IF stmt.lhs.op = "arr" THEN {stmt.lhs} ELSE {})

Used(stmt) == UNION {Names(e) : e \in Evaluated(stmt)}

\* Every name in a function is one of its params, temps and variables, or a
\* global variable, and no variable is declared in two functions.
NamesResolve ==
    IsParsed =>
        \A f \in DOMAIN parsed.stmts :
            /\ \A stmt \in ToSet(parsed.stmts[f]) : \A id \in Used(stmt) \cup Assigned(stmt) :
                    \/ id[1] = "p" /\ id[2] < parsed.paramNum[f]
                    \/ id \in DOMAIN parsed.locals[f]
                    \/ id[1] = "T" /\ id \in DOMAIN parsed.locals[Global]
            /\ \A g \in DOMAIN parsed.locals \ {f} :
                    \A id \in DOMAIN parsed.locals[f] \cap DOMAIN parsed.locals[g] : id[1] = "t"

\* The value in a temp is that of one expression, computed before its use.
TempsBeforeUse ==
    IsParsed =>
        \A f \in DOMAIN parsed.stmts :
            LET stmts == parsed.stmts[f]
                computed(t) == {i \in DOMAIN stmts : t \in Assigned(stmts[i])}
            IN  \A i \in DOMAIN stmts : \A t \in {id \in Used(stmts[i]) : id[1] = "t"} :
                    \E j \in 1 .. i - 1 : computed(t) = {j}

\* The parser, which has one list of params for the calls that it has not
\* seen yet, gives each call as many as its function takes, and none is left.
CallsGetTheirParams ==
    IsParsed =>
        /\ parsed.params = << >>
        /\ \A f \in DOMAIN parsed.stmts : \A stmt \in ToSet(parsed.stmts[f]) :
                \A call \in {e \in Evaluated(stmt) : e.op = "call"} :
                    Len(call.params) = IF call.func \in DOMAIN parsed.paramNum
                                         THEN parsed.paramNum[call.func]
                                         ELSE Library[call.func[2]].params

ObjectIds(f) ==
    SelectSeq([i \in 1 .. symtab.vars |-> <<"T", i - 1>>], LAMBDA id : id \in DOMAIN parsed.locals[f])

\* An object has the contents it should have, where they are defined.
SameContents(objects, f, m) ==
    LET ids == ObjectIds(f)
    IN  /\ Len(ids) = Len(objects)
        /\ \A i \in DOMAIN ids :
            LET cells == m.mem[<<f, ids[i]>>]
            IN  /\ Len(cells) = Len(objects[i][2])
                /\ \A j \in DOMAIN cells : objects[i][2][j] \in {Undefined, cells[j]}

\* The code calls the same functions with the same arguments in the same
\* order as the program does, returns the same, and leaves the same in every
\* global variable and every variable of main, each of which it has, and it
\* touches only elements that exist.
SameOutcome ==
    outcome # << >> =>
        LET r == outcome[1]
            m == outcome[2]
        IN  /\ m.ok /\ m.log = r.log /\ r.val \in {Undefined, m.val}
            /\ SameContents(Objects(r, "global"), Global, m)
            /\ SameContents(Objects(r, Main), Func(Main), m)

=============================================================================
