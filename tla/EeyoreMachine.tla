---------------------------- MODULE EeyoreMachine ---------------------------
(***************************************************************************)
(* What Eeyore code does once it has been parsed (EeyoreParser), on        *)
(* objects of four bytes per element.  A name is one of the function's     *)
(* locals, or else a global (ESymbolTable::find_var); params are objects   *)
(* of the function.  Calls, and the library, are as in SysYValues.         *)
(***************************************************************************)
EXTENDS EeyoreParser, SysYValues

\* State of the machine: the objects by function and name, the record of
\* calls, whether all accesses were to elements that exist, and the return.
Boot == [mem |-> << >>, log |-> << >>, ok |-> TRUE, done |-> FALSE, val |-> Undefined]

FindVar(p, id, f) ==
    IF id \in DOMAIN p.locals[f] \/ id[1] = "p" THEN <<f, id>> ELSE <<Global, id>>

IsArray(p, key) ==
    key[2] \in DOMAIN p.locals[key[1]] /\ p.locals[key[1]][key[2]].isArr

Elements(var) == IF var.isArr THEN var.width \div 4 ELSE 1

\* The objects of a function, with what is in them when it starts.
Allocate(p, f, v, m) ==
    [m EXCEPT !.mem = [key \in {<<f, id>> : id \in DOMAIN p.locals[f]} |->
                          [i \in 1 .. Elements(p.locals[f][key[2]]) |-> v]] @@ @]

RvalOf(p, f, e, m) ==
    IF e.op = "num" THEN Number(e.val)
    ELSE LET key == FindVar(p, e.id, f)
         IN  IF IsArray(p, key) THEN Place(key, 0) ELSE m.mem[key][1]

\* The address of lhs[index], and whether there is an element.
Address(p, f, e, m) ==
    LET a == RvalOf(p, f, e.lhs, m)
    IN  Place(a.base, a.off + RvalOf(p, f, e.index, m).off)

Exists(a, m) ==
    /\ a.base \in DOMAIN m.mem
    /\ a.off % 4 = 0 /\ a.off \div 4 \in 0 .. Len(m.mem[a.base]) - 1

Element4(a) == a.off \div 4 + 1

Write(a, v, m) ==
    IF Exists(a, m) THEN [m EXCEPT !.mem[a.base][Element4(a)] = v] ELSE [m EXCEPT !.ok = FALSE]

LibraryCall(f, args, m) ==
    LET seen(v) == IF IsNumber(v) \/ ~Exists(v, m) THEN <<v>> ELSE From(m.mem[v.base], Element4(v))
        called == [m EXCEPT !.log = Append(@, <<f, [i \in DOMAIN args |-> seen(args[i])]>>),
                            !.val = Answer(m.log)]
    IN  IF args # << >> /\ ~IsNumber(Last(args)) THEN Write(Last(args), Answer(m.log), called)
        ELSE called

\* An address may have a number added to it.
Sum(x, y) == IF IsNumber(y) THEN Place(x.base, x.off + y.off) ELSE Undefined

RECURSIVE Run(_, _, _, _), RunStmt(_, _, _, _)

After(m) == [v |-> m.val, m |-> m]

Expression(p, f, e, m) ==
    CASE e.op \in {"num", "sym"} -> [v |-> RvalOf(p, f, e, m), m |-> m]
      [] e.op = "arr" ->
            LET a == Address(p, f, e, m)
            IN  IF Exists(a, m) THEN [v |-> m.mem[a.base][Element4(a)], m |-> m]
                ELSE [v |-> Undefined, m |-> [m EXCEPT !.ok = FALSE]]
      [] e.op = "bin" ->
            LET x == RvalOf(p, f, e.lhs, m)
                y == RvalOf(p, f, e.rhs, m)
            IN  [v |-> IF e.f = "+" THEN Sum(x, y) ELSE Binary(e.f, x, y), m |-> m]
      [] e.op = "un" -> [v |-> Unary(e.f, RvalOf(p, f, e.arg, m)), m |-> m]
      [] e.op = "call" ->
            After(Run(p, e.func, [i \in DOMAIN e.params |-> RvalOf(p, f, e.params[i], m)], m))

SetLhs(p, f, lhs, x) ==
    IF lhs.op = "arr" THEN Write(Address(p, f, lhs, x.m), x.v, x.m)
    ELSE [x.m EXCEPT !.mem[FindVar(p, lhs.id, f)][1] = x.v]

\* Jumps are not among the statements that ValueGen generates.
RunStmt(p, f, s, m) ==
    CASE s.op = "assign" -> SetLhs(p, f, s.lhs, Expression(p, f, s.rhs, m))
      [] s.op = "call"   -> Expression(p, f, s, m).m
      [] s.op = "return" ->
            [m EXCEPT !.done = TRUE, !.val = IF s.val = << >> THEN Undefined ELSE RvalOf(p, f, s.val[1], m)]

RunAll(p, f, stmts, m) ==
    FoldLeft(LAMBDA acc, s : IF acc.done THEN acc ELSE RunStmt(p, f, s, acc), m, stmts)

Exit(m) == [m EXCEPT !.done = FALSE, !.val = IF m.done THEN @ ELSE Undefined]

\* A function of the program, or of the library.
Run(p, f, args, m) ==
    IF f \notin DOMAIN p.stmts THEN LibraryCall(f[2], args, m)
    ELSE LET params == [key \in {<<f, <<"p", i - 1>>>> : i \in DOMAIN args} |->
                            <<args[key[2][2] + 1]>>]
             entered == Allocate(p, f, Undefined, [m EXCEPT !.mem = params @@ @])
         IN  Exit(RunAll(p, f, p.stmts[f], entered))

\* Main, on global objects that begin with the given numbers.
RunProgram(p, data, main) ==
    Run(p, main, << >>, [Boot EXCEPT !.mem = [key \in {<<Global, id>> : id \in DOMAIN data} |->
                                                [i \in DOMAIN data[key[2]] |-> Number(data[key[2]][i])]]])

=============================================================================
