----------------------------- MODULE SysYValues -----------------------------
(***************************************************************************)
(* What declarations, expressions, assignments and calls of SysY mean: the *)
(* reference for the code that ValueGen generates.                         *)
(*                                                                         *)
(* A value is a number or a place in an object, as an array is when it is  *)
(* passed; an object is a sequence of values.  A function is its params    *)
(* and items, where "open" and "close" are the braces of blocks:           *)
(*   [op |-> "decl", name, widths, init, const], init of at most one       *)
(*   initializer, an expression or [op |-> "list", items];                 *)
(*   [op |-> "assign", lhs, rhs]; [op |-> "expr", e];                      *)
(*   [op |-> "return", val], val of at most one expression.                *)
(* An expression is [op |-> "num", val], [op |-> "lval", name, index],     *)
(* [op |-> "bin", f, lhs, rhs], [op |-> "un", f, arg] or [op |-> "call",   *)
(* func, args].  Operands and arguments are evaluated from left to right.  *)
(***************************************************************************)
EXTENDS Integers, Sequences, SequencesExt, FiniteSetsExt, TLC

Number(n) == [base |-> << >>, off |-> n]
Place(base, off) == [base |-> base, off |-> off]
Undefined == Place(<<"undefined">>, 0)
IsNumber(v) == v.base = << >>

Size(widths) == FoldLeft(LAMBDA n, w : n * w, 1, widths)
From(s, i) == SubSeq(s, i, Len(s))

Magnitude(n) == IF n < 0 THEN -n ELSE n
Quotient(a, b) ==
    LET q == Magnitude(a) \div Magnitude(b) IN IF (a < 0) = (b < 0) THEN q ELSE -q
Truth(b) == IF b THEN 1 ELSE 0

Arithmetic(f, a, b) ==
    CASE f = "+" -> a + b
      [] f = "-" -> a - b
      [] f = "*" -> a * b
      [] f = "/" -> Quotient(a, b)
      [] f = "%" -> a - b * Quotient(a, b)

Binary(f, x, y) == IF IsNumber(x) /\ IsNumber(y) THEN Number(Arithmetic(f, x.off, y.off)) ELSE Undefined

Unary(f, x) ==
    CASE ~IsNumber(x) -> Undefined
      [] IsNumber(x) /\ f = "-" -> Number(-x.off)
      [] IsNumber(x) /\ f = "!" -> Number(Truth(x.off = 0))

\* Functions of the runtime library.  What they get is on record, with the
\* elements of an array; those that return a number return another each
\* time, and getarray leaves it in the array.
Answer(log) == Number(7 + Len(log))

-----------------------------------------------------------------------------
\* The state of a program: its functions, the objects and the functions they
\* belong to, the scopes from the outermost on, the record of calls, the
\* function that runs, whether it has returned, and what.
Started(functions) ==
    [functions |-> functions, store |-> << >>, owners |-> << >>, scopes |-> <<<< >>>>,
     log |-> << >>, func |-> "global", done |-> FALSE, val |-> Undefined]

Objects(r, f) == SelectSeq([i \in DOMAIN r.store |-> <<r.owners[i], r.store[i]>>], LAMBDA o : o[1] = f)

Binding(place, widths) == [place |-> place, widths |-> widths]

Bind(r, name, binding) == [r EXCEPT !.scopes[Len(r.scopes)] = (name :> binding) @@ @]

\* A new object x.v, and its name in the innermost scope.
Declare(x, name, widths) ==
    Bind([x.r EXCEPT !.store = Append(@, x.v), !.owners = Append(@, x.r.func)], name,
         Binding(Place(<<Len(x.r.store) + 1>>, 0), widths))

Lookup(r, name) ==
    r.scopes[Max({i \in DOMAIN r.scopes : name \in DOMAIN r.scopes[i]})][name]

Element(b, index) ==
    LET position == FoldLeft(LAMBDA n, i : n * b.widths[i] + index[i].off,
                             IF index = << >> THEN 0 ELSE index[1].off,
                             [i \in 1 .. Len(index) - 1 |-> i + 1])
    IN  Place(b.place.base, b.place.off + position * Size(From(b.widths, Len(index) + 1)))

\* The variable of an lvalue without indices, or the element.
PlaceOf(b, index) == IF index = << >> THEN b.place ELSE Element(b, index)

Fetch(r, place) == r.store[place.base[1]][place.off + 1]
Assign(r, place, v) == [r EXCEPT !.store[place.base[1]][place.off + 1] = v]

Seen(r, v) == IF IsNumber(v) THEN <<v>> ELSE From(r.store[v.base[1]], v.off + 1)

CallLibrary(f, args, r) ==
    LET called == [r EXCEPT !.log = Append(@, <<f, [i \in DOMAIN args |-> Seen(r, args[i])]>>),
                            !.val = Answer(r.log)]
    IN  IF args # << >> /\ ~IsNumber(Last(args)) THEN Assign(called, Last(args), Answer(r.log))
        ELSE called

\* Subaggregate that a nested list initializes when it comes after pos
\* elements: the largest that begins there.
Subaggregate(widths, pos) ==
    From(widths, Min({k \in 2 .. Len(widths) + 1 : pos % Size(From(widths, k)) = 0}))

RECURSIVE Eval(_, _), EvalAll(_, _), Fill(_, _, _), Do(_, _), Invoke(_, _)

\* A value and the state after it: of an lvalue, an operation, a call.
Load(e, index) ==
    LET b == Lookup(index.r, e.name)
        place == PlaceOf(b, index.v)
    IN  [index EXCEPT !.v = IF Len(e.index) = Len(b.widths) THEN Fetch(index.r, place) ELSE place]

Apply(f, x, y) == [y EXCEPT !.v = Binary(f, x, @)]

Returned(r) == [v |-> r.val, r |-> r]

Eval(e, r) ==
    CASE e.op = "num"  -> [v |-> Number(e.val), r |-> r]
      [] e.op = "lval" -> Load(e, EvalAll(e.index, r))
      [] e.op = "bin"  -> LET x == Eval(e.lhs, r) IN Apply(e.f, x.v, Eval(e.rhs, x.r))
      [] e.op = "un"   -> [Eval(e.arg, r) EXCEPT !.v = Unary(e.f, @)]
      [] e.op = "call" -> Returned(Invoke(e.func, EvalAll(e.args, r)))

Push(acc, x) == [v |-> Append(acc.v, x.v), r |-> x.r]

EvalAll(es, r) == FoldLeft(LAMBDA acc, e : Push(acc, Eval(e, acc.r)), [v |-> << >>, r |-> r], es)

Widths(es, r) == [i \in DOMAIN es |-> Eval(es[i], r).v.off]

\* The elements of an array of the given widths, from the items of a list:
\* an expression is the next element, a list the next subaggregate.
PutNext(acc, x) ==
    [v |-> ReplaceSubSeqAt(acc.pos + 1, x.v, x.v, acc.v), pos |-> acc.pos + Len(x.v), r |-> x.r]

Fill(widths, items, r) ==
    FoldLeft(LAMBDA acc, item :
                PutNext(acc, IF item.op = "list"
                              THEN Fill(Subaggregate(widths, acc.pos), item.items, acc.r)
                            ELSE EvalAll(<<item>>, acc.r)),
             [v |-> [i \in 1 .. Size(widths) |-> Number(0)], pos |-> 0, r |-> r], items)

Contents(init, widths, r) ==
    CASE init = << >> ->
            [v |-> [i \in 1 .. Size(widths) |-> IF Len(r.scopes) = 1 THEN Number(0) ELSE Undefined], r |-> r]
      [] init # << >> /\ init[1].op = "list" -> Fill(widths, init[1].items, r)
      [] init # << >> /\ init[1].op # "list" -> EvalAll(init, r)

\* One item of a block.
Store(name, index, v) == Assign(index.r, PlaceOf(Lookup(index.r, name), index.v), v)

Return(x) ==
    [x.r EXCEPT !.done = TRUE, !.val = IF x.v = << >> THEN Undefined ELSE x.v[1]]

Do(item, r) ==
    CASE item.op = "open"   -> [r EXCEPT !.scopes = Append(@, << >>)]
      [] item.op = "close"  -> [r EXCEPT !.scopes = Front(@)]
      [] item.op = "assign" ->
            LET x == Eval(item.rhs, r) IN Store(item.lhs.name, EvalAll(item.lhs.index, x.r), x.v)
      [] item.op = "expr"   -> Eval(item.e, r).r
      [] item.op = "return" -> Return(EvalAll(item.val, r))
      [] item.op = "decl"   ->
            LET widths == Widths(item.widths, r)
            IN  Declare(Contents(item.init, widths, r), item.name, widths)

DoAll(items, r) == FoldLeft(LAMBDA acc, item : IF acc.done THEN acc ELSE Do(item, acc), r, items)

\* A param is a new variable, or another name for an element of an array.
Enter(f, args, r) ==
    LET params == r.functions[f].params IN
    FoldLeft(LAMBDA acc, i :
                IF params[i].isPtr
                  THEN Bind(acc, params[i].name, Binding(args[i], <<0>> \o Widths(params[i].widths, acc)))
                ELSE Declare([v |-> <<args[i]>>, r |-> acc], params[i].name, << >>),
             [r EXCEPT !.scopes = <<Head(@), << >>>>, !.func = f], [i \in DOMAIN params |-> i])

Leave(r, after) ==
    [after EXCEPT !.scopes = r.scopes, !.func = r.func, !.done = FALSE,
                  !.val = IF after.done THEN @ ELSE Undefined]

Invoke(f, args) ==
    IF f \notin DOMAIN args.r.functions THEN CallLibrary(f, args.v, args.r)
    ELSE Leave(args.r, DoAll(args.r.functions[f].items, Enter(f, args.v, args.r)))

\* The program: its global declarations, then main.
Meaning(globals, functions, main) ==
    Invoke(main, [v |-> << >>, r |-> DoAll(globals, Started(functions))])

=============================================================================
