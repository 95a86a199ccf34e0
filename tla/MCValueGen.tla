----------------------------- MODULE MCValueGen -----------------------------
(***************************************************************************)
(* Programs with one point of interest each: an expression in every kind   *)
(* of statement, an initializer list, names declared again in blocks, or   *)
(* arrays and calls as arguments of calls.                                 *)
(***************************************************************************)
EXTENDS ValueGen

CONSTANTS X, Y, C, G, A, B, P       \* names of variables

MCLibrary ==
    [f \in {"getint", "getarray", "putint", "putarray"} |->
        [isVoid |-> f \in {"putint", "putarray"},
         params |-> CASE f = "getint" -> 0 [] f \in {"getarray", "putint"} -> 1 [] f = "putarray" -> 2]]

N(n)            == [op |-> "num", val |-> n]
At(name, index) == [op |-> "lval", name |-> name, index |-> index]
V(name)         == At(name, << >>)
Bin(f, l, r)    == [op |-> "bin", f |-> f, lhs |-> l, rhs |-> r]
Un(f, e)        == [op |-> "un", f |-> f, arg |-> e]
Call(f, args)   == [op |-> "call", func |-> f, args |-> args]
List(items)     == [op |-> "list", items |-> items]

Decl(name, widths, init)  == [op |-> "decl", name |-> name, widths |-> widths, init |-> init, const |-> FALSE]
Const(name, widths, init) == [Decl(name, widths, init) EXCEPT !.const = TRUE]
Param(name)         == [name |-> name, isPtr |-> FALSE, widths |-> << >>]
Array(name, widths) == [name |-> name, isPtr |-> TRUE, widths |-> widths]

Fun(name, isVoid, params) == [op |-> "func", name |-> name, isVoid |-> isVoid, params |-> params]
MainHead  == Fun("main", FALSE, << >>)
End       == [op |-> "end"]
Open      == [op |-> "open"]
Close     == [op |-> "close"]
Set(l, e) == [op |-> "assign", lhs |-> l, rhs |-> e]
Expr(e)   == [op |-> "expr", e |-> e]
Put(e)    == Expr(Call("putint", <<e>>))
Ret(e)    == [op |-> "return", val |-> <<e>>]
RetVoid   == [op |-> "return", val |-> << >>]

One(items) == [i \in DOMAIN items |-> {items[i]}]

-----------------------------------------------------------------------------
\* const C = 2, G = 5, X = 3 and A = {{1, 2, 0}, {4, 5, 6}} in every kind of
\* expression, none of which is 0 as a divisor.
Atoms ==
    {N(7), V(C), V(X), V(G), At(B, <<V(C)>>), At(A, <<N(1), Bin("-", V(X), N(1))>>), Call("getint", << >>)}

Simple ==
    Atoms \cup {Bin(f, l, r) : f \in {"+", "-", "*", "/", "%"}, l \in Atoms, r \in Atoms}
          \cup {Un(f, e) : f \in {"-", "!"}, e \in Atoms}

Nested ==
    {Bin(f, Bin("-", l, r), e) : f \in {"+", "%"}, l \in Atoms, r \in {N(7), V(C), Call("getint", << >>)}, e \in Atoms}
    \cup {Bin(f, e, Bin("*", l, r)) : f \in {"-", "/"}, l \in Atoms, r \in {V(C), V(X), Call("getint", << >>)}, e \in Atoms}
    \cup {Un("-", Un("!", e)) : e \in Atoms}
    \cup {At(A, <<Bin("-", e, V(X)), Bin("%", l, N(3))>>) : e \in {N(3), V(X), Bin("+", V(C), N(2))}, l \in Atoms}

Kinds(e) ==
    {Put(e), Set(V(X), e), Set(V(G), e), Set(At(A, <<N(1), V(C)>>), e),
     Set(At(A, <<Bin("-", V(X), V(C)), Bin("%", Call("getint", << >>), N(2))>>), e),
     Decl(Y, << >>, <<e>>), Decl(Y, <<V(C)>>, <<List(<<e, V(X)>>)>>), Ret(e)}

BeforeExpression ==
    <<Const(C, << >>, <<N(2)>>), Decl(G, << >>, <<Bin("+", V(C), N(3))>>),
      Const(B, <<N(3)>>, <<List(<<N(4), N(0), Un("-", N(6))>>)>>),
      MainHead, Decl(X, << >>, <<N(3)>>),
      Decl(A, <<V(C), Bin("+", V(C), N(1))>>,
           <<List(<<List(<<N(1), N(2)>>), List(<<N(4), N(5), N(6)>>)>>)>>)>>

Expressions ==
    LET one(e) == {Put(e), Set(At(A, <<N(1), V(C)>>), e)}
    IN  {One(BeforeExpression)
         \o <<UNION {Kinds(e) : e \in Simple} \cup UNION {one(e) : e \in Nested}, {Put(V(X))}, {End}>>}

-----------------------------------------------------------------------------
\* Initializer lists of arrays of 4, 2 by 3, and 2 by 2 by 2, the elements
\* in order from the given values.  No list that is not full begins within
\* a row of an array of three dimensions.
Slice(values, i, n) == SubSeq(values, i + 1, i + n)
Row(values, i, n) == <<List(Slice(values, i, n))>>

Flat(values, n) == {Slice(values, 0, k) : k \in 0 .. n}

OfRows(values) ==
    Flat(values, 6)
    \cup {Row(values, 0, k) \o Row(values, 3, l) : k \in 0 .. 3, l \in 0 .. 3}
    \cup {Row(values, 0, k) \o Slice(values, 3, l) : k \in 0 .. 3, l \in 0 .. 3}
    \cup {Slice(values, 0, 3) \o Row(values, 3, k) : k \in 0 .. 3}
    \cup {Slice(values, 0, k) \o Row(values, 4, 1) \o Slice(values, 5, 1) : k \in {1, 2, 4}}

\* The first half of a cube, and its second half.
Plane(values, i) ==
    {Slice(values, i, k) : k \in 0 .. 4}
    \cup {Row(values, i, k) \o Row(values, i + 2, l) : k \in 0 .. 2, l \in 0 .. 2}
    \cup {Row(values, i, k) \o Slice(values, i + 2, l) : k \in 0 .. 2, l \in 1 .. 2}
    \cup {Slice(values, i, 2) \o Row(values, i + 2, 2)}

OfPlanes(values) ==
    Flat(values, 8)
    \cup {<<List(q)>> : q \in Plane(values, 0)}
    \cup {<<List(q), List(r)>> : q \in Plane(values, 0), r \in Plane(values, 4)}
    \cup {<<List(q)>> \o Slice(values, 4, k) : q \in Plane(values, 0), k \in 1 .. 4}
    \cup {Slice(values, 0, 4) \o <<List(q)>> : q \in Plane(values, 4)}
    \cup {Slice(values, 0, 2) \o Row(values, 2, 2) \o <<List(q)>> : q \in Plane(values, 4)}

Arrays(values, name) ==
    {Decl(name, <<N(4)>>, <<List(items)>>) : items \in Flat(values, 4)}
    \cup {Decl(name, <<V(C), N(3)>>, <<List(items)>>) : items \in OfRows(values)}
    \cup {Decl(name, <<V(C), N(2), Un("-", N(-2))>>, <<List(items)>>) : items \in OfPlanes(values)}

Computed ==
    <<V(X), Call("getint", << >>), N(0), Bin("*", V(X), V(C)), N(8), Un("-", V(X)), At(B, <<N(1)>>), V(C)>>

Literals == <<N(1), Bin("-", V(C), N(5)), N(0), V(C), N(6), Un("!", N(3)), Bin("%", N(9), V(C)), N(-4)>>

AsConst(decls) == {[d EXCEPT !.const = TRUE] : d \in decls}

Initializers ==
    LET begin == <<Const(C, << >>, <<N(2)>>), Const(B, <<N(2)>>, <<List(<<N(5), N(9)>>)>>)>>
        main(decls) == <<{MainHead}, {Decl(X, << >>, <<N(3)>>)}, decls, {End}>>
    IN  {One(begin) \o main(Arrays(Computed, A)),
         One(begin) \o <<Arrays(Literals, G) \cup AsConst(Arrays(Literals, G))>> \o main({Put(V(X))})}

-----------------------------------------------------------------------------
\* Variables, params and a constant that are declared again in blocks, and
\* counters that go on or begin again in the next function.
Scopes ==
    LET sum == Bin("+", V(X), V(Y))
        uses == {Put(sum), Set(V(X), sum), Set(V(Y), Bin("-", V(X), V(Y)))}
        again == {Decl(X, << >>, <<Bin("*", V(Y), N(2))>>), Decl(Y, << >>, <<Bin("-", V(X), N(3))>>),
                  Const(Y, << >>, <<N(4)>>)}
    IN  {<<{Decl(X, << >>, <<N(10)>>)}, {Decl(Y, << >>, << >>), Decl(Y, << >>, <<N(20)>>)},
           {Fun("f", FALSE, <<Param(q)>>) : q \in {X, Y}}, uses,
           {Open}, again, {Set(V(X), sum), Put(sum)}, {Close}, {Put(sum)}, {Ret(sum)}, {End},
           {MainHead}, again, {Open}, again, {Close},
           {Open}, again, {Put(Bin("+", Call("f", <<V(X)>>), V(Y)))}, {Close},
           {Put(sum)}, {Ret(V(Y))}, {End}>>}

-----------------------------------------------------------------------------
\* Arrays, and the results of calls, as arguments; f and h have arrays as
\* params, h of two dimensions, and change them.
Numbers == {N(1), V(X), At(A, <<N(1), V(X)>>), Call("k", <<V(X), N(5)>>), Call("getint", << >>)}

ArgumentsOf(name) ==
    CASE name = "k" -> {<<l, r>> : l \in Numbers, r \in Numbers \cup {Call("k", <<l, V(X)>>) : l \in Numbers}}
      [] name = "f" -> {<<q>> : q \in {V(B), At(A, <<N(1)>>), At(A, <<V(X)>>), V(G)}}
      [] name = "h" -> {<<V(A), n>> : n \in Numbers}

Calls ==
    LET define(head, items) == <<head>> \o items \o <<End>>
        k == define(Fun("k", FALSE, <<Param(X), Param(Y)>>),
                    <<Put(V(Y)), Ret(Bin("-", Bin("*", V(X), N(3)), V(Y)))>>)
        f == define(Fun("f", TRUE, <<Array(P, << >>)>>),
                    <<Set(At(P, <<N(1)>>), Bin("+", At(P, <<N(0)>>), V(X))),
                      Expr(Call("putarray", <<N(2), V(P)>>)), RetVoid>>)
        h == define(Fun("h", FALSE, <<Array(P, <<N(3)>>), Param(Y)>>),
                    <<Set(V(X), N(1)), Set(At(P, <<V(X), Bin("+", V(X), N(1))>>), V(Y)),
                      Expr(Call("f", <<At(P, <<N(1)>>)>>)), Expr(Call("getarray", <<At(P, <<V(X)>>)>>)),
                      Set(V(X), N(0)), Ret(At(P, <<N(0), N(2)>>))>>)
        begin == <<Decl(X, << >>, << >>), Decl(G, <<N(3)>>, <<List(<<N(7), N(0), N(8)>>)>>)>>
                 \o k \o f \o h
                 \o <<MainHead, Decl(B, <<N(2)>>, <<List(<<N(3), N(4)>>)>>),
                      Decl(A, <<N(2), N(3)>>, <<List(<<N(1), N(2), N(3), N(4), N(5), N(6)>>)>>)>>
        calls == {Call("k", as) : as \in ArgumentsOf("k")} \cup {Call("h", as) : as \in ArgumentsOf("h")}
        arrays == {V(B), V(G), At(A, <<V(X)>>), V(A)}
    IN  {One(begin)
         \o <<{Put(e) : e \in calls} \cup {Expr(e) : e \in calls} \cup {Decl(Y, << >>, <<e>>) : e \in calls}
              \cup {Expr(Call("f", as)) : as \in ArgumentsOf("f")}
              \cup {Expr(Call("getarray", <<q>>)) : q \in arrays}
              \cup {Set(V(X), Call("getarray", <<q>>)) : q \in arrays}
              \cup {Expr(Call("putarray", <<n, q>>)) : n \in Numbers, q \in arrays},
              {Put(At(G, <<N(1)>>)), Put(At(A, <<N(1), N(2)>>))}, {End}>>}

\* A list that begins within a plane and is not full, and a statement that
\* is not a call but makes one.
MidRowList == Decl(A, <<N(2), N(2), N(2)>>, <<List(<<N(1), N(2), List(<<N(3)>>), N(4)>>)>>)
DroppedCall == Expr(Bin("+", Call("getint", << >>), N(1)))
Exceptions == {One(<<MainHead, MidRowList, DroppedCall, End>>)}

Programs == Expressions \cup Initializers \cup Scopes \cup Calls

=============================================================================
