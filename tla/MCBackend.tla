----------------------------- MODULE MCBackend ------------------------------
(***************************************************************************)
(* Functions of six statements over an array T0, params p0 and p1, the    *)
(* variables t0 and t1, the globals g and ga (an array), four registers.   *)
(***************************************************************************)
EXTENDS Backend

CONSTANTS s3, r0, a0, a1, g, ga

MCCalleeSaved == <<s3>>
MCCallerSaved == <<r0>>
MCParamRegs == <<a0, a1>>

T0 == 1
p0 == 2
p1 == 3
t0 == 4
t1 == 5

MCVar == T0 .. t1
MCParamSeq == <<p0, p1>>
MCArrays == {T0}
MCWidth == [v \in MCArrays |-> 2]
MCGlobals == {g}
MCGlobalArrays == {ga}
MCNumStmts == 6

num(x)           == [op |-> "num", lhs |-> x]
copy(x, a)       == [op |-> "copy", lhs |-> x, a |-> a]
op1(x, a)        == [op |-> "op1", lhs |-> x, a |-> a]
op2(x, a, b)     == [op |-> "op2", lhs |-> x, a |-> a, b |-> b]
load(x, arr, i)  == [op |-> "load", lhs |-> x, arr |-> arr, a |-> i]
store(arr, i, b) == [op |-> "store", arr |-> arr, a |-> i, b |-> b]
call(x, args)    == [op |-> "call", lhs |-> x, args |-> args]
branch(a, n)     == [op |-> "if", a |-> a, to |-> n]
jump(n)          == [op |-> "goto", to |-> n]
return(a)        == [op |-> "ret", a |-> a]

\* The first statement reads no param and no array, none assigns to a param.
First == {num(t0), call(t0, <<Zero>>)}

Second ==
    {op1(t1, p1), op2(t1, p0, g), copy(t0, p0), load(t1, T0, t0), store(T0, p0, t0),
     store(ga, Zero, g), call(t1, <<p1, p0>>), call(None, <<g, t0>>), num(t1),
     branch(t0, 0), branch(p1, 5), branch(t0, 3)}

Third ==
    {num(t0), copy(g, p1), copy(t1, t0), op2(t0, t0, t1), load(g, T0, Num), store(ga, t1, p1),
     call(t0, <<t1, p1>>), call(t1, <<t0, T0>>), call(g, <<ga, Num>>), branch(t1, 1), jump(0)}

Fourth == {op2(t1, p0, t0), store(T0, t1, t0), branch(t1, 2)}

Ending ==
    {<<copy(g, t1), return(t0)>>, <<store(T0, p1, g), return(p0)>>,
     <<store(T0, Num, Zero), return(None)>>}

Reached(p) ==
    LET step(S) == S \cup UNION {Succs(p, n) : n \in S}
    IN  step(step(step(step(step({0})))))

AllPrograms ==
    LET all == {0 :> a @@ 1 :> b @@ 2 :> c @@ 3 :> d @@ 4 :> e[1] @@ 5 :> e[2] :
                    a \in First, b \in Second, c \in Third, d \in Fourth, e \in Ending}
    IN  {p \in all : Reached(p) = Stmt}

MCPrograms == AllPrograms

ASSUME FindingsSpared == \A p \in AllPrograms : Spared(p)

\* Four statements.  The first reads a param, and an array is used later.
ReadsParamFirst ==
    {0 :> a @@ 1 :> store(T0, Zero, t0) @@ 2 :> b @@ 3 :> return(t0) :
        a \in {op1(t0, p0), copy(t0, p1), op2(t0, p0, p1)},
        b \in {load(t0, T0, Num), num(t1), op1(t0, t0)}}

\* The second or third statement assigns to a param that is not read again.
AssignsToParam ==
    {0 :> op1(t0, p0) @@ 1 :> a @@ 2 :> b @@ 3 :> return(t1) :
        a \in {op2(t1, t0, p1), copy(t1, t0), num(p0)},
        b \in {num(p0), num(p1), op1(t1, t1)}}

=============================================================================
