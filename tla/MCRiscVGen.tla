----------------------------- MODULE MCRiscVGen -----------------------------
(***************************************************************************)
(* Registers of 7 bits, immediate operands of 5, two registers x and y     *)
(* beside x0, and functions with one instruction of each kind or with      *)
(* accesses all over frames of up to nine words.                           *)
(***************************************************************************)
EXTENDS RiscVGen, FiniteSets, TLC

CONSTANTS x, y

MCReg == {x, y, x0}

\* A variable and an array of two words.
MCData == (-60 :> 21) @@ (-44 :> 0) @@ (-40 :> 0)
Least == -64

Dividends == {Least, -63, -33, -9, -8, -7, -5, -4, -3, -2, -1, 0, 1, 2, 3, 4, 7, 9, 31, 63}

MCStarts == {[r \in MCReg |-> IF r = x THEN a ELSE IF r = y THEN b ELSE 0] :
                a \in Dividends, b \in {Least, -3, 1, 5}}

enter  == [op |-> "enter"]
return == [op |-> "return"]
call   == [op |-> "call"]
load(d, n)     == [op |-> "load", d |-> d, n |-> n]
store(b, n)    == [op |-> "store", b |-> b, n |-> n]
loadaddr(d, n) == [op |-> "loadaddr", d |-> d, n |-> n]
get(d, a, n)   == [op |-> "get", d |-> d, a |-> a, n |-> n]
loadv(d, v)    == [op |-> "loadv", d |-> d, v |-> v]
loadaddrv(d, v) == [op |-> "loadaddrv", d |-> d, v |-> v]
goto(n)        == [op |-> "goto", to |-> n]
branch(lop, a, b, n) == [op |-> "if", lop |-> lop, a |-> a, b |-> b, to |-> n]
num(d, n)      == [op |-> "num", d |-> d, n |-> n]
put(a, n, b)   == [op |-> "put", a |-> a, n |-> n, b |-> b]

Body(lines) == <<enter>> \o lines \o <<return>>
OneLine(ts) == {[size |-> 0, body |-> Body(<<t>>)] : t \in ts}

BinopNums(bops, nums) ==
    [op : {"binopnum"}, bop : bops, d : {x, y}, a : {x}, n : nums]

\* Operators of SysY expressions on registers; of two registers only y is
\* the divisor, which is not 0.
Binops ==
    [op : {"binop"}, bop : {"+", "-", "*", "<", ">", "<=", ">=", "==", "!="},
     d : {x, y}, a : {x}, b : {x, y, x0}]
    \cup [op : {"binop"}, bop : {"/", "%"}, d : {x, y}, a : {x, x0}, b : {y}]

Unary ==
    [op : {"neg", "not", "move"}, d : {x, y}, a : {x, x0}]
        \cup [op : {"num"}, d : {x}, n : {Least, -17, -16, 0, 15, 16, 63}]

\* Arithmetic with a number: not the shortcuts that SignedShortcuts asks about.
WithNumber ==
    BinopNums({"+", "-", "<", ">", "<=", ">=", "==", "!="}, {Least, -17, -16, -1, 0, 1, 15, 16, 63})
    \cup BinopNums({"*"}, {-63, -3, -1, 0, 1, 2, 3, 4, 8, 32, 63})
    \cup BinopNums({"/"}, {-63, -3, -2, -1, 1, 2, 3, 63})
    \cup BinopNums({"%"}, {-63, -3, -2, -1, 1, 3, 4, 63})

\* Both ends of a frame, around calls, and arrays in it.
WithFrame ==
    {[size |-> n, body |-> Body(<<store(x, 0), store(y, n - 1), call, loadaddr(y, 0),
                                  get(x, y, 4 * (n - 1)), load(y, i)>>)] :
        n \in {1, 3, 4, 7, 8, 9}, i \in {0}}
    \cup {[size |-> n, body |-> Body(<<loadaddr(x, i), put(x, 4 * (n - 1 - i), y), store(x, 0),
                                      call, load(x, n - 1), load(y, 0), put(y, 0, x)>>)] :
        n \in {3, 4, 7, 8, 9}, i \in {1, 2}}

\* Every comparison, forwards and in a loop, a jump over a line, and
\* two returns.
WithJumps ==
    {[size |-> 0, body |-> Body(<<branch(lop, x, b, 4), num(x, 15)>>)] :
        lop \in DOMAIN LogicOp2Instr, b \in {y, x0}}
    \cup {[size |-> 0, body |-> Body(<<[op |-> "binopnum", bop |-> "+", d |-> x, a |-> x, n |-> 15],
                                      branch("<", x, y, 2), goto(6), num(y, 1)>>)]}
    \cup {[size |-> 0, body |-> Body(<<branch("<", x, y, 4), return, num(y, 1)>>)]}

\* Globals, with what is in them moved between them and the frame.
WithGlobals ==
    {[size |-> 4, body |-> Body(<<store(x, 3), loadv(x, -60), loadaddrv(y, -44), put(y, 4, x),
                                  load(x, 3), loadaddrv(y, v), put(y, 0, x), call, loadv(y, -40)>>)] :
        v \in {-60, -44}}

\* The shortcuts for quotients and remainders where they are right: dividends
\* that are not negative.
WithDividend ==
    {[size |-> 0, body |-> Body(<<branch("<", x, x0, 4), t>>)] :
        t \in BinopNums({"/"}, {4, 8, 32}) \cup BinopNums({"%"}, {2})}

Unconditional == OneLine(Binops) \cup OneLine(Unary) \cup OneLine(WithNumber) \cup WithFrame
                 \cup WithJumps \cup WithGlobals
AllFunctions == Unconditional \cup WithDividend

MCFunctions == AllFunctions

\* Lines that the shortcuts are right for, whatever is in the registers.
Spared(t) ==
    t.op = "binopnum" =>
        /\ t.bop = "*" => t.n # -2^(Bits - 1)
        /\ t.bop = "/" => ~IsPowerOf2(t.n) \/ t.n \in {1, 2}
        /\ t.bop = "%" => t.n # 2

ASSUME FindingsSpared == \A f \in Unconditional : \A i \in DOMAIN f.body : Spared(f.body[i])

\* A quotient, a remainder and a product that opt.cpp:24-82 replaces.
SignedShortcuts ==
    {[size |-> 2, body |-> Body(<<[op |-> "binopnum", bop |-> "/", d |-> y, a |-> x, n |-> n],
                                  store(y, 0),
                                  [op |-> "binopnum", bop |-> "%", d |-> y, a |-> x, n |-> 2],
                                  store(y, 1),
                                  [op |-> "binopnum", bop |-> "*", d |-> y, a |-> x, n |-> Least]>>)] :
        n \in {4, 8, 32}}

=============================================================================
