----------------------------- MODULE TiggerGen ------------------------------
(***************************************************************************)
(* Newpiler::compile_eeyore (eeyore/e_gen_t.cpp): the Tigger instructions  *)
(* of one function, given where linear_scan put its variables.             *)
(*                                                                         *)
(* Values are abstract.  An instruction says which registers it reads and  *)
(* which value the translated statement means to read there (reads), and   *)
(* what it writes: the contents of another place, the head address of an   *)
(* array, or the outcome of a calculation (val).  Commit is not an         *)
(* instruction: it marks the point where the Eeyore assignment has         *)
(* happened, so that lhs is from then on the name of the value from.       *)
(***************************************************************************)
EXTENDS Integers, Sequences, SequencesExt

CONSTANTS
    CalleeSaved, CallerSaved, ParamRegs,    \* as in LinearScan
    s1, s2, x0,                             \* temporaries, and the zero register
    None,
    Var, ParamSeq, Arrays,                  \* locals and params; <<p0, p1, ...>>; local arrays
    Globals, GlobalArrays,                  \* global variables that are no arrays, and arrays
    Num, Zero,                              \* the operands NUM # 0 and 0
    Result, Address                         \* what a calculation yields

VARIABLES
    program,    \* func->stmts_
    input, var2reg, var2stack, reg2stack, usedRegs      \* from LinearScan

-----------------------------------------------------------------------------
Load(dst, loc)          == [op |-> "load", dst |-> dst, loc |-> loc, reads |-> {}]
Store(src, loc)         == [op |-> "store", src |-> src, loc |-> loc, reads |-> {}]
LoadAddr(dst, arr)      == [op |-> "calc", dst |-> dst, val |-> arr, reads |-> {}]
Calc(dst, val, reads)   == [op |-> "calc", dst |-> dst, val |-> val, reads |-> reads]
Move(dst, src, reads)   == [op |-> "move", dst |-> dst, src |-> src, reads |-> reads]
Use(reads)              == [op |-> "use", reads |-> reads]
Call(reads)             == [op |-> "call", reads |-> reads]
Return(reads)           == [op |-> "return", reads |-> reads]
Commit(lhs, from)       == [op |-> "commit", lhs |-> lhs, from |-> from, reads |-> {}]

-----------------------------------------------------------------------------
\* StoreLocalIntoStack, MoveParamDirectly and NothingIsUseless are mutants of
\* the definitions that follow them, which the runs must tell from them.

Name == Var \cup Globals \cup GlobalArrays
Operand == Name \cup {Num, Zero}

InRegister(v) == v \in Var /\ var2reg[v] # None

\* store_into_stack and get_reg address a local by its slot, a global by name.
Place(v) == IF v \in Globals THEN v ELSE var2stack[v]

\* get_reg(v, tmp): the register it returns, and the code it emits.
RegOf(v, tmp) ==
    IF v = Zero THEN x0 ELSE IF InRegister(v) THEN var2reg[v] ELSE tmp

Fetch(v, tmp) ==
    IF v = Zero \/ InRegister(v) THEN << >>
    ELSE IF v = Num THEN <<Calc(tmp, Num, {})>>
    ELSE IF v \in Arrays \cup GlobalArrays THEN <<LoadAddr(tmp, v)>>
    ELSE <<Load(tmp, Place(v))>>

\* What reading v from the register that get_reg returned amounts to.
Read(v, tmp) == <<RegOf(v, tmp), v>>

\* get_reg(v) dereferences the missing locals_ entry of a param that has no
\* register (is_arr, e_gen_t.cpp:387-392).
CannotFetch(v) == v \in ToSet(ParamSeq) /\ ~InRegister(v)

\* get_reg(lhs, "s1", false), and store_into_stack for an lhs without register.
Target(lhs) == IF InRegister(lhs) THEN var2reg[lhs] ELSE s1

StoreLocalIntoStack(reg, lhs) ==
    IF InRegister(lhs) \/ lhs \in Globals THEN << >> ELSE <<Store(reg, Place(lhs))>>

StoreIntoStack(reg, lhs) ==
    IF InRegister(lhs) THEN << >>
    ELSE IF lhs \in Globals THEN <<LoadAddr(s2, Address), Store(reg, lhs)>>
    ELSE <<Store(reg, Place(lhs))>>

SaveReg(r)    == IF r \in usedRegs THEN <<Store(r, reg2stack[r])>> ELSE << >>
RestoreReg(r) == IF r \in usedRegs THEN <<Load(r, reg2stack[r])>> ELSE << >>

SaveRegs(rs)    == FlattenSeq([i \in DOMAIN rs |-> SaveReg(rs[i])])
RestoreRegs(rs) == FlattenSeq([i \in DOMAIN rs |-> RestoreReg(rs[i])])

-----------------------------------------------------------------------------
\* Function entry (e_gen_t.cpp:44-83).
Index(reg) == CHOOSE i \in 1 .. Len(ParamRegs) : ParamRegs[i] = reg
IsParamReg(reg) == reg \in ToSet(ParamRegs)

MoveParamDirectly(i) ==
    LET p == ParamSeq[i]
    IN  IF ~InRegister(p) \/ var2reg[p] = ParamRegs[i] THEN << >>
        ELSE <<Move(var2reg[p], ParamRegs[i], {})>>

\* Moving to a higher param register would overwrite one that is still to be
\* moved: that param takes the way over the stack.
MoveParam(i) ==
    LET p == ParamSeq[i]
        reg == var2reg[p]
    IN  IF ~InRegister(p) \/ reg = ParamRegs[i] THEN << >>
        ELSE IF ~IsParamReg(reg) \/ Index(reg) < i
          THEN <<Move(reg, ParamRegs[i], {})>>
          ELSE <<Store(ParamRegs[i], var2stack[p])>>

ReloadParam(i) ==
    LET p == ParamSeq[i]
        reg == var2reg[p]
    IN  IF InRegister(p) /\ IsParamReg(reg) /\ Index(reg) > i
          THEN <<Load(reg, var2stack[p])>> ELSE << >>

\* arrays is some order of the arrays in registers: var2reg is a hash map.
Entry(arrays) ==
    SaveRegs(CalleeSaved)
    \o FlattenSeq([i \in DOMAIN ParamSeq |-> MoveParam(i)])
    \o FlattenSeq([i \in DOMAIN ParamSeq |-> ReloadParam(i)])
    \o [i \in DOMAIN arrays |-> LoadAddr(var2reg[arrays[i]], arrays[i])]

-----------------------------------------------------------------------------
\* Statements: records with a field op and the operands it calls for.
\*   num   lhs = NUM | UnOp NUM          copy  lhs = a
\*   op1   lhs = UnOp a | a BinOp NUM    op2   lhs = a BinOp b
\*   load  lhs = arr[a]                  store arr[a] = b
\*   call  [lhs =] call f args (lhs = None without assignment)
\*   if    if a op 0 goto to             goto, ret a (a = None without value)

\* The move of one argument to its param register (e_gen_t.cpp:263-282).
Argument(v, areg) ==
    IF InRegister(v) /\ IsParamReg(var2reg[v]) THEN <<Load(areg, reg2stack[var2reg[v]])>>
    ELSE IF InRegister(v) THEN <<Move(areg, var2reg[v], {})>>
    ELSE IF v \in {Num, Zero} THEN <<Calc(areg, v, {})>>
    ELSE Fetch(v, areg)

CallCode(args, lhs) ==
    LET retReg == ParamRegs[1]
        isA0Used == retReg \in usedRegs
        retVal == IF isA0Used THEN s1 ELSE retReg
    IN  SaveRegs(ParamRegs) \o SaveRegs(CallerSaved)
        \o FlattenSeq([i \in DOMAIN args |-> Argument(args[i], ParamRegs[i])])
        \o <<Call({<<ParamRegs[i], args[i]>> : i \in DOMAIN args})>>
        \o RestoreRegs(CallerSaved)
        \o (IF lhs # None /\ isA0Used THEN <<Move(s1, retReg, {})>> ELSE << >>)
        \o RestoreRegs(ParamRegs)
        \o (IF lhs = None THEN << >>
            ELSE IF InRegister(lhs) THEN <<Move(var2reg[lhs], retVal, {})>>
            ELSE StoreIntoStack(retVal, lhs))

\* An assignment to lhs: the calculation and, if need be, the store.
Assign(lhs, reads) == <<Calc(Target(lhs), Result, reads)>> \o StoreIntoStack(Target(lhs), lhs)

\* A call without assignment ends with the param registers restored.
CallStatement(args) == CallCode(args, None)

\* arr[NUM] needs no address calculation.
LoadCode(s) ==
    IF s.a \in {Num, Zero}
      THEN Fetch(s.arr, s2) \o Assign(s.lhs, {Read(s.arr, s2)})
      ELSE Fetch(s.arr, s2) \o Fetch(s.a, s1)
           \o <<Calc(s2, Address, {Read(s.arr, s2), Read(s.a, s1)})>>
           \o Assign(s.lhs, {<<s2, Address>>})

StoreCode(s) ==
    IF s.a \in {Num, Zero}
      THEN Fetch(s.arr, s1) \o Fetch(s.b, s2) \o <<Use({Read(s.arr, s1), Read(s.b, s2)})>>
      ELSE Fetch(s.arr, s1) \o Fetch(s.a, s2)
           \o <<Calc(s1, Address, {Read(s.arr, s1), Read(s.a, s2)})>>
           \o Fetch(s.b, s2) \o <<Use({<<s1, Address>>, Read(s.b, s2)})>>

\* SB1 = SB2: the value of SB2 is found in the place of SB1 as well.
CopyCode(s) ==
    Fetch(s.a, s2) \o <<Move(Target(s.lhs), RegOf(s.a, s2), {Read(s.a, s2)})>>
    \o StoreIntoStack(Target(s.lhs), s.lhs)

\* The calculations, in one or two operands.
OpCode(s) ==
    IF s.op = "op1" THEN Fetch(s.a, s2) \o Assign(s.lhs, {Read(s.a, s2)})
    ELSE Fetch(s.a, s1) \o Fetch(s.b, s2) \o Assign(s.lhs, {Read(s.a, s1), Read(s.b, s2)})

IfCode(s) == Fetch(s.a, s1) \o <<Use({Read(s.a, s1)})>>

\* What a correct return finds: its value in a0, and the caller's values in
\* the registers that a callee saves.
ReturnReads(v) ==
    (IF v = None THEN {} ELSE {<<ParamRegs[1], v>>}) \cup {<<r, r>> : r \in ToSet(CalleeSaved)}

ReturnCode(v) ==
    (IF v = None THEN << >>
     ELSE IF v \in {Num, Zero} THEN <<Calc(ParamRegs[1], v, {})>>
     ELSE Fetch(v, s1) \o <<Move(ParamRegs[1], RegOf(v, s1), {})>>)
    \o RestoreRegs(CalleeSaved) \o <<Return(ReturnReads(v))>>

Assigns(s) == s.op \in {"num", "copy", "op1", "op2", "load"} \/ (s.op = "call" /\ s.lhs # None)

NothingIsUseless(n) == FALSE

\* The guard at e_gen_t.cpp:107-125: a local assigned outside its interval.
IsUseless(n) ==
    LET s == program[n] IN
    /\ Assigns(s)
    /\ s.lhs \in Var \ ToSet(ParamSeq)
    /\ input.end[s.lhs] < n \/ input.start[s.lhs] > n

Body(s) ==
    CASE s.op = "num"   -> Assign(s.lhs, {})
      [] s.op = "copy"  -> CopyCode(s)
      [] s.op \in {"op1", "op2"} -> OpCode(s)
      [] s.op = "load"  -> LoadCode(s)
      [] s.op = "store" -> StoreCode(s)
      [] s.op = "call"  -> IF s.lhs = None THEN CallStatement(s.args) ELSE CallCode(s.args, s.lhs)
      [] s.op = "if"    -> IfCode(s)
      [] s.op = "goto"  -> << >>
      [] s.op = "ret"   -> ReturnCode(s.a)

\* compile_eeyore_stmt: of a useless assignment only the call remains.
Statement(n) ==
    LET s == program[n] IN
    (IF ~IsUseless(n) THEN Body(s)
     ELSE IF s.op = "call" THEN CallStatement(s.args)
     ELSE << >>)
    \o (IF Assigns(s) THEN <<Commit(s.lhs, IF s.op = "copy" THEN s.a ELSE Result)>> ELSE << >>)

\* The variables whose value get_reg is asked for.
Fetched(s) ==
    CASE s.op \in {"copy", "op1", "if", "ret"} -> {s.a}
      [] s.op = "op2"   -> {s.a, s.b}
      [] s.op = "load"  -> {s.arr, s.a}
      [] s.op = "store" -> {s.arr, s.a, s.b}
      [] s.op = "call"  -> ToSet(s.args)
      [] OTHER          -> {}

\* What the parser makes of the code of the front end: arrays are not
\* assigned to, and a call has as many arguments as there are registers for.
IsStatement(s) ==
    /\ s.op \in {"num", "copy", "op1", "op2", "load", "store", "call", "if", "goto", "ret"}
    /\ Assigns(s) => s.lhs \in (Var \ Arrays) \cup Globals
    /\ s.op = "call" => s.args \in Seq(Operand) /\ Len(s.args) <= Len(ParamRegs)
    /\ \A v \in Fetched(s) : v \in Operand \/ (s.op = "ret" /\ v = None)

CompilerFails ==
    \E n \in DOMAIN program :
        /\ ~IsUseless(n) \/ program[n].op = "call"
        /\ \E v \in Fetched(program[n]) : CannotFetch(v)

=============================================================================
