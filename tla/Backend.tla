------------------------------ MODULE Backend -------------------------------
(***************************************************************************)
(* One function on its way through the back end, and then its execution:   *)
(* liveness_analysis, cal_live_intervals and linear_scan one after the     *)
(* other (main.cpp:67-72), compile_eeyore, and the Tigger code it emits    *)
(* run next to the Eeyore function it was made from.                       *)
(*                                                                         *)
(* A place of the Tigger machine (a register, a stack word, a global)      *)
(* contains the set of names its current value has: the variables whose    *)
(* current value it is, the register it was found in at function entry     *)
(* (for the registers a callee must save), or a value within a statement.  *)
(* An assignment to x takes the name x from every other place, a copy      *)
(* gives the copied value one more name.                                   *)
(***************************************************************************)
EXTENDS Integers, Sequences, FiniteSets, SequencesExt

CONSTANTS
    CalleeSaved, CallerSaved, ParamRegs, s1, s2, x0, None,
    Var, ParamSeq, Arrays, Width, Globals, GlobalArrays,
    Num, Zero, Result, Address,
    NumStmts,   \* number of statements of the functions considered
    Programs    \* the functions: [0 .. NumStmts - 1 -> statement]

Params == ToSet(ParamSeq)
Stmt == 0 .. NumStmts - 1

VARIABLES
    program,                            \* func->stmts_
    stage,                              \* the pass that is running
    graph, workList, liveIn, liveOut,   \* Liveness
    input, phase, todo, saves, active, free,
    var2reg, var2stack, reg2stack, usedRegs, stk,    \* LinearScan
    at,         \* the Eeyore statement being executed, -1 for the entry
    code,       \* Tigger instructions of it still to execute
    regs, mem,  \* contents of the registers; of the stack words and globals
    defined     \* names that have a value on the path taken

liveVars == <<graph, workList, liveIn, liveOut>>
scanVars == <<input, phase, todo, saves, active, free, var2reg, var2stack,
              reg2stack, usedRegs, stk>>
execVars == <<at, code, regs, mem, defined>>
vars == <<program, stage, liveVars, scanVars, execVars>>

-----------------------------------------------------------------------------
Gen == INSTANCE TiggerGen
Name == Gen!Name

\* set_stmt_pred_succ for statements in order_stmts order.
Succs(p, n) ==
    CASE p[n].op = "goto" -> {p[n].to}
      [] p[n].op = "if"   -> {p[n].to} \cup ({n + 1} \cap Stmt)
      [] p[n].op = "ret"  -> {}
      [] OTHER            -> {n + 1} \cap Stmt

\* set_def_use
Def(s) == IF Gen!Assigns(s) THEN {s.lhs} ELSE {}
Used(s) == Gen!Fetched(s) \cap Name

GraphOf(p) ==
    [succs |-> [n \in Stmt |-> Succs(p, n)],
     preds |-> [n \in Stmt |->
        SelectSeq([i \in 1 .. NumStmts |-> i - 1], LAMBDA m : n \in Succs(p, m))],
     def   |-> [n \in Stmt |-> Def(p[n])],
     use   |-> [n \in Stmt |-> Used(p[n])]]

Live == INSTANCE Liveness WITH
    Dead <- {}, Var <- Name,
    Graphs <- [succs : [Stmt -> SUBSET Stmt], preds : [Stmt -> Seq(Stmt)],
               def : [Stmt -> SUBSET Name], use : [Stmt -> SUBSET Name]]

Intervals == INSTANCE LiveIntervals

HasCall == \E n \in Stmt : program[n].op = "call"

ScanInput ==
    [start |-> [v \in Var |-> Intervals!StartOf(v)],
     end   |-> [v \in Var |-> Intervals!EndOf(v)],
     calls |-> HasCall]

Scan == INSTANCE LinearScan WITH
    Inputs <- [start : [Var -> -2 .. NumStmts - 1], end : [Var -> -2 .. NumStmts - 1],
               calls : BOOLEAN]

AllRegs == Scan!Reg \cup {s1, s2, x0}

\* What the passes before leave.  In the order of the source, which
\* order_stmts keeps, the first way to a statement comes from above it: a
\* loop is entered at its top, and every other jump that is added goes down
\* (c_gen_e.cpp:256-321).
IsProgram(p) ==
    /\ DOMAIN p = Stmt /\ \A n \in Stmt : Gen!IsStatement(p[n])
    /\ Live!IsFlowGraph(GraphOf(p))
    /\ \A n \in Stmt \ {0} : \E m \in 0 .. n - 1 : n \in Succs(p, m)

ASSUME SizeAssumption == NumStmts \in Nat \ {0}

ASSUME RegAssumption ==
    /\ {CalleeSaved, CallerSaved, ParamRegs} \subseteq Seq(Scan!Reg)
    /\ Scan!IsInjectiveSeq(Scan!SaveOrder)
    /\ None \notin Scan!Reg
    /\ ParamRegs # << >>
    /\ {s1, s2, x0} \cap Scan!Reg = {} /\ Scan!IsInjectiveSeq(<<s1, s2, x0>>)

ASSUME VarAssumption ==
    /\ Var \subseteq Int /\ IsFiniteSet(Var)
    /\ ParamSeq \in Seq(Var) /\ Scan!IsInjectiveSeq(ParamSeq)
    /\ Len(ParamSeq) <= Len(ParamRegs)
    /\ Arrays \subseteq Var \ Params
    /\ Width \in [Arrays -> Nat \ {0}]

\* Names of one kind are not names of another.
ASSUME NameAssumption ==
    /\ Globals \cap Int = {} /\ GlobalArrays \cap (Var \cup Globals) = {}
    /\ Scan!IsInjectiveSeq(<<Num, Zero, Result, Address, None>>)
    /\ (Name \cup AllRegs) \cap {Num, Zero, Result, Address, None} = {}
    /\ Name \cap AllRegs = {}

ASSUME ProgramAssumption == \A p \in Programs : IsProgram(p)

-----------------------------------------------------------------------------
Unknown == {}

NoIntervals ==
    [start |-> [v \in Var |-> -2], end |-> [v \in Var |-> -2], calls |-> FALSE]

Init ==
    /\ program \in Programs
    /\ stage = "liveness"
    /\ graph = GraphOf(program)
    /\ workList = Live!InitialQueue
    /\ liveIn  = [n \in Stmt |-> {}]
    /\ liveOut = [n \in Stmt |-> {}]
    /\ input = NoIntervals
    /\ Scan!Init
    /\ at = -1
    /\ code = << >>
    /\ regs = [r \in AllRegs |-> Unknown]
    /\ mem = [g \in Globals |-> {g}]
    /\ defined = {}

Analyse ==
    /\ stage = "liveness"
    /\ Live!Process
    /\ UNCHANGED <<program, stage, scanVars, execVars>>

CalLiveIntervals ==
    /\ stage = "liveness" /\ workList = << >>
    /\ stage' = "scan"
    /\ input' = ScanInput
    /\ UNCHANGED <<program, liveVars, phase, todo, saves, active, free,
                   var2reg, var2stack, reg2stack, usedRegs, stk, execVars>>

Allocate ==
    /\ stage = "scan"
    /\ Scan!Next
    /\ UNCHANGED <<program, stage, liveVars, execVars>>

\* compile_eeyore comes to an end, unless the compiler itself fails.
Compile ==
    /\ stage = "scan" /\ phase = "done"
    /\ stage' = IF Gen!CompilerFails THEN "failed" ELSE "compiled"
    /\ UNCHANGED <<program, liveVars, scanVars, execVars>>

-----------------------------------------------------------------------------
ArraysInRegisters == {v \in Arrays : Gen!InRegister(v)}

\* The function is called: params are in the param registers, and the
\* registers that a callee saves hold something of the caller's.
Enter ==
    /\ stage = "compiled"
    /\ stage' = "running"
    /\ \E arrays \in SetToSeqs(ArraysInRegisters) : code' = Gen!Entry(arrays)
    /\ regs' = [r \in AllRegs |->
                    IF r \in ToSet(CalleeSaved) THEN {r}
                    ELSE IF r = x0 THEN {Zero}
                    ELSE {ParamSeq[i] : i \in {j \in DOMAIN ParamSeq : ParamRegs[j] = r}}]
    /\ mem' = [l \in Globals \cup 0 .. stk - 1 |-> IF l \in Globals THEN {l} ELSE Unknown]
    /\ defined' = Params \cup Arrays \cup Globals \cup GlobalArrays
    /\ UNCHANGED <<program, at, liveVars, scanVars>>

Instr == Head(code)

Executing(op) ==
    /\ stage = "running" /\ code # << >> /\ Instr.op = op
    /\ code' = Tail(code)
    /\ UNCHANGED <<program, at, liveVars, scanVars>>

\* load loc dst | loadaddr, dst = ... | dst = src
WriteRegister ==
    /\ \E op \in {"load", "calc", "move"} :
        /\ Executing(op)
        /\ regs' = [regs EXCEPT ![Instr.dst] =
                        CASE op = "load" -> mem[Instr.loc]
                          [] op = "calc" -> {Instr.val}
                          [] op = "move" -> regs[Instr.src]]
    /\ UNCHANGED <<stage, mem, defined>>

WriteMemory ==
    /\ Executing("store")
    /\ mem' = [mem EXCEPT ![Instr.loc] = regs[Instr.src]]
    /\ UNCHANGED <<stage, regs, defined>>

\* if and SYMBOL[...] = ... change no register, nor a place of the frame
\* that holds anything but array elements.
ReadOnly ==
    /\ Executing("use")
    /\ UNCHANGED <<stage, regs, mem, defined>>

\* A function compiled like this one was called: it saves the callee saved
\* registers only, excluding s0, s1, s2, and may assign to globals.
CallFunction ==
    /\ Executing("call")
    /\ regs' = [r \in AllRegs |->
                    IF r = ParamRegs[1] THEN {Result}
                    ELSE IF r \in ToSet(CalleeSaved) \cup {x0} THEN regs[r] \ Globals
                    ELSE Unknown]
    /\ mem' = [l \in DOMAIN mem |-> IF l \in Globals THEN mem[l] ELSE mem[l] \ Globals]
    /\ UNCHANGED <<stage, defined>>

\* The assignment to lhs has been executed.
CommitAssignment ==
    /\ Executing("commit")
    /\ LET renamed(c) == (c \ {Instr.lhs}) \cup (IF Instr.from \in c THEN {Instr.lhs} ELSE {})
       IN  /\ regs' = [r \in AllRegs |-> renamed(regs[r])]
           /\ mem'  = [l \in DOMAIN mem |-> renamed(mem[l])]
    /\ defined' = IF Instr.from \in Name \ defined
                    THEN defined \ {Instr.lhs} ELSE defined \cup {Instr.lhs}
    /\ UNCHANGED stage

ReturnToCaller ==
    /\ Executing("return")
    /\ stage' = "returned"
    /\ UNCHANGED <<regs, mem, defined>>

\* Control passes to the next statement; values within one are forgotten.
NextStatement ==
    /\ stage = "running" /\ code = << >>
    /\ \E n \in IF at = -1 THEN {0} ELSE graph.succs[at] :
        /\ at' = n
        /\ code' = Gen!Statement(n)
    /\ LET lasting(c) == c \ {Num, Result, Address}
       IN  /\ regs' = [r \in AllRegs |-> lasting(regs[r])]
           /\ mem'  = [l \in DOMAIN mem |-> lasting(mem[l])]
    /\ UNCHANGED <<program, stage, liveVars, scanVars, defined>>

Execute ==
    \/ WriteRegister \/ WriteMemory \/ ReadOnly \/ CallFunction
    \/ CommitAssignment \/ ReturnToCaller \/ NextStatement

Next == Analyse \/ CalLiveIntervals \/ Allocate \/ Compile \/ Enter \/ Execute

Spec == Init /\ [][Next]_vars

-----------------------------------------------------------------------------
\* Types across the passes, and no place of the frame outside it.
TypeOK ==
    /\ stage \in {"liveness", "scan", "compiled", "failed", "running", "returned"}
    /\ Live!TypeOK /\ Scan!TypeOK
    /\ at \in Stmt \cup {-1}
    /\ DOMAIN regs = AllRegs
    /\ stage = "running" => DOMAIN mem = Globals \cup 0 .. stk - 1
    /\ (stage = "running" /\ code # << >> /\ "loc" \in DOMAIN Instr) => Instr.loc \in DOMAIN mem

\* Whenever an instruction reads a register for a value, the register holds
\* that value: operands of every statement, array addresses, arguments of a
\* call, the value returned.
OperandsCurrent ==
    (stage = "running" /\ code # << >>) =>
        \A read \in Instr.reads :
            (read[2] \in Name => read[2] \in defined) => read[2] \in regs[read[1]]

\* Between statements, every variable that has a value and is live is in the
\* place that linear_scan gave it, wherever the path came from.  (The head of
\* an array has no other place than a register, and the code of a function
\* that is compiled reads no param without one: CompilerFails.)
Home(v) == IF Gen!InRegister(v) THEN regs[var2reg[v]] ELSE mem[Gen!Place(v)]

LiveValuesHome ==
    (stage = "running" /\ code = << >> /\ at >= 0) =>
        \A v \in liveOut[at] \cap defined :
            (v \in Params \cup Arrays \cup GlobalArrays => Gen!InRegister(v)) => v \in Home(v)

\* The head address of an array is in its register from the very beginning:
\* loading it there (e_gen_t.cpp:72-76) disturbs no param that the function
\* goes on to read.
ParamsSurviveEntry ==
    (stage = "running" /\ code = << >> /\ at = -1) =>
        \A p \in liveIn[0] \cap Params : Gen!InRegister(p) => p \in regs[var2reg[p]]

\* An assignment to a variable that is not live, which may have lost its
\* register, covers no register with a wrong value (e_gen_t.cpp:100-106).
UselessDefsHarmless ==
    (stage = "running" /\ code = << >> /\ at >= 0) =>
        \A x \in Def(program[at]) \ liveOut[at] :
            \A v \in liveOut[at] \cap Var \cap defined :
                Gen!InRegister(v) => v \in regs[var2reg[v]]

\* A param that linear_scan left without a register is read from the stack
\* space allocated for it (linear_scan.cpp:101-102, 161-165): the function
\* is compiled.
CompilerSucceeds == stage # "failed"

\* A callee and the caller find every global in memory.
GlobalsInMemory ==
    (stage = "running" /\ code # << >> /\ Instr.op \in {"call", "return"}) =>
        \A g \in Globals \cap defined : g \in mem[g]

\* A statement at which a variable is live lies within its interval.
IntervalsCover ==
    stage = "scan" =>
        \A v \in Var, n \in Stmt :
            /\ v \in liveOut[n] => Intervals!StartOf(v) <= n /\ n <= Intervals!EndOf(v)
            /\ (v \in liveIn[n] /\ n > 0) => Intervals!StartOf(v) < n /\ n <= Intervals!EndOf(v)

\* What the register allocation is for: once the intervals are known, two
\* variables that are live at the same time, after a statement or, as params,
\* when the function is entered, are never in one register.
LiveVariablesApart ==
    stage # "liveness" =>
        \A n \in Stmt, u, v \in Var :
            /\ u # v /\ Gen!InRegister(u)
            /\ {u, v} \subseteq liveOut[n] \/ {u, v} \subseteq liveIn[0] \cap Params
            => var2reg[u] # var2reg[v]

\* Functions that the findings above do not concern (ParamsSurviveEntry,
\* UselessDefsHarmless): none assigns to a param, and the first statement
\* reads neither what it assigns to nor, next to an array, a param or an array.
Spared(p) ==
    /\ \A n \in Stmt : Def(p[n]) \cap Params = {}
    /\ Used(p[0]) \cap Def(p[0]) = {}
    /\ Arrays # {} => Used(p[0]) \cap (Params \cup Arrays) = {}

=============================================================================
