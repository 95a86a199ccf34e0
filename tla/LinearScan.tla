----------------------------- MODULE LinearScan -----------------------------
(***************************************************************************)
(* Newpiler::linear_scan (backend/linear_scan.cpp:52-202): registers and   *)
(* stack slots for the variables of one function, given their live         *)
(* intervals.  One action is one iteration of one of its loops.            *)
(*                                                                         *)
(* Variables are numbers, in the order of their names, so that the order   *)
(* of func->live_intervals_ (CmpStart) and of active (CmpEnd) is that of   *)
(* pairs of numbers.                                                       *)
(***************************************************************************)
EXTENDS Integers, Sequences, FiniteSets

CONSTANTS
    CalleeSaved,    \* callee_saved_regs, caller_saved_regs and param_regs,
    CallerSaved,    \*   sequences of registers in ascending number
    ParamRegs,
    None,           \* no entry in var2reg
    Var,            \* locals and params of the function
    Params,         \* the params among them
    Arrays,         \* the local arrays among them
    Width,          \* width_ of each array
    Inputs          \* [start, end : functions on Var, calls : has_call]

NoSlot == -1        \* no entry in var2stack or reg2stack

Elements(s) == {s[i] : i \in 1 .. Len(s)}

Reg == Elements(CalleeSaved) \cup Elements(CallerSaved) \cup Elements(ParamRegs)

SaveOrderWithoutParamRegs == CalleeSaved \o CallerSaved

\* The order in which reg2stack is filled.
SaveOrder == CalleeSaved \o CallerSaved \o ParamRegs

IsInjectiveSeq(s) == \A i, j \in 1 .. Len(s) : s[i] = s[j] => i = j

ASSUME RegAssumption ==
    /\ CalleeSaved \in Seq(Reg) /\ CallerSaved \in Seq(Reg) /\ ParamRegs \in Seq(Reg)
    /\ IsInjectiveSeq(SaveOrder)
    /\ None \notin Reg

ASSUME VarAssumption ==
    /\ Var \subseteq Int /\ IsFiniteSet(Var)
    /\ Params \subseteq Var /\ Arrays \subseteq Var \ Params
    /\ Width \in [Arrays -> Nat \ {0}]

ASSUME InputAssumption ==
    \A i \in Inputs : i.start \in [Var -> Int] /\ i.end \in [Var -> Int] /\ i.calls \in BOOLEAN

VARIABLES
    input,      \* func->live_intervals_ and has_call, fixed
    phase,      \* which loop of linear_scan is running
    todo,       \* what that loop has still to visit: variables ...
    saves,      \* ... or, in the last loops, registers
    active,     \* variables whose interval is in active
    free,       \* free_regs
    var2reg,
    var2stack,
    reg2stack,
    usedRegs,   \* used_regs
    stk         \* stk_sz, in the end stack_size_

vars == <<input, phase, todo, saves, active, free, var2reg, var2stack,
          reg2stack, usedRegs, stk>>

Start(v) == input.start[v]
End(v)   == input.end[v]

-----------------------------------------------------------------------------
Init ==
    /\ input \in Inputs
    /\ phase = "scan"
    /\ todo = Var
    /\ saves = SaveOrder
    /\ active = {}
    /\ free = Reg
    /\ var2reg = [v \in Var |-> None]
    /\ var2stack = [v \in Var |-> NoSlot]
    /\ reg2stack = [r \in Reg |-> NoSlot]
    /\ usedRegs = {}
    /\ stk = 0

\* CmpStart and CmpEnd, with equal intervals told apart by name.
Before(u, v) == Start(u) < Start(v) \/ (Start(u) = Start(v) /\ u < v)
EndsBefore(u, v) == End(u) < End(v) \/ (End(u) = End(v) /\ u < v)

EndsFirst(v, S) == v \in S /\ \A u \in S \ {v} : EndsBefore(v, u)

IsFirst(v, S) == v \in S /\ \A u \in S \ {v} : Before(v, u)
EndsLast(v, S) == v \in S /\ \A u \in S \ {v} : EndsBefore(u, v)

PreferenceWithoutParamRegs ==
    IF input.calls THEN CallerSaved \o CalleeSaved ELSE CalleeSaved \o CallerSaved

\* get_free_reg takes the free register that comes last in this order:
\* callee saved, then caller saved, then param registers in a function with
\* calls, otherwise caller saved, then param, then callee saved; within a
\* class the highest number.
Preference ==
    IF input.calls THEN ParamRegs \o CallerSaved \o CalleeSaved
                   ELSE CalleeSaved \o ParamRegs \o CallerSaved

Preferred(r, F) ==
    \E i \in 1 .. Len(Preference) :
        /\ Preference[i] = r /\ r \in F
        /\ \A j \in i + 1 .. Len(Preference) : Preference[j] \notin F

\* alloc_stack_pos
Size(v) == IF v \in Arrays THEN Width[v] ELSE 1

AllocOneWord(v) ==
    /\ var2stack' = [var2stack EXCEPT ![v] = stk]
    /\ stk' = stk + 1

AllocStackPos(v) ==
    /\ var2stack' = [var2stack EXCEPT ![v] = stk]
    /\ stk' = stk + Size(v)

\* Mutants of the definitions around them, which the runs must tell from them.
ExpiredEarly(v) == {u \in active : End(u) <= Start(v) + 1}
FreeAtWithoutExpired(v) == free

\* The intervals the loop at linear_scan.cpp:144-151 takes out of active.
Expired(v) == {u \in active : End(u) <= Start(v)}
StillLive(v) == active \ Expired(v)
FreeAt(v) == free \cup {var2reg[u] : u \in Expired(v)}

Visit(v) ==
    /\ phase = "scan"
    /\ IsFirst(v, todo)
    /\ todo' = todo \ {v}
    /\ UNCHANGED <<input, phase, saves, reg2stack>>

\* A register is free: v gets the preferred one.
Allocate(v) ==
    /\ Visit(v)
    /\ Cardinality(StillLive(v)) # Cardinality(Reg)
    /\ \E r \in FreeAt(v) :
        /\ Preferred(r, FreeAt(v))
        /\ var2reg' = [var2reg EXCEPT ![v] = r]
        /\ free' = FreeAt(v) \ {r}
        /\ usedRegs' = usedRegs \cup {r}
    /\ active' = StillLive(v) \cup {v}
    /\ UNCHANGED <<var2stack, stk>>

SpillActiveKeepingRegister(v) ==
    /\ Visit(v)
    /\ Cardinality(StillLive(v)) = Cardinality(Reg)
    /\ \E spill \in StillLive(v) :
        /\ EndsLast(spill, StillLive(v))
        /\ End(spill) > End(v)
        /\ var2reg' = [var2reg EXCEPT ![v] = var2reg[spill]]
        /\ active' = (StillLive(v) \ {spill}) \cup {v}
        /\ AllocStackPos(spill)
    /\ free' = FreeAt(v)
    /\ UNCHANGED usedRegs

\* All registers are taken and some active interval ends after that of v:
\* the one that ends last goes to the stack and v gets its register.
SpillActive(v) ==
    /\ Visit(v)
    /\ Cardinality(StillLive(v)) = Cardinality(Reg)
    /\ \E spill \in StillLive(v) :
        /\ EndsLast(spill, StillLive(v))
        /\ End(spill) > End(v)
        /\ var2reg' = [var2reg EXCEPT ![v] = var2reg[spill], ![spill] = None]
        /\ active' = (StillLive(v) \ {spill}) \cup {v}
        /\ AllocStackPos(spill)
    /\ free' = FreeAt(v)
    /\ UNCHANGED usedRegs

\* All registers are taken by intervals that end no later: v goes to the stack.
SpillCurrent(v) ==
    /\ Visit(v)
    /\ Cardinality(StillLive(v)) = Cardinality(Reg)
    /\ \E spill \in StillLive(v) : EndsLast(spill, StillLive(v)) /\ End(spill) <= End(v)
    /\ AllocStackPos(v)
    /\ active' = StillLive(v)
    /\ free' = FreeAt(v)
    /\ UNCHANGED <<var2reg, usedRegs>>

ScanDoneForParamsOnly ==
    /\ phase = "scan" /\ todo = {}
    /\ phase' = "frame"
    /\ todo' = {v \in Params : var2reg[v] # None}
    /\ UNCHANGED <<input, saves, active, free, var2reg, var2stack, reg2stack, usedRegs, stk>>

\* The params and arrays that got a register own stack space as well.
ScanDone ==
    /\ phase = "scan" /\ todo = {}
    /\ phase' = "frame"
    /\ todo' = {v \in Params \cup Arrays : var2reg[v] # None}
    /\ UNCHANGED <<input, saves, active, free, var2reg, var2stack, reg2stack, usedRegs, stk>>

\* var2reg is a hash map: its entries come in any order.
PlaceFrame(v) ==
    /\ phase = "frame" /\ v \in todo
    /\ AllocStackPos(v)
    /\ todo' = todo \ {v}
    /\ UNCHANGED <<input, phase, saves, active, free, var2reg, reg2stack, usedRegs>>

FrameDone ==
    /\ phase = "frame" /\ todo = {}
    /\ phase' = "save"
    /\ UNCHANGED <<input, todo, saves, active, free, var2reg, var2stack, reg2stack, usedRegs, stk>>

SaveSlotForAll ==
    /\ phase = "save" /\ saves # << >>
    /\ saves' = Tail(saves)
    /\ reg2stack' = [reg2stack EXCEPT ![Head(saves)] = stk]
    /\ stk' = stk + 1
    /\ UNCHANGED <<input, phase, todo, active, free, var2reg, var2stack, usedRegs>>

\* A slot for every used register, to save it around calls.
SaveSlot ==
    /\ phase = "save" /\ saves # << >>
    /\ saves' = Tail(saves)
    /\ IF Head(saves) \in usedRegs
         THEN /\ reg2stack' = [reg2stack EXCEPT ![Head(saves)] = stk]
              /\ stk' = stk + 1
         ELSE UNCHANGED <<reg2stack, stk>>
    /\ UNCHANGED <<input, phase, todo, active, free, var2reg, var2stack, usedRegs>>

SaveDone ==
    /\ phase = "save" /\ saves = << >>
    /\ phase' = "done"
    /\ UNCHANGED <<input, todo, saves, active, free, var2reg, var2stack, reg2stack, usedRegs, stk>>

Next ==
    \/ \E v \in Var : Allocate(v) \/ SpillActive(v) \/ SpillCurrent(v) \/ PlaceFrame(v)
    \/ ScanDone \/ FrameDone \/ SaveSlot \/ SaveDone

Spec == Init /\ [][Next]_vars /\ WF_vars(Next)

-----------------------------------------------------------------------------
\* Every field has its type; a save slot exists only for a register in use.
TypeOK ==
    /\ input \in Inputs
    /\ phase \in {"scan", "frame", "save", "done"}
    /\ todo \subseteq Var
    /\ saves \in Seq(Reg)
    /\ active \subseteq Var
    /\ free \subseteq Reg
    /\ usedRegs \subseteq Reg
    /\ var2reg \in [Var -> Reg \cup {None}]
    /\ var2stack \in [Var -> Int]
    /\ reg2stack \in [Reg -> Int]
    /\ stk \in Nat
    /\ \A r \in Reg : reg2stack[r] # NoSlot => r \in usedRegs

InRegister(v) == var2reg[v] # None

\* Two variables that share a register do so one after the other: the
\* interval of one has ended when that of the other starts.  Registers
\* change hands when an interval expires and when one is spilled.
NoSharedRegister ==
    \A u, v \in Var :
        (u # v /\ InRegister(u) /\ var2reg[u] = var2reg[v])
            => End(u) <= Start(v) \/ End(v) <= Start(u)

\* free_regs and the registers of the active intervals share out all the
\* registers, so that get_free_reg finds one whenever fewer than R intervals
\* are active and its assert(false) is not reached.
RegistersAccountedFor ==
    /\ \A v \in active : InRegister(v) /\ var2reg[v] \in usedRegs
    /\ \A u, v \in active : var2reg[u] = var2reg[v] => u = v
    /\ free = Reg \ {var2reg[v] : v \in active}

Apart(at1, size1, at2, size2) == at1 + size1 <= at2 \/ at2 + size2 <= at1

\* No word of the frame belongs to two owners, and all lie below stk_sz.
FrameDisjoint ==
    /\ \A v \in Var : var2stack[v] # NoSlot =>
            /\ var2stack[v] >= 0 /\ var2stack[v] + Size(v) <= stk
            /\ \A u \in Var \ {v} : var2stack[u] # NoSlot =>
                    Apart(var2stack[v], Size(v), var2stack[u], Size(u))
            /\ \A r \in Reg : reg2stack[r] # NoSlot =>
                    Apart(var2stack[v], Size(v), reg2stack[r], 1)
    /\ \A r \in Reg : reg2stack[r] # NoSlot =>
            /\ reg2stack[r] >= 0 /\ reg2stack[r] < stk
            /\ \A q \in Reg \ {r} : reg2stack[q] # reg2stack[r]

\* When the allocation is complete, the code generator finds everything it
\* looks up: a register or a slot for every variable, a slot for every param
\* and array, and a save slot for every register that holds a variable.
AllPlaced ==
    phase = "done" =>
        /\ \A v \in Var :
            /\ InRegister(v) \/ var2stack[v] # NoSlot
            /\ v \in Params \cup Arrays => var2stack[v] # NoSlot
            /\ InRegister(v) => reg2stack[var2reg[v]] # NoSlot
        /\ \A r \in usedRegs : reg2stack[r] # NoSlot

-----------------------------------------------------------------------------
\* The invariant by which the others are proved says how far each loop is.
ScanProgress ==
    phase = "scan" =>
        /\ \A v \in todo : ~InRegister(v) /\ v \notin active /\ var2stack[v] = NoSlot
        /\ \A v \in Var \ todo : InRegister(v) <=> var2stack[v] = NoSlot
        /\ \A u \in Var \ active, w \in todo : InRegister(u) => End(u) <= Start(w)

FrameProgress ==
    /\ phase = "frame" =>
        todo = {v \in Params \cup Arrays : InRegister(v) /\ var2stack[v] = NoSlot}
    /\ phase # "scan" => \A v \in Var : InRegister(v) \/ var2stack[v] # NoSlot
    /\ phase \in {"save", "done"} => \A v \in Params \cup Arrays : var2stack[v] # NoSlot

SaveProgress ==
    /\ \A v \in Var : InRegister(v) => var2reg[v] \in usedRegs
    /\ \A r \in usedRegs : reg2stack[r] # NoSlot \/ r \in Elements(saves)
    /\ phase = "scan" => saves = SaveOrder
    /\ phase = "done" => saves = << >>

IInv ==
    /\ TypeOK /\ RegistersAccountedFor /\ NoSharedRegister
    /\ ScanProgress /\ FrameProgress /\ SaveProgress

-----------------------------------------------------------------------------
\* A slot never moves, and a variable sent to the stack stays there.
SlotsAreFinal ==
    [][\A v \in Var : var2stack[v] # NoSlot =>
            /\ var2stack'[v] = var2stack[v]
            /\ ~InRegister(v) => var2reg'[v] = None]_vars

\* The heuristic of linear_scan.cpp:155: the interval sent to the stack ends
\* no earlier than any interval that keeps or gets a register.
SpillsTheLastToEnd ==
    [][\A v \in Var :
        (phase = "scan" /\ var2stack[v] = NoSlot /\ var2stack'[v] # NoSlot)
            => \A u \in active' : End(u) <= End(v)]_vars

\* The allocation always runs to completion.
Completes == <>(phase = "done")

=============================================================================
