------------------------------ MODULE RiscVGen ------------------------------
(***************************************************************************)
(* From Tigger to RISC-V: parse_compile_tigger (backend/t_gen_r.cpp) and   *)
(* strength_reduction (backend/opt.cpp), and the RISC-V code that they     *)
(* emit, run next to the Tigger function it was made from.                 *)
(*                                                                         *)
(* Both passes go line by line, so the model takes one Tigger line at a    *)
(* time through both of them and then runs the lines it gave.  A label is  *)
(* the number of the line that it stands before; a global is its address.  *)
(***************************************************************************)
EXTENDS Integers, Sequences, Functions

CONSTANTS
    Bits,       \* width of a register, 32
    ImmBits,    \* width of an immediate operand, 12
    Reg,        \* registers that Tigger code uses; s0 is not one of them
    x0,         \* the register that is always 0, one of Reg
    s0, sp, ra,
    Functions,  \* [size, body]: words of the frame, lines of Tigger
    Data,       \* what is in the global at an address: .word NUM, or .comm
    Starts,     \* contents of Reg on entry
    StackTop,   \* contents of sp on entry
    Caller      \* contents of ra on entry

\* What the proofs use of powers; the provers know nothing about them.
ASSUME PowerAssumption ==
    2^0 = 1 /\ \A n \in 0 .. Bits - 1 : 2^n \in Nat \ {0} /\ 2^(n + 1) = 2 * 2^n

ASSUME WidthAssumption == Bits \in Nat /\ ImmBits \in 2 .. Bits - 1

ASSUME RegAssumption ==
    /\ x0 \in Reg /\ {s0, sp, ra} \cap Reg = {}
    /\ s0 # sp /\ s0 # ra /\ sp # ra

Value == -2^(Bits - 1) .. 2^(Bits - 1) - 1
Wrap(x) == ((x + 2^(Bits - 1)) % 2^Bits) - 2^(Bits - 1)
WordAddress == {address \in Value : address % 4 = 0}
FitsImm(n) == -2^(ImmBits - 1) <= n /\ n < 2^(ImmBits - 1)

VARIABLES
    function,   \* the function, fixed
    line,       \* number of its next line
    pending,    \* lines that parse_compile_tigger made of the last one
    halving,    \* multiplier or divisor and k, in the loops at opt.cpp:36, 51
    code,       \* lines that strength_reduction is done with
    regs, mem,  \* the RISC-V machine
    goal,       \* the Tigger machine: the number of its next line, ...
    tregs,      \* ... its registers, ...
    slots       \* ... and the words of the frame and the globals

vars == <<function, line, pending, halving, code, regs, mem, goal, tregs, slots>>

-----------------------------------------------------------------------------
\* Arithmetic of both machines.
Truth(b) == IF b THEN 1 ELSE 0
Magnitude(x) == IF x < 0 THEN -x ELSE x
Sign(x) == IF x < 0 THEN -1 ELSE 1

\* Division cuts off towards 0, and the remainder has the dividend's sign.
Quotient(a, b) == Sign(a) * Sign(b) * (Magnitude(a) \div Magnitude(b))
Remainder(a, b) == a - b * Quotient(a, b)

Bit(x, i) == ((x % 2^Bits) \div 2^i) % 2
Or(a, b) == IF a = b THEN a ELSE IF a = 0 THEN b ELSE IF b = 0 THEN a ELSE
    LET sum[i \in 0 .. Bits] ==
            IF i = 0 THEN 0
            ELSE sum[i - 1] + 2^(i - 1) * Truth(Bit(a, i - 1) = 1 \/ Bit(b, i - 1) = 1)
    IN  Wrap(sum[Bits])

\* The value of a BinOp b in SysY, C and Tigger.
Outcome(bop, a, b) ==
    CASE bop = "+"  -> Wrap(a + b)
      [] bop = "-"  -> Wrap(a - b)
      [] bop = "*"  -> Wrap(a * b)
      [] bop = "/"  -> Wrap(Quotient(a, b))
      [] bop = "%"  -> Remainder(a, b)
      [] bop = "<"  -> Truth(a < b)
      [] bop = ">"  -> Truth(a > b)
      [] bop = "<=" -> Truth(a <= b)
      [] bop = ">=" -> Truth(a >= b)
      [] bop = "==" -> Truth(a = b)
      [] bop = "!=" -> Truth(a # b)
      [] bop = "||" -> Truth(a # 0 \/ b # 0)
      [] bop = "&&" -> Truth(a # 0 /\ b # 0)

-----------------------------------------------------------------------------
\* Mutants that the runs must tell from the definition that follows each of
\* them: MvSwapped, GenImmAtOnce, GenBinopUnnegated, FrameBytesWithoutSpare,
\* FrameBytesRoundedUp and HalfRoundedUp.

\* RISC-V lines: rrr d, a, b; rri d, a, n; lw d, n(a); sw b, n(a).
RRR(op, d, a, b) == [op |-> op, d |-> d, a |-> a, b |-> b]
RRI(op, d, a, n) == [op |-> op, d |-> d, a |-> a, n |-> n]
Li(d, n) == RRI("li", d, x0, n)
MvSwapped(d, a) == RRI("mv", a, d, 0)
Mv(d, a) == RRI("mv", d, a, 0)
Seqz(d, a) == RRI("seqz", d, a, 0)
Snez(d, a) == RRI("snez", d, a, 0)

GenImmAtOnce(opImm, op, d, a, n) == <<RRI(opImm, d, a, n)>>

\* gen_addi and gen_slti; gen_lw and gen_sw: an offset that does not fit
\* goes through s0.
GenImm(opImm, op, d, a, n) ==
    IF FitsImm(n) THEN <<RRI(opImm, d, a, n)>> ELSE <<Li(s0, n), RRR(op, d, a, s0)>>

Access(op, r, a, n) ==
    IF op = "lw" THEN RRI("lw", r, a, n) ELSE [op |-> "sw", b |-> r, a |-> a, n |-> n]

GenAccess(op, r, a, n) ==
    IF FitsImm(n) THEN <<Access(op, r, a, n)>>
    ELSE <<Li(s0, n), RRR("add", s0, s0, a), Access(op, r, s0, 0)>>

GenLw(d, n, a) == GenAccess("lw", d, a, n)
GenSw(b, n, a) == GenAccess("sw", b, a, n)

Op2Instr ==
    [bop \in {"+", "-", "*", "/", "%", "<", ">", "<=", ">=", "||", "!=", "=="} |->
        CASE bop = "+" -> "add" [] bop = "-" -> "sub" [] bop = "*" -> "mul"
          [] bop = "/" -> "div" [] bop = "%" -> "rem" [] bop \in {"<", ">="} -> "slt"
          [] bop \in {">", "<="} -> "sgt" [] bop = "||" -> "or" [] bop \in {"!=", "=="} -> "xor"]

GenBinopUnnegated(bop, d, a, b) ==
    IF bop = "&&" THEN <<Snez(d, a), Snez(s0, b), RRR("and", d, d, s0)>>
    ELSE <<RRR(Op2Instr[bop], d, a, b)>>
         \o (IF bop \in {"||", "!="} THEN <<Snez(d, d)>> ELSE << >>)

GenBinop(bop, d, a, b) ==
    IF bop = "&&" THEN <<Snez(d, a), Snez(s0, b), RRR("and", d, d, s0)>>
    ELSE <<RRR(Op2Instr[bop], d, a, b)>>
         \o (IF bop \in {"<=", ">=", "=="} THEN <<Seqz(d, d)>> ELSE << >>)
         \o (IF bop \in {"||", "!="} THEN <<Snez(d, d)>> ELSE << >>)

\* (x & (x - 1)) == 0 in two's complement: also of 0 and the least integer.
IsPowerOf2(x) == x \in {0, -2^(Bits - 1)} \cup {2^i : i \in 0 .. Bits - 2}

\* Reg = Reg BinOp NUM
GenBinopNum(bop, d, a, n) ==
    CASE bop = "+" -> GenImm("addi", "add", d, a, n)
      [] bop = "<" -> GenImm("slti", "slt", d, a, n)
      [] bop = "*" /\ IsPowerOf2(n) -> <<RRI("muli", d, a, n)>>
      [] bop = "/" /\ IsPowerOf2(n) -> <<RRI("divi", d, a, n)>>
      [] bop = "%" /\ n \in {1, 2}  -> <<RRI("remi", d, a, n)>>
      [] OTHER -> <<Li(s0, n)>> \o GenBinop(bop, d, a, s0)

\* %lo and %hi of an address: what lw adds, and what lui loads.
Lo(address) == ((address + 2^(ImmBits - 1)) % 2^ImmBits) - 2^(ImmBits - 1)
Hi(address) == Wrap(address - Lo(address))

LogicOp2Instr ==
    [lop \in {"<", ">", "<=", ">=", "!=", "=="} |->
        CASE lop = "<" -> "blt" [] lop = ">" -> "bgt" [] lop = "<=" -> "ble"
          [] lop = ">=" -> "bge" [] lop = "!=" -> "bne" [] lop = "==" -> "beq"]

FrameBytesWithoutSpare(size) == (size \div 4) * 16
FrameBytesRoundedUp(size) == IF size = 0 THEN 16 ELSE ((size + 3) \div 4) * 16

\* STK: bytes of the frame, with a word for ra above the size words.
FrameBytes(size) == (size \div 4 + 1) * 16

Lines(t) ==
    CASE t.op = "binop"    -> GenBinop(t.bop, t.d, t.a, t.b)
      [] t.op = "binopnum" -> GenBinopNum(t.bop, t.d, t.a, t.n)
      [] t.op = "neg"      -> <<RRI("neg", t.d, t.a, 0)>>
      [] t.op = "not"      -> <<Seqz(t.d, t.a)>>
      [] t.op = "num"      -> <<Li(t.d, t.n)>>
      [] t.op = "move"     -> <<Mv(t.d, t.a)>>
      [] t.op = "load"     -> GenLw(t.d, t.n * 4, sp)
      [] t.op = "store"    -> GenSw(t.b, t.n * 4, sp)
      [] t.op = "loadaddr" -> GenImm("addi", "add", t.d, sp, t.n * 4)
      [] t.op = "loadv"    -> <<RRI("lui", t.d, x0, Hi(t.v)), RRI("lw", t.d, t.d, Lo(t.v))>>
      [] t.op = "loadaddrv" -> <<RRI("la", t.d, x0, t.v)>>
      [] t.op = "if"       -> <<[op |-> LogicOp2Instr[t.lop], a |-> t.a, b |-> t.b, to |-> t.to]>>
      [] t.op = "goto"     -> <<[op |-> "j", to |-> t.to]>>
      [] t.op = "get"      -> GenLw(t.d, t.n, t.a)
      [] t.op = "put"      -> GenSw(t.b, t.n, t.a)
      [] t.op = "call"     -> <<[op |-> "call"]>>
      [] t.op = "enter"    ->
            GenImm("addi", "add", sp, sp, -FrameBytes(function.size))
            \o GenSw(ra, FrameBytes(function.size) - 4, sp)
      [] t.op = "return"   ->
            GenLw(ra, FrameBytes(function.size) - 4, sp)
            \o GenImm("addi", "add", sp, sp, FrameBytes(function.size))
            \o <<[op |-> "ret", to |-> Len(function.body) + 1]>>

-----------------------------------------------------------------------------
\* The Tigger machine.  A frame word has an address: that of word 0 is the
\* sp of the function.  Globals are words as well, below the stack.
FrameBase == StackTop - FrameBytes(function.size)
WordAt(address) == (address - FrameBase) \div 4
Words == 0 .. function.size - 1 \cup {WordAt(address) : address \in DOMAIN Data}

TiggerValue(t) ==
    CASE t.op = "binop"    -> Outcome(t.bop, tregs[t.a], tregs[t.b])
      [] t.op = "binopnum" -> Outcome(t.bop, tregs[t.a], t.n)
      [] t.op = "neg"      -> Wrap(-tregs[t.a])
      [] t.op = "not"      -> Truth(tregs[t.a] = 0)
      [] t.op = "num"      -> t.n
      [] t.op = "move"     -> tregs[t.a]
      [] t.op = "load"     -> slots[t.n]
      [] t.op = "loadaddr" -> FrameBase + 4 * t.n
      [] t.op = "loadv"    -> slots[WordAt(t.v)]
      [] t.op = "loadaddrv" -> t.v
      [] t.op = "get"      -> slots[WordAt(tregs[t.a] + t.n)]

Assigns(t) == t.op \notin {"store", "put", "call", "enter", "return", "if", "goto"}

Jumps(t) == t.op = "goto" \/ (t.op = "if" /\ Outcome(t.lop, tregs[t.a], tregs[t.b]) = 1)

TiggerStep(t) ==
    /\ goal' = IF Jumps(t) THEN t.to ELSE IF t.op = "return" THEN Len(function.body) + 1 ELSE line + 1
    /\ tregs' = IF Assigns(t) THEN [tregs EXCEPT ![t.d] = TiggerValue(t)] ELSE tregs
    /\ slots' =
        CASE t.op = "store" -> [slots EXCEPT ![t.n] = tregs[t.b]]
          [] t.op = "put"   -> [slots EXCEPT ![WordAt(tregs[t.a] + t.n)] = tregs[t.b]]
          [] OTHER          -> slots

-----------------------------------------------------------------------------
\* The functions that the Tigger generator makes: it assigns to no x0 and
\* has none of the registers reserved to this pass, jumps neither to the
\* entry nor out of the function, ends with a return, and numbers fit the
\* registers.  SysY has no operators || and && on values.
Operators == {"+", "-", "*", "/", "%", "<", ">", "<=", ">=", "==", "!="}
Target == Reg \ {x0}

TiggerLine(size, last) ==
    [op : {"binop"}, bop : Operators, d : Target, a : Reg, b : Reg]
    \cup [op : {"binopnum"}, bop : Operators, d : Target, a : Reg, n : Value]
    \cup [op : {"neg", "not", "move"}, d : Target, a : Reg]
    \cup [op : {"num"}, d : Target, n : Value]
    \cup [op : {"load", "loadaddr"}, d : Target, n : 0 .. size - 1]
    \cup [op : {"store"}, b : Reg, n : 0 .. size - 1]
    \cup [op : {"loadv", "loadaddrv"}, d : Target, v : DOMAIN Data]
    \cup [op : {"get"}, d : Target, a : Reg, n : Value]
    \cup [op : {"put"}, b : Reg, a : Reg, n : Value]
    \cup [op : {"if"}, lop : DOMAIN LogicOp2Instr, a : Reg, b : Reg, to : 2 .. last]
    \cup [op : {"goto"}, to : 2 .. last]
    \cup [op : {"call", "return"}]

\* Its frame is in memory, above the globals, and not half as large.
IsFunction(f) ==
    /\ f.size \in Nat /\ FrameBytes(f.size) \in Value
    /\ -2^(Bits - 1) <= StackTop - FrameBytes(f.size)
    /\ \A address \in DOMAIN Data : address < StackTop - FrameBytes(f.size)
    /\ Len(f.body) \in Nat \ {0, 1} /\ DOMAIN f.body = 1 .. Len(f.body)
    /\ f.body[1] = [op |-> "enter"] /\ f.body[Len(f.body)] = [op |-> "return"]
    /\ \A i \in 2 .. Len(f.body) : f.body[i] \in TiggerLine(f.size, Len(f.body))

ASSUME FunctionAssumption == \A f \in Functions : IsFunction(f)

ASSUME MemoryAssumption ==
    /\ StackTop \in WordAddress /\ Caller \in Value
    /\ DOMAIN Data \subseteq WordAddress /\ \A address \in DOMAIN Data : Data[address] \in Value
    /\ \A start \in Starts : start \in [Reg -> Value] /\ start[x0] = 0

-----------------------------------------------------------------------------
NotHalving == [n |-> 0, k |-> 0]

Init ==
    /\ function \in Functions
    /\ line = 1 /\ goal = 1
    /\ pending = << >> /\ code = << >>
    /\ halving = NotHalving
    /\ tregs \in Starts
    /\ regs = [r \in Reg \cup {s0, sp, ra} |->
                    IF r = sp THEN StackTop ELSE IF r = ra THEN Caller
                    ELSE IF r = s0 THEN 0 ELSE tregs[r]]
    /\ mem = [address \in WordAddress |-> IF address \in DOMAIN Data THEN Data[address] ELSE 0]
    /\ slots = [i \in Words |-> IF i < 0 THEN Data[FrameBase + 4 * i] ELSE 0]

AtBoundary == pending = << >> /\ code = << >>

\* parse_compile_tigger on the next line, which the Tigger machine executes.
Compile ==
    /\ AtBoundary /\ line <= Len(function.body)
    /\ pending' = Lines(function.body[line])
    /\ TiggerStep(function.body[line])
    /\ line' = line + 1
    /\ UNCHANGED <<function, halving, code, regs, mem>>

First == Head(pending)
Replace(lines) ==
    /\ pending' = Tail(pending)
    /\ code' = code \o lines
    /\ halving' = NotHalving
    /\ UNCHANGED <<function, line, regs, mem, goal, tregs, slots>>

MvUnlessSame(d, a) == IF d = a THEN << >> ELSE <<Mv(d, a)>>

NeedsShift(l) == (l.op = "muli" /\ l.n \notin {0, 1}) \/ (l.op = "divi" /\ l.n # 1)

\* The lines that strength_reduction leaves or replaces without a loop.
Kept(l) ==
    CASE l.op = "muli" /\ l.n = 0 -> <<Li(l.d, 0)>>
      [] l.op = "muli" /\ l.n = 1 -> MvUnlessSame(l.d, l.a)
      [] l.op = "divi" -> MvUnlessSame(l.d, l.a)
      [] l.op = "remi" /\ l.n = 1 -> <<Mv(l.d, x0)>>
      [] l.op = "remi" /\ l.n = 2 -> <<RRI("andi", l.d, l.a, 1)>>
      [] OTHER -> <<l>>

Keep ==
    /\ pending # << >> /\ ~NeedsShift(First)
    /\ Replace(Kept(First))

\* while (n >>= 1) k++;  k wraps around like any int in the build.
HalfRoundedUp(n) == IF n = 1 THEN 1 ELSE (n + 1) \div 2

Half(n) == n \div 2
Left == IF halving = NotHalving THEN First.n ELSE halving.n

Halve ==
    /\ pending # << >> /\ NeedsShift(First)
    /\ Half(Left) # 0
    /\ halving' = [n |-> Half(Left), k |-> Wrap(halving.k + 1)]
    /\ UNCHANGED <<function, line, pending, code, regs, mem, goal, tregs, slots>>

\* The dividend of a divi is never s0 (s0 is reserved to this pass).
Divide(d, a, k) ==
    <<RRI("srli", s0, a, Bits - 1), RRR("add", s0, s0, a), RRI("sra", d, s0, k)>>

Shifted(l, k) ==
    IF l.op = "muli" THEN <<RRI("slli", l.d, l.a, k)>> ELSE Divide(l.d, l.a, k)

Shift ==
    /\ pending # << >> /\ NeedsShift(First)
    /\ Half(Left) = 0
    /\ Replace(Shifted(First, halving.k))

-----------------------------------------------------------------------------
\* What a RISC-V line writes to its register d, for registers rs, memory ms.
Result(rs, ms, l) ==
    LET a == rs[l.a]
        b == rs[l.b]
    IN
    CASE l.op = "li"   -> l.n
      [] l.op \in {"lui", "la"} -> l.n
      [] l.op = "mv"   -> a
      [] l.op = "seqz" -> Truth(a = 0)
      [] l.op = "snez" -> Truth(a # 0)
      [] l.op = "neg"  -> Wrap(-a)
      [] l.op = "addi" -> Wrap(a + l.n)
      [] l.op = "slti" -> Truth(a < l.n)
      [] l.op = "andi" -> Bit(a, 0)                 \* the operand is always 1
      [] l.op = "slli" -> Wrap(a * 2^l.n)
      [] l.op = "srli" -> Truth(a < 0)              \* by Bits - 1
      [] l.op = "sra"  -> a \div 2^l.n
      [] l.op = "lw"   -> ms[Wrap(a + l.n)]
      [] l.op = "add"  -> Wrap(a + b)
      [] l.op = "sub"  -> Wrap(a - b)
      [] l.op = "mul"  -> Wrap(a * b)
      [] l.op = "div"  -> IF b = 0 THEN -1 ELSE Wrap(Quotient(a, b))
      [] l.op = "rem"  -> IF b = 0 THEN a ELSE Remainder(a, b)
      [] l.op = "slt"  -> Truth(a < b)
      [] l.op = "sgt"  -> Truth(a > b)
      [] l.op = "or"   -> Or(a, b)
      [] l.op = "xor"  -> Truth(a # b)              \* seqz or snez follows
      [] l.op = "and"  -> Truth(a = 1 /\ b = 1)     \* of results of snez

Ready == pending = << >> /\ code # << >>
Instr == Head(code)

RunRegister ==
    /\ Ready /\ Instr.op \notin {"sw", "call", "j", "ret"} \cup Range(LogicOp2Instr)
    /\ regs' = [regs EXCEPT ![Instr.d] = Result(regs, mem, Instr)]
    /\ code' = Tail(code)
    /\ UNCHANGED <<function, line, pending, halving, mem, goal, tregs, slots>>

RunStore ==
    /\ Ready /\ Instr.op = "sw"
    /\ mem' = [mem EXCEPT ![Wrap(regs[Instr.a] + Instr.n)] = regs[Instr.b]]
    /\ code' = Tail(code)
    /\ UNCHANGED <<function, line, pending, halving, regs, goal, tregs, slots>>

Taken(rs, l) ==
    CASE l.op \in {"j", "ret"} -> TRUE
      [] l.op = "blt" -> rs[l.a] < rs[l.b]
      [] l.op = "bgt" -> rs[l.a] > rs[l.b]
      [] l.op = "ble" -> rs[l.a] <= rs[l.b]
      [] l.op = "bge" -> rs[l.a] >= rs[l.b]
      [] l.op = "bne" -> rs[l.a] # rs[l.b]
      [] l.op = "beq" -> rs[l.a] = rs[l.b]

RunJump ==
    /\ Ready /\ Instr.op \in {"j", "ret"} \cup Range(LogicOp2Instr)
    /\ line' = IF Taken(regs, Instr) THEN Instr.to ELSE line
    /\ code' = Tail(code)
    /\ UNCHANGED <<function, pending, halving, regs, mem, goal, tregs, slots>>

\* A callee returns with its own use of s0 and its return address in ra.
RunCall ==
    /\ Ready /\ Instr.op = "call"
    /\ regs' = [regs EXCEPT ![ra] = 0, ![s0] = 0]
    /\ code' = Tail(code)
    /\ UNCHANGED <<function, line, pending, halving, mem, goal, tregs, slots>>

Next == Compile \/ Keep \/ Halve \/ Shift \/ RunRegister \/ RunStore \/ RunJump \/ RunCall

Spec == Init /\ [][Next]_vars /\ WF_vars(Next)

-----------------------------------------------------------------------------
\* Every field has its type.
TypeOK ==
    /\ function \in Functions
    /\ {line, goal} \subseteq 1 .. Len(function.body) + 1
    /\ \A r \in DOMAIN regs : regs[r] \in Value
    /\ regs[x0] = 0
    /\ DOMAIN mem = WordAddress /\ \A address \in WordAddress : mem[address] \in Value
    /\ tregs \in [Reg -> Value]
    /\ slots \in [Words -> Value]

InFunction == line > 1 /\ line <= Len(function.body)

\* After the code of each Tigger line the registers hold what they hold on
\* the Tigger machine, the frame words are at their place on the stack, the
\* globals at theirs, and the next line is the same, whatever was replaced
\* by something cheaper and whatever s0 was used for.
SameOutcome ==
    AtBoundary =>
        /\ line = goal
        /\ \A r \in Reg : regs[r] = tregs[r]
        /\ InFunction =>
            \A i \in DOMAIN slots : mem[FrameBase + 4 * i] = slots[i]

\* A function returns to its caller with the caller's stack pointer, though
\* it calls others and stores into every word of its frame.
ReturnsToCaller ==
    (AtBoundary /\ line > Len(function.body)) => regs[sp] = StackTop /\ regs[ra] = Caller

\* No line writes above or below the frame of its function.
StaysInFrame ==
    \A address \in WordAddress :
        (address < FrameBase \/ address >= StackTop) =>
            mem[address] = 0 \/ address \in DOMAIN Data

\* Every operand is one the instruction can encode.
OperandsFit ==
    \A i \in 1 .. Len(code) :
        /\ code[i].op \in {"addi", "slti", "andi", "lw", "sw"} => FitsImm(code[i].n)
        /\ code[i].op \in {"slli", "srli", "sra"} => code[i].n \in 0 .. Bits - 1
        /\ code[i].op = "lui" => code[i].n % 2^ImmBits = 0
        /\ code[i].op \notin {"muli", "divi", "remi"}

\* The loop that counts shifts, at opt.cpp:36, has come to where it stays.
ShiftsForEver == pending # << >> /\ NeedsShift(First) /\ Half(Left) = Left

\* For signed operands at least one of the shortcuts is right that the
\* comments announce (t_gen_r.cpp:230, 239, 250): a quotient that the
\* function has stored in word 0 of its frame, a remainder in word 1, or a
\* product that the compiler is working on.
OneShortcutIsRight ==
    \/ ~ShiftsForEver
    \/ \E i \in {0, 1} \cap DOMAIN slots : mem[FrameBase + 4 * i] = slots[i]

\* The compiler comes to the end of the function, and its code to the return.
Completes == <>(AtBoundary /\ line > Len(function.body))

=============================================================================
