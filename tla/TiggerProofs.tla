---------------------------- MODULE TiggerProofs ----------------------------
(***************************************************************************)
(* Proofs about the Tigger code that Backend executes, for functions of    *)
(* every size: every register that is read holds the value that the        *)
(* Eeyore statement means.                                                 *)
(*                                                                         *)
(* The code of a statement is given meaning by the states it leads         *)
(* through.  Code is safe from a state if every instruction finds there    *)
(* what it reads, up to a state of the set given; the code of two parts is *)
(* safe if each of them is, and what remains of safe code is safe.         *)
(***************************************************************************)
EXTENDS BackendProofs, FiniteSetTheorems

-----------------------------------------------------------------------------
(* FlattenSeq without its recursion: the sequences it is given are put     *)
(* together one after the other.                                           *)

\* What FlattenSeq returns is the last of the sequences that it puts
\* together one by one.
IsFlattening(f, cs) ==
    \A i \in 1 .. Len(cs) : f[i] = IF i = 1 THEN cs[i] ELSE f[i - 1] \o cs[i]

\* The equation by which FlattenSeq defines that function.
Unfolded(f, cs, n) == [i \in 1 .. n |-> IF i = 1 THEN cs[i] ELSE f[i - 1] \o cs[i]]

\* It has a solution, which is found from left to right.
LEMMA FlatteningExists ==
    ASSUME NEW X, NEW cs \in Seq(Seq(X)), NEW n \in 1 .. Len(cs)
    PROVE  \E f \in [1 .. n -> Seq(X)] : f = Unfolded(f, cs, n)
<1> DEFINE Lacks == {k \in 1 .. Len(cs) : ~ \E f \in [1 .. k -> Seq(X)] : f = Unfolded(f, cs, k)}
<1>1. ASSUME Lacks # {} PROVE FALSE
  <2>0. Lacks \in SUBSET Nat
    OBVIOUS
  <2>1. PICK k \in Lacks : \A j \in Lacks : k <= j
    <3> HIDE DEF Lacks
    <3> QED BY <1>1, <2>0, LeastNatural
  <2>2. k \in 1 .. Len(cs) /\ Len(cs) \in Nat /\ cs[k] \in Seq(X)
    OBVIOUS
  <2>3. CASE k = 1
    <3> DEFINE g == [i \in 1 .. 1 |-> cs[1]]
    <3>1. g \in [1 .. k -> Seq(X)] /\ g = Unfolded(g, cs, k)
      BY <2>2, <2>3 DEF Unfolded
    <3> QED BY <2>1, <3>1
  <2>4. CASE k # 1
    <3>1. k - 1 \in 1 .. Len(cs) /\ k - 1 \notin Lacks
      <4>1. k - 1 \in 1 .. Len(cs) /\ ~(k <= k - 1)
        BY <2>2, <2>4
      <4> HIDE DEF Lacks
      <4> QED BY <4>1, <2>1
    <3>2. PICK f \in [1 .. k - 1 -> Seq(X)] : f = Unfolded(f, cs, k - 1)
      BY <3>1
    <3> DEFINE g == [i \in 1 .. k |-> IF i = k THEN f[k - 1] \o cs[k] ELSE f[i]]
    <3>3. f[k - 1] \o cs[k] \in Seq(X)
      BY <2>2, <3>1, <3>2
    <3>4. g \in [1 .. k -> Seq(X)]
      BY <2>2, <3>3
    <3>a. g[k] = f[k - 1] \o cs[k] /\ \A i \in 1 .. k - 1 : g[i] = f[i]
      <4>1. k \in 1 .. k /\ \A i \in 1 .. k - 1 : i \in 1 .. k /\ i # k
        BY <2>2
      <4> QED BY <4>1
    <3>b. g = [i \in 1 .. k |-> g[i]]
      OBVIOUS
    <3>c. \A i \in 1 .. k - 1 : f[i] = IF i = 1 THEN cs[i] ELSE f[i - 1] \o cs[i]
      BY <3>2 DEF Unfolded
    <3> HIDE DEF g
    <3>5. \A i \in 1 .. k : g[i] = IF i = 1 THEN cs[i] ELSE g[i - 1] \o cs[i]
      <4> TAKE i \in 1 .. k
      <4>1. CASE i = k
        <5>1. k - 1 \in 1 .. k - 1 /\ k # 1
          BY <2>2, <2>4
        <5> QED BY <3>a, <4>1, <5>1
      <4>2. CASE i # k
        <5>1. i \in 1 .. k - 1 /\ (i # 1 => i - 1 \in 1 .. k - 1)
          BY <2>2, <4>2
        <5>2. f[i] = IF i = 1 THEN cs[i] ELSE f[i - 1] \o cs[i]
          BY <3>c, <5>1
        <5> QED BY <3>a, <5>1, <5>2
      <4> QED BY <4>1, <4>2
    <3>6. g = Unfolded(g, cs, k)
      BY <3>b, <3>5 DEF Unfolded
    <3> QED BY <2>1, <3>4, <3>6
  <2> QED BY <2>3, <2>4
<1> QED BY <1>1

\* So FlattenSeq returns what it should, of the right type.
LEMMA Flattening ==
    ASSUME NEW X, NEW cs \in Seq(Seq(X)), Len(cs) # 0
    PROVE  \E f \in [1 .. Len(cs) -> Seq(X)] :
                IsFlattening(f, cs) /\ FlattenSeq(cs) = f[Len(cs)]
<1> DEFINE flat == CHOOSE f : f = Unfolded(f, cs, Len(cs))
<1>1. Len(cs) \in 1 .. Len(cs)
  OBVIOUS
<1>2. \E f : f = Unfolded(f, cs, Len(cs))
  BY <1>1, FlatteningExists
<1>3. flat = Unfolded(flat, cs, Len(cs))
  BY <1>2
<1>4. FlattenSeq(cs) = flat[Len(cs)]
  BY DEF FlattenSeq, Unfolded
<1> HIDE DEF flat
<1>5. IsFlattening(flat, cs)
  BY <1>3 DEF IsFlattening, Unfolded
<1>6. \A i \in 1 .. Len(cs) : flat[i] \in Seq(X)
  <2> DEFINE Bad == {i \in 1 .. Len(cs) : flat[i] \notin Seq(X)}
  <2>1. ASSUME Bad # {} PROVE FALSE
    <3>0. Bad \in SUBSET Nat
      OBVIOUS
    <3>1. PICK k \in Bad : \A j \in Bad : k <= j
      <4> HIDE DEF Bad
      <4> QED BY <2>1, <3>0, LeastNatural
    <3>2. k \in 1 .. Len(cs) /\ cs[k] \in Seq(X)
      OBVIOUS
    <3>3. k # 1 => k - 1 \in 1 .. Len(cs) /\ flat[k - 1] \in Seq(X)
      <4> SUFFICES ASSUME k # 1 PROVE k - 1 \in 1 .. Len(cs) /\ k - 1 \notin Bad
        OBVIOUS
      <4>1. k - 1 \in 1 .. Len(cs) /\ ~(k <= k - 1)
        BY <3>2
      <4> HIDE DEF Bad
      <4> QED BY <4>1, <3>1
    <3>4. flat[k] = IF k = 1 THEN cs[k] ELSE flat[k - 1] \o cs[k]
      BY <1>5, <3>2 DEF IsFlattening
    <3>5. flat[k] \in Seq(X)
      BY <3>2, <3>3, <3>4
    <3> QED BY <3>5
  <2> QED BY <2>1
<1>7. flat \in [1 .. Len(cs) -> Seq(X)]
  BY <1>3, <1>6 DEF Unfolded
<1> QED BY <1>4, <1>5, <1>7

-----------------------------------------------------------------------------
(* What a line of Tigger code does.                                        *)

Value == Name \cup AllRegs \cup {Num, Zero, Result, Address}
Locs == Globals \cup 0 .. stk - 1
State == [regs : [AllRegs -> SUBSET Value], mem : [Locs -> SUBSET Value], defined : SUBSET Name]
Reads == SUBSET (AllRegs \X Value)

Instruction ==
    [op : {"load"}, dst : AllRegs, loc : Locs, reads : Reads]
    \cup [op : {"store"}, src : AllRegs, loc : Locs, reads : Reads]
    \cup [op : {"calc"}, dst : AllRegs, val : Value, reads : Reads]
    \cup [op : {"move"}, dst : AllRegs, src : AllRegs, reads : Reads]
    \cup [op : {"use", "call", "return"}, reads : Reads]
    \cup [op : {"commit"}, lhs : Name, from : Value, reads : Reads]

Renamed(c, lhs, from) == (c \ {lhs}) \cup (IF from \in c THEN {lhs} ELSE {})

\* What an instruction does to the registers, the memory and the names that
\* have a value: the actions of Execute but NextStatement.
Effect(s, i) ==
    [regs |->
        [r \in AllRegs |->
            CASE i.op = "load" -> IF r = i.dst THEN s.mem[i.loc] ELSE s.regs[r]
              [] i.op = "calc" -> IF r = i.dst THEN {i.val} ELSE s.regs[r]
              [] i.op = "move" -> IF r = i.dst THEN s.regs[i.src] ELSE s.regs[r]
              [] i.op = "call" ->
                    IF r = ParamRegs[1] THEN {Result}
                    ELSE IF r \in ToSet(CalleeSaved) \cup {x0} THEN s.regs[r] \ Globals
                    ELSE Unknown
              [] i.op = "commit" -> Renamed(s.regs[r], i.lhs, i.from)
              [] OTHER -> s.regs[r]],
     mem |->
        [l \in Locs |->
            CASE i.op = "store" -> IF l = i.loc THEN s.regs[i.src] ELSE s.mem[l]
              [] i.op = "call" -> IF l \in Globals THEN s.mem[l] ELSE s.mem[l] \ Globals
              [] i.op = "commit" -> Renamed(s.mem[l], i.lhs, i.from)
              [] OTHER -> s.mem[l]],
     defined |->
        IF i.op # "commit" THEN s.defined
        ELSE IF i.from \in Name \ s.defined THEN s.defined \ {i.lhs} ELSE s.defined \cup {i.lhs}]

\* The register r holds the value v, if v has one.
Holding(s, r, v) == (v \in Name => v \in s.defined) => v \in s.regs[r]

Allowed(s, i) ==
    /\ \A read \in i.reads : Holding(s, read[1], read[2])
    /\ i.op \in {"call", "return"} => \A g \in Globals \cap s.defined : g \in s.mem[g]

\* The states that code leads through, one after each instruction.
Leads(t, c, s) ==
    /\ t \in [0 .. Len(c) -> State] /\ t[0] = s
    /\ \A k \in 1 .. Len(c) : Allowed(t[k - 1], c[k]) /\ t[k] = Effect(t[k - 1], c[k])

Safe(c, s, Q) ==
    /\ c \in Seq(Instruction)
    /\ \E t \in [0 .. Len(c) -> State] : Leads(t, c, s) /\ t[Len(c)] \in Q

-----------------------------------------------------------------------------
LEMMA EffectType ==
    ASSUME NEW s \in State, NEW i \in Instruction
    PROVE  Effect(s, i) \in State
<1> DEFINE e == Effect(s, i)
<1>1. /\ i.op = "load" => i.dst \in AllRegs /\ i.loc \in Locs
      /\ i.op = "store" => i.src \in AllRegs /\ i.loc \in Locs
      /\ i.op = "calc" => i.dst \in AllRegs /\ i.val \in Value
      /\ i.op = "move" => i.dst \in AllRegs /\ i.src \in AllRegs
      /\ i.op = "commit" => i.lhs \in Name /\ i.from \in Value
  BY DEF Instruction
<1>2. /\ \A r \in AllRegs : s.regs[r] \in SUBSET Value
      /\ \A l \in Locs : s.mem[l] \in SUBSET Value
      /\ s.defined \in SUBSET Name
      /\ Name \subseteq Value /\ Result \in Value
  BY DEF State, Value
<1>3. ASSUME NEW r \in AllRegs PROVE e.regs[r] \in SUBSET Value
  <2> HIDE DEF Value, Name, AllRegs, Locs
  <2> QED BY <1>1, <1>2, <1>3 DEF Effect, Renamed, Unknown
<1>4. ASSUME NEW l \in Locs PROVE e.mem[l] \in SUBSET Value
  BY <1>1, <1>2, <1>4 DEF Effect, Renamed
<1>5. e.defined \in SUBSET Name
  BY <1>1, <1>2 DEF Effect
<1>6. e = [regs |-> [r \in AllRegs |-> e.regs[r]], mem |-> [l \in Locs |-> e.mem[l]], defined |-> e.defined]
  BY DEF Effect
<1> HIDE DEF e
<1>7. /\ [r \in AllRegs |-> e.regs[r]] \in [AllRegs -> SUBSET Value]
      /\ [l \in Locs |-> e.mem[l]] \in [Locs -> SUBSET Value]
  BY <1>3, <1>4
<1>8. e \in State
  BY <1>5, <1>6, <1>7 DEF State
<1> QED BY <1>8 DEF e

LEMMA SafeNothing ==
    ASSUME NEW s \in State, NEW Q, s \in Q, NEW c, c = << >>
    PROVE  Safe(c, s, Q)
<1> DEFINE t == [k \in 0 .. 0 |-> s]
<1>1. Len(c) = 0 /\ c \in Seq(Instruction)
  OBVIOUS
<1>2. t \in [0 .. 0 -> State] /\ t[0] = s
  OBVIOUS
<1> HIDE DEF t
<1>3. Leads(t, c, s) /\ t[Len(c)] \in Q
  BY <1>1, <1>2 DEF Leads
<1> QED BY <1>1, <1>2, <1>3 DEF Safe

LEMMA SafeOne ==
    ASSUME NEW s \in State, NEW Q, NEW i \in Instruction, Allowed(s, i), Effect(s, i) \in Q,
           NEW c, c = <<i>>
    PROVE  Safe(c, s, Q)
<1> DEFINE t == [k \in 0 .. 1 |-> IF k = 0 THEN s ELSE Effect(s, i)]
<1>1. Len(c) = 1 /\ c[1] = i /\ c \in Seq(Instruction)
  OBVIOUS
<1>2. t \in [0 .. 1 -> State] /\ t[0] = s /\ t[1] = Effect(s, i)
  BY EffectType
<1>3. \A k \in 1 .. 1 : k = 1 /\ k - 1 = 0
  OBVIOUS
<1> HIDE DEF t
<1>4. Leads(t, c, s) /\ t[Len(c)] \in Q
  BY <1>1, <1>2, <1>3 DEF Leads
<1> QED BY <1>1, <1>2, <1>4 DEF Safe

\* One part of the code after the other.
LEMMA SafeThen ==
    ASSUME NEW s, NEW P, NEW Q, NEW c, NEW d,
           Safe(c, s, P), \A q \in P : Safe(d, q, Q)
    PROVE  Safe(c \o d, s, Q)
<1>1. c \in Seq(Instruction) /\ Len(c) \in Nat
  BY DEF Safe
<1>2. PICK t \in [0 .. Len(c) -> State] : Leads(t, c, s) /\ t[Len(c)] \in P
  BY DEF Safe
<1>3. d \in Seq(Instruction) /\ Len(d) \in Nat
  BY <1>2 DEF Safe
<1>4. PICK u \in [0 .. Len(d) -> State] : Leads(u, d, t[Len(c)]) /\ u[Len(d)] \in Q
  BY <1>2 DEF Safe
<1> DEFINE w == [k \in 0 .. Len(c) + Len(d) |-> IF k <= Len(c) THEN t[k] ELSE u[k - Len(c)]]
<1>5. c \o d \in Seq(Instruction) /\ Len(c \o d) = Len(c) + Len(d)
  BY <1>1, <1>3
<1>6. \A k \in 0 .. Len(c) : k \in 0 .. Len(c) + Len(d) /\ w[k] = t[k]
  BY <1>1, <1>3
<1>7. \A k \in 0 .. Len(d) : k + Len(c) \in 0 .. Len(c) + Len(d) /\ w[k + Len(c)] = u[k]
  <2> TAKE k \in 0 .. Len(d)
  <2>1. k + Len(c) \in 0 .. Len(c) + Len(d) /\ (k # 0 => ~(k + Len(c) <= Len(c))) /\ (k + Len(c)) - Len(c) = k
    BY <1>1, <1>3
  <2>2. u[0] = t[Len(c)]
    BY <1>4 DEF Leads
  <2> QED BY <1>1, <2>1, <2>2
<1>8. w \in [0 .. Len(c \o d) -> State]
  <2>1. \A k \in 0 .. Len(c) + Len(d) : ~(k <= Len(c)) => k - Len(c) \in 0 .. Len(d)
    BY <1>1, <1>3
  <2>2. \A k \in 0 .. Len(c) + Len(d) : k <= Len(c) => k \in 0 .. Len(c)
    BY <1>1, <1>3
  <2> QED BY <1>5, <2>1, <2>2
<1>9. \A k \in 1 .. Len(c) : (c \o d)[k] = c[k] /\ k \in 0 .. Len(c) /\ k - 1 \in 0 .. Len(c)
  BY <1>1, <1>3
<1>10. \A k \in 1 .. Len(d) : /\ (c \o d)[k + Len(c)] = d[k] /\ k \in 0 .. Len(d) /\ k - 1 \in 0 .. Len(d)
                             /\ (k + Len(c)) - 1 = (k - 1) + Len(c)
  BY <1>1, <1>3
<1> HIDE DEF w
<1>11. \A k \in 1 .. Len(c) : Allowed(w[k - 1], (c \o d)[k]) /\ w[k] = Effect(w[k - 1], (c \o d)[k])
  BY <1>2, <1>6, <1>9 DEF Leads
<1>12. \A k \in 1 .. Len(d) : /\ Allowed(w[(k + Len(c)) - 1], (c \o d)[k + Len(c)])
                             /\ w[k + Len(c)] = Effect(w[(k + Len(c)) - 1], (c \o d)[k + Len(c)])
  BY <1>4, <1>7, <1>10 DEF Leads
<1>13. ASSUME NEW k \in 1 .. Len(c \o d), ~(k \in 1 .. Len(c))
       PROVE  /\ k - Len(c) \in 1 .. Len(d) /\ (k - Len(c)) + Len(c) = k
  BY <1>1, <1>3, <1>5, <1>13
<1>14. \A k \in 1 .. Len(c \o d) : Allowed(w[k - 1], (c \o d)[k]) /\ w[k] = Effect(w[k - 1], (c \o d)[k])
  <2> TAKE k \in 1 .. Len(c \o d)
  <2>1. CASE k \in 1 .. Len(c)
    BY <1>11, <2>1
  <2>2. CASE ~(k \in 1 .. Len(c))
    <3>1. PICK j \in 1 .. Len(d) : j + Len(c) = k
      BY <1>13, <2>2
    <3> QED BY <1>12, <3>1
  <2> QED BY <2>1, <2>2
<1>15. w[0] = s /\ w[Len(c \o d)] = u[Len(d)]
  <2>1. 0 \in 0 .. Len(c) /\ Len(d) \in 0 .. Len(d) /\ Len(d) + Len(c) = Len(c \o d)
    BY <1>1, <1>3, <1>5
  <2>2. w[0] = t[0] /\ t[0] = s
    BY <1>2, <1>6, <2>1 DEF Leads
  <2>3. w[Len(d) + Len(c)] = u[Len(d)]
    BY <1>7, <2>1
  <2> QED BY <2>1, <2>2, <2>3
<1> QED BY <1>4, <1>5, <1>8, <1>14, <1>15 DEF Safe, Leads

LEMMA SafeWider ==
    ASSUME NEW s, NEW P, NEW Q, NEW c, Safe(c, s, P), P \subseteq Q
    PROVE  Safe(c, s, Q)
BY DEF Safe

\* What remains when one instruction has been executed.
LEMMA SafeRest ==
    ASSUME NEW s, NEW Q, NEW c, Safe(c, s, Q), c # << >>
    PROVE  /\ Head(c) \in Instruction /\ Allowed(s, Head(c))
           /\ Safe(Tail(c), Effect(s, Head(c)), Q)
<1>1. c \in Seq(Instruction) /\ Len(c) \in Nat \ {0} /\ Head(c) = c[1] /\ c[1] \in Instruction
  BY DEF Safe
<1>2. PICK t \in [0 .. Len(c) -> State] : Leads(t, c, s) /\ t[Len(c)] \in Q
  BY DEF Safe
<1>3. Tail(c) \in Seq(Instruction) /\ Len(Tail(c)) = Len(c) - 1
  BY <1>1
<1> DEFINE u == [k \in 0 .. Len(c) - 1 |-> t[k + 1]]
<1>4. u \in [0 .. Len(Tail(c)) -> State]
  BY <1>1, <1>3
<1>5. \A k \in 0 .. Len(c) - 1 : u[k] = t[k + 1]
  OBVIOUS
<1>6. \A k \in 1 .. Len(c) - 1 : /\ Tail(c)[k] = c[k + 1] /\ k + 1 \in 1 .. Len(c)
                                /\ k \in 0 .. Len(c) - 1 /\ k - 1 \in 0 .. Len(c) - 1
                                /\ (k - 1) + 1 = k /\ (k + 1) - 1 = k
  BY <1>1
<1> HIDE DEF u
<1>7. \A k \in 1 .. Len(c) - 1 : Allowed(u[k - 1], Tail(c)[k]) /\ u[k] = Effect(u[k - 1], Tail(c)[k])
  <2> TAKE k \in 1 .. Len(c) - 1
  <2>1. u[k - 1] = t[k] /\ u[k] = t[k + 1] /\ Tail(c)[k] = c[k + 1]
    BY <1>5, <1>6
  <2>2. k + 1 \in 1 .. Len(c) /\ (k + 1) - 1 = k
    BY <1>6
  <2> QED BY <1>2, <2>1, <2>2 DEF Leads
<1>8. Allowed(s, c[1]) /\ t[1] = Effect(s, c[1])
  <2>1. 1 \in 1 .. Len(c) /\ 1 - 1 = 0
    BY <1>1
  <2> QED BY <1>2, <2>1 DEF Leads
<1>9. u[0] = Effect(s, c[1]) /\ u[Len(c) - 1] = t[Len(c)]
  <2>1. 0 \in 0 .. Len(c) - 1 /\ Len(c) - 1 \in 0 .. Len(c) - 1 /\ 0 + 1 = 1 /\ (Len(c) - 1) + 1 = Len(c)
    BY <1>1
  <2> QED BY <1>5, <1>8, <2>1
<1> QED BY <1>1, <1>2, <1>3, <1>4, <1>7, <1>8, <1>9 DEF Safe, Leads

LEMMA SafeState ==
    ASSUME NEW s, NEW Q, NEW c, Safe(c, s, Q)
    PROVE  s \in State
<1>1. Len(c) \in Nat
  BY DEF Safe
<1> QED BY <1>1 DEF Safe, Leads

\* A loop: the states between its turns are those of I.
LEMMA SafeLoop ==
    ASSUME NEW cs \in Seq(Seq(Instruction)), NEW I,
           \A i \in 1 .. Len(cs) : \A q \in I[i - 1] : Safe(cs[i], q, I[i]),
           NEW s \in State, s \in I[0]
    PROVE  Safe(FlattenSeq(cs), s, I[Len(cs)])
<1>1. CASE Len(cs) = 0
  <2>1. FlattenSeq(cs) = << >>
    BY <1>1 DEF FlattenSeq
  <2> QED BY <1>1, <2>1, SafeNothing
<1>2. CASE Len(cs) # 0
  <2>1. PICK f \in [1 .. Len(cs) -> Seq(Instruction)] : IsFlattening(f, cs) /\ FlattenSeq(cs) = f[Len(cs)]
    BY <1>2, Flattening
  <2> DEFINE Bad == {i \in 1 .. Len(cs) : ~Safe(f[i], s, I[i])}
  <2>2. ASSUME Bad # {} PROVE FALSE
    <3>1. PICK k \in Bad : \A j \in Bad : k <= j
      <4>1. Bad \in SUBSET Nat
        OBVIOUS
      <4> HIDE DEF Bad
      <4> QED BY <2>2, <4>1, LeastNatural
    <3>2. k \in 1 .. Len(cs) /\ f[k] = IF k = 1 THEN cs[k] ELSE f[k - 1] \o cs[k]
      BY <2>1 DEF IsFlattening
    <3>3. CASE k = 1
      <4>1. I[k - 1] = I[0]
        BY <3>3
      <4>2. Safe(cs[k], s, I[k])
        BY <3>2, <4>1
      <4> QED BY <3>2, <3>3, <4>2
    <3>4. CASE k # 1
      <4>1. k - 1 \in 1 .. Len(cs) /\ ~(k <= k - 1)
        BY <3>2, <3>4
      <4>2. k - 1 \notin Bad
        <5> HIDE DEF Bad
        <5> QED BY <3>1, <4>1
      <4>3. Safe(f[k - 1], s, I[k - 1])
        BY <4>1, <4>2
      <4>4. Safe(f[k - 1] \o cs[k], s, I[k])
        BY <3>2, <4>3, SafeThen
      <4> QED BY <3>2, <3>4, <4>4
    <3> QED BY <3>3, <3>4
  <2>3. Len(cs) \in 1 .. Len(cs)
    BY <1>2
  <2> QED BY <2>1, <2>2, <2>3
<1> QED BY <1>1, <1>2

-----------------------------------------------------------------------------

\* What is called differently is different.
LEMMA NameFacts ==
    /\ Name \subseteq Value /\ AllRegs \subseteq Value /\ Zero \in Value /\ Num \in Value
    /\ Result \in Value /\ Address \in Value
    /\ Num # Zero /\ Num # Result /\ Num # Address /\ Zero # Result /\ Zero # Address
    /\ None # Num /\ None # Zero /\ None # Result
    /\ \A v \in Name \cup AllRegs : v # Num /\ v # Zero /\ v # Result /\ v # Address /\ v # None
    /\ \A v \in Name : v \notin AllRegs
    /\ Name = Var \cup Globals \cup GlobalArrays
    /\ \A v \in Globals : v \notin Var /\ v \notin Int
    /\ \A v \in GlobalArrays : v \notin Var /\ v \notin Globals
    /\ Params \subseteq Var /\ Arrays \subseteq Var
    /\ Gen!Operand = Name \cup {Num, Zero}
<1>1. Scan!IsInjectiveSeq(<<Num, Zero, Result, Address, None>>)
  BY NameAssumption
<1>2. Num # Zero /\ Num # Result /\ Num # Address /\ Zero # Result /\ Zero # Address
      /\ None # Num /\ None # Zero /\ None # Result
  BY <1>1 DEF Scan!IsInjectiveSeq
<1>3. Name = Var \cup Globals \cup GlobalArrays /\ Gen!Operand = Name \cup {Num, Zero}
  BY DEF Name, Gen!Name, Gen!Operand
<1>4. \A v \in Globals : v \notin Var /\ v \notin Int
  BY NameAssumption, VarAssumption
<1>5. Params \subseteq Var /\ Arrays \subseteq Var
  BY ParamFacts, VarAssumption
<1>6. Name \subseteq Value /\ AllRegs \subseteq Value /\ Zero \in Value /\ Num \in Value
      /\ Result \in Value /\ Address \in Value
  BY DEF Value
<1> QED BY <1>2, <1>3, <1>4, <1>5, <1>6, NameAssumption

LEMMA RegFacts ==
    /\ {s1, s2, x0} \subseteq AllRegs /\ Scan!Reg \subseteq AllRegs
    /\ s1 # s2 /\ s1 # x0 /\ s2 # x0
    /\ \A r \in Scan!Reg : r # s1 /\ r # s2 /\ r # x0
    /\ Scan!Reg = ToSet(CalleeSaved) \cup ToSet(CallerSaved) \cup ToSet(ParamRegs)
    /\ \A r \in ToSet(ParamRegs) : r \notin ToSet(CalleeSaved) /\ r \notin ToSet(CallerSaved)
    /\ \A r \in ToSet(CallerSaved) : r \notin ToSet(CalleeSaved)
    /\ CalleeSaved \in Seq(Scan!Reg) /\ CallerSaved \in Seq(Scan!Reg) /\ ParamRegs \in Seq(Scan!Reg)
    /\ \A i, j \in 1 .. Len(ParamRegs) : ParamRegs[i] = ParamRegs[j] => i = j
    /\ Len(ParamRegs) \in Nat /\ 1 \in 1 .. Len(ParamRegs)
<1>1. CalleeSaved \in Seq(Scan!Reg) /\ CallerSaved \in Seq(Scan!Reg) /\ ParamRegs \in Seq(Scan!Reg)
  BY RegAssumption
<1>2. s1 # s2 /\ s1 # x0 /\ s2 # x0
  BY RegAssumption DEF Scan!IsInjectiveSeq
<1>3. Scan!Reg = ToSet(CalleeSaved) \cup ToSet(CallerSaved) \cup ToSet(ParamRegs)
  <2>1. \A s \in Seq(Scan!Reg) : Scan!Elements(s) = ToSet(s)
    BY DEF Scan!Elements, ToSet
  <2> QED BY <1>1, <2>1 DEF Scan!Reg
<1> DEFINE a == Len(CalleeSaved)
           b == Len(CallerSaved)
           all == CalleeSaved \o CallerSaved \o ParamRegs
<1>4. a \in Nat /\ b \in Nat /\ Len(ParamRegs) \in Nat \ {0}
  BY <1>1, RegAssumption
<1>5. /\ all \in Seq(Scan!Reg) /\ Len(all) = a + b + Len(ParamRegs)
      /\ \A i \in 1 .. a : all[i] = CalleeSaved[i]
      /\ \A i \in 1 .. b : all[a + i] = CallerSaved[i]
      /\ \A i \in 1 .. Len(ParamRegs) : all[a + b + i] = ParamRegs[i]
  BY <1>1
<1>6. \A i, j \in 1 .. Len(all) : all[i] = all[j] => i = j
  BY RegAssumption DEF Scan!IsInjectiveSeq, Scan!SaveOrder
<1>7. \A i \in 1 .. a, j \in 1 .. b : CalleeSaved[i] # CallerSaved[j]
  <2> TAKE i \in 1 .. a, j \in 1 .. b
  <2>1. i \in 1 .. Len(all) /\ a + j \in 1 .. Len(all) /\ i # a + j
    BY <1>4, <1>5
  <2> QED BY <1>5, <1>6, <2>1
<1>8. \A i \in 1 .. a, j \in 1 .. Len(ParamRegs) : CalleeSaved[i] # ParamRegs[j]
  <2> TAKE i \in 1 .. a, j \in 1 .. Len(ParamRegs)
  <2>1. i \in 1 .. Len(all) /\ a + b + j \in 1 .. Len(all) /\ i # a + b + j
    BY <1>4, <1>5
  <2> QED BY <1>5, <1>6, <2>1
<1>9. \A i \in 1 .. b, j \in 1 .. Len(ParamRegs) : CallerSaved[i] # ParamRegs[j]
  <2> TAKE i \in 1 .. b, j \in 1 .. Len(ParamRegs)
  <2>1. a + i \in 1 .. Len(all) /\ a + b + j \in 1 .. Len(all) /\ a + i # a + b + j
    BY <1>4, <1>5
  <2> QED BY <1>5, <1>6, <2>1
<1>10. \A i, j \in 1 .. Len(ParamRegs) : ParamRegs[i] = ParamRegs[j] => i = j
  <2> TAKE i, j \in 1 .. Len(ParamRegs)
  <2>1. a + b + i \in 1 .. Len(all) /\ a + b + j \in 1 .. Len(all) /\ (i # j => a + b + i # a + b + j)
    BY <1>4, <1>5
  <2> QED BY <1>5, <1>6, <2>1
<1>11. ToSet(CalleeSaved) = {CalleeSaved[i] : i \in 1 .. a}
       /\ ToSet(CallerSaved) = {CallerSaved[i] : i \in 1 .. b}
       /\ ToSet(ParamRegs) = {ParamRegs[i] : i \in 1 .. Len(ParamRegs)}
  BY <1>1 DEF ToSet
<1> HIDE DEF a, b, all
<1>12. /\ \A r \in ToSet(ParamRegs) : r \notin ToSet(CalleeSaved) /\ r \notin ToSet(CallerSaved)
       /\ \A r \in ToSet(CallerSaved) : r \notin ToSet(CalleeSaved)
  BY <1>7, <1>8, <1>9, <1>11
<1> QED BY <1>1, <1>2, <1>3, <1>4, <1>10, <1>12, RegAssumption DEF AllRegs


-----------------------------------------------------------------------------
\* What the three passes leave.  Variables, and saved registers, are where
\* the code generator looks for them, each in a place of its own.
Placement ==
    /\ stk \in Nat /\ usedRegs \subseteq Scan!Reg
    /\ \A v \in Var : Gen!InRegister(v) => var2reg[v] \in usedRegs
    /\ \A v \in Var : ~Gen!InRegister(v) \/ v \in Params \cup Arrays => var2stack[v] \in 0 .. stk - 1
    /\ \A r \in usedRegs : reg2stack[r] \in 0 .. stk - 1
    /\ \A u, v \in Var : u # v /\ var2stack[u] \in 0 .. stk - 1 => var2stack[u] # var2stack[v]
    /\ \A v \in Var, r \in usedRegs : var2stack[v] # reg2stack[r]
    /\ \A r, q \in usedRegs : r # q => reg2stack[r] # reg2stack[q]

LEMMA PlacementHolds ==
    ASSUME BInv, stage # "liveness", phase = "done"
    PROVE  Placement
<1>1. Alloc!IInv /\ Alloc!FrameDisjoint /\ Alloc!TypeOK
  BY DEF BInv, AllocInv, Alloc!IInv
<1>2. Alloc!AllPlaced
  BY <1>1, AllocAssumptions, VarAssumption, ParamFacts, Alloc!AllArePlaced
<1>3. Alloc!Reg = Scan!Reg
  BY DEF Alloc!Reg, Scan!Reg, Alloc!Elements, Scan!Elements
<1>4. /\ stk \in Nat /\ usedRegs \subseteq Scan!Reg
      /\ \A v \in Var : var2stack[v] \in Int /\ Alloc!Size(v) \in Nat \ {0}
      /\ \A r \in Scan!Reg : reg2stack[r] \in Int
  BY <1>1, <1>3, AllocAssumptions, VarAssumption, ParamFacts, Alloc!SizeType DEF Alloc!TypeOK
<1>5. \A v \in Var : Gen!InRegister(v) <=> Alloc!InRegister(v)
  BY DEF Gen!InRegister, Alloc!InRegister
<1>6. /\ \A v \in Var : Gen!InRegister(v) => var2reg[v] \in usedRegs
      /\ \A v \in Var : ~Gen!InRegister(v) \/ v \in Params \cup Arrays => var2stack[v] # -1
      /\ \A r \in usedRegs : reg2stack[r] # -1
  BY <1>1, <1>2, <1>5 DEF Alloc!IInv, Alloc!SaveProgress, Alloc!AllPlaced, Alloc!NoSlot
<1>7. /\ \A v \in Var : var2stack[v] # -1 => var2stack[v] \in 0 .. stk - 1
      /\ \A r \in Scan!Reg : reg2stack[r] # -1 => reg2stack[r] \in 0 .. stk - 1
  BY <1>1, <1>3, <1>4 DEF Alloc!FrameDisjoint, Alloc!NoSlot
<1>8. \A u, v \in Var : u # v /\ var2stack[u] # -1 /\ var2stack[v] # -1 => var2stack[u] # var2stack[v]
  <2> SUFFICES ASSUME NEW u \in Var, NEW v \in Var, u # v, var2stack[u] # -1, var2stack[v] # -1
               PROVE  var2stack[u] # var2stack[v]
    OBVIOUS
  <2>1. Alloc!Apart(var2stack[u], Alloc!Size(u), var2stack[v], Alloc!Size(v))
    BY <1>1 DEF Alloc!FrameDisjoint, Alloc!NoSlot
  <2> QED BY <1>4, <2>1 DEF Alloc!Apart
<1>9. \A v \in Var, r \in usedRegs : var2stack[v] # reg2stack[r]
  <2> SUFFICES ASSUME NEW v \in Var, NEW r \in usedRegs, var2stack[v] # -1
               PROVE  var2stack[v] # reg2stack[r]
    BY <1>6
  <2>1. Alloc!Apart(var2stack[v], Alloc!Size(v), reg2stack[r], 1)
    BY <1>1, <1>3, <1>4, <1>6 DEF Alloc!FrameDisjoint, Alloc!NoSlot
  <2> QED BY <1>4, <2>1 DEF Alloc!Apart
<1>10. \A r, q \in usedRegs : r # q => reg2stack[r] # reg2stack[q]
  BY <1>1, <1>3, <1>4, <1>6 DEF Alloc!FrameDisjoint, Alloc!NoSlot
<1> QED BY <1>4, <1>6, <1>7, <1>8, <1>9, <1>10 DEF Placement

\* The functions that the findings about the code generator do not concern:
\* nothing is assigned to a param behind its interval, and the first
\* statement neither reads what it assigns to nor, in a function with arrays,
\* a param or an array.
SparesFindings ==
    /\ stage # "liveness" =>
        \A n \in Stmt : \A x \in Def(program[n]) \cap Params : n <= Intervals!EndOf(x)
    /\ Used(program[0]) \cap Def(program[0]) = {}
    /\ Arrays # {} => Used(program[0]) \cap (Params \cup Arrays) = {}

\* What is assigned is a variable or a global, never an array.
LEMMA DefFacts ==
    ASSUME program \in Programs, NEW n \in Stmt
    PROVE  /\ Gen!IsStatement(program[n])
           /\ Gen!Assigns(program[n]) => Def(program[n]) = {program[n].lhs}
           /\ ~Gen!Assigns(program[n]) => Def(program[n]) = {}
           /\ Def(program[n]) \subseteq (Var \ Arrays) \cup Globals
           /\ Used(program[n]) = Gen!Fetched(program[n]) \cap Name
<1>1. Gen!IsStatement(program[n])
  BY ProgramAssumption DEF IsProgram
<1> QED BY <1>1 DEF Gen!IsStatement, Def, Used

\* No variable that is live after an assignment is in the register that is
\* assigned to, unless the code generator leaves the assignment out.
DefsApart ==
    \A n \in Stmt : \A x \in Def(program[n]), v \in liveOut[n] \cap Var :
        ~Gen!IsUseless(n) /\ v # x /\ Gen!InRegister(x) /\ Gen!InRegister(v) => var2reg[v] # var2reg[x]

LEMMA DefsAreApart ==
    ASSUME BInv, stage # "liveness", SparesFindings, Solution
    PROVE  DefsApart
<1> SUFFICES ASSUME NEW n \in Stmt, NEW x \in Def(program[n]), NEW v \in liveOut[n] \cap Var,
                    ~Gen!IsUseless(n), v # x, Gen!InRegister(x), Gen!InRegister(v), var2reg[v] = var2reg[x]
             PROVE  FALSE
  BY DEF DefsApart
<1> DEFINE from(w) == Intervals!StartOf(w)
           to(w) == Intervals!EndOf(w)
<1>1. program \in Programs /\ input = ScanInput /\ Alloc!NoSharedRegister
  BY DEF BInv, AllocInv, Alloc!IInv
<1>2. x \in Var /\ Gen!Assigns(program[n]) /\ program[n].lhs = x /\ n \in Int /\ n >= 0
  BY <1>1, DefFacts DEF Gen!InRegister, Stmt
<1>3. \A w \in Var : Alloc!Start(w) = from(w) /\ Alloc!End(w) = to(w)
                     /\ from(w) \in Int /\ to(w) \in Int
  BY <1>1, IntervalTypes DEF Alloc!Start, Alloc!End, ScanInput
<1>4. to(x) <= from(v) \/ to(v) <= from(x)
  BY <1>1, <1>2, <1>3 DEF Alloc!NoSharedRegister, Alloc!InRegister, Gen!InRegister
<1>5. Covered
  BY <1>1, SolutionsAreCovered
<1>6. from(v) <= n /\ n <= to(v)
  BY <1>5 DEF Covered
<1>7. from(x) <= n /\ n <= to(x)
  <2>1. CASE x \in Params
    <3>1. n <= to(x)
      BY <2>1 DEF SparesFindings
    <3>2. from(x) = -1
      BY <2>1 DEF Intervals!StartOf, Intervals!AtEntry
    <3> QED BY <1>2, <3>1, <3>2
  <2>2. CASE x \notin Params
    <3>0. program[n].lhs \in Var \ Gen!ToSet(ParamSeq)
      BY <1>2, <2>2 DEF Params, ToSet, Gen!ToSet
    <3>1. ~(input.end[x] < n) /\ ~(input.start[x] > n)
      BY <1>2, <3>0 DEF Gen!IsUseless
    <3>2. input.end[x] = to(x) /\ input.start[x] = from(x)
      BY <1>1, <1>2 DEF ScanInput
    <3> QED BY <1>2, <1>3, <3>1, <3>2
  <2> QED BY <2>1, <2>2
<1>8. PICK m \in Succs(program, n) : v \in liveIn[m]
  BY DEF Solution
<1>9. m = n + 1 /\ m \in Stmt
  BY <1>1, <1>8, GraphFacts
<1>10. m <= to(v)
  BY <1>2, <1>5, <1>8, <1>9 DEF Covered
<1>11. to(x) = n /\ from(v) = n
  BY <1>2, <1>3, <1>4, <1>6, <1>7, <1>9, <1>10
<1>12. v \in liveIn[n]
  BY <1>1, DefFacts, <1>2 DEF Solution
<1>13. CASE n > 0
  BY <1>3, <1>5, <1>11, <1>12, <1>13 DEF Covered
<1>14. CASE n = 0
  <2>1. x \in liveIn[0]
    <3>1. Intervals!LiveBefore(x) \subseteq Stmt
      BY DEF Intervals!LiveBefore, Intervals!Stmt, Stmt
    <3>2. CASE Intervals!LiveBefore(x) = {}
      BY <1>9, <1>11, <1>14, <3>2, SizeAssumption DEF Intervals!EndOf, Stmt
    <3>3. CASE Intervals!LiveBefore(x) # {}
      <4>1. to(x) \in Intervals!LiveBefore(x)
        BY <3>1, <3>3, FirstAndLast DEF Intervals!EndOf
      <4> QED BY <1>11, <1>14, <4>1 DEF Intervals!LiveBefore
    <3> QED BY <3>2, <3>3
  <2>2. x \in Used(program[0])
    BY <1>14, <2>1 DEF Solution
  <2> QED BY <1>14, <2>2 DEF SparesFindings
<1> QED BY <1>2, <1>13, <1>14

\* What is left out nothing needs.
LEMMA UselessIsDead ==
    ASSUME BInv, stage # "liveness", Solution, NEW n \in Stmt, Gen!IsUseless(n)
    PROVE  program[n].lhs \notin liveOut[n]
<1>1. program \in Programs /\ input = ScanInput /\ Covered
  BY SolutionsAreCovered DEF BInv
<1>2. program[n].lhs \in Var /\ (input.end[program[n].lhs] < n \/ input.start[program[n].lhs] > n)
  BY DEF Gen!IsUseless
<1>3. program[n].lhs \in liveOut[n] => input.start[program[n].lhs] <= n /\ n <= input.end[program[n].lhs]
  BY <1>1, <1>2 DEF Covered, ScanInput
<1>4. input.start[program[n].lhs] \in Int /\ input.end[program[n].lhs] \in Int
  BY <1>1, <1>2, IntervalTypes DEF ScanInput
<1> QED BY <1>2, <1>3, <1>4 DEF Stmt

\* A register that an array or a param has at function entry holds no other
\* of those that are needed there: params in registers all live at entry,
\* and the interval of an array starts with the first statement at the latest.
EntryApart ==
    /\ \A u, v \in Params :
        u # v /\ Gen!InRegister(u) /\ Gen!InRegister(v) => var2reg[u] # var2reg[v]
    /\ \A a \in Arrays, v \in (Params \cup Arrays) \cap liveIn[0] :
        a # v /\ Gen!InRegister(a) /\ Gen!InRegister(v) => var2reg[a] # var2reg[v]

LEMMA EntryIsApart ==
    ASSUME BInv, stage # "liveness", SparesFindings, Solution
    PROVE  EntryApart
<1> DEFINE from(w) == Intervals!StartOf(w)
           to(w) == Intervals!EndOf(w)
<1>1. program \in Programs /\ input = ScanInput /\ Alloc!NoSharedRegister /\ 0 \in Stmt
  BY SizeAssumption DEF BInv, AllocInv, Alloc!IInv, Stmt
<1>2. \A w \in Var : Alloc!Start(w) = from(w) /\ Alloc!End(w) = to(w)
                     /\ from(w) \in Int /\ to(w) \in Int
  BY <1>1, IntervalTypes DEF Alloc!Start, Alloc!End, ScanInput
<1>3. \A u, v \in Var : u # v /\ Gen!InRegister(u) /\ Gen!InRegister(v) /\ var2reg[u] = var2reg[v]
                        => to(u) <= from(v) \/ to(v) <= from(u)
  BY <1>1, <1>2 DEF Alloc!NoSharedRegister, Alloc!InRegister, Gen!InRegister
<1>4. \A w \in Var : Intervals!LiveBefore(w) \subseteq Stmt /\ Intervals!LiveAfter(w) \subseteq Stmt
  BY DEF Intervals!LiveBefore, Intervals!LiveAfter, Intervals!Stmt, Stmt
<1>5. \A w \in Var : to(w) \in Stmt
  <2> TAKE w \in Var
  <2>1. CASE Intervals!LiveBefore(w) = {}
    BY <2>1, SizeAssumption DEF Intervals!EndOf, Stmt
  <2>2. CASE Intervals!LiveBefore(w) # {}
    BY <1>4, <2>2, FirstAndLast DEF Intervals!EndOf
  <2> QED BY <2>1, <2>2
<1>6. \A p \in Params : p \in Var /\ from(p) = -1 /\ to(p) >= 0
  BY <1>5, ParamFacts, SizeAssumption DEF Intervals!StartOf, Intervals!AtEntry, Stmt
<1>7. \A a \in Arrays : a \in Var /\ a \notin Params /\ \A n \in Stmt : a \notin Def(program[n])
  <2> TAKE a \in Arrays
  <2>1. a \in Var /\ a \notin Params
    BY VarAssumption
  <2>2. \A n \in Stmt : a \notin Def(program[n])
    BY <1>1, <2>1, DefFacts, NameFacts
  <2> QED BY <2>1, <2>2
<1>8. ASSUME NEW v \in (Params \cup Arrays) \cap liveIn[0], Arrays # {}
      PROVE  v \in liveOut[0] /\ to(v) >= 1 /\ NumStmts >= 2
  <2>1. v \notin Used(program[0]) /\ v \in Var
    BY <1>8, <1>6, <1>7 DEF SparesFindings
  <2>2. v \in liveOut[0]
    BY <1>1, <2>1 DEF Solution
  <2>3. PICK m \in Succs(program, 0) : v \in liveIn[m]
    BY <1>1, <2>2 DEF Solution
  <2>4. m \in Stmt /\ m # 0
    BY <1>1, <2>3, GraphFacts
  <2>5. m <= to(v)
    BY <1>1, <2>1, <2>3, <2>4, SolutionsAreCovered, SizeAssumption DEF Covered, Stmt
  <2> QED BY <1>5, <2>1, <2>2, <2>4, <2>5, SizeAssumption DEF Stmt
<1>9. ASSUME NEW a \in Arrays, Intervals!LiveAfter(a) # {} PROVE from(a) = 0
  <2>1. from(a) \in Intervals!LiveAfter(a) /\ \A n \in Intervals!LiveAfter(a) : from(a) <= n
    BY <1>4, <1>7, <1>9, FirstAndLast DEF Intervals!StartOf
  <2>2. from(a) \in Stmt /\ a \in liveOut[from(a)]
    BY <2>1, <1>4, <1>7 DEF Intervals!LiveAfter
  <2>3. a \in liveIn[from(a)]
    BY <1>7, <2>2 DEF Solution
  <2>4. from(a) > 0 => from(a) < from(a)
    BY <1>1, <1>7, <2>2, <2>3, SolutionsAreCovered DEF Covered
  <2> QED BY <2>2, <2>4, SizeAssumption DEF Stmt
<1>10. ASSUME NEW a \in Arrays, Intervals!LiveAfter(a) = {}
       PROVE  from(a) = -2 /\ to(a) = NumStmts - 1
  <2>1. from(a) = -2
    BY <1>7, <1>10 DEF Intervals!StartOf, Intervals!NotLive
  <2>2. ASSUME NEW n \in Intervals!LiveBefore(a) PROVE FALSE
    <3>1. n \in Stmt /\ a \in liveIn[n]
      BY <1>4, <1>7, <2>2 DEF Intervals!LiveBefore
    <3>2. CASE n = 0
      <4>1. a \in liveOut[0]
        BY <1>8, <3>1, <3>2
      <4> QED BY <1>1, <1>10, <4>1 DEF Intervals!LiveAfter, Intervals!Stmt, Stmt
    <3>3. CASE n # 0
      <4>1. PICK m \in Stmt : n \in Succs(program, m)
        BY <1>1, <3>1, <3>3, GraphFacts
      <4>2. a \in liveOut[m]
        BY <3>1, <4>1 DEF Solution
      <4> QED BY <1>10, <4>1, <4>2 DEF Intervals!LiveAfter, Intervals!Stmt, Stmt
    <3> QED BY <3>2, <3>3
  <2> QED BY <2>1, <2>2 DEF Intervals!EndOf
<1>11. ASSUME NEW u \in Params, NEW v \in Params, u # v, Gen!InRegister(u), Gen!InRegister(v)
       PROVE  var2reg[u] # var2reg[v]
  BY <1>2, <1>3, <1>6, <1>11
<1>12. ASSUME NEW a \in Arrays, NEW v \in (Params \cup Arrays) \cap liveIn[0], a # v,
              Gen!InRegister(a), Gen!InRegister(v), var2reg[a] = var2reg[v]
       PROVE  FALSE
  <2>1. a \in Var /\ v \in Var /\ from(a) \in Int /\ to(a) \in Int /\ from(v) \in Int /\ to(v) \in Int
    BY <1>2, <1>6, <1>7
  <2>2. to(a) <= from(v) \/ to(v) <= from(a)
    BY <1>3, <1>12, <2>1
  <2>3. v \in liveOut[0] /\ to(v) >= 1 /\ NumStmts >= 2
    BY <1>8
  <2>4. from(a) <= 0
    BY <1>9, <1>10
  <2>5. from(v) <= 0
    BY <1>6, <1>9, <1>10
  <2>6. to(a) <= from(v)
    BY <2>1, <2>2, <2>3, <2>4
  <2>7. CASE Intervals!LiveAfter(a) = {}
    BY <1>10, <2>1, <2>3, <2>5, <2>6, <2>7, SizeAssumption
  <2>8. CASE Intervals!LiveAfter(a) # {}
    <3>1. a \in liveIn[0]
      <4>1. 0 \in Intervals!LiveAfter(a)
        BY <1>4, <1>7, <1>9, <2>8, FirstAndLast DEF Intervals!StartOf
      <4>2. a \in liveOut[0]
        BY <4>1 DEF Intervals!LiveAfter
      <4> QED BY <1>1, <1>7, <4>2 DEF Solution
    <3>2. to(a) >= 1
      BY <1>8, <3>1
    <3> QED BY <2>1, <2>5, <2>6, <3>2
  <2> QED BY <2>7, <2>8
<1> QED BY <1>11, <1>12 DEF EntryApart


-----------------------------------------------------------------------------
\* The instructions one by one.  The states that are like s but for the
\* registers R and the places L of the memory:
Near(s, R, L) ==
    {q \in State : /\ q.defined = s.defined
                   /\ \A r \in AllRegs \ R : q.regs[r] = s.regs[r]
                   /\ \A l \in Locs \ L : q.mem[l] = s.mem[l]}

Finds(s, reads) == \A read \in reads : Holding(s, read[1], read[2])

LEMMA NearNear ==
    ASSUME NEW s, NEW R, NEW L, NEW q \in Near(s, R, L), NEW R2, NEW L2, NEW u \in Near(q, R2, L2)
    PROVE  u \in Near(s, R \cup R2, L \cup L2)
BY DEF Near

LEMMA NearWider ==
    ASSUME NEW s, NEW R, NEW L, NEW q \in Near(s, R, L), NEW R2, NEW L2, R \subseteq R2, L \subseteq L2
    PROVE  q \in Near(s, R2, L2)
BY DEF Near

LEMMA NearItself == \A s \in State : \A R, L : s \in Near(s, R, L)
BY DEF Near

LEMMA SafeCalc ==
    ASSUME NEW s \in State, NEW dst \in AllRegs, NEW val \in Value, NEW reads \in Reads, Finds(s, reads)
    PROVE  Safe(<<Gen!Calc(dst, val, reads)>>, s, {q \in Near(s, {dst}, {}) : q.regs[dst] = {val}})
<1> DEFINE i == Gen!Calc(dst, val, reads)
           e == Effect(s, i)
<1>1. i \in Instruction /\ i.op = "calc" /\ i.dst = dst /\ i.val = val /\ i.reads = reads
  BY DEF Gen!Calc, Instruction
<1> HIDE DEF i
<1>2. e \in State /\ Allowed(s, i)
  BY <1>1, EffectType DEF Allowed, Finds
<1>3. e.defined = s.defined /\ e.regs[dst] = {val} /\ \A l \in Locs : e.mem[l] = s.mem[l]
  BY <1>1 DEF Effect
<1>4. \A r \in AllRegs \ {dst} : e.regs[r] = s.regs[r]
  BY <1>1 DEF Effect
<1> HIDE DEF e
<1>5. e \in {q \in Near(s, {dst}, {}) : q.regs[dst] = {val}}
  BY <1>2, <1>3, <1>4 DEF Near
<1>6. Safe(<<i>>, s, {q \in Near(s, {dst}, {}) : q.regs[dst] = {val}})
  BY <1>1, <1>2, <1>5, SafeOne DEF e
<1> QED BY <1>6 DEF i

LEMMA SafeLoadAddr ==
    ASSUME NEW s \in State, NEW dst \in AllRegs, NEW arr \in Value
    PROVE  Safe(<<Gen!LoadAddr(dst, arr)>>, s, {q \in Near(s, {dst}, {}) : q.regs[dst] = {arr}})
<1>1. Gen!LoadAddr(dst, arr) = Gen!Calc(dst, arr, {})
  BY DEF Gen!LoadAddr, Gen!Calc
<1>2. {} \in Reads /\ Finds(s, {})
  BY DEF Reads, Finds
<1> QED BY <1>1, <1>2, SafeCalc

LEMMA SafeLoad ==
    ASSUME NEW s \in State, NEW dst \in AllRegs, NEW loc \in Locs
    PROVE  Safe(<<Gen!Load(dst, loc)>>, s, {q \in Near(s, {dst}, {}) : q.regs[dst] = s.mem[loc]})
<1> DEFINE i == Gen!Load(dst, loc)
           e == Effect(s, i)
<1>1. i \in Instruction /\ i.op = "load" /\ i.dst = dst /\ i.loc = loc /\ i.reads = {}
  BY DEF Gen!Load, Instruction, Reads
<1> HIDE DEF i
<1>2. e \in State /\ Allowed(s, i)
  BY <1>1, EffectType DEF Allowed
<1>3. e.defined = s.defined /\ e.regs[dst] = s.mem[loc] /\ \A l \in Locs : e.mem[l] = s.mem[l]
  BY <1>1 DEF Effect
<1>4. \A r \in AllRegs \ {dst} : e.regs[r] = s.regs[r]
  BY <1>1 DEF Effect
<1> HIDE DEF e
<1>5. e \in {q \in Near(s, {dst}, {}) : q.regs[dst] = s.mem[loc]}
  BY <1>2, <1>3, <1>4 DEF Near
<1>6. Safe(<<i>>, s, {q \in Near(s, {dst}, {}) : q.regs[dst] = s.mem[loc]})
  BY <1>1, <1>2, <1>5, SafeOne DEF e
<1> QED BY <1>6 DEF i

LEMMA SafeMove ==
    ASSUME NEW s \in State, NEW dst \in AllRegs, NEW src \in AllRegs, NEW reads \in Reads, Finds(s, reads)
    PROVE  Safe(<<Gen!Move(dst, src, reads)>>, s,
                {q \in Near(s, {dst}, {}) : q.regs[dst] = s.regs[src]})
<1> DEFINE i == Gen!Move(dst, src, reads)
           e == Effect(s, i)
<1>1. i \in Instruction /\ i.op = "move" /\ i.dst = dst /\ i.src = src /\ i.reads = reads
  BY DEF Gen!Move, Instruction
<1> HIDE DEF i
<1>2. e \in State /\ Allowed(s, i)
  BY <1>1, EffectType DEF Allowed, Finds
<1>3. e.defined = s.defined /\ e.regs[dst] = s.regs[src] /\ \A l \in Locs : e.mem[l] = s.mem[l]
  BY <1>1 DEF Effect
<1>4. \A r \in AllRegs \ {dst} : e.regs[r] = s.regs[r]
  BY <1>1 DEF Effect
<1> HIDE DEF e
<1>5. e \in {q \in Near(s, {dst}, {}) : q.regs[dst] = s.regs[src]}
  BY <1>2, <1>3, <1>4 DEF Near
<1>6. Safe(<<i>>, s, {q \in Near(s, {dst}, {}) : q.regs[dst] = s.regs[src]})
  BY <1>1, <1>2, <1>5, SafeOne DEF e
<1> QED BY <1>6 DEF i

LEMMA SafeStore ==
    ASSUME NEW s \in State, NEW src \in AllRegs, NEW loc \in Locs
    PROVE  Safe(<<Gen!Store(src, loc)>>, s, {q \in Near(s, {}, {loc}) : q.mem[loc] = s.regs[src]})
<1> DEFINE i == Gen!Store(src, loc)
           e == Effect(s, i)
<1>1. i \in Instruction /\ i.op = "store" /\ i.src = src /\ i.loc = loc /\ i.reads = {}
  BY DEF Gen!Store, Instruction, Reads
<1> HIDE DEF i
<1>2. e \in State /\ Allowed(s, i)
  BY <1>1, EffectType DEF Allowed
<1>3. e.defined = s.defined /\ e.mem[loc] = s.regs[src] /\ \A r \in AllRegs : e.regs[r] = s.regs[r]
  BY <1>1 DEF Effect
<1>4. \A l \in Locs \ {loc} : e.mem[l] = s.mem[l]
  BY <1>1 DEF Effect
<1> HIDE DEF e
<1>5. e \in {q \in Near(s, {}, {loc}) : q.mem[loc] = s.regs[src]}
  BY <1>2, <1>3, <1>4 DEF Near
<1>6. Safe(<<i>>, s, {q \in Near(s, {}, {loc}) : q.mem[loc] = s.regs[src]})
  BY <1>1, <1>2, <1>5, SafeOne DEF e
<1> QED BY <1>6 DEF i

LEMMA SafeUse ==
    ASSUME NEW s \in State, NEW reads \in Reads, Finds(s, reads)
    PROVE  Safe(<<Gen!Use(reads)>>, s, Near(s, {}, {}))
<1> DEFINE i == Gen!Use(reads)
           e == Effect(s, i)
<1>1. i \in Instruction /\ i.op = "use" /\ i.reads = reads
  BY DEF Gen!Use, Instruction
<1> HIDE DEF i
<1>2. e \in State /\ Allowed(s, i)
  BY <1>1, EffectType DEF Allowed, Finds
<1>3. /\ e.defined = s.defined /\ \A r \in AllRegs : e.regs[r] = s.regs[r]
      /\ \A l \in Locs : e.mem[l] = s.mem[l]
  BY <1>1 DEF Effect
<1> HIDE DEF e
<1>5. e \in Near(s, {}, {})
  BY <1>2, <1>3 DEF Near
<1>6. Safe(<<i>>, s, Near(s, {}, {}))
  BY <1>1, <1>2, <1>5, SafeOne DEF e
<1> QED BY <1>6 DEF i

GlobalsThere(s) == \A g \in Globals \cap s.defined : g \in s.mem[g]

LEMMA SafeReturn ==
    ASSUME NEW s \in State, NEW reads \in Reads, Finds(s, reads), GlobalsThere(s)
    PROVE  Safe(<<Gen!Return(reads)>>, s, Near(s, {}, {}))
<1> DEFINE i == Gen!Return(reads)
           e == Effect(s, i)
<1>1. i \in Instruction /\ i.op = "return" /\ i.reads = reads
  BY DEF Gen!Return, Instruction
<1> HIDE DEF i
<1>2. e \in State /\ Allowed(s, i)
  BY <1>1, EffectType DEF Allowed, Finds, GlobalsThere
<1>3. /\ e.defined = s.defined /\ \A r \in AllRegs : e.regs[r] = s.regs[r]
      /\ \A l \in Locs : e.mem[l] = s.mem[l]
  BY <1>1 DEF Effect
<1> HIDE DEF e
<1>5. e \in Near(s, {}, {})
  BY <1>2, <1>3 DEF Near
<1>6. Safe(<<i>>, s, Near(s, {}, {}))
  BY <1>1, <1>2, <1>5, SafeOne DEF e
<1> QED BY <1>6 DEF i

\* What a call leaves: a0, what the callee saves, and the frame.
AfterCall(s) ==
    {q \in State :
        /\ q.defined = s.defined
        /\ q.regs[ParamRegs[1]] = {Result}
        /\ \A r \in ToSet(CalleeSaved) \cup {x0} : r # ParamRegs[1] => q.regs[r] = s.regs[r] \ Globals
        /\ \A l \in Locs : q.mem[l] = IF l \in Globals THEN s.mem[l] ELSE s.mem[l] \ Globals}

LEMMA SafeCall ==
    ASSUME NEW s \in State, NEW reads \in Reads, Finds(s, reads), GlobalsThere(s)
    PROVE  Safe(<<Gen!Call(reads)>>, s, AfterCall(s))
<1> DEFINE i == Gen!Call(reads)
           e == Effect(s, i)
<1>1. i \in Instruction /\ i.op = "call" /\ i.reads = reads
  BY DEF Gen!Call, Instruction
<1> HIDE DEF i
<1>2. e \in State /\ Allowed(s, i)
  BY <1>1, EffectType DEF Allowed, Finds, GlobalsThere
<1>a. ParamRegs[1] \in AllRegs
  BY RegFacts
<1>b. \A r \in ToSet(CalleeSaved) \cup {x0} : r \in AllRegs
  BY RegFacts
<1>3. /\ e.defined = s.defined /\ e.regs[ParamRegs[1]] = {Result}
      /\ \A l \in Locs : e.mem[l] = IF l \in Globals THEN s.mem[l] ELSE s.mem[l] \ Globals
  BY <1>1, <1>a DEF Effect
<1>4. \A r \in ToSet(CalleeSaved) \cup {x0} : r # ParamRegs[1] => e.regs[r] = s.regs[r] \ Globals
  BY <1>1, <1>b DEF Effect
<1> HIDE DEF e
<1>5. e \in AfterCall(s)
  BY <1>2, <1>3, <1>4 DEF AfterCall
<1>6. Safe(<<i>>, s, AfterCall(s))
  BY <1>1, <1>2, <1>5, SafeOne DEF e
<1> QED BY <1>6 DEF i

AfterCommit(s, lhs, from) ==
    {q \in State :
        /\ q.defined = IF from \in Name \ s.defined THEN s.defined \ {lhs} ELSE s.defined \cup {lhs}
        /\ \A r \in AllRegs : q.regs[r] = Renamed(s.regs[r], lhs, from)
        /\ \A l \in Locs : q.mem[l] = Renamed(s.mem[l], lhs, from)}

LEMMA SafeCommit ==
    ASSUME NEW s \in State, NEW lhs \in Name, NEW from \in Value
    PROVE  Safe(<<Gen!Commit(lhs, from)>>, s, AfterCommit(s, lhs, from))
<1> DEFINE i == Gen!Commit(lhs, from)
           e == Effect(s, i)
<1>1. i \in Instruction /\ i.op = "commit" /\ i.lhs = lhs /\ i.from = from /\ i.reads = {}
  BY DEF Gen!Commit, Instruction, Reads
<1> HIDE DEF i
<1>2. e \in State /\ Allowed(s, i)
  BY <1>1, EffectType DEF Allowed
<1>3. /\ e.defined = IF from \in Name \ s.defined THEN s.defined \ {lhs} ELSE s.defined \cup {lhs}
      /\ \A r \in AllRegs : e.regs[r] = Renamed(s.regs[r], lhs, from)
      /\ \A l \in Locs : e.mem[l] = Renamed(s.mem[l], lhs, from)
  BY <1>1 DEF Effect
<1> HIDE DEF e
<1>5. e \in AfterCommit(s, lhs, from)
  BY <1>2, <1>3 DEF AfterCommit
<1>6. Safe(<<i>>, s, AfterCommit(s, lhs, from))
  BY <1>1, <1>2, <1>5, SafeOne DEF e
<1> QED BY <1>6 DEF i


-----------------------------------------------------------------------------
\* Where a variable is.  The head of an array that has no register, and the
\* value of a param that has none, are in no place.
Held(v) == v \in Var \cup Globals /\ (v \in Params \cup Arrays => Gen!InRegister(v))
HomeOf(s, v) == IF Gen!InRegister(v) THEN s.regs[var2reg[v]] ELSE s.mem[Gen!Place(v)]

Available(s, v) ==
    /\ v = Zero => Zero \in s.regs[x0]
    /\ v \in s.defined /\ Held(v) => v \in HomeOf(s, v)

\* What the caller of the function finds again: its values of the registers
\* that a callee saves are there, or in the frame.
Kept(s) ==
    /\ Zero \in s.regs[x0]
    /\ \A r \in ToSet(CalleeSaved) :
        r \in (IF r \in usedRegs THEN s.mem[reg2stack[r]] ELSE s.regs[r])

Fine(S) == {s \in State : Kept(s) /\ \A v \in S : Available(s, v)}

\* The registers and the places of the memory in which they are.
LEMMA HomeType ==
    ASSUME Placement, NEW v \in Name, Held(v) \/ v \in (Var \cup Globals) \ Arrays
    PROVE  IF Gen!InRegister(v) THEN var2reg[v] \in Scan!Reg ELSE Gen!Place(v) \in Locs
<1>1. CASE Gen!InRegister(v)
  <2>1. v \in Var
    BY <1>1 DEF Gen!InRegister
  <2> QED BY <1>1, <2>1 DEF Placement
<1>2. CASE ~Gen!InRegister(v)
  <2>1. CASE v \in Globals
    BY <1>2, <2>1 DEF Gen!Place, Locs
  <2>2. CASE v \notin Globals
    <3>1. v \in Var
      BY <2>2 DEF Held
    <3> QED BY <1>2, <2>2, <3>1 DEF Placement, Gen!Place, Locs
  <2> QED BY <2>1, <2>2
<1> QED BY <1>1, <1>2

\* Different variables are in different places of the memory, and none in one
\* where a register is saved.
LEMMA PlacesApart ==
    ASSUME Placement, NEW u \in (Var \cup Globals) \ Arrays, ~Gen!InRegister(u)
    PROVE  /\ \A v \in Name : v # u /\ Held(v) /\ ~Gen!InRegister(v) => Gen!Place(v) # Gen!Place(u)
           /\ \A r \in usedRegs : reg2stack[r] # Gen!Place(u)
<1>1. CASE u \in Globals
  <2>1. Gen!Place(u) = u /\ u \notin Int /\ u \notin 0 .. stk - 1
    BY <1>1, NameFacts DEF Gen!Place, Placement
  <2>2. \A r \in usedRegs : reg2stack[r] # u
    BY <2>1 DEF Placement
  <2>3. ASSUME NEW v \in Name, v # u, Held(v), ~Gen!InRegister(v) PROVE Gen!Place(v) # u
    <3>1. CASE v \in Globals
      BY <2>3, <3>1 DEF Gen!Place
    <3>2. CASE v \notin Globals
      BY <2>1, <2>3, <3>2 DEF Gen!Place, Placement, Held
    <3> QED BY <3>1, <3>2
  <2> QED BY <2>1, <2>2, <2>3
<1>2. CASE u \notin Globals
  <2>1. Gen!Place(u) = var2stack[u] /\ u \in Var /\ var2stack[u] \in 0 .. stk - 1
    BY <1>2 DEF Gen!Place, Placement
  <2>2. \A r \in usedRegs : reg2stack[r] # var2stack[u]
    BY <2>1 DEF Placement
  <2>3. ASSUME NEW v \in Name, v # u, Held(v), ~Gen!InRegister(v) PROVE Gen!Place(v) # var2stack[u]
    <3>1. CASE v \in Globals
      BY <2>1, <3>1, NameFacts DEF Gen!Place, Placement
    <3>2. CASE v \notin Globals
      BY <2>1, <2>3, <3>2 DEF Gen!Place, Placement, Held
    <3> QED BY <3>1, <3>2
  <2> QED BY <2>1, <2>2, <2>3
<1> QED BY <1>1, <1>2

\* The temporaries are the home of nothing.
LEMMA FineNear ==
    ASSUME Placement, NEW S, NEW s \in Fine(S), NEW q \in Near(s, {s1, s2}, {})
    PROVE  q \in Fine(S)
<1>1. \A r \in Scan!Reg \cup {x0} : q.regs[r] = s.regs[r]
  <2>1. \A r \in Scan!Reg \cup {x0} : r \in AllRegs \ {s1, s2}
    BY RegFacts
  <2> QED BY <2>1 DEF Near
<1>2. q.defined = s.defined /\ q \in State /\ \A l \in Locs : q.mem[l] = s.mem[l]
  BY DEF Near
<1>3. ASSUME NEW v \in S PROVE Available(q, v)
  <2>1. Available(s, v)
    BY DEF Fine
  <2>2. Held(v) => HomeOf(q, v) = HomeOf(s, v)
    <3>1. Held(v) => v \in Name
      BY NameFacts DEF Held
    <3> QED BY <1>1, <1>2, <3>1, HomeType DEF HomeOf
  <2> QED BY <1>1, <1>2, <2>1, <2>2 DEF Available
<1>4. Kept(q)
  <2>1. Kept(s)
    BY DEF Fine
  <2>2. q.regs[x0] = s.regs[x0]
    BY <1>1
  <2>3. ASSUME NEW r \in ToSet(CalleeSaved)
        PROVE  r \in (IF r \in usedRegs THEN q.mem[reg2stack[r]] ELSE q.regs[r])
    <3>1. r \in Scan!Reg
      BY RegFacts
    <3>2. r \in usedRegs => reg2stack[r] \in Locs
      BY DEF Placement, Locs
    <3> QED BY <1>1, <1>2, <2>1, <3>1, <3>2 DEF Kept
  <2> QED BY <2>1, <2>2, <2>3 DEF Kept
<1> QED BY <1>2, <1>3, <1>4 DEF Fine

\* get_reg: the operand is in the register it returns.
LEMMA FetchSafe ==
    ASSUME Placement, NEW s \in State, NEW v \in Gen!Operand, ~Gen!CannotFetch(v),
           NEW tmp \in AllRegs, Available(s, v)
    PROVE  /\ Gen!RegOf(v, tmp) \in AllRegs
           /\ Safe(Gen!Fetch(v, tmp), s, {q \in Near(s, {tmp}, {}) : Holding(q, Gen!RegOf(v, tmp), v)})
<1> DEFINE Q == {q \in Near(s, {tmp}, {}) : Holding(q, Gen!RegOf(v, tmp), v)}
<1>1. CASE v = Zero
  <2>1. Gen!RegOf(v, tmp) = x0 /\ Gen!Fetch(v, tmp) = << >>
    BY <1>1 DEF Gen!RegOf, Gen!Fetch
  <2>2. s \in Q
    BY <1>1, <2>1, NearItself DEF Holding, Available
  <2> QED BY <2>1, <2>2, SafeNothing, RegFacts
<1>2. CASE v # Zero /\ Gen!InRegister(v)
  <2>1. Gen!RegOf(v, tmp) = var2reg[v] /\ Gen!Fetch(v, tmp) = << >>
    BY <1>2 DEF Gen!RegOf, Gen!Fetch
  <2>2. v \in Var /\ v \in Name
    BY <1>2, NameFacts DEF Gen!InRegister
  <2>3. Held(v) /\ HomeOf(s, v) = s.regs[var2reg[v]]
    BY <1>2, <2>2 DEF Held, HomeOf
  <2>4. var2reg[v] \in AllRegs
    BY <1>2, <2>2, RegFacts DEF Placement
  <2>5. s \in Q
    BY <2>1, <2>2, <2>3, NearItself DEF Holding, Available
  <2> QED BY <2>1, <2>4, <2>5, SafeNothing
<1>3. CASE v # Zero /\ ~Gen!InRegister(v)
  <2>1. Gen!RegOf(v, tmp) = tmp
    BY <1>3 DEF Gen!RegOf
  <2>2. CASE v = Num
    <3>1. Gen!Fetch(v, tmp) = <<Gen!Calc(tmp, Num, {})>>
      BY <1>3, <2>2 DEF Gen!Fetch
    <3>2. {} \in Reads /\ Finds(s, {}) /\ Num \in Value
      BY NameFacts DEF Reads, Finds
    <3>3. {q \in Near(s, {tmp}, {}) : q.regs[tmp] = {Num}} \subseteq Q
      BY <2>1, <2>2 DEF Holding
    <3>4. Safe(<<Gen!Calc(tmp, Num, {})>>, s, {q \in Near(s, {tmp}, {}) : q.regs[tmp] = {Num}})
      BY <3>2, SafeCalc
    <3> HIDE DEF Q
    <3>5. Safe(Gen!Fetch(v, tmp), s, Q)
      BY <3>1, <3>3, <3>4, SafeWider
    <3> QED BY <2>1, <3>5 DEF Q
  <2>3. CASE v # Num /\ v \in Arrays \cup GlobalArrays
    <3>1. Gen!Fetch(v, tmp) = <<Gen!LoadAddr(tmp, v)>>
      BY <1>3, <2>3 DEF Gen!Fetch
    <3>2. v \in Value
      BY <2>3, NameFacts
    <3>3. {q \in Near(s, {tmp}, {}) : q.regs[tmp] = {v}} \subseteq Q
      BY <2>1 DEF Holding
    <3>4. Safe(<<Gen!LoadAddr(tmp, v)>>, s, {q \in Near(s, {tmp}, {}) : q.regs[tmp] = {v}})
      BY <3>2, SafeLoadAddr
    <3> HIDE DEF Q
    <3>5. Safe(Gen!Fetch(v, tmp), s, Q)
      BY <3>1, <3>3, <3>4, SafeWider
    <3> QED BY <2>1, <3>5 DEF Q
  <2>4. CASE v # Num /\ v \notin Arrays \cup GlobalArrays
    <3>1. Gen!Fetch(v, tmp) = <<Gen!Load(tmp, Gen!Place(v))>>
      BY <1>3, <2>4 DEF Gen!Fetch
    <3>2. v \in Name /\ v \in Var \cup Globals
      BY <1>3, <2>4, NameFacts
    <3>3. v \notin Params
      BY <1>3 DEF Gen!CannotFetch, Gen!ToSet, Params, ToSet
    <3>4. Held(v) /\ HomeOf(s, v) = s.mem[Gen!Place(v)]
      BY <1>3, <2>4, <3>2, <3>3 DEF Held, HomeOf
    <3>5. Gen!Place(v) \in Locs
      BY <1>3, <3>2, <3>4, HomeType
    <3>6. {q \in Near(s, {tmp}, {}) : q.regs[tmp] = s.mem[Gen!Place(v)]} \subseteq Q
      BY <2>1, <3>2, <3>4 DEF Holding, Available, Near
    <3>7. Safe(<<Gen!Load(tmp, Gen!Place(v))>>, s,
               {q \in Near(s, {tmp}, {}) : q.regs[tmp] = s.mem[Gen!Place(v)]})
      BY <3>5, SafeLoad
    <3> HIDE DEF Q
    <3>8. Safe(Gen!Fetch(v, tmp), s, Q)
      BY <3>1, <3>6, <3>7, SafeWider
    <3> QED BY <2>1, <3>8 DEF Q
  <2> QED BY <2>2, <2>3, <2>4
<1> QED BY <1>1, <1>2, <1>3


LEMMA FineFewer == \A S, T : T \subseteq S => Fine(S) \subseteq Fine(T)
BY DEF Fine

\* A register that get_reg returns is the temporary it was given, or none.
LEMMA RegOfType ==
    ASSUME Placement, NEW v \in Gen!Operand, NEW tmp \in {s1, s2}
    PROVE  /\ Gen!RegOf(v, tmp) \in AllRegs
           /\ Gen!RegOf(v, tmp) = tmp \/ Gen!RegOf(v, tmp) \notin {s1, s2}
BY RegFacts DEF Placement, Gen!RegOf, Gen!InRegister

\* The operand a has been fetched.
Got(S, s, a, tmp) == {q \in Fine(S) \cap Near(s, {tmp}, {}) : Holding(q, Gen!RegOf(a, tmp), a)}

LEMMA FetchOne ==
    ASSUME Placement, NEW S, NEW s \in Fine(S), NEW tmp \in {s1, s2},
           NEW a \in S \cap Gen!Operand, ~Gen!CannotFetch(a)
    PROVE  Safe(Gen!Fetch(a, tmp), s, Got(S, s, a, tmp))
<1>1. s \in State /\ Available(s, a) /\ tmp \in AllRegs
  BY RegFacts DEF Fine
<1>2. Safe(Gen!Fetch(a, tmp), s, {q \in Near(s, {tmp}, {}) : Holding(q, Gen!RegOf(a, tmp), a)})
  BY <1>1, FetchSafe
<1>3. \A q \in Near(s, {tmp}, {}) : q \in Fine(S)
  <2> TAKE q \in Near(s, {tmp}, {})
  <2>1. q \in Near(s, {s1, s2}, {})
    BY NearWider
  <2> QED BY <2>1, FineNear
<1> QED BY <1>2, <1>3, SafeWider DEF Got

LEMMA FetchTwo ==
    ASSUME Placement, NEW S, NEW s \in Fine(S), NEW t1 \in {s1, s2}, NEW t2 \in {s1, s2}, t1 # t2,
           NEW a \in S \cap Gen!Operand, ~Gen!CannotFetch(a),
           NEW b \in S \cap Gen!Operand, ~Gen!CannotFetch(b)
    PROVE  Safe(Gen!Fetch(a, t1) \o Gen!Fetch(b, t2), s,
                {q \in Fine(S) : Holding(q, Gen!RegOf(a, t1), a) /\ Holding(q, Gen!RegOf(b, t2), b)})
<1> DEFINE P == Got(S, s, a, t1)
           Q == {q \in Fine(S) : Holding(q, Gen!RegOf(a, t1), a) /\ Holding(q, Gen!RegOf(b, t2), b)}
<1>1. Safe(Gen!Fetch(a, t1), s, P)
  BY FetchOne
<1>2. ASSUME NEW q \in P PROVE Safe(Gen!Fetch(b, t2), q, Q)
  <2>1. q \in Fine(S) /\ Holding(q, Gen!RegOf(a, t1), a)
    BY DEF Got
  <2>2. Safe(Gen!Fetch(b, t2), q, Got(S, q, b, t2))
    BY <2>1, FetchOne
  <2>3. ASSUME NEW u \in Near(q, {t2}, {}) PROVE Holding(u, Gen!RegOf(a, t1), a)
    <3>1. Gen!RegOf(a, t1) \in AllRegs \ {t2}
      BY RegOfType
    <3>2. u.regs[Gen!RegOf(a, t1)] = q.regs[Gen!RegOf(a, t1)] /\ u.defined = q.defined
      BY <3>1 DEF Near
    <3> QED BY <2>1, <3>2 DEF Holding
  <2>4. Got(S, q, b, t2) \subseteq Q
    BY <2>3 DEF Got
  <2> HIDE DEF Q
  <2> QED BY <2>2, <2>4, SafeWider
<1> HIDE DEF P, Q
<1>3. Safe(Gen!Fetch(a, t1) \o Gen!Fetch(b, t2), s, Q)
  BY <1>1, <1>2, SafeThen
<1> QED BY <1>3 DEF Q

-----------------------------------------------------------------------------
\* Assignments.  The register written to is that of no other variable in T.
Clear(lhs, T) ==
    \A v \in T \cap Var :
        v # lhs /\ Gen!InRegister(lhs) /\ Gen!InRegister(v) => var2reg[v] # var2reg[lhs]

Assignable == (Var \ Arrays) \cup Globals

LEMMA TargetFine ==
    ASSUME Placement, NEW T, NEW lhs \in Assignable, Clear(lhs, T), NEW s \in Fine(T \ {lhs}),
           NEW q \in Near(s, {s1, s2, Gen!Target(lhs)}, {})
    PROVE  q \in Fine(T \ {lhs})
<1>1. CASE ~Gen!InRegister(lhs)
  <2>1. Gen!Target(lhs) = s1 /\ {s1, s2, Gen!Target(lhs)} = {s1, s2}
    BY <1>1 DEF Gen!Target
  <2> QED BY <2>1, FineNear
<1>2. CASE Gen!InRegister(lhs)
  <2>1. Gen!Target(lhs) = var2reg[lhs] /\ var2reg[lhs] \in usedRegs /\ lhs \in Var /\ var2reg[lhs] \in Scan!Reg
    BY <1>2 DEF Gen!Target, Placement, Gen!InRegister
  <2>2. \A r \in Scan!Reg \cup {x0} : r # var2reg[lhs] => q.regs[r] = s.regs[r]
    <3>1. \A r \in Scan!Reg \cup {x0} : r # var2reg[lhs] => r \in AllRegs \ {s1, s2, Gen!Target(lhs)}
      BY <2>1, RegFacts
    <3> QED BY <3>1 DEF Near
  <2>3. q.defined = s.defined /\ q \in State /\ \A l \in Locs : q.mem[l] = s.mem[l]
    BY DEF Near
  <2>4. q.regs[x0] = s.regs[x0]
    BY <2>1, <2>2, RegFacts
  <2>5. ASSUME NEW v \in T \ {lhs} PROVE Available(q, v)
    <3>1. Available(s, v)
      BY DEF Fine
    <3>2. Held(v) => v \in Name
      BY NameFacts DEF Held
    <3>3. Gen!InRegister(v) => v \in Var /\ var2reg[v] # var2reg[lhs]
      BY <1>2 DEF Clear, Gen!InRegister
    <3>4. Held(v) => HomeOf(q, v) = HomeOf(s, v)
      BY <2>2, <2>3, <3>2, <3>3, HomeType DEF HomeOf
    <3> QED BY <2>3, <2>4, <3>1, <3>4 DEF Available
  <2>6. Kept(q)
    <3>1. Kept(s)
      BY DEF Fine
    <3>2. ASSUME NEW r \in ToSet(CalleeSaved)
          PROVE  r \in (IF r \in usedRegs THEN q.mem[reg2stack[r]] ELSE q.regs[r])
      <4>1. r \in Scan!Reg
        BY RegFacts
      <4>2. r \in usedRegs => reg2stack[r] \in Locs
        BY DEF Placement, Locs
      <4> QED BY <2>1, <2>2, <2>3, <3>1, <4>1, <4>2 DEF Kept
    <3> QED BY <2>4, <3>1, <3>2 DEF Kept
  <2> QED BY <2>3, <2>5, <2>6 DEF Fine
<1> QED BY <1>1, <1>2

\* The value called from is where lhs belongs, and the rest is where it was.
Delivered(lhs, from, T) ==
    {q \in Fine(T \ {lhs}) :
        Held(lhs) /\ (from \in Name => from \in q.defined) => from \in HomeOf(q, lhs)}

LEMMA StoreSafe ==
    ASSUME Placement, NEW T, NEW lhs \in Assignable, ~Gen!InRegister(lhs), NEW s \in Fine(T \ {lhs}),
           NEW reg \in AllRegs, NEW from, Holding(s, reg, from)
    PROVE  Safe(<<Gen!Store(reg, Gen!Place(lhs))>>, s, Delivered(lhs, from, T))
<1> DEFINE loc == Gen!Place(lhs)
<1>1. lhs \in (Var \cup Globals) \ Arrays /\ lhs \in Name
  BY NameFacts DEF Assignable
<1>2. loc \in Locs
  BY <1>1, HomeType
<1>3. s \in State
  BY DEF Fine
<1>4. Safe(<<Gen!Store(reg, loc)>>, s, {q \in Near(s, {}, {loc}) : q.mem[loc] = s.regs[reg]})
  BY <1>2, <1>3, SafeStore
<1>5. ASSUME NEW q \in Near(s, {}, {loc}), q.mem[loc] = s.regs[reg] PROVE q \in Delivered(lhs, from, T)
  <2>1. /\ q.defined = s.defined /\ q \in State /\ \A r \in AllRegs : q.regs[r] = s.regs[r]
        /\ \A l \in Locs : l # loc => q.mem[l] = s.mem[l]
    BY DEF Near
  <2>2. ASSUME NEW v \in T \ {lhs} PROVE Available(q, v)
    <3>1. Available(s, v)
      BY DEF Fine
    <3>2. Held(v) => v \in Name
      BY NameFacts DEF Held
    <3>3. Held(v) /\ ~Gen!InRegister(v) => Gen!Place(v) \in Locs /\ Gen!Place(v) # loc
      BY <1>1, <3>2, HomeType, PlacesApart
    <3>4. Held(v) /\ Gen!InRegister(v) => var2reg[v] \in AllRegs
      BY <3>2, HomeType, RegFacts
    <3>5. Held(v) => HomeOf(q, v) = HomeOf(s, v)
      BY <2>1, <3>3, <3>4 DEF HomeOf
    <3> QED BY <2>1, <3>1, <3>5, RegFacts DEF Available
  <2>3. Kept(q)
    <3>1. Kept(s)
      BY DEF Fine
    <3>2. ASSUME NEW r \in ToSet(CalleeSaved)
          PROVE  r \in (IF r \in usedRegs THEN q.mem[reg2stack[r]] ELSE q.regs[r])
      <4>1. r \in AllRegs
        BY RegFacts
      <4>2. r \in usedRegs => reg2stack[r] \in Locs /\ reg2stack[r] # loc
        BY <1>1, PlacesApart DEF Placement, Locs
      <4> QED BY <2>1, <3>1, <4>1, <4>2 DEF Kept
    <3> QED BY <2>1, <3>1, <3>2, RegFacts DEF Kept
  <2>4. HomeOf(q, lhs) = s.regs[reg]
    BY <1>5 DEF HomeOf
  <2> QED BY <2>1, <2>2, <2>3, <2>4 DEF Delivered, Fine, Holding
<1> QED BY <1>4, <1>5, SafeWider

\* store_into_stack, when the value is in the register for lhs.
LEMMA DeliverSafe ==
    ASSUME Placement, NEW T, NEW lhs \in Assignable, NEW s \in Fine(T \ {lhs}),
           NEW reg \in AllRegs, reg # s2, Gen!InRegister(lhs) => reg = var2reg[lhs],
           NEW from, Holding(s, reg, from)
    PROVE  Safe(Gen!StoreIntoStack(reg, lhs), s, Delivered(lhs, from, T))
<1>1. s \in State
  BY DEF Fine
<1>2. CASE Gen!InRegister(lhs)
  <2>1. Gen!StoreIntoStack(reg, lhs) = << >>
    BY <1>2 DEF Gen!StoreIntoStack
  <2>2. s \in Delivered(lhs, from, T)
    BY <1>2 DEF Delivered, HomeOf, Holding
  <2> QED BY <1>1, <2>1, <2>2, SafeNothing
<1>3. CASE ~Gen!InRegister(lhs) /\ lhs \in Globals
  <2>1. Gen!StoreIntoStack(reg, lhs) = <<Gen!LoadAddr(s2, Address), Gen!Store(reg, lhs)>>
    BY <1>3 DEF Gen!StoreIntoStack
  <2>2. <<Gen!LoadAddr(s2, Address), Gen!Store(reg, lhs)>>
          = <<Gen!LoadAddr(s2, Address)>> \o <<Gen!Store(reg, lhs)>>
    OBVIOUS
  <2>3. Safe(<<Gen!LoadAddr(s2, Address)>>, s, {q \in Near(s, {s2}, {}) : q.regs[s2] = {Address}})
    <3>1. s2 \in AllRegs /\ Address \in Value
      BY NameFacts, RegFacts
    <3> QED BY <1>1, <3>1, SafeLoadAddr
  <2>4. ASSUME NEW q \in Near(s, {s2}, {}) PROVE Safe(<<Gen!Store(reg, lhs)>>, q, Delivered(lhs, from, T))
    <3>1. q \in Near(s, {s1, s2}, {})
      BY NearWider
    <3>2. q \in Fine(T \ {lhs})
      BY <3>1, FineNear
    <3>3. Holding(q, reg, from)
      BY DEF Holding, Near
    <3>4. Gen!Place(lhs) = lhs
      BY <1>3 DEF Gen!Place
    <3> QED BY <1>3, <3>2, <3>3, <3>4, StoreSafe
  <2>5. Safe(<<Gen!LoadAddr(s2, Address)>> \o <<Gen!Store(reg, lhs)>>, s, Delivered(lhs, from, T))
    BY <2>3, <2>4, SafeThen
  <2> QED BY <2>1, <2>2, <2>5
<1>4. CASE ~Gen!InRegister(lhs) /\ lhs \notin Globals
  <2>1. Gen!StoreIntoStack(reg, lhs) = <<Gen!Store(reg, Gen!Place(lhs))>>
    BY <1>4 DEF Gen!StoreIntoStack
  <2> QED BY <1>4, <2>1, StoreSafe
<1> QED BY <1>2, <1>3, <1>4

\* The assignment takes the name lhs from nothing that must keep it.
LEMMA RenamedFine ==
    ASSUME Placement, NEW T, NEW lhs \in Name, lhs \notin T, NEW from, NEW s \in Fine(T),
           NEW q \in AfterCommit(s, lhs, from)
    PROVE  /\ q \in Fine(T)
           /\ \A v : Held(v) => HomeOf(q, v) = Renamed(HomeOf(s, v), lhs, from)
<1>1. s \in State /\ Kept(s) /\ (\A v \in T : Available(s, v))
  BY DEF Fine
<1>2. /\ q \in State
      /\ q.defined = IF from \in Name \ s.defined THEN s.defined \ {lhs} ELSE s.defined \cup {lhs}
      /\ \A r \in AllRegs : q.regs[r] = Renamed(s.regs[r], lhs, from)
      /\ \A l \in Locs : q.mem[l] = Renamed(s.mem[l], lhs, from)
  BY DEF AfterCommit
<1>3. ASSUME NEW v, Held(v) PROVE HomeOf(q, v) = Renamed(HomeOf(s, v), lhs, from)
  <2>1. v \in Name
    BY <1>3, NameFacts DEF Held
  <2>2. IF Gen!InRegister(v) THEN var2reg[v] \in AllRegs ELSE Gen!Place(v) \in Locs
    BY <1>3, <2>1, HomeType, RegFacts
  <2> QED BY <1>2, <2>2 DEF HomeOf
<1>4. lhs # Zero /\ Zero \in q.regs[x0]
  BY <1>1, <1>2, RegFacts, NameFacts DEF Kept, Renamed
<1>5. ASSUME NEW v \in T PROVE Available(q, v)
  BY <1>1, <1>2, <1>3, <1>4 DEF Available, Renamed
<1>6. ASSUME NEW r \in ToSet(CalleeSaved)
      PROVE  r \in (IF r \in usedRegs THEN q.mem[reg2stack[r]] ELSE q.regs[r])
  <2>1. r \in AllRegs /\ r # lhs
    BY RegFacts, NameFacts
  <2>2. r \in usedRegs => reg2stack[r] \in Locs
    BY DEF Placement, Locs
  <2> QED BY <1>1, <1>2, <2>1, <2>2 DEF Kept, Renamed
<1> QED BY <1>2, <1>3, <1>4, <1>5, <1>6 DEF Fine, Kept

\* From then on lhs is the name of the value that was delivered.
LEMMA CommitSafe ==
    ASSUME Placement, NEW T, NEW lhs \in Assignable, NEW from \in Value, NEW s \in Delivered(lhs, from, T)
    PROVE  Safe(<<Gen!Commit(lhs, from)>>, s, Fine(T))
<1>1. s \in State /\ s \in Fine(T \ {lhs}) /\ lhs \in Name /\ lhs # Zero
  BY NameFacts DEF Delivered, Fine, Assignable
<1>2. Safe(<<Gen!Commit(lhs, from)>>, s, AfterCommit(s, lhs, from))
  BY <1>1, SafeCommit
<1>3. ASSUME NEW q \in AfterCommit(s, lhs, from) PROVE q \in Fine(T)
  <2>1. /\ q \in Fine(T \ {lhs})
        /\ \A v : Held(v) => HomeOf(q, v) = Renamed(HomeOf(s, v), lhs, from)
    BY <1>1, RenamedFine
  <2>2. Held(lhs) /\ lhs \in q.defined => from \in HomeOf(s, lhs)
    BY DEF Delivered, AfterCommit
  <2>3. Available(q, lhs)
    BY <1>1, <2>1, <2>2 DEF Available, Renamed
  <2> QED BY <2>1, <2>3 DEF Fine
<1> QED BY <1>2, <1>3, SafeWider

\* When nothing is done for it, no other variable notices.
LEMMA CommitUseless ==
    ASSUME Placement, NEW T, NEW lhs \in Name, lhs \notin T, NEW from \in Value, NEW s \in Fine(T)
    PROVE  Safe(<<Gen!Commit(lhs, from)>>, s, Fine(T))
<1>1. s \in State
  BY DEF Fine
<1>2. Safe(<<Gen!Commit(lhs, from)>>, s, AfterCommit(s, lhs, from))
  BY <1>1, SafeCommit
<1>3. \A q \in AfterCommit(s, lhs, from) : q \in Fine(T)
  BY RenamedFine
<1> QED BY <1>2, <1>3, SafeWider

-----------------------------------------------------------------------------
\* The statements one by one.
LEMMA ReadFacts ==
    ASSUME Placement, NEW a \in Gen!Operand, NEW tmp \in {s1, s2}
    PROVE  /\ {Gen!Read(a, tmp)} \in Reads
           /\ \A q : Holding(q, Gen!RegOf(a, tmp), a) => Finds(q, {Gen!Read(a, tmp)})
<1>1. Gen!RegOf(a, tmp) \in AllRegs /\ a \in Value
  BY RegOfType, NameFacts
<1>2. Gen!Read(a, tmp) = <<Gen!RegOf(a, tmp), a>>
  BY DEF Gen!Read
<1> QED BY <1>1, <1>2 DEF Reads, Finds

LEMMA ReadsOfBoth ==
    ASSUME NEW R \in Reads, NEW R2 \in Reads
    PROVE  R \cup R2 \in Reads /\ \A q : Finds(q, R) /\ Finds(q, R2) => Finds(q, R \cup R2)
BY DEF Reads, Finds

LEMMA AssignSafe ==
    ASSUME Placement, NEW T, NEW lhs \in Assignable, Clear(lhs, T), NEW s \in Fine(T \ {lhs}),
           NEW reads \in Reads, Finds(s, reads)
    PROVE  Safe(Gen!Assign(lhs, reads), s, Delivered(lhs, Result, T))
<1> DEFINE reg == Gen!Target(lhs)
<1>1. reg \in AllRegs /\ reg # s2 /\ (Gen!InRegister(lhs) => reg = var2reg[lhs]) /\ s \in State
  BY RegFacts DEF Gen!Target, Gen!InRegister, Placement, Fine
<1>2. Gen!Assign(lhs, reads) = <<Gen!Calc(reg, Result, reads)>> \o Gen!StoreIntoStack(reg, lhs)
  BY DEF Gen!Assign
<1> HIDE DEF reg
<1>3. Safe(<<Gen!Calc(reg, Result, reads)>>, s, {q \in Near(s, {reg}, {}) : q.regs[reg] = {Result}})
  BY <1>1, SafeCalc, NameFacts
<1>4. ASSUME NEW q \in Near(s, {reg}, {}), q.regs[reg] = {Result}
      PROVE  Safe(Gen!StoreIntoStack(reg, lhs), q, Delivered(lhs, Result, T))
  <2>1. q \in Near(s, {s1, s2, reg}, {})
    BY NearWider
  <2>2. q \in Fine(T \ {lhs})
    BY <2>1, TargetFine DEF reg
  <2>3. Holding(q, reg, Result)
    BY <1>4 DEF Holding
  <2> QED BY <1>1, <2>2, <2>3, DeliverSafe
<1>5. Safe(<<Gen!Calc(reg, Result, reads)>> \o Gen!StoreIntoStack(reg, lhs), s, Delivered(lhs, Result, T))
  BY <1>3, <1>4, SafeThen
<1> QED BY <1>2, <1>5

LEMMA CopySafe ==
    ASSUME Placement, NEW T, NEW st, st.lhs \in Assignable, Clear(st.lhs, T),
           st.a \in Gen!Operand, ~Gen!CannotFetch(st.a), NEW s \in Fine({st.a} \cup (T \ {st.lhs}))
    PROVE  Safe(Gen!CopyCode(st), s, Delivered(st.lhs, st.a, T))
<1> DEFINE lhs == st.lhs
           a == st.a
           S == {a} \cup (T \ {lhs})
           reg == Gen!Target(lhs)
           src == Gen!RegOf(a, s2)
           move == <<Gen!Move(reg, src, {Gen!Read(a, s2)})>>
<1>1. /\ reg \in AllRegs /\ reg # s2 /\ (Gen!InRegister(lhs) => reg = var2reg[lhs])
      /\ src \in AllRegs /\ {Gen!Read(a, s2)} \in Reads
  BY RegFacts, RegOfType, ReadFacts DEF Gen!Target, Gen!InRegister, Placement
<1>2. Gen!CopyCode(st) = (Gen!Fetch(a, s2) \o move) \o Gen!StoreIntoStack(reg, lhs)
  BY DEF Gen!CopyCode
<1>3. Safe(Gen!Fetch(a, s2), s, Got(S, s, a, s2))
  BY FetchOne
<1> DEFINE M == {q \in Fine(T \ {lhs}) : Holding(q, reg, a)}
<1>4. ASSUME NEW q \in Got(S, s, a, s2) PROVE Safe(move, q, M)
  <2>1. q \in State /\ q \in Fine(S) /\ Holding(q, src, a) /\ Finds(q, {Gen!Read(a, s2)})
    BY ReadFacts DEF Got, Fine
  <2>2. q \in Fine(T \ {lhs})
    BY <2>1, FineFewer
  <2>3. Safe(move, q, {u \in Near(q, {reg}, {}) : u.regs[reg] = q.regs[src]})
    <3> HIDE DEF reg, src, lhs, a
    <3> QED BY <1>1, <2>1, SafeMove
  <2>4. ASSUME NEW u \in Near(q, {reg}, {}), u.regs[reg] = q.regs[src] PROVE u \in M
    <3>1. u \in Near(q, {s1, s2, reg}, {})
      BY NearWider
    <3>2. u \in Fine(T \ {lhs})
      BY <2>2, <3>1, TargetFine
    <3>3. Holding(u, reg, a)
      BY <2>1, <2>4 DEF Holding, Near
    <3> QED BY <3>2, <3>3
  <2> HIDE DEF M, move, reg, src, lhs, a
  <2> QED BY <2>3, <2>4, SafeWider
<1>5. ASSUME NEW q \in M PROVE Safe(Gen!StoreIntoStack(reg, lhs), q, Delivered(lhs, a, T))
  BY <1>1, <1>5, DeliverSafe
<1> HIDE DEF M, move, reg, src, lhs, a, S
<1>6. Safe(Gen!Fetch(a, s2) \o move, s, M)
  BY <1>3, <1>4, SafeThen
<1>7. Safe((Gen!Fetch(a, s2) \o move) \o Gen!StoreIntoStack(reg, lhs), s, Delivered(lhs, a, T))
  BY <1>5, <1>6, SafeThen
<1> QED BY <1>2, <1>7 DEF lhs, a

LEMMA OpSafe ==
    ASSUME Placement, NEW T, NEW st, st.lhs \in Assignable, Clear(st.lhs, T), st.op \in {"op1", "op2"},
           st.a \in Gen!Operand, ~Gen!CannotFetch(st.a),
           st.op = "op2" => st.b \in Gen!Operand /\ ~Gen!CannotFetch(st.b),
           NEW S, NEW s \in Fine(S), T \ {st.lhs} \subseteq S, st.a \in S, st.op = "op2" => st.b \in S
    PROVE  Safe(Gen!OpCode(st), s, Delivered(st.lhs, Result, T))
<1> DEFINE lhs == st.lhs
           a == st.a
           b == st.b
<1>1. CASE st.op = "op1"
  <2>1. Gen!OpCode(st) = Gen!Fetch(a, s2) \o Gen!Assign(lhs, {Gen!Read(a, s2)})
    BY <1>1 DEF Gen!OpCode
  <2>2. Safe(Gen!Fetch(a, s2), s, Got(S, s, a, s2))
    BY FetchOne
  <2>3. ASSUME NEW q \in Got(S, s, a, s2)
        PROVE  Safe(Gen!Assign(lhs, {Gen!Read(a, s2)}), q, Delivered(lhs, Result, T))
    <3>1. q \in Fine(T \ {lhs}) /\ {Gen!Read(a, s2)} \in Reads /\ Finds(q, {Gen!Read(a, s2)})
      BY ReadFacts, FineFewer DEF Got
    <3> QED BY <3>1, AssignSafe
  <2> HIDE DEF lhs, a, b
  <2>4. Safe(Gen!Fetch(a, s2) \o Gen!Assign(lhs, {Gen!Read(a, s2)}), s, Delivered(lhs, Result, T))
    BY <2>2, <2>3, SafeThen
  <2> QED BY <2>1, <2>4 DEF lhs
<1>2. CASE st.op = "op2"
  <2> DEFINE reads == {Gen!Read(a, s1)} \cup {Gen!Read(b, s2)}
             code2 == Gen!Fetch(a, s1) \o Gen!Fetch(b, s2)
             P == {q \in Fine(S) : Holding(q, Gen!RegOf(a, s1), a) /\ Holding(q, Gen!RegOf(b, s2), b)}
  <2>1. Gen!OpCode(st) = code2 \o Gen!Assign(lhs, reads)
    <3>1. reads = {Gen!Read(a, s1), Gen!Read(b, s2)}
      OBVIOUS
    <3> QED BY <1>2, <3>1 DEF Gen!OpCode
  <2>2. Safe(code2, s, P)
    BY <1>2, RegFacts, FetchTwo
  <2>3. ASSUME NEW q \in P PROVE Safe(Gen!Assign(lhs, reads), q, Delivered(lhs, Result, T))
    <3>1. q \in Fine(T \ {lhs})
      BY FineFewer
    <3>2. /\ {Gen!Read(a, s1)} \in Reads /\ Finds(q, {Gen!Read(a, s1)})
          /\ {Gen!Read(b, s2)} \in Reads /\ Finds(q, {Gen!Read(b, s2)})
      BY <1>2, ReadFacts
    <3>3. reads \in Reads /\ Finds(q, reads)
      BY <3>2, ReadsOfBoth
    <3> QED BY <3>1, <3>3, AssignSafe
  <2> HIDE DEF lhs, a, b, P, code2, reads
  <2>4. Safe(code2 \o Gen!Assign(lhs, reads), s, Delivered(lhs, Result, T))
    BY <2>2, <2>3, SafeThen
  <2> QED BY <2>1, <2>4 DEF lhs
<1> QED BY <1>1, <1>2


\* An address in a temporary, from the array and the index in two registers.
LEMMA AddressSafe ==
    ASSUME Placement, NEW S, NEW t1 \in {s1, s2}, NEW t2 \in {s1, s2}, t1 # t2,
           NEW arr \in S \cap Gen!Operand, ~Gen!CannotFetch(arr), NEW a \in S \cap Gen!Operand, ~Gen!CannotFetch(a),
           NEW dst \in {s1, s2}, NEW s \in Fine(S)
    PROVE  Safe(Gen!Fetch(arr, t1) \o Gen!Fetch(a, t2)
                    \o <<Gen!Calc(dst, Address, {Gen!Read(arr, t1), Gen!Read(a, t2)})>>, s,
                {q \in Fine(S) : q.regs[dst] = {Address}})
<1> DEFINE reads == {Gen!Read(arr, t1)} \cup {Gen!Read(a, t2)}
           fetch == Gen!Fetch(arr, t1) \o Gen!Fetch(a, t2)
           P == {q \in Fine(S) : Holding(q, Gen!RegOf(arr, t1), arr) /\ Holding(q, Gen!RegOf(a, t2), a)}
           Q == {q \in Fine(S) : q.regs[dst] = {Address}}
<1>1. Safe(fetch, s, P)
  BY FetchTwo
<1>2. ASSUME NEW q \in P PROVE Safe(<<Gen!Calc(dst, Address, reads)>>, q, Q)
  <2>1. /\ {Gen!Read(arr, t1)} \in Reads /\ Finds(q, {Gen!Read(arr, t1)})
        /\ {Gen!Read(a, t2)} \in Reads /\ Finds(q, {Gen!Read(a, t2)})
    BY ReadFacts
  <2>2. reads \in Reads /\ Finds(q, reads)
    BY <2>1, ReadsOfBoth
  <2>3. q \in State /\ dst \in AllRegs /\ Address \in Value
    BY RegFacts, NameFacts DEF Fine
  <2> HIDE DEF reads
  <2>4. Safe(<<Gen!Calc(dst, Address, reads)>>, q, {u \in Near(q, {dst}, {}) : u.regs[dst] = {Address}})
    BY <2>2, <2>3, SafeCalc
  <2>5. \A u \in Near(q, {dst}, {}) : u \in Fine(S)
    <3> TAKE u \in Near(q, {dst}, {})
    <3>1. u \in Near(q, {s1, s2}, {})
      BY NearWider
    <3> QED BY <3>1, FineNear
  <2>6. {u \in Near(q, {dst}, {}) : u.regs[dst] = {Address}} \subseteq Q
    BY <2>5
  <2> HIDE DEF Q
  <2> QED BY <2>4, <2>6, SafeWider
<1>3. {Gen!Read(arr, t1), Gen!Read(a, t2)} = reads
  OBVIOUS
<1> HIDE DEF reads, fetch, P, Q
<1>4. Safe(fetch \o <<Gen!Calc(dst, Address, reads)>>, s, Q)
  BY <1>1, <1>2, SafeThen
<1> QED BY <1>3, <1>4 DEF fetch, Q

LEMMA LoadSafe ==
    ASSUME Placement, NEW T, NEW st, st.lhs \in Assignable, Clear(st.lhs, T),
           st.arr \in Gen!Operand, ~Gen!CannotFetch(st.arr), st.a \in Gen!Operand, ~Gen!CannotFetch(st.a),
           NEW S, NEW s \in Fine(S), T \ {st.lhs} \subseteq S, st.arr \in S, st.a \in S
    PROVE  Safe(Gen!LoadCode(st), s, Delivered(st.lhs, Result, T))
<1> DEFINE lhs == st.lhs
           arr == st.arr
           a == st.a
<1>1. CASE a \in {Num, Zero}
  <2>1. Gen!LoadCode(st) = Gen!Fetch(arr, s2) \o Gen!Assign(lhs, {Gen!Read(arr, s2)})
    BY <1>1 DEF Gen!LoadCode
  <2>2. Safe(Gen!Fetch(arr, s2), s, Got(S, s, arr, s2))
    BY FetchOne
  <2>3. ASSUME NEW q \in Got(S, s, arr, s2)
        PROVE  Safe(Gen!Assign(lhs, {Gen!Read(arr, s2)}), q, Delivered(lhs, Result, T))
    <3>1. q \in Fine(T \ {lhs}) /\ {Gen!Read(arr, s2)} \in Reads /\ Finds(q, {Gen!Read(arr, s2)})
      BY ReadFacts, FineFewer DEF Got
    <3> QED BY <3>1, AssignSafe
  <2> HIDE DEF lhs, arr, a
  <2>4. Safe(Gen!Fetch(arr, s2) \o Gen!Assign(lhs, {Gen!Read(arr, s2)}), s, Delivered(lhs, Result, T))
    BY <2>2, <2>3, SafeThen
  <2> QED BY <2>1, <2>4 DEF lhs
<1>2. CASE a \notin {Num, Zero}
  <2> DEFINE code2 == Gen!Fetch(arr, s2) \o Gen!Fetch(a, s1)
                        \o <<Gen!Calc(s2, Address, {Gen!Read(arr, s2), Gen!Read(a, s1)})>>
             reads == {<<s2, Address>>}
             P == {q \in Fine(S) : q.regs[s2] = {Address}}
  <2>1. Gen!LoadCode(st) = code2 \o Gen!Assign(lhs, reads)
    BY <1>2 DEF Gen!LoadCode
  <2>2. Safe(code2, s, P)
    BY RegFacts, AddressSafe
  <2>3. ASSUME NEW q \in P PROVE Safe(Gen!Assign(lhs, reads), q, Delivered(lhs, Result, T))
    <3>1. q \in Fine(T \ {lhs})
      BY FineFewer
    <3>2. reads \in Reads /\ Finds(q, reads)
      BY RegFacts, NameFacts DEF Reads, Finds, Holding
    <3> QED BY <3>1, <3>2, AssignSafe
  <2> HIDE DEF lhs, arr, a, P, code2, reads
  <2>4. Safe(code2 \o Gen!Assign(lhs, reads), s, Delivered(lhs, Result, T))
    BY <2>2, <2>3, SafeThen
  <2> QED BY <2>1, <2>4 DEF lhs
<1> QED BY <1>1, <1>2

\* Reading, without assigning.
LEMMA UseSafe ==
    ASSUME NEW S, NEW s \in Fine(S), NEW reads \in Reads, Finds(s, reads), Placement
    PROVE  Safe(<<Gen!Use(reads)>>, s, Fine(S))
<1>1. s \in State
  BY DEF Fine
<1>2. Safe(<<Gen!Use(reads)>>, s, Near(s, {}, {}))
  BY <1>1, SafeUse
<1>3. ASSUME NEW q \in Near(s, {}, {}) PROVE q \in Fine(S)
  <2>1. q \in Near(s, {s1, s2}, {})
    BY NearWider
  <2> QED BY <2>1, FineNear
<1> QED BY <1>2, <1>3, SafeWider

LEMMA IfSafe ==
    ASSUME Placement, NEW st, st.a \in Gen!Operand, ~Gen!CannotFetch(st.a), NEW S, NEW s \in Fine(S), st.a \in S
    PROVE  Safe(Gen!IfCode(st), s, Fine(S))
<1> DEFINE a == st.a
           use == <<Gen!Use({Gen!Read(a, s1)})>>
<1>1. Gen!IfCode(st) = Gen!Fetch(a, s1) \o use
  BY DEF Gen!IfCode
<1>2. Safe(Gen!Fetch(a, s1), s, Got(S, s, a, s1))
  BY FetchOne
<1>3. ASSUME NEW q \in Got(S, s, a, s1) PROVE Safe(use, q, Fine(S))
  <2>1. q \in Fine(S) /\ {Gen!Read(a, s1)} \in Reads /\ Finds(q, {Gen!Read(a, s1)})
    BY ReadFacts DEF Got
  <2> QED BY <2>1, UseSafe
<1> HIDE DEF a, use
<1>4. Safe(Gen!Fetch(a, s1) \o use, s, Fine(S))
  BY <1>2, <1>3, SafeThen
<1> QED BY <1>1, <1>4

LEMMA StoreElementSafe ==
    ASSUME Placement, NEW st, st.arr \in Gen!Operand, ~Gen!CannotFetch(st.arr),
           st.a \in Gen!Operand, ~Gen!CannotFetch(st.a), st.b \in Gen!Operand, ~Gen!CannotFetch(st.b),
           NEW S, NEW s \in Fine(S), st.arr \in S, st.a \in S, st.b \in S
    PROVE  Safe(Gen!StoreCode(st), s, Fine(S))
<1> DEFINE arr == st.arr
           a == st.a
           b == st.b
<1>1. CASE a \in {Num, Zero}
  <2> DEFINE reads == {Gen!Read(arr, s1)} \cup {Gen!Read(b, s2)}
             code2 == Gen!Fetch(arr, s1) \o Gen!Fetch(b, s2)
             P == {q \in Fine(S) : Holding(q, Gen!RegOf(arr, s1), arr) /\ Holding(q, Gen!RegOf(b, s2), b)}
  <2>1. Gen!StoreCode(st) = code2 \o <<Gen!Use(reads)>>
    <3>1. reads = {Gen!Read(arr, s1), Gen!Read(b, s2)}
      OBVIOUS
    <3> QED BY <1>1, <3>1 DEF Gen!StoreCode
  <2>2. Safe(code2, s, P)
    BY RegFacts, FetchTwo
  <2>3. ASSUME NEW q \in P PROVE Safe(<<Gen!Use(reads)>>, q, Fine(S))
    <3>1. /\ {Gen!Read(arr, s1)} \in Reads /\ Finds(q, {Gen!Read(arr, s1)})
          /\ {Gen!Read(b, s2)} \in Reads /\ Finds(q, {Gen!Read(b, s2)})
      BY ReadFacts
    <3>2. reads \in Reads /\ Finds(q, reads)
      BY <3>1, ReadsOfBoth
    <3> QED BY <3>2, UseSafe
  <2> HIDE DEF arr, a, b, P, code2, reads
  <2>4. Safe(code2 \o <<Gen!Use(reads)>>, s, Fine(S))
    BY <2>2, <2>3, SafeThen
  <2> QED BY <2>1, <2>4
<1>2. CASE a \notin {Num, Zero}
  <2> DEFINE reads == {<<s1, Address>>} \cup {Gen!Read(b, s2)}
             code2 == Gen!Fetch(arr, s1) \o Gen!Fetch(a, s2)
                        \o <<Gen!Calc(s1, Address, {Gen!Read(arr, s1), Gen!Read(a, s2)})>>
             P == {q \in Fine(S) : q.regs[s1] = {Address}}
             P2 == {q \in Fine(S) : q.regs[s1] = {Address} /\ Holding(q, Gen!RegOf(b, s2), b)}
  <2>1. Gen!StoreCode(st) = (code2 \o Gen!Fetch(b, s2)) \o <<Gen!Use(reads)>>
    <3>1. reads = {<<s1, Address>>, Gen!Read(b, s2)}
      OBVIOUS
    <3> QED BY <1>2, <3>1 DEF Gen!StoreCode
  <2>2. Safe(code2, s, P)
    BY RegFacts, AddressSafe
  <2>3. ASSUME NEW q \in P PROVE Safe(Gen!Fetch(b, s2), q, P2)
    <3>1. Safe(Gen!Fetch(b, s2), q, Got(S, q, b, s2))
      BY FetchOne
    <3>2. s1 \in AllRegs \ {s2}
      BY RegFacts
    <3>3. Got(S, q, b, s2) \subseteq P2
      BY <3>2 DEF Got, Near
    <3> HIDE DEF P2
    <3> QED BY <3>1, <3>3, SafeWider
  <2>4. ASSUME NEW q \in P2 PROVE Safe(<<Gen!Use(reads)>>, q, Fine(S))
    <3>1. {Gen!Read(b, s2)} \in Reads /\ Finds(q, {Gen!Read(b, s2)})
      BY ReadFacts
    <3>2. {<<s1, Address>>} \in Reads /\ Finds(q, {<<s1, Address>>})
      BY RegFacts, NameFacts DEF Reads, Finds, Holding
    <3>3. reads \in Reads /\ Finds(q, reads)
      BY <3>1, <3>2, ReadsOfBoth
    <3> QED BY <3>3, UseSafe
  <2> HIDE DEF arr, a, b, P, P2, code2, reads
  <2>5. Safe(code2 \o Gen!Fetch(b, s2), s, P2)
    BY <2>2, <2>3, SafeThen
  <2>6. Safe((code2 \o Gen!Fetch(b, s2)) \o <<Gen!Use(reads)>>, s, Fine(S))
    BY <2>4, <2>5, SafeThen
  <2> QED BY <2>1, <2>6
<1> QED BY <1>1, <1>2


-----------------------------------------------------------------------------
\* save_regs and restore_regs: of the registers in rs, those that are used.
Saved(s, rs) ==
    {q \in Near(s, {}, {reg2stack[r] : r \in usedRegs \cap ToSet(rs)}) :
        \A r \in usedRegs \cap ToSet(rs) : q.mem[reg2stack[r]] = s.regs[r]}

Restored(s, rs) ==
    {q \in Near(s, usedRegs \cap ToSet(rs), {}) :
        \A r \in usedRegs \cap ToSet(rs) : q.regs[r] = s.mem[reg2stack[r]]}

LEMMA SaveRegSafe ==
    ASSUME Placement, NEW r \in Scan!Reg, NEW s \in State
    PROVE  Safe(Gen!SaveReg(r), s,
                {q \in Near(s, {}, {reg2stack[k] : k \in usedRegs \cap {r}}) :
                    r \in usedRegs => q.mem[reg2stack[r]] = s.regs[r]})
<1> DEFINE Q == {q \in Near(s, {}, {reg2stack[k] : k \in usedRegs \cap {r}}) :
                    r \in usedRegs => q.mem[reg2stack[r]] = s.regs[r]}
<1>1. CASE r \in usedRegs
  <2>1. Gen!SaveReg(r) = <<Gen!Store(r, reg2stack[r])>> /\ r \in AllRegs /\ reg2stack[r] \in Locs
    BY <1>1, RegFacts DEF Gen!SaveReg, Placement, Locs
  <2>2. Safe(<<Gen!Store(r, reg2stack[r])>>, s,
             {q \in Near(s, {}, {reg2stack[r]}) : q.mem[reg2stack[r]] = s.regs[r]})
    BY <2>1, SafeStore
  <2>3. {reg2stack[k] : k \in usedRegs \cap {r}} = {reg2stack[r]}
    BY <1>1
  <2>4. {q \in Near(s, {}, {reg2stack[r]}) : q.mem[reg2stack[r]] = s.regs[r]} \subseteq Q
    BY <1>1, <2>3
  <2> HIDE DEF Q
  <2>5. Safe(Gen!SaveReg(r), s, Q)
    BY <2>1, <2>2, <2>4, SafeWider
  <2> QED BY <2>5 DEF Q
<1>2. CASE r \notin usedRegs
  <2>1. Gen!SaveReg(r) = << >> /\ s \in Q
    BY <1>2, NearItself DEF Gen!SaveReg
  <2> HIDE DEF Q
  <2>2. Safe(Gen!SaveReg(r), s, Q)
    BY <2>1, SafeNothing
  <2> QED BY <2>2 DEF Q
<1> QED BY <1>1, <1>2

LEMMA RestoreRegSafe ==
    ASSUME Placement, NEW r \in Scan!Reg, NEW s \in State
    PROVE  Safe(Gen!RestoreReg(r), s,
                {q \in Near(s, usedRegs \cap {r}, {}) : r \in usedRegs => q.regs[r] = s.mem[reg2stack[r]]})
<1> DEFINE Q == {q \in Near(s, usedRegs \cap {r}, {}) : r \in usedRegs => q.regs[r] = s.mem[reg2stack[r]]}
<1>1. CASE r \in usedRegs
  <2>1. Gen!RestoreReg(r) = <<Gen!Load(r, reg2stack[r])>> /\ r \in AllRegs /\ reg2stack[r] \in Locs
    BY <1>1, RegFacts DEF Gen!RestoreReg, Placement, Locs
  <2>2. Safe(<<Gen!Load(r, reg2stack[r])>>, s,
             {q \in Near(s, {r}, {}) : q.regs[r] = s.mem[reg2stack[r]]})
    BY <2>1, SafeLoad
  <2>3. usedRegs \cap {r} = {r}
    BY <1>1
  <2>4. {q \in Near(s, {r}, {}) : q.regs[r] = s.mem[reg2stack[r]]} \subseteq Q
    BY <1>1, <2>3
  <2> HIDE DEF Q
  <2>5. Safe(Gen!RestoreReg(r), s, Q)
    BY <2>1, <2>2, <2>4, SafeWider
  <2> QED BY <2>5 DEF Q
<1>2. CASE r \notin usedRegs
  <2>1. Gen!RestoreReg(r) = << >> /\ s \in Q
    BY <1>2, NearItself DEF Gen!RestoreReg
  <2> HIDE DEF Q
  <2>2. Safe(Gen!RestoreReg(r), s, Q)
    BY <2>1, SafeNothing
  <2> QED BY <2>2 DEF Q
<1> QED BY <1>1, <1>2

\* A sequence of codes, and the one that FlattenSeq makes of it.
LEMMA CodesType ==
    ASSUME NEW n \in Nat, NEW cs, DOMAIN cs = 1 .. n, cs = [i \in 1 .. n |-> cs[i]],
           \A i \in 1 .. n : cs[i] \in Seq(Instruction)
    PROVE  cs \in Seq(Seq(Instruction)) /\ Len(cs) = n
<1>1. cs \in [1 .. n -> Seq(Instruction)]
  OBVIOUS
<1> QED BY <1>1

LEMMA SaveRegsSafe ==
    ASSUME Placement, NEW rs \in Seq(Scan!Reg), NEW s \in State
    PROVE  Safe(Gen!SaveRegs(rs), s, Saved(s, rs))
<1> DEFINE n == Len(rs)
           cs == [i \in DOMAIN rs |-> Gen!SaveReg(rs[i])]
           L == {reg2stack[r] : r \in usedRegs \cap ToSet(rs)}
           I == [i \in 0 .. n |->
                    {q \in Near(s, {}, L) :
                        \A j \in 1 .. i : rs[j] \in usedRegs => q.mem[reg2stack[rs[j]]] = s.regs[rs[j]]}]
<1>1. n \in Nat /\ DOMAIN rs = 1 .. n /\ \A i \in 1 .. n : rs[i] \in Scan!Reg /\ rs[i] \in ToSet(rs)
  BY DEF ToSet
<1>2. /\ DOMAIN cs = 1 .. n /\ cs = [i \in 1 .. n |-> cs[i]]
      /\ \A i \in 1 .. n : cs[i] = Gen!SaveReg(rs[i])
  BY <1>1
<1>3. \A i \in 1 .. n : cs[i] \in Seq(Instruction)
  BY <1>1, <1>2, SaveRegSafe DEF Safe
<1>4. Gen!SaveRegs(rs) = FlattenSeq(cs)
  BY DEF Gen!SaveRegs, FlattenSeq, Gen!FlattenSeq
<1>5. \A i \in 0 .. n : I[i] = {q \in Near(s, {}, L) :
                        \A j \in 1 .. i : rs[j] \in usedRegs => q.mem[reg2stack[rs[j]]] = s.regs[rs[j]]}
  OBVIOUS
<1> HIDE DEF cs, I
<1>6. cs \in Seq(Seq(Instruction)) /\ Len(cs) = n
  BY <1>1, <1>2, <1>3, CodesType
<1>7. s \in I[0]
  <2>1. 0 \in 0 .. n /\ \A j \in 1 .. 0 : FALSE
    BY <1>1
  <2>2. s \in Near(s, {}, L)
    BY NearItself
  <2> HIDE DEF L
  <2> QED BY <1>5, <2>1, <2>2
<1>8. ASSUME NEW i \in 1 .. n, NEW q \in I[i - 1] PROVE Safe(cs[i], q, I[i])
  <2> DEFINE r == rs[i]
             M == {reg2stack[k] : k \in usedRegs \cap {r}}
             Q == {u \in Near(q, {}, M) : r \in usedRegs => u.mem[reg2stack[r]] = q.regs[r]}
  <2>1. i - 1 \in 0 .. n /\ i \in 0 .. n /\ r \in Scan!Reg /\ r \in ToSet(rs)
    BY <1>1
  <2>2. /\ q \in Near(s, {}, L) /\ q \in State
        /\ \A j \in 1 .. i - 1 : rs[j] \in usedRegs => q.mem[reg2stack[rs[j]]] = s.regs[rs[j]]
    BY <1>5, <2>1 DEF Near
  <2>3. Safe(cs[i], q, Q)
    BY <1>2, <2>1, <2>2, SaveRegSafe
  <2>4. ASSUME NEW u \in Q PROVE u \in I[i]
    <3>1. M \subseteq L
      BY <2>1
    <3>2. u \in Near(s, {} \cup {}, L \cup M)
      BY <2>2, NearNear
    <3>3. u \in Near(s, {}, L)
      BY <3>1, <3>2, NearWider
    <3>4. ASSUME NEW j \in 1 .. i, rs[j] \in usedRegs PROVE u.mem[reg2stack[rs[j]]] = s.regs[rs[j]]
      <4>1. rs[j] \in AllRegs /\ reg2stack[rs[j]] \in Locs /\ q.regs[rs[j]] = s.regs[rs[j]]
        BY <1>1, <2>2, <3>4, RegFacts DEF Placement, Locs, Near
      <4>2. CASE rs[j] = r
        BY <3>4, <4>1, <4>2
      <4>3. CASE rs[j] # r
        <5>1. j \in 1 .. i - 1
          BY <1>1, <4>3
        <5>2. reg2stack[rs[j]] \notin M
          BY <3>4, <4>3 DEF Placement
        <5>3. u.mem[reg2stack[rs[j]]] = q.mem[reg2stack[rs[j]]]
          BY <4>1, <5>2 DEF Near
        <5> QED BY <2>2, <3>4, <5>1, <5>3
      <4> QED BY <4>2, <4>3
    <3> QED BY <1>5, <2>1, <3>3, <3>4
  <2> HIDE DEF Q, M, r
  <2> QED BY <2>3, <2>4, SafeWider
<1>9. Safe(FlattenSeq(cs), s, I[n])
  BY <1>6, <1>7, <1>8, SafeLoop
<1>10. I[n] \subseteq Saved(s, rs)
  <2>1. n \in 0 .. n /\ \A r \in ToSet(rs) : \E j \in 1 .. n : r = rs[j]
    BY <1>1 DEF ToSet
  <2>2. ASSUME NEW q \in I[n] PROVE q \in Saved(s, rs)
    <3>1. q \in Near(s, {}, L) /\ \A j \in 1 .. n : rs[j] \in usedRegs => q.mem[reg2stack[rs[j]]] = s.regs[rs[j]]
      <4> HIDE DEF L, n
      <4> QED BY <1>5, <2>1, <2>2
    <3>2. \A r \in usedRegs \cap ToSet(rs) : q.mem[reg2stack[r]] = s.regs[r]
      BY <2>1, <3>1
    <3> QED BY <3>1, <3>2 DEF Saved
  <2> QED BY <2>2
<1> QED BY <1>4, <1>9, <1>10, SafeWider

LEMMA RestoreRegsSafe ==
    ASSUME Placement, NEW rs \in Seq(Scan!Reg), NEW s \in State
    PROVE  Safe(Gen!RestoreRegs(rs), s, Restored(s, rs))
<1> DEFINE n == Len(rs)
           cs == [i \in DOMAIN rs |-> Gen!RestoreReg(rs[i])]
           R == usedRegs \cap ToSet(rs)
           I == [i \in 0 .. n |->
                    {q \in Near(s, R, {}) :
                        \A j \in 1 .. i : rs[j] \in usedRegs => q.regs[rs[j]] = s.mem[reg2stack[rs[j]]]}]
<1>1. n \in Nat /\ DOMAIN rs = 1 .. n /\ \A i \in 1 .. n : rs[i] \in Scan!Reg /\ rs[i] \in ToSet(rs)
  BY DEF ToSet
<1>2. /\ DOMAIN cs = 1 .. n /\ cs = [i \in 1 .. n |-> cs[i]]
      /\ \A i \in 1 .. n : cs[i] = Gen!RestoreReg(rs[i])
  BY <1>1
<1>3. \A i \in 1 .. n : cs[i] \in Seq(Instruction)
  BY <1>1, <1>2, RestoreRegSafe DEF Safe
<1>4. Gen!RestoreRegs(rs) = FlattenSeq(cs)
  BY DEF Gen!RestoreRegs, FlattenSeq, Gen!FlattenSeq
<1>5. \A i \in 0 .. n : I[i] = {q \in Near(s, R, {}) :
                        \A j \in 1 .. i : rs[j] \in usedRegs => q.regs[rs[j]] = s.mem[reg2stack[rs[j]]]}
  OBVIOUS
<1> HIDE DEF cs, I
<1>6. cs \in Seq(Seq(Instruction)) /\ Len(cs) = n
  BY <1>1, <1>2, <1>3, CodesType
<1>7. s \in I[0]
  BY <1>1, <1>5, NearItself
<1>8. ASSUME NEW i \in 1 .. n, NEW q \in I[i - 1] PROVE Safe(cs[i], q, I[i])
  <2> DEFINE r == rs[i]
             M == usedRegs \cap {r}
             Q == {u \in Near(q, M, {}) : r \in usedRegs => u.regs[r] = q.mem[reg2stack[r]]}
  <2>1. i - 1 \in 0 .. n /\ i \in 0 .. n /\ r \in Scan!Reg /\ r \in ToSet(rs)
    BY <1>1
  <2>2. /\ q \in Near(s, R, {}) /\ q \in State
        /\ \A j \in 1 .. i - 1 : rs[j] \in usedRegs => q.regs[rs[j]] = s.mem[reg2stack[rs[j]]]
    BY <1>5, <2>1 DEF Near
  <2>3. Safe(cs[i], q, Q)
    BY <1>2, <2>1, <2>2, RestoreRegSafe
  <2>4. ASSUME NEW u \in Q PROVE u \in I[i]
    <3>1. M \subseteq R
      BY <2>1
    <3>2. u \in Near(s, R \cup M, {} \cup {})
      BY <2>2, NearNear
    <3>3. u \in Near(s, R, {})
      BY <3>1, <3>2, NearWider
    <3>4. ASSUME NEW j \in 1 .. i, rs[j] \in usedRegs PROVE u.regs[rs[j]] = s.mem[reg2stack[rs[j]]]
      <4>1. rs[j] \in AllRegs /\ reg2stack[rs[j]] \in Locs /\ q.mem[reg2stack[rs[j]]] = s.mem[reg2stack[rs[j]]]
        BY <1>1, <2>2, <3>4, RegFacts DEF Placement, Locs, Near
      <4>2. CASE rs[j] = r
        BY <3>4, <4>1, <4>2
      <4>3. CASE rs[j] # r
        <5>1. j \in 1 .. i - 1
          BY <1>1, <4>3
        <5>2. u.regs[rs[j]] = q.regs[rs[j]]
          BY <4>1, <4>3 DEF Near
        <5> QED BY <2>2, <3>4, <5>1, <5>2
      <4> QED BY <4>2, <4>3
    <3> QED BY <1>5, <2>1, <3>3, <3>4
  <2> HIDE DEF Q, M, r
  <2> QED BY <2>3, <2>4, SafeWider
<1>9. Safe(FlattenSeq(cs), s, I[n])
  BY <1>6, <1>7, <1>8, SafeLoop
<1>10. I[n] \subseteq Restored(s, rs)
  <2>1. n \in 0 .. n /\ \A r \in ToSet(rs) : \E j \in 1 .. n : r = rs[j]
    BY <1>1 DEF ToSet
  <2>2. ASSUME NEW q \in I[n] PROVE q \in Restored(s, rs)
    <3>1. q \in Near(s, R, {}) /\ \A j \in 1 .. n : rs[j] \in usedRegs => q.regs[rs[j]] = s.mem[reg2stack[rs[j]]]
      <4> HIDE DEF R, n
      <4> QED BY <1>5, <2>1, <2>2
    <3>2. \A r \in usedRegs \cap ToSet(rs) : q.regs[r] = s.mem[reg2stack[r]]
      BY <2>1, <3>1
    <3> QED BY <3>1, <3>2 DEF Restored
  <2> QED BY <2>2
<1> QED BY <1>4, <1>9, <1>10, SafeWider


-----------------------------------------------------------------------------
\* The return to the caller, which finds the globals in memory.
LEMMA FineGlobals ==
    /\ \A S : \A s \in Fine(S) : Globals \subseteq S => GlobalsThere(s)
    /\ \A s \in State : Kept(s) /\ GlobalsThere(s) => s \in Fine(Globals)
<1>1. \A g \in Globals : Held(g) /\ ~Gen!InRegister(g) /\ Gen!Place(g) = g /\ g # Zero
  <2> TAKE g \in Globals
  <2>1. g \in Name /\ g \notin Var /\ g \notin Params /\ g \notin Arrays
    BY NameFacts
  <2> QED BY <2>1, NameFacts DEF Held, Gen!InRegister, Gen!Place
<1>2. \A s : \A g \in Globals : HomeOf(s, g) = s.mem[g]
  BY <1>1 DEF HomeOf
<1> QED BY <1>1, <1>2 DEF Fine, Available, GlobalsThere

LEMMA KeptNear ==
    ASSUME Placement, NEW s, Kept(s), NEW R, NEW q \in Near(s, R, {}), x0 \notin R, R \cap ToSet(CalleeSaved) = {}
    PROVE  Kept(q)
<1>1. q.regs[x0] = s.regs[x0]
  BY RegFacts DEF Near
<1>2. ASSUME NEW r \in ToSet(CalleeSaved)
      PROVE  r \in (IF r \in usedRegs THEN q.mem[reg2stack[r]] ELSE q.regs[r])
  <2>1. r \in AllRegs \ R
    BY RegFacts
  <2>2. r \in usedRegs => reg2stack[r] \in Locs
    BY DEF Placement, Locs
  <2> QED BY <2>1, <2>2 DEF Kept, Near
<1> QED BY <1>1, <1>2 DEF Kept

\* The value that is returned is in a0.
LEMMA ReturnValueSafe ==
    ASSUME Placement, NEW v \in Gen!Operand, ~Gen!CannotFetch(v), NEW s \in State, Available(s, v),
           NEW a0, a0 = ParamRegs[1]
    PROVE  Safe(IF v \in {Num, Zero} THEN <<Gen!Calc(a0, v, {})>>
                ELSE Gen!Fetch(v, s1) \o <<Gen!Move(a0, Gen!RegOf(v, s1), {})>>,
                s, {q \in Near(s, {s1, a0}, {}) : Holding(q, a0, v)})
<1> DEFINE Q == {q \in Near(s, {s1, a0}, {}) : Holding(q, a0, v)}
<1>1. a0 \in AllRegs /\ a0 # s1 /\ s1 \in AllRegs /\ {} \in Reads /\ \A q : Finds(q, {})
  BY RegFacts DEF Reads, Finds
<1>2. CASE v \in {Num, Zero}
  <2>1. v \in Value
    BY <1>2, NameFacts
  <2>2. Safe(<<Gen!Calc(a0, v, {})>>, s, {q \in Near(s, {a0}, {}) : q.regs[a0] = {v}})
    BY <1>1, <2>1, SafeCalc
  <2>3. {q \in Near(s, {a0}, {}) : q.regs[a0] = {v}} \subseteq Q
    BY NearWider DEF Holding
  <2> HIDE DEF Q
  <2>4. Safe(<<Gen!Calc(a0, v, {})>>, s, Q)
    BY <2>2, <2>3, SafeWider
  <2> QED BY <1>2, <2>4 DEF Q
<1>3. CASE v \notin {Num, Zero}
  <2> DEFINE src == Gen!RegOf(v, s1)
             P == {q \in Near(s, {s1}, {}) : Holding(q, src, v)}
             move == <<Gen!Move(a0, src, {})>>
  <2>1. src \in AllRegs /\ Safe(Gen!Fetch(v, s1), s, P)
    BY <1>1, FetchSafe
  <2>2. ASSUME NEW q \in P PROVE Safe(move, q, Q)
    <3>1. q \in State /\ Holding(q, src, v) /\ q \in Near(s, {s1}, {})
      BY DEF Near
    <3>2. Safe(move, q, {u \in Near(q, {a0}, {}) : u.regs[a0] = q.regs[src]})
      <4> HIDE DEF src
      <4> QED BY <1>1, <2>1, <3>1, SafeMove
    <3>3. ASSUME NEW u \in Near(q, {a0}, {}), u.regs[a0] = q.regs[src] PROVE u \in Q
      <4>1. u \in Near(s, {s1} \cup {a0}, {} \cup {})
        BY <3>1, NearNear
      <4>2. u \in Near(s, {s1, a0}, {})
        BY <4>1, NearWider
      <4>3. Holding(u, a0, v)
        BY <3>1, <3>3 DEF Holding, Near
      <4> QED BY <4>2, <4>3
    <3> HIDE DEF Q, move, src
    <3> QED BY <3>2, <3>3, SafeWider
  <2> HIDE DEF P, Q, move
  <2>3. Safe(Gen!Fetch(v, s1) \o move, s, Q)
    BY <2>1, <2>2, SafeThen
  <2> QED BY <1>3, <2>3 DEF Q, move
<1> QED BY <1>2, <1>3

LEMMA ReturnSafe ==
    ASSUME Placement, NEW v, v = None \/ (v \in Gen!Operand /\ ~Gen!CannotFetch(v)),
           NEW S, NEW s \in Fine(S), v = None \/ v \in S, Globals \subseteq S
    PROVE  Safe(Gen!ReturnCode(v), s, Fine(Globals))
<1> DEFINE a0 == ParamRegs[1]
           first == IF v = None THEN << >>
                    ELSE IF v \in {Num, Zero} THEN <<Gen!Calc(a0, v, {})>>
                    ELSE Gen!Fetch(v, s1) \o <<Gen!Move(a0, Gen!RegOf(v, s1), {})>>
           reads == Gen!ReturnReads(v)
           P == {q \in Near(s, {s1, a0}, {}) : v # None => Holding(q, a0, v)}
           P2 == {q \in State : Finds(q, reads) /\ GlobalsThere(q) /\ Kept(q)}
<1>1. /\ s \in State /\ Kept(s) /\ GlobalsThere(s) /\ (v # None => Available(s, v))
      /\ a0 \in ToSet(ParamRegs) /\ a0 \in Scan!Reg /\ a0 # x0 /\ a0 # s1 /\ s1 \in AllRegs
      /\ CalleeSaved \in Seq(Scan!Reg)
  <2>1. a0 \in ToSet(ParamRegs) /\ a0 \in Scan!Reg
    BY RegFacts DEF ToSet
  <2> QED BY <2>1, FineGlobals, RegFacts DEF Fine
<1>2. Safe(first, s, P)
  <2>1. CASE v = None
    <3>1. s \in P /\ first = << >>
      BY <1>1, <2>1, NearItself
    <3> HIDE DEF P, first
    <3> QED BY <1>1, <3>1, SafeNothing
  <2>2. CASE v # None
    <3>1. Safe(first, s, {q \in Near(s, {s1, a0}, {}) : Holding(q, a0, v)})
      BY <1>1, <2>2, ReturnValueSafe
    <3>2. {q \in Near(s, {s1, a0}, {}) : Holding(q, a0, v)} \subseteq P
      OBVIOUS
    <3> HIDE DEF P, first
    <3> QED BY <3>1, <3>2, SafeWider
  <2> QED BY <2>1, <2>2
<1>3. reads \in Reads
  <2>1. v # None => v \in Value
    BY NameFacts
  <2>2. \A r \in ToSet(CalleeSaved) : r \in AllRegs /\ r \in Value
    BY RegFacts, NameFacts
  <2> QED BY <1>1, <2>1, <2>2, RegFacts DEF Gen!ReturnReads, Gen!ToSet, ToSet, Reads
<1>4. ASSUME NEW q \in P PROVE Safe(Gen!RestoreRegs(CalleeSaved), q, P2)
  <2>1. q \in State /\ q \in Near(s, {s1, a0}, {})
    BY DEF Near
  <2>2. Safe(Gen!RestoreRegs(CalleeSaved), q, Restored(q, CalleeSaved))
    BY <1>1, <2>1, RestoreRegsSafe
  <2>3. Kept(q)
    <3>1. x0 \notin {s1, a0} /\ {s1, a0} \cap ToSet(CalleeSaved) = {}
      BY <1>1, RegFacts
    <3> HIDE DEF a0
    <3> QED BY <1>1, <2>1, <3>1, KeptNear
  <2>4. ASSUME NEW u \in Restored(q, CalleeSaved) PROVE u \in P2
    <3>1. /\ u \in State /\ u.defined = q.defined /\ \A l \in Locs : u.mem[l] = q.mem[l]
          /\ \A r \in AllRegs \ (usedRegs \cap ToSet(CalleeSaved)) : u.regs[r] = q.regs[r]
          /\ \A r \in usedRegs \cap ToSet(CalleeSaved) : u.regs[r] = q.mem[reg2stack[r]]
      BY DEF Restored, Near
    <3>2. \A r \in usedRegs : reg2stack[r] \in Locs
      BY DEF Placement, Locs
    <3>3. \A r \in ToSet(CalleeSaved) : r \in AllRegs /\ r \in u.regs[r]
      BY <2>3, <3>1, RegFacts DEF Kept
    <3>4. u.regs[x0] = q.regs[x0] /\ u.regs[a0] = q.regs[a0]
      BY <1>1, <3>1, RegFacts
    <3>5. Kept(u)
      BY <2>3, <3>1, <3>2, <3>3, <3>4, RegFacts DEF Kept
    <3>6. GlobalsThere(u)
      <4>1. \A g \in Globals : g \in Locs
        BY DEF Locs
      <4> QED BY <1>1, <2>1, <3>1, <4>1 DEF GlobalsThere, Near
    <3>7. Finds(u, reads)
      <4>1. v # None => Holding(u, a0, v)
        BY <3>1, <3>4 DEF Holding
      <4>2. \A r \in ToSet(CalleeSaved) : Holding(u, r, r)
        BY <3>3 DEF Holding
      <4>3. Gen!ToSet(CalleeSaved) = ToSet(CalleeSaved)
        BY DEF Gen!ToSet, ToSet
      <4> HIDE DEF P
      <4> QED BY <4>1, <4>2, <4>3 DEF Finds, Gen!ReturnReads
    <3> QED BY <3>1, <3>5, <3>6, <3>7
  <2> HIDE DEF P2
  <2> QED BY <2>2, <2>4, SafeWider
<1>5. ASSUME NEW q \in P2 PROVE Safe(<<Gen!Return(reads)>>, q, Fine(Globals))
  <2>1. Safe(<<Gen!Return(reads)>>, q, Near(q, {}, {}))
    BY <1>3, SafeReturn
  <2>2. ASSUME NEW u \in Near(q, {}, {}) PROVE u \in Fine(Globals)
    <3>1. q \in Fine(Globals)
      BY FineGlobals
    <3>2. u \in Near(q, {s1, s2}, {})
      BY NearWider
    <3> QED BY <3>1, <3>2, FineNear
  <2> QED BY <2>1, <2>2, SafeWider
<1>6. Gen!ReturnCode(v) = (first \o Gen!RestoreRegs(CalleeSaved)) \o <<Gen!Return(reads)>>
  BY DEF Gen!ReturnCode
<1> HIDE DEF first, reads, P, P2
<1>7. Safe(first \o Gen!RestoreRegs(CalleeSaved), s, P2)
  BY <1>2, <1>4, SafeThen
<1>8. Safe((first \o Gen!RestoreRegs(CalleeSaved)) \o <<Gen!Return(reads)>>, s, Fine(Globals))
  BY <1>5, <1>7, SafeThen
<1> QED BY <1>6, <1>8


-----------------------------------------------------------------------------
\* A call.  What the callee may overwrite and the function uses:
Clobbered == usedRegs \cap (ToSet(ParamRegs) \cup ToSet(CallerSaved))

AllSaved(s) ==
    {q \in Near(s, {}, {reg2stack[r] : r \in Clobbered}) :
        \A r \in Clobbered : q.mem[reg2stack[r]] = s.regs[r]}

LEMMA SaveAllSafe ==
    ASSUME Placement, NEW s \in State
    PROVE  Safe(Gen!SaveRegs(ParamRegs) \o Gen!SaveRegs(CallerSaved), s, AllSaved(s))
<1>1. Safe(Gen!SaveRegs(ParamRegs), s, Saved(s, ParamRegs))
  BY RegFacts, SaveRegsSafe
<1>2. ASSUME NEW q \in Saved(s, ParamRegs) PROVE Safe(Gen!SaveRegs(CallerSaved), q, AllSaved(s))
  <2>1. /\ q \in State /\ q.defined = s.defined /\ \A r \in AllRegs : q.regs[r] = s.regs[r]
        /\ \A l \in Locs : (\A r \in usedRegs \cap ToSet(ParamRegs) : l # reg2stack[r]) => q.mem[l] = s.mem[l]
        /\ \A r \in usedRegs \cap ToSet(ParamRegs) : q.mem[reg2stack[r]] = s.regs[r]
    BY DEF Saved, Near
  <2>2. Safe(Gen!SaveRegs(CallerSaved), q, Saved(q, CallerSaved))
    BY <2>1, RegFacts, SaveRegsSafe
  <2>3. ASSUME NEW u \in Saved(q, CallerSaved) PROVE u \in AllSaved(s)
    <3>1. /\ u \in State /\ u.defined = q.defined /\ \A r \in AllRegs : u.regs[r] = q.regs[r]
          /\ \A l \in Locs : (\A r \in usedRegs \cap ToSet(CallerSaved) : l # reg2stack[r]) => u.mem[l] = q.mem[l]
          /\ \A r \in usedRegs \cap ToSet(CallerSaved) : u.mem[reg2stack[r]] = q.regs[r]
      BY DEF Saved, Near
    <3>2. \A r \in usedRegs : r \in AllRegs /\ reg2stack[r] \in Locs
      BY RegFacts DEF Placement, Locs
    <3>3. ASSUME NEW r \in Clobbered PROVE u.mem[reg2stack[r]] = s.regs[r]
      <4>1. CASE r \in ToSet(CallerSaved)
        BY <2>1, <3>1, <3>2, <4>1 DEF Clobbered
      <4>2. CASE r \in ToSet(ParamRegs)
        <5>1. r \in usedRegs /\ r \notin ToSet(CallerSaved)
          BY <4>2, RegFacts DEF Clobbered
        <5>2. \A k \in usedRegs \cap ToSet(CallerSaved) : reg2stack[r] # reg2stack[k]
          BY <5>1 DEF Placement
        <5> QED BY <2>1, <3>1, <3>2, <4>2, <5>1, <5>2
      <4> QED BY <4>1, <4>2 DEF Clobbered
    <3>4. u \in Near(s, {}, {reg2stack[r] : r \in Clobbered})
      BY <2>1, <3>1 DEF Near, Clobbered
    <3> QED BY <3>3, <3>4 DEF AllSaved
  <2> QED BY <2>2, <2>3, SafeWider
<1> QED BY <1>1, <1>2, SafeThen

\* The arguments reach their registers, from where the variables are or, when
\* that is a param register, from the frame.
LEMMA ArgumentSafe ==
    ASSUME Placement, NEW S, NEW s \in Fine(S), NEW v \in S \cap Gen!Operand, ~Gen!CannotFetch(v),
           NEW areg \in ToSet(ParamRegs), NEW u \in AllSaved(s), NEW q \in Near(u, ToSet(ParamRegs), {})
    PROVE  Safe(Gen!Argument(v, areg), q, {w \in Near(q, {areg}, {}) : Holding(w, areg, v)})
<1> DEFINE Q == {w \in Near(q, {areg}, {}) : Holding(w, areg, v)}
           L == {reg2stack[r] : r \in Clobbered}
<1>1. /\ q \in State /\ areg \in AllRegs /\ q.defined = s.defined
      /\ \A r \in AllRegs \ ToSet(ParamRegs) : q.regs[r] = s.regs[r]
      /\ \A l \in Locs \ L : q.mem[l] = s.mem[l]
      /\ \A r \in Clobbered : q.mem[reg2stack[r]] = s.regs[r]
  <2>1. \A r \in Clobbered : reg2stack[r] \in Locs
    BY DEF Placement, Locs, Clobbered
  <2> QED BY <2>1, RegFacts DEF AllSaved, Near
<1>2. Available(s, v) /\ {} \in Reads /\ \A w : Finds(w, {})
  BY DEF Fine, Reads, Finds
<1>3. Gen!InRegister(v) => v \in Var /\ v \in Name /\ Held(v) /\ HomeOf(s, v) = s.regs[var2reg[v]]
                           /\ var2reg[v] \in usedRegs /\ var2reg[v] \in AllRegs
  BY NameFacts, RegFacts DEF Gen!InRegister, Held, HomeOf, Placement
<1>4. CASE Gen!InRegister(v) /\ Gen!IsParamReg(var2reg[v])
  <2> DEFINE loc == reg2stack[var2reg[v]]
  <2>1. Gen!Argument(v, areg) = <<Gen!Load(areg, loc)>>
    BY <1>4 DEF Gen!Argument
  <2>2. var2reg[v] \in Clobbered /\ loc \in Locs
    BY <1>3, <1>4 DEF Gen!IsParamReg, Gen!ToSet, ToSet, Clobbered, Placement, Locs
  <2>3. Safe(<<Gen!Load(areg, loc)>>, q, {w \in Near(q, {areg}, {}) : w.regs[areg] = q.mem[loc]})
    BY <1>1, <2>2, SafeLoad
  <2>4. q.mem[loc] = s.regs[var2reg[v]]
    BY <1>1, <2>2
  <2>5. {w \in Near(q, {areg}, {}) : w.regs[areg] = q.mem[loc]} \subseteq Q
    BY <1>1, <1>2, <1>3, <1>4, <2>4 DEF Holding, Available, Near
  <2> HIDE DEF Q, loc
  <2>6. Safe(Gen!Argument(v, areg), q, Q)
    BY <2>1, <2>3, <2>5, SafeWider
  <2> QED BY <2>6 DEF Q
<1>5. CASE Gen!InRegister(v) /\ ~Gen!IsParamReg(var2reg[v])
  <2>1. Gen!Argument(v, areg) = <<Gen!Move(areg, var2reg[v], {})>>
    BY <1>5 DEF Gen!Argument
  <2>2. var2reg[v] \in AllRegs \ ToSet(ParamRegs)
    BY <1>3, <1>5 DEF Gen!IsParamReg, Gen!ToSet, ToSet
  <2>3. Safe(<<Gen!Move(areg, var2reg[v], {})>>, q, {w \in Near(q, {areg}, {}) : w.regs[areg] = q.regs[var2reg[v]]})
    BY <1>1, <1>2, <2>2, SafeMove
  <2>4. q.regs[var2reg[v]] = s.regs[var2reg[v]]
    BY <1>1, <2>2
  <2>5. {w \in Near(q, {areg}, {}) : w.regs[areg] = q.regs[var2reg[v]]} \subseteq Q
    BY <1>1, <1>2, <1>3, <1>5, <2>4 DEF Holding, Available, Near
  <2> HIDE DEF Q
  <2>6. Safe(Gen!Argument(v, areg), q, Q)
    BY <2>1, <2>3, <2>5, SafeWider
  <2> QED BY <2>6 DEF Q
<1>6. CASE ~Gen!InRegister(v) /\ v \in {Num, Zero}
  <2>1. Gen!Argument(v, areg) = <<Gen!Calc(areg, v, {})>> /\ v \in Value
    BY <1>6, NameFacts DEF Gen!Argument
  <2>2. Safe(<<Gen!Calc(areg, v, {})>>, q, {w \in Near(q, {areg}, {}) : w.regs[areg] = {v}})
    BY <1>1, <1>2, <2>1, SafeCalc
  <2>3. {w \in Near(q, {areg}, {}) : w.regs[areg] = {v}} \subseteq Q
    BY DEF Holding
  <2> HIDE DEF Q
  <2>4. Safe(Gen!Argument(v, areg), q, Q)
    BY <2>1, <2>2, <2>3, SafeWider
  <2> QED BY <2>4 DEF Q
<1>7. CASE ~Gen!InRegister(v) /\ v \notin {Num, Zero}
  <2>1. Gen!Argument(v, areg) = Gen!Fetch(v, areg) /\ Gen!RegOf(v, areg) = areg
    BY <1>7 DEF Gen!Argument, Gen!RegOf
  <2>2. Held(v) => HomeOf(q, v) = HomeOf(s, v)
    <3> SUFFICES ASSUME Held(v) PROVE q.mem[Gen!Place(v)] = s.mem[Gen!Place(v)]
      BY <1>7 DEF HomeOf
    <3>1. v \in (Var \cup Globals) \ Arrays /\ v \in Name
      BY <1>7, NameFacts DEF Held
    <3>2. Gen!Place(v) \in Locs /\ \A r \in usedRegs : reg2stack[r] # Gen!Place(v)
      BY <1>7, <3>1, HomeType, PlacesApart
    <3>3. Gen!Place(v) \in Locs \ L
      BY <3>2 DEF Clobbered
    <3> QED BY <1>1, <3>3
  <2>3. Available(q, v)
    BY <1>1, <1>2, <1>7, <2>2 DEF Available
  <2>4. Safe(Gen!Fetch(v, areg), q, {w \in Near(q, {areg}, {}) : Holding(w, Gen!RegOf(v, areg), v)})
    BY <1>1, <2>3, FetchSafe
  <2> QED BY <2>1, <2>4
<1> QED BY <1>4, <1>5, <1>6, <1>7

LEMMA ArgumentsSafe ==
    ASSUME Placement, NEW S, NEW s \in Fine(S), NEW args \in Seq(Gen!Operand), Len(args) <= Len(ParamRegs),
           \A i \in 1 .. Len(args) : args[i] \in S /\ ~Gen!CannotFetch(args[i]), NEW u \in AllSaved(s)
    PROVE  Safe(Gen!FlattenSeq([i \in DOMAIN args |-> Gen!Argument(args[i], ParamRegs[i])]), u,
                {q \in Near(u, ToSet(ParamRegs), {}) :
                    \A i \in 1 .. Len(args) : Holding(q, ParamRegs[i], args[i])})
<1> DEFINE n == Len(args)
           cs == [i \in DOMAIN args |-> Gen!Argument(args[i], ParamRegs[i])]
           I == [i \in 0 .. n |->
                    {q \in Near(u, ToSet(ParamRegs), {}) :
                        \A j \in 1 .. i : Holding(q, ParamRegs[j], args[j])}]
<1>1. /\ n \in Nat /\ DOMAIN args = 1 .. n
      /\ \A i \in 1 .. n : i \in 1 .. Len(ParamRegs) /\ args[i] \in S \cap Gen!Operand
                           /\ ~Gen!CannotFetch(args[i])
                           /\ ParamRegs[i] \in ToSet(ParamRegs) /\ ParamRegs[i] \in AllRegs
  <2>1. n \in Nat /\ DOMAIN args = 1 .. n /\ Len(ParamRegs) \in Nat
    BY RegFacts
  <2>2. \A i \in 1 .. n : i \in 1 .. Len(ParamRegs) /\ args[i] \in Gen!Operand
    BY <2>1
  <2>3. \A i \in 1 .. Len(ParamRegs) : ParamRegs[i] \in ToSet(ParamRegs)
    BY RegFacts DEF ToSet
  <2>4. \A r \in ToSet(ParamRegs) : r \in AllRegs
    BY RegFacts
  <2> QED BY <2>1, <2>2, <2>3, <2>4
<1>2. /\ DOMAIN cs = 1 .. n /\ cs = [i \in 1 .. n |-> cs[i]]
      /\ \A i \in 1 .. n : cs[i] = Gen!Argument(args[i], ParamRegs[i])
  BY <1>1
<1>a. u \in State /\ u \in Near(u, ToSet(ParamRegs), {})
  BY NearItself DEF AllSaved, Near
<1>3. \A i \in 1 .. n : cs[i] \in Seq(Instruction)
  BY <1>1, <1>2, <1>a, ArgumentSafe DEF Safe
<1>5. \A i \in 0 .. n : I[i] = {q \in Near(u, ToSet(ParamRegs), {}) :
                        \A j \in 1 .. i : Holding(q, ParamRegs[j], args[j])}
  OBVIOUS
<1>4. Gen!FlattenSeq(cs) = FlattenSeq(cs)
  BY DEF FlattenSeq, Gen!FlattenSeq
<1> HIDE DEF I
<1>6. cs \in Seq(Seq(Instruction)) /\ Len(cs) = n
  <2> HIDE DEF cs
  <2> QED BY <1>1, <1>2, <1>3, CodesType
<1>7. u \in I[0]
  <2>1. 0 \in 0 .. n /\ \A j \in 1 .. 0 : FALSE
    BY <1>1
  <2> QED BY <1>5, <1>a, <2>1
<1>8. ASSUME NEW i \in 1 .. n, NEW q \in I[i - 1] PROVE Safe(cs[i], q, I[i])
  <2> DEFINE r == ParamRegs[i]
             Q == {w \in Near(q, {r}, {}) : Holding(w, r, args[i])}
  <2>1. i - 1 \in 0 .. n /\ i \in 0 .. n /\ r \in ToSet(ParamRegs)
    BY <1>1
  <2>2. q \in Near(u, ToSet(ParamRegs), {}) /\ \A j \in 1 .. i - 1 : Holding(q, ParamRegs[j], args[j])
    BY <1>5, <2>1
  <2>3. Safe(cs[i], q, Q)
    <3> DEFINE v == args[i]
    <3>1. v \in S \cap Gen!Operand /\ ~Gen!CannotFetch(v) /\ cs[i] = Gen!Argument(v, r)
      BY <1>1, <1>2
    <3> HIDE DEF v, r, cs
    <3>2. Safe(Gen!Argument(v, r), q, {w \in Near(q, {r}, {}) : Holding(w, r, v)})
      BY <2>1, <2>2, <3>1, ArgumentSafe
    <3> QED BY <3>1, <3>2 DEF v
  <2>4. ASSUME NEW w \in Q PROVE w \in I[i]
    <3>1. w \in Near(u, ToSet(ParamRegs) \cup {r}, {} \cup {})
      BY <2>2, NearNear
    <3>2. w \in Near(u, ToSet(ParamRegs), {})
      BY <2>1, <3>1, NearWider
    <3>3. ASSUME NEW j \in 1 .. i PROVE Holding(w, ParamRegs[j], args[j])
      <4>1. CASE j = i
        BY <4>1
      <4>2. CASE j # i
        <5>1. j \in 1 .. i - 1 /\ j \in 1 .. n
          BY <1>1, <4>2
        <5>2. ParamRegs[j] \in AllRegs \ {r}
          BY <1>1, <4>2, <5>1, RegFacts
        <5>3. w.regs[ParamRegs[j]] = q.regs[ParamRegs[j]] /\ w.defined = q.defined
          BY <5>2 DEF Near
        <5> QED BY <2>2, <5>1, <5>3 DEF Holding
      <4> QED BY <4>1, <4>2
    <3> QED BY <1>5, <2>1, <3>2, <3>3
  <2> HIDE DEF Q, r
  <2> QED BY <2>3, <2>4, SafeWider
<1> HIDE DEF cs
<1>9. Safe(FlattenSeq(cs), u, I[n])
  BY <1>6, <1>7, <1>8, <1>a, SafeLoop
<1>10. n \in 0 .. n
  BY <1>1
<1>11. Safe(Gen!FlattenSeq(cs), u, {q \in Near(u, ToSet(ParamRegs), {}) :
                        \A j \in 1 .. n : Holding(q, ParamRegs[j], args[j])})
  BY <1>4, <1>5, <1>9, <1>10
<1> QED BY <1>11 DEF cs


\* When the callee has returned: what it saves or cannot reach is as it was,
\* but for the globals, which only memory knows now; so are the saved copies
\* of what it may have overwritten.
Called(s) ==
    {q \in State :
        /\ q.defined = s.defined /\ q.regs[ParamRegs[1]] = {Result}
        /\ \A r \in ToSet(CalleeSaved) \cup {x0} : q.regs[r] = s.regs[r] \ Globals
        /\ \A r \in Clobbered : q.mem[reg2stack[r]] = s.regs[r] \ Globals
        /\ \A l \in Globals : q.mem[l] = s.mem[l]
        /\ \A l \in Locs \ Globals :
            (\A r \in Clobbered : l # reg2stack[r]) => q.mem[l] = s.mem[l] \ Globals}

LEMMA CalledSafe ==
    ASSUME Placement, NEW S, NEW s \in Fine(S), NEW args \in Seq(Gen!Operand), Len(args) <= Len(ParamRegs),
           \A i \in 1 .. Len(args) : args[i] \in S /\ ~Gen!CannotFetch(args[i]), Globals \subseteq S
    PROVE  Safe(Gen!SaveRegs(ParamRegs) \o Gen!SaveRegs(CallerSaved)
                  \o Gen!FlattenSeq([i \in DOMAIN args |-> Gen!Argument(args[i], ParamRegs[i])])
                  \o <<Gen!Call({<<ParamRegs[i], args[i]>> : i \in DOMAIN args})>>, s, Called(s))
<1> DEFINE save == Gen!SaveRegs(ParamRegs) \o Gen!SaveRegs(CallerSaved)
           pass == Gen!FlattenSeq([i \in DOMAIN args |-> Gen!Argument(args[i], ParamRegs[i])])
           reads == {<<ParamRegs[i], args[i]>> : i \in DOMAIN args}
           P(u) == {q \in Near(u, ToSet(ParamRegs), {}) :
                        \A i \in 1 .. Len(args) : Holding(q, ParamRegs[i], args[i])}
           M == {q \in State :
                    /\ q.defined = s.defined /\ Finds(q, reads) /\ GlobalsThere(q)
                    /\ \A r \in ToSet(CalleeSaved) \cup {x0} : q.regs[r] = s.regs[r]
                    /\ \A r \in Clobbered : q.mem[reg2stack[r]] = s.regs[r]
                    /\ \A l \in Locs : (\A r \in Clobbered : l # reg2stack[r]) => q.mem[l] = s.mem[l]}
<1>1. s \in State /\ GlobalsThere(s)
  BY FineGlobals DEF Fine
<1>2. Safe(save, s, AllSaved(s))
  BY <1>1, SaveAllSafe
<1>3. /\ DOMAIN args = 1 .. Len(args)
      /\ \A i \in 1 .. Len(args) : ParamRegs[i] \in AllRegs /\ args[i] \in Value
  <2>1. Len(args) \in Nat /\ DOMAIN args = 1 .. Len(args) /\ Len(ParamRegs) \in Nat
    BY RegFacts
  <2>2. \A i \in 1 .. Len(args) : i \in 1 .. Len(ParamRegs) /\ args[i] \in Gen!Operand
    BY <2>1
  <2>3. \A i \in 1 .. Len(ParamRegs) : ParamRegs[i] \in AllRegs
    BY RegFacts
  <2> QED BY <2>1, <2>2, <2>3, NameFacts
<1>4. reads \in Reads
  BY <1>3 DEF Reads
<1>5. \A r \in Clobbered : r \in AllRegs /\ reg2stack[r] \in Locs /\ reg2stack[r] \notin Globals
  BY RegFacts, NameFacts DEF Placement, Locs, Clobbered
<1>6. \A l \in Globals : l \in Locs
  BY DEF Locs
<1>7. ASSUME NEW u \in AllSaved(s) PROVE Safe(pass, u, M)
  <2>1. Safe(pass, u, P(u))
    BY ArgumentsSafe
  <2>2. ASSUME NEW q \in P(u) PROVE q \in M
    <3>1. /\ u.defined = s.defined /\ \A r \in AllRegs : u.regs[r] = s.regs[r]
          /\ \A l \in Locs : (\A r \in Clobbered : l # reg2stack[r]) => u.mem[l] = s.mem[l]
          /\ \A r \in Clobbered : u.mem[reg2stack[r]] = s.regs[r]
      BY DEF AllSaved, Near
    <3>2. /\ q \in State /\ q.defined = u.defined /\ \A l \in Locs : q.mem[l] = u.mem[l]
          /\ \A r \in AllRegs \ ToSet(ParamRegs) : q.regs[r] = u.regs[r]
      BY DEF Near
    <3>3. \A r \in ToSet(CalleeSaved) \cup {x0} : r \in AllRegs \ ToSet(ParamRegs)
      BY RegFacts
    <3>4. Finds(q, reads)
      BY <1>3 DEF Finds
    <3>5. GlobalsThere(q)
      <4>1. \A g \in Globals : q.mem[g] = s.mem[g]
        BY <1>5, <1>6, <3>1, <3>2
      <4> QED BY <1>1, <3>1, <3>2, <4>1 DEF GlobalsThere
    <3> QED BY <1>5, <3>1, <3>2, <3>3, <3>4, <3>5
  <2> HIDE DEF M, P, pass
  <2> QED BY <2>1, <2>2, SafeWider
<1>8. ASSUME NEW q \in M PROVE Safe(<<Gen!Call(reads)>>, q, Called(s))
  <2>1. Safe(<<Gen!Call(reads)>>, q, AfterCall(q))
    BY <1>4, SafeCall
  <2>2. ASSUME NEW u \in AfterCall(q) PROVE u \in Called(s)
    <3>1. /\ u \in State /\ u.defined = q.defined /\ u.regs[ParamRegs[1]] = {Result}
          /\ \A r \in ToSet(CalleeSaved) \cup {x0} : r # ParamRegs[1] => u.regs[r] = q.regs[r] \ Globals
          /\ \A l \in Locs : u.mem[l] = IF l \in Globals THEN q.mem[l] ELSE q.mem[l] \ Globals
      BY DEF AfterCall
    <3>2. \A r \in ToSet(CalleeSaved) \cup {x0} : r # ParamRegs[1]
      <4>1. ParamRegs[1] \in ToSet(ParamRegs) /\ ParamRegs[1] \in Scan!Reg
        BY RegFacts DEF ToSet
      <4> QED BY <4>1, RegFacts
    <3>3. q.defined = s.defined /\ \A r \in ToSet(CalleeSaved) \cup {x0} : q.regs[r] = s.regs[r]
      OBVIOUS
    <3>4. /\ \A r \in Clobbered : q.mem[reg2stack[r]] = s.regs[r]
          /\ \A l \in Locs : (\A r \in Clobbered : l # reg2stack[r]) => q.mem[l] = s.mem[l]
      OBVIOUS
    <3> HIDE DEF M
    <3>5. \A r \in Clobbered : u.mem[reg2stack[r]] = s.regs[r] \ Globals
      <4> TAKE r \in Clobbered
      <4>1. u.mem[reg2stack[r]] = q.mem[reg2stack[r]] \ Globals
        BY <1>5, <3>1
      <4> QED BY <3>4, <4>1
    <3>6. \A l \in Globals : u.mem[l] = s.mem[l]
      BY <1>5, <1>6, <3>1, <3>4
    <3>7. \A l \in Locs \ Globals : (\A r \in Clobbered : l # reg2stack[r]) => u.mem[l] = s.mem[l] \ Globals
      BY <3>1, <3>4
    <3> QED BY <3>1, <3>2, <3>3, <3>5, <3>6, <3>7 DEF Called
  <2> QED BY <2>1, <2>2, SafeWider
<1> HIDE DEF save, pass, reads, M
<1>9. Safe(save \o pass, s, M)
  BY <1>2, <1>7, SafeThen
<1>10. Safe((save \o pass) \o <<Gen!Call(reads)>>, s, Called(s))
  BY <1>8, <1>9, SafeThen
<1> QED BY <1>10 DEF save, pass, reads

\* All that was there before the call is there again.
Back(s) ==
    {q \in State :
        /\ q.defined = s.defined
        /\ \A r \in usedRegs \cup ToSet(CalleeSaved) \cup {x0} : q.regs[r] = s.regs[r] \ Globals
        /\ \A l \in Globals : q.mem[l] = s.mem[l]
        /\ \A l \in Locs \ Globals :
            (\A r \in Clobbered : l # reg2stack[r]) => q.mem[l] = s.mem[l] \ Globals}

LEMMA BackIsFine ==
    ASSUME Placement, NEW S, NEW s \in Fine(S), NEW q \in Back(s)
    PROVE  q \in Fine(S)
<1>1. /\ q \in State /\ q.defined = s.defined
      /\ \A r \in usedRegs \cup ToSet(CalleeSaved) \cup {x0} : q.regs[r] = s.regs[r] \ Globals
      /\ \A l \in Globals : q.mem[l] = s.mem[l]
      /\ \A l \in Locs \ Globals : (\A r \in Clobbered : l # reg2stack[r]) => q.mem[l] = s.mem[l] \ Globals
  BY DEF Back
<1>2. Zero \in q.regs[x0]
  BY <1>1, NameFacts DEF Fine, Kept
<1>3. ASSUME NEW v \in S PROVE Available(q, v)
  <2>1. Available(s, v)
    BY DEF Fine
  <2>2. ASSUME Held(v), v \in HomeOf(s, v) PROVE v \in HomeOf(q, v)
    <3>1. v \in Name /\ v \in Var \cup Globals
      BY <2>2, NameFacts DEF Held
    <3>2. CASE Gen!InRegister(v)
      <4>1. v \in Var /\ v \notin Globals /\ var2reg[v] \in usedRegs
        BY <3>2, NameFacts DEF Gen!InRegister, Placement
      <4> QED BY <1>1, <2>2, <3>2, <4>1 DEF HomeOf
    <3>3. CASE ~Gen!InRegister(v) /\ v \in Globals
      BY <1>1, <2>2, <3>3 DEF HomeOf, Gen!Place
    <3>4. CASE ~Gen!InRegister(v) /\ v \notin Globals
      <4>1. v \in (Var \cup Globals) \ Arrays
        BY <2>2, <3>1, <3>4 DEF Held
      <4>2. Gen!Place(v) \in Locs /\ \A r \in Clobbered : Gen!Place(v) # reg2stack[r]
        BY <3>1, <3>4, <4>1, HomeType, PlacesApart DEF Clobbered
      <4>3. Gen!Place(v) \notin Globals
        <5>1. Gen!Place(v) \in Int
          BY <3>1, <3>4 DEF Gen!Place, Placement
        <5> QED BY <5>1, NameFacts
      <4> QED BY <1>1, <2>2, <3>4, <4>2, <4>3 DEF HomeOf
    <3> QED BY <3>2, <3>3, <3>4
  <2> QED BY <1>1, <1>2, <2>1, <2>2 DEF Available
<1>4. ASSUME NEW r \in ToSet(CalleeSaved)
      PROVE  r \in (IF r \in usedRegs THEN q.mem[reg2stack[r]] ELSE q.regs[r])
  <2>1. /\ r \notin Globals /\ r \notin Clobbered
        /\ r \in (IF r \in usedRegs THEN s.mem[reg2stack[r]] ELSE s.regs[r])
    BY RegFacts, NameFacts DEF Clobbered, Fine, Kept
  <2>2. r \in usedRegs => /\ reg2stack[r] \in Locs \ Globals
                          /\ \A k \in Clobbered : reg2stack[r] # reg2stack[k]
    BY <2>1, NameFacts DEF Placement, Locs, Clobbered
  <2> QED BY <1>1, <2>1, <2>2
<1> QED BY <1>1, <1>2, <1>3, <1>4 DEF Fine, Kept


\* The code from the call on: a0 is moved out of the way when the restored
\* param registers need it.
LEMMA CallSafe ==
    ASSUME Placement, NEW S, NEW s \in Fine(S), NEW args \in Seq(Gen!Operand), Len(args) <= Len(ParamRegs),
           \A i \in 1 .. Len(args) : args[i] \in S /\ ~Gen!CannotFetch(args[i]), Globals \subseteq S,
           NEW lhs, NEW Q,
           lhs = None => Fine(S) \subseteq Q,
           lhs # None => \E T : /\ lhs \in Assignable /\ Clear(lhs, T)
                                /\ T \ {lhs} \subseteq S /\ Delivered(lhs, Result, T) \subseteq Q
    PROVE  Safe(Gen!CallCode(args, lhs), s, Q)
<1> DEFINE a0 == ParamRegs[1]
           pre == Gen!SaveRegs(ParamRegs) \o Gen!SaveRegs(CallerSaved)
                  \o Gen!FlattenSeq([i \in DOMAIN args |-> Gen!Argument(args[i], ParamRegs[i])])
                  \o <<Gen!Call({<<ParamRegs[i], args[i]>> : i \in DOMAIN args})>>
           retVal == IF a0 \in usedRegs THEN s1 ELSE a0
           move == IF lhs # None /\ a0 \in usedRegs THEN <<Gen!Move(s1, a0, {})>> ELSE << >>
           final == IF lhs = None THEN << >>
                    ELSE IF Gen!InRegister(lhs) THEN <<Gen!Move(var2reg[lhs], retVal, {})>>
                    ELSE Gen!StoreIntoStack(retVal, lhs)
           \* restore_regs, first part, with the move, second part
           Same(q) ==
                /\ q \in State /\ q.defined = s.defined
                /\ \A r \in ToSet(CalleeSaved) \cup {x0} : q.regs[r] = s.regs[r] \ Globals
                /\ \A l \in Globals : q.mem[l] = s.mem[l]
                /\ \A l \in Locs \ Globals :
                    (\A r \in Clobbered : l # reg2stack[r]) => q.mem[l] = s.mem[l] \ Globals
           Half(q) ==
                /\ \A r \in usedRegs \cap ToSet(CallerSaved) : q.regs[r] = s.regs[r] \ Globals
                /\ \A r \in usedRegs \cap ToSet(ParamRegs) : q.mem[reg2stack[r]] = s.regs[r] \ Globals
           P1 == {q \in State : Same(q) /\ Half(q) /\ q.regs[a0] = {Result}}
           P2 == {q \in State : Same(q) /\ Half(q) /\ (lhs # None => q.regs[retVal] = {Result})}
           P3 == {q \in State : q \in Back(s) /\ (lhs # None => q.regs[retVal] = {Result})}
<1>1. Gen!CallCode(args, lhs)
        = (((pre \o Gen!RestoreRegs(CallerSaved)) \o move) \o Gen!RestoreRegs(ParamRegs)) \o final
  BY DEF Gen!CallCode
<1>2. Safe(pre, s, Called(s))
  BY CalledSafe
<1>3. /\ a0 \in ToSet(ParamRegs) /\ a0 \in AllRegs /\ a0 # s1 /\ a0 # x0 /\ s1 \in AllRegs /\ a0 # s2
      /\ a0 \notin ToSet(CallerSaved) /\ a0 \notin ToSet(CalleeSaved)
      /\ \A r \in Scan!Reg : r \in AllRegs /\ r # s1
      /\ \A r \in usedRegs : r \in Scan!Reg /\ reg2stack[r] \in Locs
  <2>1. a0 \in ToSet(ParamRegs) /\ a0 \in Scan!Reg
    BY RegFacts DEF ToSet
  <2> QED BY <2>1, RegFacts DEF Placement, Locs
<1>4. \A r \in ToSet(CalleeSaved) \cup {x0} : r \in AllRegs /\ r # s1 /\ r # a0
                                              /\ r \notin ToSet(CallerSaved) /\ r \notin ToSet(ParamRegs)
  BY <1>3, RegFacts
<1>5. \A l \in Globals : l \in Locs
  BY DEF Locs
<1> HIDE DEF a0
<1>6. ASSUME NEW q \in Called(s) PROVE Safe(Gen!RestoreRegs(CallerSaved), q, P1)
  <2>1. /\ Same(q) /\ q.regs[a0] = {Result}
        /\ \A r \in Clobbered : q.mem[reg2stack[r]] = s.regs[r] \ Globals
    BY DEF Called, a0
  <2>2. Safe(Gen!RestoreRegs(CallerSaved), q, Restored(q, CallerSaved))
    BY <2>1, RegFacts, RestoreRegsSafe
  <2>3. ASSUME NEW u \in Restored(q, CallerSaved) PROVE u \in P1
    <3>1. /\ u \in State /\ u.defined = q.defined /\ \A l \in Locs : u.mem[l] = q.mem[l]
          /\ \A r \in AllRegs : r \notin ToSet(CallerSaved) => u.regs[r] = q.regs[r]
          /\ \A r \in usedRegs \cap ToSet(CallerSaved) : u.regs[r] = q.mem[reg2stack[r]]
      BY DEF Restored, Near
    <3>2. Same(u)
      BY <1>4, <1>5, <2>1, <3>1
    <3>3. Half(u)
      BY <1>3, <2>1, <3>1 DEF Clobbered
    <3> QED BY <1>3, <2>1, <3>1, <3>2, <3>3
  <2> HIDE DEF P1
  <2> QED BY <2>2, <2>3, SafeWider
<1>7. ASSUME NEW q \in P1 PROVE Safe(move, q, P2)
  <2>1. CASE lhs # None /\ a0 \in usedRegs
    <3>1. move = <<Gen!Move(s1, a0, {})>> /\ retVal = s1 /\ {} \in Reads /\ Finds(q, {})
      BY <2>1 DEF Reads, Finds
    <3>2. Safe(<<Gen!Move(s1, a0, {})>>, q, {u \in Near(q, {s1}, {}) : u.regs[s1] = q.regs[a0]})
      BY <1>3, <3>1, SafeMove
    <3>3. ASSUME NEW u \in Near(q, {s1}, {}), u.regs[s1] = q.regs[a0] PROVE u \in P2
      <4>1. /\ u \in State /\ u.defined = q.defined /\ \A l \in Locs : u.mem[l] = q.mem[l]
            /\ \A r \in AllRegs : r # s1 => u.regs[r] = q.regs[r]
        BY DEF Near
      <4>2. Same(u)
        BY <1>4, <1>5, <4>1
      <4>3. Half(u)
        BY <1>3, <4>1
      <4> QED BY <3>1, <3>3, <4>1, <4>2, <4>3
    <3> HIDE DEF P2, move
    <3>4. {u \in Near(q, {s1}, {}) : u.regs[s1] = q.regs[a0]} \subseteq P2
      BY <3>3
    <3>5. Safe(<<Gen!Move(s1, a0, {})>>, q, P2)
      BY <3>2, <3>4, SafeWider
    <3> QED BY <3>1, <3>5
  <2>2. CASE lhs = None \/ a0 \notin usedRegs
    <3>1. move = << >> /\ q \in P2
      BY <2>2
    <3> HIDE DEF P2, move
    <3> QED BY <3>1, SafeNothing
  <2> QED BY <2>1, <2>2
<1>8. ASSUME NEW q \in P2 PROVE Safe(Gen!RestoreRegs(ParamRegs), q, P3)
  <2>1. Safe(Gen!RestoreRegs(ParamRegs), q, Restored(q, ParamRegs))
    BY RegFacts, RestoreRegsSafe
  <2>2. ASSUME NEW u \in Restored(q, ParamRegs) PROVE u \in P3
    <3>1. /\ u \in State /\ u.defined = q.defined /\ \A l \in Locs : u.mem[l] = q.mem[l]
          /\ \A r \in AllRegs : r \notin usedRegs \cap ToSet(ParamRegs) => u.regs[r] = q.regs[r]
          /\ \A r \in usedRegs \cap ToSet(ParamRegs) : u.regs[r] = q.mem[reg2stack[r]]
      BY DEF Restored, Near
    <3>2. Same(u)
      BY <1>4, <1>5, <3>1
    <3>3. ASSUME NEW r \in usedRegs PROVE u.regs[r] = s.regs[r] \ Globals
      <4>1. r \in Scan!Reg /\ r \in AllRegs
        BY <1>3
      <4>2. CASE r \in ToSet(ParamRegs)
        BY <3>1, <3>3, <4>2
      <4>3. CASE r \notin ToSet(ParamRegs) /\ r \in ToSet(CallerSaved)
        BY <3>1, <3>3, <4>1, <4>3
      <4>4. CASE r \in ToSet(CalleeSaved)
        BY <3>2, <4>4
      <4> QED BY <4>1, <4>2, <4>3, <4>4, RegFacts
    <3>4. u.regs[retVal] = q.regs[retVal]
      <4>1. s1 \notin usedRegs
        BY <1>3
      <4> QED BY <1>3, <3>1, <4>1
    <3>5. u \in Back(s)
      BY <3>2, <3>3 DEF Back
    <3> QED BY <3>1, <3>4, <3>5
  <2> HIDE DEF P3
  <2> QED BY <2>1, <2>2, SafeWider
<1>9. ASSUME NEW q \in P3 PROVE Safe(final, q, Q)
  <2>1. q \in Fine(S) /\ q \in State
    BY BackIsFine
  <2>2. CASE lhs = None
    <3>1. final = << >> /\ q \in Q
      BY <2>1, <2>2
    <3> HIDE DEF final
    <3> QED BY <2>1, <3>1, SafeNothing
  <2>3. CASE lhs # None
    <3>1. PICK T : /\ lhs \in Assignable /\ Clear(lhs, T)
                   /\ T \ {lhs} \subseteq S /\ Delivered(lhs, Result, T) \subseteq Q
      BY <2>3
    <3>2. q \in Fine(T \ {lhs})
      BY <2>1, <3>1, FineFewer
    <3>3. q.regs[retVal] = {Result} /\ retVal \in AllRegs /\ retVal # s2
      BY <1>3, <2>3, RegFacts
    <3>4. CASE Gen!InRegister(lhs)
      <4> DEFINE reg == var2reg[lhs]
      <4>1. final = <<Gen!Move(reg, retVal, {})>> /\ reg \in AllRegs /\ {} \in Reads /\ Finds(q, {})
        BY <1>3, <2>3, <3>4 DEF Placement, Gen!InRegister, Reads, Finds
      <4>2. Gen!Target(lhs) = reg
        BY <3>4 DEF Gen!Target
      <4> HIDE DEF reg, retVal
      <4>3. Safe(<<Gen!Move(reg, retVal, {})>>, q, {u \in Near(q, {reg}, {}) : u.regs[reg] = q.regs[retVal]})
        BY <2>1, <3>3, <4>1, SafeMove
      <4>4. ASSUME NEW u \in Near(q, {reg}, {}), u.regs[reg] = q.regs[retVal] PROVE u \in Q
        <5>1. u \in Near(q, {s1, s2, reg}, {})
          BY NearWider
        <5>2. u \in Fine(T \ {lhs})
          BY <3>1, <3>2, <4>2, <5>1, TargetFine
        <5>3. u \in Delivered(lhs, Result, T)
          BY <3>3, <3>4, <4>4, <5>2 DEF Delivered, HomeOf, reg
        <5> QED BY <3>1, <5>3
      <4> HIDE DEF final
      <4> QED BY <4>1, <4>3, <4>4, SafeWider
    <3>5. CASE ~Gen!InRegister(lhs)
      <4>1. final = Gen!StoreIntoStack(retVal, lhs) /\ Holding(q, retVal, Result)
        BY <2>3, <3>3, <3>5 DEF Holding
      <4> HIDE DEF final, retVal
      <4>2. Safe(final, q, Delivered(lhs, Result, T))
        BY <3>1, <3>2, <3>3, <3>5, <4>1, DeliverSafe
      <4> QED BY <3>1, <4>2, SafeWider
    <3> QED BY <3>4, <3>5
  <2> QED BY <2>2, <2>3
<1> HIDE DEF pre, move, final, P1, P2, P3
<1>10. Safe(pre \o Gen!RestoreRegs(CallerSaved), s, P1)
  BY <1>2, <1>6, SafeThen
<1>11. Safe((pre \o Gen!RestoreRegs(CallerSaved)) \o move, s, P2)
  BY <1>7, <1>10, SafeThen
<1>12. Safe(((pre \o Gen!RestoreRegs(CallerSaved)) \o move) \o Gen!RestoreRegs(ParamRegs), s, P3)
  BY <1>8, <1>11, SafeThen
<1>13. Safe((((pre \o Gen!RestoreRegs(CallerSaved)) \o move) \o Gen!RestoreRegs(ParamRegs)) \o final, s, Q)
  BY <1>9, <1>12, SafeThen
<1> QED BY <1>1, <1>13


-----------------------------------------------------------------------------
\* The statements of the program.
LEMMA FineConstants == \A S : \A s \in Fine(S) : s \in Fine(S \cup {Num, Zero})
<1> SUFFICES ASSUME NEW S, NEW s \in Fine(S), NEW v \in {Num, Zero} PROVE Available(s, v)
  BY DEF Fine
<1>1. v \notin s.defined /\ Num # Zero /\ Zero \in s.regs[x0]
  BY NameFacts DEF Fine, State, Kept
<1> QED BY <1>1 DEF Available

\* What a statement reads is there when it is reached.
Before(n) == liveIn[n] \cup Globals \cup {Num, Zero}

LEMMA Operands ==
    ASSUME program \in Programs, Solution, ~Gen!CompilerFails, NEW n \in Stmt,
           ~Gen!IsUseless(n) \/ program[n].op = "call", NEW v \in Gen!Fetched(program[n])
    PROVE  \/ v \in Gen!Operand /\ ~Gen!CannotFetch(v) /\ v \in Before(n)
           \/ program[n].op = "ret" /\ v = None
<1>1. n \in DOMAIN program
  BY ProgramAssumption DEF IsProgram
<1>2. ~Gen!CannotFetch(v)
  BY <1>1 DEF Gen!CompilerFails
<1>3. v \in Gen!Operand \/ (program[n].op = "ret" /\ v = None)
  BY DefFacts DEF Gen!IsStatement
<1>4. v \in Name => v \in liveIn[n]
  BY DefFacts DEF Solution
<1> QED BY <1>2, <1>3, <1>4, NameFacts DEF Before

\* After it, what is live then is where it belongs.
Goal(n) == Fine(liveOut[n] \cup Globals)

LEMMA BodySafe ==
    ASSUME Placement, program \in Programs, Solution, DefsApart, ~Gen!CompilerFails, NEW n \in Stmt,
           ~Gen!IsUseless(n), Gen!Assigns(program[n]), NEW s \in Fine(Before(n))
    PROVE  LET st == program[n]
           IN  Safe(Gen!Body(st), s,
                    Delivered(st.lhs, IF st.op = "copy" THEN st.a ELSE Result, liveOut[n] \cup Globals))
<1> DEFINE st == program[n]
           lhs == st.lhs
           S == Before(n)
           T == liveOut[n] \cup Globals
<1>1. /\ Gen!IsStatement(st) /\ lhs \in Assignable /\ Def(st) = {lhs}
      /\ st.op \in {"num", "copy", "op1", "op2", "load", "call"} /\ (st.op = "call" => lhs # None)
  BY DefFacts DEF Assignable, Gen!Assigns
<1>2. Clear(lhs, T)
  BY <1>1, NameFacts DEF DefsApart, Clear
<1>3. T \ {lhs} \subseteq S /\ Globals \subseteq S
  BY <1>1 DEF Solution, Before
<1>4. s \in Fine(T \ {lhs})
  BY <1>3, FineFewer
<1>5. \A v \in Gen!Fetched(st) : v \in Gen!Operand /\ ~Gen!CannotFetch(v) /\ v \in S
  BY <1>1, Operands
<1>6. CASE st.op = "num"
  <2>1. Gen!Body(st) = Gen!Assign(lhs, {}) /\ {} \in Reads /\ Finds(s, {})
    BY <1>6 DEF Gen!Body, Reads, Finds
  <2> HIDE DEF lhs, T, S
  <2>2. Safe(Gen!Body(st), s, Delivered(lhs, Result, T))
    BY <1>1, <1>2, <1>4, <2>1, AssignSafe
  <2> QED BY <1>6, <2>2 DEF lhs, T
<1>7. CASE st.op = "copy"
  <2>1. Gen!Body(st) = Gen!CopyCode(st) /\ st.a \in Gen!Fetched(st)
    BY <1>7 DEF Gen!Body, Gen!Fetched
  <2>2. s \in Fine({st.a} \cup (T \ {lhs}))
    <3>1. {st.a} \cup (T \ {lhs}) \subseteq S
      BY <1>3, <1>5, <2>1
    <3> QED BY <3>1, FineFewer
  <2> HIDE DEF st, S, T
  <2>3. Safe(Gen!CopyCode(st), s, Delivered(st.lhs, st.a, T))
    BY <1>1, <1>2, <1>5, <2>1, <2>2, CopySafe
  <2> QED BY <1>7, <2>1, <2>3 DEF st, T
<1>8. CASE st.op \in {"op1", "op2"}
  <2>1. /\ Gen!Body(st) = Gen!OpCode(st) /\ st.a \in Gen!Fetched(st)
        /\ st.op = "op2" => st.b \in Gen!Fetched(st)
    BY <1>8 DEF Gen!Body, Gen!Fetched
  <2> HIDE DEF st, S, T
  <2>2. Safe(Gen!OpCode(st), s, Delivered(st.lhs, Result, T))
    BY <1>1, <1>2, <1>3, <1>5, <1>8, <2>1, OpSafe DEF S
  <2> QED BY <1>8, <2>1, <2>2 DEF st, T
<1>9. CASE st.op = "load"
  <2>1. Gen!Body(st) = Gen!LoadCode(st) /\ st.a \in Gen!Fetched(st) /\ st.arr \in Gen!Fetched(st)
    BY <1>9 DEF Gen!Body, Gen!Fetched
  <2> HIDE DEF st, S, T
  <2>2. Safe(Gen!LoadCode(st), s, Delivered(st.lhs, Result, T))
    BY <1>1, <1>2, <1>3, <1>5, <2>1, LoadSafe DEF S
  <2> QED BY <1>9, <2>1, <2>2 DEF st, T
<1>10. CASE st.op = "call"
  <2>1. /\ Gen!Body(st) = Gen!CallCode(st.args, st.lhs)
        /\ st.args \in Seq(Gen!Operand) /\ Len(st.args) <= Len(ParamRegs)
    BY <1>1, <1>10 DEF Gen!Body, Gen!IsStatement
  <2>2. \A i \in 1 .. Len(st.args) : st.args[i] \in Gen!Fetched(st)
    BY <1>10, <2>1 DEF Gen!Fetched, Gen!ToSet
  <2>3. \A i \in 1 .. Len(st.args) : st.args[i] \in S /\ ~Gen!CannotFetch(st.args[i])
    BY <1>5, <2>2
  <2> HIDE DEF st, S, T
  <2>4. Safe(Gen!CallCode(st.args, st.lhs), s, Delivered(st.lhs, Result, T))
    BY <1>1, <1>2, <1>3, <1>10, <2>1, <2>3, CallSafe DEF S
  <2> QED BY <1>10, <2>1, <2>4 DEF st, T
<1> QED BY <1>1, <1>6, <1>7, <1>8, <1>9, <1>10

LEMMA OtherBodySafe ==
    ASSUME Placement, program \in Programs, Solution, ~Gen!CompilerFails, NEW n \in Stmt,
           ~Gen!Assigns(program[n]), NEW s \in Fine(Before(n))
    PROVE  Safe(Gen!Body(program[n]), s, Goal(n))
<1> DEFINE st == program[n]
           S == Before(n)
<1>1. /\ Gen!IsStatement(st) /\ Def(st) = {} /\ ~Gen!IsUseless(n)
      /\ st.op \in {"store", "call", "if", "goto", "ret"} /\ (st.op = "call" => st.lhs = None)
  BY DefFacts DEF Gen!Assigns, Gen!IsStatement, Gen!IsUseless
<1>2. liveOut[n] \cup Globals \subseteq S /\ Globals \subseteq S
  BY <1>1 DEF Solution, Before
<1>3. Fine(S) \subseteq Goal(n) /\ s \in Fine(S)
  BY <1>2, FineFewer DEF Goal
<1>4. \A v \in Gen!Fetched(st) : \/ v \in Gen!Operand /\ ~Gen!CannotFetch(v) /\ v \in S
                                 \/ st.op = "ret" /\ v = None
  BY <1>1, Operands
<1>5. CASE st.op = "store"
  <2>1. Gen!Body(st) = Gen!StoreCode(st) /\ {st.arr, st.a, st.b} \subseteq Gen!Fetched(st)
    BY <1>5 DEF Gen!Body, Gen!Fetched
  <2> HIDE DEF st, S
  <2>2. Safe(Gen!StoreCode(st), s, Fine(S))
    BY <1>3, <1>4, <1>5, <2>1, StoreElementSafe
  <2> QED BY <1>3, <2>1, <2>2, SafeWider DEF st
<1>6. CASE st.op = "if"
  <2>1. Gen!Body(st) = Gen!IfCode(st) /\ st.a \in Gen!Fetched(st)
    BY <1>6 DEF Gen!Body, Gen!Fetched
  <2> HIDE DEF st, S
  <2>2. Safe(Gen!IfCode(st), s, Fine(S))
    BY <1>3, <1>4, <1>6, <2>1, IfSafe
  <2> QED BY <1>3, <2>1, <2>2, SafeWider DEF st
<1>7. CASE st.op = "goto"
  <2>1. Gen!Body(st) = << >> /\ s \in State
    BY <1>7 DEF Gen!Body, Fine
  <2> QED BY <1>3, <2>1, SafeNothing
<1>8. CASE st.op = "call"
  <2>1. /\ Gen!Body(st) = Gen!CallCode(st.args, None)
        /\ st.args \in Seq(Gen!Operand) /\ Len(st.args) <= Len(ParamRegs)
    BY <1>1, <1>8 DEF Gen!Body, Gen!CallStatement, Gen!IsStatement
  <2>2. \A i \in 1 .. Len(st.args) : st.args[i] \in Gen!Fetched(st)
    BY <1>8, <2>1 DEF Gen!Fetched, Gen!ToSet
  <2>3. \A i \in 1 .. Len(st.args) : st.args[i] \in S /\ ~Gen!CannotFetch(st.args[i])
    BY <1>4, <1>8, <2>2
  <2> DEFINE Q == Goal(n)
  <2> HIDE DEF st, S, Q
  <2>4. Fine(S) \subseteq Q
    BY <1>3 DEF Q
  <2>5. Safe(Gen!CallCode(st.args, None), s, Q)
    BY <1>2, <1>3, <2>1, <2>3, <2>4, CallSafe
  <2> QED BY <2>1, <2>5 DEF st, Q
<1>9. CASE st.op = "ret"
  <2>1. Gen!Body(st) = Gen!ReturnCode(st.a) /\ st.a \in Gen!Fetched(st)
    BY <1>9 DEF Gen!Body, Gen!Fetched
  <2>2. liveOut[n] = {}
    BY <1>9 DEF Solution, Succs
  <2>3. Goal(n) = Fine(Globals)
    BY <2>2 DEF Goal
  <2> HIDE DEF st, S
  <2>4. Safe(Gen!ReturnCode(st.a), s, Fine(Globals))
    BY <1>2, <1>3, <1>4, <2>1, ReturnSafe
  <2> QED BY <2>1, <2>3, <2>4 DEF st
<1> QED BY <1>1, <1>5, <1>6, <1>7, <1>8, <1>9

\* compile_eeyore_stmt, whatever the statement.
LEMMA StatementSafe ==
    ASSUME BInv, stage # "liveness", Placement, Solution, DefsApart, ~Gen!CompilerFails,
           NEW n \in Stmt, NEW s \in Fine(liveIn[n] \cup Globals)
    PROVE  Safe(Gen!Statement(n), s, Goal(n))
<1> DEFINE st == program[n]
           S == Before(n)
           T == liveOut[n] \cup Globals
           from == IF st.op = "copy" THEN st.a ELSE Result
           first == IF ~Gen!IsUseless(n) THEN Gen!Body(st)
                    ELSE IF st.op = "call" THEN Gen!CallStatement(st.args) ELSE << >>
           commit == IF Gen!Assigns(st) THEN <<Gen!Commit(st.lhs, from)>> ELSE << >>
<1>1. program \in Programs /\ s \in Fine(S) /\ s \in State /\ Goal(n) = Fine(T)
  BY FineConstants DEF BInv, Before, Fine, Goal
<1>2. Gen!Statement(n) = first \o commit
  BY DEF Gen!Statement
<1>3. CASE ~Gen!Assigns(st)
  <2>1. Safe(first, s, Goal(n))
    BY <1>1, <1>3, OtherBodySafe DEF Gen!IsUseless
  <2>2. commit = << >> /\ \A q \in Goal(n) : q \in State
    BY <1>3 DEF Goal, Fine
  <2> HIDE DEF first, commit
  <2>3. \A q \in Goal(n) : Safe(commit, q, Goal(n))
    BY <2>2, SafeNothing
  <2> QED BY <1>2, <2>1, <2>3, SafeThen
<1>4. ASSUME Gen!Assigns(st)
      PROVE  /\ commit = <<Gen!Commit(st.lhs, from)>> /\ Gen!IsStatement(st)
             /\ st.lhs \in Assignable /\ st.lhs \in Name
  BY <1>1, <1>4, DefFacts, NameFacts DEF Assignable
<1>5. CASE Gen!Assigns(st) /\ ~Gen!IsUseless(n)
  <2>1. Safe(first, s, Delivered(st.lhs, from, T))
    BY <1>1, <1>5, BodySafe
  <2>2. from \in Value
    <3>1. st.op = "copy" => st.a \in Gen!Fetched(st)
      BY DEF Gen!Fetched
    <3>2. st.op = "copy" => st.a \in Gen!Operand
      BY <1>4, <1>5, <3>1 DEF Gen!IsStatement
    <3> QED BY <3>2, NameFacts
  <2> HIDE DEF first, commit, st, from, T
  <2>3. \A q \in Delivered(st.lhs, from, T) : Safe(commit, q, Fine(T))
    BY <1>4, <1>5, <2>2, CommitSafe
  <2> QED BY <1>1, <1>2, <2>1, <2>3, SafeThen
<1>6. CASE Gen!Assigns(st) /\ Gen!IsUseless(n)
  <2>1. st.lhs \notin T
    <3>1. st.lhs \in Var /\ st.lhs \notin liveOut[n]
      BY <1>6, UselessIsDead DEF Gen!IsUseless
    <3> QED BY <3>1, NameFacts
  <2>2. Def(st) = {st.lhs} /\ T \subseteq S /\ Globals \subseteq S
    BY <1>1, <1>6, <2>1, DefFacts DEF Solution, Before
  <2>3. Fine(S) \subseteq Fine(T)
    BY <2>2, FineFewer
  <2>4. Safe(first, s, Fine(T))
    <3>1. CASE st.op = "call"
      <4>1. /\ first = Gen!CallCode(st.args, None)
            /\ st.args \in Seq(Gen!Operand) /\ Len(st.args) <= Len(ParamRegs)
        BY <1>4, <1>6, <3>1 DEF Gen!CallStatement, Gen!IsStatement
      <4>2. \A i \in 1 .. Len(st.args) : st.args[i] \in Gen!Fetched(st)
        BY <3>1, <4>1 DEF Gen!Fetched, Gen!ToSet
      <4>3. \A i \in 1 .. Len(st.args) : st.args[i] \in S /\ ~Gen!CannotFetch(st.args[i])
        BY <1>1, <3>1, <4>2, Operands
      <4> DEFINE Q == Fine(T)
      <4> HIDE DEF st, S, T, first, Q
      <4>4. Fine(S) \subseteq Q
        BY <2>3 DEF Q
      <4>5. Safe(Gen!CallCode(st.args, None), s, Q)
        BY <1>1, <2>2, <4>1, <4>3, <4>4, CallSafe
      <4> QED BY <4>1, <4>5 DEF Q
    <3>2. CASE st.op # "call"
      <4>1. first = << >> /\ s \in Fine(T)
        BY <1>1, <1>6, <2>3, <3>2
      <4> HIDE DEF first, T
      <4> QED BY <1>1, <4>1, SafeNothing
    <3> QED BY <3>1, <3>2
  <2>5. from \in Value
    <3>1. st.op = "copy" => st.a \in Gen!Fetched(st)
      BY DEF Gen!Fetched
    <3>2. st.op = "copy" => st.a \in Gen!Operand
      BY <1>4, <1>6, <3>1 DEF Gen!IsStatement
    <3> QED BY <3>2, NameFacts
  <2> HIDE DEF first, commit, st, from, T
  <2>6. \A q \in Fine(T) : Safe(commit, q, Fine(T))
    BY <1>4, <1>6, <2>1, <2>5, CommitUseless
  <2> QED BY <1>1, <1>2, <2>4, <2>6, SafeThen
<1> QED BY <1>3, <1>5, <1>6



-----------------------------------------------------------------------------
\* Function entry.  It writes to the registers that variables have, and to
\* the stack space of the params.
Homes == {var2reg[v] : v \in {w \in Var : Gen!InRegister(w)}}
Slots == {var2stack[v] : v \in Params}

\* A param with a higher param register for its home is moved over the stack.
OverStack(i) ==
    Gen!IsParamReg(var2reg[ParamSeq[i]]) /\ Gen!Index(var2reg[ParamSeq[i]]) > i

\* The first i params are moved, and are in their registers or on the stack.
Moved(s, i) ==
    {q \in Near(s, Homes, Slots) :
        \A j \in 1 .. Len(ParamSeq) :
            LET p == ParamSeq[j]
            IN  IF j > i THEN p \in q.regs[ParamRegs[j]]
                ELSE Gen!InRegister(p) =>
                        p \in (IF OverStack(j) THEN q.mem[var2stack[p]] ELSE q.regs[var2reg[p]])}

\* All params are moved, and the first i of them loaded from the stack.
Reloaded(s, i) ==
    {q \in Near(s, Homes, Slots) :
        \A j \in 1 .. Len(ParamSeq) :
            LET p == ParamSeq[j]
            IN  Gen!InRegister(p) =>
                    p \in (IF OverStack(j) /\ j > i THEN q.mem[var2stack[p]] ELSE q.regs[var2reg[p]])}

\* The position of a param register among them.
LEMMA IndexFacts ==
    \A r : Gen!IsParamReg(r) => Gen!Index(r) \in 1 .. Len(ParamRegs) /\ ParamRegs[Gen!Index(r)] = r
<1>1. ASSUME NEW r, Gen!IsParamReg(r) PROVE \E i \in 1 .. Len(ParamRegs) : ParamRegs[i] = r
  <2>1. DOMAIN ParamRegs = 1 .. Len(ParamRegs)
    BY RegFacts
  <2> QED BY <1>1, <2>1 DEF Gen!IsParamReg, Gen!ToSet
<1> QED BY <1>1 DEF Gen!Index

\* No two params have the same register or stack space.
LEMMA ParamPlaces ==
    ASSUME Placement, EntryApart
    PROVE  /\ Len(ParamSeq) \in Nat /\ DOMAIN ParamSeq = 1 .. Len(ParamSeq)
           /\ \A i \in 1 .. Len(ParamSeq) :
                /\ ParamSeq[i] \in Params /\ ParamSeq[i] \in Var
                /\ i \in 1 .. Len(ParamRegs) /\ ParamRegs[i] \in AllRegs
                /\ ParamRegs[i] \in ToSet(ParamRegs) /\ Gen!Index(ParamRegs[i]) = i
                /\ var2stack[ParamSeq[i]] \in Locs /\ var2stack[ParamSeq[i]] \in Slots
                /\ Gen!InRegister(ParamSeq[i]) =>
                    var2reg[ParamSeq[i]] \in Homes /\ var2reg[ParamSeq[i]] \in AllRegs
           /\ \A i, j \in 1 .. Len(ParamSeq) : i # j =>
                /\ ParamSeq[i] # ParamSeq[j] /\ ParamRegs[i] # ParamRegs[j]
                /\ var2stack[ParamSeq[i]] # var2stack[ParamSeq[j]]
                /\ Gen!InRegister(ParamSeq[i]) /\ Gen!InRegister(ParamSeq[j]) =>
                    var2reg[ParamSeq[i]] # var2reg[ParamSeq[j]]
<1>1. Len(ParamSeq) \in Nat /\ DOMAIN ParamSeq = 1 .. Len(ParamSeq) /\ Len(ParamSeq) <= Len(ParamRegs)
  BY VarAssumption
<1>2. ASSUME NEW i \in 1 .. Len(ParamSeq) PROVE ParamSeq[i] \in Params /\ ParamSeq[i] \in Var /\ i \in 1 .. Len(ParamRegs)
  <2>1. i \in DOMAIN ParamSeq /\ i \in 1 .. Len(ParamRegs)
    BY <1>1, RegFacts
  <2> QED BY <2>1, ParamFacts DEF Params, ToSet
<1>3. ASSUME NEW i \in 1 .. Len(ParamRegs)
      PROVE  ParamRegs[i] \in ToSet(ParamRegs) /\ ParamRegs[i] \in AllRegs /\ Gen!Index(ParamRegs[i]) = i
  <2>1. ParamRegs[i] \in ToSet(ParamRegs)
    BY RegFacts DEF ToSet
  <2>2. Gen!Index(ParamRegs[i]) \in 1 .. Len(ParamRegs) /\ ParamRegs[Gen!Index(ParamRegs[i])] = ParamRegs[i]
    BY DEF Gen!Index
  <2> QED BY <2>1, <2>2, RegFacts
<1>4. ASSUME NEW i \in 1 .. Len(ParamSeq)
      PROVE  /\ var2stack[ParamSeq[i]] \in Locs /\ var2stack[ParamSeq[i]] \in Slots
             /\ Gen!InRegister(ParamSeq[i]) =>
                    var2reg[ParamSeq[i]] \in Homes /\ var2reg[ParamSeq[i]] \in AllRegs
  BY <1>2, RegFacts DEF Placement, Locs, Slots, Homes
<1>5. ASSUME NEW i \in 1 .. Len(ParamSeq), NEW j \in 1 .. Len(ParamSeq), i # j
      PROVE  /\ ParamSeq[i] # ParamSeq[j] /\ ParamRegs[i] # ParamRegs[j]
             /\ var2stack[ParamSeq[i]] # var2stack[ParamSeq[j]]
             /\ Gen!InRegister(ParamSeq[i]) /\ Gen!InRegister(ParamSeq[j]) =>
                    var2reg[ParamSeq[i]] # var2reg[ParamSeq[j]]
  <2>1. ParamSeq[i] # ParamSeq[j]
    BY <1>5, VarAssumption DEF Scan!IsInjectiveSeq
  <2>2. ParamRegs[i] # ParamRegs[j]
    BY <1>2, <1>5, RegFacts
  <2>3. var2stack[ParamSeq[i]] # var2stack[ParamSeq[j]]
    BY <1>2, <2>1 DEF Placement
  <2> QED BY <1>2, <2>1, <2>2, <2>3 DEF EntryApart
<1> QED BY <1>1, <1>2, <1>3, <1>4, <1>5

\* Moving param i spares the params that are in their places already, and
\* the param registers that are still to be moved.
LEMMA MoveParamSafe ==
    ASSUME Placement, EntryApart, NEW s, NEW i \in 1 .. Len(ParamSeq), NEW q \in Moved(s, i - 1)
    PROVE  Safe(Gen!MoveParam(i), q, Moved(s, i))
<1> DEFINE p == ParamSeq[i]
           reg == var2reg[p]
           np == Len(ParamSeq)
           At(j) == ParamSeq[j]
<1>1. q \in Near(s, Homes, Slots) /\ q \in State
  BY DEF Moved, Near
<1>2. \A j \in 1 .. np :
        /\ j >= i => At(j) \in q.regs[ParamRegs[j]]
        /\ j < i /\ Gen!InRegister(At(j)) =>
                At(j) \in (IF OverStack(j) THEN q.mem[var2stack[At(j)]] ELSE q.regs[var2reg[At(j)]])
  BY ParamPlaces DEF Moved
<1>3. /\ {} \in Reads /\ Finds(q, {})
      /\ ParamRegs[i] \in AllRegs /\ p \in q.regs[ParamRegs[i]]
  BY <1>2, ParamPlaces DEF Reads, Finds
<1>4. ASSUME NEW u, u \in Near(s, Homes, Slots),
             \A j \in 1 .. np : j > i => u.regs[ParamRegs[j]] = q.regs[ParamRegs[j]],
             \A j \in 1 .. np : j < i /\ Gen!InRegister(At(j)) =>
                u.regs[var2reg[At(j)]] = q.regs[var2reg[At(j)]] /\ u.mem[var2stack[At(j)]] = q.mem[var2stack[At(j)]],
             Gen!InRegister(p) => p \in (IF OverStack(i) THEN u.mem[var2stack[p]] ELSE u.regs[reg])
      PROVE  u \in Moved(s, i)
  <2>1. ASSUME NEW j \in 1 .. np
        PROVE  IF j > i THEN At(j) \in u.regs[ParamRegs[j]]
               ELSE Gen!InRegister(At(j)) =>
                    At(j) \in (IF OverStack(j) THEN u.mem[var2stack[At(j)]] ELSE u.regs[var2reg[At(j)]])
    <3>1. j \in Nat /\ i \in Nat
      BY ParamPlaces
    <3>2. CASE j > i
      BY <1>2, <1>4, <3>1, <3>2
    <3>3. CASE j < i
      BY <1>2, <1>4, <3>1, <3>3
    <3>4. CASE j = i
      BY <1>4, <3>1, <3>4
    <3> QED BY <3>1, <3>2, <3>3, <3>4
  <2> QED BY <1>4, <2>1 DEF Moved
<1>5. CASE ~Gen!InRegister(p) \/ reg = ParamRegs[i]
  <2>1. Gen!MoveParam(i) = << >>
    BY <1>5 DEF Gen!MoveParam
  <2>2. reg = ParamRegs[i] => ~OverStack(i)
    <3>1. reg = ParamRegs[i] => Gen!Index(reg) = i /\ ~(i > i)
      BY ParamPlaces
    <3> QED BY <3>1 DEF OverStack
  <2>3. q \in Moved(s, i)
    BY <1>1, <1>3, <1>4, <1>5, <2>2
  <2> QED BY <1>1, <2>1, <2>3, SafeNothing
<1>6. CASE Gen!InRegister(p) /\ reg # ParamRegs[i] /\ (~Gen!IsParamReg(reg) \/ Gen!Index(reg) < i)
  <2>1. Gen!MoveParam(i) = <<Gen!Move(reg, ParamRegs[i], {})>> /\ reg \in AllRegs /\ reg \in Homes
    BY <1>6, ParamPlaces DEF Gen!MoveParam
  <2>2. Safe(<<Gen!Move(reg, ParamRegs[i], {})>>, q, {u \in Near(q, {reg}, {}) : u.regs[reg] = q.regs[ParamRegs[i]]})
    BY <1>1, <1>3, <2>1, SafeMove
  <2>3. ~OverStack(i)
    <3>1. Gen!IsParamReg(reg) => Gen!Index(reg) \in 1 .. Len(ParamRegs)
      BY IndexFacts
    <3> QED BY <1>6, <3>1 DEF OverStack
  <2>4. ASSUME NEW u, u \in Near(q, {reg}, {}), u.regs[reg] = q.regs[ParamRegs[i]]
        PROVE  u \in Moved(s, i)
    <3>1. u \in Near(s, Homes \cup {reg}, Slots \cup {})
      BY <1>1, <2>4, NearNear
    <3>2. u \in Near(s, Homes, Slots)
      BY <2>1, <3>1, NearWider
    <3>3. ASSUME NEW j \in 1 .. np, j > i PROVE u.regs[ParamRegs[j]] = q.regs[ParamRegs[j]]
      <4>1. ParamRegs[j] \in AllRegs /\ ParamRegs[j] \in ToSet(ParamRegs) /\ Gen!Index(ParamRegs[j]) = j /\ j \in Nat /\ i \in Nat
        BY ParamPlaces
      <4>2. ParamRegs[j] # reg
        BY <1>6, <3>3, <4>1 DEF Gen!IsParamReg, Gen!ToSet, ToSet
      <4> QED BY <2>4, <4>1, <4>2 DEF Near
    <3>4. ASSUME NEW j \in 1 .. np, j < i, Gen!InRegister(At(j))
          PROVE  /\ u.regs[var2reg[At(j)]] = q.regs[var2reg[At(j)]]
                 /\ u.mem[var2stack[At(j)]] = q.mem[var2stack[At(j)]]
      <4>1. var2reg[At(j)] \in AllRegs /\ var2reg[At(j)] # reg /\ var2stack[At(j)] \in Locs
        BY <1>6, <3>4, ParamPlaces
      <4> QED BY <2>4, <4>1 DEF Near
    <3> QED BY <1>3, <1>4, <2>3, <2>4, <3>2, <3>3, <3>4
  <2>5. {u \in Near(q, {reg}, {}) : u.regs[reg] = q.regs[ParamRegs[i]]} \subseteq Moved(s, i)
    BY <2>4
  <2> HIDE DEF reg
  <2> QED BY <2>1, <2>2, <2>5, SafeWider
<1>7. CASE Gen!InRegister(p) /\ reg # ParamRegs[i] /\ ~(~Gen!IsParamReg(reg) \/ Gen!Index(reg) < i)
  <2> DEFINE slot == var2stack[p]
  <2>1. Gen!MoveParam(i) = <<Gen!Store(ParamRegs[i], slot)>> /\ slot \in Locs /\ slot \in Slots
    BY <1>7, ParamPlaces DEF Gen!MoveParam
  <2>2. Safe(<<Gen!Store(ParamRegs[i], slot)>>, q, {u \in Near(q, {}, {slot}) : u.mem[slot] = q.regs[ParamRegs[i]]})
    BY <1>1, <1>3, <2>1, SafeStore
  <2>3. OverStack(i)
    <3>1. Gen!Index(reg) \in 1 .. Len(ParamRegs) /\ ParamRegs[Gen!Index(reg)] = reg
      BY <1>7, IndexFacts
    <3>2. Gen!Index(reg) # i
      BY <1>7, <3>1
    <3> QED BY <1>7, <3>1, <3>2, ParamPlaces DEF OverStack
  <2>4. ASSUME NEW u, u \in Near(q, {}, {slot}), u.mem[slot] = q.regs[ParamRegs[i]]
        PROVE  u \in Moved(s, i)
    <3>1. u \in Near(s, Homes \cup {}, Slots \cup {slot})
      BY <1>1, <2>4, NearNear
    <3>2. u \in Near(s, Homes, Slots)
      BY <2>1, <3>1, NearWider
    <3>3. ASSUME NEW j \in 1 .. np PROVE u.regs[ParamRegs[j]] = q.regs[ParamRegs[j]]
      BY <2>4, <3>3, ParamPlaces DEF Near
    <3>4. ASSUME NEW j \in 1 .. np, j < i, Gen!InRegister(At(j))
          PROVE  /\ u.regs[var2reg[At(j)]] = q.regs[var2reg[At(j)]]
                 /\ u.mem[var2stack[At(j)]] = q.mem[var2stack[At(j)]]
      <4>1. var2reg[At(j)] \in AllRegs /\ var2stack[At(j)] # slot /\ var2stack[At(j)] \in Locs
        BY <3>4, ParamPlaces
      <4> QED BY <2>4, <4>1 DEF Near
    <3> QED BY <1>3, <1>4, <2>3, <2>4, <3>2, <3>3, <3>4
  <2>5. {u \in Near(q, {}, {slot}) : u.mem[slot] = q.regs[ParamRegs[i]]} \subseteq Moved(s, i)
    BY <2>4
  <2> HIDE DEF slot
  <2> QED BY <2>1, <2>2, <2>5, SafeWider
<1> QED BY <1>5, <1>6, <1>7


LEMMA ReloadParamSafe ==
    ASSUME Placement, EntryApart, NEW s, NEW i \in 1 .. Len(ParamSeq), NEW q \in Reloaded(s, i - 1)
    PROVE  Safe(Gen!ReloadParam(i), q, Reloaded(s, i))
<1> DEFINE p == ParamSeq[i]
           reg == var2reg[p]
           slot == var2stack[p]
           np == Len(ParamSeq)
           At(j) == ParamSeq[j]
<1>1. q \in Near(s, Homes, Slots) /\ q \in State
  BY DEF Reloaded, Near
<1>2. \A j \in 1 .. np : Gen!InRegister(At(j)) =>
        At(j) \in (IF OverStack(j) /\ j >= i THEN q.mem[var2stack[At(j)]] ELSE q.regs[var2reg[At(j)]])
  BY ParamPlaces DEF Reloaded
<1>3. i \in Nat /\ \A j \in 1 .. np : j \in Nat
  BY ParamPlaces
<1>4. ASSUME NEW u, u \in Near(s, Homes, Slots), \A l \in Locs : u.mem[l] = q.mem[l],
             \A j \in 1 .. np : j # i /\ Gen!InRegister(At(j)) => u.regs[var2reg[At(j)]] = q.regs[var2reg[At(j)]],
             Gen!InRegister(p) => p \in u.regs[reg]
      PROVE  u \in Reloaded(s, i)
  <2>1. ASSUME NEW j \in 1 .. np, Gen!InRegister(At(j))
        PROVE  At(j) \in (IF OverStack(j) /\ j > i THEN u.mem[var2stack[At(j)]] ELSE u.regs[var2reg[At(j)]])
    <3>1. var2stack[At(j)] \in Locs
      BY ParamPlaces
    <3>2. CASE j > i
      BY <1>2, <1>3, <1>4, <2>1, <3>1, <3>2
    <3>3. CASE j < i
      BY <1>2, <1>3, <1>4, <2>1, <3>3
    <3>4. CASE j = i
      BY <1>3, <1>4, <2>1, <3>4
    <3> QED BY <1>3, <3>2, <3>3, <3>4
  <2> QED BY <1>4, <2>1 DEF Reloaded
<1>5. Gen!IsParamReg(reg) => Gen!Index(reg) \in Nat
  BY IndexFacts, RegFacts
<1>6. CASE Gen!InRegister(p) /\ OverStack(i)
  <2>1. Gen!ReloadParam(i) = <<Gen!Load(reg, slot)>> /\ reg \in AllRegs /\ reg \in Homes /\ slot \in Locs
    BY <1>6, ParamPlaces DEF Gen!ReloadParam, OverStack
  <2>2. Safe(<<Gen!Load(reg, slot)>>, q, {u \in Near(q, {reg}, {}) : u.regs[reg] = q.mem[slot]})
    BY <1>1, <2>1, SafeLoad
  <2>3. p \in q.mem[slot]
    BY <1>2, <1>3, <1>6
  <2>4. ASSUME NEW u, u \in Near(q, {reg}, {}), u.regs[reg] = q.mem[slot]
        PROVE  u \in Reloaded(s, i)
    <3>1. u \in Near(s, Homes \cup {reg}, Slots \cup {})
      BY <1>1, <2>4, NearNear
    <3>2. u \in Near(s, Homes, Slots)
      BY <2>1, <3>1, NearWider
    <3>3. \A l \in Locs : u.mem[l] = q.mem[l]
      BY <2>4 DEF Near
    <3>4. ASSUME NEW j \in 1 .. np, j # i, Gen!InRegister(At(j))
          PROVE  u.regs[var2reg[At(j)]] = q.regs[var2reg[At(j)]]
      <4>1. var2reg[At(j)] \in AllRegs /\ var2reg[At(j)] # reg
        BY <1>6, <3>4, ParamPlaces
      <4> QED BY <2>4, <4>1 DEF Near
    <3> QED BY <1>4, <2>3, <2>4, <3>2, <3>3, <3>4
  <2>5. {u \in Near(q, {reg}, {}) : u.regs[reg] = q.mem[slot]} \subseteq Reloaded(s, i)
    BY <2>4
  <2> HIDE DEF reg, slot
  <2> QED BY <2>1, <2>2, <2>5, SafeWider
<1>7. CASE ~(Gen!InRegister(p) /\ OverStack(i))
  <2>1. Gen!ReloadParam(i) = << >>
    BY <1>7 DEF Gen!ReloadParam, OverStack
  <2>2. q \in Reloaded(s, i)
    BY <1>1, <1>2, <1>4, <1>7
  <2> QED BY <1>1, <2>1, <2>2, SafeNothing
<1> QED BY <1>6, <1>7

LEMMA EntryCodesType ==
    ASSUME Placement, EntryApart, NEW i \in 1 .. Len(ParamSeq)
    PROVE  Gen!MoveParam(i) \in Seq(Instruction) /\ Gen!ReloadParam(i) \in Seq(Instruction)
<1> DEFINE reg == var2reg[ParamSeq[i]]
           slot == var2stack[ParamSeq[i]]
<1>1. /\ slot \in Locs /\ ParamRegs[i] \in AllRegs
      /\ Gen!InRegister(ParamSeq[i]) => reg \in AllRegs
  BY ParamPlaces
<1>2. {} \in Reads
  BY DEF Reads
<1>3. /\ Gen!InRegister(ParamSeq[i]) => Gen!Move(reg, ParamRegs[i], {}) \in Instruction
      /\ Gen!InRegister(ParamSeq[i]) => Gen!Load(reg, slot) \in Instruction
      /\ Gen!Store(ParamRegs[i], slot) \in Instruction
  BY <1>1, <1>2 DEF Gen!Move, Gen!Load, Gen!Store, Instruction
<1>4. \A x \in Instruction : <<x>> \in Seq(Instruction)
  OBVIOUS
<1>5. << >> \in Seq(Instruction)
  OBVIOUS
<1> QED BY <1>3, <1>4, <1>5 DEF Gen!MoveParam, Gen!ReloadParam

LEMMA MoveParamsSafe ==
    ASSUME Placement, EntryApart, NEW s, NEW q \in Moved(s, 0)
    PROVE  Safe(Gen!FlattenSeq([i \in DOMAIN ParamSeq |-> Gen!MoveParam(i)]), q, Reloaded(s, 0))
<1> DEFINE n == Len(ParamSeq)
           cs == [i \in DOMAIN ParamSeq |-> Gen!MoveParam(i)]
           I == [i \in 0 .. n |-> Moved(s, i)]
<1>1. /\ n \in Nat /\ DOMAIN cs = 1 .. n /\ cs = [i \in 1 .. n |-> cs[i]]
      /\ \A i \in 1 .. n : cs[i] = Gen!MoveParam(i)
  BY ParamPlaces
<1>2. Gen!FlattenSeq(cs) = FlattenSeq(cs)
  BY DEF FlattenSeq, Gen!FlattenSeq
<1>3. \A i \in 0 .. n : I[i] = Moved(s, i)
  OBVIOUS
<1>4. 0 \in 0 .. n /\ n \in 0 .. n /\ \A i \in 1 .. n : i \in 0 .. n /\ i - 1 \in 0 .. n
  BY <1>1
<1> HIDE DEF cs, I
<1>5. cs \in Seq(Seq(Instruction)) /\ Len(cs) = n
  BY <1>1, EntryCodesType, CodesType
<1>6. \A i \in 1 .. n : \A u \in I[i - 1] : Safe(cs[i], u, I[i])
  BY <1>1, <1>3, <1>4, MoveParamSafe
<1>7. q \in State /\ q \in I[0]
  BY <1>3, <1>4 DEF Moved, Near
<1>8. Safe(FlattenSeq(cs), q, I[n])
  BY <1>5, <1>6, <1>7, SafeLoop
<1>9. Moved(s, n) \subseteq Reloaded(s, 0)
  <2> SUFFICES ASSUME NEW u \in Moved(s, n) PROVE u \in Reloaded(s, 0)
    OBVIOUS
  <2>1. \A j \in 1 .. n : j > 0 /\ ~(j > n)
    BY <1>1
  <2> QED BY <2>1 DEF Moved, Reloaded
<1>10. Safe(Gen!FlattenSeq(cs), q, Reloaded(s, 0))
  BY <1>2, <1>3, <1>4, <1>8, <1>9, SafeWider
<1> QED BY <1>10 DEF cs

LEMMA ReloadParamsSafe ==
    ASSUME Placement, EntryApart, NEW s, NEW q \in Reloaded(s, 0)
    PROVE  Safe(Gen!FlattenSeq([i \in DOMAIN ParamSeq |-> Gen!ReloadParam(i)]), q, Reloaded(s, Len(ParamSeq)))
<1> DEFINE n == Len(ParamSeq)
           cs == [i \in DOMAIN ParamSeq |-> Gen!ReloadParam(i)]
           I == [i \in 0 .. n |-> Reloaded(s, i)]
<1>1. /\ n \in Nat /\ DOMAIN cs = 1 .. n /\ cs = [i \in 1 .. n |-> cs[i]]
      /\ \A i \in 1 .. n : cs[i] = Gen!ReloadParam(i)
  BY ParamPlaces
<1>2. Gen!FlattenSeq(cs) = FlattenSeq(cs)
  BY DEF FlattenSeq, Gen!FlattenSeq
<1>3. \A i \in 0 .. n : I[i] = Reloaded(s, i)
  OBVIOUS
<1>4. 0 \in 0 .. n /\ n \in 0 .. n /\ \A i \in 1 .. n : i \in 0 .. n /\ i - 1 \in 0 .. n
  BY <1>1
<1> HIDE DEF cs, I
<1>5. cs \in Seq(Seq(Instruction)) /\ Len(cs) = n
  BY <1>1, EntryCodesType, CodesType
<1>6. \A i \in 1 .. n : \A u \in I[i - 1] : Safe(cs[i], u, I[i])
  BY <1>1, <1>3, <1>4, ReloadParamSafe
<1>7. q \in State /\ q \in I[0]
  BY <1>3, <1>4 DEF Reloaded, Near
<1>8. Safe(FlattenSeq(cs), q, I[n])
  BY <1>5, <1>6, <1>7, SafeLoop
<1>9. Safe(Gen!FlattenSeq(cs), q, Reloaded(s, n))
  BY <1>2, <1>3, <1>4, <1>8
<1> QED BY <1>9 DEF cs

\* Instructions one after the other, with the states I between them.
LEMMA SafeLine ==
    ASSUME NEW c \in Seq(Instruction), NEW I,
           \A i \in 1 .. Len(c) : \A q \in I[i - 1] : Safe(<<c[i]>>, q, I[i]),
           NEW s \in State, s \in I[0]
    PROVE  Safe(c, s, I[Len(c)])
<1> DEFINE First(k) == [j \in 1 .. k |-> c[j]]
           Bad == {k \in 0 .. Len(c) : ~Safe(First(k), s, I[k])}
<1>1. Len(c) \in Nat /\ c = First(Len(c))
  OBVIOUS
<1>2. ASSUME Bad # {} PROVE FALSE
  <2>1. PICK k \in Bad : \A j \in Bad : k <= j
    <3>1. Bad \in SUBSET Nat
      OBVIOUS
    <3> HIDE DEF Bad
    <3> QED BY <1>2, <3>1, LeastNatural
  <2>2. k \in 0 .. Len(c)
    OBVIOUS
  <2>3. CASE k = 0
    <3>1. First(k) = << >>
      BY <2>3
    <3>2. Safe(First(k), s, I[k])
      <4> HIDE DEF First
      <4> QED BY <2>3, <3>1, SafeNothing
    <3> QED BY <3>2
  <2>4. CASE k # 0
    <3>1. k - 1 \in 0 .. Len(c) /\ ~(k <= k - 1) /\ k \in 1 .. Len(c) /\ c[k] \in Instruction
      BY <1>1, <2>2, <2>4
    <3>2. k - 1 \notin Bad
      <4> HIDE DEF Bad
      <4> QED BY <2>1, <3>1
    <3>3. Safe(First(k - 1), s, I[k - 1])
      BY <3>1, <3>2
    <3>4. First(k) = First(k - 1) \o <<c[k]>>
      <4> DEFINE a == First(k - 1)
      <4>1. a \in Seq(Instruction) /\ Len(a) = k - 1 /\ \A j \in 1 .. k - 1 : a[j] = c[j]
        BY <1>1, <3>1
      <4> HIDE DEF a
      <4>2. Len(a \o <<c[k]>>) = k /\ a \o <<c[k]>> \in Seq(Instruction)
        BY <3>1, <4>1
      <4>3. ASSUME NEW j \in 1 .. k PROVE (a \o <<c[k]>>)[j] = c[j]
        BY <3>1, <4>1, <4>3
      <4>4. a \o <<c[k]>> = [j \in 1 .. k |-> (a \o <<c[k]>>)[j]]
        BY <3>1, <4>2
      <4>5. a \o <<c[k]>> = First(k)
        BY <4>3, <4>4
      <4> QED BY <4>5 DEF a
    <3> HIDE DEF First
    <3>5. Safe(First(k), s, I[k])
      BY <3>1, <3>3, <3>4, SafeThen
    <3> QED BY <3>5
  <2> QED BY <2>3, <2>4
<1>3. Len(c) \in 0 .. Len(c)
  BY <1>1
<1>4. Safe(First(Len(c)), s, I[Len(c)])
  BY <1>2, <1>3
<1> HIDE DEF First
<1> QED BY <1>1, <1>4


\* Whatever order the arrays are taken in, each of them is taken once.
LEMMA ArrayOrder ==
    ASSUME NEW arrays \in SetToSeqs(ArraysInRegisters)
    PROVE  /\ arrays \in Seq(ArraysInRegisters)
           /\ \A a \in ArraysInRegisters : \E i \in 1 .. Len(arrays) : arrays[i] = a
           /\ \A i, j \in 1 .. Len(arrays) : i # j => arrays[i] # arrays[j]
<1> DEFINE n == Cardinality(ArraysInRegisters)
<1>1. IsFiniteSet(ArraysInRegisters)
  <2>1. ArraysInRegisters \in SUBSET Var
    BY VarAssumption DEF ArraysInRegisters
  <2> QED BY <2>1, VarAssumption, FS_Subset
<1>2. n \in Nat
  BY <1>1, FS_CardinalityType
<1>3. arrays \in [1 .. n -> ArraysInRegisters] /\ \A i, j \in 1 .. n : i # j => arrays[i] # arrays[j]
  BY DEF SetToSeqs
<1>4. arrays \in Injection(1 .. n, ArraysInRegisters)
  BY <1>3 DEF Injection, IsInjective
<1>5. IsFiniteSet(1 .. n) /\ Cardinality(1 .. n) = n
  BY <1>2, FS_Interval
<1>6. arrays \in Surjection(1 .. n, ArraysInRegisters)
  <2> HIDE DEF n
  <2>1. Cardinality(1 .. n) = Cardinality(ArraysInRegisters)
    BY <1>5 DEF n
  <2> QED BY <1>1, <1>4, <2>1, FS_Injection
<1> HIDE DEF n
<1>7. arrays \in Seq(ArraysInRegisters) /\ Len(arrays) = n
  BY <1>2, <1>3
<1> QED BY <1>3, <1>6, <1>7 DEF Surjection

\* The heads of the first i arrays are loaded; the params that are needed
\* are still there.
HeadsLoaded(s, arrays, i) ==
    {q \in Near(s, Homes, Slots) :
        /\ \A p \in Params \cap liveIn[0] : Gen!InRegister(p) => p \in q.regs[var2reg[p]]
        /\ \A j \in 1 .. i : arrays[j] \in liveIn[0] => arrays[j] \in q.regs[var2reg[arrays[j]]]}

LEMMA HeadsSafe ==
    ASSUME Placement, EntryApart, NEW arrays \in SetToSeqs(ArraysInRegisters), NEW s,
           NEW q \in Reloaded(s, Len(ParamSeq))
    PROVE  Safe([i \in DOMAIN arrays |-> Gen!LoadAddr(var2reg[arrays[i]], arrays[i])], q,
                HeadsLoaded(s, arrays, Len(arrays)))
<1> DEFINE n == Len(arrays)
           c == [i \in DOMAIN arrays |-> Gen!LoadAddr(var2reg[arrays[i]], arrays[i])]
           I == [i \in 0 .. n |-> HeadsLoaded(s, arrays, i)]
<1>1. /\ n \in Nat /\ DOMAIN arrays = 1 .. n
      /\ \A i \in 1 .. n : /\ arrays[i] \in Arrays /\ arrays[i] \in Var /\ arrays[i] \in Value
                           /\ Gen!InRegister(arrays[i])
                           /\ var2reg[arrays[i]] \in AllRegs /\ var2reg[arrays[i]] \in Homes
  <2>1. arrays \in Seq(ArraysInRegisters) /\ n \in Nat /\ DOMAIN arrays = 1 .. n
    BY ArrayOrder
  <2>2. \A i \in 1 .. n : arrays[i] \in ArraysInRegisters
    BY <2>1
  <2>3. \A a \in ArraysInRegisters : /\ a \in Arrays /\ a \in Var /\ a \in Value /\ Gen!InRegister(a)
                                    /\ var2reg[a] \in AllRegs /\ var2reg[a] \in Homes
    BY NameFacts, RegFacts DEF ArraysInRegisters, Placement, Homes
  <2> QED BY <2>1, <2>2, <2>3
<1>2. \A i \in 1 .. n : Gen!LoadAddr(var2reg[arrays[i]], arrays[i]) \in Instruction
  <2>1. {} \in Reads
    BY DEF Reads
  <2> QED BY <1>1, <2>1 DEF Gen!LoadAddr, Instruction
<1>3. c \in Seq(Instruction) /\ Len(c) = n
  BY <1>1, <1>2
<1>4. \A i \in 1 .. n : c[i] = Gen!LoadAddr(var2reg[arrays[i]], arrays[i])
  BY <1>1
<1>5. \A i \in 0 .. n : I[i] = HeadsLoaded(s, arrays, i)
  OBVIOUS
<1> HIDE DEF c, I
<1>6. q \in I[0] /\ q \in State
  <2>1. q \in Near(s, Homes, Slots) /\ q \in State
    BY DEF Reloaded, Near
  <2>2. ASSUME NEW p \in Params, Gen!InRegister(p) PROVE p \in q.regs[var2reg[p]]
    <3>1. PICK j \in 1 .. Len(ParamSeq) : p = ParamSeq[j]
      BY ParamFacts
    <3>2. ~(j > Len(ParamSeq))
      BY ParamPlaces
    <3> QED BY <2>2, <3>1, <3>2 DEF Reloaded
  <2>3. 0 \in 0 .. n /\ \A j \in 1 .. 0 : FALSE
    BY <1>1
  <2>4. q \in HeadsLoaded(s, arrays, 0)
    BY <2>1, <2>2, <2>3 DEF HeadsLoaded
  <2> QED BY <1>5, <2>1, <2>3, <2>4
<1>7. ASSUME NEW i \in 1 .. n, NEW u \in I[i - 1] PROVE Safe(<<c[i]>>, u, I[i])
  <2> DEFINE a == arrays[i]
             reg == var2reg[a]
  <2>1. i - 1 \in 0 .. n /\ i \in 0 .. n /\ u \in HeadsLoaded(s, arrays, i - 1)
    <3>1. i - 1 \in 0 .. n /\ i \in 0 .. n
      BY <1>1
    <3> QED BY <1>5, <3>1
  <2>2. u \in Near(s, Homes, Slots) /\ u \in State
    BY <2>1 DEF HeadsLoaded, Near
  <2>3. Safe(<<Gen!LoadAddr(reg, a)>>, u, {w \in Near(u, {reg}, {}) : w.regs[reg] = {a}})
    BY <1>1, <2>2, SafeLoadAddr
  <2>4. ASSUME NEW w, w \in Near(u, {reg}, {}), w.regs[reg] = {a} PROVE w \in HeadsLoaded(s, arrays, i)
    <3>1. w \in Near(s, Homes \cup {reg}, Slots \cup {})
      BY <2>2, <2>4, NearNear
    <3>2. w \in Near(s, Homes, Slots)
      BY <1>1, <3>1, NearWider
    <3>3. ASSUME NEW v \in (Params \cup Arrays) \cap liveIn[0], v # a, Gen!InRegister(v)
          PROVE  w.regs[var2reg[v]] = u.regs[var2reg[v]]
      <4>1. var2reg[v] # reg
        BY <1>1, <3>3 DEF EntryApart
      <4>2. var2reg[v] \in AllRegs
        BY <3>3, NameFacts, RegFacts DEF Placement
      <4> QED BY <2>4, <4>1, <4>2 DEF Near
    <3>4. a \notin Params
      BY <1>1, VarAssumption
    <3>5. \A p \in Params \cap liveIn[0] : Gen!InRegister(p) => p \in w.regs[var2reg[p]]
      BY <2>1, <3>3, <3>4 DEF HeadsLoaded
    <3>6. ASSUME NEW j \in 1 .. i, arrays[j] \in liveIn[0] PROVE arrays[j] \in w.regs[var2reg[arrays[j]]]
      <4>1. CASE j = i
        BY <2>4, <4>1
      <4>2. CASE j # i
        <5>1. j \in 1 .. i - 1 /\ j \in 1 .. n
          BY <1>1, <4>2
        <5>2. arrays[j] # a
          BY <4>2, <5>1, ArrayOrder
        <5>3. arrays[j] \in u.regs[var2reg[arrays[j]]]
          BY <2>1, <3>6, <5>1 DEF HeadsLoaded
        <5> QED BY <1>1, <3>3, <3>6, <5>1, <5>2, <5>3
      <4> QED BY <4>1, <4>2
    <3> QED BY <3>2, <3>5, <3>6 DEF HeadsLoaded
  <2>5. {w \in Near(u, {reg}, {}) : w.regs[reg] = {a}} \subseteq HeadsLoaded(s, arrays, i)
    BY <2>4
  <2>6. c[i] = Gen!LoadAddr(reg, a) /\ I[i] = HeadsLoaded(s, arrays, i)
    BY <1>4, <1>5, <2>1
  <2> HIDE DEF reg, a
  <2> QED BY <2>3, <2>5, <2>6, SafeWider
<1>8. Safe(c, q, I[n])
  BY <1>3, <1>6, <1>7, SafeLine
<1>9. n \in 0 .. n
  BY <1>1
<1>10. Safe(c, q, HeadsLoaded(s, arrays, n))
  BY <1>5, <1>8, <1>9
<1> QED BY <1>10 DEF c

\* The state in which the function is called.
AtCall ==
    [regs |-> [r \in AllRegs |->
                    IF r \in ToSet(CalleeSaved) THEN {r}
                    ELSE IF r = x0 THEN {Zero}
                    ELSE {ParamSeq[i] : i \in {j \in DOMAIN ParamSeq : ParamRegs[j] = r}}],
     mem |-> [l \in Locs |-> IF l \in Globals THEN {l} ELSE Unknown],
     defined |-> Params \cup Arrays \cup Globals \cup GlobalArrays]


LEMMA KeptHomes ==
    ASSUME Placement, NEW s, Kept(s), NEW q \in Near(s, Homes, Slots)
    PROVE  Kept(q)
<1>1. Homes \subseteq usedRegs /\ Homes \subseteq Scan!Reg
  BY DEF Homes, Placement
<1>2. q.regs[x0] = s.regs[x0]
  BY <1>1, RegFacts DEF Near
<1>3. ASSUME NEW r \in ToSet(CalleeSaved)
      PROVE  r \in (IF r \in usedRegs THEN q.mem[reg2stack[r]] ELSE q.regs[r])
  <2>1. r \notin usedRegs => r \in AllRegs \ Homes
    BY <1>1, RegFacts
  <2>2. r \in usedRegs => reg2stack[r] \in Locs \ Slots
    BY ParamFacts DEF Placement, Locs, Slots
  <2> QED BY <2>1, <2>2 DEF Kept, Near
<1> QED BY <1>2, <1>3 DEF Kept

LEMMA AtCallType ==
    /\ AtCall \in State
    /\ \A r \in ToSet(CalleeSaved) : AtCall.regs[r] = {r}
    /\ AtCall.regs[x0] = {Zero}
    /\ \A i \in 1 .. Len(ParamSeq) : ParamSeq[i] \in AtCall.regs[ParamRegs[i]]
    /\ \A g \in Globals : AtCall.mem[g] = {g}
    /\ AtCall.defined = Params \cup Arrays \cup Globals \cup GlobalArrays
<1> DEFINE held(r) == {ParamSeq[i] : i \in {j \in DOMAIN ParamSeq : ParamRegs[j] = r}}
<1>1. \A r \in ToSet(CalleeSaved) : r \in AllRegs /\ r \in Value /\ r # x0
  BY RegFacts, NameFacts
<1>2. \A r : held(r) \subseteq Value
  BY ParamFacts, NameFacts DEF Params, ToSet
<1>3. AtCall.regs \in [AllRegs -> SUBSET Value]
  <2>1. \A r \in AllRegs : AtCall.regs[r] = IF r \in ToSet(CalleeSaved) THEN {r} ELSE IF r = x0 THEN {Zero} ELSE held(r)
    BY DEF AtCall
  <2>2. \A r \in AllRegs : AtCall.regs[r] \in SUBSET Value
    <3> HIDE DEF held
    <3> QED BY <1>1, <1>2, <2>1, NameFacts
  <2>3. AtCall.regs = [r \in AllRegs |-> AtCall.regs[r]]
    BY DEF AtCall
  <2> QED BY <2>2, <2>3
<1>4. AtCall.mem \in [Locs -> SUBSET Value]
  BY NameFacts DEF AtCall, Unknown
<1>5. AtCall.defined \in SUBSET Name
  BY NameFacts DEF AtCall
<1>6. AtCall = [regs |-> AtCall.regs, mem |-> AtCall.mem, defined |-> AtCall.defined]
  BY DEF AtCall
<1>7. AtCall \in State
  BY <1>3, <1>4, <1>5, <1>6 DEF State
<1>8. \A r \in ToSet(CalleeSaved) : AtCall.regs[r] = {r}
  BY <1>1 DEF AtCall
<1>9. AtCall.regs[x0] = {Zero}
  BY <1>1, RegFacts DEF AtCall
<1>10. ASSUME NEW i \in 1 .. Len(ParamSeq) PROVE ParamSeq[i] \in AtCall.regs[ParamRegs[i]]
  <2>1. i \in DOMAIN ParamSeq /\ i \in 1 .. Len(ParamRegs)
    BY VarAssumption, RegFacts
  <2>2. ParamRegs[i] \in ToSet(ParamRegs)
    BY <2>1, RegFacts DEF ToSet
  <2>3. ParamRegs[i] \in AllRegs /\ ParamRegs[i] \notin ToSet(CalleeSaved) /\ ParamRegs[i] # x0
    BY <2>2, RegFacts
  <2>4. ParamSeq[i] \in held(ParamRegs[i])
    BY <2>1
  <2>5. AtCall.regs[ParamRegs[i]] = held(ParamRegs[i])
    BY <2>3 DEF AtCall
  <2> QED BY <2>4, <2>5
<1>11. \A g \in Globals : AtCall.mem[g] = {g}
  BY DEF AtCall, Locs
<1>12. AtCall.defined = Params \cup Arrays \cup Globals \cup GlobalArrays
  BY DEF AtCall
<1> QED BY <1>7, <1>8, <1>9, <1>10, <1>11, <1>12

\* After the entry code every param and array that is live has arrived in
\* its register, and the caller's registers are kept.
LEMMA EntrySafe ==
    ASSUME BInv, stage # "liveness", Placement, EntryApart, NEW arrays \in SetToSeqs(ArraysInRegisters)
    PROVE  Safe(Gen!Entry(arrays), AtCall, Fine(liveIn[0] \cup Globals))
<1> DEFINE s == AtCall
           n == Len(ParamSeq)
           Q == Fine(liveIn[0] \cup Globals)
           saving == Gen!SaveRegs(CalleeSaved)
           moves == Gen!FlattenSeq([i \in DOMAIN ParamSeq |-> Gen!MoveParam(i)])
           loads == Gen!FlattenSeq([i \in DOMAIN ParamSeq |-> Gen!ReloadParam(i)])
           heads == [i \in DOMAIN arrays |-> Gen!LoadAddr(var2reg[arrays[i]], arrays[i])]
           S == Saved(s, CalleeSaved)
           P1 == UNION {Reloaded(u, 0) : u \in S}
           P2 == UNION {Reloaded(u, n) : u \in S}
<1>1. Gen!Entry(arrays) = saving \o moves \o loads \o heads
  BY DEF Gen!Entry
<1>2. Safe(saving, s, S)
  BY AtCallType, SaveRegsSafe, RegFacts
<1>3. ASSUME NEW u \in S
      PROVE  /\ u \in State /\ u.defined = s.defined /\ Kept(u)
             /\ \A i \in 1 .. n : ParamSeq[i] \in u.regs[ParamRegs[i]]
             /\ \A g \in Globals : g \in u.mem[g]
  <2>1. u \in Near(s, {}, {reg2stack[r] : r \in usedRegs \cap ToSet(CalleeSaved)})
    BY <1>3 DEF Saved
  <2>2. u \in State /\ u.defined = s.defined /\ \A r \in AllRegs : u.regs[r] = s.regs[r]
    BY <2>1 DEF Near
  <2>3. \A r \in usedRegs \cap ToSet(CalleeSaved) : u.mem[reg2stack[r]] = s.regs[r]
    BY <1>3 DEF Saved
  <2>4. Kept(u)
    BY <2>2, <2>3, AtCallType, RegFacts DEF Kept
  <2>5. \A i \in 1 .. n : ParamRegs[i] \in AllRegs
    BY ParamPlaces
  <2>6. \A g \in Globals : g \in Locs /\ g \notin {reg2stack[r] : r \in usedRegs \cap ToSet(CalleeSaved)}
    BY NameFacts DEF Locs, Placement
  <2>7. \A g \in Globals : u.mem[g] = s.mem[g]
    BY <2>1, <2>6 DEF Near
  <2> QED BY <2>2, <2>4, <2>5, <2>7, AtCallType
<1>4. ASSUME NEW u \in S PROVE Safe(moves, u, P1)
  <2>1. u \in Moved(u, 0)
    <3>1. u \in Near(u, Homes, Slots)
      BY <1>3, NearItself
    <3>2. \A j \in 1 .. n : j > 0
      BY ParamPlaces
    <3> QED BY <1>3, <3>1, <3>2 DEF Moved
  <2>2. Safe(moves, u, Reloaded(u, 0)) /\ Reloaded(u, 0) \subseteq P1
    BY <2>1, MoveParamsSafe
  <2> HIDE DEF moves, P1
  <2> QED BY <2>2, SafeWider
<1>5. ASSUME NEW q \in P1 PROVE Safe(loads, q, P2)
  <2>1. PICK u \in S : q \in Reloaded(u, 0)
    OBVIOUS
  <2>2. Safe(loads, q, Reloaded(u, n)) /\ Reloaded(u, n) \subseteq P2
    BY <2>1, ReloadParamsSafe
  <2> HIDE DEF loads, P2
  <2> QED BY <2>2, SafeWider
<1>6. ASSUME NEW q0 \in P2 PROVE Safe(heads, q0, Q)
  <2>1. PICK u \in S : q0 \in Reloaded(u, n)
    OBVIOUS
  <2>4. Safe(heads, q0, HeadsLoaded(u, arrays, Len(arrays)))
    BY <2>1, HeadsSafe
  <2>5. ASSUME NEW q \in HeadsLoaded(u, arrays, Len(arrays)) PROVE q \in Q
    <3>1. q \in State /\ q.defined = s.defined /\ q \in Near(u, Homes, Slots)
      BY <1>3, <2>5 DEF HeadsLoaded, Near
    <3>2. Kept(q)
      BY <1>3, <3>1, KeptHomes
    <3>3. ASSUME NEW v \in liveIn[0] \cup Globals PROVE Available(q, v)
      <4>1. v = Zero => Zero \in q.regs[x0]
        BY <3>2 DEF Kept
      <4>2. ASSUME v \in q.defined, Held(v) PROVE v \in HomeOf(q, v)
        <5>1. CASE v \in Globals
          <6>1. v \in Locs \ Slots
            BY <5>1, NameFacts DEF Locs, Slots, Placement
          <6>2. q.mem[v] = u.mem[v]
            BY <3>1, <6>1 DEF Near
          <6>3. HomeOf(q, v) = q.mem[v]
            BY <5>1, NameFacts DEF HomeOf, Gen!InRegister, Gen!Place
          <6> QED BY <1>3, <5>1, <6>2, <6>3
        <5>2. CASE v \notin Globals
          <6>1. v \in liveIn[0] /\ v \in Var /\ v \in Params \cup Arrays /\ Gen!InRegister(v)
            <7>1. v \in Params \cup Arrays \cup Globals \cup GlobalArrays
              BY <3>1, <4>2, AtCallType
            <7> QED BY <3>3, <4>2, <5>2, <7>1, NameFacts DEF Held
          <6>2. v \in q.regs[var2reg[v]]
            <7>1. CASE v \in Params
              BY <2>5, <6>1, <7>1 DEF HeadsLoaded
            <7>2. CASE v \in Arrays
              <8>1. PICK j \in 1 .. Len(arrays) : arrays[j] = v
                BY <6>1, <7>2, ArrayOrder DEF ArraysInRegisters
              <8> QED BY <2>5, <6>1, <8>1 DEF HeadsLoaded
            <7> QED BY <6>1, <7>1, <7>2
          <6> QED BY <6>1, <6>2 DEF HomeOf
        <5> QED BY <5>1, <5>2
      <4> QED BY <4>1, <4>2 DEF Available
    <3> QED BY <3>1, <3>2, <3>3 DEF Fine
  <2> HIDE DEF heads, Q
  <2> QED BY <2>4, <2>5, SafeWider
<1> HIDE DEF saving, moves, loads, heads, Q, s, S, P1, P2
<1>7. Safe(saving \o moves, s, P1)
  BY <1>2, <1>4, SafeThen
<1>8. Safe(saving \o moves \o loads, s, P2)
  BY <1>5, <1>7, SafeThen
<1>9. Safe(saving \o moves \o loads \o heads, s, Q)
  BY <1>6, <1>8, SafeThen
<1> QED BY <1>1, <1>9 DEF s, Q


-----------------------------------------------------------------------------
\* The frame does not change any more, nor does what safe code is.
LEMMA SafeUnchanged ==
    ASSUME stk' = stk, NEW c, NEW s, NEW Q
    PROVE  Safe(c, s, Q)' <=> Safe(c, s, Q)
<1>1. Locs' = Locs
  BY DEF Locs
<1>2. State' = State /\ Instruction' = Instruction
  BY <1>1 DEF State, Instruction
<1>3. ASSUME NEW a, NEW i PROVE Effect(a, i)' = Effect(a, i)
  BY <1>1 DEF Effect
<1>4. ASSUME NEW t PROVE Leads(t, c, s)' <=> Leads(t, c, s)
  BY <1>2, <1>3 DEF Leads, Allowed
<1> QED BY <1>2, <1>4 DEF Safe

Here == [regs |-> regs, mem |-> mem, defined |-> defined]

\* What the code that is running leads to.
Destination == IF at = -1 THEN Fine(liveIn[0] \cup Globals) ELSE Goal(at)

LEMMA DestinationUnchanged ==
    ASSUME UNCHANGED <<stk, usedRegs, reg2stack, var2reg, var2stack, liveIn, liveOut, at>>
    PROVE  Destination' = Destination
<1>1. State' = State
  BY DEF State, Locs
<1>2. ASSUME NEW s PROVE Kept(s)' <=> Kept(s)
  BY DEF Kept
<1>3. ASSUME NEW s, NEW v PROVE Available(s, v)' <=> Available(s, v)
  BY DEF Available, Held, HomeOf, Gen!InRegister, Gen!Place
<1>4. ASSUME NEW S PROVE Fine(S)' = Fine(S)
  BY <1>1, <1>2, <1>3 DEF Fine
<1> QED BY <1>4 DEF Destination, Goal

\* The invariant of the execution.
XInv ==
    /\ stage \in {"liveness", "scan", "compiled", "failed", "running", "returned"}
    /\ stage \in {"compiled", "running", "returned"} => phase = "done" /\ ~Gen!CompilerFails
    /\ at \in Stmt \cup {-1} /\ (stage \notin {"running", "returned"} => at = -1)
    /\ DOMAIN regs = AllRegs
    /\ stage = "running" => Safe(code, Here, Destination)

LEMMA InitXInv == Init => XInv
BY DEF Init, XInv

\* What is known of the passes once the function is compiled.
LEMMA Compiled ==
    ASSUME BInv, SparesFindings, stage # "liveness", phase = "done"
    PROVE  Placement /\ Solution /\ DefsApart /\ EntryApart
<1>1. Solution
  BY AnalysisSolves DEF BInv
<1> QED BY <1>1, PlacementHolds, DefsAreApart, EntryIsApart

\* Safe code that has come to its end is where it leads to.
LEMMA SafeEnd ==
    ASSUME NEW s, NEW Q, NEW c, c = << >>, Safe(c, s, Q)
    PROVE  s \in Q
<1>1. Len(c) = 0
  OBVIOUS
<1> QED BY <1>1 DEF Safe, Leads

\* An instruction does what Effect says.
LEMMA InstructionStep ==
    ASSUME Here \in State, Head(code) \in Instruction,
           WriteRegister \/ WriteMemory \/ ReadOnly \/ CallFunction \/ CommitAssignment
    PROVE  Here' = Effect(Here, Head(code))
<1> DEFINE i == Head(code)
           e == Effect(Here, i)
<1>1. /\ regs = [r \in AllRegs |-> regs[r]] /\ mem = [l \in Locs |-> mem[l]]
      /\ DOMAIN regs = AllRegs /\ DOMAIN mem = Locs
      /\ Here.regs = regs /\ Here.mem = mem /\ Here.defined = defined
  BY DEF State, Here
<1>2. e = [regs |-> e.regs, mem |-> e.mem, defined |-> e.defined]
      /\ e.regs = [r \in AllRegs |-> e.regs[r]] /\ e.mem = [l \in Locs |-> e.mem[l]]
  BY DEF Effect
<1>3. Instr = i
  BY DEF Instr
<1>4. ASSUME /\ \A r \in AllRegs : regs'[r] = e.regs[r]
             /\ \A l \in Locs : mem'[l] = e.mem[l]
             /\ regs' = [r \in AllRegs |-> regs'[r]] /\ mem' = [l \in Locs |-> mem'[l]]
             /\ defined' = e.defined
      PROVE  Here' = e
  <2> HIDE DEF e
  <2>1. regs' = e.regs /\ mem' = e.mem
    BY <1>2, <1>4
  <2> QED BY <1>2, <1>4, <2>1 DEF Here
<1>5. CASE WriteRegister
  <2>1. PICK op \in {"load", "calc", "move"} :
            /\ i.op = op
            /\ regs' = [regs EXCEPT ![i.dst] = CASE op = "load" -> mem[i.loc]
                                                 [] op = "calc" -> {i.val}
                                                 [] op = "move" -> regs[i.src]]
            /\ mem' = mem /\ defined' = defined
    BY <1>3, <1>5 DEF WriteRegister, Executing
  <2>2. regs' = [r \in AllRegs |-> regs'[r]]
    BY <1>1, <2>1
  <2>3. \A r \in AllRegs : regs'[r] = e.regs[r]
    BY <1>1, <2>1 DEF Effect
  <2>4. defined' = e.defined /\ \A l \in Locs : mem'[l] = e.mem[l]
    BY <1>1, <2>1 DEF Effect
  <2> QED BY <1>1, <1>4, <2>1, <2>2, <2>3, <2>4
<1>6. CASE WriteMemory
  <2>1. i.op = "store" /\ mem' = [mem EXCEPT ![i.loc] = regs[i.src]] /\ regs' = regs /\ defined' = defined
    BY <1>3, <1>6 DEF WriteMemory, Executing
  <2>2. mem' = [l \in Locs |-> mem'[l]]
    BY <1>1, <2>1
  <2>3. \A l \in Locs : mem'[l] = e.mem[l]
    BY <1>1, <2>1 DEF Effect
  <2>4. defined' = e.defined /\ \A r \in AllRegs : regs'[r] = e.regs[r]
    BY <1>1, <2>1 DEF Effect
  <2> QED BY <1>1, <1>4, <2>1, <2>2, <2>3, <2>4
<1>7. CASE ReadOnly
  <2>1. i.op = "use" /\ mem' = mem /\ regs' = regs /\ defined' = defined
    BY <1>3, <1>7 DEF ReadOnly, Executing
  <2>2. /\ defined' = e.defined /\ \A r \in AllRegs : regs'[r] = e.regs[r]
        /\ \A l \in Locs : mem'[l] = e.mem[l]
    BY <1>1, <2>1 DEF Effect
  <2> QED BY <1>1, <1>4, <2>1, <2>2
<1>8. CASE CallFunction
  <2>1. /\ i.op = "call" /\ defined' = defined
        /\ regs' = [r \in AllRegs |->
                        IF r = ParamRegs[1] THEN {Result}
                        ELSE IF r \in ToSet(CalleeSaved) \cup {x0} THEN regs[r] \ Globals
                        ELSE Unknown]
        /\ mem' = [l \in DOMAIN mem |-> IF l \in Globals THEN mem[l] ELSE mem[l] \ Globals]
    BY <1>3, <1>8 DEF CallFunction, Executing
  <2>2. /\ defined' = e.defined /\ \A r \in AllRegs : regs'[r] = e.regs[r]
        /\ \A l \in Locs : mem'[l] = e.mem[l]
    BY <1>1, <2>1 DEF Effect
  <2>3. regs' = [r \in AllRegs |-> regs'[r]] /\ mem' = [l \in Locs |-> mem'[l]]
    BY <1>1, <2>1
  <2> QED BY <1>4, <2>2, <2>3
<1>9. CASE CommitAssignment
  <2>1. /\ i.op = "commit"
        /\ regs' = [r \in AllRegs |-> Renamed(regs[r], i.lhs, i.from)]
        /\ mem' = [l \in DOMAIN mem |-> Renamed(mem[l], i.lhs, i.from)]
        /\ defined' = IF i.from \in Name \ defined THEN defined \ {i.lhs} ELSE defined \cup {i.lhs}
    BY <1>3, <1>9 DEF CommitAssignment, Executing, Renamed
  <2>2. /\ defined' = e.defined /\ \A r \in AllRegs : regs'[r] = e.regs[r]
        /\ \A l \in Locs : mem'[l] = e.mem[l]
    BY <1>1, <2>1 DEF Effect
  <2>3. regs' = [r \in AllRegs |-> regs'[r]] /\ mem' = [l \in Locs |-> mem'[l]]
    BY <1>1, <2>1
  <2> QED BY <1>4, <2>2, <2>3
<1> QED BY <1>5, <1>6, <1>7, <1>8, <1>9

\* Values within a statement are forgotten: no variable is.
LEMMA LastingFine ==
    ASSUME NEW S, NEW q \in Fine(S), NEW w,
           w = [regs |-> [r \in AllRegs |-> q.regs[r] \ {Num, Result, Address}],
                mem |-> [l \in Locs |-> q.mem[l] \ {Num, Result, Address}],
                defined |-> q.defined],
           Placement
    PROVE  w \in Fine(S)
<1>1. q \in State /\ Kept(q) /\ \A v \in S : Available(q, v)
  BY DEF Fine
<1>2. w \in State /\ w.defined = q.defined
  BY <1>1 DEF State
<1>3. \A v \in Name \cup AllRegs \cup {Zero} :
        /\ \A r \in AllRegs : v \in q.regs[r] => v \in w.regs[r]
        /\ \A l \in Locs : v \in q.mem[l] => v \in w.mem[l]
  BY NameFacts
<1>4. Kept(w)
  <2>1. Zero \in w.regs[x0]
    BY <1>1, <1>3, RegFacts DEF Kept
  <2>2. ASSUME NEW r \in ToSet(CalleeSaved)
        PROVE  r \in (IF r \in usedRegs THEN w.mem[reg2stack[r]] ELSE w.regs[r])
    <3>1. r \in AllRegs /\ (r \in usedRegs => reg2stack[r] \in Locs)
      BY RegFacts DEF Placement, Locs
    <3> QED BY <1>1, <1>3, <3>1 DEF Kept
  <2> QED BY <2>1, <2>2 DEF Kept
<1>5. ASSUME NEW v \in S PROVE Available(w, v)
  <2>1. v = Zero => Zero \in w.regs[x0]
    BY <1>4 DEF Kept
  <2>2. ASSUME v \in w.defined, Held(v) PROVE v \in HomeOf(w, v)
    <3>1. v \in HomeOf(q, v)
      BY <1>1, <1>2, <2>2 DEF Available
    <3>2. v \in Name
      BY <2>2, NameFacts DEF Held
    <3>3. IF Gen!InRegister(v) THEN var2reg[v] \in AllRegs ELSE Gen!Place(v) \in Locs
      BY <2>2, <3>2, HomeType, RegFacts
    <3> QED BY <1>3, <3>1, <3>2, <3>3 DEF HomeOf
  <2> QED BY <2>1, <2>2 DEF Available
<1> QED BY <1>2, <1>4, <1>5 DEF Fine


\* The passes are over when the function is executed.
LEMMA StepXInv ==
    ASSUME BInv, XInv, SparesFindings, [Next]_vars
    PROVE  XInv'
<1> DEFINE placed == <<program, liveVars, scanVars>>
<1>1. UNCHANGED <<program, scanVars>> => (Gen!CompilerFails' <=> Gen!CompilerFails)
  BY DEF scanVars, Gen!CompilerFails, Gen!IsUseless, Gen!CannotFetch, Gen!InRegister
<1>2. ASSUME UNCHANGED <<placed, at>>, stage = "running", stage' = "running", DOMAIN regs' = AllRegs,
             Safe(code', Here', Destination)
      PROVE  XInv'
  <2>1. Destination' = Destination
    BY <1>2, DestinationUnchanged DEF liveVars, scanVars
  <2>2. Safe(code', Here', Destination')
    BY <1>2, <2>1
  <2>3. Safe(code, Here, Destination)'
    BY <1>2, <2>2, SafeUnchanged DEF scanVars
  <2>4. phase' = phase
    BY <1>2 DEF scanVars
  <2> QED BY <1>1, <1>2, <2>3, <2>4 DEF XInv
<1>3. CASE Analyse \/ CalLiveIntervals \/ Allocate
  <2>1. /\ stage \in {"liveness", "scan"} /\ stage' \in {"liveness", "scan"}
        /\ at' = at /\ regs' = regs
    BY <1>3 DEF Analyse, CalLiveIntervals, Allocate, execVars
  <2> QED BY <2>1 DEF XInv
<1>4. CASE Compile
  <2>1. /\ stage = "scan" /\ phase' = "done" /\ UNCHANGED <<program, scanVars, at, regs>>
        /\ stage' = IF Gen!CompilerFails THEN "failed" ELSE "compiled"
    BY <1>4 DEF Compile, scanVars, execVars
  <2> QED BY <1>1, <2>1 DEF XInv
<1>5. CASE Enter
  <2>1. /\ stage = "compiled" /\ stage' = "running" /\ UNCHANGED <<placed, at>>
    BY <1>5 DEF Enter
  <2>2. phase = "done" /\ at = -1 /\ ~Gen!CompilerFails
    BY <2>1 DEF XInv
  <2>3. Placement /\ EntryApart
    BY <2>1, <2>2, Compiled
  <2>4. PICK arrays \in SetToSeqs(ArraysInRegisters) : code' = Gen!Entry(arrays)
    BY <1>5 DEF Enter
  <2>5. Here' = AtCall /\ DOMAIN regs' = AllRegs
    BY <1>5 DEF Enter, Here, AtCall, Locs
  <2>6. Safe(code', Here', Fine(liveIn[0] \cup Globals))
    BY <2>1, <2>3, <2>4, <2>5, EntrySafe
  <2>7. Destination' = Destination /\ Destination = Fine(liveIn[0] \cup Globals)
    BY <2>1, <2>2, DestinationUnchanged DEF Destination, liveVars, scanVars
  <2>8. Safe(code, Here, Destination)'
    BY <2>1, <2>6, <2>7, SafeUnchanged DEF scanVars
  <2>9. phase' = phase
    BY <2>1 DEF scanVars
  <2> QED BY <1>1, <2>1, <2>2, <2>5, <2>8, <2>9 DEF XInv
<1>6. CASE WriteRegister \/ WriteMemory \/ ReadOnly \/ CallFunction \/ CommitAssignment
  <2>1. /\ stage = "running" /\ stage' = stage /\ code # << >> /\ code' = Tail(code) /\ UNCHANGED <<placed, at>>
    BY <1>6 DEF WriteRegister, WriteMemory, ReadOnly, CallFunction, CommitAssignment, Executing
  <2>2. Safe(code, Here, Destination)
    BY <2>1 DEF XInv
  <2>3. Here \in State /\ Head(code) \in Instruction /\ Safe(Tail(code), Effect(Here, Head(code)), Destination)
    BY <2>1, <2>2, SafeState, SafeRest
  <2>4. Here' = Effect(Here, Head(code))
    BY <1>6, <2>3, InstructionStep
  <2>5. DOMAIN regs' = AllRegs
    <3>1. Here' \in State
      BY <2>3, <2>4, EffectType
    <3> QED BY <3>1 DEF State, Here
  <2> QED BY <1>2, <2>1, <2>3, <2>4, <2>5
<1>7. CASE ReturnToCaller
  <2>1. stage = "running" /\ stage' = "returned" /\ UNCHANGED <<program, scanVars, at, regs>>
    BY <1>7 DEF ReturnToCaller, Executing
  <2>2. phase' = phase
    BY <2>1 DEF scanVars
  <2> QED BY <1>1, <2>1, <2>2 DEF XInv
<1>8. CASE NextStatement
  <2>1. stage = "running" /\ stage' = stage /\ code = << >> /\ UNCHANGED placed
    BY <1>8 DEF NextStatement
  <2>2. PICK n \in IF at = -1 THEN {0} ELSE graph.succs[at] : at' = n /\ code' = Gen!Statement(n)
    BY <1>8 DEF NextStatement
  <2>3. phase = "done" /\ ~Gen!CompilerFails /\ program \in Programs /\ graph = GraphOf(program)
    BY <2>1 DEF XInv, BInv
  <2>4. Placement /\ Solution /\ DefsApart
    BY <2>1, <2>3, Compiled
  <2>5. Here \in Destination
    <3>1. Safe(code, Here, Destination)
      BY <2>1 DEF XInv
    <3> QED BY <2>1, <3>1, SafeEnd
  <2>6. n \in Stmt /\ Here \in Fine(liveIn[n] \cup Globals)
    <3>1. CASE at = -1
      BY <2>2, <2>5, <3>1, SizeAssumption DEF Destination, Stmt
    <3>2. CASE at # -1
      <4>1. at \in Stmt
        BY <3>2 DEF XInv
      <4>2. n \in Succs(program, at) /\ n \in Stmt
        BY <2>2, <2>3, <3>2, <4>1, GraphFacts
      <4>3. liveIn[n] \subseteq liveOut[at]
        BY <2>4, <4>1, <4>2 DEF Solution
      <4>4. Here \in Fine(liveOut[at] \cup Globals)
        BY <2>5, <3>2 DEF Destination, Goal
      <4>5. Fine(liveOut[at] \cup Globals) \subseteq Fine(liveIn[n] \cup Globals)
        <5>1. liveIn[n] \cup Globals \subseteq liveOut[at] \cup Globals
          BY <4>3
        <5> QED BY <5>1, FineFewer
      <4> QED BY <4>2, <4>4, <4>5
    <3> QED BY <3>1, <3>2
  <2>7. Here' \in Fine(liveIn[n] \cup Globals)
    <3> DEFINE w == [regs |-> [r \in AllRegs |-> Here.regs[r] \ {Num, Result, Address}],
                     mem |-> [l \in Locs |-> Here.mem[l] \ {Num, Result, Address}],
                     defined |-> Here.defined]
    <3>1. w \in Fine(liveIn[n] \cup Globals)
      BY <2>4, <2>6, LastingFine
    <3>2. Here.regs = regs /\ Here.mem = mem /\ Here.defined = defined /\ DOMAIN mem = Locs
      BY <2>6 DEF Here, Fine, State
    <3>3. /\ regs' = [r \in AllRegs |-> regs[r] \ {Num, Result, Address}]
          /\ mem' = [l \in DOMAIN mem |-> mem[l] \ {Num, Result, Address}]
          /\ defined' = defined
      BY <1>8 DEF NextStatement
    <3>4. Here' = w
      BY <3>2, <3>3 DEF Here
    <3> QED BY <3>1, <3>4
  <2>8. Safe(code', Here', Goal(n))
    BY <2>1, <2>2, <2>3, <2>4, <2>6, <2>7, StatementSafe
  <2>9. Destination' = Goal(n)
    <3>1. at' # -1
      BY <2>2, <2>6, SizeAssumption DEF Stmt
    <3>2. Goal(n)' = Goal(n)
      <4>1. UNCHANGED <<stk, usedRegs, reg2stack, var2reg, var2stack, liveOut>>
        BY <2>1 DEF liveVars, scanVars
      <4>2. State' = State
        BY <4>1 DEF State, Locs
      <4>3. ASSUME NEW s PROVE Kept(s)' <=> Kept(s)
        BY <4>1 DEF Kept
      <4>4. ASSUME NEW s, NEW v PROVE Available(s, v)' <=> Available(s, v)
        BY <4>1 DEF Available, Held, HomeOf, Gen!InRegister, Gen!Place
      <4> QED BY <4>1, <4>2, <4>3, <4>4 DEF Goal, Fine
    <3> QED BY <2>2, <3>1, <3>2 DEF Destination
  <2>10. Safe(code, Here, Destination)'
    BY <2>1, <2>8, <2>9, SafeUnchanged DEF scanVars
  <2>11. DOMAIN regs' = AllRegs /\ phase' = phase
    BY <1>8, <2>1 DEF NextStatement, scanVars
  <2> QED BY <1>1, <2>1, <2>2, <2>3, <2>6, <2>10, <2>11 DEF XInv
<1>9. CASE UNCHANGED vars
  <2>1. UNCHANGED <<placed, at, code, stage, regs, mem, defined>>
    BY <1>9 DEF vars, execVars
  <2>2. Here' = Here /\ phase' = phase
    BY <2>1 DEF Here, scanVars
  <2>3. CASE stage = "running"
    <3>1. Safe(code', Here', Destination)
      BY <2>1, <2>2, <2>3 DEF XInv
    <3> QED BY <1>2, <2>1, <2>3, <3>1 DEF XInv
  <2>4. CASE stage # "running"
    BY <1>1, <2>1, <2>2, <2>4 DEF XInv
  <2> QED BY <2>3, <2>4
<1> QED BY <1>3, <1>4, <1>5, <1>6, <1>7, <1>8, <1>9 DEF Next, Execute


LEMMA Executions == Spec /\ []SparesFindings => [](BInv /\ XInv)
<1>1. BInv /\ XInv /\ SparesFindings /\ [Next]_vars => XInv'
  BY StepXInv
<1> QED BY <1>1, InitBInv, InitXInv, StepBInv, PTL DEF Spec

\* The functions of the runs that must pass are of that kind.
LEMMA Spares ==
    ASSUME \A p \in Programs : Spared(p)
    PROVE  Spec => []SparesFindings
<1>1. BInv => SparesFindings
  BY SizeAssumption DEF BInv, Spared, SparesFindings
<1> QED BY <1>1, InitBInv, StepBInv, PTL DEF Spec

\* Next to the Eeyore statement that it is made from, every instruction finds
\* the operands the statement means, whatever path led there: the code of a
\* function of any size, with any number of variables and registers, computes
\* on the right values.
THEOREM OperandsFound == Spec /\ []SparesFindings => []OperandsCurrent
<1>1. BInv /\ XInv => OperandsCurrent
  <2> SUFFICES ASSUME XInv, stage = "running", code # << >>,
                      NEW read \in Instr.reads, read[2] \in Name => read[2] \in defined
               PROVE  read[2] \in regs[read[1]]
    BY DEF OperandsCurrent
  <2>1. Allowed(Here, Instr)
    BY SafeRest DEF XInv, Instr
  <2> QED BY <2>1 DEF Allowed, Holding, Here
<1> QED BY <1>1, Executions, PTL

\* Between two statements, what is live is where linear_scan put it, on every
\* path: no assignment or call takes a register from a variable that is
\* still needed.
THEOREM ValuesHome == Spec /\ []SparesFindings => []LiveValuesHome
<1>1. BInv /\ XInv => LiveValuesHome
  <2> SUFFICES ASSUME BInv, XInv, stage = "running", code = << >>, at >= 0,
                      NEW v \in liveOut[at] \cap defined,
                      v \in Params \cup Arrays \cup GlobalArrays => Gen!InRegister(v)
               PROVE  v \in Home(v)
    BY DEF LiveValuesHome
  <2>1. at \in Stmt /\ at # -1
    BY DEF XInv
  <2>2. Here \in Fine(liveOut[at] \cup Globals)
    BY <2>1, SafeEnd DEF XInv, Destination, Goal
  <2>3. v \in Name
    <3>1. Analysis!Node = Stmt
      BY DEF Analysis!Node, Analysis!Stmt, Stmt
    <3> QED BY <2>1, <3>1 DEF BInv, Analysis!TypeOK
  <2>4. Held(v)
    BY <2>3, NameFacts DEF Held, Gen!InRegister
  <2>5. v \in HomeOf(Here, v)
    BY <2>2, <2>4 DEF Fine, Available, Here
  <2> QED BY <2>5 DEF HomeOf, Home, Here
<1> QED BY <1>1, Executions, PTL

\* A call and a return find every global that has a value in memory, where
\* the other function looks for it.
THEOREM GlobalsVisible == Spec /\ []SparesFindings => []GlobalsInMemory
<1>1. BInv /\ XInv => GlobalsInMemory
  <2> SUFFICES ASSUME XInv, stage = "running", code # << >>, Instr.op \in {"call", "return"},
                      NEW g \in Globals \cap defined
               PROVE  g \in mem[g]
    BY DEF GlobalsInMemory
  <2>1. Allowed(Here, Instr)
    BY SafeRest DEF XInv, Instr
  <2> QED BY <2>1 DEF Allowed, Here
<1> QED BY <1>1, Executions, PTL

\* All passes stay within their types, and the code within its frame.
LEMMA PassTypes == BInv => Live!TypeOK /\ Scan!TypeOK
<1> SUFFICES ASSUME BInv PROVE Live!TypeOK /\ Scan!TypeOK
  OBVIOUS
<1>1. Live!Node = Stmt /\ Analysis!Node = Stmt
  BY DEF Live!Node, Live!Stmt, Analysis!Node, Analysis!Stmt, Stmt
<1>2. Live!TypeOK
  <2>1. graph = GraphOf(program) /\ Live!IsFlowGraph(graph)
    BY ProgramAssumption DEF BInv, IsProgram
  <2>2. graph = [succs |-> graph.succs, preds |-> graph.preds, def |-> graph.def, use |-> graph.use]
    BY <2>1 DEF GraphOf
  <2>3. /\ graph.succs \in [Stmt -> SUBSET Stmt] /\ graph.preds \in [Stmt -> Seq(Stmt)]
        /\ graph.def \in [Stmt -> SUBSET Name] /\ graph.use \in [Stmt -> SUBSET Name]
    BY <1>1, <2>1 DEF Live!IsFlowGraph
  <2>4. graph \in [succs : [Stmt -> SUBSET Stmt], preds : [Stmt -> Seq(Stmt)],
                   def : [Stmt -> SUBSET Name], use : [Stmt -> SUBSET Name]]
    BY <2>2, <2>3
  <2> QED BY <1>1, <2>4 DEF BInv, Analysis!TypeOK, Live!TypeOK
<1>2a. Scan!Reg = Alloc!Reg /\ CalleeSaved \in Seq(Scan!Reg) /\ CallerSaved \in Seq(Scan!Reg)
       /\ ParamRegs \in Seq(Scan!Reg)
  BY RegAssumption DEF Scan!Reg, Alloc!Reg, Scan!Elements, Alloc!Elements
<1>3. CASE stage = "liveness"
  <2>1. Scan!Init
    BY <1>3 DEF BInv
  <2>2. Scan!SaveOrder \in Seq(Scan!Reg)
    BY <1>2a DEF Scan!SaveOrder
  <2>3. Scan!TypeOK
    BY <2>1, <2>2 DEF Scan!Init, Scan!TypeOK, Scan!NoSlot
  <2> QED BY <1>2, <2>3
<1>4. CASE stage # "liveness"
  <2>1. Alloc!TypeOK /\ input = ScanInput
    BY <1>4 DEF BInv, AllocInv, Alloc!IInv
  <2>2. \A v \in Var : Intervals!StartOf(v) \in -2 .. NumStmts - 1 /\ Intervals!EndOf(v) \in -2 .. NumStmts - 1
    <3> TAKE v \in Var
    <3>1. Intervals!LiveAfter(v) \subseteq Stmt /\ Intervals!LiveBefore(v) \subseteq Stmt
      BY DEF Intervals!LiveAfter, Intervals!LiveBefore, Intervals!Stmt, Stmt
    <3>2. Intervals!StartOf(v) \in -2 .. NumStmts - 1
      BY <3>1, FirstAndLast, SizeAssumption DEF Intervals!StartOf, Intervals!AtEntry, Intervals!NotLive, Stmt
    <3>3. Intervals!EndOf(v) \in -2 .. NumStmts - 1
      BY <3>1, FirstAndLast, SizeAssumption DEF Intervals!EndOf, Stmt
    <3> QED BY <3>2, <3>3
  <2>3. input \in [start : [Var -> -2 .. NumStmts - 1], end : [Var -> -2 .. NumStmts - 1], calls : BOOLEAN]
    BY <2>1, <2>2 DEF ScanInput, HasCall
  <2>4. Scan!TypeOK
    BY <1>2a, <2>1, <2>3 DEF Alloc!TypeOK, Scan!TypeOK, Scan!NoSlot, Alloc!NoSlot
  <2> QED BY <1>2, <2>4
<1> QED BY <1>3, <1>4

\* The passes keep within their types, and the code that runs within the
\* stack frame that linear_scan laid out.
THEOREM TypeCorrect == Spec /\ []SparesFindings => []TypeOK
<1>1. BInv /\ XInv => TypeOK
  <2> SUFFICES ASSUME BInv, XInv PROVE TypeOK
    OBVIOUS
  <2>1. ASSUME stage = "running"
        PROVE  /\ DOMAIN mem = Globals \cup 0 .. stk - 1
               /\ (code # << >> /\ "loc" \in DOMAIN Instr) => Instr.loc \in DOMAIN mem
    <3>1. Safe(code, Here, Destination)
      BY <2>1 DEF XInv
    <3>2. DOMAIN mem = Locs
      BY <3>1, SafeState DEF State, Here
    <3>3. ASSUME code # << >>, "loc" \in DOMAIN Instr PROVE Instr.loc \in Locs
      <4>1. Instr \in Instruction
        BY <3>1, <3>3, SafeRest DEF Instr
      <4> QED BY <3>3, <4>1 DEF Instruction
    <3> QED BY <3>2, <3>3 DEF Locs
  <2> QED BY <2>1, PassTypes DEF XInv, TypeOK
<1> QED BY <1>1, Executions, PTL

=============================================================================
