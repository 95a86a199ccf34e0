-------------------------- MODULE LinearScanProofs --------------------------
(***************************************************************************)
(* Proofs about LinearScan, for every number of registers, set of          *)
(* variables and live intervals.  Completion is left to TLC.               *)
(***************************************************************************)
EXTENDS LinearScan, TLAPS

\* The intervals are pairs of integers.
LEMMA IntervalTypes ==
    ASSUME TypeOK, NEW v \in Var
    PROVE  Start(v) \in Int /\ End(v) \in Int
BY InputAssumption DEF TypeOK, Start, End

\* Every variable takes at least one word.
LEMMA SizeType == \A v \in Var : Size(v) \in Nat \ {0}
BY VarAssumption DEF Size

\* All registers are in the order in which they get their save slots.
LEMMA SaveOrderAll == SaveOrder \in Seq(Reg) /\ Elements(SaveOrder) = Reg
<1>1. SaveOrder \in Seq(Reg)
  BY RegAssumption DEF SaveOrder
<1>2. \A s, t \in Seq(Reg) : Elements(s \o t) = Elements(s) \cup Elements(t)
  <2> SUFFICES ASSUME NEW s \in Seq(Reg), NEW t \in Seq(Reg)
               PROVE  Elements(s \o t) = Elements(s) \cup Elements(t)
    OBVIOUS
  <2>1. \A e \in Elements(s) : e \in Elements(s \o t)
    BY DEF Elements
  <2>2. \A e \in Elements(t) : e \in Elements(s \o t)
    <3> TAKE e \in Elements(t)
    <3>1. PICK i \in 1 .. Len(t) : e = t[i]
      BY DEF Elements
    <3>2. (Len(s) + i) \in 1 .. Len(s \o t) /\ (s \o t)[Len(s) + i] = e
      BY <3>1
    <3> QED BY <3>2 DEF Elements
  <2>3. \A e \in Elements(s \o t) : e \in Elements(s) \cup Elements(t)
    <3> TAKE e \in Elements(s \o t)
    <3>1. PICK i \in 1 .. Len(s \o t) : e = (s \o t)[i]
      BY DEF Elements
    <3>2. i \in 1 .. Len(s) \/ (i - Len(s) \in 1 .. Len(t) /\ e = t[i - Len(s)])
      BY <3>1
    <3> QED BY <3>1, <3>2 DEF Elements
  <2> QED BY <2>1, <2>2, <2>3
<1>3. CalleeSaved \o CallerSaved \in Seq(Reg)
  BY RegAssumption
<1>4. Elements(SaveOrder) = (Elements(CalleeSaved) \cup Elements(CallerSaved)) \cup Elements(ParamRegs)
  BY <1>2, <1>3, RegAssumption DEF SaveOrder
<1> QED BY <1>1, <1>4 DEF Reg

\* Popping a queue of registers takes only its head away.
LEMMA PopSaves ==
    ASSUME NEW s \in Seq(Reg), s # << >>
    PROVE  /\ Head(s) \in Reg /\ Tail(s) \in Seq(Reg)
           /\ \A r \in Elements(s) : r = Head(s) \/ r \in Elements(Tail(s))
<1>1. \A r \in Elements(s) : r = Head(s) \/ r \in Elements(Tail(s))
  <2> TAKE r \in Elements(s)
  <2>1. PICK i \in 1 .. Len(s) : r = s[i]
    BY DEF Elements
  <2>2. CASE i = 1
    BY <2>1, <2>2
  <2>3. CASE i # 1
    <3>1. i - 1 \in 1 .. Len(Tail(s)) /\ r = Tail(s)[i - 1]
      BY <2>1, <2>3
    <3> QED BY <3>1 DEF Elements
  <2> QED BY <2>2, <2>3
<1> QED BY <1>1

-----------------------------------------------------------------------------
\* The state after the expired intervals have left active: what every case
\* of the scan starts from.
LEMMA ExpireFacts ==
    ASSUME IInv, phase = "scan", NEW v \in Var, IsFirst(v, todo)
    PROVE  /\ StillLive(v) \subseteq active /\ v \notin active
           /\ var2reg[v] = None /\ var2stack[v] = NoSlot
           /\ FreeAt(v) = Reg \ {var2reg[u] : u \in StillLive(v)}
           /\ \A u \in active : InRegister(u) /\ var2reg[u] \in Reg /\ var2reg[u] \in usedRegs
           /\ \A u, w \in active : var2reg[u] = var2reg[w] => u = w
           /\ \A u \in Var \ StillLive(v) : InRegister(u) =>
                End(u) <= Start(v) /\ \A w \in todo \ {v} : End(u) <= Start(w)
<1>1. v \in todo /\ \A w \in todo \ {v} : Start(v) <= Start(w)
  <2>1. \A w \in Var : Start(w) \in Int
    BY IntervalTypes DEF IInv
  <2> QED BY <2>1 DEF IInv, TypeOK, IsFirst, Before
<1>2. v \notin active /\ var2reg[v] = None /\ var2stack[v] = NoSlot
  BY <1>1 DEF IInv, ScanProgress, InRegister
<1>3. \A u \in active : InRegister(u) /\ var2reg[u] \in Reg /\ var2reg[u] \in usedRegs
  BY DEF IInv, TypeOK, RegistersAccountedFor, InRegister
<1>4. \A u, w \in active : var2reg[u] = var2reg[w] => u = w
  BY DEF IInv, RegistersAccountedFor
<1>5. FreeAt(v) = Reg \ {var2reg[u] : u \in StillLive(v)}
  BY <1>3, <1>4 DEF IInv, RegistersAccountedFor, FreeAt, StillLive, Expired
<1>6. ASSUME NEW u \in Var \ StillLive(v), InRegister(u)
      PROVE  End(u) <= Start(v) /\ \A w \in todo \ {v} : End(u) <= Start(w)
  <2>1. End(u) <= Start(v)
    <3>1. CASE u \in active
      BY <1>6, <3>1 DEF StillLive, Expired
    <3>2. CASE u \notin active
      BY <1>1, <1>6, <3>2 DEF IInv, ScanProgress
    <3> QED BY <3>1, <3>2
  <2>2. End(u) \in Int /\ Start(v) \in Int /\ \A w \in todo : Start(w) \in Int
    <3>1. \A w \in Var : Start(w) \in Int /\ End(w) \in Int
      BY IntervalTypes DEF IInv
    <3> QED BY <1>6, <3>1 DEF IInv, TypeOK
  <2> QED BY <1>1, <2>1, <2>2
<1>7. StillLive(v) \subseteq active
  BY DEF StillLive
<1> QED BY <1>2, <1>3, <1>4, <1>5, <1>6, <1>7

\* A free register goes to the current interval.
LEMMA AllocateIInv ==
    ASSUME IInv, NEW v \in Var, Allocate(v)
    PROVE  IInv'
<1> DEFINE live == StillLive(v)
<1>1. phase = "scan" /\ IsFirst(v, todo) /\ phase' = phase
  BY DEF Allocate, Visit
<1>2. PICK r \in FreeAt(v) :
        /\ var2reg' = [var2reg EXCEPT ![v] = r]
        /\ free' = FreeAt(v) \ {r}
        /\ usedRegs' = usedRegs \cup {r}
  BY DEF Allocate
<1>3. /\ live \subseteq active /\ v \notin active
      /\ var2reg[v] = None /\ var2stack[v] = NoSlot
      /\ FreeAt(v) = Reg \ {var2reg[u] : u \in live}
      /\ \A u \in active : InRegister(u) /\ var2reg[u] \in Reg /\ var2reg[u] \in usedRegs
      /\ \A u, w \in active : var2reg[u] = var2reg[w] => u = w
  BY <1>1, ExpireFacts
<1>4. \A u \in Var \ live : InRegister(u) =>
        End(u) <= Start(v) /\ \A w \in todo \ {v} : End(u) <= Start(w)
  BY <1>1, ExpireFacts
<1>5. /\ todo' = todo \ {v} /\ active' = live \cup {v} /\ v \in todo
      /\ UNCHANGED <<input, phase, saves, reg2stack, var2stack, stk>>
  BY DEF Allocate, Visit, IsFirst
<1>6. r \in Reg /\ r # None
  BY <1>2, <1>3, RegAssumption
<1>7. /\ \A u \in Var \ {v} : var2reg'[u] = var2reg[u]
      /\ var2reg'[v] = r
      /\ var2reg' \in [Var -> Reg \cup {None}]
  BY <1>2, <1>6 DEF IInv, TypeOK
<1>8. TypeOK'
  BY <1>2, <1>3, <1>5, <1>6, <1>7 DEF IInv, TypeOK
<1>9. RegistersAccountedFor'
  <2>1. \A u \in active' : InRegister(u)' /\ var2reg'[u] \in usedRegs'
    BY <1>2, <1>3, <1>5, <1>6, <1>7 DEF InRegister, IInv, TypeOK
  <2>2. \A u, w \in active' : var2reg'[u] = var2reg'[w] => u = w
    BY <1>2, <1>3, <1>5, <1>7 DEF IInv, TypeOK
  <2>3. free' = Reg \ {var2reg'[u] : u \in active'}
    BY <1>2, <1>3, <1>5, <1>7 DEF IInv, TypeOK
  <2> QED BY <2>1, <2>2, <2>3 DEF RegistersAccountedFor
<1>10. NoSharedRegister'
  <2>1. \A u \in Var \ {v} : InRegister(u) /\ var2reg[u] = r => End(u) <= Start(v)
    <3> SUFFICES ASSUME NEW u \in Var \ {v}, InRegister(u), var2reg[u] = r
                 PROVE  End(u) <= Start(v)
      OBVIOUS
    <3>1. u \notin live
      BY <1>2, <1>3
    <3> QED BY <1>4, <3>1
  <2> QED BY <1>5, <1>6, <1>7, <2>1 DEF IInv, NoSharedRegister, InRegister, End, Start
<1>11. ScanProgress'
  BY <1>1, <1>3, <1>4, <1>5, <1>6, <1>7 DEF IInv, TypeOK, ScanProgress, InRegister, End, Start
<1>12. FrameProgress'
  BY <1>1 DEF FrameProgress
<1>13. SaveProgress'
  <2>1. \A u \in Var : InRegister(u)' => var2reg'[u] \in usedRegs'
    BY <1>2, <1>7 DEF IInv, SaveProgress, InRegister
  <2>2. \A q \in usedRegs' : reg2stack'[q] # NoSlot \/ q \in Elements(saves')
    BY <1>1, <1>2, <1>5, <1>6, SaveOrderAll DEF IInv, SaveProgress
  <2> QED BY <1>1, <1>5, <2>1, <2>2 DEF IInv, SaveProgress
<1> QED BY <1>8, <1>9, <1>10, <1>11, <1>12, <1>13 DEF IInv

\* The interval that ends last gives its register to the current one.
LEMMA SpillActiveIInv ==
    ASSUME IInv, NEW v \in Var, SpillActive(v)
    PROVE  IInv'
<1> DEFINE live == StillLive(v)
<1>1. phase = "scan" /\ IsFirst(v, todo) /\ phase' = phase
  BY DEF SpillActive, Visit
<1>2. PICK spill \in live :
        /\ var2reg' = [var2reg EXCEPT ![v] = var2reg[spill], ![spill] = None]
        /\ active' = (live \ {spill}) \cup {v}
        /\ var2stack' = [var2stack EXCEPT ![spill] = stk]
        /\ stk' = stk + Size(spill)
  BY DEF SpillActive, AllocStackPos
<1> DEFINE r == var2reg[spill]
<1>3. /\ live \subseteq active /\ v \notin active
      /\ var2reg[v] = None /\ var2stack[v] = NoSlot
      /\ FreeAt(v) = Reg \ {var2reg[u] : u \in live}
      /\ \A u \in active : InRegister(u) /\ var2reg[u] \in Reg /\ var2reg[u] \in usedRegs
      /\ \A u, w \in active : var2reg[u] = var2reg[w] => u = w
  BY <1>1, ExpireFacts
<1>4. \A u \in Var \ live : InRegister(u) =>
        End(u) <= Start(v) /\ \A w \in todo \ {v} : End(u) <= Start(w)
  BY <1>1, ExpireFacts
<1>5. /\ todo' = todo \ {v} /\ v \in todo /\ free' = FreeAt(v)
      /\ UNCHANGED <<input, phase, saves, reg2stack, usedRegs>>
  BY DEF SpillActive, Visit, IsFirst
<1>6. r \in Reg /\ r # None /\ r \in usedRegs /\ spill # v /\ spill \in active /\ spill \in Var
  BY <1>2, <1>3, RegAssumption DEF IInv, TypeOK
<1>7. /\ \A u \in Var \ {v, spill} : var2reg'[u] = var2reg[u]
      /\ var2reg'[v] = r /\ var2reg'[spill] = None
      /\ var2reg' \in [Var -> Reg \cup {None}]
  BY <1>2, <1>6 DEF IInv, TypeOK
<1>8. /\ stk \in Nat /\ stk' \in Nat /\ var2stack'[spill] = stk /\ stk # NoSlot
      /\ \A u \in Var \ {spill} : var2stack'[u] = var2stack[u]
      /\ var2stack' \in [Var -> Int]
  BY <1>2, <1>6, SizeType DEF IInv, TypeOK, NoSlot
<1>9. TypeOK'
  BY <1>2, <1>3, <1>5, <1>6, <1>7, <1>8 DEF IInv, TypeOK
<1>10. RegistersAccountedFor'
  <2>1. \A u \in active' : InRegister(u)' /\ var2reg'[u] \in usedRegs'
    BY <1>2, <1>3, <1>5, <1>6, <1>7 DEF InRegister, IInv, TypeOK
  <2>2. \A u, w \in active' : var2reg'[u] = var2reg'[w] => u = w
    BY <1>2, <1>3, <1>6, <1>7 DEF IInv, TypeOK
  <2>3. {var2reg'[u] : u \in active'} = {var2reg[u] : u \in live}
    BY <1>2, <1>3, <1>6, <1>7 DEF IInv, TypeOK
  <2> QED BY <1>3, <1>5, <2>1, <2>2, <2>3 DEF RegistersAccountedFor
<1>11. NoSharedRegister'
  <2>1. \A u \in Var \ {v, spill} : InRegister(u) /\ var2reg[u] = r => End(u) <= Start(v)
    <3> SUFFICES ASSUME NEW u \in Var \ {v, spill}, InRegister(u), var2reg[u] = r
                 PROVE  End(u) <= Start(v)
      OBVIOUS
    <3>1. u \notin live
      BY <1>2, <1>3
    <3> QED BY <1>4, <3>1
  <2> QED BY <1>5, <1>6, <1>7, <2>1 DEF IInv, NoSharedRegister, InRegister, End, Start
<1>12. ScanProgress'
  <2>1. \A w \in todo' : ~InRegister(w)' /\ w \notin active' /\ var2stack'[w] = NoSlot
    BY <1>1, <1>2, <1>3, <1>5, <1>6, <1>7, <1>8 DEF IInv, TypeOK, ScanProgress, InRegister
  <2>2. \A w \in Var \ todo' : InRegister(w)' <=> var2stack'[w] = NoSlot
    BY <1>1, <1>3, <1>5, <1>6, <1>7, <1>8 DEF IInv, ScanProgress, InRegister
  <2>3. \A u \in Var \ active', w \in todo' : InRegister(u)' => End(u)' <= Start(w)'
    <3> SUFFICES ASSUME NEW u \in Var \ active', NEW w \in todo', InRegister(u)'
                 PROVE  End(u) <= Start(w)
      BY <1>5 DEF End, Start
    <3>1. u # v /\ u # spill /\ u \notin live
      BY <1>2, <1>7 DEF InRegister
    <3> QED BY <1>4, <1>5, <1>7, <3>1 DEF InRegister
  <2> QED BY <2>1, <2>2, <2>3 DEF ScanProgress
<1>13. FrameProgress'
  BY <1>1 DEF FrameProgress
<1>14. SaveProgress'
  BY <1>1, <1>5, <1>6, <1>7 DEF IInv, SaveProgress, InRegister
<1> QED BY <1>9, <1>10, <1>11, <1>12, <1>13, <1>14 DEF IInv

\* The current interval goes to the stack, the active ones keep their registers.
LEMMA SpillCurrentIInv ==
    ASSUME IInv, NEW v \in Var, SpillCurrent(v)
    PROVE  IInv'
<1>1. phase = "scan" /\ IsFirst(v, todo) /\ phase' = phase
  BY DEF SpillCurrent, Visit
<1>2. /\ StillLive(v) \subseteq active /\ v \notin active
      /\ var2reg[v] = None
      /\ FreeAt(v) = Reg \ {var2reg[u] : u \in StillLive(v)}
      /\ \A u \in active : InRegister(u) /\ var2reg[u] \in Reg /\ var2reg[u] \in usedRegs
      /\ \A u, w \in active : var2reg[u] = var2reg[w] => u = w
  BY <1>1, ExpireFacts
<1>3. \A u \in Var \ StillLive(v) : InRegister(u) => \A w \in todo \ {v} : End(u) <= Start(w)
  BY <1>1, ExpireFacts
<1>4. /\ todo' = todo \ {v} /\ v \in todo /\ free' = FreeAt(v) /\ active' = StillLive(v)
      /\ var2stack' = [var2stack EXCEPT ![v] = stk] /\ stk' = stk + Size(v)
      /\ UNCHANGED <<input, phase, saves, reg2stack, usedRegs, var2reg>>
  BY DEF SpillCurrent, Visit, IsFirst, AllocStackPos
<1>5. /\ stk \in Nat /\ stk' \in Nat /\ var2stack'[v] = stk /\ stk # NoSlot
      /\ \A u \in Var \ {v} : var2stack'[u] = var2stack[u]
      /\ var2stack' \in [Var -> Int]
  BY <1>4, SizeType DEF IInv, TypeOK, NoSlot
<1>6. TypeOK'
  BY <1>2, <1>4, <1>5 DEF IInv, TypeOK
<1>7. RegistersAccountedFor'
  BY <1>2, <1>4 DEF RegistersAccountedFor, InRegister
<1>8. NoSharedRegister'
  BY <1>4 DEF IInv, NoSharedRegister, InRegister, End, Start
<1>9. ScanProgress'
  <2>1. \A w \in todo' : ~InRegister(w)' /\ w \notin active' /\ var2stack'[w] = NoSlot
    BY <1>1, <1>2, <1>4, <1>5 DEF IInv, TypeOK, ScanProgress, InRegister
  <2>2. \A w \in Var \ todo' : InRegister(w)' <=> var2stack'[w] = NoSlot
    BY <1>1, <1>2, <1>4, <1>5 DEF IInv, ScanProgress, InRegister
  <2>3. \A u \in Var \ active', w \in todo' : InRegister(u)' => End(u)' <= Start(w)'
    BY <1>3, <1>4 DEF InRegister, End, Start
  <2> QED BY <2>1, <2>2, <2>3 DEF ScanProgress
<1>10. FrameProgress' /\ SaveProgress'
  BY <1>1, <1>4 DEF IInv, FrameProgress, SaveProgress, InRegister
<1> QED BY <1>6, <1>7, <1>8, <1>9, <1>10 DEF IInv

\* The later loops leave registers alone and hand out stack words.
LEMMA FrameIInv ==
    ASSUME IInv, ScanDone \/ FrameDone \/ SaveDone \/ SaveSlot \/ \E v \in Var : PlaceFrame(v)
    PROVE  IInv'
<1>1. CASE ScanDone
  <2>1. \A v \in Var : InRegister(v) <=> var2stack[v] = NoSlot
    BY <1>1 DEF ScanDone, IInv, ScanProgress
  <2>2. /\ phase = "scan" /\ phase' = "frame"
        /\ todo' = {v \in Params \cup Arrays : InRegister(v)}
        /\ UNCHANGED <<input, saves, active, free, var2reg, var2stack, reg2stack, usedRegs, stk>>
    BY <1>1 DEF ScanDone, InRegister
  <2>3. TypeOK'
    BY <2>2, VarAssumption DEF IInv, TypeOK
  <2>4. ScanProgress' /\ FrameProgress'
    BY <2>1, <2>2, VarAssumption DEF ScanProgress, FrameProgress, InRegister
  <2>5. SaveProgress'
    BY <2>2 DEF IInv, SaveProgress, InRegister
  <2> QED BY <2>2, <2>3, <2>4, <2>5 DEF IInv, RegistersAccountedFor,
       NoSharedRegister, InRegister, Start, End
<1>2. CASE FrameDone
  <2>1. /\ phase = "frame" /\ todo = {} /\ phase' = "save"
        /\ UNCHANGED <<input, todo, saves, active, free, var2reg, var2stack, reg2stack, usedRegs, stk>>
    BY <1>2 DEF FrameDone
  <2>2. \A v \in Params \cup Arrays : var2stack[v] # NoSlot
    BY <2>1, VarAssumption DEF IInv, FrameProgress
  <2>3. FrameProgress'
    BY <2>1, <2>2 DEF IInv, FrameProgress, InRegister
  <2> QED BY <2>1, <2>3 DEF IInv, TypeOK, RegistersAccountedFor,
       NoSharedRegister, ScanProgress, SaveProgress, InRegister, Start, End
<1>3. CASE SaveDone
  BY <1>3 DEF SaveDone, IInv, TypeOK, RegistersAccountedFor,
     NoSharedRegister, ScanProgress, FrameProgress, SaveProgress, InRegister, Start, End
<1>4. CASE SaveSlot
  <2>1. /\ Head(saves) \in Reg /\ Tail(saves) \in Seq(Reg) /\ saves' = Tail(saves)
        /\ \A r \in Elements(saves) : r = Head(saves) \/ r \in Elements(saves')
    BY <1>4, PopSaves DEF SaveSlot, IInv, TypeOK
  <2>2. /\ phase = "save" /\ phase' = phase /\ stk' \in Nat
        /\ UNCHANGED <<input, todo, active, free, var2reg, var2stack, usedRegs>>
        /\ reg2stack' \in [Reg -> Int]
        /\ \A r \in Reg \ {Head(saves)} : reg2stack'[r] = reg2stack[r]
    BY <1>4, <2>1 DEF SaveSlot, IInv, TypeOK
  <2>3. Head(saves) \in usedRegs => reg2stack'[Head(saves)] # NoSlot
    BY <1>4, <2>1 DEF SaveSlot, IInv, TypeOK, NoSlot
  <2>4. Head(saves) \notin usedRegs => reg2stack' = reg2stack
    BY <1>4 DEF SaveSlot
  <2>5. TypeOK'
    <3>1. \A r \in Reg : reg2stack'[r] # NoSlot => r \in usedRegs'
      BY <2>1, <2>2, <2>3, <2>4 DEF IInv, TypeOK
    <3> QED BY <2>1, <2>2, <3>1 DEF IInv, TypeOK
  <2>6. SaveProgress'
    BY <2>1, <2>2, <2>3 DEF IInv, TypeOK, SaveProgress, InRegister
  <2> QED BY <2>2, <2>5, <2>6 DEF IInv, RegistersAccountedFor,
       NoSharedRegister, ScanProgress, FrameProgress, InRegister, Start, End
<1>5. CASE \E v \in Var : PlaceFrame(v)
  <2>1. PICK v \in Var : PlaceFrame(v)
    BY <1>5
  <2>2. /\ phase = "frame" /\ v \in todo /\ todo' = todo \ {v}
        /\ var2stack' = [var2stack EXCEPT ![v] = stk] /\ stk' = stk + Size(v)
        /\ UNCHANGED <<input, phase, saves, active, free, var2reg, reg2stack, usedRegs>>
    BY <2>1 DEF PlaceFrame, AllocStackPos
  <2>3. /\ stk' \in Nat /\ var2stack'[v] # NoSlot /\ var2stack' \in [Var -> Int]
        /\ \A u \in Var \ {v} : var2stack'[u] = var2stack[u]
    BY <2>2, SizeType DEF IInv, TypeOK, NoSlot
  <2>4. TypeOK'
    BY <2>2, <2>3 DEF IInv, TypeOK
  <2>5. FrameProgress'
    BY <2>2, <2>3, VarAssumption DEF IInv, TypeOK, FrameProgress, InRegister
  <2> QED BY <2>2, <2>4, <2>5 DEF IInv, RegistersAccountedFor,
       NoSharedRegister, ScanProgress, SaveProgress, InRegister, Start, End
<1> QED BY <1>1, <1>2, <1>3, <1>4, <1>5

-----------------------------------------------------------------------------
\* Nothing is allocated to begin with.
LEMMA InitIInv == Init => IInv
<1> SUFFICES ASSUME Init PROVE IInv
  OBVIOUS
<1>1. TypeOK
  BY SaveOrderAll DEF Init, TypeOK, NoSlot
<1>2. \A v \in Var : ~InRegister(v)
  BY DEF Init, InRegister
<1> QED BY <1>1, <1>2 DEF Init, IInv, RegistersAccountedFor, NoSharedRegister,
     ScanProgress, FrameProgress, SaveProgress

\* Every iteration of every loop preserves the invariant.
LEMMA StepIInv == IInv /\ [Next]_vars => IInv'
<1> SUFFICES ASSUME IInv, [Next]_vars PROVE IInv'
  OBVIOUS
<1>1. ASSUME NEW v \in Var, Allocate(v) PROVE IInv'
  BY <1>1, AllocateIInv
<1>2. ASSUME NEW v \in Var, SpillActive(v) PROVE IInv'
  BY <1>2, SpillActiveIInv
<1>3. ASSUME NEW v \in Var, SpillCurrent(v) PROVE IInv'
  BY <1>3, SpillCurrentIInv
<1>4. CASE ScanDone \/ FrameDone \/ SaveDone \/ SaveSlot \/ \E v \in Var : PlaceFrame(v)
  BY <1>4, FrameIInv
<1>5. CASE UNCHANGED vars
  BY <1>5 DEF vars, IInv, TypeOK, RegistersAccountedFor, NoSharedRegister,
     ScanProgress, FrameProgress, SaveProgress, InRegister, Start, End
<1> QED BY <1>1, <1>2, <1>3, <1>4, <1>5 DEF Next

\* The invariant holds throughout.
LEMMA Invariance == Spec => []IInv
BY InitIInv, StepIInv, PTL DEF Spec

\* Type correctness.
THEOREM TypeCorrect == Spec => []TypeOK
<1>1. IInv => TypeOK
  BY DEF IInv
<1> QED BY <1>1, Invariance, PTL

\* Variables in the same register have live intervals that do not overlap.
THEOREM NoSharing == Spec => []NoSharedRegister
<1>1. IInv => NoSharedRegister
  BY DEF IInv
<1> QED BY <1>1, Invariance, PTL

\* Free registers and those of the active intervals share out all registers.
THEOREM Accounted == Spec => []RegistersAccountedFor
<1>1. IInv => RegistersAccountedFor
  BY DEF IInv
<1> QED BY <1>1, Invariance, PTL

\* The loops have come to their ends.
LEMMA AllArePlaced == IInv => AllPlaced
<1> SUFFICES ASSUME IInv, phase = "done" PROVE AllPlaced
  BY DEF AllPlaced
<1>1. \A r \in usedRegs : reg2stack[r] # NoSlot
  BY DEF IInv, SaveProgress, Elements
<1> QED BY <1>1 DEF IInv, AllPlaced, FrameProgress, SaveProgress

\* When the allocation is complete nothing is left without its place.
THEOREM Placed == Spec => []AllPlaced
BY AllArePlaced, Invariance, PTL

-----------------------------------------------------------------------------
\* alloc_stack_pos puts a variable above everything placed before.
LEMMA AllocDisjoint ==
    ASSUME TypeOK, FrameDisjoint, NEW v \in Var, AllocStackPos(v), reg2stack' = reg2stack
    PROVE  FrameDisjoint'
<1>1. /\ stk \in Nat /\ Size(v) \in Nat \ {0} /\ var2stack'[v] = stk /\ stk' = stk + Size(v)
      /\ \A u \in Var \ {v} : var2stack'[u] = var2stack[u]
  BY SizeType DEF TypeOK, AllocStackPos
<1>2. \A u \in Var : Size(u) \in Nat \ {0} /\ var2stack[u] \in Int
  BY SizeType DEF TypeOK
<1>3. \A r \in Reg : reg2stack[r] \in Int
  BY DEF TypeOK
<1>4. \A u \in Var \ {v} : var2stack'[u] # NoSlot =>
        /\ var2stack'[u] >= 0 /\ var2stack'[u] + Size(u) <= stk'
        /\ Apart(var2stack'[u], Size(u), stk, Size(v))
        /\ Apart(stk, Size(v), var2stack'[u], Size(u))
  BY <1>1, <1>2 DEF FrameDisjoint, Apart
<1>5. \A r \in Reg : reg2stack[r] # NoSlot =>
        /\ reg2stack[r] >= 0 /\ reg2stack[r] < stk'
        /\ Apart(stk, Size(v), reg2stack[r], 1)
        /\ \A q \in Reg \ {r} : reg2stack[q] # reg2stack[r]
  BY <1>1, <1>3 DEF FrameDisjoint, Apart
<1>6. \A u \in Var \ {v} : var2stack'[u] # NoSlot =>
        /\ \A w \in Var \ {u, v} : var2stack'[w] # NoSlot =>
             Apart(var2stack'[u], Size(u), var2stack'[w], Size(w))
        /\ \A r \in Reg : reg2stack[r] # NoSlot =>
             Apart(var2stack'[u], Size(u), reg2stack[r], 1)
  BY <1>1 DEF FrameDisjoint
<1>7. \A u \in Var : Size(u)' = Size(u)
  BY DEF Size
<1>8. \A u \in Var : var2stack'[u] # NoSlot =>
        /\ var2stack'[u] >= 0 /\ var2stack'[u] + Size(u) <= stk'
        /\ \A w \in Var \ {u} : var2stack'[w] # NoSlot =>
             Apart(var2stack'[u], Size(u), var2stack'[w], Size(w))
        /\ \A r \in Reg : reg2stack[r] # NoSlot =>
             Apart(var2stack'[u], Size(u), reg2stack[r], 1)
  <2> TAKE u \in Var
  <2>1. CASE u = v
    BY <1>1, <1>4, <1>5, <2>1
  <2>2. CASE u # v
    BY <1>1, <1>4, <1>6, <2>2
  <2> QED BY <2>1, <2>2
<1> QED BY <1>5, <1>7, <1>8 DEF FrameDisjoint, Apart

LEMMA InitFrame == Init => FrameDisjoint
BY DEF Init, FrameDisjoint

\* No step puts a slot where another is.
LEMMA StepFrame == TypeOK /\ FrameDisjoint /\ [Next]_vars => FrameDisjoint'
<1> SUFFICES ASSUME TypeOK, FrameDisjoint, [Next]_vars PROVE FrameDisjoint'
  OBVIOUS
<1>1. ASSUME NEW v \in Var, Allocate(v) PROVE FrameDisjoint'
  BY <1>1 DEF Allocate, Visit, FrameDisjoint, Apart, Size
<1>2. ASSUME NEW v \in Var, SpillActive(v) PROVE FrameDisjoint'
  <2>1. PICK spill \in StillLive(v) : AllocStackPos(spill)
    BY <1>2 DEF SpillActive
  <2>2. spill \in Var
    BY <2>1 DEF StillLive, TypeOK
  <2> QED BY <1>2, <2>1, <2>2, AllocDisjoint DEF SpillActive, Visit
<1>3. ASSUME NEW v \in Var, SpillCurrent(v) PROVE FrameDisjoint'
  BY <1>3, AllocDisjoint DEF SpillCurrent, Visit
<1>4. ASSUME NEW v \in Var, PlaceFrame(v) PROVE FrameDisjoint'
  BY <1>4, AllocDisjoint DEF PlaceFrame
<1>5. CASE ScanDone \/ FrameDone \/ SaveDone \/ UNCHANGED vars
  BY <1>5 DEF ScanDone, FrameDone, SaveDone, vars, FrameDisjoint, Apart, Size
<1>6. CASE SaveSlot
  <2>1. CASE Head(saves) \notin usedRegs
    BY <1>6, <2>1 DEF SaveSlot, FrameDisjoint, Apart, Size
  <2>2. CASE Head(saves) \in usedRegs
    <3> DEFINE h == Head(saves)
    <3>1. /\ h \in Reg /\ stk \in Nat /\ stk' = stk + 1 /\ reg2stack'[h] = stk
          /\ var2stack' = var2stack
          /\ \A r \in Reg \ {h} : reg2stack'[r] = reg2stack[r]
      BY <1>6, <2>2 DEF SaveSlot, TypeOK
    <3>2. \A u \in Var : Size(u) \in Nat \ {0} /\ var2stack[u] \in Int /\ Size(u)' = Size(u)
      BY SizeType DEF TypeOK, Size
    <3>3. \A r \in Reg : reg2stack[r] \in Int
      BY DEF TypeOK
    <3>4. \A u \in Var : var2stack[u] # NoSlot =>
            /\ var2stack[u] >= 0 /\ var2stack[u] + Size(u) <= stk'
            /\ Apart(var2stack[u], Size(u), stk, 1)
      BY <3>1, <3>2 DEF FrameDisjoint, Apart
    <3>5. \A r \in Reg : reg2stack'[r] # NoSlot =>
            /\ reg2stack'[r] >= 0 /\ reg2stack'[r] < stk'
            /\ \A q \in Reg \ {r} : reg2stack'[q] # reg2stack'[r]
      BY <3>1, <3>3 DEF FrameDisjoint, NoSlot
    <3>6. \A u \in Var, r \in Reg : var2stack[u] # NoSlot /\ reg2stack'[r] # NoSlot =>
            Apart(var2stack[u], Size(u), reg2stack'[r], 1)
      BY <3>1, <3>4 DEF FrameDisjoint
    <3> QED BY <3>1, <3>2, <3>4, <3>5, <3>6 DEF FrameDisjoint, Apart
  <2> QED BY <2>1, <2>2
<1> QED BY <1>1, <1>2, <1>3, <1>4, <1>5, <1>6 DEF Next

\* Nothing in the frame overlaps: not the slots of spilled variables, nor the
\* arrays, nor the save slots of registers.
THEOREM Frame == Spec => []FrameDisjoint
BY InitFrame, StepFrame, TypeCorrect, PTL DEF Spec

\* No step moves a slot or takes a spilled variable back into a register.
THEOREM FinalSlots == Spec => SlotsAreFinal
<1> DEFINE Final == \A v \in Var : var2stack[v] # NoSlot =>
                     /\ var2stack'[v] = var2stack[v]
                     /\ ~InRegister(v) => var2reg'[v] = None
<1>1. IInv /\ [Next]_vars => [Final]_vars
  <2> SUFFICES ASSUME IInv, Next PROVE Final
    OBVIOUS
  <2>1. ASSUME NEW v \in Var, Allocate(v) PROVE Final
    BY <2>1, ExpireFacts DEF Allocate, Visit, InRegister, IInv, TypeOK
  <2>2. ASSUME NEW v \in Var, SpillActive(v) PROVE Final
    <3>1. PICK spill \in StillLive(v) :
            /\ var2reg' = [var2reg EXCEPT ![v] = var2reg[spill], ![spill] = None]
            /\ var2stack' = [var2stack EXCEPT ![spill] = stk]
      BY <2>2 DEF SpillActive, AllocStackPos
    <3>2. phase = "scan" /\ var2stack[v] = NoSlot /\ spill \in active /\ InRegister(spill)
      BY <2>2, <3>1, ExpireFacts DEF SpillActive, Visit
    <3>3. spill \in Var /\ var2stack[spill] = NoSlot
      BY <3>2 DEF IInv, TypeOK, ScanProgress
    <3> QED BY <3>1, <3>2, <3>3 DEF InRegister, IInv, TypeOK
  <2>3. ASSUME NEW v \in Var, SpillCurrent(v) PROVE Final
    BY <2>3, ExpireFacts DEF SpillCurrent, Visit, AllocStackPos, InRegister, IInv, TypeOK
  <2>4. ASSUME NEW v \in Var, PlaceFrame(v) PROVE Final
    <3>1. var2stack[v] = NoSlot
      BY <2>4 DEF PlaceFrame, IInv, FrameProgress
    <3> QED BY <2>4, <3>1 DEF PlaceFrame, AllocStackPos, InRegister, IInv, TypeOK
  <2>5. CASE ScanDone \/ FrameDone \/ SaveSlot \/ SaveDone
    BY <2>5 DEF ScanDone, FrameDone, SaveSlot, SaveDone, InRegister
  <2> QED BY <2>1, <2>2, <2>3, <2>4, <2>5 DEF Next
<1> QED BY <1>1, Invariance, PTL DEF Spec, SlotsAreFinal

\* A variable goes to the stack only when every active interval, and that
\* of the variable which takes its register, ends no later.
THEOREM Heuristic == Spec => SpillsTheLastToEnd
<1> DEFINE LastToEnd == \A v \in Var :
                          (phase = "scan" /\ var2stack[v] = NoSlot /\ var2stack'[v] # NoSlot)
                              => \A u \in active' : End(u) <= End(v)
<1>1. ASSUME IInv, Next PROVE LastToEnd
  <2> USE <1>1
  <2>1. ASSUME NEW w \in Var, Allocate(w) PROVE LastToEnd
    BY <2>1 DEF Allocate
  <2>2. ASSUME NEW w \in Var, SpillActive(w) PROVE LastToEnd
    <3>1. PICK spill \in StillLive(w) :
            /\ EndsLast(spill, StillLive(w)) /\ End(spill) > End(w)
            /\ active' = (StillLive(w) \ {spill}) \cup {w}
            /\ var2stack' = [var2stack EXCEPT ![spill] = stk]
      BY <2>2 DEF SpillActive, AllocStackPos
    <3>2. StillLive(w) \subseteq Var /\ var2stack \in [Var -> Int]
      BY DEF StillLive, IInv, TypeOK
    <3>3. \A u \in Var : End(u) \in Int
      BY IntervalTypes DEF IInv, TypeOK
    <3>4. \A u \in active' : End(u) <= End(spill)
      BY <3>1, <3>2, <3>3 DEF EndsLast, EndsBefore
    <3>5. \A v \in Var : var2stack[v] = NoSlot /\ var2stack'[v] # NoSlot => v = spill
      BY <3>1, <3>2
    <3> QED BY <3>4, <3>5
  <2>3. ASSUME NEW w \in Var, SpillCurrent(w) PROVE LastToEnd
    <3>1. PICK spill \in StillLive(w) :
            EndsLast(spill, StillLive(w)) /\ End(spill) <= End(w)
      BY <2>3 DEF SpillCurrent
    <3>2. /\ active' = StillLive(w)
          /\ var2stack' = [var2stack EXCEPT ![w] = stk]
      BY <2>3 DEF SpillCurrent, AllocStackPos
    <3>3. StillLive(w) \subseteq Var /\ var2stack \in [Var -> Int]
      BY DEF StillLive, IInv, TypeOK
    <3>4. \A u \in Var : End(u) \in Int
      BY IntervalTypes DEF IInv, TypeOK
    <3>5. \A u \in active' : End(u) <= End(w)
      BY <3>1, <3>2, <3>3, <3>4 DEF EndsLast, EndsBefore
    <3>6. \A v \in Var : var2stack[v] = NoSlot /\ var2stack'[v] # NoSlot => v = w
      BY <3>2, <3>3
    <3> QED BY <3>5, <3>6
  <2>4. ASSUME NEW w \in Var, PlaceFrame(w) PROVE LastToEnd
    BY <2>4 DEF PlaceFrame
  <2>5. CASE ScanDone \/ FrameDone \/ SaveSlot \/ SaveDone
    BY <2>5 DEF ScanDone, FrameDone, SaveSlot, SaveDone
  <2> QED BY <2>1, <2>2, <2>3, <2>4, <2>5 DEF Next
<1>2. IInv /\ [Next]_vars => [LastToEnd]_vars
  BY <1>1
<1> QED BY <1>2, Invariance, PTL DEF Spec, SpillsTheLastToEnd

=============================================================================
