--------------------------- MODULE BackendProofs ----------------------------
(***************************************************************************)
(* Proofs about Backend, for functions of every size and every number of   *)
(* variables and registers: what the analysis of one pass means for the    *)
(* intervals of the next and the registers of the one after it.  The       *)
(* proofs about each pass by itself are cited from its module.             *)
(***************************************************************************)
EXTENDS Backend, NaturalLemmas, TLAPS

Analysis == INSTANCE LivenessProofs WITH
    Dead <- {}, Var <- Name, Graphs <- {GraphOf(p) : p \in Programs}

AnyInput == [start : [Var -> Int], end : [Var -> Int], calls : BOOLEAN]

Alloc == INSTANCE LinearScanProofs WITH Inputs <- AnyInput

\* Both instances of Liveness speak of the same graphs.
LEMMA SameGraphs == \A g : Live!IsFlowGraph(g) => Analysis!IsFlowGraph(g)
<1>1. Live!Node = Stmt /\ Analysis!Node = Stmt
  BY DEF Live!Node, Analysis!Node, Live!Stmt, Analysis!Stmt, Stmt
<1>2. \A s : Live!Elements(s) = Analysis!Elements(s)
  BY DEF Live!Elements, Analysis!Elements
<1> QED BY <1>1, <1>2 DEF Live!IsFlowGraph, Analysis!IsFlowGraph

\* What Liveness assumes holds of the programs.
LEMMA AnalysisAssumptions ==
    /\ NumStmts \in Nat \ {0}
    /\ \A g \in {GraphOf(p) : p \in Programs} : Analysis!IsFlowGraph(g)
<1>1. \A p \in Programs : Analysis!IsFlowGraph(GraphOf(p))
  BY ProgramAssumption, SameGraphs DEF IsProgram
<1> QED BY <1>1, SizeAssumption

\* Params are variables, each of them once in ParamSeq.
LEMMA ParamFacts ==
    /\ Params \subseteq Var /\ 1 .. Len(ParamSeq) = DOMAIN ParamSeq
    /\ \A p \in Params : \E i \in 1 .. Len(ParamSeq) : p = ParamSeq[i]
BY VarAssumption DEF Params, ToSet

-----------------------------------------------------------------------------
\* A set of statements that is not empty has a first and a last.
LEMMA FirstAndLast ==
    ASSUME NEW S \in SUBSET Stmt, S # {}
    PROVE  /\ Intervals!Min(S) \in S /\ \A n \in S : Intervals!Min(S) <= n
           /\ Intervals!Max(S) \in S /\ \A n \in S : n <= Intervals!Max(S)
<1> USE SizeAssumption DEF Stmt
<1>1. \E n \in S : \A m \in S : n <= m
  BY LeastNatural
<1>2. \E n \in S : \A m \in S : m <= n
  <2> DEFINE T == {NumStmts - n : n \in S}
  <2>1. T \subseteq Nat /\ T # {}
    OBVIOUS
  <2>2. PICK t \in T : \A s \in T : t <= s
    BY <2>1, LeastNatural
  <2>3. PICK n \in S : t = NumStmts - n
    OBVIOUS
  <2>4. \A m \in S : m <= n
    BY <2>2, <2>3
  <2> QED BY <2>4
<1>3. (CHOOSE n \in S : \A m \in S : n <= m) \in S
      /\ \A k \in S : (CHOOSE n \in S : \A m \in S : n <= m) <= k
  BY <1>1
<1>4. (CHOOSE n \in S : \A m \in S : n >= m) \in S
      /\ \A k \in S : k <= (CHOOSE n \in S : \A m \in S : n >= m)
  BY <1>2
<1> QED BY <1>3, <1>4 DEF Intervals!Min, Intervals!Max

-----------------------------------------------------------------------------
\* A statement that control leaves for any but the next one is a jump, which
\* assigns to nothing; every statement but the first follows an earlier one.
LEMMA GraphFacts ==
    ASSUME NEW p \in Programs
    PROVE  /\ \A n \in Stmt : /\ GraphOf(p).succs[n] = Succs(p, n)
                             /\ GraphOf(p).def[n] = Def(p[n]) /\ GraphOf(p).use[n] = Used(p[n])
           /\ \A n \in Stmt : \A m \in Succs(p, n) :
                m \in Stmt /\ m # n /\ (m = n + 1 \/ Def(p[n]) = {})
           /\ \A n \in Stmt \ {0} : \E m \in Stmt : m < n /\ n \in Succs(p, m)
<1>1. \A n \in Stmt : /\ GraphOf(p).succs[n] = Succs(p, n)
                     /\ GraphOf(p).def[n] = Def(p[n]) /\ GraphOf(p).use[n] = Used(p[n])
  BY DEF GraphOf
<1>2. \A n \in Stmt : Succs(p, n) \subseteq Stmt /\ n \notin Succs(p, n)
  BY <1>1, AnalysisAssumptions DEF Analysis!IsFlowGraph, Analysis!Node, Analysis!Stmt, Stmt
<1>3. \A n \in Stmt : \A m \in Succs(p, n) : m = n + 1 \/ Def(p[n]) = {}
  BY DEF Succs, Def, Gen!Assigns
<1>4. \A n \in Stmt \ {0} : \E m \in Stmt : m < n /\ n \in Succs(p, m)
  BY SizeAssumption, ProgramAssumption DEF IsProgram, Stmt
<1> QED BY <1>1, <1>2, <1>3, <1>4

\* At the end of the analysis the sets solve the dataflow equations.
Solution ==
    \A n \in Stmt :
        /\ liveOut[n] = UNION {liveIn[m] : m \in Succs(program, n)}
        /\ liveIn[n] = Used(program[n]) \cup (liveOut[n] \ Def(program[n]))

\* That is what the invariant says when no statement is queued any more.
LEMMA AnalysisSolves ==
    ASSUME program \in Programs, graph = GraphOf(program), Analysis!IInv, workList = << >>
    PROVE  Solution
<1>1. Analysis!Node = Stmt
  BY DEF Analysis!Node, Analysis!Stmt, Stmt
<1>2. \A n \in Stmt : ~Analysis!Queued(n)
  BY DEF Analysis!Queued, Analysis!Elements
<1>3. \A n \in Stmt : Analysis!Abstract!Solved(n, liveIn, liveOut)
  BY <1>1, <1>2 DEF Analysis!IInv, Analysis!SettledUnlessQueued
<1> QED BY <1>3, GraphFacts DEF Solution, Analysis!Abstract!Solved, Analysis!Abstract!Out, Analysis!Abstract!In

\* The intervals of cal_live_intervals cover what such a solution says.
Covered ==
    \A v \in Var, n \in Stmt :
        /\ v \in liveOut[n] => Intervals!StartOf(v) <= n /\ n <= Intervals!EndOf(v)
        /\ (v \in liveIn[n] /\ n > 0) => Intervals!StartOf(v) < n /\ n <= Intervals!EndOf(v)

\* A variable live at a statement is so after the one control comes from.
LEMMA SolutionsAreCovered ==
    ASSUME program \in Programs, Solution
    PROVE  Covered
<1> SUFFICES ASSUME NEW v \in Var, NEW n \in Stmt
             PROVE  /\ v \in liveOut[n] => Intervals!StartOf(v) <= n /\ n <= Intervals!EndOf(v)
                    /\ (v \in liveIn[n] /\ n > 0) => Intervals!StartOf(v) < n /\ n <= Intervals!EndOf(v)
  BY DEF Covered
<1>1. \A k \in Stmt : v \in liveOut[k] => Intervals!StartOf(v) \in Int /\ Intervals!StartOf(v) <= k
  <2> SUFFICES ASSUME NEW k \in Stmt, v \in liveOut[k]
               PROVE  Intervals!StartOf(v) \in Int /\ Intervals!StartOf(v) <= k
    OBVIOUS
  <2>1. k \in Intervals!LiveAfter(v) /\ Intervals!LiveAfter(v) \subseteq Stmt
    BY DEF Intervals!LiveAfter, Intervals!Stmt, Stmt
  <2> QED BY <2>1, FirstAndLast, SizeAssumption DEF Intervals!StartOf, Intervals!AtEntry, Stmt
<1>2. \A k \in Stmt : v \in liveIn[k] => Intervals!EndOf(v) \in Int /\ k <= Intervals!EndOf(v)
  <2> SUFFICES ASSUME NEW k \in Stmt, v \in liveIn[k]
               PROVE  Intervals!EndOf(v) \in Int /\ k <= Intervals!EndOf(v)
    OBVIOUS
  <2>1. k \in Intervals!LiveBefore(v) /\ Intervals!LiveBefore(v) \subseteq Stmt
    BY DEF Intervals!LiveBefore, Intervals!Stmt, Stmt
  <2> QED BY <2>1, FirstAndLast, SizeAssumption DEF Intervals!EndOf, Stmt
<1>3. ASSUME v \in liveOut[n] PROVE n <= Intervals!EndOf(v)
  <2>1. PICK m \in Succs(program, n) : v \in liveIn[m]
    BY <1>3 DEF Solution
  <2>2. m \in Stmt /\ (m = n + 1 \/ Def(program[n]) = {})
    BY <2>1, GraphFacts
  <2>3. CASE m = n + 1
    BY <1>2, <2>1, <2>2, <2>3, SizeAssumption DEF Stmt
  <2>4. CASE Def(program[n]) = {}
    <3>1. liveOut[n] \ Def(program[n]) \subseteq liveIn[n]
      BY DEF Solution
    <3>2. v \in liveIn[n]
      BY <1>3, <2>4, <3>1
    <3> QED BY <1>2, <3>2
  <2> QED BY <2>2, <2>3, <2>4
<1>4. ASSUME v \in liveIn[n], n > 0 PROVE Intervals!StartOf(v) < n
  <2>1. PICK m \in Stmt : m < n /\ n \in Succs(program, m)
    BY <1>4, GraphFacts DEF Stmt
  <2>2. v \in liveOut[m]
    BY <1>4, <2>1 DEF Solution
  <2> QED BY <1>1, <2>1, <2>2, SizeAssumption DEF Stmt
<1> QED BY <1>1, <1>2, <1>3, <1>4

-----------------------------------------------------------------------------
\* Intervals are numbers, which is all that LinearScan asks of them.
LEMMA IntervalTypes ==
    ASSUME NEW v \in Var
    PROVE  Intervals!StartOf(v) \in Int /\ Intervals!EndOf(v) \in Int
<1>1. Intervals!LiveAfter(v) \subseteq Stmt /\ Intervals!LiveBefore(v) \subseteq Stmt
  BY DEF Intervals!LiveAfter, Intervals!LiveBefore, Intervals!Stmt, Stmt
<1>2. Intervals!StartOf(v) \in Int
  BY <1>1, FirstAndLast, SizeAssumption DEF Intervals!StartOf, Intervals!AtEntry, Intervals!NotLive, Stmt
<1>3. Intervals!EndOf(v) \in Int
  BY <1>1, FirstAndLast, SizeAssumption DEF Intervals!EndOf, Stmt
<1> QED BY <1>2, <1>3

\* So every input that cal_live_intervals hands on is one LinearScan is proved for.
LEMMA ScanInputType == ScanInput \in AnyInput
BY IntervalTypes DEF ScanInput, AnyInput, HasCall

\* Variables that are live at the same time have no register in common, if
\* intervals that overlap do not: when one interval ends where the other
\* starts, control leaves backwards there, and both variables are live
\* before the jump.
LEMMA LiveTogether ==
    ASSUME program \in Programs, Solution, input = ScanInput, Alloc!NoSharedRegister,
           NEW n \in Stmt, NEW u \in Var, NEW v \in Var,
           u # v, Gen!InRegister(u), var2reg[u] = var2reg[v]
    PROVE  ~({u, v} \subseteq liveOut[n])
<1> SUFFICES ASSUME {u, v} \subseteq liveOut[n] PROVE FALSE
  OBVIOUS
<1> DEFINE from(w) == Intervals!StartOf(w)
           to(w) == Intervals!EndOf(w)
<1>1. \A w \in Var : Alloc!Start(w) = from(w) /\ Alloc!End(w) = to(w)
  BY DEF Alloc!Start, Alloc!End, ScanInput
<1>2. to(u) <= from(v) \/ to(v) <= from(u)
  BY <1>1 DEF Alloc!NoSharedRegister, Alloc!InRegister, Gen!InRegister
<1>3. Covered
  BY SolutionsAreCovered
<1>4. ASSUME NEW x \in {u, v}, NEW y \in {u, v}, to(x) <= from(y)
      PROVE  FALSE
  <2>1. from(y) = n /\ to(x) = n
    BY <1>3, <1>4, IntervalTypes, SizeAssumption DEF Covered, Stmt
  <2>2. PICK m \in Succs(program, n) : x \in liveIn[m]
    BY DEF Solution
  <2>3. m \in Stmt /\ m # n /\ (m = n + 1 \/ Def(program[n]) = {})
    BY <2>2, GraphFacts
  <2>4. m > 0 => m <= to(x)
    BY <1>3, <2>2, <2>3 DEF Covered
  <2>5. n > 0 /\ Def(program[n]) = {}
    BY <2>1, <2>3, <2>4, SizeAssumption DEF Stmt
  <2>6. liveOut[n] \ Def(program[n]) \subseteq liveIn[n]
    BY DEF Solution
  <2>7. y \in liveIn[n]
    BY <2>5, <2>6
  <2>8. from(y) < n
    BY <1>3, <2>5, <2>7 DEF Covered
  <2> QED BY <2>1, <2>8, SizeAssumption DEF Stmt
<1> QED BY <1>2, <1>4

\* Params are live from before the first statement on.
LEMMA ParamsTogether ==
    ASSUME program \in Programs, Solution, input = ScanInput, Alloc!NoSharedRegister,
           NEW u \in Params \cap liveIn[0], NEW v \in Params \cap liveIn[0],
           u # v, Gen!InRegister(u)
    PROVE  var2reg[u] # var2reg[v]
<1>1. Params \subseteq Var /\ 0 \in Stmt
  BY ParamFacts, SizeAssumption DEF Stmt
<1>2. \A w \in {u, v} : Alloc!Start(w) = -1 /\ Alloc!End(w) = Intervals!EndOf(w)
  BY <1>1 DEF Alloc!Start, Alloc!End, ScanInput, Intervals!StartOf, Intervals!AtEntry
<1>3. \A w \in {u, v} : Intervals!EndOf(w) \in Stmt
  <2> TAKE w \in {u, v}
  <2>1. 0 \in Intervals!LiveBefore(w) /\ Intervals!LiveBefore(w) \subseteq Stmt
    BY <1>1 DEF Intervals!LiveBefore, Intervals!Stmt, Stmt
  <2> QED BY <2>1, FirstAndLast DEF Intervals!EndOf
<1>4. \A w \in {u, v} : Alloc!End(w) > -1
  BY <1>2, <1>3, SizeAssumption DEF Stmt
<1> QED BY <1>1, <1>2, <1>3, <1>4, SizeAssumption
       DEF Alloc!NoSharedRegister, Alloc!InRegister, Gen!InRegister, Stmt

-----------------------------------------------------------------------------
\* The assumptions of LinearScan, whatever intervals a function has.
LEMMA AllocAssumptions ==
    /\ CalleeSaved \in Seq(Alloc!Reg) /\ CallerSaved \in Seq(Alloc!Reg) /\ ParamRegs \in Seq(Alloc!Reg)
    /\ Alloc!IsInjectiveSeq(Alloc!SaveOrder)
    /\ None \notin Alloc!Reg
    /\ Alloc!IsFiniteSet(Var)
    /\ \A i \in AnyInput : i.start \in [Var -> Int] /\ i.end \in [Var -> Int] /\ i.calls \in BOOLEAN
<1>1. Alloc!Reg = Scan!Reg /\ Alloc!SaveOrder = Scan!SaveOrder
  BY DEF Alloc!Reg, Scan!Reg, Alloc!SaveOrder, Scan!SaveOrder, Alloc!Elements, Scan!Elements
<1>2. \A i \in AnyInput : i.start \in [Var -> Int] /\ i.end \in [Var -> Int] /\ i.calls \in BOOLEAN
  BY DEF AnyInput
<1>3. Alloc!IsFiniteSet(Var)
  BY VarAssumption DEF IsFiniteSet, Alloc!IsFiniteSet
<1> QED BY <1>1, <1>2, <1>3, RegAssumption DEF Alloc!IsInjectiveSeq, Scan!IsInjectiveSeq

\* What is proved about LinearScan, of this allocation.
AllocInv == Alloc!IInv /\ Alloc!FrameDisjoint

LEMMA AllocInit == Alloc!Init => AllocInv
BY AllocAssumptions, VarAssumption, ParamFacts, Alloc!InitIInv, Alloc!InitFrame DEF AllocInv

\* ... and every step of it.
LEMMA AllocStep == AllocInv /\ [Alloc!Next]_(Alloc!vars) => AllocInv'
<1> SUFFICES ASSUME AllocInv, [Alloc!Next]_(Alloc!vars) PROVE AllocInv'
  OBVIOUS
<1>1. Alloc!IInv'
  BY AllocAssumptions, VarAssumption, ParamFacts, Alloc!StepIInv DEF AllocInv
<1>2. Alloc!FrameDisjoint'
  BY AllocAssumptions, VarAssumption, ParamFacts, Alloc!StepFrame DEF AllocInv, Alloc!IInv
<1> QED BY <1>1, <1>2 DEF AllocInv

\* Both instances of LinearScan take the same steps.
LEMMA SameStep == Scan!Next => Alloc!Next
<1>1. ASSUME NEW v \in Var, Scan!Visit(v) PROVE Alloc!Visit(v)
  BY <1>1 DEF Scan!Visit, Alloc!Visit, Scan!IsFirst, Alloc!IsFirst, Scan!Before, Alloc!Before,
     Scan!Start, Alloc!Start
<1>2. \A v \in Var : Scan!StillLive(v) = Alloc!StillLive(v) /\ Scan!FreeAt(v) = Alloc!FreeAt(v)
  BY DEF Scan!StillLive, Alloc!StillLive, Scan!FreeAt, Alloc!FreeAt, Scan!Expired, Alloc!Expired,
     Scan!Start, Alloc!Start, Scan!End, Alloc!End
<1>3. Scan!Reg = Alloc!Reg /\ Scan!Preference = Alloc!Preference
  BY DEF Scan!Reg, Alloc!Reg, Scan!Elements, Alloc!Elements, Scan!Preference, Alloc!Preference
<1>4. \A S : Scan!Cardinality(S) = Alloc!Cardinality(S)
  BY DEF Scan!Cardinality, Alloc!Cardinality
<1>5. ASSUME NEW r, NEW F, Scan!Preferred(r, F) PROVE Alloc!Preferred(r, F)
  BY <1>3, <1>5 DEF Scan!Preferred, Alloc!Preferred
<1>6. ASSUME NEW v, Scan!AllocStackPos(v) PROVE Alloc!AllocStackPos(v)
  BY <1>6 DEF Scan!AllocStackPos, Alloc!AllocStackPos, Scan!Size, Alloc!Size
<1>7. \A v, S : Scan!EndsLast(v, S) = Alloc!EndsLast(v, S)
  BY DEF Scan!EndsLast, Alloc!EndsLast, Scan!EndsBefore, Alloc!EndsBefore, Scan!End, Alloc!End
<1>8. \A v : Scan!End(v) = Alloc!End(v)
  BY DEF Scan!End, Alloc!End
<1>9. ASSUME NEW v \in Var, Scan!Allocate(v) PROVE Alloc!Allocate(v)
  BY <1>1, <1>2, <1>3, <1>4, <1>5, <1>9 DEF Scan!Allocate, Alloc!Allocate
<1>10. ASSUME NEW v \in Var, Scan!SpillActive(v) PROVE Alloc!SpillActive(v)
  BY <1>1, <1>2, <1>3, <1>4, <1>6, <1>7, <1>8, <1>10 DEF Scan!SpillActive, Alloc!SpillActive
<1>11. ASSUME NEW v \in Var, Scan!SpillCurrent(v) PROVE Alloc!SpillCurrent(v)
  BY <1>1, <1>2, <1>3, <1>4, <1>6, <1>7, <1>8, <1>11 DEF Scan!SpillCurrent, Alloc!SpillCurrent
<1>12. ASSUME NEW v \in Var, Scan!PlaceFrame(v) PROVE Alloc!PlaceFrame(v)
  BY <1>6, <1>12 DEF Scan!PlaceFrame, Alloc!PlaceFrame
<1>13. /\ Scan!ScanDone => Alloc!ScanDone
       /\ Scan!FrameDone => Alloc!FrameDone
       /\ Scan!SaveSlot => Alloc!SaveSlot
       /\ Scan!SaveDone => Alloc!SaveDone
  BY DEF Scan!ScanDone, Alloc!ScanDone, Scan!FrameDone, Alloc!FrameDone, Scan!SaveSlot, Alloc!SaveSlot,
     Scan!SaveDone, Alloc!SaveDone
<1> QED BY <1>9, <1>10, <1>11, <1>12, <1>13 DEF Scan!Next, Alloc!Next

-----------------------------------------------------------------------------
\* The invariant of the passes: that of the analysis while it runs, that of
\* the allocator from when its input is there.
BInv ==
    /\ program \in Programs /\ graph = GraphOf(program)
    /\ Analysis!TypeOK /\ Analysis!IInv
    /\ stage = "liveness" => Scan!Init
    /\ stage # "liveness" => workList = << >> /\ input = ScanInput /\ AllocInv

LEMMA InitBInv == Init => BInv
<1> SUFFICES ASSUME Init PROVE BInv
  OBVIOUS
<1>1. Analysis!Node = Stmt /\ Live!InitialQueue = Analysis!InitialQueue
  BY DEF Analysis!Node, Analysis!Stmt, Stmt, Live!InitialQueue, Analysis!InitialQueue
<1>2. Analysis!Init
  BY <1>1 DEF Init, Analysis!Init
<1>3. Analysis!TypeOK /\ Analysis!IInv
  BY <1>2, AnalysisAssumptions, Analysis!InitTypeOK, Analysis!InitIInv
<1> QED BY <1>3 DEF Init, BInv

\* What is done in the pass that is running preserves the invariant.
LEMMA StepBInv == BInv /\ [Next]_vars => BInv'
<1> SUFFICES ASSUME BInv, [Next]_vars PROVE BInv'
  OBVIOUS
<1> DEFINE analysis == <<program, graph, workList, liveIn, liveOut>>
<1>1. UNCHANGED analysis =>
        /\ program' \in Programs /\ graph' = GraphOf(program')
        /\ Analysis!TypeOK' /\ Analysis!IInv' /\ ScanInput' = ScanInput
  <2> SUFFICES ASSUME UNCHANGED analysis
               PROVE  /\ program' \in Programs /\ graph' = GraphOf(program')
                      /\ Analysis!TypeOK' /\ Analysis!IInv' /\ ScanInput' = ScanInput
    OBVIOUS
  <2>1. Analysis!TypeOK' /\ Analysis!IInv'
    BY AnalysisAssumptions, Analysis!StepTypeOK, Analysis!StepIInv DEF BInv, Analysis!vars
  <2>2. ScanInput' = ScanInput
    BY DEF ScanInput, HasCall, Intervals!StartOf, Intervals!EndOf, Intervals!LiveAfter, Intervals!LiveBefore
  <2> QED BY <2>1, <2>2 DEF BInv
<1>2. ASSUME UNCHANGED <<analysis, scanVars>>, stage # "liveness", stage' # "liveness" PROVE BInv'
  <2>1. AllocInv'
    BY <1>2, AllocStep DEF BInv, Alloc!vars, scanVars
  <2> QED BY <1>1, <1>2, <2>1 DEF BInv, scanVars
<1>3. CASE Analyse
  <2>1. Analysis!Process
    BY <1>3 DEF Analyse, Live!Process, Analysis!Process, Live!GrownOut, Analysis!GrownOut,
       Live!NewIn, Analysis!NewIn, Live!Requeued, Analysis!Requeued
  <2>2. Analysis!TypeOK' /\ Analysis!IInv'
    BY <2>1, AnalysisAssumptions, Analysis!StepTypeOK, Analysis!StepIInv DEF BInv, Analysis!Next
  <2>3. Scan!Init'
    BY <1>3 DEF BInv, Analyse, Scan!Init, scanVars
  <2> QED BY <1>3, <2>1, <2>2, <2>3 DEF BInv, Analyse, Analysis!Process
<1>4. CASE CalLiveIntervals
  <2>1. Alloc!Init'
    BY <1>4, ScanInputType DEF BInv, CalLiveIntervals, Scan!Init, Alloc!Init, Scan!Reg, Alloc!Reg,
       Scan!SaveOrder, Alloc!SaveOrder, Scan!NoSlot, Alloc!NoSlot, Scan!Elements, Alloc!Elements
  <2>2. AllocInv'
    BY <2>1, AllocInit, PTL
  <2> QED BY <1>1, <1>4, <2>2 DEF BInv, CalLiveIntervals, liveVars
<1>5. CASE Allocate
  <2>1. UNCHANGED analysis /\ stage = "scan" /\ stage' = "scan" /\ Scan!Next
    BY <1>5 DEF Allocate, liveVars
  <2>2. AllocInv'
    BY <2>1, SameStep, AllocStep DEF BInv
  <2>3. input' = input
    BY <2>1 DEF Scan!Next, Scan!Allocate, Scan!SpillActive, Scan!SpillCurrent, Scan!Visit, Scan!PlaceFrame,
       Scan!ScanDone, Scan!FrameDone, Scan!SaveSlot, Scan!SaveDone
  <2> QED BY <1>1, <2>1, <2>2, <2>3 DEF BInv
<1>6. CASE Compile
  <2>1. UNCHANGED <<analysis, scanVars>> /\ stage # "liveness" /\ stage' # "liveness"
    BY <1>6 DEF Compile, liveVars
  <2> QED BY <1>2, <2>1
<1>7. CASE Enter
  <2>1. UNCHANGED <<analysis, scanVars>> /\ stage # "liveness" /\ stage' # "liveness"
    BY <1>7 DEF Enter, liveVars
  <2> QED BY <1>2, <2>1
<1>8. CASE Execute
  <2>1. ASSUME NEW op, Executing(op) PROVE UNCHANGED <<analysis, scanVars>> /\ stage = "running"
    BY <2>1 DEF Executing, liveVars
  <2>2. UNCHANGED <<analysis, scanVars>> /\ stage = "running"
    <3>1. CASE NextStatement
      BY <3>1 DEF NextStatement, liveVars
    <3>2. CASE WriteRegister
      BY <3>2, <2>1 DEF WriteRegister
    <3>3. CASE WriteMemory \/ ReadOnly \/ CallFunction \/ CommitAssignment \/ ReturnToCaller
      BY <3>3, <2>1 DEF WriteMemory, ReadOnly, CallFunction, CommitAssignment, ReturnToCaller
    <3> QED BY <1>8, <3>1, <3>2, <3>3 DEF Execute
  <2>3. stage' # "liveness"
    BY <1>8, <2>2 DEF Execute, WriteRegister, WriteMemory, ReadOnly, CallFunction,
       CommitAssignment, ReturnToCaller, NextStatement
  <2> QED BY <1>2, <2>2, <2>3
<1>9. CASE UNCHANGED vars
  <2>1. UNCHANGED <<analysis, scanVars>> /\ stage' = stage
    BY <1>9 DEF vars, liveVars
  <2>2. Scan!Init => Scan!Init'
    BY <2>1 DEF Scan!Init, scanVars
  <2>3. AllocInv => AllocInv'
    BY <2>1, AllocStep DEF Alloc!vars, scanVars
  <2> QED BY <1>1, <2>1, <2>2, <2>3 DEF BInv, scanVars
<1> QED BY <1>3, <1>4, <1>5, <1>6, <1>7, <1>8, <1>9 DEF Next

\* The intervals that cal_live_intervals hands to linear_scan cover every
\* statement at which a variable is live.
THEOREM Covers == Spec => []IntervalsCover
<1>1. BInv => IntervalsCover
  BY AnalysisSolves, SolutionsAreCovered DEF BInv, IntervalsCover, Covered
<1> QED BY <1>1, InitBInv, StepBInv, PTL DEF Spec

\* The allocation keeps variables that are live together apart: liveness,
\* intervals and linear scan together do what none of them can by itself.
THEOREM Apart == Spec => []LiveVariablesApart
<1>1. BInv => LiveVariablesApart
  <2> SUFFICES ASSUME BInv, stage # "liveness", NEW n \in Stmt, NEW u \in Var, NEW v \in Var,
                      u # v, Gen!InRegister(u), var2reg[u] = var2reg[v]
               PROVE  /\ ~({u, v} \subseteq liveOut[n])
                      /\ ~({u, v} \subseteq liveIn[0] \cap Params)
    BY DEF LiveVariablesApart
  <2>1. program \in Programs /\ input = ScanInput /\ Alloc!NoSharedRegister /\ Solution
    BY AnalysisSolves DEF BInv, AllocInv, Alloc!IInv
  <2> QED BY <2>1, LiveTogether, ParamsTogether
<1> QED BY <1>1, InitBInv, StepBInv, PTL DEF Spec

=============================================================================
