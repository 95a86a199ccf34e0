--------------------------- MODULE NaturalLemmas ----------------------------
(***************************************************************************)
(* What proofs by induction over numbers need, with no operator as a       *)
(* parameter: a set of numbers has a least element, and a function can be  *)
(* defined by recursion from its values at smaller numbers.                *)
(***************************************************************************)
EXTENDS Integers, WellFoundedInduction, TLAPS

\* A set of naturals that is not empty has a least element.
LEMMA LeastNatural ==
    ASSUME NEW T \in SUBSET Nat, T # {}
    PROVE  \E x \in T : \A y \in T : x <= y
<1> DEFINE R == {ss \in Nat \X Nat : ss[1] < ss[2]}
<1>1. IsWellFoundedOn(R, Nat)
  BY NatLessThanWellFounded DEF OpToRel
<1> HIDE DEF R
<1>2. PICK x \in T : \A y \in T : <<y, x>> \notin R
  BY <1>1, WFMin
<1>3. \A y \in T : ~ (y < x)
  BY <1>2 DEF R
<1> QED BY <1>3

\* A set that contains every number of D below which it misses none, contains
\* D.
LEMMA StrongInduction ==
    ASSUME NEW D \in SUBSET Nat, NEW Good,
           \A i \in D : (\A j \in D : j < i => j \in Good) => i \in Good
    PROVE  \A i \in D : i \in Good
<1> DEFINE Bad == {i \in D : i \notin Good}
<1>1. ASSUME Bad # {} PROVE FALSE
  <2>0. Bad \in SUBSET Nat
    OBVIOUS
  <2>1. PICK i \in Bad : \A j \in Bad : i <= j
    <3> HIDE DEF Bad
    <3> QED BY <1>1, <2>0, LeastNatural
  <2>2. \A j \in D : j < i => j \in Good
    BY <2>1
  <2> QED BY <2>1, <2>2
<1> QED BY <1>1

\* Step[s][f] depends only on the values of f below s.
DependsBelow(Step, S, V) ==
    \A s \in S : \A f, h \in [S -> V] :
        (\A r \in S : r < s => f[r] = h[r]) => Step[s][f] = Step[s][h]

\* A function is equal to its step everywhere.
HasSolution(Step, S, V) == \E f \in [S -> V] : \A s \in S : f[s] = Step[s][f]

\* Recursion over the numbers in S.
LEMMA RecursiveFunction ==
    ASSUME NEW n \in Nat, NEW S \in SUBSET (0 .. n), NEW V, NEW v \in V,
           NEW Step \in [S -> [[S -> V] -> V]], DependsBelow(Step, S, V)
    PROVE  HasSolution(Step, S, V)
<1> DEFINE Solves(f, m) == \A s \in S : s < m => f[s] = Step[s][f]
           Lacks == {m \in Nat : ~ \E f \in [S -> V] : Solves(f, m)}
<1>1. ASSUME Lacks # {} PROVE FALSE
  <2>0. Lacks \in SUBSET Nat
    OBVIOUS
  <2>1. PICK m \in Lacks : \A j \in Lacks : m <= j
    <3> HIDE DEF Lacks
    <3> QED BY <1>1, <2>0, LeastNatural
  <2>2. m \in Nat /\ ~ \E f \in [S -> V] : Solves(f, m)
    OBVIOUS
  <2>3. CASE m = 0
    <3> DEFINE f == [s \in S |-> v]
    <3>1. f \in [S -> V] /\ Solves(f, m)
      BY <2>3
    <3> QED BY <2>2, <3>1
  <2>4. CASE m # 0
    <3>1. m - 1 \in Nat /\ ~(m <= m - 1)
      BY <2>2, <2>4
    <3>2. m - 1 \notin Lacks
      <4> HIDE DEF Lacks
      <4> QED BY <2>1, <3>1
    <3>3. PICK f \in [S -> V] : Solves(f, m - 1)
      BY <3>1, <3>2
    <3> DEFINE h == [s \in S |-> Step[s][f]]
    <3>4. h \in [S -> V]
      OBVIOUS
    <3>5. ASSUME NEW s \in S, s < m PROVE h[s] = Step[s][h]
      <4>1. \A r \in S : r < s => f[r] = h[r]
        <5> TAKE r \in S
        <5>1. r < s => r < m - 1
          BY <2>2, <3>5
        <5> QED BY <3>3, <5>1
      <4>2. Step[s][f] = Step[s][h]
        <5> HIDE DEF h
        <5> QED BY <3>4, <4>1 DEF DependsBelow
      <4>3. h[s] = Step[s][f]
        OBVIOUS
      <4> QED BY <4>2, <4>3
    <3> QED BY <2>2, <3>4, <3>5
  <2> QED BY <2>3, <2>4
<1>2. n + 1 \in Nat /\ n + 1 \notin Lacks
  <2> HIDE DEF Lacks
  <2> QED BY <1>1
<1>3. PICK f \in [S -> V] : Solves(f, n + 1)
  BY <1>2
<1> QED BY <1>3 DEF HasSolution

=============================================================================
