---------------------------- MODULE RiscVProofs -----------------------------
(***************************************************************************)
(* Proofs about RiscVGen, for registers and immediate operands of every    *)
(* width and functions of every size: the RISC-V lines that both passes    *)
(* make of a Tigger line have its outcome.                                 *)
(*                                                                         *)
(* A chain of states leads through a sequence of lines.  Chains of the     *)
(* lines that run and chains of the lines that strength reduction has yet  *)
(* to replace are the same thing for different relations.                  *)
(***************************************************************************)
EXTENDS RiscVGen, NaturalLemmas

-----------------------------------------------------------------------------
\* Powers of 2 and numbers of limited width.
LEMMA Widths ==
    /\ Bits \in Nat /\ Bits >= 3 /\ ImmBits \in Nat /\ ImmBits >= 2 /\ ImmBits < Bits
    /\ 2^(Bits - 1) \in Nat /\ 2^(Bits - 1) % 4 = 0 /\ 2^(Bits - 1) >= 4
    /\ 2^Bits = 2 * 2^(Bits - 1) /\ 2^Bits \in Nat
    /\ 2^(ImmBits - 1) \in Nat /\ 2^(ImmBits - 1) >= 2 /\ 2^ImmBits = 2 * 2^(ImmBits - 1)
    /\ 2^1 = 2
<1>1. Bits \in Nat /\ Bits >= 3 /\ ImmBits \in Nat /\ ImmBits >= 2 /\ ImmBits < Bits
  BY WidthAssumption
<1>2. \A n \in Nat : n < Bits => 2^n \in Nat \ {0} /\ 2^(n + 1) = 2 * 2^n
  BY <1>1, PowerAssumption
<1>3. 2^(Bits - 3) \in Nat \ {0} /\ 2^(Bits - 2) = 2 * 2^(Bits - 3)
  <2>1. Bits - 3 \in Nat /\ Bits - 3 < Bits /\ (Bits - 3) + 1 = Bits - 2
    BY <1>1
  <2> QED BY <1>2, <2>1
<1>4. 2^(Bits - 1) = 2 * 2^(Bits - 2)
  <2>1. Bits - 2 \in Nat /\ Bits - 2 < Bits /\ (Bits - 2) + 1 = Bits - 1
    BY <1>1
  <2> QED BY <1>2, <2>1
<1>5. 2^Bits = 2 * 2^(Bits - 1)
  <2>1. Bits - 1 \in Nat /\ Bits - 1 < Bits /\ (Bits - 1) + 1 = Bits
    BY <1>1
  <2> QED BY <1>2, <2>1
<1>6. 2^(ImmBits - 2) \in Nat \ {0} /\ 2^(ImmBits - 1) = 2 * 2^(ImmBits - 2)
  <2>1. ImmBits - 2 \in Nat /\ ImmBits - 2 < Bits /\ (ImmBits - 2) + 1 = ImmBits - 1
    BY <1>1
  <2> QED BY <1>2, <2>1
<1>7. 2^ImmBits = 2 * 2^(ImmBits - 1)
  <2>1. ImmBits - 1 \in Nat /\ ImmBits - 1 < Bits /\ (ImmBits - 1) + 1 = ImmBits
    BY <1>1
  <2> QED BY <1>2, <2>1
<1>8. 2^1 = 2
  <2>1. 0 \in Nat /\ 0 < Bits /\ 0 + 1 = 1
    BY <1>1
  <2> QED BY <1>2, <2>1, PowerAssumption
<1> QED BY <1>1, <1>3, <1>4, <1>5, <1>6, <1>7, <1>8

\* Powers grow.
LEMMA PowersGrow ==
    ASSUME NEW i \in 0 .. Bits, NEW j \in 0 .. Bits, i < j
    PROVE  2^i < 2^j /\ 2^i \in Nat \ {0} /\ 2^j \in Nat
<1>1. \A n \in 0 .. Bits - 1 : 2^n \in Nat \ {0} /\ 2^(n + 1) = 2 * 2^n
  BY PowerAssumption
<1> DEFINE Bad == {k \in Nat : i < k /\ k <= Bits /\ ~(2^i < 2^k /\ 2^k \in Nat)}
<1>2. ASSUME Bad # {} PROVE FALSE
  <2>1. PICK k \in Bad : \A m \in Bad : k <= m
    <3>1. Bad \in SUBSET Nat
      OBVIOUS
    <3> HIDE DEF Bad
    <3> QED BY <1>2, <3>1, LeastNatural
  <2>2. k \in Nat /\ i < k /\ k <= Bits /\ ~(2^i < 2^k /\ 2^k \in Nat)
    OBVIOUS
  <2>3. k - 1 \in 0 .. Bits - 1 /\ k - 1 \in Nat /\ (k - 1) + 1 = k /\ ~(k <= k - 1)
    BY <2>2, Widths
  <2>4. 2^k = 2 * 2^(k - 1) /\ 2^(k - 1) \in Nat \ {0}
    BY <1>1, <2>3
  <2>5. k - 1 \notin Bad
    <3> HIDE DEF Bad
    <3> QED BY <2>1, <2>3
  <2>6. i = k - 1 \/ 2^i < 2^(k - 1)
    BY <2>2, <2>3, <2>5, Widths
  <2> QED BY <2>2, <2>4, <2>6
<1>3. j \in Nat /\ j <= Bits /\ i \in 0 .. Bits - 1
  BY Widths
<1> QED BY <1>1, <1>2, <1>3

\* Quotient and remainder, and that there is only one of each.
LEMMA Division ==
    ASSUME NEW x \in Int, NEW w \in Nat \ {0}
    PROVE  x \div w \in Int /\ x % w \in 0 .. w - 1 /\ x = w * (x \div w) + (x % w)
OBVIOUS

LEMMA Multiple ==
    ASSUME NEW w \in Nat \ {0}, NEW q \in Int
    PROVE  w * q \in Int /\ (q >= 1 => w * q >= w) /\ (q <= -1 => w * q <= -w) /\ (q = 0 => w * q = 0)
OBVIOUS

LEMMA OneRemainder ==
    ASSUME NEW x \in Int, NEW w \in Nat \ {0}, NEW q \in Int, NEW r \in 0 .. w - 1, x = w * q + r
    PROVE  x % w = r /\ x \div w = q
<1> DEFINE p == x \div w
           m == x % w
<1>1. p \in Int /\ m \in 0 .. w - 1 /\ x = w * p + m
  BY Division
<1> HIDE DEF p, m
<1>2. q - p \in Int /\ w * (q - p) = w * q - w * p /\ w * q \in Int /\ w * p \in Int
  BY <1>1
<1>3. w * (q - p) = m - r
  BY <1>1, <1>2
<1>4. ~(q - p >= 1) /\ ~(q - p <= -1)
  BY <1>1, <1>2, <1>3, Multiple
<1>5. q = p
  BY <1>1, <1>4
<1> QED BY <1>1, <1>2, <1>5 DEF p, m

LEMMA ShiftedRemainder ==
    ASSUME NEW z \in Int, NEW w \in Nat \ {0}, NEW k \in Int
    PROVE  (z + w * k) % w = z % w
<1> DEFINE q == z \div w
           r == z % w
<1>1. q \in Int /\ r \in 0 .. w - 1 /\ z = w * q + r
  BY Division
<1> HIDE DEF q, r
<1>2. q + k \in Int /\ w * (q + k) = w * q + w * k /\ w * q \in Int /\ w * k \in Int
  BY <1>1
<1>3. z + w * k \in Int /\ z + w * k = w * (q + k) + r
  BY <1>1, <1>2
<1>4. (z + w * k) % w = r
  BY <1>1, <1>2, <1>3, OneRemainder
<1> QED BY <1>4 DEF r

LEMMA WrapFacts ==
    /\ \A x \in Int : Wrap(x) \in Value
    /\ \A x \in Value : Wrap(x) = x /\ x \in Int
    /\ \A x \in Int : \E k \in Int : Wrap(x) = x + 2^Bits * k
    /\ {-1, 0, 1, 2} \subseteq Value
<1> DEFINE h == 2^(Bits - 1)
           w == 2^Bits
<1>1. h \in Nat /\ w \in Nat \ {0} /\ w = 2 * h /\ h >= 4
  BY Widths
<1>2. Value = -h .. h - 1
  BY DEF Value
<1>3. \A x : Wrap(x) = ((x + h) % w) - h
  BY DEF Wrap
<1> HIDE DEF h, w
<1>4. ASSUME NEW x \in Int PROVE Wrap(x) \in Value
  <2>1. (x + h) % w \in 0 .. w - 1
    BY <1>1, Division
  <2>2. \A r \in 0 .. w - 1 : r - h \in -h .. h - 1
    BY <1>1
  <2> QED BY <1>2, <1>3, <2>1, <2>2
<1>5. ASSUME NEW x \in Value PROVE Wrap(x) = x /\ x \in Int
  <2>1. x \in Int /\ x + h \in Nat /\ x + h < w
    BY <1>1, <1>2
  <2>2. (x + h) % w = x + h
    BY <1>1, <2>1
  <2> QED BY <1>1, <1>3, <2>1, <2>2
<1>6. ASSUME NEW x \in Int PROVE \E k \in Int : Wrap(x) = x + w * k
  <2> DEFINE q == (x + h) \div w
             r == (x + h) % w
  <2>1. x + h \in Int
    BY <1>1
  <2>2. Wrap(x) = r - h /\ x + h = w * q + r /\ q \in Int /\ r \in Int
    <3>1. r \in 0 .. w - 1 /\ q \in Int /\ x + h = w * q + r
      BY <1>1, <2>1, Division
    <3>2. Wrap(x) = r - h
      BY <1>3
    <3> HIDE DEF r, q
    <3> QED BY <1>1, <3>1, <3>2
  <2> HIDE DEF q, r
  <2>3. -q \in Int /\ w * (-q) = -(w * q) /\ w * q \in Int
    BY <1>1, <2>2
  <2>4. Wrap(x) = x + w * (-q)
    BY <1>1, <2>2, <2>3
  <2> QED BY <2>3, <2>4
<1>7. {-1, 0, 1, 2} \subseteq Value
  BY <1>1, <1>2
<1> QED BY <1>4, <1>5, <1>6, <1>7 DEF w

\* Wrapping twice.
LEMMA WrapWrap ==
    ASSUME NEW x \in Int, NEW y \in Int
    PROVE  Wrap(Wrap(x) + y) = Wrap(x + y)
<1>1. PICK k \in Int : Wrap(x) = x + 2^Bits * k
  BY WrapFacts
<1> DEFINE h == 2^(Bits - 1)
           w == 2^Bits
<1>2. h \in Nat /\ w \in Nat \ {0}
  BY Widths
<1>3. \A z : Wrap(z) = ((z + h) % w) - h
  BY DEF Wrap
<1>4. Wrap(x) = x + w * k
  BY <1>1
<1> HIDE DEF h, w
<1>5. ASSUME NEW z \in Int PROVE (z + w * k) % w = z % w
  BY <1>2, ShiftedRemainder
<1>6. x + w * k + y + h = (x + y + h) + w * k /\ x + y + h \in Int
  BY <1>2
<1>7. ((x + w * k) + y + h) % w = (x + y + h) % w
  BY <1>5, <1>6
<1> QED BY <1>3, <1>4, <1>7

LEMMA QuotientFacts ==
    ASSUME NEW a \in Value, NEW b \in Value, b # 0
    PROVE  Quotient(a, b) \in Int /\ Remainder(a, b) \in Value
<1> DEFINE m == Magnitude(a)
           n == Magnitude(b)
           q == m \div n
<1>0. a \in Int /\ b \in Int
  BY WrapFacts
<1>1. m \in Nat /\ n \in Nat \ {0}
  BY <1>0 DEF Magnitude
<1>2. q \in Nat /\ n * q \in 0 .. m
  BY <1>1
<1>3. Quotient(a, b) = Sign(a) * Sign(b) * q
  BY DEF Quotient
<1>4. a = Sign(a) * m /\ b = Sign(b) * n /\ Sign(a) \in {-1, 1} /\ Sign(b) \in {-1, 1}
  BY <1>0 DEF Sign, Magnitude
<1> HIDE DEF m, n, q
<1>5. Quotient(a, b) \in Int
  BY <1>2, <1>3, <1>4
<1>6. b * Quotient(a, b) = Sign(a) * (n * q)
  BY <1>1, <1>2, <1>3, <1>4
<1>7. Remainder(a, b) = a - Sign(a) * (n * q)
  BY <1>6 DEF Remainder
<1>8. \/ 0 <= Remainder(a, b) /\ Remainder(a, b) <= a
      \/ a <= Remainder(a, b) /\ Remainder(a, b) <= 0
  <2> DEFINE p == n * q
  <2>1. p \in 0 .. m /\ Remainder(a, b) = a - Sign(a) * p
    BY <1>2, <1>7
  <2> HIDE DEF p
  <2>2. CASE Sign(a) = 1
    BY <1>0, <1>1, <1>4, <2>1, <2>2
  <2>3. CASE Sign(a) = -1
    BY <1>0, <1>1, <1>4, <2>1, <2>3
  <2> QED BY <1>4, <2>2, <2>3
<1>9. Remainder(a, b) \in Int
  BY <1>0, <1>5 DEF Remainder
<1> QED BY <1>5, <1>8, <1>9, Widths DEF Value

LEMMA OutcomeType ==
    ASSUME NEW bop \in Operators, NEW a \in Value, NEW b \in Value, bop \in {"/", "%"} => b # 0
    PROVE  Outcome(bop, a, b) \in Value
<1>1. a \in Int /\ b \in Int /\ 0 \in Value /\ 1 \in Value
  BY WrapFacts
<1>2. a + b \in Int /\ a - b \in Int /\ a * b \in Int
  BY <1>1
<1>3. CASE bop \in {"+", "-", "*"}
  BY <1>2, <1>3, WrapFacts DEF Outcome
<1>4. CASE bop \in {"/", "%"}
  BY <1>4, QuotientFacts, WrapFacts DEF Outcome
<1>5. CASE bop \in {"<", ">", "<=", ">=", "==", "!="}
  BY <1>1, <1>5 DEF Outcome, Truth
<1> QED BY <1>3, <1>4, <1>5 DEF Operators

\* A quotient by a positive number is no larger than the dividend.
LEMMA QuotientInValue ==
    ASSUME NEW a \in Value, NEW w \in Nat \ {0}
    PROVE  a \div w \in Value
<1> DEFINE h == 2^(Bits - 1)
           q == a \div w
           r == a % w
<1>1. a \in Int /\ h \in Nat /\ Value = -h .. h - 1 /\ -h <= a /\ a <= h - 1
  BY WrapFacts, Widths DEF Value
<1>2. q \in Int /\ r \in 0 .. w - 1 /\ a = w * q + r
  BY <1>1, Division
<1> HIDE DEF h, q, r
<1>3. q >= 0 => w * q >= q
  <2> SUFFICES ASSUME q >= 0 PROVE (w - 1) * q >= 0 /\ (w - 1) * q = w * q - q /\ w * q \in Int
    BY <1>2
  <2> QED BY <1>2
<1>4. q + 1 <= 0 => w * (q + 1) <= q + 1
  <2> DEFINE p == -(q + 1)
  <2> SUFFICES ASSUME p >= 0 PROVE (w - 1) * p >= 0 /\ (w - 1) * p = -(w * (q + 1)) + (q + 1) /\ w * (q + 1) \in Int
    BY <1>2
  <2> QED BY <1>2
<1>5. w * (q + 1) = w * q + w /\ w * q \in Int /\ w * (q + 1) \in Int
  BY <1>2
<1>6. q <= h - 1
  BY <1>1, <1>2, <1>3, <1>5
<1>7. -h <= q
  BY <1>1, <1>2, <1>4, <1>5
<1> QED BY <1>1, <1>2, <1>6, <1>7 DEF q

\* A division by 2 that rounds towards 0 is one that rounds down, once 1 has
\* been added to a negative dividend.
LEMMA HalfOfSigned ==
    ASSUME NEW a \in Value
    PROVE  /\ Truth(a < 0) \in Value
           /\ Wrap(Truth(a < 0) + a) \div 2 = Outcome("/", a, 2)
<1> DEFINE h == 2^(Bits - 1)
<1>1. a \in Int /\ h \in Nat /\ h >= 4 /\ Value = -h .. h - 1
  BY WrapFacts, Widths DEF Value
<1> HIDE DEF h
<1>2. Truth(a < 0) + a \in Value /\ Truth(a < 0) \in Value
  BY <1>1 DEF Truth
<1>3. Quotient(a, 2) = IF a < 0 THEN -((-a) \div 2) ELSE a \div 2
  BY <1>1 DEF Quotient, Sign, Magnitude
<1>4. Quotient(a, 2) \in Value
  BY <1>1, <1>3
<1>5. Outcome("/", a, 2) = Quotient(a, 2)
  BY <1>4, WrapFacts DEF Outcome
<1>6. Wrap(Truth(a < 0) + a) = Truth(a < 0) + a
  BY <1>2, WrapFacts
<1>7. (Truth(a < 0) + a) \div 2 = IF a < 0 THEN -((-a) \div 2) ELSE a \div 2
  BY <1>1 DEF Truth
<1> QED BY <1>2, <1>3, <1>5, <1>6, <1>7

\* A division by any power rounds down as well, unless the dividend is
\* negative, and the last bit of such a dividend is its remainder.
LEMMA ShiftOfDividend ==
    ASSUME NEW a \in Value, NEW k \in 1 .. Bits - 2, k = 1 \/ a >= 0
    PROVE  Wrap(Truth(a < 0) + a) \div 2^k = Outcome("/", a, 2^k)
<1>1. CASE k = 1
  BY <1>1, HalfOfSigned, Widths
<1>2. CASE a >= 0
  <2> DEFINE n == 2^k
  <2>1. a \in Int /\ n \in Nat \ {0}
    <3>1. k \in 0 .. Bits - 1
      BY Widths
    <3> QED BY <3>1, PowerAssumption, WrapFacts
  <2> HIDE DEF n
  <2>2. Truth(a < 0) + a = a
    BY <1>2, <2>1 DEF Truth
  <2>3. Quotient(a, n) = a \div n
    BY <1>2, <2>1 DEF Quotient, Sign, Magnitude
  <2>4. a \div n \in Value
    BY <2>1, QuotientInValue
  <2> QED BY <2>2, <2>3, <2>4, WrapFacts DEF Outcome, n
<1> QED BY <1>1, <1>2

LEMMA LastBit ==
    ASSUME NEW a \in Value, a >= 0
    PROVE  Bit(a, 0) = Outcome("%", a, 2)
<1> DEFINE w == 2^Bits
<1>1. a \in Int /\ w \in Nat \ {0} /\ a < w
  BY WrapFacts, Widths DEF Value
<1>2. Bit(a, 0) = ((a % w) \div 1) % 2
  BY PowerAssumption DEF Bit
<1> HIDE DEF w
<1>3. a % w = a /\ a \div 1 = a
  BY <1>1
<1>4. Quotient(a, 2) = a \div 2
  BY <1>1 DEF Quotient, Sign, Magnitude
<1>5. a % 2 = a - 2 * (a \div 2)
  BY <1>1
<1> QED BY <1>2, <1>3, <1>4, <1>5 DEF Outcome, Remainder

LEMMA ByOne ==
    ASSUME NEW a \in Value
    PROVE  /\ Outcome("/", a, 1) = a /\ Outcome("%", a, 1) = 0
           /\ Outcome("*", a, 1) = a /\ Outcome("*", a, 0) = 0
<1>1. a \in Int /\ 0 \in Value
  BY WrapFacts
<1>2. Quotient(a, 1) = a
  BY <1>1 DEF Quotient, Sign, Magnitude
<1>3. a - 1 * a = 0 /\ a * 1 = a /\ a * 0 = 0
  BY <1>1
<1> QED BY <1>1, <1>2, <1>3, WrapFacts DEF Outcome, Remainder

\* The upper and the lower part of an address.
LEMMA WideIsMultiple == \E j \in Nat : 2^Bits = 2^ImmBits * j
<1> DEFINE Bad == {n \in Nat : n >= ImmBits /\ n <= Bits /\ ~ \E j \in Nat : 2^n = 2^ImmBits * j}
<1>1. ASSUME Bad # {} PROVE FALSE
  <2>1. PICK k \in Bad : \A m \in Bad : k <= m
    <3>1. Bad \in SUBSET Nat
      OBVIOUS
    <3> HIDE DEF Bad
    <3> QED BY <1>1, <3>1, LeastNatural
  <2>2. k \in Nat /\ k >= ImmBits /\ k <= Bits /\ ~ \E j \in Nat : 2^k = 2^ImmBits * j
    OBVIOUS
  <2>3. 2^ImmBits \in Nat
    BY Widths
  <2>4. k # ImmBits
    BY <2>2, <2>3
  <2>5. k - 1 \in 0 .. Bits - 1 /\ k - 1 \in Nat /\ (k - 1) + 1 = k /\ ~(k <= k - 1) /\ k - 1 >= ImmBits /\ k - 1 <= Bits
    BY <2>2, <2>4, Widths
  <2>6. 2^k = 2 * 2^(k - 1)
    BY <2>5, PowerAssumption
  <2>7. k - 1 \notin Bad
    <3> HIDE DEF Bad
    <3> QED BY <2>1, <2>5
  <2>8. PICK j \in Nat : 2^(k - 1) = 2^ImmBits * j
    BY <2>5, <2>7
  <2>9. 2 * (2^ImmBits * j) = 2^ImmBits * (2 * j) /\ 2 * j \in Nat
    BY <2>3
  <2> QED BY <2>2, <2>6, <2>8, <2>9
<1>2. Bits \in Nat /\ Bits >= ImmBits /\ Bits <= Bits
  BY Widths
<1> QED BY <1>1, <1>2

LEMMA Address ==
    ASSUME NEW address \in Value
    PROVE  /\ Lo(address) \in Value /\ FitsImm(Lo(address))
           /\ Hi(address) \in Value /\ Hi(address) % 2^ImmBits = 0
           /\ Wrap(Hi(address) + Lo(address)) = address
<1> DEFINE k == 2^(ImmBits - 1)
           m == 2^ImmBits
           q == (address + k) \div m
           r == (address + k) % m
<1>1. k \in Nat /\ m \in Nat \ {0} /\ m = 2 * k /\ address \in Int
  BY Widths, WrapFacts
<1>2. q \in Int /\ r \in 0 .. m - 1 /\ address + k = m * q + r
  <2>1. address + k \in Int
    BY <1>1
  <2> HIDE DEF k, m
  <2> QED BY <1>1, <2>1, Division
<1>3. Lo(address) = r - k
  BY DEF Lo
<1>4. k <= 2^(Bits - 1)
  BY PowersGrow, Widths
<1>5. FitsImm(Lo(address)) <=> (-k <= Lo(address) /\ Lo(address) < k)
  BY DEF FitsImm
<1>6. PICK j \in Nat : 2^Bits = m * j
  BY WideIsMultiple
<1> HIDE DEF k, m, q, r
<1>7. FitsImm(Lo(address)) /\ Lo(address) \in Value /\ Lo(address) \in Int
  BY <1>1, <1>2, <1>3, <1>4, <1>5, Widths DEF Value
<1>8. address - Lo(address) = m * q /\ m * q \in Int
  BY <1>1, <1>2, <1>3
<1>9. PICK i \in Int : Wrap(m * q) = m * q + 2^Bits * i
  BY <1>8, WrapFacts
<1>10. (m * j) * i = m * (j * i) /\ j * i \in Int /\ m * q + m * (j * i) = m * (q + j * i) + 0
  BY <1>1, <1>2
<1>11. Hi(address) = m * (q + j * i) + 0 /\ q + j * i \in Int /\ 0 \in 0 .. m - 1
  BY <1>1, <1>2, <1>6, <1>8, <1>9, <1>10 DEF Hi
<1>12. Hi(address) \in Value /\ Hi(address) \in Int
  BY <1>8, WrapFacts DEF Hi
<1>13. Hi(address) % m = 0
  BY <1>1, <1>11, <1>12, OneRemainder
<1>14. Wrap(Hi(address) + Lo(address)) = Wrap(m * q + Lo(address))
  BY <1>7, <1>8, WrapWrap DEF Hi
<1>15. m * q + Lo(address) = address
  BY <1>1, <1>7, <1>8
<1> QED BY <1>7, <1>12, <1>13, <1>14, <1>15, WrapFacts DEF m

-----------------------------------------------------------------------------
\* The lines c lead from s to q, each of them one step of R.
Chain(R, c, s, q) ==
    \E t : t[0] = s /\ t[Len(c)] = q /\ \A k \in 1 .. Len(c) : <<t[k - 1], c[k], t[k]>> \in R

LEMMA ChainOfNone ==
    ASSUME NEW R, NEW s, NEW q
    PROVE  Chain(R, << >>, s, q) <=> q = s
<1>1. Len(<< >>) = 0 /\ 1 .. Len(<< >>) = {}
  OBVIOUS
<1>2. ASSUME q = s PROVE Chain(R, << >>, s, q)
  <2> DEFINE t == [k \in {0} |-> s]
  <2>1. t[0] = s
    OBVIOUS
  <2> HIDE DEF t
  <2>2. t[0] = s /\ t[Len(<< >>)] = q /\ \A k \in 1 .. Len(<< >>) : <<t[k - 1], << >>[k], t[k]>> \in R
    BY <1>1, <1>2, <2>1
  <2> QED BY <2>2 DEF Chain
<1>3. ASSUME Chain(R, << >>, s, q) PROVE q = s
  BY <1>1, <1>3 DEF Chain
<1> QED BY <1>2, <1>3

LEMMA ChainOfOne ==
    ASSUME NEW R, NEW s, NEW q, NEW l, <<s, l, q>> \in R
    PROVE  Chain(R, <<l>>, s, q)
<1> DEFINE t == [k \in 0 .. 1 |-> IF k = 0 THEN s ELSE q]
<1>1. t[0] = s /\ t[1] = q
  OBVIOUS
<1>2. Len(<<l>>) = 1 /\ <<l>>[1] = l /\ \A k \in 1 .. Len(<<l>>) : k = 1 /\ k - 1 = 0
  OBVIOUS
<1> HIDE DEF t
<1>3. t[0] = s /\ t[Len(<<l>>)] = q /\ \A k \in 1 .. Len(<<l>>) : <<t[k - 1], <<l>>[k], t[k]>> \in R
  BY <1>1, <1>2
<1> QED BY <1>3 DEF Chain

LEMMA ChainOfBoth ==
    ASSUME NEW R, NEW S, NEW c \in Seq(S), NEW d \in Seq(S), NEW s, NEW m, NEW q,
           Chain(R, c, s, m), Chain(R, d, m, q)
    PROVE  Chain(R, c \o d, s, q)
<1>1. PICK t : t[0] = s /\ t[Len(c)] = m /\ \A k \in 1 .. Len(c) : <<t[k - 1], c[k], t[k]>> \in R
  BY DEF Chain
<1>2. PICK u : u[0] = m /\ u[Len(d)] = q /\ \A k \in 1 .. Len(d) : <<u[k - 1], d[k], u[k]>> \in R
  BY DEF Chain
<1> DEFINE e == c \o d
           w == [k \in 0 .. Len(c) + Len(d) |-> IF k <= Len(c) THEN t[k] ELSE u[k - Len(c)]]
<1>3. Len(c) \in Nat /\ Len(d) \in Nat /\ Len(e) = Len(c) + Len(d)
  OBVIOUS
<1>4. \A k \in 0 .. Len(c) : k \in 0 .. Len(c) + Len(d) /\ w[k] = t[k]
  BY <1>3
<1>5. \A k \in 0 .. Len(d) : w[k + Len(c)] = u[k]
  <2> TAKE k \in 0 .. Len(d)
  <2>1. k + Len(c) \in 0 .. Len(c) + Len(d) /\ (k # 0 => ~(k + Len(c) <= Len(c))) /\ (k + Len(c)) - Len(c) = k
    BY <1>3
  <2> QED BY <1>1, <1>2, <1>3, <2>1
<1>6. \A k \in 1 .. Len(c) : e[k] = c[k] /\ k \in 0 .. Len(c) /\ k - 1 \in 0 .. Len(c)
  BY <1>3
<1>7. \A k \in 1 .. Len(d) : /\ e[k + Len(c)] = d[k] /\ k \in 0 .. Len(d) /\ k - 1 \in 0 .. Len(d)
                            /\ (k + Len(c)) - 1 = (k - 1) + Len(c)
  BY <1>3
<1>8. ASSUME NEW k \in 1 .. Len(e), ~(k \in 1 .. Len(c))
      PROVE  \E j \in 1 .. Len(d) : j + Len(c) = k
  <2>1. k - Len(c) \in 1 .. Len(d) /\ (k - Len(c)) + Len(c) = k
    BY <1>3, <1>8
  <2> QED BY <2>1
<1>9. 0 \in 0 .. Len(c) /\ Len(d) \in 0 .. Len(d) /\ Len(d) + Len(c) = Len(e)
  BY <1>3
<1> HIDE DEF w, e
<1>10. \A k \in 1 .. Len(c) : <<w[k - 1], e[k], w[k]>> \in R
  BY <1>1, <1>4, <1>6
<1>11. \A k \in 1 .. Len(d) : <<w[(k + Len(c)) - 1], e[k + Len(c)], w[k + Len(c)]>> \in R
  BY <1>2, <1>5, <1>7
<1>12. \A k \in 1 .. Len(e) : <<w[k - 1], e[k], w[k]>> \in R
  BY <1>8, <1>10, <1>11
<1>13. w[0] = s /\ w[Len(e)] = q
  BY <1>1, <1>2, <1>4, <1>5, <1>9
<1>14. Chain(R, e, s, q)
  BY <1>12, <1>13 DEF Chain
<1> QED BY <1>14 DEF e

\* The first line, and what remains.
LEMMA ChainRest ==
    ASSUME NEW R, NEW S, NEW c \in Seq(S), c # << >>, NEW s, NEW q, Chain(R, c, s, q)
    PROVE  \E m : <<s, Head(c), m>> \in R /\ Chain(R, Tail(c), m, q)
<1>1. PICK t : t[0] = s /\ t[Len(c)] = q /\ \A k \in 1 .. Len(c) : <<t[k - 1], c[k], t[k]>> \in R
  BY DEF Chain
<1> DEFINE d == Tail(c)
           u == [k \in 0 .. Len(c) - 1 |-> t[k + 1]]
<1>2. Len(c) \in Nat \ {0} /\ Head(c) = c[1] /\ Len(d) = Len(c) - 1
  OBVIOUS
<1>3. \A k \in 0 .. Len(c) - 1 : u[k] = t[k + 1]
  OBVIOUS
<1>4. \A k \in 1 .. Len(d) : /\ d[k] = c[k + 1] /\ k + 1 \in 1 .. Len(c) /\ k \in 0 .. Len(c) - 1
                            /\ k - 1 \in 0 .. Len(c) - 1 /\ (k - 1) + 1 = k /\ (k + 1) - 1 = k
  BY <1>2
<1>5. /\ 1 \in 1 .. Len(c) /\ 1 - 1 = 0 /\ 0 \in 0 .. Len(c) - 1 /\ 0 + 1 = 1
      /\ Len(c) - 1 \in 0 .. Len(c) - 1 /\ (Len(c) - 1) + 1 = Len(c)
  BY <1>2
<1> HIDE DEF u, d
<1>6. <<s, Head(c), t[1]>> \in R
  BY <1>1, <1>2, <1>5
<1>7. \A k \in 1 .. Len(d) : <<u[k - 1], d[k], u[k]>> \in R
  <2> TAKE k \in 1 .. Len(d)
  <2>1. u[k - 1] = t[k] /\ u[k] = t[k + 1] /\ d[k] = c[k + 1]
    BY <1>3, <1>4
  <2>2. <<t[(k + 1) - 1], c[k + 1], t[k + 1]>> \in R /\ (k + 1) - 1 = k
    BY <1>1, <1>4
  <2> QED BY <2>1, <2>2
<1>8. u[0] = t[1] /\ u[Len(d)] = q
  BY <1>1, <1>2, <1>3, <1>5
<1>9. Chain(R, d, t[1], q)
  BY <1>7, <1>8 DEF Chain
<1> QED BY <1>6, <1>9 DEF d

-----------------------------------------------------------------------------
\* The lines there are, with operands that can be encoded.
AnyReg == Reg \cup {s0, sp, ra}
Dest == AnyReg \ {x0}
Immediate == {n \in Value : FitsImm(n)}
Branches == {"blt", "bgt", "ble", "bge", "bne", "beq"}

RegisterLine ==
    [op : {"add", "sub", "mul", "div", "rem", "slt", "sgt", "xor"}, d : Dest, a : AnyReg, b : AnyReg]
    \cup [op : {"li", "la"}, d : Dest, a : AnyReg, n : Value]
    \cup [op : {"lui"}, d : Dest, a : AnyReg, n : {n \in Value : n % 2^ImmBits = 0}]
    \cup [op : {"mv", "seqz", "snez", "neg"}, d : Dest, a : AnyReg, n : {0}]
    \cup [op : {"addi", "slti", "lw"}, d : Dest, a : AnyReg, n : Immediate]
    \cup [op : {"andi"}, d : Dest, a : AnyReg, n : {1}]
    \cup [op : {"slli", "srli", "sra"}, d : Dest, a : AnyReg, n : 0 .. Bits - 1]
StoreLine == [op : {"sw"}, b : AnyReg, a : AnyReg, n : Immediate]
CallLine == [op : {"call"}]
JumpLine ==
    [op : {"j", "ret"}, to : Nat \ {0}] \cup [op : Branches, a : AnyReg, b : AnyReg, to : Nat \ {0}]

Line == RegisterLine \cup StoreLine \cup CallLine \cup JumpLine

\* Those that strength_reduction replaces.
Shortcut ==
    [op : {"muli", "divi"}, d : Target, a : Reg, n : {n \in Value : IsPowerOf2(n)}]
    \cup [op : {"remi"}, d : Target, a : Reg, n : {1, 2}]
Pending == Line \cup Shortcut

LEMMA FrameFacts ==
    ASSUME NEW size \in Nat
    PROVE  /\ FrameBytes(size) \in Nat /\ FrameBytes(size) % 4 = 0
           /\ 4 * size + 4 <= FrameBytes(size) /\ FrameBytes(size) >= 16
BY DEF FrameBytes

LEMMA RegFacts ==
    /\ Reg \subseteq AnyReg /\ {s0, sp, ra} \subseteq Dest /\ Target \subseteq Dest /\ Dest \subseteq AnyReg
    /\ s0 # sp /\ s0 # ra /\ sp # ra /\ x0 \in Reg
    /\ \A r \in Reg : r # s0 /\ r # sp /\ r # ra
BY RegAssumption DEF AnyReg, Dest, Target

LEMMA FunctionFacts ==
    ASSUME function \in Functions
    PROVE  /\ function.size \in Nat /\ FrameBytes(function.size) \in Value
           /\ StackTop - FrameBytes(function.size) \in WordAddress
           /\ \A address \in DOMAIN Data : address < StackTop - FrameBytes(function.size)
           /\ Len(function.body) \in Nat \ {0, 1} /\ DOMAIN function.body = 1 .. Len(function.body)
           /\ function.body[1] = [op |-> "enter"] /\ function.body[Len(function.body)] = [op |-> "return"]
           /\ \A i \in 2 .. Len(function.body) :
                function.body[i] \in TiggerLine(function.size, Len(function.body))
<1>1. IsFunction(function)
  BY FunctionAssumption
<1>2. FrameBytes(function.size) \in Nat /\ FrameBytes(function.size) % 4 = 0 /\ FrameBytes(function.size) >= 16
  BY <1>1, FrameFacts DEF IsFunction
<1>3. StackTop \in Int /\ StackTop % 4 = 0 /\ StackTop < 2^(Bits - 1) /\ 2^(Bits - 1) \in Nat
  BY MemoryAssumption, Widths DEF WordAddress, Value
<1>4. -2^(Bits - 1) <= StackTop - FrameBytes(function.size)
  BY <1>1 DEF IsFunction
<1> DEFINE f == FrameBytes(function.size)
           h == 2^(Bits - 1)
<1>5. f \in Nat /\ f % 4 = 0 /\ f >= 16 /\ h \in Nat /\ -h <= StackTop - f /\ StackTop < h
  BY <1>2, <1>3, <1>4
<1>6. WordAddress = {a \in -h .. h - 1 : a % 4 = 0}
  BY DEF WordAddress, Value
<1> HIDE DEF f, h
<1>7. (StackTop - f) % 4 = 0
  BY <1>3, <1>5
<1>8. StackTop - f \in -h .. h - 1
  BY <1>3, <1>5
<1> QED BY <1>1, <1>6, <1>7, <1>8 DEF IsFunction, f

\* The types of the lines that each helper gives.
LEMMA GenImmType ==
    ASSUME NEW d \in Dest, NEW a \in AnyReg, NEW n \in Value
    PROVE  GenImm("addi", "add", d, a, n) \in Seq(Line) /\ GenImm("slti", "slt", d, a, n) \in Seq(Line)
<1>1. CASE FitsImm(n)
  BY <1>1 DEF GenImm, RRI, Line, RegisterLine, Immediate
<1>2. CASE ~FitsImm(n)
  <2>1. Li(s0, n) \in Line /\ \A o \in {"add", "slt"} : RRR(o, d, a, s0) \in Line
    BY RegFacts DEF Li, RRI, RRR, Line, RegisterLine
  <2> QED BY <1>2, <2>1 DEF GenImm
<1> QED BY <1>1, <1>2

LEMMA ZeroFits == 0 \in Immediate /\ 1 \in Immediate
BY WrapFacts, Widths DEF Immediate, FitsImm

LEMMA GenAccessType ==
    ASSUME NEW r \in Dest, NEW b \in AnyReg, NEW a \in AnyReg, NEW n \in Value
    PROVE  GenLw(r, n, a) \in Seq(Line) /\ GenSw(b, n, a) \in Seq(Line)
<1>1. ASSUME NEW c \in AnyReg, NEW i \in Immediate
      PROVE  Access("lw", r, c, i) \in Line /\ Access("sw", b, c, i) \in Line
  BY DEF Access, RRI, Line, RegisterLine, StoreLine
<1>2. CASE FitsImm(n)
  BY <1>1, <1>2 DEF GenLw, GenSw, GenAccess, Immediate
<1>3. CASE ~FitsImm(n)
  <2>1. Li(s0, n) \in Line /\ RRR("add", s0, s0, a) \in Line /\ s0 \in AnyReg
    BY RegFacts DEF Li, RRI, RRR, Line, RegisterLine
  <2>2. Access("lw", r, s0, 0) \in Line /\ Access("sw", b, s0, 0) \in Line
    BY <1>1, <2>1, ZeroFits
  <2> QED BY <1>3, <2>1, <2>2 DEF GenLw, GenSw, GenAccess
<1> QED BY <1>2, <1>3

LEMMA GenBinopType ==
    ASSUME NEW bop \in Operators, NEW d \in Dest, NEW a \in AnyReg, NEW b \in AnyReg
    PROVE  GenBinop(bop, d, a, b) \in Seq(Line)
<1>1. Op2Instr[bop] \in {"add", "sub", "mul", "div", "rem", "slt", "sgt", "xor"}
  BY DEF Op2Instr, Operators
<1>2. RRR(Op2Instr[bop], d, a, b) \in Line
  BY <1>1 DEF RRR, Line, RegisterLine
<1>3. Seqz(d, d) \in Line /\ Snez(d, d) \in Line
  BY RegFacts DEF Seqz, Snez, RRI, Line, RegisterLine
<1> QED BY <1>2, <1>3 DEF GenBinop, Operators

LEMMA GenBinopNumType ==
    ASSUME NEW bop \in Operators, NEW d \in Target, NEW a \in Reg, NEW n \in Value
    PROVE  GenBinopNum(bop, d, a, n) \in Seq(Pending)
<1>1. d \in Dest /\ a \in AnyReg /\ s0 \in AnyReg /\ s0 \in Dest
  BY RegFacts
<1>2. CASE bop = "+" \/ bop = "<"
  BY <1>1, <1>2, GenImmType DEF GenBinopNum, Pending
<1>3. CASE (bop \in {"*", "/"} /\ IsPowerOf2(n)) \/ (bop = "%" /\ n \in {1, 2})
  <2>1. CASE bop = "*"
    <3>1. GenBinopNum(bop, d, a, n) = <<RRI("muli", d, a, n)>> /\ IsPowerOf2(n)
      BY <1>3, <2>1 DEF GenBinopNum
    <3>2. RRI("muli", d, a, n) \in Pending
      BY <3>1 DEF RRI, Pending, Shortcut
    <3> QED BY <3>1, <3>2
  <2>2. CASE bop = "/"
    <3>1. GenBinopNum(bop, d, a, n) = <<RRI("divi", d, a, n)>> /\ IsPowerOf2(n)
      BY <1>3, <2>2 DEF GenBinopNum
    <3>2. RRI("divi", d, a, n) \in Pending
      BY <3>1 DEF RRI, Pending, Shortcut
    <3> QED BY <3>1, <3>2
  <2>3. CASE bop = "%"
    <3>1. GenBinopNum(bop, d, a, n) = <<RRI("remi", d, a, n)>> /\ n \in {1, 2}
      BY <1>3, <2>3 DEF GenBinopNum
    <3>2. RRI("remi", d, a, n) \in Pending
      BY <3>1 DEF RRI, Pending, Shortcut
    <3> QED BY <3>1, <3>2
  <2> QED BY <1>3, <2>1, <2>2, <2>3
<1>4. CASE ~(bop = "+" \/ bop = "<") /\ ~((bop \in {"*", "/"} /\ IsPowerOf2(n)) \/ (bop = "%" /\ n \in {1, 2}))
  <2>1. GenBinopNum(bop, d, a, n) = <<Li(s0, n)>> \o GenBinop(bop, d, a, s0)
    BY <1>4 DEF GenBinopNum
  <2>2. Li(s0, n) \in Line
    BY RegFacts DEF Li, RRI, Line, RegisterLine
  <2>3. GenBinop(bop, d, a, s0) \in Seq(Line)
    BY <1>1, GenBinopType
  <2> QED BY <2>1, <2>2, <2>3 DEF Pending
<1> QED BY <1>2, <1>3, <1>4

LEMMA BranchNames ==
    /\ DOMAIN LogicOp2Instr = {"<", ">", "<=", ">=", "!=", "=="}
    /\ \A lop \in DOMAIN LogicOp2Instr : LogicOp2Instr[lop] \in Branches
    /\ Range(LogicOp2Instr) = Branches
    /\ LogicOp2Instr["<"] = "blt" /\ LogicOp2Instr[">"] = "bgt" /\ LogicOp2Instr["<="] = "ble"
    /\ LogicOp2Instr[">="] = "bge" /\ LogicOp2Instr["!="] = "bne" /\ LogicOp2Instr["=="] = "beq"
<1>1. DOMAIN LogicOp2Instr = {"<", ">", "<=", ">=", "!=", "=="}
  BY DEF LogicOp2Instr
<1>2. /\ LogicOp2Instr["<"] = "blt" /\ LogicOp2Instr[">"] = "bgt" /\ LogicOp2Instr["<="] = "ble"
      /\ LogicOp2Instr[">="] = "bge" /\ LogicOp2Instr["!="] = "bne" /\ LogicOp2Instr["=="] = "beq"
  BY DEF LogicOp2Instr
<1>3. \A lop \in DOMAIN LogicOp2Instr : LogicOp2Instr[lop] \in Branches
  BY <1>1, <1>2 DEF Branches
<1>4. \A b \in Branches : \E lop \in DOMAIN LogicOp2Instr : LogicOp2Instr[lop] = b
  BY <1>1, <1>2 DEF Branches
<1> QED BY <1>1, <1>2, <1>3, <1>4 DEF Range

\* An offset in the frame is a number that registers hold.
LEMMA OffsetFacts ==
    ASSUME function \in Functions
    PROVE  /\ \A n \in 0 .. function.size - 1 : n * 4 \in Value
           /\ -FrameBytes(function.size) \in Value /\ FrameBytes(function.size) - 4 \in Value
<1> DEFINE h == 2^(Bits - 1)
           f == FrameBytes(function.size)
<1>1. function.size \in Nat /\ f \in Value /\ h \in Nat /\ Value = -h .. h - 1
  BY FunctionFacts, Widths DEF Value
<1>2. f \in Nat /\ 4 * function.size + 4 <= f /\ f >= 16
  BY <1>1, FrameFacts
<1> HIDE DEF h, f
<1>3. \A n \in 0 .. function.size - 1 : n * 4 \in Value
  BY <1>1, <1>2
<1>4. -f \in Value /\ f - 4 \in Value
  BY <1>1, <1>2
<1> QED BY <1>3, <1>4 DEF f

Ops == {"binop", "binopnum", "neg", "not", "move", "num", "load", "loadaddr", "store", "loadv",
        "loadaddrv", "get", "put", "if", "goto", "call", "return", "enter"}

\* The fields of a Tigger line.
LEMMA TiggerFields ==
    ASSUME NEW size, NEW last, NEW t, t \in TiggerLine(size, last) \/ t = [op |-> "enter"]
    PROVE  /\ t.op \in Ops
           /\ t.op = "binop" => t.bop \in Operators /\ t.d \in Target /\ t.a \in Reg /\ t.b \in Reg
           /\ t.op = "binopnum" => t.bop \in Operators /\ t.d \in Target /\ t.a \in Reg /\ t.n \in Value
           /\ t.op \in {"neg", "not", "move"} => t.d \in Target /\ t.a \in Reg
           /\ t.op = "num" => t.d \in Target /\ t.n \in Value
           /\ t.op \in {"load", "loadaddr"} => t.d \in Target /\ t.n \in 0 .. size - 1
           /\ t.op = "store" => t.b \in Reg /\ t.n \in 0 .. size - 1
           /\ t.op \in {"loadv", "loadaddrv"} => t.d \in Target /\ t.v \in DOMAIN Data
           /\ t.op = "get" => t.d \in Target /\ t.a \in Reg /\ t.n \in Value
           /\ t.op = "put" => t.b \in Reg /\ t.a \in Reg /\ t.n \in Value
           /\ t.op = "if" => t.lop \in DOMAIN LogicOp2Instr /\ t.a \in Reg /\ t.b \in Reg /\ t.to \in 2 .. last
           /\ t.op = "goto" => t.to \in 2 .. last
BY DEF TiggerLine, Ops

LEMMA LinesType ==
    ASSUME function \in Functions, NEW t,
           t \in TiggerLine(function.size, Len(function.body)) \/ t = [op |-> "enter"]
    PROVE  Lines(t) \in Seq(Pending)
<1> DEFINE last == Len(function.body)
<1>1. t \in TiggerLine(function.size, last) \/ t = [op |-> "enter"]
  OBVIOUS
<1>2. last \in Nat /\ function.size \in Nat
  BY FunctionFacts
<1>2a. FrameBytes(function.size) \in Value /\ -FrameBytes(function.size) \in Value
       /\ FrameBytes(function.size) - 4 \in Value /\ \A n \in 0 .. function.size - 1 : n * 4 \in Value
  BY FunctionFacts, OffsetFacts
<1>2b. DOMAIN Data \subseteq Value
  BY MemoryAssumption DEF WordAddress
<1>3. t.op \in Ops
  BY <1>1, TiggerFields
<1>4. \A c \in Seq(Line) : c \in Seq(Pending)
  BY DEF Pending
<1>5. CASE t.op = "binop"
  BY <1>1, <1>4, <1>5, TiggerFields, GenBinopType, RegFacts DEF Lines
<1>6. CASE t.op = "binopnum"
  BY <1>1, <1>6, TiggerFields, GenBinopNumType DEF Lines
<1>7. CASE t.op \in {"neg", "not", "move"}
  <2>1. t.d \in Dest /\ t.a \in AnyReg
    BY <1>1, <1>7, TiggerFields, RegFacts
  <2>2. \A o \in {"neg", "seqz", "mv"} : RRI(o, t.d, t.a, 0) \in Pending
    BY <2>1 DEF RRI, Line, RegisterLine, Pending
  <2> QED BY <1>7, <2>2 DEF Lines, Seqz, Mv
<1>8. CASE t.op = "num"
  <2>1. t.d \in Dest /\ t.n \in Value /\ x0 \in AnyReg
    BY <1>1, <1>8, TiggerFields, RegFacts
  <2>2. Li(t.d, t.n) \in Pending
    BY <2>1 DEF Li, RRI, Line, RegisterLine, Pending
  <2> QED BY <1>8, <2>2 DEF Lines
<1>9. CASE t.op \in {"load", "loadaddr"}
  <2>1. t.d \in Dest /\ t.n * 4 \in Value /\ sp \in AnyReg
    BY <1>1, <1>2a, <1>9, TiggerFields, RegFacts
  <2> QED BY <1>4, <1>9, <2>1, GenAccessType, GenImmType DEF Lines
<1>10. CASE t.op = "store"
  <2>1. t.b \in AnyReg /\ t.n * 4 \in Value /\ sp \in AnyReg
    BY <1>1, <1>2a, <1>10, TiggerFields, RegFacts
  <2> QED BY <1>4, <1>10, <2>1, GenAccessType, RegFacts DEF Lines
<1>11. CASE t.op = "loadv"
  <2>1. t.d \in Dest /\ t.d \in AnyReg /\ t.v \in Value /\ x0 \in AnyReg
    BY <1>1, <1>2b, <1>11, TiggerFields, RegFacts
  <2>2. RRI("lui", t.d, x0, Hi(t.v)) \in Pending /\ RRI("lw", t.d, t.d, Lo(t.v)) \in Pending
    BY <2>1, Address DEF RRI, Line, RegisterLine, Pending, Immediate
  <2> QED BY <1>11, <2>2 DEF Lines
<1>12. CASE t.op = "loadaddrv"
  <2>1. t.d \in Dest /\ t.v \in Value /\ x0 \in AnyReg
    BY <1>1, <1>2b, <1>12, TiggerFields, RegFacts
  <2>2. RRI("la", t.d, x0, t.v) \in Pending
    BY <2>1 DEF RRI, Line, RegisterLine, Pending
  <2> QED BY <1>12, <2>2 DEF Lines
<1>13. CASE t.op \in {"get", "put"}
  <2>1. /\ t.a \in AnyReg /\ t.n \in Value
        /\ t.op = "get" => t.d \in Dest
        /\ t.op = "put" => t.b \in AnyReg
    BY <1>1, <1>13, TiggerFields, RegFacts
  <2> QED BY <1>4, <1>13, <2>1, GenAccessType, RegFacts DEF Lines
<1>14. CASE t.op = "if"
  <2>1. /\ t.a \in AnyReg /\ t.b \in AnyReg /\ t.to \in Nat \ {0}
        /\ LogicOp2Instr[t.lop] \in Branches
    BY <1>1, <1>2, <1>14, TiggerFields, RegFacts, BranchNames
  <2>2. [op |-> LogicOp2Instr[t.lop], a |-> t.a, b |-> t.b, to |-> t.to] \in Pending
    BY <2>1 DEF JumpLine, Line, Pending
  <2> QED BY <1>14, <2>2 DEF Lines
<1>15. CASE t.op = "goto"
  <2>1. t.to \in Nat \ {0}
    BY <1>1, <1>2, <1>15, TiggerFields
  <2>2. [op |-> "j", to |-> t.to] \in Pending
    BY <2>1 DEF JumpLine, Line, Pending
  <2> QED BY <1>15, <2>2 DEF Lines
<1>16. CASE t.op = "call"
  <2>1. [op |-> "call"] \in Pending
    BY DEF CallLine, Line, Pending
  <2> QED BY <1>16, <2>1 DEF Lines
<1>17. CASE t.op = "enter"
  <2>1. /\ GenImm("addi", "add", sp, sp, -FrameBytes(function.size)) \in Seq(Line)
        /\ GenSw(ra, FrameBytes(function.size) - 4, sp) \in Seq(Line)
    BY <1>2a, GenImmType, GenAccessType, RegFacts
  <2> QED BY <1>4, <1>17, <2>1 DEF Lines
<1>18. CASE t.op = "return"
  <2>1. /\ GenImm("addi", "add", sp, sp, FrameBytes(function.size)) \in Seq(Line)
        /\ GenLw(ra, FrameBytes(function.size) - 4, sp) \in Seq(Line)
    BY <1>2a, GenImmType, GenAccessType, RegFacts
  <2>2. [op |-> "ret", to |-> last + 1] \in Line
    BY <1>2 DEF JumpLine, Line
  <2>3. \A u, v \in Seq(Line), l \in Line : u \o v \o <<l>> \in Seq(Line)
    OBVIOUS
  <2>4. Lines(t) \in Seq(Line)
    BY <1>18, <2>1, <2>2, <2>3 DEF Lines
  <2> QED BY <1>4, <2>4
<1> QED BY <1>3, <1>5, <1>6, <1>7, <1>8, <1>9, <1>10, <1>11, <1>12, <1>13, <1>14, <1>15, <1>16, <1>17, <1>18
     DEF Ops

-----------------------------------------------------------------------------
\* What strength reduction makes of its lines.  Shifts by less than the
\* width have a number that registers hold.
LEMMA SmallNumbers == \A n \in 0 .. Bits - 1 : n \in Value
<1> DEFINE Bad == {n \in Nat : n <= Bits - 1 /\ ~(n < 2^n)}
<1>1. ASSUME Bad # {} PROVE FALSE
  <2>1. PICK k \in Bad : \A m \in Bad : k <= m
    <3>1. Bad \in SUBSET Nat
      OBVIOUS
    <3> HIDE DEF Bad
    <3> QED BY <1>1, <3>1, LeastNatural
  <2>2. k \in Nat /\ k <= Bits - 1 /\ ~(k < 2^k)
    OBVIOUS
  <2>3. k # 0
    BY <2>2, PowerAssumption
  <2>4. k - 1 \in Nat /\ k - 1 <= Bits - 1 /\ k - 1 \in 0 .. Bits - 1 /\ (k - 1) + 1 = k /\ ~(k <= k - 1)
    BY <2>2, <2>3, Widths
  <2>5. k - 1 \notin Bad
    <3> HIDE DEF Bad
    <3> QED BY <2>1, <2>4
  <2>6. k - 1 < 2^(k - 1) /\ 2^(k - 1) \in Nat \ {0} /\ 2^k = 2 * 2^(k - 1)
    BY <2>4, <2>5, PowerAssumption
  <2> QED BY <2>2, <2>4, <2>6
<1>2. ASSUME NEW n \in 0 .. Bits - 1 PROVE n \in Value
  <2>1. n \in Nat /\ n <= Bits - 1 /\ n < 2^n
    <3>1. n \in Nat /\ n <= Bits - 1
      BY <1>2, Widths
    <3>2. n \notin Bad
      BY <1>1
    <3> QED BY <3>1, <3>2
  <2>2. n = Bits - 1 \/ 2^n < 2^(Bits - 1)
    BY <2>1, PowersGrow, Widths
  <2>3. 2^(Bits - 1) \in Nat /\ 2^n \in Nat
    BY <1>2, PowerAssumption, Widths
  <2>4. n < 2^(Bits - 1)
    BY <2>1, <2>2, <2>3
  <2> QED BY <2>1, <2>3, <2>4 DEF Value
<1> QED BY <1>2

LEMMA PendingFields ==
    ASSUME NEW l \in Pending
    PROVE  /\ l \in Line \/ l \in Shortcut
           /\ l.op \in {"muli", "divi", "remi"} =>
                /\ l \in Shortcut /\ l.d \in Target /\ l.a \in Reg /\ l.d \in Dest /\ l.a \in AnyReg
                /\ l.n \in Value
                /\ l.op \in {"muli", "divi"} => IsPowerOf2(l.n)
                /\ l.op = "remi" => l.n \in {1, 2}
           /\ l \in Shortcut => l.op \in {"muli", "divi", "remi"}
<1>1. {1, 2} \subseteq Value
  BY WrapFacts
<1>2. l \in Line => l.op \notin {"muli", "divi", "remi"}
  BY DEF Line, RegisterLine, StoreLine, CallLine, JumpLine, Branches
<1>3. l \in Shortcut => /\ l.op \in {"muli", "divi", "remi"} /\ l.d \in Target /\ l.a \in Reg /\ l.n \in Value
                        /\ l.op \in {"muli", "divi"} => IsPowerOf2(l.n)
                        /\ l.op = "remi" => l.n \in {1, 2}
  BY <1>1 DEF Shortcut
<1>4. l \in Shortcut => l.d \in Dest /\ l.a \in AnyReg
  BY <1>3, RegFacts
<1>5. l \in Line \/ l \in Shortcut
  BY DEF Pending
<1> HIDE DEF Pending
<1> QED BY <1>2, <1>3, <1>4, <1>5

LEMMA KeptType ==
    ASSUME NEW l \in Pending, ~NeedsShift(l)
    PROVE  Kept(l) \in Seq(Line)
<1>1. CASE l \in Line
  <2>1. l.op \notin {"muli", "divi", "remi"}
    BY <1>1 DEF Line, RegisterLine, StoreLine, CallLine, JumpLine, Branches
  <2> QED BY <1>1, <2>1 DEF Kept
<1>2. CASE l.op \in {"muli", "divi", "remi"}
  <2>1. l.d \in Dest /\ l.a \in AnyReg /\ x0 \in AnyReg /\ l.op = "remi" => l.n \in {1, 2}
    BY <1>2, PendingFields, RegFacts
  <2>2. {Li(l.d, 0), Mv(l.d, l.a), Mv(l.d, x0), RRI("andi", l.d, l.a, 1)} \subseteq Line
    <3>1. l.d \in Dest /\ l.a \in AnyReg /\ x0 \in AnyReg /\ 0 \in Value
      BY <1>2, PendingFields, RegFacts, WrapFacts
    <3> QED BY <3>1 DEF Li, Mv, RRI, Line, RegisterLine
  <2>3. << >> \in Seq(Line) /\ \A v \in Line : <<v>> \in Seq(Line)
    OBVIOUS
  <2>4. l.op = "remi" => l.n \in {1, 2}
    BY <1>2, PendingFields
  <2> QED BY <1>2, <2>2, <2>3, <2>4 DEF Kept, MvUnlessSame, NeedsShift
<1> QED BY <1>1, <1>2, PendingFields

LEMMA ShiftedType ==
    ASSUME NEW l \in Shortcut, NEW k \in 0 .. Bits - 1
    PROVE  Shifted(l, k) \in Seq(Line)
<1>1. l.d \in Dest /\ l.a \in AnyReg /\ s0 \in Dest /\ s0 \in AnyReg
  BY PendingFields, RegFacts DEF Pending
<1>2. Bits - 1 \in 0 .. Bits - 1
  BY Widths
<1>3. {RRI("slli", l.d, l.a, k), RRI("srli", s0, l.a, Bits - 1), RRR("add", s0, s0, l.a),
       RRI("sra", l.d, s0, k)} \subseteq Line
  BY <1>1, <1>2 DEF RRI, RRR, Line, RegisterLine
<1> QED BY <1>3 DEF Shifted, Divide

\* The loop that counts shifts: it has halved n to v, and counted k.
Counting(n, v, k) ==
    \/ n < 0 /\ v \in Int /\ v < 0
    \/ n = 0 /\ v = 0 /\ k = 0
    \/ \E i, j \in 0 .. Bits - 2 : i + j <= Bits - 2 /\ n = 2^(i + j) /\ v = 2^i /\ k = j

LEMMA CountingStart ==
    ASSUME NEW l \in Pending, NeedsShift(l)
    PROVE  Counting(l.n, l.n, 0)
<1>1. l.op \in {"muli", "divi"} /\ IsPowerOf2(l.n)
  BY PendingFields DEF NeedsShift
<1>2. CASE l.n = 0
  BY <1>2 DEF Counting
<1>3. CASE l.n = -2^(Bits - 1)
  BY <1>3, Widths DEF Counting
<1>4. CASE l.n \in {2^i : i \in 0 .. Bits - 2}
  <2>1. PICK i \in 0 .. Bits - 2 : l.n = 2^i
    BY <1>4
  <2>2. i + 0 = i /\ 0 \in 0 .. Bits - 2 /\ i <= Bits - 2
    BY Widths
  <2> QED BY <2>1, <2>2 DEF Counting
<1> QED BY <1>1, <1>2, <1>3, <1>4 DEF IsPowerOf2

LEMMA CountingStep ==
    ASSUME NEW n, NEW v, NEW k, Counting(n, v, k), Half(v) # 0
    PROVE  Counting(n, Half(v), Wrap(k + 1)) /\ Half(v) # 0
<1>1. CASE n < 0 /\ v \in Int /\ v < 0
  <2>1. Half(v) \in Int /\ Half(v) < 0
    BY <1>1 DEF Half
  <2> QED BY <1>1, <2>1 DEF Counting
<1>2. CASE n = 0 /\ v = 0 /\ k = 0
  BY <1>2 DEF Half
<1>3. ASSUME NEW i \in 0 .. Bits - 2, NEW j \in 0 .. Bits - 2,
             i + j <= Bits - 2, n = 2^(i + j), v = 2^i, k = j
      PROVE  Counting(n, Half(v), Wrap(k + 1))
  <2>1. ASSUME i = 0 PROVE FALSE
    <3>1. v = 1
      BY <1>3, <2>1, PowerAssumption
    <3> QED BY <3>1 DEF Half
  <2>2. /\ i - 1 \in 0 .. Bits - 2 /\ j + 1 \in 0 .. Bits - 2 /\ i - 1 \in 0 .. Bits - 1
        /\ (i - 1) + 1 = i /\ (i - 1) + (j + 1) = i + j /\ j + 1 \in 0 .. Bits - 1
    BY <1>3, <2>1, Widths
  <2>3. 2^i = 2 * 2^(i - 1) /\ 2^(i - 1) \in Nat
    BY <2>2, PowerAssumption
  <2>4. Half(v) = 2^(i - 1)
    BY <1>3, <2>3 DEF Half
  <2>5. Wrap(k + 1) = j + 1
    BY <1>3, <2>2, SmallNumbers, WrapFacts
  <2>6. (i - 1) + (j + 1) <= Bits - 2 /\ n = 2^((i - 1) + (j + 1))
    BY <1>3, <2>2
  <2> QED BY <2>2, <2>4, <2>5, <2>6 DEF Counting
<1> QED BY <1>1, <1>2, <1>3 DEF Counting

LEMMA CountingEnd ==
    ASSUME NEW n, NEW v, NEW k, Counting(n, v, k), Half(v) = 0
    PROVE  k \in 0 .. Bits - 2 /\ (n = 0 \/ n = 2^k)
<1>1. CASE n < 0 /\ v \in Int /\ v < 0
  BY <1>1 DEF Half
<1>2. CASE n = 0 /\ v = 0 /\ k = 0
  BY <1>2, Widths
<1>3. ASSUME NEW i \in 0 .. Bits - 2, NEW j \in 0 .. Bits - 2,
             i + j <= Bits - 2, n = 2^(i + j), v = 2^i, k = j
      PROVE  k \in 0 .. Bits - 2 /\ n = 2^k
  <2>1. CASE i = 0
    BY <1>3, <2>1
  <2>2. CASE i # 0
    <3>1. i - 1 \in 0 .. Bits - 1 /\ (i - 1) + 1 = i
      BY <2>2, Widths
    <3>2. 2^i = 2 * 2^(i - 1) /\ 2^(i - 1) \in Nat \ {0}
      BY <3>1, PowerAssumption
    <3> QED BY <1>3, <3>2 DEF Half
  <2> QED BY <2>1, <2>2
<1> QED BY <1>1, <1>2, <1>3 DEF Counting

-----------------------------------------------------------------------------
\* Every line has operands that can be encoded, and the counts of shifts
\* come out right.
HalvingOK ==
    IF pending # << >> /\ NeedsShift(First) THEN Counting(First.n, Left, halving.k)
    ELSE halving = NotHalving

CodeOK ==
    /\ function \in Functions /\ line \in Nat \ {0}
    /\ pending \in Seq(Pending) /\ code \in Seq(Line)
    /\ HalvingOK

LEMMA NextLineType ==
    ASSUME function \in Functions, line \in Nat \ {0}, line <= Len(function.body)
    PROVE  \/ line = 1 /\ function.body[line] = [op |-> "enter"]
           \/ line \in 2 .. Len(function.body)
                /\ function.body[line] \in TiggerLine(function.size, Len(function.body))
<1>1. Len(function.body) \in Nat
  BY FunctionFacts
<1>2. CASE line = 1
  BY <1>2, FunctionFacts
<1>3. CASE line # 1
  <2>1. line \in 2 .. Len(function.body)
    BY <1>1, <1>3
  <2> QED BY <2>1, FunctionFacts
<1> QED BY <1>2, <1>3

LEMMA FreshHalving ==
    ASSUME pending' \in Seq(Pending), halving' = NotHalving
    PROVE  HalvingOK'
<1>1. CASE pending' # << >> /\ NeedsShift(First')
  <2>1. First' \in Pending
    BY <1>1 DEF First
  <2>2. Counting(First'.n, First'.n, 0)
    BY <1>1, <2>1, CountingStart
  <2>3. Left' = First'.n /\ halving'.k = 0
    BY DEF Left, NotHalving
  <2> QED BY <1>1, <2>2, <2>3 DEF HalvingOK
<1>2. CASE ~(pending' # << >> /\ NeedsShift(First'))
  BY <1>2 DEF HalvingOK
<1> QED BY <1>1, <1>2

LEMMA InitCode == Init => CodeOK
<1> SUFFICES ASSUME Init PROVE CodeOK
  OBVIOUS
<1>1. pending = << >> /\ code = << >> /\ line = 1 /\ halving = NotHalving /\ function \in Functions
  BY DEF Init
<1> QED BY <1>1 DEF CodeOK, HalvingOK

LEMMA NextCode == CodeOK /\ [Next]_vars => CodeOK'
<1> SUFFICES ASSUME CodeOK, [Next]_vars PROVE CodeOK'
  OBVIOUS
<1>0. /\ function \in Functions /\ line \in Nat \ {0} /\ HalvingOK
      /\ pending \in Seq(Pending) /\ code \in Seq(Line)
  BY DEF CodeOK
<1>1. CASE Compile
  <2>1. /\ function' = function /\ pending' = Lines(function.body[line]) /\ line' = line + 1
        /\ halving' = halving /\ code' = code /\ line <= Len(function.body) /\ pending = << >>
    BY <1>1 DEF Compile, AtBoundary
  <2>2. pending' \in Seq(Pending)
    BY <1>0, <2>1, NextLineType, LinesType
  <2>3. halving' = NotHalving
    BY <1>0, <2>1 DEF HalvingOK
  <2>4. HalvingOK'
    BY <2>2, <2>3, FreshHalving
  <2> QED BY <1>0, <2>1, <2>2, <2>4 DEF CodeOK
<1>2. ASSUME NEW lines \in Seq(Line), pending # << >>, Replace(lines)
      PROVE  CodeOK'
  <2>1. /\ function' = function /\ pending' = Tail(pending) /\ line' = line
        /\ halving' = NotHalving /\ code' = code \o lines
    BY <1>2 DEF Replace
  <2>2. pending' \in Seq(Pending)
    BY <1>0, <1>2, <2>1
  <2>3. HalvingOK'
    BY <2>1, <2>2, FreshHalving
  <2> QED BY <1>0, <1>2, <2>1, <2>2, <2>3 DEF CodeOK
<1>3. CASE Keep
  <2>1. pending # << >> /\ ~NeedsShift(First) /\ Replace(Kept(First))
    BY <1>3 DEF Keep
  <2>2. First \in Pending
    BY <1>0, <2>1 DEF First
  <2> QED BY <1>2, <2>1, <2>2, KeptType
<1>4. CASE Shift
  <2>1. pending # << >> /\ NeedsShift(First) /\ Half(Left) = 0 /\ Replace(Shifted(First, halving.k))
    BY <1>4 DEF Shift
  <2>2. First \in Pending /\ First \in Shortcut
    BY <1>0, <2>1, PendingFields DEF First, NeedsShift
  <2>3. halving.k \in 0 .. Bits - 2
    BY <1>0, <2>1, CountingEnd DEF HalvingOK
  <2>4. halving.k \in 0 .. Bits - 1
    BY <2>3, Widths
  <2> QED BY <1>2, <2>1, <2>2, <2>4, ShiftedType
<1>5. CASE Halve
  <2>1. /\ pending # << >> /\ NeedsShift(First) /\ Half(Left) # 0
        /\ halving' = [n |-> Half(Left), k |-> Wrap(halving.k + 1)]
        /\ function' = function /\ line' = line /\ pending' = pending /\ code' = code
    BY <1>5 DEF Halve
  <2>2. Counting(First.n, Half(Left), Wrap(halving.k + 1))
    BY <1>0, <2>1, CountingStep DEF HalvingOK
  <2>3. First' = First
    BY <2>1 DEF First
  <2>4. Left' = Half(Left) /\ halving'.k = Wrap(halving.k + 1)
    BY <2>1 DEF Left, NotHalving
  <2>5. HalvingOK'
    BY <2>1, <2>2, <2>3, <2>4 DEF HalvingOK
  <2> QED BY <1>0, <2>1, <2>5 DEF CodeOK
<1>6. ASSUME Ready, function' = function, pending' = pending, halving' = halving, code' = Tail(code),
             line' \in Nat \ {0}
      PROVE  CodeOK'
  <2>1. code' \in Seq(Line) /\ pending' = << >> /\ pending = << >>
    BY <1>0, <1>6 DEF Ready
  <2>2. HalvingOK'
    BY <1>0, <1>6, <2>1 DEF HalvingOK
  <2> QED BY <1>0, <1>6, <2>1, <2>2 DEF CodeOK
<1>7. CASE RunRegister
  BY <1>0, <1>6, <1>7 DEF RunRegister
<1>8. CASE RunStore
  BY <1>0, <1>6, <1>8 DEF RunStore
<1>9. CASE RunCall
  BY <1>0, <1>6, <1>9 DEF RunCall
<1>10. CASE RunJump
  <2>1. Instr \in Line /\ Instr.op \in {"j", "ret"} \cup Branches
    BY <1>0, <1>10, BranchNames DEF RunJump, Ready, Instr
  <2>2. Instr.to \in Nat \ {0}
    BY <2>1 DEF Line, RegisterLine, StoreLine, CallLine, JumpLine, Branches
  <2> QED BY <1>0, <1>6, <1>10, <2>2 DEF RunJump
<1>11. CASE UNCHANGED vars
  BY <1>0, <1>11 DEF vars, CodeOK, HalvingOK, First, Left
<1> QED BY <1>1, <1>3, <1>4, <1>5, <1>7, <1>8, <1>9, <1>10, <1>11 DEF Next

\* What the passes emit, RISC-V encodes: immediate operands fit, whatever
\* the number or the offset, shifts are by less than the width, and no
\* instruction is left that only this pass knows.
THEOREM OperandsFitAlways == Spec => []OperandsFit
<1>1. CodeOK => OperandsFit
  <2> SUFFICES ASSUME CodeOK, NEW i \in 1 .. Len(code)
               PROVE  /\ code[i].op \in {"addi", "slti", "andi", "lw", "sw"} => FitsImm(code[i].n)
                      /\ code[i].op \in {"slli", "srli", "sra"} => code[i].n \in 0 .. Bits - 1
                      /\ code[i].op = "lui" => code[i].n % 2^ImmBits = 0
                      /\ code[i].op \notin {"muli", "divi", "remi"}
    BY DEF OperandsFit
  <2>1. code[i] \in Line
    BY DEF CodeOK
  <2>2. FitsImm(1)
    BY ZeroFits DEF Immediate
  <2> QED BY <2>1, <2>2 DEF Line, RegisterLine, StoreLine, CallLine, JumpLine, Branches, Immediate
<1> QED BY <1>1, InitCode, NextCode, PTL DEF Spec

-----------------------------------------------------------------------------
\* States of the RISC-V machine while the code of a function f runs: what
\* lies outside its frame and the globals is never written.
Base(f) == StackTop - FrameBytes(f.size)
WordsOf(f) == 0 .. f.size - 1 \cup {(address - Base(f)) \div 4 : address \in DOMAIN Data}
Inside(f) == {address \in WordAddress : address \in DOMAIN Data \/ (Base(f) <= address /\ address < StackTop)}

Machine(f) ==
    {s \in [regs : [AnyReg -> Value], mem : [WordAddress -> Value], line : 1 .. Len(f.body) + 1] :
        /\ s.regs[x0] = 0
        /\ \A address \in WordAddress \ Inside(f) : s.mem[address] = 0}

SetReg(s, d, v) == [s EXCEPT !.regs = [s.regs EXCEPT ![d] = v]]
SetMem(s, address, v) == [s EXCEPT !.mem = [s.mem EXCEPT ![address] = v]]
SetLine(s, n) == [s EXCEPT !.line = n]

\* What strength reduction leaves in s0 when it divides by 2.
Shortened(s, l) ==
    CASE l.op = "muli" -> SetReg(s, l.d, Outcome("*", s.regs[l.a], l.n))
      [] l.op = "remi" -> SetReg(s, l.d, Outcome("%", s.regs[l.a], l.n))
      [] l.op = "divi" ->
            SetReg(IF l.n = 1 THEN s ELSE SetReg(s, s0, Wrap(Truth(s.regs[l.a] < 0) + s.regs[l.a])),
                   l.d, Outcome("/", s.regs[l.a], l.n))

Effect(s, l) ==
    CASE l \in RegisterLine -> SetReg(s, l.d, Result(s.regs, s.mem, l))
      [] l \in StoreLine -> SetMem(s, Wrap(s.regs[l.a] + l.n), s.regs[l.b])
      [] l \in CallLine -> SetReg(SetReg(s, ra, 0), s0, 0)
      [] l \in JumpLine -> SetLine(s, IF Taken(s.regs, l) THEN l.to ELSE s.line)
      [] l \in Shortcut -> Shortened(s, l)

\* Accesses to the frame and the globals, jumps into the function, and
\* shortcuts that are right.
Permitted(f, s, l) ==
    /\ l.op \in {"lw", "sw"} => Wrap(s.regs[l.a] + l.n) \in Inside(f)
    /\ l \in JumpLine => l.to \in 1 .. Len(f.body) + 1
    /\ l.op = "divi" => l.n # 0 /\ (l.n \in {1, 2, -2^(Bits - 1)} \/ s.regs[l.a] >= 0)
    /\ l.op = "remi" => l.n = 1 \/ s.regs[l.a] >= 0

Steps(f) ==
    {p \in Machine(f) \X Pending \X Machine(f) : Permitted(f, p[1], p[2]) /\ p[3] = Effect(p[1], p[2])}

LEMMA StepFacts ==
    ASSUME NEW f, NEW s, NEW l, NEW q
    PROVE  <<s, l, q>> \in Steps(f) <=>
              /\ s \in Machine(f) /\ l \in Pending /\ q \in Machine(f)
              /\ Permitted(f, s, l) /\ q = Effect(s, l)
BY DEF Steps

LEMMA MachineFacts ==
    ASSUME NEW f, NEW s \in Machine(f)
    PROVE  /\ s = [regs |-> s.regs, mem |-> s.mem, line |-> s.line]
           /\ s.regs \in [AnyReg -> Value] /\ s.regs[x0] = 0
           /\ s.mem \in [WordAddress -> Value] /\ s.line \in 1 .. Len(f.body) + 1
           /\ \A address \in WordAddress \ Inside(f) : s.mem[address] = 0
           /\ \A r \in AnyReg : s.regs[r] \in Value /\ s.regs[r] \in Int
           /\ \A address \in WordAddress : s.mem[address] \in Value
<1>1. \A v \in Value : v \in Int
  BY WrapFacts
<1> QED BY <1>1 DEF Machine

LEMMA SetRegFacts ==
    ASSUME NEW f, NEW s \in Machine(f), NEW d \in Dest, NEW v \in Value
    PROVE  /\ SetReg(s, d, v) \in Machine(f)
           /\ SetReg(s, d, v).regs[d] = v
           /\ \A r \in AnyReg \ {d} : SetReg(s, d, v).regs[r] = s.regs[r]
           /\ SetReg(s, d, v).mem = s.mem /\ SetReg(s, d, v).line = s.line
           /\ s.regs[d] = v => SetReg(s, d, v) = s
           /\ \A w \in Value : SetReg(SetReg(s, d, v), d, w) = SetReg(s, d, w)
<1>1. s = [regs |-> s.regs, mem |-> s.mem, line |-> s.line] /\ s.regs \in [AnyReg -> Value]
      /\ s.regs[x0] = 0 /\ s.mem \in [WordAddress -> Value] /\ s.line \in 1 .. Len(f.body) + 1
      /\ \A address \in WordAddress \ Inside(f) : s.mem[address] = 0
  BY MachineFacts
<1>2. d \in AnyReg /\ d # x0 /\ x0 \in AnyReg
  BY RegFacts DEF Dest
<1>3. SetReg(s, d, v) = [regs |-> [s.regs EXCEPT ![d] = v], mem |-> s.mem, line |-> s.line]
  BY <1>1 DEF SetReg
<1>4. [s.regs EXCEPT ![d] = v] \in [AnyReg -> Value]
  BY <1>1
<1>5. SetReg(s, d, v) \in Machine(f)
  BY <1>1, <1>2, <1>3, <1>4 DEF Machine
<1>6. /\ SetReg(s, d, v).regs[d] = v
      /\ \A r \in AnyReg \ {d} : SetReg(s, d, v).regs[r] = s.regs[r]
      /\ SetReg(s, d, v).mem = s.mem /\ SetReg(s, d, v).line = s.line
  BY <1>1, <1>2, <1>3
<1>7. ASSUME s.regs[d] = v PROVE SetReg(s, d, v) = s
  <2>1. [s.regs EXCEPT ![d] = v] = s.regs
    BY <1>1, <1>7
  <2> QED BY <1>1, <1>3, <2>1
<1>8. ASSUME NEW w \in Value PROVE SetReg(SetReg(s, d, v), d, w) = SetReg(s, d, w)
  <2> DEFINE q == SetReg(s, d, v)
  <2>0. q = [regs |-> [s.regs EXCEPT ![d] = v], mem |-> s.mem, line |-> s.line]
    BY <1>3
  <2> HIDE DEF q
  <2>1. SetReg(q, d, w)
            = [regs |-> [[s.regs EXCEPT ![d] = v] EXCEPT ![d] = w], mem |-> s.mem, line |-> s.line]
    BY <2>0 DEF SetReg
  <2>2. SetReg(s, d, w) = [regs |-> [s.regs EXCEPT ![d] = w], mem |-> s.mem, line |-> s.line]
    BY <1>1 DEF SetReg
  <2>3. [[s.regs EXCEPT ![d] = v] EXCEPT ![d] = w] = [s.regs EXCEPT ![d] = w]
    BY <1>1
  <2> QED BY <2>1, <2>2, <2>3 DEF q
<1> QED BY <1>5, <1>6, <1>7, <1>8

LEMMA SetMemFacts ==
    ASSUME NEW f, NEW s \in Machine(f), NEW address \in Inside(f), NEW v \in Value
    PROVE  /\ SetMem(s, address, v) \in Machine(f)
           /\ SetMem(s, address, v).mem[address] = v
           /\ \A b \in WordAddress \ {address} : SetMem(s, address, v).mem[b] = s.mem[b]
           /\ SetMem(s, address, v).regs = s.regs /\ SetMem(s, address, v).line = s.line
<1>1. s = [regs |-> s.regs, mem |-> s.mem, line |-> s.line] /\ s.regs \in [AnyReg -> Value]
      /\ s.regs[x0] = 0 /\ s.mem \in [WordAddress -> Value] /\ s.line \in 1 .. Len(f.body) + 1
      /\ \A b \in WordAddress \ Inside(f) : s.mem[b] = 0
  BY MachineFacts
<1>2. address \in WordAddress
  BY DEF Inside
<1>3. SetMem(s, address, v) = [regs |-> s.regs, mem |-> [s.mem EXCEPT ![address] = v], line |-> s.line]
  BY <1>1 DEF SetMem
<1>4. [s.mem EXCEPT ![address] = v] \in [WordAddress -> Value]
      /\ \A b \in WordAddress \ Inside(f) : [s.mem EXCEPT ![address] = v][b] = 0
  BY <1>1, <1>2
<1>5. SetMem(s, address, v) \in Machine(f)
  BY <1>1, <1>3, <1>4 DEF Machine
<1> QED BY <1>1, <1>2, <1>3, <1>5

LEMMA RegisterFields ==
    ASSUME NEW l \in RegisterLine
    PROVE  /\ l.op \in {"add", "sub", "mul", "div", "rem", "slt", "sgt", "xor", "li", "la", "lui", "mv",
                        "seqz", "snez", "neg", "addi", "slti", "lw", "andi", "slli", "srli", "sra"}
           /\ l.d \in Dest /\ l.a \in AnyReg
           /\ l.op \in {"add", "sub", "mul", "div", "rem", "slt", "sgt", "xor"} => l.b \in AnyReg
           /\ l.op \in {"li", "la", "lui", "addi", "slti", "lw"} => l.n \in Value
           /\ l.op \in {"slli", "srli", "sra"} => l.n \in 0 .. Bits - 1
BY DEF RegisterLine, Immediate

LEMMA ResultType ==
    ASSUME NEW f, NEW s \in Machine(f), NEW l \in RegisterLine,
           l.op = "lw" => Wrap(s.regs[l.a] + l.n) \in WordAddress
    PROVE  Result(s.regs, s.mem, l) \in Value
<1> DEFINE a == s.regs[l.a]
           b == s.regs[l.b]
<1>1. l.d \in Dest /\ l.a \in AnyReg /\ a \in Value /\ a \in Int
  BY RegisterFields, MachineFacts
<1>2. l.op \in {"add", "sub", "mul", "div", "rem", "slt", "sgt", "xor"} => b \in Value /\ b \in Int
  BY RegisterFields, MachineFacts
<1>3. l.op \in {"li", "la", "lui", "addi", "slti", "lw"} => l.n \in Value /\ l.n \in Int
  BY RegisterFields, WrapFacts
<1>4. l.op \in {"slli", "srli", "sra"} => 2^l.n \in Nat \ {0}
  BY RegisterFields, PowerAssumption
<1>5. 0 \in Value /\ 1 \in Value /\ -1 \in Value
  BY WrapFacts
<1>6. \A p : Truth(p) \in Value
  BY <1>5 DEF Truth
<1>7. CASE l.op \in {"li", "la", "lui"}
  BY <1>3, <1>7 DEF Result
<1>8. CASE l.op \in {"mv", "seqz", "snez", "slti", "srli", "slt", "sgt", "xor"}
  BY <1>1, <1>6, <1>8 DEF Result
<1>9. CASE l.op \in {"neg", "addi"}
  <2>1. -a \in Int /\ (l.op = "addi" => a + l.n \in Int)
    BY <1>1, <1>3
  <2> QED BY <1>9, <2>1, WrapFacts DEF Result
<1>10. CASE l.op \in {"add", "sub", "mul"}
  <2>1. a + b \in Int /\ a - b \in Int /\ a * b \in Int
    BY <1>1, <1>2, <1>10
  <2> QED BY <1>10, <2>1, WrapFacts DEF Result
<1>11. CASE l.op = "andi"
  <2>1. Bit(a, 0) = ((a % 2^Bits) \div 1) % 2
    BY PowerAssumption DEF Bit
  <2>2. 2^Bits \in Nat \ {0}
    BY Widths
  <2>3. a % 2^Bits \in Int
    <3>1. \A w \in Nat \ {0} : a % w \in Int
      BY <1>1
    <3> QED BY <2>2, <3>1
  <2>4. ((a % 2^Bits) \div 1) % 2 \in {0, 1}
    BY <2>3
  <2> QED BY <1>5, <1>11, <2>1, <2>4 DEF Result
<1>12. CASE l.op = "slli"
  <2>1. a * 2^l.n \in Int
    BY <1>1, <1>4, <1>12
  <2> QED BY <1>12, <2>1, WrapFacts DEF Result
<1>13. CASE l.op = "sra"
  BY <1>1, <1>4, <1>13, QuotientInValue DEF Result
<1>14. CASE l.op = "lw"
  BY <1>14, MachineFacts DEF Result
<1>15. CASE l.op \in {"div", "rem"}
  BY <1>1, <1>2, <1>5, <1>15, QuotientFacts, WrapFacts DEF Result
<1> QED BY <1>7, <1>8, <1>9, <1>10, <1>11, <1>12, <1>13, <1>14, <1>15, RegisterFields

\* One line that sets a register, or a word.
LEMMA KindFacts ==
    /\ \A l \in RegisterLine : l \notin StoreLine /\ l \notin CallLine /\ l \notin JumpLine /\ l \notin Shortcut
    /\ \A l \in StoreLine : l \notin RegisterLine /\ l \notin CallLine /\ l \notin JumpLine /\ l \notin Shortcut
    /\ \A l \in CallLine : l \notin RegisterLine /\ l \notin StoreLine /\ l \notin JumpLine /\ l \notin Shortcut
    /\ \A l \in JumpLine : l \notin RegisterLine /\ l \notin StoreLine /\ l \notin CallLine /\ l \notin Shortcut
    /\ \A l \in Shortcut : l \notin RegisterLine /\ l \notin StoreLine /\ l \notin CallLine /\ l \notin JumpLine
<1>1. \A l \in RegisterLine :
        l.op \in {"add", "sub", "mul", "div", "rem", "slt", "sgt", "xor", "li", "la", "lui", "mv", "seqz",
                  "snez", "neg", "addi", "slti", "lw", "andi", "slli", "srli", "sra"}
  BY RegisterFields
<1>2. \A l \in StoreLine : l.op = "sw"
  BY DEF StoreLine
<1>3. \A l \in CallLine : l.op = "call"
  BY DEF CallLine
<1>4. \A l \in JumpLine : l.op \in {"j", "ret"} \cup Branches
  BY DEF JumpLine
<1>5. \A l \in Shortcut : l.op \in {"muli", "divi", "remi"}
  BY DEF Shortcut
<1> QED BY <1>1, <1>2, <1>3, <1>4, <1>5 DEF Branches

LEMMA RegisterStep ==
    ASSUME NEW f, NEW s \in Machine(f), NEW l \in RegisterLine,
           l.op = "lw" => Wrap(s.regs[l.a] + l.n) \in Inside(f)
    PROVE  /\ Result(s.regs, s.mem, l) \in Value
           /\ SetReg(s, l.d, Result(s.regs, s.mem, l)) \in Machine(f)
           /\ <<s, l, SetReg(s, l.d, Result(s.regs, s.mem, l))>> \in Steps(f)
           /\ Chain(Steps(f), <<l>>, s, SetReg(s, l.d, Result(s.regs, s.mem, l)))
<1> DEFINE v == Result(s.regs, s.mem, l)
<1>1. v \in Value
  BY ResultType DEF Inside
<1>2. SetReg(s, l.d, v) \in Machine(f)
  BY <1>1, RegisterFields, SetRegFacts
<1>3. Effect(s, l) = SetReg(s, l.d, v)
  BY KindFacts DEF Effect
<1>4. Permitted(f, s, l)
  BY KindFacts, RegisterFields DEF Permitted
<1>5. l \in Pending
  BY DEF Pending, Line
<1> HIDE DEF v
<1>6. <<s, l, SetReg(s, l.d, v)>> \in Steps(f)
  BY <1>2, <1>3, <1>4, <1>5, StepFacts
<1> QED BY <1>1, <1>2, <1>6, ChainOfOne DEF v

LEMMA StoreStep ==
    ASSUME NEW f, NEW s \in Machine(f), NEW l \in StoreLine, Wrap(s.regs[l.a] + l.n) \in Inside(f)
    PROVE  /\ SetMem(s, Wrap(s.regs[l.a] + l.n), s.regs[l.b]) \in Machine(f)
           /\ <<s, l, SetMem(s, Wrap(s.regs[l.a] + l.n), s.regs[l.b])>> \in Steps(f)
<1> DEFINE q == SetMem(s, Wrap(s.regs[l.a] + l.n), s.regs[l.b])
<1>1. l.b \in AnyReg /\ l.op = "sw"
  BY DEF StoreLine
<1>2. q \in Machine(f)
  BY <1>1, MachineFacts, SetMemFacts
<1>3. Effect(s, l) = q
  BY KindFacts DEF Effect
<1>4. Permitted(f, s, l)
  BY <1>1, KindFacts DEF Permitted
<1>5. l \in Pending
  BY DEF Pending, Line
<1> HIDE DEF q
<1>6. <<s, l, q>> \in Steps(f)
  BY <1>2, <1>3, <1>4, <1>5, StepFacts
<1> QED BY <1>2, <1>6 DEF q

LEMMA PairOf == \A l, k : <<l>> \o <<k>> = <<l, k>> /\ <<l>> \o << >> = <<l>>
<1> TAKE l, k
<1> DEFINE e == <<l>> \o <<k>>
<1>1. e \in Seq({l, k}) /\ Len(e) = 2 /\ e[1] = l /\ e[2] = k
  OBVIOUS
<1> HIDE DEF e
<1>2. e = <<l, k>>
  BY <1>1
<1>3. <<l>> \o << >> = <<l>>
  OBVIOUS
<1> QED BY <1>2, <1>3 DEF e

LEMMA ChainOfTwo ==
    ASSUME NEW R, NEW l, NEW k, NEW s, NEW m, NEW q, <<s, l, m>> \in R, <<m, k, q>> \in R
    PROVE  Chain(R, <<l, k>>, s, q)
<1>1. <<l>> \in Seq({l, k}) /\ <<k>> \in Seq({l, k})
  OBVIOUS
<1>2. Chain(R, <<l>> \o <<k>>, s, q)
  BY <1>1, ChainOfOne, ChainOfBoth
<1> QED BY <1>2, PairOf

LEMMA ChainOfThree ==
    ASSUME NEW R, NEW l, NEW k, NEW j, NEW s, NEW m, NEW p, NEW q,
           <<s, l, m>> \in R, <<m, k, p>> \in R, <<p, j, q>> \in R
    PROVE  Chain(R, <<l, k, j>>, s, q)
<1>1. <<l, k>> \in Seq({l, k, j}) /\ <<j>> \in Seq({l, k, j}) /\ <<l, k, j>> = <<l, k>> \o <<j>>
  OBVIOUS
<1>2. Chain(R, <<l, k>> \o <<j>>, s, q)
  BY <1>1, ChainOfOne, ChainOfTwo, ChainOfBoth
<1> QED BY <1>1, <1>2

-----------------------------------------------------------------------------
\* What the lines of each helper come to: they set d to v, or a word of
\* memory, and use s0.
KeepsOthers(s, q, d) == \A r \in AnyReg \ {d, s0} : q.regs[r] = s.regs[r]

Yields(f, c, s, d, v) ==
    \E q \in Machine(f) :
        /\ Chain(Steps(f), c, s, q)
        /\ q.regs[d] = v /\ KeepsOthers(s, q, d) /\ q.mem = s.mem /\ q.line = s.line

Puts(f, c, s, address, v) ==
    \E q \in Machine(f) :
        /\ Chain(Steps(f), c, s, q)
        /\ q.mem = [s.mem EXCEPT ![address] = v]
        /\ KeepsOthers(s, q, s0) /\ q.line = s.line

\* A line that sets d, by itself or after one that sets s0.
LEMMA YieldsOne ==
    ASSUME NEW f, NEW s \in Machine(f), NEW l \in RegisterLine,
           l.op = "lw" => Wrap(s.regs[l.a] + l.n) \in Inside(f)
    PROVE  Yields(f, <<l>>, s, l.d, Result(s.regs, s.mem, l))
<1> DEFINE v == Result(s.regs, s.mem, l)
           q == SetReg(s, l.d, v)
<1>1. v \in Value /\ q \in Machine(f) /\ Chain(Steps(f), <<l>>, s, q)
  BY RegisterStep
<1>2. l.d \in Dest
  BY RegisterFields
<1> HIDE DEF v
<1>3. /\ q.regs[l.d] = v /\ q.mem = s.mem /\ q.line = s.line
      /\ \A r \in AnyReg \ {l.d} : q.regs[r] = s.regs[r]
  BY <1>1, <1>2, SetRegFacts
<1> HIDE DEF q
<1> QED BY <1>1, <1>3 DEF Yields, KeepsOthers, v

LEMMA LiStep ==
    ASSUME NEW f, NEW s \in Machine(f), NEW n \in Value
    PROVE  /\ SetReg(s, s0, n) \in Machine(f) /\ <<s, Li(s0, n), SetReg(s, s0, n)>> \in Steps(f)
           /\ SetReg(s, s0, n).regs[s0] = n
           /\ \A r \in AnyReg \ {s0} : SetReg(s, s0, n).regs[r] = s.regs[r]
           /\ SetReg(s, s0, n).mem = s.mem /\ SetReg(s, s0, n).line = s.line
           /\ Li(s0, n) \in Line
<1> DEFINE l == Li(s0, n)
<1>1. s0 \in Dest /\ x0 \in AnyReg
  BY RegFacts
<1>2. l \in RegisterLine /\ l.op = "li" /\ l.d = s0 /\ l.n = n
  BY <1>1 DEF Li, RRI, RegisterLine
<1>3. Result(s.regs, s.mem, l) = n
  BY <1>2 DEF Result
<1> HIDE DEF l
<1>4. SetReg(s, s0, n) \in Machine(f) /\ <<s, l, SetReg(s, s0, n)>> \in Steps(f)
  BY <1>2, <1>3, RegisterStep
<1>5. l \in Line
  BY <1>2 DEF Line
<1> QED BY <1>1, <1>4, <1>5, SetRegFacts DEF l

LEMMA RRRLine ==
    ASSUME NEW op \in {"add", "sub", "mul", "div", "rem", "slt", "sgt", "xor"},
           NEW d \in Dest, NEW a \in AnyReg, NEW b \in AnyReg
    PROVE  /\ RRR(op, d, a, b) \in RegisterLine /\ RRR(op, d, a, b).op = op
           /\ RRR(op, d, a, b).d = d /\ RRR(op, d, a, b).a = a /\ RRR(op, d, a, b).b = b
BY DEF RRR, RegisterLine

LEMMA GenImmYields ==
    ASSUME NEW f, NEW s \in Machine(f), NEW d \in Dest, NEW a \in AnyReg \ {s0}, NEW n \in Value
    PROVE  /\ Yields(f, GenImm("addi", "add", d, a, n), s, d, Wrap(s.regs[a] + n))
           /\ Yields(f, GenImm("slti", "slt", d, a, n), s, d, Truth(s.regs[a] < n))
<1>1. CASE FitsImm(n)
  <2>1. \A o \in {"addi", "slti"} : RRI(o, d, a, n) \in RegisterLine /\ RRI(o, d, a, n).op = o
            /\ RRI(o, d, a, n).d = d /\ RRI(o, d, a, n).a = a /\ RRI(o, d, a, n).n = n
    BY <1>1 DEF RRI, RegisterLine, Immediate
  <2>2. /\ Result(s.regs, s.mem, RRI("addi", d, a, n)) = Wrap(s.regs[a] + n)
        /\ Result(s.regs, s.mem, RRI("slti", d, a, n)) = Truth(s.regs[a] < n)
    BY <2>1 DEF Result
  <2>3. \A o \in {"addi", "slti"} :
            Yields(f, <<RRI(o, d, a, n)>>, s, d, Result(s.regs, s.mem, RRI(o, d, a, n)))
    BY <2>1, YieldsOne
  <2> QED BY <1>1, <2>2, <2>3 DEF GenImm
<1>2. CASE ~FitsImm(n)
  <2> DEFINE m == SetReg(s, s0, n)
  <2>1. /\ m \in Machine(f) /\ <<s, Li(s0, n), m>> \in Steps(f) /\ m.regs[s0] = n
        /\ \A r \in AnyReg \ {s0} : m.regs[r] = s.regs[r]
        /\ m.mem = s.mem /\ m.line = s.line
    BY LiStep
  <2> HIDE DEF m
  <2>2. ASSUME NEW o \in {"add", "slt"}
        PROVE  Yields(f, <<Li(s0, n), RRR(o, d, a, s0)>>, s, d,
                      IF o = "add" THEN Wrap(s.regs[a] + n) ELSE Truth(s.regs[a] < n))
    <3> DEFINE l == RRR(o, d, a, s0)
               v == Result(m.regs, m.mem, l)
               q == SetReg(m, d, v)
    <3>1. l \in RegisterLine /\ l.op = o /\ l.d = d /\ l.a = a /\ l.b = s0
      <4>1. o \in {"add", "sub", "mul", "div", "rem", "slt", "sgt", "xor"} /\ s0 \in AnyReg /\ a \in AnyReg
        BY RegFacts
      <4> QED BY <4>1, RRRLine
    <3>2. v = IF o = "add" THEN Wrap(s.regs[a] + n) ELSE Truth(s.regs[a] < n)
      BY <2>1, <3>1 DEF Result
    <3> HIDE DEF l
    <3>3. v \in Value /\ q \in Machine(f) /\ <<m, l, q>> \in Steps(f)
      BY <2>1, <3>1, RegisterStep
    <3> HIDE DEF v
    <3>4. q.regs[d] = v /\ q.mem = m.mem /\ q.line = m.line /\ \A r \in AnyReg \ {d} : q.regs[r] = m.regs[r]
      BY <2>1, <3>3, SetRegFacts
    <3> HIDE DEF q
    <3>5. Chain(Steps(f), <<Li(s0, n), l>>, s, q)
      BY <2>1, <3>3, ChainOfTwo
    <3>6. KeepsOthers(s, q, d) /\ q.mem = s.mem /\ q.line = s.line
      BY <2>1, <3>4 DEF KeepsOthers
    <3> QED BY <3>2, <3>3, <3>4, <3>5, <3>6 DEF Yields, l
  <2> QED BY <1>2, <2>2 DEF GenImm
<1> QED BY <1>1, <1>2

\* The address of an access whose offset does not fit: two lines lead from s
\* to p, where it is in s0.
Addresses(f, s, a, n, p) ==
    /\ \E m \in Machine(f) :
        <<s, Li(s0, n), m>> \in Steps(f) /\ <<m, RRR("add", s0, s0, a), p>> \in Steps(f)
    /\ p.regs[s0] = Wrap(s.regs[a] + n) /\ Wrap(p.regs[s0] + 0) = Wrap(s.regs[a] + n)
    /\ \A r \in AnyReg \ {s0} : p.regs[r] = s.regs[r]
    /\ p.mem = s.mem /\ p.line = s.line

LEMMA AddressStep ==
    ASSUME NEW f, NEW s \in Machine(f), NEW a \in AnyReg \ {s0}, NEW n \in Value
    PROVE  \E p \in Machine(f) : Addresses(f, s, a, n, p)
<1> DEFINE m == SetReg(s, s0, n)
           l == RRR("add", s0, s0, a)
           v == Result(m.regs, m.mem, l)
           p == SetReg(m, s0, v)
<1>1. /\ m \in Machine(f) /\ <<s, Li(s0, n), m>> \in Steps(f) /\ m.regs[s0] = n
      /\ \A r \in AnyReg \ {s0} : m.regs[r] = s.regs[r]
      /\ m.mem = s.mem /\ m.line = s.line
  BY LiStep
<1> HIDE DEF m
<1>2. s0 \in Dest /\ s0 \in AnyReg /\ a \in AnyReg /\ a # s0
  BY RegFacts
<1>3. l \in RegisterLine /\ l.op = "add" /\ l.d = s0 /\ l.a = s0 /\ l.b = a
  BY <1>2, RRRLine
<1>4. v = Wrap(n + s.regs[a])
  BY <1>1, <1>2, <1>3 DEF Result
<1> HIDE DEF l
<1>5. v \in Value /\ p \in Machine(f) /\ <<m, l, p>> \in Steps(f)
  BY <1>1, <1>3, RegisterStep
<1> HIDE DEF v
<1>6. p.regs[s0] = v /\ p.mem = m.mem /\ p.line = m.line /\ \A r \in AnyReg \ {s0} : p.regs[r] = m.regs[r]
  BY <1>1, <1>2, <1>5, SetRegFacts
<1> HIDE DEF p
<1>7. n \in Int /\ s.regs[a] \in Int /\ n + s.regs[a] = s.regs[a] + n
  BY <1>2, MachineFacts, WrapFacts
<1>8. Wrap(v + 0) = v
  BY <1>5, WrapFacts
<1> QED BY <1>1, <1>4, <1>5, <1>6, <1>7, <1>8 DEF l, Addresses

LEMMA GenLwYields ==
    ASSUME NEW f, NEW s \in Machine(f), NEW d \in Dest, NEW a \in AnyReg \ {s0}, NEW n \in Value,
           Wrap(s.regs[a] + n) \in Inside(f)
    PROVE  Yields(f, GenLw(d, n, a), s, d, s.mem[Wrap(s.regs[a] + n)])
<1>1. ASSUME NEW c \in AnyReg, NEW i \in Immediate
      PROVE  /\ Access("lw", d, c, i) \in RegisterLine /\ Access("lw", d, c, i).op = "lw"
             /\ Access("lw", d, c, i).d = d /\ Access("lw", d, c, i).a = c /\ Access("lw", d, c, i).n = i
  BY DEF Access, RRI, RegisterLine
<1>2. CASE FitsImm(n)
  <2> DEFINE l == Access("lw", d, a, n)
  <2>1. l \in RegisterLine /\ l.op = "lw" /\ l.d = d /\ l.a = a /\ l.n = n
    BY <1>1, <1>2 DEF Immediate
  <2> HIDE DEF l
  <2>2. Result(s.regs, s.mem, l) = s.mem[Wrap(s.regs[a] + n)]
    BY <2>1 DEF Result
  <2>3. Yields(f, <<l>>, s, d, s.mem[Wrap(s.regs[a] + n)])
    BY <2>1, <2>2, YieldsOne
  <2> QED BY <1>2, <2>3 DEF GenLw, GenAccess, l
<1>3. CASE ~FitsImm(n)
  <2>0. PICK p \in Machine(f) : Addresses(f, s, a, n, p)
    BY AddressStep
  <2>1. /\ p.regs[s0] = Wrap(s.regs[a] + n) /\ Wrap(p.regs[s0] + 0) = Wrap(s.regs[a] + n)
        /\ \A r \in AnyReg \ {s0} : p.regs[r] = s.regs[r]
        /\ p.mem = s.mem /\ p.line = s.line
    BY <2>0 DEF Addresses
  <2> DEFINE l == Access("lw", d, s0, 0)
             v == Result(p.regs, p.mem, l)
             q == SetReg(p, d, v)
  <2>2. l \in RegisterLine /\ l.op = "lw" /\ l.d = d /\ l.a = s0 /\ l.n = 0
    BY <1>1, ZeroFits, RegFacts
  <2> HIDE DEF l
  <2>3. v = s.mem[Wrap(s.regs[a] + n)]
    BY <2>1, <2>2 DEF Result
  <2>4. v \in Value /\ q \in Machine(f) /\ <<p, l, q>> \in Steps(f)
    BY <2>1, <2>2, RegisterStep
  <2> HIDE DEF v
  <2>5. q.regs[d] = v /\ q.mem = p.mem /\ q.line = p.line /\ \A r \in AnyReg \ {d} : q.regs[r] = p.regs[r]
    BY <2>4, SetRegFacts
  <2> HIDE DEF q
  <2>6. Chain(Steps(f), <<Li(s0, n), RRR("add", s0, s0, a), l>>, s, q)
    BY <2>0, <2>4, ChainOfThree DEF Addresses
  <2>7. KeepsOthers(s, q, d) /\ q.mem = s.mem /\ q.line = s.line
    BY <2>1, <2>5 DEF KeepsOthers
  <2>8. Yields(f, <<Li(s0, n), RRR("add", s0, s0, a), l>>, s, d, v)
    BY <2>4, <2>5, <2>6, <2>7 DEF Yields
  <2> QED BY <1>3, <2>3, <2>8 DEF GenLw, GenAccess, l
<1> QED BY <1>2, <1>3

LEMMA GenSwPuts ==
    ASSUME NEW f, NEW s \in Machine(f), NEW b \in AnyReg \ {s0}, NEW a \in AnyReg \ {s0}, NEW n \in Value,
           Wrap(s.regs[a] + n) \in Inside(f)
    PROVE  Puts(f, GenSw(b, n, a), s, Wrap(s.regs[a] + n), s.regs[b])
<1>1. ASSUME NEW c \in AnyReg, NEW i \in Immediate
      PROVE  /\ Access("sw", b, c, i) \in StoreLine /\ Access("sw", b, c, i).b = b
             /\ Access("sw", b, c, i).a = c /\ Access("sw", b, c, i).n = i
  BY DEF Access, StoreLine
<1>2. \A q \in Machine(f), w \in Inside(f) : q.regs[b] \in Value /\ w \in WordAddress
  BY MachineFacts DEF Inside
<1>3. CASE FitsImm(n)
  <2> DEFINE l == Access("sw", b, a, n)
             q == SetMem(s, Wrap(s.regs[a] + n), s.regs[b])
  <2>1. l \in StoreLine /\ l.b = b /\ l.a = a /\ l.n = n
    BY <1>1, <1>3 DEF Immediate
  <2> HIDE DEF l
  <2>2. q \in Machine(f) /\ Chain(Steps(f), <<l>>, s, q)
    BY <2>1, StoreStep, ChainOfOne
  <2>3. q.mem = [s.mem EXCEPT ![Wrap(s.regs[a] + n)] = s.regs[b]] /\ q.regs = s.regs /\ q.line = s.line
    BY MachineFacts DEF SetMem
  <2> HIDE DEF q
  <2>4. Puts(f, <<l>>, s, Wrap(s.regs[a] + n), s.regs[b])
    BY <2>2, <2>3 DEF Puts, KeepsOthers
  <2> QED BY <1>3, <2>4 DEF GenSw, GenAccess, l
<1>4. CASE ~FitsImm(n)
  <2>0. PICK p \in Machine(f) : Addresses(f, s, a, n, p)
    BY AddressStep
  <2>1. /\ p.regs[s0] = Wrap(s.regs[a] + n) /\ Wrap(p.regs[s0] + 0) = Wrap(s.regs[a] + n)
        /\ \A r \in AnyReg \ {s0} : p.regs[r] = s.regs[r]
        /\ p.mem = s.mem /\ p.line = s.line
    BY <2>0 DEF Addresses
  <2> DEFINE l == Access("sw", b, s0, 0)
             w == Wrap(s.regs[a] + n)
             q == SetMem(p, w, p.regs[b])
  <2>2. l \in StoreLine /\ l.b = b /\ l.a = s0 /\ l.n = 0
    BY <1>1, ZeroFits, RegFacts
  <2> HIDE DEF l
  <2>3. Wrap(p.regs[l.a] + l.n) = w /\ p.regs[l.b] = p.regs[b] /\ p.regs[b] = s.regs[b]
    BY <2>1, <2>2
  <2>4. q \in Machine(f) /\ <<p, l, q>> \in Steps(f)
    BY <2>1, <2>2, <2>3, StoreStep
  <2>5. q.mem = [s.mem EXCEPT ![w] = s.regs[b]] /\ q.regs = p.regs /\ q.line = s.line
    BY <2>1, <2>3, MachineFacts DEF SetMem
  <2> HIDE DEF q, w
  <2>9. Chain(Steps(f), <<Li(s0, n), RRR("add", s0, s0, a), l>>, s, q)
    BY <2>0, <2>4, ChainOfThree DEF Addresses
  <2>10. Puts(f, <<Li(s0, n), RRR("add", s0, s0, a), l>>, s, w, s.regs[b])
    BY <2>1, <2>4, <2>5, <2>9 DEF Puts, KeepsOthers
  <2> QED BY <1>4, <2>10 DEF GenSw, GenAccess, l, w
<1> QED BY <1>3, <1>4

LEMMA GenBinopYields ==
    ASSUME NEW f, NEW s \in Machine(f), NEW bop \in Operators, NEW d \in Dest, NEW a \in AnyReg,
           NEW b \in AnyReg, bop \in {"/", "%"} => s.regs[b] # 0
    PROVE  Yields(f, GenBinop(bop, d, a, b), s, d, Outcome(bop, s.regs[a], s.regs[b]))
<1> DEFINE l == RRR(Op2Instr[bop], d, a, b)
           v == Result(s.regs, s.mem, l)
           m == SetReg(s, d, v)
<1>1. Op2Instr[bop] \in {"add", "sub", "mul", "div", "rem", "slt", "sgt", "xor"}
  BY DEF Op2Instr, Operators
<1>2. l \in RegisterLine /\ l.op = Op2Instr[bop] /\ l.d = d /\ l.a = a /\ l.b = b
  BY <1>1, RRRLine
<1>3. s.regs[a] \in Int /\ s.regs[b] \in Int
  BY MachineFacts
<1> HIDE DEF l
<1>4. CASE bop \in {"+", "-", "*", "/", "%", "<", ">"}
  <2>1. v = Outcome(bop, s.regs[a], s.regs[b])
    BY <1>2, <1>4 DEF Result, Outcome, Op2Instr
  <2>2. l.op # "lw"
    BY <1>1, <1>2
  <2>3. Yields(f, <<l>>, s, d, v)
    BY <1>2, <2>2, YieldsOne
  <2>4. GenBinop(bop, d, a, b) = <<l>>
    <3>1. GenBinop(bop, d, a, b) = (<<l>> \o << >>) \o << >>
      BY <1>4 DEF GenBinop, l
    <3> QED BY <3>1, PairOf
  <2> QED BY <2>1, <2>3, <2>4
<1>5. CASE bop \in {"<=", ">=", "==", "!="}
  <2> DEFINE k == IF bop = "!=" THEN Snez(d, d) ELSE Seqz(d, d)
             w == Result(m.regs, m.mem, k)
             q == SetReg(m, d, w)
  <2>1. l.op # "lw" /\ d \in AnyReg
    BY <1>1, <1>2, RegFacts
  <2>2. v \in Value /\ m \in Machine(f) /\ <<s, l, m>> \in Steps(f)
    BY <1>2, <2>1, RegisterStep
  <2>3. v = CASE bop = "<=" -> Truth(s.regs[a] > s.regs[b]) [] bop = ">=" -> Truth(s.regs[a] < s.regs[b])
              [] bop \in {"==", "!="} -> Truth(s.regs[a] # s.regs[b])
    BY <1>2, <1>5 DEF Result, Op2Instr
  <2> HIDE DEF v
  <2>4. m.regs[d] = v /\ m.mem = s.mem /\ m.line = s.line /\ \A r \in AnyReg \ {d} : m.regs[r] = s.regs[r]
    BY <2>2, SetRegFacts
  <2> HIDE DEF m
  <2>5. k \in RegisterLine /\ k.op = (IF bop = "!=" THEN "snez" ELSE "seqz") /\ k.d = d /\ k.a = d
    BY <2>1 DEF Snez, Seqz, RRI, RegisterLine
  <2>6. w = IF bop = "!=" THEN Truth(v # 0) ELSE Truth(v = 0)
    BY <2>4, <2>5 DEF Result
  <2>7. w = Outcome(bop, s.regs[a], s.regs[b])
    BY <1>3, <1>5, <2>3, <2>6 DEF Outcome, Truth
  <2>8. GenBinop(bop, d, a, b) = <<l, k>>
    <3>1. GenBinop(bop, d, a, b) = IF bop = "!=" THEN (<<l>> \o << >>) \o <<k>> ELSE (<<l>> \o <<k>>) \o << >>
      BY <1>5 DEF GenBinop, l
    <3>2. \A c \in Seq({l, k}) : c \o << >> = c
      OBVIOUS
    <3>3. <<l, k>> \in Seq({l, k})
      OBVIOUS
    <3> HIDE DEF k
    <3> QED BY <3>1, <3>2, <3>3, PairOf
  <2> HIDE DEF k
  <2>9. w \in Value /\ q \in Machine(f) /\ <<m, k, q>> \in Steps(f)
    BY <2>2, <2>5, RegisterStep
  <2> HIDE DEF w
  <2>10. q.regs[d] = w /\ q.mem = m.mem /\ q.line = m.line /\ \A r \in AnyReg \ {d} : q.regs[r] = m.regs[r]
    BY <2>2, <2>9, SetRegFacts
  <2> HIDE DEF q
  <2>11. Chain(Steps(f), <<l, k>>, s, q)
    BY <2>2, <2>9, ChainOfTwo
  <2>12. KeepsOthers(s, q, d) /\ q.mem = s.mem /\ q.line = s.line
    BY <2>4, <2>10 DEF KeepsOthers
  <2> QED BY <2>7, <2>8, <2>9, <2>10, <2>11, <2>12 DEF Yields
<1> QED BY <1>4, <1>5 DEF Operators

-----------------------------------------------------------------------------
\* The shortcuts.
LEMMA ShortcutStep ==
    ASSUME NEW f, NEW s \in Machine(f), NEW l \in Shortcut, Permitted(f, s, l)
    PROVE  /\ <<s, l, Shortened(s, l)>> \in Steps(f)
           /\ Yields(f, <<l>>, s, l.d,
                     Outcome(CASE l.op = "muli" -> "*" [] l.op = "divi" -> "/" [] l.op = "remi" -> "%",
                             s.regs[l.a], l.n))
<1> DEFINE bop == CASE l.op = "muli" -> "*" [] l.op = "divi" -> "/" [] l.op = "remi" -> "%"
           v == Outcome(bop, s.regs[l.a], l.n)
           c == Wrap(Truth(s.regs[l.a] < 0) + s.regs[l.a])
           m == IF l.op = "divi" /\ l.n # 1 THEN SetReg(s, s0, c) ELSE s
           q == SetReg(m, l.d, v)
<1>1. /\ l \in Pending /\ l.op \in {"muli", "divi", "remi"} /\ l.d \in Dest /\ l.a \in AnyReg /\ l.n \in Value
      /\ s0 \in Dest
  BY PendingFields, RegFacts DEF Pending
<1>2. s.regs[l.a] \in Value /\ s.regs[l.a] \in Int
  BY <1>1, MachineFacts
<1>3. bop \in Operators /\ (bop \in {"/", "%"} => l.n # 0)
  BY <1>1, PendingFields DEF Operators, Permitted
<1>4. v \in Value
  BY <1>1, <1>2, <1>3, OutcomeType
<1>5. c \in Value
  <2>1. Truth(s.regs[l.a] < 0) + s.regs[l.a] \in Int
    BY <1>2 DEF Truth
  <2> QED BY <2>1, WrapFacts
<1>6. Shortened(s, l) = q
  BY <1>1 DEF Shortened
<1> HIDE DEF v, c
<1>7. /\ m \in Machine(f) /\ m.mem = s.mem /\ m.line = s.line
      /\ \A r \in AnyReg \ {s0} : m.regs[r] = s.regs[r]
  BY <1>1, <1>5, SetRegFacts
<1> HIDE DEF m
<1>8. /\ q \in Machine(f) /\ q.regs[l.d] = v /\ q.mem = m.mem /\ q.line = m.line
      /\ \A r \in AnyReg \ {l.d} : q.regs[r] = m.regs[r]
  BY <1>1, <1>4, <1>7, SetRegFacts
<1> HIDE DEF q
<1>9. Effect(s, l) = q
  BY <1>6, KindFacts DEF Effect
<1>10. <<s, l, q>> \in Steps(f)
  BY <1>1, <1>8, <1>9, StepFacts
<1>11. Chain(Steps(f), <<l>>, s, q)
  BY <1>10, ChainOfOne
<1>12. KeepsOthers(s, q, l.d) /\ q.mem = s.mem /\ q.line = s.line
  BY <1>7, <1>8 DEF KeepsOthers
<1>13. Yields(f, <<l>>, s, l.d, v)
  BY <1>8, <1>11, <1>12 DEF Yields
<1> QED BY <1>6, <1>10, <1>13 DEF v

LEMMA GenBinopNumYields ==
    ASSUME NEW f, NEW s \in Machine(f), NEW bop \in Operators, NEW d \in Target, NEW a \in Reg,
           NEW n \in Value, bop \in {"/", "%"} => n # 0,
           bop = "/" => ~IsPowerOf2(n) \/ n \in {1, 2, -2^(Bits - 1)} \/ s.regs[a] >= 0,
           bop = "%" => n # 2 \/ s.regs[a] >= 0
    PROVE  Yields(f, GenBinopNum(bop, d, a, n), s, d, Outcome(bop, s.regs[a], n))
<1>1. d \in Dest /\ a \in AnyReg /\ s0 \in AnyReg /\ s0 \in Dest /\ a # s0 /\ d # s0
  BY RegFacts DEF Target
<1>2. CASE bop \in {"+", "<"}
  <2>1. /\ Yields(f, GenImm("addi", "add", d, a, n), s, d, Wrap(s.regs[a] + n))
        /\ Yields(f, GenImm("slti", "slt", d, a, n), s, d, Truth(s.regs[a] < n))
    BY <1>1, GenImmYields
  <2> QED BY <1>2, <2>1 DEF GenBinopNum, Outcome
<1>3. CASE (bop \in {"*", "/"} /\ IsPowerOf2(n)) \/ (bop = "%" /\ n \in {1, 2})
  <2> DEFINE o == CASE bop = "*" -> "muli" [] bop = "/" -> "divi" [] bop = "%" -> "remi"
             l == RRI(o, d, a, n)
  <2>1. GenBinopNum(bop, d, a, n) = <<l>>
    BY <1>3 DEF GenBinopNum
  <2>2. /\ o \in {"muli", "divi", "remi"} /\ (o \in {"muli", "divi"} => IsPowerOf2(n))
        /\ (o = "remi" => n \in {1, 2})
        /\ bop = CASE o = "muli" -> "*" [] o = "divi" -> "/" [] o = "remi" -> "%"
    BY <1>3
  <2> HIDE DEF o
  <2>3. l.op = o /\ l.d = d /\ l.a = a /\ l.n = n
    BY DEF RRI
  <2>4. l \in Shortcut
    BY <2>2 DEF RRI, Shortcut
  <2>5. Permitted(f, s, l)
    <3>1. l \notin JumpLine
      BY <2>4, KindFacts
    <3>2. /\ o = "divi" => n # 0 /\ (n \in {1, 2, -2^(Bits - 1)} \/ s.regs[a] >= 0)
          /\ o = "remi" => n = 1 \/ s.regs[a] >= 0
      BY <1>3, <2>2
    <3> QED BY <2>2, <2>3, <3>1, <3>2 DEF Permitted
  <2> HIDE DEF l
  <2>6. Yields(f, <<l>>, s, d, Outcome(bop, s.regs[a], n))
    BY <2>2, <2>3, <2>4, <2>5, ShortcutStep
  <2> QED BY <2>1, <2>6
<1>4. CASE ~(bop \in {"+", "<"}) /\ ~((bop \in {"*", "/"} /\ IsPowerOf2(n)) \/ (bop = "%" /\ n \in {1, 2}))
  <2> DEFINE m == SetReg(s, s0, n)
             c == GenBinop(bop, d, a, s0)
  <2>1. GenBinopNum(bop, d, a, n) = <<Li(s0, n)>> \o c
    BY <1>4 DEF GenBinopNum
  <2>2. /\ m \in Machine(f) /\ <<s, Li(s0, n), m>> \in Steps(f) /\ m.regs[s0] = n
        /\ \A r \in AnyReg \ {s0} : m.regs[r] = s.regs[r]
        /\ m.mem = s.mem /\ m.line = s.line /\ Li(s0, n) \in Line
    BY LiStep
  <2> HIDE DEF m
  <2>3. Yields(f, c, m, d, Outcome(bop, m.regs[a], m.regs[s0]))
    BY <1>1, <2>2, GenBinopYields
  <2>4. PICK q \in Machine(f) : /\ Chain(Steps(f), c, m, q)
                               /\ q.regs[d] = Outcome(bop, s.regs[a], n) /\ KeepsOthers(m, q, d)
                               /\ q.mem = m.mem /\ q.line = m.line
    BY <1>1, <2>2, <2>3 DEF Yields
  <2>5. c \in Seq(Line) /\ <<Li(s0, n)>> \in Seq(Line)
    BY <1>1, <2>2, GenBinopType
  <2>6. Chain(Steps(f), <<Li(s0, n)>>, s, m)
    BY <2>2, ChainOfOne
  <2> HIDE DEF c
  <2>7. Chain(Steps(f), <<Li(s0, n)>> \o c, s, q)
    BY <2>4, <2>5, <2>6, ChainOfBoth
  <2>8. KeepsOthers(s, q, d) /\ q.mem = s.mem /\ q.line = s.line
    BY <2>2, <2>4 DEF KeepsOthers
  <2> QED BY <2>1, <2>4, <2>7, <2>8 DEF Yields
<1> QED BY <1>2, <1>3, <1>4

\* What strength reduction puts in place of a line has the line's effect.
LEMMA KeptHasEffect ==
    ASSUME NEW f, NEW s, NEW l, NEW q, <<s, l, q>> \in Steps(f), ~NeedsShift(l)
    PROVE  Chain(Steps(f), Kept(l), s, q)
<1>1. s \in Machine(f) /\ l \in Pending /\ Permitted(f, s, l) /\ q = Effect(s, l)
  BY StepFacts
<1>2. CASE l \in Line
  <2>1. l.op \notin {"muli", "divi", "remi"}
    BY <1>2 DEF Line, RegisterLine, StoreLine, CallLine, JumpLine, Branches
  <2>2. Kept(l) = <<l>>
    BY <2>1 DEF Kept
  <2> QED BY <2>2, ChainOfOne
<1>3. CASE l \in Shortcut
  <2> DEFINE a == s.regs[l.a]
  <2>1. /\ l.op \in {"muli", "divi", "remi"} /\ l.d \in Dest /\ l.a \in AnyReg /\ a \in Value
        /\ x0 \in AnyReg /\ s.regs[x0] = 0 /\ 0 \in Value /\ 1 \in Value
    BY <1>1, <1>3, PendingFields, MachineFacts, RegFacts, WrapFacts
  <2>2. q = Shortened(s, l)
    BY <1>1, <1>3, KindFacts DEF Effect
  <2>3. /\ Outcome("/", a, 1) = a /\ Outcome("%", a, 1) = 0
        /\ Outcome("*", a, 1) = a /\ Outcome("*", a, 0) = 0
    BY <2>1, ByOne
  <2>4. ASSUME NEW b \in AnyReg, q = SetReg(s, l.d, s.regs[b])
        PROVE  Chain(Steps(f), <<Mv(l.d, b)>>, s, q)
    <3> DEFINE k == Mv(l.d, b)
    <3>1. k \in RegisterLine /\ k.op = "mv" /\ k.d = l.d /\ k.a = b
      BY <2>1 DEF Mv, RRI, RegisterLine
    <3>2. Result(s.regs, s.mem, k) = s.regs[b]
      BY <3>1 DEF Result
    <3> HIDE DEF k
    <3>3. Chain(Steps(f), <<k>>, s, SetReg(s, l.d, s.regs[b]))
      BY <1>1, <3>1, <3>2, RegisterStep
    <3> QED BY <2>4, <3>3 DEF k
  <2>5. ASSUME q = SetReg(s, l.d, a)
        PROVE  Chain(Steps(f), MvUnlessSame(l.d, l.a), s, q)
    <3>1. CASE l.d = l.a
      <4>1. q = s
        BY <1>1, <2>1, <2>5, <3>1, SetRegFacts
      <4> QED BY <3>1, <4>1, ChainOfNone DEF MvUnlessSame
    <3>2. CASE l.d # l.a
      BY <2>1, <2>4, <2>5, <3>2 DEF MvUnlessSame
    <3> QED BY <3>1, <3>2
  <2>6. CASE l.op = "muli"
    <3>1. q = SetReg(s, l.d, Outcome("*", a, l.n))
      BY <2>2, <2>6 DEF Shortened
    <3>2. CASE l.n = 0
      <4> DEFINE k == Li(l.d, 0)
      <4>1. k \in RegisterLine /\ k.op = "li" /\ k.d = l.d /\ k.n = 0
        BY <2>1 DEF Li, RRI, RegisterLine
      <4>2. Result(s.regs, s.mem, k) = 0
        BY <4>1 DEF Result
      <4>3. Kept(l) = <<k>>
        BY <2>6, <3>2 DEF Kept
      <4> HIDE DEF k
      <4>4. Chain(Steps(f), <<k>>, s, SetReg(s, l.d, 0))
        BY <1>1, <4>1, <4>2, RegisterStep
      <4> QED BY <2>3, <3>1, <3>2, <4>3, <4>4
    <3>3. CASE l.n = 1
      <4>1. Kept(l) = MvUnlessSame(l.d, l.a)
        BY <2>6, <3>3 DEF Kept
      <4> QED BY <2>3, <2>5, <3>1, <3>3, <4>1
    <3> QED BY <2>6, <3>2, <3>3 DEF NeedsShift
  <2>7. CASE l.op = "divi"
    <3>1. l.n = 1
      BY <2>7 DEF NeedsShift
    <3>2. q = SetReg(s, l.d, Outcome("/", a, 1))
      BY <2>2, <2>7, <3>1 DEF Shortened
    <3>3. Kept(l) = MvUnlessSame(l.d, l.a)
      BY <2>7 DEF Kept
    <3> QED BY <2>3, <2>5, <3>2, <3>3
  <2>8. CASE l.op = "remi"
    <3>1. q = SetReg(s, l.d, Outcome("%", a, l.n)) /\ l.n \in {1, 2} /\ (l.n = 1 \/ a >= 0)
      BY <1>1, <2>2, <2>8, PendingFields DEF Shortened, Permitted
    <3>2. CASE l.n = 1
      <4>1. Kept(l) = <<Mv(l.d, x0)>>
        BY <2>8, <3>2 DEF Kept
      <4> QED BY <2>1, <2>3, <2>4, <3>1, <3>2, <4>1
    <3>3. CASE l.n = 2 /\ a >= 0
      <4> DEFINE k == RRI("andi", l.d, l.a, 1)
      <4>1. k \in RegisterLine /\ k.op = "andi" /\ k.d = l.d /\ k.a = l.a
        BY <2>1 DEF RRI, RegisterLine
      <4>2. Kept(l) = <<k>>
        BY <2>8, <3>3 DEF Kept
      <4> HIDE DEF k
      <4>3. Result(s.regs, s.mem, k) = Outcome("%", a, 2)
        BY <2>1, <3>3, <4>1, LastBit DEF Result
      <4>4. Chain(Steps(f), <<k>>, s, SetReg(s, l.d, Outcome("%", a, 2)))
        BY <1>1, <4>1, <4>3, RegisterStep
      <4>5. q = SetReg(s, l.d, Outcome("%", a, 2))
        BY <3>1, <3>3
      <4> QED BY <4>2, <4>4, <4>5
    <3> QED BY <3>1, <3>2, <3>3
  <2> QED BY <2>1, <2>6, <2>7, <2>8
<1> QED BY <1>1, <1>2, <1>3 DEF Pending

LEMMA ShiftedHasEffect ==
    ASSUME NEW f, NEW s, NEW l, NEW q, <<s, l, q>> \in Steps(f), NeedsShift(l),
           NEW k \in 0 .. Bits - 2, l.n = 0 \/ l.n = 2^k
    PROVE  Chain(Steps(f), Shifted(l, k), s, q)
<1> DEFINE a == s.regs[l.a]
<1>1. s \in Machine(f) /\ l \in Pending /\ Permitted(f, s, l) /\ q = Effect(s, l)
  BY StepFacts
<1>2. /\ l \in Shortcut /\ l.op \in {"muli", "divi"} /\ l.d \in Dest /\ l.a \in AnyReg
      /\ a \in Value /\ a \in Int /\ s0 \in Dest /\ s0 \in AnyReg /\ l.a # s0
  BY <1>1, PendingFields, MachineFacts, RegFacts DEF NeedsShift
<1>3. q = Shortened(s, l)
  BY <1>1, <1>2, KindFacts DEF Effect
<1>4. l.n = 2^k
  <2>1. l.n # 0
    BY <1>1, <1>2 DEF NeedsShift, Permitted
  <2> QED BY <2>1
<1>5. k \in 0 .. Bits - 1 /\ Bits - 1 \in 0 .. Bits - 1 /\ 1 \in 0 .. Bits - 1
  BY Widths
<1>6. CASE l.op = "muli"
  <2> DEFINE j == RRI("slli", l.d, l.a, k)
  <2>1. j \in RegisterLine /\ j.op = "slli" /\ j.d = l.d /\ j.a = l.a /\ j.n = k
    BY <1>2, <1>5 DEF RRI, RegisterLine
  <2>2. Result(s.regs, s.mem, j) = Outcome("*", a, l.n)
    BY <1>4, <2>1 DEF Result, Outcome
  <2>3. Shifted(l, k) = <<j>>
    BY <1>6 DEF Shifted
  <2> HIDE DEF j
  <2>4. Chain(Steps(f), <<j>>, s, SetReg(s, l.d, Outcome("*", a, l.n)))
    BY <1>1, <2>1, <2>2, RegisterStep
  <2>5. q = SetReg(s, l.d, Outcome("*", a, l.n))
    BY <1>3, <1>6 DEF Shortened
  <2> QED BY <2>3, <2>4, <2>5
<1>7. CASE l.op = "divi"
  <2>1. 2^k \in Nat /\ -2^(Bits - 1) < 0 /\ (l.n = 1 => k = 0) /\ (k = 0 => l.n = 1)
    <3>1. 2^k \in Nat /\ -2^(Bits - 1) < 0 /\ 2^0 = 1
      BY <1>5, PowerAssumption, Widths
    <3>2. ASSUME 0 < k PROVE l.n # 1
      <4>1. 0 \in 0 .. Bits /\ k \in 0 .. Bits
        BY Widths
      <4> QED BY <1>4, <3>1, <3>2, <4>1, PowersGrow
    <3>3. k \in Nat /\ (k = 0 \/ 0 < k)
      BY <1>5, Widths
    <3>4. k = 0 => l.n = 1
      BY <1>4, <3>1
    <3> QED BY <3>1, <3>2, <3>3, <3>4
  <2>2. k \in 1 .. Bits - 2 /\ l.n # 1
    BY <1>7, <2>1 DEF NeedsShift
  <2>3. k = 1 \/ a >= 0
    <3>1. ASSUME 1 < k PROVE l.n # 2
      <4>1. 1 \in 0 .. Bits /\ k \in 0 .. Bits
        BY Widths
      <4>2. 2 < 2^k
        BY <3>1, <4>1, PowersGrow, Widths
      <4> QED BY <1>4, <2>1, <4>2
    <3>2. l.n \in {1, 2, -2^(Bits - 1)} \/ a >= 0
      BY <1>1, <1>7 DEF Permitted
    <3> QED BY <1>4, <2>1, <2>2, <3>1, <3>2
  <2> DEFINE v == Truth(a < 0)
             c == Wrap(v + a)
             j1 == RRI("srli", s0, l.a, Bits - 1)
             j2 == RRR("add", s0, s0, l.a)
             j3 == RRI("sra", l.d, s0, k)
             m == SetReg(s, s0, v)
             p == SetReg(s, s0, c)
  <2>4. v \in Value /\ c \div 2^k = Outcome("/", a, l.n)
    BY <1>2, <1>4, <2>2, <2>3, HalfOfSigned, ShiftOfDividend
  <2>5. c \in Value
    <3>1. v + a \in Int
      BY <1>2 DEF Truth
    <3> QED BY <3>1, WrapFacts
  <2>6. /\ j1 \in RegisterLine /\ j1.op = "srli" /\ j1.d = s0 /\ j1.a = l.a /\ j1.n = Bits - 1
        /\ j3 \in RegisterLine /\ j3.op = "sra" /\ j3.d = l.d /\ j3.a = s0 /\ j3.n = k
    BY <1>2, <1>5 DEF RRI, RegisterLine
  <2>7. j2 \in RegisterLine /\ j2.op = "add" /\ j2.d = s0 /\ j2.a = s0 /\ j2.b = l.a
    BY <1>2, RRRLine
  <2>8. Shifted(l, k) = <<j1, j2, j3>>
    BY <1>7 DEF Shifted, Divide
  <2> HIDE DEF j1, j2, j3
  <2>9. Result(s.regs, s.mem, j1) = v
    BY <2>6 DEF Result
  <2>10. /\ m \in Machine(f) /\ <<s, j1, m>> \in Steps(f)
    BY <1>1, <2>6, <2>9, RegisterStep
  <2>11. m.regs[s0] = v /\ m.regs[l.a] = a /\ SetReg(m, s0, c) = p
    BY <1>1, <1>2, <2>4, <2>5, SetRegFacts
  <2>12. Result(m.regs, m.mem, j2) = c
    BY <2>7, <2>11 DEF Result
  <2> HIDE DEF m
  <2>13. p \in Machine(f) /\ <<m, j2, p>> \in Steps(f)
    BY <2>7, <2>10, <2>11, <2>12, RegisterStep
  <2>14. p.regs[s0] = c
    BY <1>1, <1>2, <2>5, SetRegFacts
  <2>15. Result(p.regs, p.mem, j3) = Outcome("/", a, l.n)
    BY <2>4, <2>6, <2>14 DEF Result
  <2>16. q = SetReg(p, l.d, Outcome("/", a, l.n))
    BY <1>3, <1>7, <2>2 DEF Shortened
  <2> HIDE DEF p
  <2>17. <<p, j3, q>> \in Steps(f)
    BY <2>6, <2>13, <2>15, <2>16, RegisterStep
  <2> QED BY <2>8, <2>10, <2>13, <2>17, ChainOfThree
<1> QED BY <1>2, <1>6, <1>7

-----------------------------------------------------------------------------
\* The state s of the RISC-V machine has what the Tigger machine has before
\* line g of f: registers, frame and globals, and what the function was
\* entered with, in the registers before it is entered and when it is left.
Agrees(f, s, g, rs, words) ==
    /\ \A r \in Reg : s.regs[r] = rs[r]
    /\ \A i \in WordsOf(f) : s.mem[Base(f) + 4 * i] = words[i]
    /\ IF g = 1 \/ g = Len(f.body) + 1 THEN s.regs[sp] = StackTop /\ s.regs[ra] = Caller
       ELSE s.regs[sp] = Base(f) /\ s.mem[Base(f) + FrameBytes(f.size) - 4] = Caller

\* The shortcuts are right for t, and for what its register holds.  Of the
\* least divisor no code is made, the loop that counts has no end.
Exact(t) ==
    t.op = "binopnum" =>
        /\ t.bop = "/" => ~IsPowerOf2(t.n) \/ t.n \in {1, 2, -2^(Bits - 1)} \/ tregs[t.a] >= 0
        /\ t.bop = "%" => t.n # 2 \/ tregs[t.a] >= 0

\* The Tigger line is one with an outcome: no division by 0, no access
\* outside of arrays.
Defined(t) ==
    /\ t.op = "binop" /\ t.bop \in {"/", "%"} => tregs[t.b] # 0
    /\ t.op = "binopnum" /\ t.bop \in {"/", "%"} => t.n # 0
    /\ t.op \in {"get", "put"} => \E i \in Words : tregs[t.a] + t.n = FrameBase + 4 * i

TiggerType ==
    /\ tregs \in [Reg -> Value] /\ slots \in [WordsOf(function) -> Value]
    /\ goal \in 1 .. Len(function.body) + 1

Started(s, t) ==
    /\ function \in Functions /\ s \in Machine(function)
    /\ line \in 1 .. Len(function.body) /\ t = function.body[line] /\ s.line = line + 1
    /\ TiggerType /\ Agrees(function, s, line, tregs, slots)
    /\ TiggerStep(t) /\ Exact(t) /\ Defined(t)

Arrives(f, c, s, g, rs, words) ==
    \E q \in Machine(f) : Chain(Steps(f), c, s, q) /\ q.line = g /\ Agrees(f, q, g, rs, words)

Arrived(s, t) ==
    /\ tregs' \in [Reg -> Value] /\ slots' \in [WordsOf(function) -> Value]
    /\ goal' \in 1 .. Len(function.body) + 1
    /\ Arrives(function, Lines(t), s, goal', tregs', slots')

\* The words of the frame and of the globals have addresses of their own.
LEMMA WordFacts ==
    ASSUME function \in Functions
    PROVE  /\ Base(function) = FrameBase /\ WordsOf(function) = Words /\ WordsOf(function) \subseteq Int
           /\ Base(function) \in WordAddress /\ Base(function) \in Int /\ StackTop \in Value
           /\ StackTop \in Int /\ FrameBytes(function.size) \in Nat
           /\ Base(function) + FrameBytes(function.size) = StackTop
           /\ \A i \in WordsOf(function) :
                /\ Base(function) + 4 * i \in Inside(function) /\ Base(function) + 4 * i \in WordAddress
                /\ Wrap(Base(function) + 4 * i) = Base(function) + 4 * i
                /\ Base(function) + 4 * i # Base(function) + FrameBytes(function.size) - 4
                /\ WordAt(Base(function) + 4 * i) = i
           /\ Base(function) + FrameBytes(function.size) - 4 \in Inside(function)
           /\ \A address \in DOMAIN Data :
                WordAt(address) \in WordsOf(function) /\ Base(function) + 4 * WordAt(address) = address
<1> DEFINE b == Base(function)
           n == FrameBytes(function.size)
           h == 2^(Bits - 1)
<1>1. /\ function.size \in Nat /\ b \in WordAddress /\ StackTop \in WordAddress
      /\ \A address \in DOMAIN Data : address < b
      /\ DOMAIN Data \subseteq WordAddress
  BY FunctionFacts, MemoryAssumption DEF Base
<1>2. /\ n \in Nat /\ n % 4 = 0 /\ 4 * function.size + 4 <= n /\ n >= 16
      /\ h \in Nat /\ h % 4 = 0
  BY <1>1, FrameFacts, Widths
<1>3. WordAddress = {address \in -h .. h - 1 : address % 4 = 0}
  BY DEF WordAddress, Value
<1>4. b = StackTop - n
  BY DEF Base
<1>5. \A address : WordAt(address) = (address - b) \div 4
  BY DEF WordAt, FrameBase, Base
<1>6. WordsOf(function) = 0 .. function.size - 1 \cup {WordAt(address) : address \in DOMAIN Data}
  BY <1>5 DEF WordsOf
<1>7. Inside(function) = {address \in WordAddress : address \in DOMAIN Data \/ (b <= address /\ address < StackTop)}
  BY DEF Inside
<1>8. Value = -h .. h - 1
  BY DEF Value
<1>9. Words = WordsOf(function) /\ FrameBase = Base(function)
  BY <1>6 DEF Words, FrameBase, Base
<1> HIDE DEF b, n, h
<1>10. StackTop \in Int /\ b \in Int /\ StackTop \in Value /\ b % 4 = 0 /\ StackTop % 4 = 0 /\ b + n = StackTop
  BY <1>1, <1>2, <1>3, <1>4, <1>8
<1>11. ASSUME NEW address \in DOMAIN Data
       PROVE  WordAt(address) \in Int /\ b + 4 * WordAt(address) = address /\ WordAt(address) < 0
  <2>1. address \in Int /\ address % 4 = 0 /\ address < b
    BY <1>1, <1>2, <1>3
  <2> QED BY <1>5, <1>10, <2>1
<1>12. \A i \in 0 .. function.size - 1 : 4 * i + 4 < n /\ i \in Int /\ 0 <= i
  BY <1>1, <1>2
<1>13. WordsOf(function) \subseteq Int
  BY <1>6, <1>11, <1>12
<1>14. ASSUME NEW i \in WordsOf(function)
       PROVE  b + 4 * i \in Inside(function) /\ b + 4 * i # b + n - 4
  <2>1. CASE i \in 0 .. function.size - 1
    <3>1. b <= b + 4 * i /\ b + 4 * i < StackTop - 4 /\ b + 4 * i \in Int
      BY <1>10, <1>12, <2>1, <1>2
    <3>2. (b + 4 * i) % 4 = 0 /\ b + 4 * i \in -h .. h - 1
      BY <1>1, <1>2, <1>3, <1>10, <1>12, <2>1, <3>1
    <3> QED BY <1>2, <1>3, <1>7, <1>10, <3>1, <3>2
  <2>2. CASE \E address \in DOMAIN Data : i = WordAt(address)
    <3>1. PICK address \in DOMAIN Data : i = WordAt(address)
      BY <2>2
    <3>2. b + 4 * i = address /\ i < 0 /\ i \in Int
      BY <1>11, <3>1
    <3>3. address \in WordAddress
      BY <1>1
    <3> QED BY <1>2, <1>7, <1>10, <3>2, <3>3
  <2> QED BY <1>6, <2>1, <2>2
<1>15. ASSUME NEW i \in WordsOf(function)
       PROVE  Wrap(b + 4 * i) = b + 4 * i /\ b + 4 * i \in WordAddress /\ WordAt(b + 4 * i) = i
  <2>1. b + 4 * i \in WordAddress /\ b + 4 * i \in Value
    BY <1>14, <1>7 DEF WordAddress
  <2>2. WordAt(b + 4 * i) = i
    <3>1. i \in Int /\ (b + 4 * i) - b = 4 * i /\ (4 * i) \div 4 = i
      BY <1>10, <1>13
    <3> QED BY <1>5, <3>1
  <2> QED BY <2>1, <2>2, WrapFacts
<1>16. b + n - 4 \in Inside(function)
  <2>1. b + n - 4 = StackTop - 4 /\ (StackTop - 4) % 4 = 0 /\ b <= StackTop - 4 /\ StackTop - 4 < StackTop
    BY <1>2, <1>10
  <2>2. StackTop - 4 \in -h .. h - 1
    BY <1>1, <1>2, <1>3, <1>10, <2>1
  <2> QED BY <1>3, <1>7, <2>1, <2>2
<1> QED BY <1>1, <1>2, <1>6, <1>9, <1>10, <1>11, <1>13, <1>14, <1>15, <1>16 DEF b, n

\* What holds before a line that does not enter the function.
LEMMA StartedFacts ==
    ASSUME NEW s, NEW t, Started(s, t)
    PROVE  /\ function \in Functions /\ s \in Machine(function) /\ s.line = line + 1
           /\ TiggerStep(t) /\ Exact(t) /\ Defined(t) /\ Len(function.body) \in Nat
           /\ tregs \in [Reg -> Value] /\ slots \in [WordsOf(function) -> Value]
           /\ \A r \in Reg : s.regs[r] = tregs[r]
           /\ \A i \in WordsOf(function) : s.mem[Base(function) + 4 * i] = slots[i]
           /\ t.op = "enter" => line = 1 /\ t = [op |-> "enter"] /\ s.regs[sp] = StackTop /\ s.regs[ra] = Caller
           /\ t.op # "enter" =>
                /\ t \in TiggerLine(function.size, Len(function.body)) /\ line \in 2 .. Len(function.body)
                /\ s.regs[sp] = Base(function)
                /\ s.mem[Base(function) + FrameBytes(function.size) - 4] = Caller
           /\ t.op \notin {"enter", "return"} => line + 1 \in 2 .. Len(function.body)
           /\ line + 1 \in 2 .. Len(function.body) + 1
<1>1. /\ function \in Functions /\ line \in 1 .. Len(function.body) /\ t = function.body[line]
      /\ Agrees(function, s, line, tregs, slots) /\ TiggerType
  BY DEF Started
<1>2. /\ Len(function.body) \in Nat \ {0, 1} /\ function.body[Len(function.body)] = [op |-> "return"]
      /\ function.body[1] = [op |-> "enter"]
  BY <1>1, FunctionFacts
<1>3. CASE line = 1
  <2>1. t = [op |-> "enter"] /\ s.regs[sp] = StackTop /\ s.regs[ra] = Caller
    BY <1>1, <1>2, <1>3 DEF Agrees
  <2> QED BY <1>1, <1>2, <1>3, <2>1 DEF Started, TiggerType, Agrees
<1>4. CASE line # 1
  <2>1. line \in 2 .. Len(function.body)
    BY <1>1, <1>2, <1>4
  <2>2. t \in TiggerLine(function.size, Len(function.body))
    BY <1>1, <2>1, FunctionFacts
  <2>3. t.op # "enter"
    BY <2>2 DEF TiggerLine
  <2>4. t.op # "return" => line # Len(function.body)
    BY <1>1, <1>2
  <2>5. line # Len(function.body) + 1
    BY <1>2, <2>1
  <2>6. s.regs[sp] = Base(function) /\ s.mem[Base(function) + FrameBytes(function.size) - 4] = Caller
    BY <1>1, <1>4, <2>5 DEF Agrees
  <2>7. t.op # "return" => line + 1 \in 2 .. Len(function.body)
    BY <1>2, <2>1, <2>4
  <2>8. line + 1 \in 2 .. Len(function.body) + 1
    BY <1>2, <2>1
  <2> QED BY <1>1, <1>2, <2>1, <2>2, <2>3, <2>6, <2>7, <2>8 DEF Started, TiggerType, Agrees
<1> QED BY <1>3, <1>4

\* A line of Tigger that assigns to a register.
LEMMA AssignArrives ==
    ASSUME NEW s, NEW t, Started(s, t), Assigns(t), t.d \in Target,
           Yields(function, Lines(t), s, t.d, TiggerValue(t))
    PROVE  Arrived(s, t)
<1> DEFINE f == function
<1>1. /\ s.line = line + 1 /\ t.op \notin {"enter", "return", "store", "put", "call", "if", "goto"}
      /\ tregs \in [Reg -> Value] /\ slots \in [WordsOf(f) -> Value]
      /\ \A r \in Reg : s.regs[r] = tregs[r]
      /\ \A i \in WordsOf(f) : s.mem[Base(f) + 4 * i] = slots[i]
      /\ s.regs[sp] = Base(f) /\ s.mem[Base(f) + FrameBytes(f.size) - 4] = Caller
      /\ line + 1 \in 2 .. Len(f.body) /\ Len(f.body) \in Nat
  BY StartedFacts DEF Assigns
<1>2. PICK q \in Machine(f) :
        /\ Chain(Steps(f), Lines(t), s, q)
        /\ q.regs[t.d] = TiggerValue(t) /\ KeepsOthers(s, q, t.d) /\ q.mem = s.mem /\ q.line = s.line
  BY DEF Yields
<1>3. /\ t.d \in Reg /\ t.d # sp /\ t.d \in AnyReg /\ sp \in AnyReg /\ sp # s0
      /\ \A r \in Reg : r \in AnyReg /\ r # s0
  BY RegFacts DEF Target
<1>4. goal' = line + 1 /\ tregs' = [tregs EXCEPT ![t.d] = TiggerValue(t)] /\ slots' = slots
  BY <1>1, StartedFacts DEF TiggerStep, Jumps
<1>5. TiggerValue(t) \in Value
  BY <1>2, <1>3, MachineFacts
<1>6. tregs' \in [Reg -> Value]
  BY <1>1, <1>4, <1>5
<1>7. \A r \in Reg : q.regs[r] = tregs'[r]
  BY <1>1, <1>2, <1>3, <1>4 DEF KeepsOthers
<1>8. q.regs[sp] = Base(f)
  BY <1>1, <1>2, <1>3 DEF KeepsOthers
<1>9. goal' # 1 /\ goal' # Len(f.body) + 1 /\ goal' \in 1 .. Len(f.body) + 1
  BY <1>1, <1>4
<1>10. Agrees(f, q, goal', tregs', slots')
  BY <1>1, <1>2, <1>4, <1>7, <1>8, <1>9 DEF Agrees
<1>11. q.line = goal'
  BY <1>1, <1>2, <1>4
<1>12. Arrives(f, Lines(t), s, goal', tregs', slots')
  BY <1>2, <1>10, <1>11 DEF Arrives
<1> QED BY <1>1, <1>4, <1>6, <1>9, <1>12 DEF Arrived

\* One that writes a word.
LEMMA PutArrives ==
    ASSUME NEW s, NEW t, Started(s, t), t.op \in {"store", "put"}, NEW i \in WordsOf(function),
           t.b \in Reg, slots' = [slots EXCEPT ![i] = tregs[t.b]],
           Puts(function, Lines(t), s, Base(function) + 4 * i, s.regs[t.b])
    PROVE  Arrived(s, t)
<1> DEFINE f == function
           address == Base(f) + 4 * i
           word == Base(f) + FrameBytes(f.size) - 4
<1>1. /\ s.line = line + 1 /\ s \in Machine(f) /\ f \in Functions
      /\ tregs \in [Reg -> Value] /\ slots \in [WordsOf(f) -> Value]
      /\ \A r \in Reg : s.regs[r] = tregs[r]
      /\ \A j \in WordsOf(f) : s.mem[Base(f) + 4 * j] = slots[j]
      /\ s.regs[sp] = Base(f) /\ s.mem[word] = Caller
      /\ line + 1 \in 2 .. Len(f.body) /\ Len(f.body) \in Nat
  BY StartedFacts
<1>2. PICK q \in Machine(f) :
        /\ Chain(Steps(f), Lines(t), s, q)
        /\ q.mem = [s.mem EXCEPT ![address] = s.regs[t.b]]
        /\ KeepsOthers(s, q, s0) /\ q.line = s.line
  BY DEF Puts
<1>3. goal' = line + 1 /\ tregs' = tregs
  BY <1>1, StartedFacts DEF TiggerStep, Jumps, Assigns
<1>4. slots' \in [WordsOf(f) -> Value]
  BY <1>1
<1>5. s.mem \in [WordAddress -> Value]
  BY <1>1, MachineFacts
<1>6. ASSUME NEW j \in WordsOf(f) PROVE q.mem[Base(f) + 4 * j] = slots'[j]
  <2>1. Base(f) + 4 * j \in WordAddress /\ (Base(f) + 4 * j = address => j = i)
    BY <1>1, WordFacts
  <2> QED BY <1>1, <1>2, <1>5, <2>1
<1>7. q.mem[word] = Caller
  <2>1. word \in WordAddress /\ word # address
    BY <1>1, WordFacts DEF Inside
  <2> QED BY <1>1, <1>2, <1>5, <2>1
<1>8. /\ sp \in AnyReg /\ sp # s0
      /\ \A r \in Reg : r \in AnyReg /\ r # s0
  BY RegFacts
<1>9. q.regs[sp] = Base(f) /\ \A r \in Reg : q.regs[r] = tregs'[r]
  BY <1>1, <1>2, <1>3, <1>8 DEF KeepsOthers
<1>10. goal' # 1 /\ goal' # Len(f.body) + 1 /\ goal' \in 1 .. Len(f.body) + 1
  BY <1>1, <1>3
<1>11. Agrees(f, q, goal', tregs', slots')
  BY <1>6, <1>7, <1>9, <1>10 DEF Agrees
<1>12. q.line = goal'
  BY <1>1, <1>2, <1>3
<1>13. Arrives(f, Lines(t), s, goal', tregs', slots')
  BY <1>2, <1>11, <1>12 DEF Arrives
<1> QED BY <1>1, <1>3, <1>4, <1>10, <1>13 DEF Arrived

\* The lines that leave registers and memory alone, and the call.
LEMMA JumpStep ==
    ASSUME NEW f, NEW s \in Machine(f), NEW l \in JumpLine, l.to \in 1 .. Len(f.body) + 1
    PROVE  \A n : n = (IF Taken(s.regs, l) THEN l.to ELSE s.line) =>
              /\ SetLine(s, n) \in Machine(f) /\ <<s, l, SetLine(s, n)>> \in Steps(f)
              /\ SetLine(s, n).regs = s.regs /\ SetLine(s, n).mem = s.mem /\ SetLine(s, n).line = n
<1> DEFINE n == IF Taken(s.regs, l) THEN l.to ELSE s.line
           q == SetLine(s, n)
<1>1. /\ s = [regs |-> s.regs, mem |-> s.mem, line |-> s.line] /\ s.regs \in [AnyReg -> Value]
      /\ s.regs[x0] = 0 /\ s.mem \in [WordAddress -> Value] /\ s.line \in 1 .. Len(f.body) + 1
      /\ \A b \in WordAddress \ Inside(f) : s.mem[b] = 0
  BY MachineFacts
<1>2. n \in 1 .. Len(f.body) + 1
  BY <1>1
<1>3. l.op \notin {"lw", "sw", "muli", "divi", "remi"} /\ l \in Pending
  <2>1. l.op \in {"j", "ret"} \cup Branches
    BY DEF JumpLine
  <2>2. l \in Pending
    BY DEF Pending, Line
  <2> QED BY <2>1, <2>2 DEF Branches
<1>4. Effect(s, l) = q
  BY KindFacts DEF Effect
<1> HIDE DEF n
<1>5. q = [regs |-> s.regs, mem |-> s.mem, line |-> n]
  BY <1>1 DEF SetLine
<1>6. q \in Machine(f)
  BY <1>1, <1>2, <1>5 DEF Machine
<1>7. Permitted(f, s, l)
  BY <1>3 DEF Permitted
<1>8. <<s, l, q>> \in Steps(f)
  BY <1>3, <1>4, <1>6, <1>7, StepFacts
<1>9. q.regs = s.regs /\ q.mem = s.mem /\ q.line = n
  BY <1>5
<1> QED BY <1>6, <1>8, <1>9 DEF n

\* Where a line goes that changes nothing but the place of execution, or ra
\* and s0.
LEMMA GoesOn ==
    ASSUME NEW s, NEW t, Started(s, t), t.op \in {"if", "goto", "call"},
           NEW q \in Machine(function), NEW l, Lines(t) = <<l>>, <<s, l, q>> \in Steps(function),
           \A r \in Reg \cup {sp} : q.regs[r] = s.regs[r], q.mem = s.mem,
           q.line = goal', goal' \in 2 .. Len(function.body)
    PROVE  Arrived(s, t)
<1> DEFINE f == function
<1>1. /\ tregs \in [Reg -> Value] /\ slots \in [WordsOf(f) -> Value]
      /\ \A r \in Reg : s.regs[r] = tregs[r]
      /\ \A j \in WordsOf(f) : s.mem[Base(f) + 4 * j] = slots[j]
      /\ s.regs[sp] = Base(f) /\ s.mem[Base(f) + FrameBytes(f.size) - 4] = Caller
      /\ Len(f.body) \in Nat
  BY StartedFacts
<1>2. tregs' = tregs /\ slots' = slots
  BY StartedFacts DEF TiggerStep, Assigns
<1>3. goal' # 1 /\ goal' # Len(f.body) + 1 /\ goal' \in 1 .. Len(f.body) + 1
  BY <1>1
<1>4. Agrees(f, q, goal', tregs', slots')
  BY <1>1, <1>2, <1>3 DEF Agrees
<1>5. Chain(Steps(f), Lines(t), s, q)
  BY ChainOfOne
<1>6. Arrives(f, Lines(t), s, goal', tregs', slots')
  BY <1>4, <1>5 DEF Arrives
<1> QED BY <1>1, <1>2, <1>3, <1>6 DEF Arrived

LEMMA CallArrives ==
    ASSUME NEW s, NEW t, Started(s, t), t.op = "call"
    PROVE  Arrived(s, t)
<1> DEFINE f == function
           l == [op |-> "call"]
           m == SetReg(s, ra, 0)
           q == SetReg(m, s0, 0)
<1>1. s \in Machine(f) /\ line + 1 \in 2 .. Len(f.body) /\ s.line = line + 1
  BY StartedFacts
<1>2. goal' = line + 1
  BY StartedFacts DEF TiggerStep, Jumps
<1>3. ra \in Dest /\ s0 \in Dest /\ 0 \in Value /\ ra \in AnyReg
  BY RegFacts, WrapFacts
<1>4. m \in Machine(f) /\ m.mem = s.mem /\ m.line = s.line /\ \A r \in AnyReg \ {ra} : m.regs[r] = s.regs[r]
  BY <1>1, <1>3, SetRegFacts
<1>5. Effect(s, l) = q
  BY KindFacts DEF Effect, CallLine
<1>6. l \in Pending /\ Permitted(f, s, l)
  BY KindFacts DEF Pending, Line, CallLine, Permitted
<1> HIDE DEF m
<1>7. q \in Machine(f) /\ q.mem = s.mem /\ q.line = s.line /\ \A r \in AnyReg \ {s0} : q.regs[r] = m.regs[r]
  BY <1>3, <1>4, SetRegFacts
<1> HIDE DEF q
<1>8. <<s, l, q>> \in Steps(f)
  BY <1>1, <1>5, <1>6, <1>7, StepFacts
<1>9. \A r \in Reg \cup {sp} : r \in AnyReg /\ r # s0 /\ r # ra
  BY RegFacts
<1>10. \A r \in Reg \cup {sp} : q.regs[r] = s.regs[r]
  BY <1>4, <1>7, <1>9
<1>11. Lines(t) = <<l>>
  BY DEF Lines
<1> QED BY <1>1, <1>2, <1>7, <1>8, <1>10, <1>11, GoesOn

LEMMA JumpArrives ==
    ASSUME NEW s, NEW t, Started(s, t), t.op \in {"if", "goto"}
    PROVE  Arrived(s, t)
<1> DEFINE f == function
           l == IF t.op = "goto" THEN [op |-> "j", to |-> t.to]
                ELSE [op |-> LogicOp2Instr[t.lop], a |-> t.a, b |-> t.b, to |-> t.to]
<1>1. /\ s \in Machine(f) /\ f \in Functions /\ line + 1 \in 2 .. Len(f.body) /\ s.line = line + 1
      /\ t \in TiggerLine(f.size, Len(f.body)) /\ Len(f.body) \in Nat
      /\ \A r \in Reg : s.regs[r] = tregs[r]
  BY StartedFacts
<1>2. /\ t.to \in 2 .. Len(f.body)
      /\ t.op = "if" => t.lop \in DOMAIN LogicOp2Instr /\ t.a \in Reg /\ t.b \in Reg
  BY <1>1, TiggerFields
<1>3. /\ l \in JumpLine /\ l.to = t.to
      /\ t.op = "goto" => l.op = "j"
      /\ t.op = "if" => l.op = LogicOp2Instr[t.lop] /\ l.a = t.a /\ l.b = t.b
  <2>1. t.to \in Nat \ {0}
    BY <1>1, <1>2
  <2>2. CASE t.op = "goto"
    BY <2>1, <2>2 DEF JumpLine
  <2>3. CASE t.op = "if"
    BY <1>2, <2>1, <2>3, BranchNames, RegFacts DEF JumpLine
  <2> QED BY <2>2, <2>3
<1>4. Lines(t) = <<l>>
  BY DEF Lines
<1> HIDE DEF l
<1> DEFINE n == IF Taken(s.regs, l) THEN l.to ELSE s.line
           q == SetLine(s, n)
<1>5. /\ q \in Machine(f) /\ <<s, l, q>> \in Steps(f)
      /\ q.regs = s.regs /\ q.mem = s.mem /\ q.line = n
  <2>1. l \in JumpLine /\ l.to \in 1 .. Len(f.body) + 1
    BY <1>1, <1>2, <1>3
  <2> QED BY <1>1, <2>1, JumpStep
<1> HIDE DEF q
<1>6. Taken(s.regs, l) = Jumps(t)
  <2>1. CASE t.op = "goto"
    BY <1>3, <2>1 DEF Taken, Jumps
  <2>2. CASE t.op = "if"
    <3>1. s.regs[l.a] = tregs[t.a] /\ s.regs[l.b] = tregs[t.b]
      BY <1>1, <1>2, <1>3, <2>2
    <3> DEFINE x == tregs[t.a]
               y == tregs[t.b]
    <3>2. CASE t.lop = "<"
      <4>1. Outcome(t.lop, x, y) = Truth(x < y)
        BY <3>2 DEF Outcome
      <4>2. Taken(s.regs, l) = (x < y)
        BY <1>3, <2>2, <3>1, <3>2, BranchNames DEF Taken
      <4> QED BY <2>2, <4>1, <4>2 DEF Truth, Jumps
    <3>3. CASE t.lop = ">"
      <4>1. Outcome(t.lop, x, y) = Truth(x > y)
        BY <3>3 DEF Outcome
      <4>2. Taken(s.regs, l) = (x > y)
        BY <1>3, <2>2, <3>1, <3>3, BranchNames DEF Taken
      <4> QED BY <2>2, <4>1, <4>2 DEF Truth, Jumps
    <3>4. CASE t.lop = "<="
      <4>1. Outcome(t.lop, x, y) = Truth(x <= y)
        BY <3>4 DEF Outcome
      <4>2. Taken(s.regs, l) = (x <= y)
        BY <1>3, <2>2, <3>1, <3>4, BranchNames DEF Taken
      <4> QED BY <2>2, <4>1, <4>2 DEF Truth, Jumps
    <3>5. CASE t.lop = ">="
      <4>1. Outcome(t.lop, x, y) = Truth(x >= y)
        BY <3>5 DEF Outcome
      <4>2. Taken(s.regs, l) = (x >= y)
        BY <1>3, <2>2, <3>1, <3>5, BranchNames DEF Taken
      <4> QED BY <2>2, <4>1, <4>2 DEF Truth, Jumps
    <3>6. CASE t.lop = "!="
      <4>1. Outcome(t.lop, x, y) = Truth(x # y)
        BY <3>6 DEF Outcome
      <4>2. Taken(s.regs, l) = (x # y)
        BY <1>3, <2>2, <3>1, <3>6, BranchNames DEF Taken
      <4> QED BY <2>2, <4>1, <4>2 DEF Truth, Jumps
    <3>7. CASE t.lop = "=="
      <4>1. Outcome(t.lop, x, y) = Truth(x = y)
        BY <3>7 DEF Outcome
      <4>2. Taken(s.regs, l) = (x = y)
        BY <1>3, <2>2, <3>1, <3>7, BranchNames DEF Taken
      <4> QED BY <2>2, <4>1, <4>2 DEF Truth, Jumps
    <3> QED BY <1>2, <2>2, <3>2, <3>3, <3>4, <3>5, <3>6, <3>7, BranchNames
  <2> QED BY <2>1, <2>2
<1>7. goal' = IF Jumps(t) THEN t.to ELSE line + 1
  BY StartedFacts DEF TiggerStep
<1>8. q.line = goal' /\ goal' \in 2 .. Len(f.body)
  BY <1>1, <1>2, <1>3, <1>5, <1>6, <1>7
<1>9. \A r \in Reg \cup {sp} : q.regs[r] = s.regs[r]
  BY <1>5
<1> QED BY <1>4, <1>5, <1>8, <1>9, GoesOn

LEMMA BinopArrives ==
    ASSUME NEW s, NEW t, Started(s, t), t.op \in {"binop", "binopnum"}
    PROVE  Arrived(s, t)
<1> DEFINE f == function
<1>1. /\ s \in Machine(f) /\ t \in TiggerLine(f.size, Len(f.body)) /\ Exact(t) /\ Defined(t)
      /\ \A r \in Reg : s.regs[r] = tregs[r]
  BY StartedFacts
<1>2. Assigns(t)
  BY DEF Assigns
<1>3. CASE t.op = "binop"
  <2>1. t.bop \in Operators /\ t.d \in Target /\ t.a \in Reg /\ t.b \in Reg
    BY <1>1, <1>3, TiggerFields
  <2>2. t.d \in Dest /\ t.a \in AnyReg /\ t.b \in AnyReg
    BY <2>1, RegFacts
  <2>3. s.regs[t.a] = tregs[t.a] /\ s.regs[t.b] = tregs[t.b]
    BY <1>1, <2>1
  <2>4. t.bop \in {"/", "%"} => s.regs[t.b] # 0
    BY <1>1, <1>3, <2>3 DEF Defined
  <2>5. Yields(f, GenBinop(t.bop, t.d, t.a, t.b), s, t.d, Outcome(t.bop, s.regs[t.a], s.regs[t.b]))
    BY <1>1, <2>1, <2>2, <2>4, GenBinopYields
  <2>6. Lines(t) = GenBinop(t.bop, t.d, t.a, t.b)
    BY <1>3 DEF Lines
  <2>7. TiggerValue(t) = Outcome(t.bop, s.regs[t.a], s.regs[t.b])
    BY <1>3, <2>3 DEF TiggerValue
  <2> QED BY <1>2, <2>1, <2>5, <2>6, <2>7, AssignArrives
<1>4. CASE t.op = "binopnum"
  <2>1. t.bop \in Operators /\ t.d \in Target /\ t.a \in Reg /\ t.n \in Value
    BY <1>1, <1>4, TiggerFields
  <2>2. s.regs[t.a] = tregs[t.a]
    BY <1>1, <2>1
  <2>3. t.bop \in {"/", "%"} => t.n # 0
    BY <1>1, <1>4 DEF Defined
  <2>4. /\ t.bop = "/" => ~IsPowerOf2(t.n) \/ t.n \in {1, 2, -2^(Bits - 1)} \/ s.regs[t.a] >= 0
        /\ t.bop = "%" => t.n # 2 \/ s.regs[t.a] >= 0
    BY <1>1, <1>4, <2>2 DEF Exact
  <2>5. Yields(f, GenBinopNum(t.bop, t.d, t.a, t.n), s, t.d, Outcome(t.bop, s.regs[t.a], t.n))
    BY <1>1, <2>1, <2>3, <2>4, GenBinopNumYields
  <2>6. Lines(t) = GenBinopNum(t.bop, t.d, t.a, t.n)
    BY <1>4 DEF Lines
  <2>7. TiggerValue(t) = Outcome(t.bop, s.regs[t.a], t.n)
    BY <1>4, <2>2 DEF TiggerValue
  <2> QED BY <1>2, <2>1, <2>5, <2>6, <2>7, AssignArrives
<1> QED BY <1>3, <1>4

\* A line of Tigger that is one line of RISC-V.
LEMMA SimpleArrives ==
    ASSUME NEW s, NEW t, Started(s, t), t.op \in {"neg", "not", "move", "num", "loadaddrv"}
    PROVE  Arrived(s, t)
<1> DEFINE f == function
           l == CASE t.op = "neg" -> RRI("neg", t.d, t.a, 0) [] t.op = "not" -> Seqz(t.d, t.a)
                  [] t.op = "num" -> Li(t.d, t.n) [] t.op = "move" -> Mv(t.d, t.a)
                  [] t.op = "loadaddrv" -> RRI("la", t.d, x0, t.v)
<1>1. /\ s \in Machine(f) /\ t \in TiggerLine(f.size, Len(f.body))
      /\ \A r \in Reg : s.regs[r] = tregs[r]
  BY StartedFacts
<1>2. Assigns(t)
  BY DEF Assigns
<1>3. Lines(t) = <<l>>
  BY DEF Lines
<1>4. t.d \in Target /\ t.d \in Dest /\ x0 \in AnyReg
  BY <1>1, TiggerFields, RegFacts
<1>5. CASE t.op \in {"neg", "not", "move"}
  <2>1. t.a \in Reg /\ t.a \in AnyReg /\ s.regs[t.a] = tregs[t.a]
    BY <1>1, <1>5, TiggerFields, RegFacts
  <2>2. l \in RegisterLine /\ l.d = t.d /\ l.a = t.a
        /\ l.op = CASE t.op = "neg" -> "neg" [] t.op = "not" -> "seqz" [] t.op = "move" -> "mv"
    BY <1>4, <1>5, <2>1 DEF RRI, Seqz, Mv, RegisterLine
  <2> HIDE DEF l
  <2>3. Result(s.regs, s.mem, l) = TiggerValue(t)
    BY <1>5, <2>1, <2>2 DEF Result, TiggerValue
  <2>4. l.op # "lw"
    BY <1>5, <2>2
  <2>5. Yields(f, <<l>>, s, t.d, TiggerValue(t))
    BY <1>1, <2>2, <2>3, <2>4, YieldsOne
  <2> QED BY <1>2, <1>3, <1>4, <2>5, AssignArrives
<1>6. CASE t.op \in {"num", "loadaddrv"}
  <2> DEFINE n == IF t.op = "num" THEN t.n ELSE t.v
  <2>1. n \in Value
    <3>1. DOMAIN Data \subseteq Value
      BY MemoryAssumption DEF WordAddress
    <3> QED BY <1>1, <1>6, <3>1, TiggerFields
  <2>2. l = RRI(IF t.op = "num" THEN "li" ELSE "la", t.d, x0, n)
    BY <1>6 DEF Li
  <2>3. TiggerValue(t) = n
    BY <1>6 DEF TiggerValue
  <2> HIDE DEF n, l
  <2>4. l \in RegisterLine /\ l.d = t.d /\ l.n = n /\ l.op \in {"li", "la"}
    BY <1>4, <2>1, <2>2 DEF RRI, RegisterLine
  <2>5. Result(s.regs, s.mem, l) = TiggerValue(t)
    BY <2>3, <2>4 DEF Result
  <2>6. Yields(f, <<l>>, s, t.d, TiggerValue(t))
    BY <1>1, <2>4, <2>5, YieldsOne
  <2> QED BY <1>2, <1>3, <1>4, <2>6, AssignArrives
<1> QED BY <1>5, <1>6

\* The frame of the function.
LEMMA FrameArrives ==
    ASSUME NEW s, NEW t, Started(s, t), t.op \in {"load", "loadaddr", "store"}
    PROVE  Arrived(s, t)
<1> DEFINE f == function
           b == Base(f)
<1>1. /\ s \in Machine(f) /\ f \in Functions /\ t \in TiggerLine(f.size, Len(f.body))
      /\ s.regs[sp] = b /\ TiggerStep(t)
      /\ \A r \in Reg : s.regs[r] = tregs[r]
      /\ \A i \in WordsOf(f) : s.mem[b + 4 * i] = slots[i]
  BY StartedFacts
<1>2. t.n \in 0 .. f.size - 1 /\ t.n \in WordsOf(f) /\ t.n * 4 = 4 * t.n
  BY <1>1, TiggerFields DEF WordsOf
<1>3. t.n * 4 \in Value /\ sp \in AnyReg \ {s0}
  BY <1>1, <1>2, OffsetFacts, RegFacts
<1>4. /\ b + t.n * 4 \in Inside(f) /\ Wrap(b + t.n * 4) = b + t.n * 4 /\ b = FrameBase
      /\ Wrap(s.regs[sp] + t.n * 4) = b + 4 * t.n
  BY <1>1, <1>2, WordFacts
<1>5. CASE t.op = "load"
  <2>1. t.d \in Target /\ t.d \in Dest
    BY <1>1, <1>5, TiggerFields, RegFacts
  <2>2. Yields(f, GenLw(t.d, t.n * 4, sp), s, t.d, s.mem[Wrap(s.regs[sp] + t.n * 4)])
    BY <1>1, <1>2, <1>3, <1>4, <2>1, GenLwYields
  <2>3. Lines(t) = GenLw(t.d, t.n * 4, sp) /\ TiggerValue(t) = slots[t.n] /\ Assigns(t)
    BY <1>5 DEF Lines, TiggerValue, Assigns
  <2>4. s.mem[Wrap(s.regs[sp] + t.n * 4)] = slots[t.n]
    BY <1>1, <1>2, <1>4
  <2> QED BY <2>1, <2>2, <2>3, <2>4, AssignArrives
<1>6. CASE t.op = "loadaddr"
  <2>1. t.d \in Target /\ t.d \in Dest
    BY <1>1, <1>6, TiggerFields, RegFacts
  <2>2. Yields(f, GenImm("addi", "add", t.d, sp, t.n * 4), s, t.d, Wrap(s.regs[sp] + t.n * 4))
    BY <1>1, <1>3, <2>1, GenImmYields
  <2>3. Lines(t) = GenImm("addi", "add", t.d, sp, t.n * 4) /\ TiggerValue(t) = FrameBase + 4 * t.n /\ Assigns(t)
    BY <1>6 DEF Lines, TiggerValue, Assigns
  <2> QED BY <1>4, <2>1, <2>2, <2>3, AssignArrives
<1>7. CASE t.op = "store"
  <2>1. t.b \in Reg /\ t.b \in AnyReg \ {s0}
    BY <1>1, <1>7, TiggerFields, RegFacts
  <2>2. Puts(f, GenSw(t.b, t.n * 4, sp), s, Wrap(s.regs[sp] + t.n * 4), s.regs[t.b])
    BY <1>1, <1>2, <1>3, <1>4, <2>1, GenSwPuts
  <2>3. Lines(t) = GenSw(t.b, t.n * 4, sp)
    BY <1>7 DEF Lines
  <2>4. slots' = [slots EXCEPT ![t.n] = tregs[t.b]]
    BY <1>1, <1>7 DEF TiggerStep
  <2> QED BY <1>2, <1>4, <1>7, <2>1, <2>2, <2>3, <2>4, PutArrives
<1> QED BY <1>5, <1>6, <1>7

\* The elements of an array.
LEMMA ElementArrives ==
    ASSUME NEW s, NEW t, Started(s, t), t.op \in {"get", "put"}
    PROVE  Arrived(s, t)
<1> DEFINE f == function
           b == Base(f)
<1>1. /\ s \in Machine(f) /\ f \in Functions /\ t \in TiggerLine(f.size, Len(f.body))
      /\ TiggerStep(t) /\ Defined(t)
      /\ \A r \in Reg : s.regs[r] = tregs[r]
      /\ \A i \in WordsOf(f) : s.mem[b + 4 * i] = slots[i]
  BY StartedFacts
<1>2. t.a \in Reg /\ t.a \in AnyReg \ {s0} /\ t.n \in Value
  BY <1>1, TiggerFields, RegFacts
<1>3. PICK i \in WordsOf(f) : tregs[t.a] + t.n = b + 4 * i
  BY <1>1, WordFacts DEF Defined
<1>4. /\ s.regs[t.a] + t.n = b + 4 * i /\ Wrap(s.regs[t.a] + t.n) = b + 4 * i
      /\ b + 4 * i \in Inside(f) /\ WordAt(tregs[t.a] + t.n) = i
  BY <1>1, <1>2, <1>3, WordFacts
<1>5. CASE t.op = "get"
  <2>1. t.d \in Target /\ t.d \in Dest
    BY <1>1, <1>5, TiggerFields, RegFacts
  <2>2. Yields(f, GenLw(t.d, t.n, t.a), s, t.d, s.mem[Wrap(s.regs[t.a] + t.n)])
    BY <1>1, <1>2, <1>4, <2>1, GenLwYields
  <2>3. Lines(t) = GenLw(t.d, t.n, t.a) /\ TiggerValue(t) = slots[i] /\ Assigns(t)
    BY <1>4, <1>5 DEF Lines, TiggerValue, Assigns
  <2>4. s.mem[Wrap(s.regs[t.a] + t.n)] = slots[i]
    BY <1>1, <1>4
  <2> QED BY <2>1, <2>2, <2>3, <2>4, AssignArrives
<1>6. CASE t.op = "put"
  <2>1. t.b \in Reg /\ t.b \in AnyReg \ {s0}
    BY <1>1, <1>6, TiggerFields, RegFacts
  <2>2. Puts(f, GenSw(t.b, t.n, t.a), s, Wrap(s.regs[t.a] + t.n), s.regs[t.b])
    BY <1>1, <1>2, <1>4, <2>1, GenSwPuts
  <2>3. Lines(t) = GenSw(t.b, t.n, t.a)
    BY <1>6 DEF Lines
  <2>4. slots' = [slots EXCEPT ![i] = tregs[t.b]]
    BY <1>1, <1>4, <1>6 DEF TiggerStep
  <2> QED BY <1>4, <1>6, <2>1, <2>2, <2>3, <2>4, PutArrives
<1> QED BY <1>5, <1>6

\* A global.
LEMMA GlobalArrives ==
    ASSUME NEW s, NEW t, Started(s, t), t.op = "loadv"
    PROVE  Arrived(s, t)
<1> DEFINE f == function
           l1 == RRI("lui", t.d, x0, Hi(t.v))
           l2 == RRI("lw", t.d, t.d, Lo(t.v))
           m == SetReg(s, t.d, Hi(t.v))
           v == s.mem[t.v]
           q == SetReg(m, t.d, v)
<1>1. /\ s \in Machine(f) /\ f \in Functions /\ t \in TiggerLine(f.size, Len(f.body))
      /\ \A i \in WordsOf(f) : s.mem[Base(f) + 4 * i] = slots[i]
  BY StartedFacts
<1>2. t.d \in Target /\ t.d \in Dest /\ t.d \in AnyReg /\ x0 \in AnyReg /\ t.v \in DOMAIN Data
  BY <1>1, TiggerFields, RegFacts
<1>3. t.v \in WordAddress /\ t.v \in Value /\ t.v \in Inside(f)
  BY <1>2, MemoryAssumption DEF WordAddress, Inside
<1>4. /\ Lo(t.v) \in Value /\ FitsImm(Lo(t.v)) /\ Hi(t.v) \in Value /\ Hi(t.v) % 2^ImmBits = 0
      /\ Wrap(Hi(t.v) + Lo(t.v)) = t.v
  BY <1>3, Address
<1>5. l1 \in RegisterLine /\ l1.op = "lui" /\ l1.d = t.d /\ l1.n = Hi(t.v)
  BY <1>2, <1>4 DEF RRI, RegisterLine
<1>6. l2 \in RegisterLine /\ l2.op = "lw" /\ l2.d = t.d /\ l2.a = t.d /\ l2.n = Lo(t.v)
  BY <1>2, <1>4 DEF RRI, RegisterLine, Immediate
<1>7. Lines(t) = <<l1, l2>> /\ Assigns(t) /\ TiggerValue(t) = slots[WordAt(t.v)]
  BY DEF Lines, Assigns, TiggerValue
<1>8. v = TiggerValue(t)
  BY <1>1, <1>2, <1>7, WordFacts
<1> HIDE DEF l1, l2
<1>9. Result(s.regs, s.mem, l1) = Hi(t.v)
  BY <1>5 DEF Result
<1>10. m \in Machine(f) /\ <<s, l1, m>> \in Steps(f)
  BY <1>1, <1>5, <1>9, RegisterStep
<1>11. /\ m.regs[t.d] = Hi(t.v) /\ m.mem = s.mem /\ m.line = s.line
       /\ \A r \in AnyReg \ {t.d} : m.regs[r] = s.regs[r]
  BY <1>1, <1>2, <1>4, SetRegFacts
<1> HIDE DEF m
<1>12. Result(m.regs, m.mem, l2) = v /\ Wrap(m.regs[l2.a] + l2.n) \in Inside(f)
  BY <1>3, <1>4, <1>6, <1>11 DEF Result
<1>13. q \in Machine(f) /\ <<m, l2, q>> \in Steps(f) /\ v \in Value
  BY <1>6, <1>10, <1>12, RegisterStep
<1> HIDE DEF v
<1>14. q.regs[t.d] = v /\ q.mem = m.mem /\ q.line = m.line /\ \A r \in AnyReg \ {t.d} : q.regs[r] = m.regs[r]
  BY <1>2, <1>10, <1>13, SetRegFacts
<1> HIDE DEF q
<1>15. Chain(Steps(f), <<l1, l2>>, s, q)
  BY <1>10, <1>13, ChainOfTwo
<1>16. Yields(f, Lines(t), s, t.d, TiggerValue(t))
  BY <1>7, <1>8, <1>11, <1>13, <1>14, <1>15 DEF Yields, KeepsOthers
<1> QED BY <1>2, <1>7, <1>16, AssignArrives

\* On entry the frame is made, and the return address goes into its last
\* word.
LEMMA EnterArrives ==
    ASSUME NEW s, NEW t, Started(s, t), t.op = "enter"
    PROVE  Arrived(s, t)
<1> DEFINE f == function
           b == Base(f)
           n == FrameBytes(f.size)
           c == GenImm("addi", "add", sp, sp, -n)
           d == GenSw(ra, n - 4, sp)
<1>1. /\ s \in Machine(f) /\ f \in Functions /\ s.line = line + 1 /\ line = 1
      /\ s.regs[sp] = StackTop /\ s.regs[ra] = Caller /\ TiggerStep(t)
      /\ tregs \in [Reg -> Value] /\ slots \in [WordsOf(f) -> Value]
      /\ \A r \in Reg : s.regs[r] = tregs[r]
      /\ \A i \in WordsOf(f) : s.mem[b + 4 * i] = slots[i]
  BY StartedFacts
<1>2. -n \in Value /\ n - 4 \in Value /\ n \in Nat
  BY <1>1, OffsetFacts, WordFacts
<1>3. sp \in Dest /\ sp \in AnyReg \ {s0} /\ ra \in AnyReg \ {s0} /\ ra # sp /\ ra \in Dest
  BY RegFacts
<1>4. b \in Value /\ StackTop \in Int /\ b + n = StackTop /\ b \in Int /\ b + n - 4 \in Inside(f)
  BY <1>1, WordFacts DEF WordAddress
<1>5. StackTop + -n = b /\ b + (n - 4) = b + n - 4
  BY <1>2, <1>4
<1>6. Wrap(StackTop + -n) = b
  BY <1>4, <1>5, WrapFacts
<1>7. Yields(f, c, s, sp, b)
  BY <1>1, <1>2, <1>3, <1>6, GenImmYields
<1>8. PICK m \in Machine(f) :
        Chain(Steps(f), c, s, m) /\ m.regs[sp] = b /\ KeepsOthers(s, m, sp) /\ m.mem = s.mem /\ m.line = s.line
  BY <1>7 DEF Yields
<1>9. m.regs[ra] = Caller
  BY <1>1, <1>3, <1>8 DEF KeepsOthers
<1>10. Wrap(m.regs[sp] + (n - 4)) = b + n - 4
  <2>1. b + n - 4 \in Value
    BY <1>4 DEF Inside, WordAddress
  <2> QED BY <1>5, <1>8, <2>1, WrapFacts
<1>11. Puts(f, d, m, b + n - 4, Caller)
  BY <1>2, <1>3, <1>4, <1>8, <1>9, <1>10, GenSwPuts
<1>12. PICK q \in Machine(f) :
        /\ Chain(Steps(f), d, m, q)
        /\ q.mem = [m.mem EXCEPT ![b + n - 4] = Caller]
        /\ KeepsOthers(m, q, s0) /\ q.line = m.line
  BY <1>11 DEF Puts
<1>13. c \in Seq(Line) /\ d \in Seq(Line)
  BY <1>2, <1>3, GenImmType, GenAccessType
<1>14. Lines(t) = c \o d
  BY DEF Lines
<1> HIDE DEF c, d
<1>15. Chain(Steps(f), Lines(t), s, q)
  BY <1>8, <1>12, <1>13, <1>14, ChainOfBoth
<1>16. goal' = 2 /\ tregs' = tregs /\ slots' = slots
  BY <1>1 DEF TiggerStep, Jumps, Assigns
<1>17. Len(f.body) \in Nat /\ Len(f.body) >= 2 /\ 2 # 1 /\ 2 # Len(f.body) + 1 /\ 2 \in 1 .. Len(f.body) + 1
  BY <1>1, FunctionFacts
<1>18. s.mem \in [WordAddress -> Value] /\ b + n - 4 \in WordAddress
  BY <1>1, <1>4, MachineFacts DEF Inside
<1>19. q.mem[b + n - 4] = Caller
  BY <1>8, <1>12, <1>18
<1>20. ASSUME NEW i \in WordsOf(f) PROVE q.mem[b + 4 * i] = slots'[i]
  <2>1. b + 4 * i \in WordAddress /\ b + 4 * i # b + n - 4
    BY <1>1, WordFacts
  <2> QED BY <1>1, <1>8, <1>12, <1>16, <1>18, <2>1
<1>21. /\ \A r \in Reg : r \in AnyReg /\ r # s0 /\ r # sp
       /\ sp \in AnyReg /\ sp # s0
  BY RegFacts
<1>22. q.regs[sp] = b /\ \A r \in Reg : q.regs[r] = tregs'[r]
  BY <1>1, <1>8, <1>12, <1>16, <1>21 DEF KeepsOthers
<1>23. Agrees(f, q, goal', tregs', slots')
  BY <1>16, <1>17, <1>19, <1>20, <1>22 DEF Agrees
<1>24. q.line = goal'
  BY <1>1, <1>8, <1>12, <1>16
<1>25. Arrives(f, Lines(t), s, goal', tregs', slots')
  BY <1>15, <1>23, <1>24 DEF Arrives
<1> QED BY <1>1, <1>16, <1>17, <1>25 DEF Arrived

\* A return finds the return address there, and takes the frame away.
LEMMA ReturnArrives ==
    ASSUME NEW s, NEW t, Started(s, t), t.op = "return"
    PROVE  Arrived(s, t)
<1> DEFINE f == function
           b == Base(f)
           n == FrameBytes(f.size)
           last == Len(f.body) + 1
           c == GenLw(ra, n - 4, sp)
           d == GenImm("addi", "add", sp, sp, n)
           l == [op |-> "ret", to |-> last]
<1>1. /\ s \in Machine(f) /\ f \in Functions /\ Len(f.body) \in Nat
      /\ s.regs[sp] = b /\ s.mem[b + n - 4] = Caller /\ TiggerStep(t)
      /\ tregs \in [Reg -> Value] /\ slots \in [WordsOf(f) -> Value]
      /\ \A r \in Reg : s.regs[r] = tregs[r]
      /\ \A i \in WordsOf(f) : s.mem[b + 4 * i] = slots[i]
  BY StartedFacts
<1>2. n \in Value /\ n - 4 \in Value /\ n \in Nat
  BY <1>1, OffsetFacts, WordFacts, FunctionFacts
<1>3. sp \in Dest /\ sp \in AnyReg \ {s0} /\ ra \in AnyReg \ {s0} /\ ra # sp /\ ra \in Dest
  BY RegFacts
<1>4. /\ b \in Value /\ StackTop \in Value /\ b + n = StackTop /\ b \in Int /\ b + n - 4 \in Inside(f)
      /\ b + n - 4 \in Value /\ b + (n - 4) = b + n - 4
  BY <1>1, <1>2, WordFacts DEF WordAddress, Inside
<1>5. Wrap(s.regs[sp] + (n - 4)) = b + n - 4
  BY <1>1, <1>4, WrapFacts
<1>6. Yields(f, c, s, ra, Caller)
  BY <1>1, <1>2, <1>3, <1>4, <1>5, GenLwYields
<1>7. PICK m \in Machine(f) :
        /\ Chain(Steps(f), c, s, m) /\ m.regs[ra] = Caller
        /\ KeepsOthers(s, m, ra) /\ m.mem = s.mem /\ m.line = s.line
  BY <1>6 DEF Yields
<1>8. m.regs[sp] = b
  BY <1>1, <1>3, <1>7 DEF KeepsOthers
<1>9. Wrap(m.regs[sp] + n) = StackTop
  BY <1>4, <1>8, WrapFacts
<1>10. Yields(f, d, m, sp, StackTop)
  BY <1>2, <1>3, <1>7, <1>9, GenImmYields
<1>11. PICK p \in Machine(f) :
        /\ Chain(Steps(f), d, m, p) /\ p.regs[sp] = StackTop
        /\ KeepsOthers(m, p, sp) /\ p.mem = m.mem /\ p.line = m.line
  BY <1>10 DEF Yields
<1>12. l \in JumpLine /\ l.to = last /\ last \in 1 .. last /\ Taken(p.regs, l)
  BY <1>1 DEF JumpLine, Taken
<1> DEFINE e == SetLine(p, last)
<1>13. /\ e \in Machine(f) /\ <<p, l, e>> \in Steps(f)
       /\ e.regs = p.regs /\ e.mem = p.mem /\ e.line = last
  BY <1>12, JumpStep
<1> HIDE DEF e
<1>14. c \in Seq(Line) /\ d \in Seq(Line) /\ <<l>> \in Seq(Line)
  <2>1. l \in Line
    BY <1>12 DEF Line
  <2>2. <<l>> \in Seq(Line)
    BY <2>1
  <2> QED BY <1>2, <1>3, <2>2, GenImmType, GenAccessType
<1>15. Lines(t) = (c \o d) \o <<l>>
  BY DEF Lines
<1> HIDE DEF c, d, l
<1>16. Chain(Steps(f), c \o d, s, p) /\ c \o d \in Seq(Line)
  BY <1>7, <1>11, <1>14, ChainOfBoth
<1>17. Chain(Steps(f), <<l>>, p, e)
  BY <1>13, ChainOfOne
<1>18. Chain(Steps(f), Lines(t), s, e)
  BY <1>14, <1>15, <1>16, <1>17, ChainOfBoth
<1>19. goal' = last /\ tregs' = tregs /\ slots' = slots
  BY <1>1 DEF TiggerStep, Jumps, Assigns
<1>20. e.regs[ra] = Caller /\ e.regs[sp] = StackTop
  BY <1>3, <1>7, <1>11, <1>13 DEF KeepsOthers
<1>21. \A r \in Reg : r \in AnyReg /\ r # s0 /\ r # sp /\ r # ra
  BY RegFacts
<1>22. \A r \in Reg : e.regs[r] = tregs'[r]
  BY <1>1, <1>7, <1>11, <1>13, <1>19, <1>21 DEF KeepsOthers
<1>23. Agrees(f, e, goal', tregs', slots')
  BY <1>1, <1>7, <1>11, <1>13, <1>19, <1>20, <1>22 DEF Agrees
<1>24. Arrives(f, Lines(t), s, goal', tregs', slots')
  BY <1>13, <1>18, <1>19, <1>23 DEF Arrives
<1>25. last \in 1 .. Len(f.body) + 1
  BY <1>1
<1> QED BY <1>1, <1>19, <1>24, <1>25 DEF Arrived

\* The lines for a Tigger line lead to where the Tigger machine goes.
LEMMA LineArrives ==
    ASSUME NEW s, NEW t, Started(s, t)
    PROVE  Arrived(s, t)
<1>1. t \in TiggerLine(function.size, Len(function.body)) \/ t = [op |-> "enter"]
  BY StartedFacts
<1>2. t.op \in Ops
  BY <1>1, TiggerFields
<1> QED BY <1>2, BinopArrives, SimpleArrives, FrameArrives, ElementArrives, GlobalArrives, CallArrives,
           JumpArrives, EnterArrives, ReturnArrives DEF Ops

-----------------------------------------------------------------------------
\* The simulation: what the RISC-V machine has yet to run, and then what
\* strength reduction has yet to replace, leads to where the Tigger machine
\* is.
Here == [regs |-> regs, mem |-> mem, line |-> line]

Leads(f, c, d, s, g, rs, words) ==
    \E m \in Machine(f) : Chain(Steps(f), c, s, m) /\ Arrives(f, d, m, g, rs, words)

Simulated ==
    /\ TiggerType /\ Here \in Machine(function)
    /\ Leads(function, code, pending, Here, goal, tregs, slots)

\* Every line that is run has an outcome, and shortcuts that are right.
Sound ==
    (AtBoundary /\ line <= Len(function.body)) =>
        Exact(function.body[line]) /\ Defined(function.body[line])

LEMMA BoundaryFacts ==
    ASSUME Simulated, AtBoundary
    PROVE  line = goal /\ Agrees(function, Here, goal, tregs, slots)
<1>1. code = << >> /\ pending = << >>
  BY DEF AtBoundary
<1>2. PICK m \in Machine(function) :
        Chain(Steps(function), code, Here, m) /\ Arrives(function, pending, m, goal, tregs, slots)
  BY DEF Simulated, Leads
<1>3. m = Here
  BY <1>1, <1>2, ChainOfNone
<1>4. PICK q \in Machine(function) :
        Chain(Steps(function), pending, m, q) /\ q.line = goal /\ Agrees(function, q, goal, tregs, slots)
  BY <1>2 DEF Arrives
<1>5. q = Here
  BY <1>1, <1>3, <1>4, ChainOfNone
<1>6. Here.line = line
  BY DEF Here
<1> QED BY <1>4, <1>5, <1>6

LEMMA InitSimulated == Init => Simulated
<1> SUFFICES ASSUME Init PROVE Simulated
  OBVIOUS
<1> DEFINE f == function
<1>1. /\ f \in Functions /\ line = 1 /\ goal = 1 /\ pending = << >> /\ code = << >> /\ tregs \in Starts
      /\ regs = [r \in AnyReg |-> IF r = sp THEN StackTop ELSE IF r = ra THEN Caller
                                  ELSE IF r = s0 THEN 0 ELSE tregs[r]]
      /\ mem = [address \in WordAddress |-> IF address \in DOMAIN Data THEN Data[address] ELSE 0]
      /\ slots = [i \in Words |-> IF i < 0 THEN Data[FrameBase + 4 * i] ELSE 0]
  BY DEF Init, AnyReg
<1>2. /\ DOMAIN Data \subseteq WordAddress /\ \A address \in DOMAIN Data : Data[address] \in Value
      /\ StackTop \in Value /\ Caller \in Value /\ 0 \in Value
      /\ tregs \in [Reg -> Value] /\ tregs[x0] = 0
  BY <1>1, MemoryAssumption, WrapFacts DEF WordAddress
<1>3. Len(f.body) \in Nat \ {0, 1} /\ \A address \in DOMAIN Data : address < Base(f)
  BY <1>1, FunctionFacts DEF Base
<1>4. regs \in [AnyReg -> Value]
  BY <1>1, <1>2 DEF AnyReg
<1>5. x0 \in AnyReg /\ regs[x0] = 0
  BY <1>1, <1>2, RegFacts
<1>6. mem \in [WordAddress -> Value] /\ \A address \in WordAddress \ Inside(f) : mem[address] = 0
  BY <1>1, <1>2 DEF Inside
<1>7. Here = [regs |-> regs, mem |-> mem, line |-> 1]
  BY <1>1 DEF Here
<1>8. 1 \in 1 .. Len(f.body) + 1
  BY <1>3
<1>9. Here \in Machine(f)
  BY <1>4, <1>5, <1>6, <1>7, <1>8 DEF Machine
<1>10. WordsOf(f) = Words /\ Base(f) = FrameBase /\ Words \subseteq Int /\ Base(f) \in Int
  BY <1>1, WordFacts
<1>11. ASSUME NEW i \in Words PROVE slots[i] \in Value /\ mem[Base(f) + 4 * i] = slots[i]
  <2>1. Base(f) + 4 * i \in WordAddress /\ i \in Int
    BY <1>1, <1>10, WordFacts
  <2>2. CASE Base(f) + 4 * i \in DOMAIN Data
    <3>1. i < 0
      BY <1>3, <1>10, <2>1, <2>2
    <3> QED BY <1>1, <1>2, <1>10, <2>1, <2>2, <3>1
  <2>3. CASE Base(f) + 4 * i \notin DOMAIN Data
    <3>1. ~ \E address \in DOMAIN Data : i = (address - Base(f)) \div 4
      <4>1. \A address \in DOMAIN Data : WordAt(address) = (address - Base(f)) \div 4
        BY DEF WordAt, FrameBase, Base
      <4> QED BY <1>1, <2>3, <4>1, WordFacts
    <3>2. i \in 0 .. f.size - 1
      BY <1>10, <3>1 DEF WordsOf
    <3>3. ~(i < 0)
      BY <1>1, <3>2, FunctionFacts
    <3> QED BY <1>1, <1>2, <2>1, <2>3, <3>3
  <2> QED BY <2>2, <2>3
<1>12. slots \in [WordsOf(f) -> Value]
  BY <1>1, <1>10, <1>11
<1>13. TiggerType
  BY <1>1, <1>2, <1>8, <1>12 DEF TiggerType
<1>14. \A r \in Reg : regs[r] = tregs[r]
  BY <1>1, RegFacts
<1>15. sp \in AnyReg /\ ra \in AnyReg /\ ra # sp
  BY RegFacts
<1>16. regs[sp] = StackTop /\ regs[ra] = Caller
  BY <1>1, <1>15
<1>17. Agrees(f, Here, goal, tregs, slots)
  BY <1>1, <1>7, <1>10, <1>11, <1>14, <1>16 DEF Agrees
<1>18. Chain(Steps(f), << >>, Here, Here)
  BY ChainOfNone
<1>19. Leads(f, code, pending, Here, goal, tregs, slots)
  <2>1. Here.line = goal
    BY <1>1, <1>7
  <2> QED BY <1>1, <1>9, <1>17, <1>18, <2>1 DEF Leads, Arrives
<1> QED BY <1>9, <1>13, <1>19 DEF Simulated

LEMMA CompileSimulated ==
    ASSUME CodeOK, Simulated, Sound, Compile
    PROVE  Simulated'
<1> DEFINE f == function
           t == f.body[line]
           s == SetLine(Here, line + 1)
<1>1. /\ AtBoundary /\ line <= Len(f.body) /\ pending' = Lines(t) /\ TiggerStep(t) /\ line' = line + 1
      /\ function' = function /\ code' = code /\ regs' = regs /\ mem' = mem /\ code = << >>
  BY DEF Compile, AtBoundary
<1>2. f \in Functions /\ line \in Nat \ {0} /\ TiggerType /\ Here \in Machine(f)
  BY DEF CodeOK, Simulated
<1>3. Len(f.body) \in Nat
  BY <1>2, FunctionFacts
<1>4. line = goal /\ Agrees(f, Here, goal, tregs, slots)
  BY <1>1, BoundaryFacts
<1>5. s = [regs |-> regs, mem |-> mem, line |-> line + 1]
  BY DEF SetLine, Here
<1>6. line + 1 \in 1 .. Len(f.body) + 1 /\ line \in 1 .. Len(f.body)
  BY <1>1, <1>2, <1>3
<1>7. /\ Here.regs = regs /\ Here.mem = mem
      /\ regs \in [AnyReg -> Value] /\ mem \in [WordAddress -> Value] /\ regs[x0] = 0
      /\ \A address \in WordAddress \ Inside(f) : mem[address] = 0
  BY <1>2, MachineFacts DEF Here
<1>8. s \in Machine(f)
  BY <1>5, <1>6, <1>7 DEF Machine
<1>9. s.line = line + 1 /\ s.regs = Here.regs /\ s.mem = Here.mem
  BY <1>5, <1>7
<1>10. Here' = s
  BY <1>1, <1>5 DEF Here
<1> HIDE DEF s
<1>11. Agrees(f, s, line, tregs, slots)
  BY <1>4, <1>9 DEF Agrees
<1>12. Exact(t) /\ Defined(t)
  BY <1>1 DEF Sound
<1>13. Started(s, t)
  BY <1>1, <1>2, <1>6, <1>8, <1>9, <1>11, <1>12 DEF Started
<1>14. Arrived(s, t)
  BY <1>13, LineArrives
<1>15. Chain(Steps(f), code', s, s)
  BY <1>1, ChainOfNone
<1>16. Leads(f, code', pending', s, goal', tregs', slots')
  BY <1>1, <1>8, <1>14, <1>15 DEF Leads, Arrived
<1>17. TiggerType'
  BY <1>1, <1>14 DEF TiggerType, Arrived
<1> QED BY <1>1, <1>8, <1>10, <1>16, <1>17 DEF Simulated

LEMMA ReplaceSimulated ==
    ASSUME CodeOK, Simulated, pending # << >>, NEW lines \in Seq(Line), Replace(lines),
           \A s, q : <<s, First, q>> \in Steps(function) => Chain(Steps(function), lines, s, q)
    PROVE  Simulated'
<1> DEFINE f == function
<1>1. /\ pending' = Tail(pending) /\ code' = code \o lines /\ function' = function /\ line' = line
      /\ regs' = regs /\ mem' = mem /\ goal' = goal /\ tregs' = tregs /\ slots' = slots
  BY DEF Replace
<1>2. pending \in Seq(Pending) /\ code \in Seq(Line) /\ First = Head(pending)
  BY DEF CodeOK, First
<1>3. Here' = Here /\ TiggerType'
  BY <1>1 DEF Here, Simulated, TiggerType
<1>4. PICK m \in Machine(f) : Chain(Steps(f), code, Here, m) /\ Arrives(f, pending, m, goal, tregs, slots)
  BY DEF Simulated, Leads
<1>5. PICK q \in Machine(f) :
        Chain(Steps(f), pending, m, q) /\ q.line = goal /\ Agrees(f, q, goal, tregs, slots)
  BY <1>4 DEF Arrives
<1>6. PICK p : <<m, First, p>> \in Steps(f) /\ Chain(Steps(f), Tail(pending), p, q)
  BY <1>2, <1>5, ChainRest
<1>7. p \in Machine(f)
  BY <1>6, StepFacts
<1>8. Chain(Steps(f), lines, m, p)
  BY <1>6
<1>9. Chain(Steps(f), code', Here, p)
  BY <1>1, <1>2, <1>4, <1>8, ChainOfBoth
<1>10. Arrives(f, pending', p, goal, tregs, slots)
  BY <1>1, <1>5, <1>6 DEF Arrives
<1>11. Leads(f, code', pending', Here, goal, tregs, slots)
  BY <1>7, <1>9, <1>10 DEF Leads
<1>12. Here \in Machine(f)
  BY DEF Simulated
<1> QED BY <1>1, <1>3, <1>11, <1>12 DEF Simulated

LEMMA RunSimulated ==
    ASSUME CodeOK, Simulated, Ready, code' = Tail(code), function' = function, pending' = pending,
           goal' = goal, tregs' = tregs, slots' = slots, Instr \in Line => Here' = Effect(Here, Instr)
    PROVE  Simulated'
<1> DEFINE f == function
<1>1. code # << >> /\ pending = << >> /\ code \in Seq(Line) /\ Instr = Head(code)
  BY DEF Ready, CodeOK, Instr
<1>2. Instr \in Line
  BY <1>1
<1>3. PICK m \in Machine(f) : Chain(Steps(f), code, Here, m) /\ Arrives(f, pending, m, goal, tregs, slots)
  BY DEF Simulated, Leads
<1>4. PICK h : <<Here, Instr, h>> \in Steps(f) /\ Chain(Steps(f), Tail(code), h, m)
  BY <1>1, <1>3, ChainRest
<1>5. h \in Machine(f) /\ h = Effect(Here, Instr)
  BY <1>4, StepFacts
<1>6. Here' = h
  BY <1>2, <1>5
<1>7. Leads(f, code', pending', h, goal', tregs', slots')
  BY <1>3, <1>4 DEF Leads
<1>8. TiggerType'
  BY DEF Simulated, TiggerType
<1> QED BY <1>5, <1>6, <1>7, <1>8 DEF Simulated

LEMMA NextSimulated == CodeOK /\ Simulated /\ Sound /\ [Next]_vars => Simulated'
<1> SUFFICES ASSUME CodeOK, Simulated, Sound, [Next]_vars PROVE Simulated'
  OBVIOUS
<1>0. /\ pending \in Seq(Pending) /\ code \in Seq(Line) /\ HalvingOK
      /\ Here.regs = regs /\ Here.mem = mem /\ Here.line = line
  BY DEF CodeOK, Here
<1>1. CASE Compile
  BY <1>1, CompileSimulated
<1>2. CASE Keep
  <2>1. pending # << >> /\ ~NeedsShift(First) /\ Replace(Kept(First)) /\ First \in Pending
    BY <1>0, <1>2 DEF Keep, First
  <2>2. Kept(First) \in Seq(Line)
    BY <2>1, KeptType
  <2>3. \A s, q : <<s, First, q>> \in Steps(function) => Chain(Steps(function), Kept(First), s, q)
    BY <2>1, KeptHasEffect
  <2> QED BY <2>1, <2>2, <2>3, ReplaceSimulated
<1>3. CASE Shift
  <2>1. /\ pending # << >> /\ NeedsShift(First) /\ Half(Left) = 0 /\ Replace(Shifted(First, halving.k))
        /\ First \in Pending
    BY <1>0, <1>3 DEF Shift, First
  <2>2. halving.k \in 0 .. Bits - 2 /\ (First.n = 0 \/ First.n = 2^(halving.k))
    BY <1>0, <2>1, CountingEnd DEF HalvingOK
  <2>3. halving.k \in 0 .. Bits - 1 /\ First \in Shortcut
    BY <2>1, <2>2, PendingFields, Widths DEF NeedsShift
  <2>4. Shifted(First, halving.k) \in Seq(Line)
    BY <2>3, ShiftedType
  <2>5. \A s, q : <<s, First, q>> \in Steps(function) =>
                    Chain(Steps(function), Shifted(First, halving.k), s, q)
    BY <2>1, <2>2, ShiftedHasEffect
  <2> QED BY <2>1, <2>4, <2>5, ReplaceSimulated
<1>4. ASSUME UNCHANGED <<function, line, pending, code, regs, mem, goal, tregs, slots>>
      PROVE  Simulated'
  BY <1>4 DEF Simulated, TiggerType, Here
<1>5. CASE Halve
  BY <1>4, <1>5 DEF Halve
<1>6. Ready => Instr \in Line
  BY <1>0 DEF Ready, Instr
<1>7. CASE RunRegister
  <2>1. /\ Ready /\ Instr.op \notin {"sw", "call", "j", "ret"} \cup Branches
        /\ regs' = [regs EXCEPT ![Instr.d] = Result(regs, mem, Instr)] /\ code' = Tail(code)
        /\ UNCHANGED <<function, line, pending, halving, mem, goal, tregs, slots>>
    BY <1>7, BranchNames DEF RunRegister
  <2>2. Instr \in RegisterLine
    BY <1>6, <2>1 DEF Line, StoreLine, CallLine, JumpLine
  <2>3. Effect(Here, Instr) = SetReg(Here, Instr.d, Result(regs, mem, Instr))
    BY <1>0, <2>2, KindFacts DEF Effect
  <2>4. Here' = SetReg(Here, Instr.d, Result(regs, mem, Instr))
    BY <2>1 DEF Here, SetReg
  <2> QED BY <2>1, <2>3, <2>4, RunSimulated
<1>8. CASE RunStore
  <2>1. /\ Ready /\ Instr.op = "sw" /\ code' = Tail(code)
        /\ mem' = [mem EXCEPT ![Wrap(regs[Instr.a] + Instr.n)] = regs[Instr.b]]
        /\ UNCHANGED <<function, line, pending, halving, regs, goal, tregs, slots>>
    BY <1>8 DEF RunStore
  <2>2. Instr \in StoreLine
    BY <1>6, <2>1 DEF Line, RegisterLine, CallLine, JumpLine, Branches
  <2>3. Effect(Here, Instr) = SetMem(Here, Wrap(regs[Instr.a] + Instr.n), regs[Instr.b])
    BY <1>0, <2>2, KindFacts DEF Effect
  <2>4. Here' = SetMem(Here, Wrap(regs[Instr.a] + Instr.n), regs[Instr.b])
    BY <2>1 DEF Here, SetMem
  <2> QED BY <2>1, <2>3, <2>4, RunSimulated
<1>9. CASE RunCall
  <2>1. /\ Ready /\ Instr.op = "call" /\ code' = Tail(code)
        /\ regs' = [regs EXCEPT ![ra] = 0, ![s0] = 0]
        /\ UNCHANGED <<function, line, pending, halving, mem, goal, tregs, slots>>
    BY <1>9 DEF RunCall
  <2>2. Instr \in CallLine
    BY <1>6, <2>1 DEF Line, RegisterLine, StoreLine, JumpLine, Branches
  <2>3. Effect(Here, Instr) = SetReg(SetReg(Here, ra, 0), s0, 0)
    BY <2>2, KindFacts DEF Effect
  <2>4. Here' = SetReg(SetReg(Here, ra, 0), s0, 0)
    <3> DEFINE m == SetReg(Here, ra, 0)
    <3>1. m = [regs |-> [regs EXCEPT ![ra] = 0], mem |-> mem, line |-> line]
      BY DEF SetReg, Here
    <3> HIDE DEF m
    <3>2. SetReg(m, s0, 0) = [regs |-> [[regs EXCEPT ![ra] = 0] EXCEPT ![s0] = 0], mem |-> mem, line |-> line]
      BY <3>1 DEF SetReg
    <3>3. regs' = [[regs EXCEPT ![ra] = 0] EXCEPT ![s0] = 0]
      BY <2>1
    <3> QED BY <2>1, <3>2, <3>3 DEF Here, m
  <2> QED BY <2>1, <2>3, <2>4, RunSimulated
<1>10. CASE RunJump
  <2>1. /\ Ready /\ Instr.op \in {"j", "ret"} \cup Branches /\ code' = Tail(code)
        /\ line' = IF Taken(regs, Instr) THEN Instr.to ELSE line
        /\ UNCHANGED <<function, pending, halving, regs, mem, goal, tregs, slots>>
    BY <1>10, BranchNames DEF RunJump
  <2>2. Instr \in JumpLine
    BY <1>6, <2>1 DEF Line, RegisterLine, StoreLine, CallLine, Branches
  <2>3. Effect(Here, Instr) = SetLine(Here, IF Taken(regs, Instr) THEN Instr.to ELSE line)
    BY <1>0, <2>2, KindFacts DEF Effect
  <2>4. Here' = SetLine(Here, IF Taken(regs, Instr) THEN Instr.to ELSE line)
    BY <2>1 DEF Here, SetLine
  <2> QED BY <2>1, <2>3, <2>4, RunSimulated
<1>11. CASE UNCHANGED vars
  BY <1>4, <1>11 DEF vars
<1> QED BY <1>1, <1>2, <1>3, <1>5, <1>7, <1>8, <1>9, <1>10, <1>11 DEF Next

-----------------------------------------------------------------------------
\* What the invariant says of the properties.
LEMMA SimulatedFacts ==
    ASSUME CodeOK, Simulated
    PROVE  TypeOK /\ SameOutcome /\ ReturnsToCaller /\ StaysInFrame
<1> DEFINE f == function
<1>1. /\ f \in Functions /\ TiggerType /\ Here \in Machine(f)
      /\ Here.regs = regs /\ Here.mem = mem /\ Here.line = line
  BY DEF CodeOK, Simulated, Here
<1>2. /\ regs \in [AnyReg -> Value] /\ regs[x0] = 0 /\ mem \in [WordAddress -> Value]
      /\ line \in 1 .. Len(f.body) + 1
      /\ \A address \in WordAddress \ Inside(f) : mem[address] = 0
      /\ \A r \in AnyReg : regs[r] \in Value
      /\ \A address \in WordAddress : mem[address] \in Value
  BY <1>1, MachineFacts
<1>3. /\ Base(f) = FrameBase /\ WordsOf(f) = Words /\ Len(f.body) \in Nat \ {0, 1} /\ WordAddress \subseteq Int
      /\ StackTop \in Int /\ Base(f) \in Int
  <2>1. WordAddress \subseteq Int
    BY WrapFacts DEF WordAddress
  <2> QED BY <1>1, <2>1, WordFacts, FunctionFacts
<1>4. TypeOK
  <2>1. DOMAIN regs = AnyReg
    BY <1>2
  <2>2. {line, goal} \subseteq 1 .. Len(f.body) + 1
    BY <1>1, <1>2 DEF TiggerType
  <2> QED BY <1>1, <1>2, <1>3, <2>1, <2>2 DEF TypeOK, TiggerType
<1>5. StaysInFrame
  <2> SUFFICES ASSUME NEW address \in WordAddress, address < FrameBase \/ address >= StackTop,
                      address \notin DOMAIN Data
               PROVE  mem[address] = 0
    BY DEF StaysInFrame
  <2>1. address \notin Inside(f)
    BY <1>3 DEF Inside
  <2> QED BY <1>2, <2>1
<1>6. SameOutcome
  <2> SUFFICES ASSUME AtBoundary
               PROVE  /\ line = goal /\ \A r \in Reg : regs[r] = tregs[r]
                      /\ \A i \in DOMAIN slots : mem[FrameBase + 4 * i] = slots[i]
    BY DEF SameOutcome
  <2>1. line = goal /\ Agrees(f, Here, goal, tregs, slots)
    BY BoundaryFacts
  <2>2. DOMAIN slots = WordsOf(f)
    BY <1>1 DEF TiggerType
  <2> QED BY <1>1, <1>3, <2>1, <2>2 DEF Agrees
<1>7. ReturnsToCaller
  <2> SUFFICES ASSUME AtBoundary, line > Len(f.body)
               PROVE  regs[sp] = StackTop /\ regs[ra] = Caller
    BY DEF ReturnsToCaller
  <2>1. line = goal /\ Agrees(f, Here, goal, tregs, slots)
    BY BoundaryFacts
  <2>2. line = Len(f.body) + 1
    BY <1>2, <1>3
  <2> QED BY <1>1, <2>1, <2>2 DEF Agrees
<1> QED BY <1>4, <1>5, <1>6, <1>7

LEMMA Simulation == Spec /\ []Sound => [](CodeOK /\ Simulated)
<1>1. CodeOK /\ Simulated /\ Sound /\ [Next]_vars => (CodeOK /\ Simulated)'
  BY NextCode, NextSimulated
<1> QED BY <1>1, InitCode, InitSimulated, PTL DEF Spec

\* Registers and words of memory stay in range, whatever the function
\* computes, and no line of it is left out or made up.
THEOREM TypesOfTheMachines == Spec /\ []Sound => []TypeOK
<1>1. CodeOK /\ Simulated => TypeOK
  BY SimulatedFacts
<1> QED BY <1>1, Simulation, PTL

\* Selection and strength reduction keep what a function computes: after the
\* RISC-V code of each Tigger line the registers, the frame and the globals
\* hold what they hold on the Tigger machine, and the next line is the same.
THEOREM SelectionKeepsOutcome == Spec /\ []Sound => []SameOutcome
<1>1. CodeOK /\ Simulated => SameOutcome
  BY SimulatedFacts
<1> QED BY <1>1, Simulation, PTL

\* A function that returns has the stack pointer and the return address that
\* it was called with, for frames of every size.
THEOREM EveryFunctionReturns == Spec /\ []Sound => []ReturnsToCaller
<1>1. CodeOK /\ Simulated => ReturnsToCaller
  BY SimulatedFacts
<1> QED BY <1>1, Simulation, PTL

\* No function writes outside its frame and the globals.
THEOREM NoWriteOutside == Spec /\ []Sound => []StaysInFrame
<1>1. CodeOK /\ Simulated => StaysInFrame
  BY SimulatedFacts
<1> QED BY <1>1, Simulation, PTL

=============================================================================
