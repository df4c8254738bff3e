-------------------------- MODULE WideValues_proof --------------------------
(* Theorems about WideValues, for cells of any even number of values, and so *)
(* for the build's 2^32.                                                     *)
EXTENDS WideValues, TLAPS

Half == M \div 2

\* A cell has two halves, and its unsigned value is one of M.
LEMMA CellHalves ==
  /\ M \in Nat /\ Half \in Nat /\ M = Half + Half /\ Half >= 1
  /\ \A c \in Cell : c \in Int /\ -Half <= c /\ c <= Half - 1
  /\ \A c \in Cell : Unsigned(c) \in Nat /\ Unsigned(c) < M
<1>1. M \in Nat /\ Half \in Nat /\ M = Half + Half /\ Half >= 1
  BY CellAssumption DEF Half
<1>2. ASSUME NEW c \in Cell PROVE c \in Int /\ -Half <= c /\ c <= Half - 1
  BY <1>1 DEF Cell, Half
<1>3. ASSUME NEW c \in Cell PROVE Unsigned(c) \in Nat /\ Unsigned(c) < M
  BY <1>1, <1>2 DEF Unsigned
<1> QED
  BY <1>1, <1>2, <1>3

\* A product with M as one with its half.
LEMMA TwiceTheHalf ==
  ASSUME NEW n \in Int PROVE n * M = n * Half + n * Half
<1>1. M = Half + Half /\ Half \in Int
  BY CellHalves
<1>2. \A a \in Int : n * (a + a) = n * a + n * a
  OBVIOUS
<1> QED
  BY <1>1, <1>2

\* Multiplying by M keeps the order of integers.
LEMMA TimesMonotone ==
  ASSUME NEW m \in Int, NEW n \in Int, m <= n PROVE m * M <= n * M
<1>1. M \in Nat
  BY CellHalves
<1>2. \A k \in Nat, j \in Nat : j * k >= 0
  OBVIOUS
<1>3. (n - m) * M >= 0
  BY <1>1, <1>2
<1>4. \A k \in Int : (n - m) * k = n * k - m * k
  OBVIOUS
<1>5. (n - m) * M = n * M - m * M
  BY <1>1, <1>4
<1>6. n * M \in Int /\ m * M \in Int
  BY <1>1
<1> QED
  BY <1>3, <1>5, <1>6

\* Both cells of an off_t option count for what they stand for: the sign of the low one
\* does not reach the high word, and that of the high one is the sign of the whole.
THEOREM WideOptionsCross == OffsetsExact
<1> SUFFICES ASSUME NEW hi \in Cell, NEW lo \in Cell PROVE OffsetOf(hi, lo) = Denotes(hi, lo)
  BY DEF OffsetsExact
<1> DEFINE u == Unsigned(lo)
<1>1. /\ M \in Nat /\ Half \in Nat /\ M = Half + Half
      /\ hi \in Int /\ -Half <= hi /\ hi <= Half - 1
      /\ u \in Nat /\ u < M
  BY CellHalves
<1>2. M * M = Half * M + Half * M /\ Half * M \in Int /\ hi * M \in Int /\ M * M \in Int
  <2>1. \A a, b \in Int : (a + a) * b = a * b + a * b
    OBVIOUS
  <2> QED
    BY <1>1, <2>1
<1> HIDE DEF u
<1>3. CASE hi >= 0
  <2>1. Unsigned(hi) = hi
    BY <1>1, <1>3 DEF Unsigned
  <2>2. hi * M <= (Half - 1) * M
    BY <1>1, TimesMonotone
  <2>3. (Half - 1) * M = Half * M - M
    <3>1. \A a, b \in Int : (a - 1) * b = a * b - b
      OBVIOUS
    <3> QED
      BY <1>1, <3>1
  <2>4. ~ (2 * (hi * M + u) >= M * M)
    BY <1>1, <1>2, <2>2, <2>3
  <2> QED
    BY <2>1, <2>4 DEF OffsetOf, ToOffset, Denotes, u
<1>4. CASE hi < 0
  <2>1. Unsigned(hi) = hi + M
    BY <1>1, <1>4 DEF Unsigned
  <2>2. (hi + M) * M = hi * M + M * M
    <3>1. \A a, b \in Int : (a + b) * b = a * b + b * b
      OBVIOUS
    <3> QED
      BY <1>1, <3>1
  <2>3. (-Half) * M <= hi * M
    BY <1>1, TimesMonotone
  <2>4. (-Half) * M = -(Half * M)
    <3>1. \A a, b \in Int : (-a) * b = -(a * b)
      OBVIOUS
    <3> QED
      BY <1>1, <3>1
  <2>5. 2 * (hi * M + M * M + u) >= M * M
    BY <1>1, <1>2, <2>3, <2>4
  <2>6. (hi * M + M * M + u) - M * M = hi * M + u
    BY <1>1, <1>2
  <2> QED
    BY <2>1, <2>2, <2>5, <2>6 DEF OffsetOf, ToOffset, Denotes, u
<1> QED
  BY <1>1, <1>3, <1>4
=============================================================================
