--------------------------- MODULE AllocatorProof ---------------------------
(***************************************************************************)
(* Theorems about Allocator, for every fanout, number of cells, size of a  *)
(* table block and sequence of operations.                                 *)
(*                                                                         *)
(* The tree is described by the place of each record: a function from the  *)
(* records in use to the cells, L1 cells and blocks they refine.  What     *)
(* callers can tell of a group is, for each block, its state, the unit it  *)
(* was allocated in and, of a slot block, the states of its slots; every   *)
(* edit of the tree is shown to change these for the blocks it is about    *)
(* and for no other.                                                       *)
(***************************************************************************)
EXTENDS Allocator, SequenceTheorems, FiniteSetTheorems, WellFoundedInduction, TLAPS

-----------------------------------------------------------------------------
(* Numbers *)

LEMMA LeastNumber ==
  ASSUME NEW T \in SUBSET Nat, NEW n \in T
  PROVE  \E x \in T : \A y \in T : x <= y
<1>1. PICK x \in T : \A y \in T : ~(<<y, x>> \in OpToRel(<, Nat))
  BY NatLessThanWellFounded, WFMin
<1>2. \A y \in T : ~(y < x)
  BY <1>1 DEF OpToRel
<1> QED BY <1>2

LEMMA Induction ==
  ASSUME NEW T \in SUBSET Nat, 0 \in T, \A n \in T : n + 1 \in T
  PROVE  T = Nat
<1> SUFFICES ASSUME NEW m \in Nat \ T PROVE FALSE
  OBVIOUS
<1>1. PICK x \in Nat \ T : \A y \in Nat \ T : x <= y
  BY LeastNumber
<1>2. x # 0
  OBVIOUS
<1>3. x - 1 \in Nat /\ x - 1 \in T
  BY <1>1, <1>2
<1>4. (x - 1) + 1 \in T
  BY <1>3
<1> QED BY <1>1, <1>4

LEMMA MinIsLeast ==
  ASSUME NEW S \in SUBSET Nat, S # {}
  PROVE  Min(S) \in S /\ \A y \in S : Min(S) <= y
<1>1. PICK n \in S : TRUE
  OBVIOUS
<1>2. \E x \in S : \A y \in S : x <= y
  BY <1>1, LeastNumber
<1> QED BY <1>2 DEF Min

LEMMA FirstIsIn ==
  ASSUME NEW S \in SUBSET Nat, S # {}, NEW hint \in Nat
  PROVE  FirstFrom(S, hint) \in S
<1> DEFINE later == {x \in S : x >= hint}
<1>1. CASE \E x \in S : x >= hint
  <2>1. later \in SUBSET Nat /\ later # {}
    BY <1>1
  <2>2. Min(later) \in later
    BY <2>1, MinIsLeast
  <2>3. FirstFrom(S, hint) = Min(later)
    BY <1>1 DEF FirstFrom
  <2> QED BY <2>2, <2>3
<1>2. CASE ~\E x \in S : x >= hint
  <2>1. FirstFrom(S, hint) = Min(S)
    BY <1>2 DEF FirstFrom
  <2> QED BY <2>1, MinIsLeast
<1> QED BY <1>1, <1>2

LEMMA DivFacts ==
  ASSUME NEW s \in Nat, NEW k \in Nat \ {0}
  PROVE  s \div k \in Nat /\ (s % k) \in 0 .. k - 1 /\ s = k * (s \div k) + (s % k)
OBVIOUS

LEMMA LessTimes ==
  ASSUME NEW k \in Nat, NEW x \in Int, NEW y \in Int, x < y
  PROVE  k * x + k <= k * y
<1>1. (y - x) - 1 \in Nat
  OBVIOUS
<1>2. k * ((y - x) - 1) \in Nat
  BY <1>1
<1>3. k * ((y - x) - 1) = k * y - k * x - k
  OBVIOUS
<1>4. k * x \in Int /\ k * y \in Int
  OBVIOUS
<1> QED BY <1>2, <1>3, <1>4

LEMMA Cancel ==
  ASSUME NEW k \in Nat \ {0}, NEW x \in Int, NEW y \in Int, k * x < k * y
  PROVE  x < y
<1> SUFFICES ASSUME y <= x PROVE FALSE
  OBVIOUS
<1>1. x - y \in Nat
  OBVIOUS
<1>2. k * (x - y) \in Nat
  BY <1>1
<1>3. k * (x - y) = k * x - k * y
  OBVIOUS
<1>4. k * x \in Int /\ k * y \in Int
  OBVIOUS
<1> QED BY <1>2, <1>3, <1>4

LEMMA DivIs ==
  ASSUME NEW k \in Nat \ {0}, NEW q \in Int, NEW r \in 0 .. k - 1, k * q + r \in Nat
  PROVE  (k * q + r) \div k = q /\ ((k * q + r) % k) = r
<1> DEFINE s == k * q + r
           p == s \div k
           t == s % k
<1>1. p \in Nat /\ t \in 0 .. k - 1 /\ s = k * p + t
  BY DivFacts
<1>2. s = k * q + r
  OBVIOUS
<1> HIDE DEF s, p, t
<1>3. k * p \in Int /\ k * q \in Int
  BY <1>1
<1>4. ~(p < q)
  <2> SUFFICES ASSUME p < q PROVE FALSE
    OBVIOUS
  <2>1. k * p + k <= k * q
    BY <1>1, LessTimes
  <2> QED BY <1>1, <1>2, <1>3, <2>1
<1>5. ~(q < p)
  <2> SUFFICES ASSUME q < p PROVE FALSE
    OBVIOUS
  <2>1. k * q + k <= k * p
    BY <1>1, LessTimes
  <2> QED BY <1>1, <1>2, <1>3, <2>1
<1>6. p = q
  BY <1>1, <1>4, <1>5
<1>7. t = r
  BY <1>1, <1>2, <1>3, <1>6
<1> QED BY <1>6, <1>7 DEF s, p, t

LEMMA Sizes2 ==
  /\ Fanout \in Nat \ {0, 1} /\ CellBlocks \in Nat \ {0} /\ CellBlocks = Fanout * Fanout
  /\ CellBlocks > Fanout /\ CellBlocks >= 4 /\ CellCount \in Nat \ {0} /\ CellCount * CellBlocks \in Nat
<1>1. Fanout \in Nat \ {0, 1}
  BY FanoutAssumption
<1>2. Fanout * 1 + Fanout <= Fanout * Fanout
  BY <1>1, LessTimes
<1>3. Fanout * Fanout \in Nat /\ Fanout * 1 = Fanout /\ Fanout >= 2
  BY <1>1
<1>4. CellBlocks = Fanout * Fanout
  BY DEF CellBlocks
<1>5. CellBlocks \in Nat
  BY <1>3, <1>4
<1>6. CellCount * CellBlocks \in Nat
  BY <1>5, CellAssumption
<1> QED BY <1>1, <1>2, <1>3, <1>4, <1>5, <1>6, CellAssumption

LEMMA CeilFacts ==
  ASSUME NEW n \in Nat, NEW k \in Nat \ {0}
  PROVE  /\ CeilDiv(n, k) \in Nat /\ CeilDiv(n, k) * k \in Nat
         /\ n <= CeilDiv(n, k) * k /\ CeilDiv(n, k) * k < n + k
         /\ n > 0 => CeilDiv(n, k) > 0
         /\ \A q \in Nat : n <= q * k => CeilDiv(n, k) <= q
         /\ \A q \in Nat : n = q * k => CeilDiv(n, k) = q
<1> DEFINE s == n + k - 1
           p == s \div k
           t == s % k
<1>1. s \in Nat
  OBVIOUS
<1>2. p \in Nat /\ t \in 0 .. k - 1 /\ s = k * p + t
  BY <1>1, DivFacts
<1>3. s = n + k - 1 /\ CeilDiv(n, k) = p
  BY DEF CeilDiv
<1> HIDE DEF s, p, t
<1>4. k * p \in Nat /\ p * k = k * p
  BY <1>2
<1>5. n <= p * k /\ p * k < n + k
  BY <1>2, <1>3, <1>4
<1>6. n > 0 => p > 0
  <2> SUFFICES ASSUME n > 0, p = 0 PROVE FALSE
    BY <1>2
  <2>1. p * k = 0
    OBVIOUS
  <2> QED BY <1>5, <2>1
<1>7. ASSUME NEW q \in Nat, n <= q * k PROVE p <= q
  <2> SUFFICES ASSUME q < p PROVE FALSE
    BY <1>2
  <2>1. k * q + k <= k * p
    BY <1>2, LessTimes
  <2>2. k * q = q * k /\ k * q \in Nat
    OBVIOUS
  <2> QED BY <1>4, <1>5, <1>7, <2>1, <2>2
<1>8. ASSUME NEW q \in Nat, n = q * k PROVE p = q
  <2>1. p <= q
    BY <1>7, <1>8
  <2>2. ~(p < q)
    <3> SUFFICES ASSUME p < q PROVE FALSE
      OBVIOUS
    <3>1. k * p + k <= k * q
      BY <1>2, LessTimes
    <3>2. k * q = q * k /\ k * q \in Nat
      OBVIOUS
    <3> QED BY <1>4, <1>5, <1>8, <3>1, <3>2
  <2> QED BY <1>2, <2>1, <2>2
<1> QED BY <1>2, <1>3, <1>4, <1>5, <1>6, <1>7, <1>8

(* A number k * q + t is in a part lo .. hi - 1 of the p-th piece of k if   *)
(* and only if q is p and t is in that part.                               *)
LEMMA Within ==
  ASSUME NEW k \in Nat \ {0}, NEW p \in Int, NEW q \in Int, NEW t \in 0 .. k - 1,
         NEW lo \in 0 .. k, NEW hi \in 0 .. k
  PROVE  (k * q + t \in k * p + lo .. k * p + hi - 1) <=> (q = p /\ t \in lo .. hi - 1)
<1>1. k * p \in Int /\ k * q \in Int
  OBVIOUS
<1>2. CASE q = p
  BY <1>1, <1>2
<1>3. CASE q < p
  <2>1. k * q + k <= k * p
    BY <1>3, LessTimes
  <2> QED BY <1>1, <1>3, <2>1
<1>4. CASE p < q
  <2>1. k * p + k <= k * q
    BY <1>4, LessTimes
  <2> QED BY <1>1, <1>4, <2>1
<1> QED BY <1>2, <1>3, <1>4

-----------------------------------------------------------------------------
(* Blocks and their cells *)

CellOf(b) == b \div CellBlocks
KidOf(b) == (b % CellBlocks) \div Fanout
LeafOf(b) == b % Fanout
Blk(c, i, j) == c * CellBlocks + i * Fanout + j

LEMMA OfFacts ==
  ASSUME NEW b \in Blocks
  PROVE  /\ CellOf(b) \in Cells /\ KidOf(b) \in Kids /\ LeafOf(b) \in Kids
         /\ b = CellBlocks * CellOf(b) + (b % CellBlocks) /\ (b % CellBlocks) \in 0 .. CellBlocks - 1
         /\ (b % CellBlocks) = Fanout * KidOf(b) + LeafOf(b)
         /\ b = Fanout * (Fanout * CellOf(b) + KidOf(b)) + LeafOf(b)
         /\ b = Blk(CellOf(b), KidOf(b), LeafOf(b))
<1> DEFINE q == b \div CellBlocks
           s == b % CellBlocks
           i == s \div Fanout
           j == s % Fanout
<1>1. b \in Nat /\ b < CellCount * CellBlocks
  BY Sizes2 DEF Blocks
<1>2. q \in Nat /\ s \in 0 .. CellBlocks - 1 /\ b = CellBlocks * q + s
  BY <1>1, Sizes2, DivFacts
<1> HIDE DEF q, s
<1>3. i \in Nat /\ j \in 0 .. Fanout - 1 /\ s = Fanout * i + j
  <2>1. s \in Nat /\ Fanout \in Nat \ {0}
    BY <1>2, Sizes2
  <2> QED BY <2>1, DivFacts
<1> HIDE DEF i, j
<1>4. q \in Cells
  <2>1. CellBlocks * q \in Nat /\ CellBlocks * CellCount = CellCount * CellBlocks
    BY <1>2, Sizes2
  <2>2. CellBlocks * q < CellBlocks * CellCount
    BY <1>1, <1>2, <2>1, Sizes2
  <2>3. q < CellCount
    BY <1>2, <2>2, Sizes2, Cancel
  <2> QED BY <1>2, <2>3, Sizes2 DEF Cells
<1>5. i \in Kids
  <2>1. Fanout * i \in Nat
    BY <1>3, Sizes2
  <2>2. Fanout * i < Fanout * Fanout
    BY <1>2, <1>3, <2>1, Sizes2
  <2>3. i < Fanout
    BY <1>3, <2>2, Sizes2, Cancel
  <2> QED BY <1>3, <2>3, Sizes2 DEF Kids
<1>6. b = Fanout * (Fanout * q + i) + j
  <2>1. Fanout * (Fanout * q + i) = (Fanout * Fanout) * q + Fanout * i
    BY <1>2, <1>3, Sizes2
  <2>2. (Fanout * Fanout) * q = CellBlocks * q /\ CellBlocks * q \in Nat /\ Fanout * i \in Nat
    BY <1>2, <1>3, Sizes2
  <2> QED BY <1>2, <1>3, <2>1, <2>2
<1>7. b % Fanout = j
  <2>1. Fanout * q + i \in Int
    BY <1>2, <1>3, Sizes2
  <2> QED BY <1>1, <1>3, <1>6, <2>1, Sizes2, DivIs
<1>8. CellOf(b) = q /\ KidOf(b) = i /\ LeafOf(b) = j /\ (b % CellBlocks) = s
  BY <1>7, Zenon DEF CellOf, KidOf, LeafOf, q, i, s
<1>9. j \in Kids
  BY <1>3 DEF Kids
<1>10. b = Blk(q, i, j)
  <2>1. q * CellBlocks = CellBlocks * q /\ i * Fanout = Fanout * i /\ CellBlocks * q \in Nat /\ Fanout * i \in Nat
    BY <1>2, <1>3, Sizes2
  <2> QED BY <1>2, <1>3, <2>1 DEF Blk
<1> QED BY <1>2, <1>3, <1>4, <1>5, <1>6, <1>8, <1>9, <1>10

LEMMA BlkFacts ==
  ASSUME NEW c \in Cells, NEW i \in Kids, NEW j \in Kids
  PROVE  /\ Blk(c, i, j) \in Blocks /\ Blk(c, i, j) \in Nat
         /\ CellOf(Blk(c, i, j)) = c /\ KidOf(Blk(c, i, j)) = i /\ LeafOf(Blk(c, i, j)) = j
         /\ (Blk(c, i, j) % CellBlocks) = Fanout * i + j
<1> DEFINE s == Fanout * i + j
           b == CellBlocks * c + s
<1>1. c \in Nat /\ c < CellCount /\ i \in 0 .. Fanout - 1 /\ j \in 0 .. Fanout - 1
  BY Sizes2 DEF Cells, Kids
<1>2. s \in 0 .. CellBlocks - 1
  <2>1. Fanout * i + Fanout <= Fanout * Fanout
    BY <1>1, Sizes2, LessTimes
  <2>2. Fanout * i \in Nat
    BY <1>1, Sizes2
  <2> QED BY <1>1, <2>1, <2>2, Sizes2
<1>3. b \in Nat /\ b < CellCount * CellBlocks
  <2>1. CellBlocks * c + CellBlocks <= CellBlocks * CellCount
    BY <1>1, Sizes2, LessTimes
  <2>2. CellBlocks * c \in Nat /\ CellBlocks * CellCount = CellCount * CellBlocks
    BY <1>1, Sizes2
  <2> HIDE DEF s
  <2> QED BY <1>2, <2>1, <2>2, Sizes2
<1>4. b = Blk(c, i, j)
  <2>1. c * CellBlocks = CellBlocks * c /\ i * Fanout = Fanout * i /\ CellBlocks * c \in Nat /\ Fanout * i \in Nat
    BY <1>1, Sizes2
  <2> QED BY <1>1, <2>1 DEF Blk
<1>5. b \div CellBlocks = c /\ (b % CellBlocks) = s
  <2> HIDE DEF s
  <2>1. CellBlocks \in Nat \ {0} /\ c \in Int /\ CellBlocks * c + s \in Nat
    BY <1>1, <1>3, Sizes2
  <2> QED BY <1>2, <2>1, DivIs
<1>6. s \div Fanout = i
  <2>1. s \in Nat
    BY <1>2
  <2> QED BY <1>1, <2>1, Sizes2, DivIs
<1>7. (b % Fanout) = j
  <2>1. Fanout * (Fanout * c + i) = (Fanout * Fanout) * c + Fanout * i
    BY <1>1, Sizes2
  <2>2. (Fanout * Fanout) * c = CellBlocks * c /\ CellBlocks * c \in Nat /\ Fanout * i \in Nat
    BY <1>1, Sizes2
  <2>3. b = Fanout * (Fanout * c + i) + j /\ Fanout * c + i \in Int
    BY <1>1, <2>1, <2>2, Sizes2
  <2> HIDE DEF b
  <2> QED BY <1>1, <1>3, <2>3, Sizes2, DivIs
<1> HIDE DEF b, s
<1>8. CellOf(b) = c /\ KidOf(b) = i /\ LeafOf(b) = j
  BY <1>5, <1>6, <1>7, Zenon DEF CellOf, KidOf, LeafOf
<1>9. b \in Blocks
  BY <1>3, Sizes2 DEF Blocks
<1> QED BY <1>3, <1>4, <1>5, <1>8, <1>9 DEF s

(* The blocks of k cells in a row, of m L1 cells of a cell, and of an L1   *)
(* cell.                                                                   *)
LEMMA CellRun ==
  ASSUME NEW c \in Cells, NEW k \in Nat \ {0}, c + k <= CellCount
  PROVE  /\ c * CellBlocks .. c * CellBlocks + k * CellBlocks - 1 \subseteq Blocks
         /\ \A b \in Blocks : b \in c * CellBlocks .. c * CellBlocks + k * CellBlocks - 1
                                <=> CellOf(b) \in c .. c + k - 1
<1>1. c \in Nat
  BY Sizes2 DEF Cells
<1>2. CellBlocks * (c + k) = c * CellBlocks + k * CellBlocks /\ c * CellBlocks = CellBlocks * c
      /\ CellBlocks * c \in Nat /\ CellBlocks * (c + k) \in Nat
  BY <1>1, Sizes2
<1>3. CellBlocks * (c + k) <= CellCount * CellBlocks
  <2>1. CASE c + k = CellCount
    BY <1>2, <2>1, Sizes2
  <2>2. CASE c + k < CellCount
    <3>1. CellBlocks * (c + k) + CellBlocks <= CellBlocks * CellCount
      BY <1>1, <2>2, Sizes2, LessTimes
    <3>2. CellBlocks * CellCount = CellCount * CellBlocks
      BY Sizes2
    <3> QED BY <1>2, <3>1, <3>2, Sizes2
  <2> QED BY <1>1, <2>1, <2>2, Sizes2
<1>4. c * CellBlocks .. c * CellBlocks + k * CellBlocks - 1 \subseteq Blocks
  BY <1>2, <1>3, Sizes2 DEF Blocks
<1>5. ASSUME NEW b \in Blocks
      PROVE  b \in c * CellBlocks .. c * CellBlocks + k * CellBlocks - 1 <=> CellOf(b) \in c .. c + k - 1
  <2> DEFINE q == CellOf(b)
             s == b % CellBlocks
  <2>1. q \in Nat /\ s \in 0 .. CellBlocks - 1 /\ b = CellBlocks * q + s
    BY OfFacts, Sizes2 DEF Cells
  <2> HIDE DEF q, s
  <2>2. CellBlocks * q \in Nat
    BY <2>1, Sizes2
  <2>3. CASE q < c
    <3>1. CellBlocks * q + CellBlocks <= CellBlocks * c
      BY <1>1, <2>1, <2>3, Sizes2, LessTimes
    <3>2. b < c * CellBlocks
      BY <1>2, <2>1, <2>2, <3>1, Sizes2
    <3>3. q \notin c .. c + k - 1
      BY <1>1, <2>1, <2>3
    <3>4. k * CellBlocks \in Nat /\ c * CellBlocks \in Nat /\ b \in Int
      BY <1>2, Sizes2 DEF Blocks
    <3>5. b \notin c * CellBlocks .. c * CellBlocks + k * CellBlocks - 1
      BY <3>2, <3>4
    <3> QED BY <3>3, <3>5 DEF q
  <2>4. CASE c <= q /\ q < c + k
    <3>1. CellBlocks * c <= CellBlocks * q
      <4>1. CASE c = q
        BY <1>2, <4>1
      <4>2. CASE c < q
        <5>1. CellBlocks * c + CellBlocks <= CellBlocks * q
          BY <1>1, <2>1, <4>2, Sizes2, LessTimes
        <5> QED BY <1>2, <2>2, <5>1, Sizes2
      <4> QED BY <1>1, <2>1, <2>4, <4>1, <4>2
    <3>2. CellBlocks * q + CellBlocks <= CellBlocks * (c + k)
      BY <1>1, <2>1, <2>4, Sizes2, LessTimes
    <3>3. b \in c * CellBlocks .. c * CellBlocks + k * CellBlocks - 1
      BY <1>2, <2>1, <2>2, <3>1, <3>2, Sizes2
    <3>4. q \in c .. c + k - 1
      BY <1>1, <2>1, <2>4
    <3> QED BY <3>3, <3>4 DEF q
  <2>5. CASE c + k <= q
    <3>1. CellBlocks * (c + k) <= CellBlocks * q
      <4>1. CASE c + k = q
        BY <1>2, <4>1
      <4>2. CASE c + k < q
        <5>1. CellBlocks * (c + k) + CellBlocks <= CellBlocks * q
          BY <1>1, <2>1, <4>2, Sizes2, LessTimes
        <5> QED BY <1>2, <2>2, <5>1, Sizes2
      <4> QED BY <1>1, <2>1, <2>5, <4>1, <4>2
    <3>2. c * CellBlocks + k * CellBlocks <= b
      BY <1>2, <2>1, <2>2, <3>1, Sizes2
    <3>3. q \notin c .. c + k - 1
      BY <1>1, <2>1, <2>5
    <3>4. k * CellBlocks \in Nat /\ c * CellBlocks \in Nat /\ b \in Int
      BY <1>2, Sizes2 DEF Blocks
    <3>5. b \notin c * CellBlocks .. c * CellBlocks + k * CellBlocks - 1
      BY <3>2, <3>4
    <3> QED BY <3>3, <3>5 DEF q
  <2> QED BY <1>1, <2>1, <2>3, <2>4, <2>5
<1> QED BY <1>4, <1>5

LEMMA KidRun ==
  ASSUME NEW c \in Cells, NEW i \in Kids, NEW m \in Nat \ {0}, i + m <= Fanout
  PROVE  /\ Blk(c, i, 0) .. Blk(c, i, 0) + m * Fanout - 1 \subseteq Blocks
         /\ \A b \in Blocks : b \in Blk(c, i, 0) .. Blk(c, i, 0) + m * Fanout - 1
                                <=> CellOf(b) = c /\ KidOf(b) \in i .. i + m - 1
<1> DEFINE lo == Fanout * i
           hi == Fanout * (i + m)
<1>1. c \in Nat /\ i \in Nat /\ i < Fanout
  BY Sizes2 DEF Cells, Kids
<1>2. hi = Fanout * i + m * Fanout /\ m * Fanout \in Nat /\ lo \in Nat /\ hi \in Nat
  BY <1>1, Sizes2
<1>3. hi <= CellBlocks
  <2>1. CASE i + m = Fanout
    BY <2>1, Sizes2
  <2>2. CASE i + m < Fanout
    <3>1. Fanout * (i + m) + Fanout <= Fanout * Fanout
      BY <1>1, <2>2, Sizes2, LessTimes
    <3> QED BY <1>2, <3>1, Sizes2
  <2> QED BY <1>1, <2>1, <2>2, Sizes2
<1>4. lo \in 0 .. CellBlocks /\ hi \in 0 .. CellBlocks
  BY <1>2, <1>3, Sizes2
<1>5. Blk(c, i, 0) = CellBlocks * c + lo /\ Blk(c, i, 0) + m * Fanout - 1 = CellBlocks * c + hi - 1
      /\ CellBlocks * c \in Nat
  <2>1. c * CellBlocks = CellBlocks * c /\ i * Fanout = Fanout * i /\ CellBlocks * c \in Nat
    BY <1>1, Sizes2
  <2> HIDE DEF hi
  <2> QED BY <1>1, <1>2, <2>1, Sizes2 DEF Blk
<1> HIDE DEF lo, hi
<1>6. CellBlocks * c + CellBlocks <= CellCount * CellBlocks
  <2>1. CellBlocks * c + CellBlocks <= CellBlocks * CellCount
    BY <1>1, Sizes2, LessTimes DEF Cells
  <2> QED BY <2>1, Sizes2
<1>7. Blk(c, i, 0) .. Blk(c, i, 0) + m * Fanout - 1 \subseteq Blocks
  BY <1>4, <1>5, <1>6, Sizes2 DEF Blocks
<1>8. ASSUME NEW b \in Blocks
      PROVE  b \in Blk(c, i, 0) .. Blk(c, i, 0) + m * Fanout - 1 <=> CellOf(b) = c /\ KidOf(b) \in i .. i + m - 1
  <2> DEFINE q == CellOf(b)
             s == b % CellBlocks
             k == KidOf(b)
             j == LeafOf(b)
  <2>1. q \in Nat /\ s \in 0 .. CellBlocks - 1 /\ b = CellBlocks * q + s
    BY OfFacts, Sizes2 DEF Cells
  <2>2. k \in 0 .. Fanout - 1 /\ j \in 0 .. Fanout - 1 /\ s = Fanout * k + j
    BY OfFacts DEF Kids
  <2>3. b \in CellBlocks * c + lo .. CellBlocks * c + hi - 1 <=> q = c /\ s \in lo .. hi - 1
    <3> HIDE DEF q, s
    <3> QED BY <1>1, <1>4, <2>1, Sizes2, Within
  <2> HIDE DEF q, s, k, j
  <2>4. Fanout * k \in Nat
    BY <2>2, Sizes2
  <2>5. s \in lo .. hi - 1 <=> k \in i .. i + m - 1
    <3>1. CASE k < i
      <4>1. Fanout * k + Fanout <= lo
        BY <1>1, <2>2, <3>1, Sizes2, LessTimes DEF lo
      <4>2. s < lo
        BY <1>2, <2>2, <2>4, <4>1, Sizes2
      <4>3. k \notin i .. i + m - 1
        BY <1>1, <2>2, <3>1
      <4> QED BY <1>2, <2>1, <4>2, <4>3
    <3>2. CASE i <= k /\ k < i + m
      <4>1. Fanout * i <= Fanout * k
        <5>1. CASE i < k
          <6>1. Fanout * i + Fanout <= Fanout * k
            BY <1>1, <2>2, <5>1, Sizes2, LessTimes
          <6> QED BY <1>2, <2>4, <6>1, Sizes2 DEF lo
        <5>2. CASE i = k
          BY <2>4, <5>2
        <5> QED BY <1>1, <2>2, <3>2, <5>1, <5>2
      <4>2. Fanout * k + Fanout <= hi
        BY <1>1, <2>2, <3>2, Sizes2, LessTimes DEF hi
      <4>3. lo <= s
        BY <1>2, <2>2, <2>4, <4>1 DEF lo
      <4>4. s < hi
        BY <1>2, <2>2, <2>4, <4>2, Sizes2
      <4>5. k \in i .. i + m - 1
        BY <1>1, <2>2, <3>2
      <4> QED BY <1>2, <2>1, <4>3, <4>4, <4>5
    <3>3. CASE i + m <= k
      <4>1. Fanout * (i + m) <= Fanout * k
        <5>1. CASE i + m < k
          <6>1. Fanout * (i + m) + Fanout <= Fanout * k
            BY <1>1, <2>2, <5>1, Sizes2, LessTimes
          <6> QED BY <1>2, <2>4, <6>1, Sizes2 DEF hi
        <5>2. CASE i + m = k
          BY <2>4, <5>2
        <5> QED BY <1>1, <2>2, <3>3, <5>1, <5>2
      <4> QED BY <1>1, <1>2, <2>2, <2>4, <3>3, <4>1 DEF hi
    <3> QED BY <1>1, <2>2, <3>1, <3>2, <3>3
  <2> QED BY <1>5, <2>3, <2>5 DEF q, k
<1> QED BY <1>7, <1>8

LEMMA LeafRun ==
  ASSUME NEW c \in Cells, NEW i \in Kids, NEW j \in Kids, NEW n \in Nat \ {0}, j + n <= Fanout
  PROVE  /\ Blk(c, i, j) .. Blk(c, i, j) + n - 1 \subseteq Blocks
         /\ \A b \in Blocks : b \in Blk(c, i, j) .. Blk(c, i, j) + n - 1
                                <=> CellOf(b) = c /\ KidOf(b) = i /\ LeafOf(b) \in j .. j + n - 1
<1> DEFINE p == Fanout * c + i
<1>1. c \in Nat /\ i \in 0 .. Fanout - 1 /\ j \in 0 .. Fanout - 1 /\ 0 \in Kids
  BY Sizes2 DEF Cells, Kids
<1>2. p \in Nat /\ Fanout * p \in Nat /\ Fanout * c \in Nat
  BY <1>1, Sizes2
<1>3. Blk(c, i, j) = Fanout * p + j /\ Blk(c, i, 0) = Fanout * p
  <2>1. Fanout * (Fanout * c + i) = (Fanout * Fanout) * c + Fanout * i
    BY <1>1, Sizes2
  <2>2. (Fanout * Fanout) * c = c * CellBlocks /\ i * Fanout = Fanout * i /\ c * CellBlocks \in Nat /\ Fanout * i \in Nat
    BY <1>1, Sizes2
  <2> QED BY <1>1, <2>1, <2>2 DEF Blk
<1> HIDE DEF p
<1>4. Blk(c, i, 0) .. Blk(c, i, 0) + Fanout - 1 \subseteq Blocks
  <2>1. i + 1 <= Fanout /\ 1 * Fanout = Fanout
    BY <1>1, Sizes2
  <2> QED BY <2>1, KidRun
<1>5. Blk(c, i, j) .. Blk(c, i, j) + n - 1 \subseteq Blk(c, i, 0) .. Blk(c, i, 0) + Fanout - 1
  BY <1>1, <1>2, <1>3, Sizes2
<1>6. ASSUME NEW b \in Blocks
      PROVE  b \in Blk(c, i, j) .. Blk(c, i, j) + n - 1
               <=> CellOf(b) = c /\ KidOf(b) = i /\ LeafOf(b) \in j .. j + n - 1
  <2> DEFINE g == Fanout * CellOf(b) + KidOf(b)
             l == LeafOf(b)
  <2>1. CellOf(b) \in Nat /\ KidOf(b) \in 0 .. Fanout - 1 /\ l \in 0 .. Fanout - 1 /\ b = Fanout * g + l
    BY OfFacts, Sizes2 DEF Cells, Kids
  <2>2. g \in Nat
    BY <2>1, Sizes2
  <2>3. g = p <=> CellOf(b) = c /\ KidOf(b) = i
    <3>1. i + 1 \in 0 .. Fanout /\ i \in 0 .. Fanout
      BY <1>1, Sizes2
    <3>2. g \in Fanout * c + i .. Fanout * c + (i + 1) - 1 <=> CellOf(b) = c /\ KidOf(b) \in i .. (i + 1) - 1
      BY <1>1, <2>1, <3>1, Sizes2, Within
    <3>3. g \in p .. p <=> g = p
      BY <1>2, <2>2
    <3>4. Fanout * c + (i + 1) - 1 = p /\ Fanout * c + i = p
      BY <1>1, <1>2 DEF p
    <3>5. KidOf(b) \in i .. (i + 1) - 1 <=> KidOf(b) = i
      BY <1>1, <2>1
    <3> QED BY <3>2, <3>3, <3>4, <3>5
  <2> HIDE DEF g, l
  <2>4. j \in 0 .. Fanout /\ j + n \in 0 .. Fanout
    BY <1>1, Sizes2
  <2>5. Fanout * g + l \in Fanout * p + j .. Fanout * p + (j + n) - 1 <=> g = p /\ l \in j .. (j + n) - 1
    BY <1>2, <2>1, <2>2, <2>4, Sizes2, Within
  <2>6. Fanout * p + (j + n) - 1 = Blk(c, i, j) + n - 1 /\ (j + n) - 1 = j + n - 1
    BY <1>1, <1>2, <1>3
  <2> QED BY <1>3, <2>1, <2>3, <2>5, <2>6 DEF l
<1> QED BY <1>4, <1>5, <1>6

-----------------------------------------------------------------------------
(* Groups *)

Rec == [st : [Kids -> {"free", "full", "refined"}], ref : [Kids -> Refs]]
RecMaps == UNION {[D -> Rec] : D \in SUBSET Refs}
SlotPlaces == Blocks \X (0 .. Slots - 1)
SlotMaps == UNION {[D -> {"zero", "inode"}] : D \in SUBSET SlotPlaces}

Group ==
  [rt : [Cells -> States], ref : [Cells -> Refs], recs : RecMaps, slots : SlotMaps,
   arena : Blocks, inoHint : Blocks, free : Int, rsvd : Int, full : Int,
   tblHint : Blocks, cellHint : Cells]

LEMMA BlocksType ==
  /\ Blocks \subseteq Nat /\ Cells \subseteq Nat /\ Kids \subseteq Nat
  /\ 0 \in Blocks /\ 0 \in Cells /\ 0 \in Kids /\ 1 \in Kids
  /\ RecordsPerBlock \in Nat \ {0} /\ 0 \in 0 .. RecordsPerBlock - 1
  /\ Slots \in Nat \ {0} /\ 0 .. Slots - 1 \subseteq Kids /\ 0 \in 0 .. Slots - 1
  /\ \A c \in Cells : c * CellBlocks \in Blocks /\ CellOf(c * CellBlocks) = c
<1>1. Blocks \subseteq Nat /\ Cells \subseteq Nat /\ Kids \subseteq Nat
  BY DEF Blocks, Cells, Kids
<1>2. 0 \in Cells /\ 0 \in Kids /\ 1 \in Kids
  BY Sizes2 DEF Cells, Kids
<1>3. ASSUME NEW c \in Cells PROVE c * CellBlocks \in Blocks /\ CellOf(c * CellBlocks) = c
  <2>1. Blk(c, 0, 0) = c * CellBlocks
    BY <1>1, Sizes2 DEF Blk
  <2> QED BY <1>2, <2>1, BlkFacts
<1>4. 0 \in Blocks
  <2>1. 0 * CellBlocks = 0
    BY Sizes2
  <2> QED BY <1>2, <1>3, <2>1
<1>5. RecordsPerBlock \in Nat \ {0}
  <2>1. RecordsPerBlock \in Nat /\ RecordsPerBlock * CellBlocks >= 3
    BY RecordAssumption
  <2>2. RecordsPerBlock # 0
    BY <2>1, Sizes2
  <2> QED BY <2>1, <2>2
<1>6. Slots \in Nat \ {0} /\ Slots <= Fanout
  BY SlotsAssumption, Sizes2
<1>7. 0 .. Slots - 1 \subseteq Kids
  BY <1>6, Sizes2 DEF Kids
<1> QED BY <1>1, <1>2, <1>3, <1>4, <1>5, <1>6, <1>7

LEMMA NoRefType == NoRef \in Refs
BY BlocksType DEF NoRef, Refs

LEMMA GroupFacts ==
  ASSUME NEW g \in Group
  PROVE  /\ g.rt \in [Cells -> States] /\ g.ref \in [Cells -> Refs]
         /\ g.recs \in RecMaps /\ DOMAIN g.recs \subseteq Refs
         /\ \A r \in DOMAIN g.recs : g.recs[r] \in Rec
         /\ g.slots \in SlotMaps /\ DOMAIN g.slots \subseteq SlotPlaces
         /\ g.arena \in Blocks /\ g.inoHint \in Blocks /\ g.tblHint \in Blocks /\ g.cellHint \in Cells
         /\ g.free \in Int /\ g.rsvd \in Int /\ g.full \in Int
<1>1. /\ g.rt \in [Cells -> States] /\ g.ref \in [Cells -> Refs]
      /\ g.recs \in RecMaps /\ g.slots \in SlotMaps
      /\ g.arena \in Blocks /\ g.inoHint \in Blocks /\ g.tblHint \in Blocks /\ g.cellHint \in Cells
      /\ g.free \in Int /\ g.rsvd \in Int /\ g.full \in Int
  BY DEF Group
<1>2. DOMAIN g.recs \subseteq Refs /\ \A r \in DOMAIN g.recs : g.recs[r] \in Rec
  BY <1>1 DEF RecMaps
<1>3. DOMAIN g.slots \subseteq SlotPlaces
  BY <1>1 DEF SlotMaps
<1> QED BY <1>1, <1>2, <1>3

LEMMA RecFacts ==
  ASSUME NEW rec \in Rec
  PROVE  /\ rec.st \in [Kids -> {"free", "full", "refined"}] /\ rec.ref \in [Kids -> Refs]
         /\ rec = [st |-> rec.st, ref |-> rec.ref]
         /\ \A i \in Kids : rec.st[i] \in {"free", "full", "refined"} /\ rec.ref[i] \in Refs
BY DEF Rec

LEMMA ZeroFacts ==
  /\ ZeroRecord \in Rec /\ AllFree(ZeroRecord)
  /\ \A i \in Kids : ZeroRecord.st[i] = "free" /\ ZeroRecord.ref[i] = NoRef
BY NoRefType DEF ZeroRecord, AllFree, Rec

LEMMA SetKidsFacts ==
  ASSUME NEW rec \in Rec, NEW S, NEW st \in {"free", "full"}
  PROVE  /\ SetKids(rec, S, st) \in Rec /\ SetKids(rec, S, st).ref = rec.ref
         /\ \A i \in Kids : SetKids(rec, S, st).st[i] = IF i \in S THEN st ELSE rec.st[i]
BY DEF SetKids, Rec

WithRecs(g, recs) == [g EXCEPT !.recs = recs]

LEMMA WithRecsFacts ==
  ASSUME NEW g \in Group, NEW recs \in RecMaps
  PROVE  /\ WithRecs(g, recs) \in Group /\ WithRecs(g, recs).recs = recs
         /\ WithRecs(g, recs).rt = g.rt /\ WithRecs(g, recs).ref = g.ref
         /\ WithRecs(g, recs).slots = g.slots /\ WithRecs(g, recs).arena = g.arena
         /\ WithRecs(g, recs).inoHint = g.inoHint /\ WithRecs(g, recs).tblHint = g.tblHint
         /\ WithRecs(g, recs).cellHint = g.cellHint /\ WithRecs(g, recs).free = g.free
         /\ WithRecs(g, recs).rsvd = g.rsvd /\ WithRecs(g, recs).full = g.full
BY DEF WithRecs, Group

(* h is g but for its records. *)
OnlyRecs(g, h) ==
  /\ h.rt = g.rt /\ h.ref = g.ref /\ h.slots = g.slots /\ h.arena = g.arena
  /\ h.inoHint = g.inoHint /\ h.tblHint = g.tblHint /\ h.cellHint = g.cellHint
  /\ h.free = g.free /\ h.rsvd = g.rsvd /\ h.full = g.full

LEMMA PutFacts ==
  ASSUME NEW g \in Group, NEW r \in Refs, NEW rec \in Rec
  PROVE  /\ PutRecord(g, r, rec) \in Group /\ OnlyRecs(g, PutRecord(g, r, rec))
         /\ DOMAIN PutRecord(g, r, rec).recs = DOMAIN g.recs \cup {r}
         /\ PutRecord(g, r, rec).recs[r] = rec
         /\ \A x \in DOMAIN g.recs \ {r} : PutRecord(g, r, rec).recs[x] = g.recs[x]
<1> DEFINE recs == [x \in DOMAIN g.recs \cup {r} |-> IF x = r THEN rec ELSE g.recs[x]]
<1>1. DOMAIN g.recs \subseteq Refs /\ \A x \in DOMAIN g.recs : g.recs[x] \in Rec
  BY GroupFacts
<1>2. recs \in RecMaps
  <2>1. DOMAIN g.recs \cup {r} \in SUBSET Refs
    BY <1>1
  <2>2. recs \in [DOMAIN g.recs \cup {r} -> Rec]
    BY <1>1
  <2> QED BY <2>1, <2>2 DEF RecMaps
<1>3. PutRecord(g, r, rec) = WithRecs(g, recs)
  BY DEF PutRecord, WithRecs, Group
<1>4. DOMAIN recs = DOMAIN g.recs \cup {r} /\ recs[r] = rec /\ \A x \in DOMAIN g.recs \ {r} : recs[x] = g.recs[x]
  OBVIOUS
<1> HIDE DEF recs
<1> QED BY <1>2, <1>3, <1>4, WithRecsFacts DEF OnlyRecs

LEMMA DropFacts ==
  ASSUME NEW g \in Group, NEW r
  PROVE  /\ DropRecord(g, r) \in Group /\ OnlyRecs(g, DropRecord(g, r))
         /\ DOMAIN DropRecord(g, r).recs = DOMAIN g.recs \ {r}
         /\ \A x \in DOMAIN g.recs \ {r} : DropRecord(g, r).recs[x] = g.recs[x]
<1> DEFINE recs == [x \in DOMAIN g.recs \ {r} |-> g.recs[x]]
<1>1. DOMAIN g.recs \subseteq Refs /\ \A x \in DOMAIN g.recs : g.recs[x] \in Rec
  BY GroupFacts
<1>2. recs \in RecMaps
  <2>1. DOMAIN g.recs \ {r} \in SUBSET Refs
    BY <1>1
  <2>2. recs \in [DOMAIN g.recs \ {r} -> Rec]
    BY <1>1
  <2> QED BY <2>1, <2>2 DEF RecMaps
<1>3. DropRecord(g, r) = WithRecs(g, recs)
  BY DEF DropRecord, WithRecs, Group
<1>4. DOMAIN recs = DOMAIN g.recs \ {r} /\ \A x \in DOMAIN g.recs \ {r} : recs[x] = g.recs[x]
  OBVIOUS
<1> HIDE DEF recs
<1> QED BY <1>2, <1>3, <1>4, WithRecsFacts DEF OnlyRecs

-----------------------------------------------------------------------------
(* The tree *)

(* Where a record is: its level and what it refines, a cell (level 0), an  *)
(* L1 cell (1) or a block (2).                                             *)
Places == (0 .. 2) \X Cells \X Kids \X Kids
Below(p, i) == IF p[1] = 0 THEN <<1, p[2], i, 0>> ELSE <<2, p[2], p[3], i>>

(* Whether a record at place p may have refined children. *)
Inner(p) == p[1] # 2

Downward(g, home) ==
  /\ \A c \in Cells : g.rt[c] = "refined" =>
       g.ref[c] \in DOMAIN g.recs /\ home[g.ref[c]] = <<0, c, 0, 0>>
  /\ \A r \in DOMAIN g.recs : \A i \in Kids : g.recs[r].st[i] = "refined" =>
       /\ Inner(home[r])
       /\ g.recs[r].ref[i] \in DOMAIN g.recs
       /\ home[g.recs[r].ref[i]] = Below(home[r], i)

(* Record p refers to record r from child i. *)
Refers(g, p, i, r) == g.recs[p].st[i] = "refined" /\ g.recs[p].ref[i] = r

Upward(g, home) ==
  /\ \A r \in DOMAIN g.recs : home[r][1] = 0 =>
       g.rt[home[r][2]] = "refined" /\ g.ref[home[r][2]] = r
  /\ \A r \in DOMAIN g.recs : home[r][1] # 0 =>
       \E p \in DOMAIN g.recs : \E i \in Kids : Refers(g, p, i, r)

InTables(g) == \A r \in DOMAIN g.recs : g.rt[CellOf(r[1])] = "rsvd"
SlotBlocksPadded(g, home) ==
  \A r \in DOMAIN g.recs : ~Inner(home[r]) =>
    \A s \in Kids : s >= Slots => g.recs[r].st[s] = "free"
ArenaSound(g) ==
  /\ g.rt[0] = "rsvd"
  /\ \A b \in Arena(g) : b \in Blocks /\ g.rt[CellOf(b)] = "rsvd"

TreeBy(g, home) ==
  /\ home \in [DOMAIN g.recs -> Places]
  /\ Downward(g, home) /\ Upward(g, home)
  /\ InTables(g) /\ SlotBlocksPadded(g, home) /\ ArenaSound(g)

Tree(g) == \E home : TreeBy(g, home)

(* What is on the way to block b. *)
Is0(g, b) == g.rt[CellOf(b)] = "refined"
R0(g, b) == g.ref[CellOf(b)]
Is1(g, b) == Is0(g, b) /\ g.recs[R0(g, b)].st[KidOf(b)] = "refined"
R1(g, b) == g.recs[R0(g, b)].ref[KidOf(b)]
Is2(g, b) == Is1(g, b) /\ g.recs[R1(g, b)].st[LeafOf(b)] = "refined"
R2(g, b) == g.recs[R1(g, b)].ref[LeafOf(b)]

UnitOf(g, b) == IF ~Is0(g, b) THEN CellBlocks ELSE IF ~Is1(g, b) THEN Fanout ELSE 1
SlotsOf(g, b) == g.recs[R2(g, b)].st

LEMMA Unfolded ==
  ASSUME NEW g, NEW b
  PROVE  /\ SlotRefined(g, b) <=> Is2(g, b)
         /\ L1Ref(g, b) = R1(g, b) /\ SlotRef(g, b) = R2(g, b)
         /\ ~Is0(g, b) => StateOf(g, b) = g.rt[CellOf(b)]
         /\ Is0(g, b) /\ ~Is1(g, b) => StateOf(g, b) = g.recs[R0(g, b)].st[KidOf(b)]
         /\ Is1(g, b) => StateOf(g, b) = g.recs[R1(g, b)].st[LeafOf(b)]
<1>1. L1Ref(g, b) = R1(g, b)
  BY DEF L1Ref, R1, R0, CellOf, KidOf
<1>2. SlotRef(g, b) = R2(g, b)
  BY <1>1 DEF SlotRef, R2, LeafOf
<1>3. SlotRefined(g, b) <=> Is2(g, b)
  BY DEF SlotRefined, Is2, Is1, Is0, R1, R0, CellOf, KidOf, LeafOf
<1>4. StateOf(g, b) = IF ~Is0(g, b) THEN g.rt[CellOf(b)]
                      ELSE IF ~Is1(g, b) THEN g.recs[R0(g, b)].st[KidOf(b)]
                      ELSE g.recs[R1(g, b)].st[LeafOf(b)]
  BY DEF StateOf, Is1, Is0, R1, R0, CellOf, KidOf, LeafOf
<1>5. Is1(g, b) => Is0(g, b)
  BY DEF Is1
<1> QED BY <1>1, <1>2, <1>3, <1>4, <1>5, Zenon

LEMMA HomeFacts ==
  ASSUME NEW g, NEW home, TreeBy(g, home), NEW r \in DOMAIN g.recs
  PROVE  /\ home[r] \in Places /\ home[r][1] \in 0 .. 2
         /\ home[r][2] \in Cells /\ home[r][3] \in Kids /\ home[r][4] \in Kids
         /\ home[r] = <<home[r][1], home[r][2], home[r][3], home[r][4]>>
<1>1. home[r] \in Places
  BY DEF TreeBy
<1> QED BY <1>1 DEF Places

LEMMA Down ==
  ASSUME NEW g, NEW home, TreeBy(g, home), NEW b \in Blocks
  PROVE  /\ Is0(g, b) => R0(g, b) \in DOMAIN g.recs /\ home[R0(g, b)] = <<0, CellOf(b), 0, 0>>
         /\ Is1(g, b) => R1(g, b) \in DOMAIN g.recs /\ home[R1(g, b)] = <<1, CellOf(b), KidOf(b), 0>>
         /\ Is2(g, b) => R2(g, b) \in DOMAIN g.recs /\ home[R2(g, b)] = <<2, CellOf(b), KidOf(b), LeafOf(b)>>
<1>1. CellOf(b) \in Cells /\ KidOf(b) \in Kids /\ LeafOf(b) \in Kids
  BY OfFacts
<1>2. Is0(g, b) => R0(g, b) \in DOMAIN g.recs /\ home[R0(g, b)] = <<0, CellOf(b), 0, 0>>
  BY <1>1, Zenon DEF TreeBy, Downward, Is0, R0
<1>3. \A r \in DOMAIN g.recs : \A i \in Kids : g.recs[r].st[i] = "refined" =>
       g.recs[r].ref[i] \in DOMAIN g.recs /\ home[g.recs[r].ref[i]] = Below(home[r], i)
  BY Zenon DEF TreeBy, Downward
<1>4. Is1(g, b) => R1(g, b) \in DOMAIN g.recs /\ home[R1(g, b)] = Below(home[R0(g, b)], KidOf(b))
  BY <1>1, <1>2, <1>3, Zenon DEF Is1, R1
<1>5. Is1(g, b) => home[R1(g, b)] = <<1, CellOf(b), KidOf(b), 0>>
  BY <1>2, <1>4 DEF Is1, Below
<1>6. Is2(g, b) => R2(g, b) \in DOMAIN g.recs /\ home[R2(g, b)] = Below(home[R1(g, b)], LeafOf(b))
  BY <1>1, <1>3, <1>4, Zenon DEF Is2, R2
<1>7. Is2(g, b) => home[R2(g, b)] = <<2, CellOf(b), KidOf(b), LeafOf(b)>>
  BY <1>5, <1>6 DEF Is2, Below
<1> QED BY <1>2, <1>4, <1>5, <1>6, <1>7

(* A record is on the way to every block of its place. *)
LEMMA Up ==
  ASSUME NEW g, NEW home, TreeBy(g, home), NEW r \in DOMAIN g.recs, NEW b \in Blocks, CellOf(b) = home[r][2]
  PROVE  /\ home[r][1] = 0 => Is0(g, b) /\ R0(g, b) = r
         /\ home[r][1] = 1 /\ KidOf(b) = home[r][3] => Is1(g, b) /\ R1(g, b) = r
         /\ home[r][1] = 2 /\ KidOf(b) = home[r][3] /\ LeafOf(b) = home[r][4] => Is2(g, b) /\ R2(g, b) = r
<1>1. \A x \in DOMAIN g.recs : home[x][1] = 0 /\ home[x][2] = CellOf(b) => Is0(g, b) /\ R0(g, b) = x
  BY Zenon DEF TreeBy, Upward, Is0, R0
<1>2. \A x \in DOMAIN g.recs : home[x][1] # 0 =>
         \E p \in DOMAIN g.recs : \E i \in Kids : Refers(g, p, i, x)
  BY Zenon DEF TreeBy, Upward
<1>3. \A p \in DOMAIN g.recs : \A i \in Kids : \A x : Refers(g, p, i, x) =>
         Inner(home[p]) /\ home[x] = Below(home[p], i)
  BY Zenon DEF TreeBy, Downward, Refers
<1>4. ASSUME NEW x \in DOMAIN g.recs, home[x][1] = 1, home[x][2] = CellOf(b), home[x][3] = KidOf(b)
      PROVE  Is1(g, b) /\ R1(g, b) = x
  <2>1. PICK p \in DOMAIN g.recs : \E i \in Kids : Refers(g, p, i, x)
    BY <1>2, <1>4
  <2>2. PICK i \in Kids : Refers(g, p, i, x)
    BY <2>1
  <2>3. home[x] = Below(home[p], i)
    BY <1>3, <2>2
  <2>4. home[p][1] = 0 /\ i = KidOf(b) /\ home[p][2] = CellOf(b)
    BY <1>4, <2>3, HomeFacts DEF Below
  <2>5. Is0(g, b) /\ R0(g, b) = p
    BY <1>1, <2>4
  <2> QED BY <2>2, <2>4, <2>5 DEF Is1, R1, Refers
<1>5. ASSUME home[r][1] = 2, KidOf(b) = home[r][3], LeafOf(b) = home[r][4]
      PROVE  Is2(g, b) /\ R2(g, b) = r
  <2>1. PICK p \in DOMAIN g.recs : \E i \in Kids : Refers(g, p, i, r)
    BY <1>2, <1>5
  <2>2. PICK i \in Kids : Refers(g, p, i, r)
    BY <2>1
  <2>3. home[r] = Below(home[p], i) /\ home[p][1] # 2
    BY <1>3, <2>2 DEF Inner
  <2>4. home[p][1] = 1 /\ i = LeafOf(b) /\ home[p][2] = CellOf(b) /\ home[p][3] = KidOf(b)
    BY <1>5, <2>3, HomeFacts DEF Below
  <2>5. Is1(g, b) /\ R1(g, b) = p
    BY <1>4, <2>4
  <2> QED BY <2>2, <2>4, <2>5 DEF Is2, R2, Refers
<1> QED BY <1>1, <1>4, <1>5

(* A record has a block in its place. *)
LEMMA HasBlock ==
  ASSUME NEW g, NEW home, TreeBy(g, home), NEW r \in DOMAIN g.recs
  PROVE  \E b \in Blocks : CellOf(b) = home[r][2] /\ KidOf(b) = home[r][3] /\ LeafOf(b) = home[r][4]
BY HomeFacts, BlkFacts

-----------------------------------------------------------------------------
(* What is told of a block *)

SameView(g, h, b) ==
  /\ StateOf(h, b) = StateOf(g, b) /\ UnitOf(h, b) = UnitOf(g, b)
  /\ Is2(h, b) <=> Is2(g, b)
  /\ Is2(g, b) => SlotsOf(h, b) = SlotsOf(g, b)

(* As far as callers can tell: how much of the tree a free block shares    *)
(* with others is not told.                                                *)
Alike(g, h, b) == SameView(g, h, b) \/ (StateOf(g, b) = "free" /\ StateOf(h, b) = "free")

LEMMA AlikeTwice ==
  ASSUME NEW g, NEW h, NEW k, NEW b, Alike(g, h, b), Alike(h, k, b)
  PROVE  Alike(g, k, b)
BY Zenon DEF Alike, SameView

(* The same way leads to b in g and h, to records with equal states. *)
SameWay(g, h, b) ==
  /\ h.rt[CellOf(b)] = g.rt[CellOf(b)]
  /\ Is0(g, b) => R0(h, b) = R0(g, b) /\ h.recs[R0(g, b)].st[KidOf(b)] = g.recs[R0(g, b)].st[KidOf(b)]
  /\ Is1(g, b) => R1(h, b) = R1(g, b) /\ h.recs[R1(g, b)].st[LeafOf(b)] = g.recs[R1(g, b)].st[LeafOf(b)]
  /\ Is2(g, b) => R2(h, b) = R2(g, b) /\ h.recs[R2(g, b)].st = g.recs[R2(g, b)].st

LEMMA SameWaySees ==
  ASSUME NEW g, NEW h, NEW b, SameWay(g, h, b)
  PROVE  SameView(g, h, b)
<1>1. Is0(h, b) <=> Is0(g, b)
  BY Zenon DEF SameWay, Is0
<1>2. Is1(h, b) <=> Is1(g, b)
  BY <1>1, Zenon DEF SameWay, Is1
<1>3. Is2(h, b) <=> Is2(g, b)
  BY <1>1, <1>2, Zenon DEF SameWay, Is2
<1>4. UnitOf(h, b) = UnitOf(g, b)
  BY <1>1, <1>2, Zenon DEF UnitOf
<1>5. StateOf(h, b) = StateOf(g, b)
  <2>1. CASE ~Is0(g, b)
    BY <1>1, <2>1, Unfolded, Zenon DEF SameWay
  <2>2. CASE Is0(g, b) /\ ~Is1(g, b)
    <3>1. StateOf(g, b) = g.recs[R0(g, b)].st[KidOf(b)] /\ StateOf(h, b) = h.recs[R0(h, b)].st[KidOf(b)]
      BY <1>1, <1>2, <2>2, Unfolded, Zenon
    <3> QED BY <2>2, <3>1, Zenon DEF SameWay
  <2>3. CASE Is1(g, b)
    <3>1. StateOf(g, b) = g.recs[R1(g, b)].st[LeafOf(b)] /\ StateOf(h, b) = h.recs[R1(h, b)].st[LeafOf(b)]
      BY <1>2, <2>3, Unfolded, Zenon
    <3> QED BY <2>3, <3>1, Zenon DEF SameWay
  <2> QED BY <2>1, <2>2, <2>3, Zenon
<1>6. Is2(g, b) => SlotsOf(h, b) = SlotsOf(g, b)
  BY Zenon DEF SameWay, SlotsOf
<1> QED BY <1>3, <1>4, <1>5, <1>6, Zenon DEF SameView

LEMMA StateTypes ==
  ASSUME NEW g \in Group, Tree(g), NEW b \in Blocks
  PROVE  /\ StateOf(g, b) \in States
         /\ StateOf(g, b) = "refined" <=> Is2(g, b)
         /\ StateOf(g, b) = "rsvd" <=> ~Is0(g, b) /\ g.rt[CellOf(b)] = "rsvd"
         /\ StateOf(g, b) = "rsvd" => UnitOf(g, b) = CellBlocks
         /\ UnitOf(g, b) \in {1, Fanout, CellBlocks}
         /\ Is0(g, b) => R0(g, b) \in DOMAIN g.recs
         /\ Is1(g, b) => R1(g, b) \in DOMAIN g.recs
         /\ Is2(g, b) => R2(g, b) \in DOMAIN g.recs /\ SlotsOf(g, b) \in [Kids -> {"free", "full"}]
<1> PICK home : TreeBy(g, home)
  BY Zenon DEF Tree
<1>1. CellOf(b) \in Cells /\ KidOf(b) \in Kids /\ LeafOf(b) \in Kids
  BY OfFacts
<1>2. /\ Is0(g, b) => R0(g, b) \in DOMAIN g.recs
      /\ Is1(g, b) => R1(g, b) \in DOMAIN g.recs
      /\ Is2(g, b) => R2(g, b) \in DOMAIN g.recs
  BY Down, Zenon
<1>3. g.rt[CellOf(b)] \in States /\ \A r \in DOMAIN g.recs : g.recs[r] \in Rec
  BY <1>1, GroupFacts
<1>4. Is0(g, b) => g.recs[R0(g, b)].st[KidOf(b)] \in {"free", "full", "refined"}
  BY <1>1, <1>2, <1>3, RecFacts
<1>5. Is1(g, b) => g.recs[R1(g, b)].st[LeafOf(b)] \in {"free", "full", "refined"}
  BY <1>1, <1>2, <1>3, RecFacts
<1>6. Is2(g, b) => SlotsOf(g, b) \in [Kids -> {"free", "full"}]
  <2> SUFFICES ASSUME Is2(g, b) PROVE SlotsOf(g, b) \in [Kids -> {"free", "full"}]
    OBVIOUS
  <2>1. home[R2(g, b)][1] = 2
    BY Down
  <2>2. \A i \in Kids : g.recs[R2(g, b)].st[i] # "refined"
    <3>1. \A i \in Kids : g.recs[R2(g, b)].st[i] = "refined" => Inner(home[R2(g, b)])
      BY <1>2, Zenon DEF TreeBy, Downward
    <3> QED BY <2>1, <3>1 DEF Inner
  <2>3. g.recs[R2(g, b)].st \in [Kids -> {"free", "full", "refined"}]
    BY <1>2, <1>3, RecFacts
  <2> QED BY <2>2, <2>3 DEF SlotsOf
<1>7. CASE ~Is0(g, b)
  <2>1. ~Is1(g, b) /\ ~Is2(g, b)
    BY <1>7 DEF Is1, Is2
  <2>2. StateOf(g, b) = g.rt[CellOf(b)] /\ g.rt[CellOf(b)] # "refined" /\ UnitOf(g, b) = CellBlocks
    BY <1>7, Unfolded DEF Is0, UnitOf
  <2> QED BY <1>2, <1>3, <1>6, <1>7, <2>1, <2>2
<1>8. CASE Is0(g, b) /\ ~Is1(g, b)
  <2>1. ~Is2(g, b) /\ UnitOf(g, b) = Fanout
    BY <1>8 DEF Is2, UnitOf
  <2>2. StateOf(g, b) = g.recs[R0(g, b)].st[KidOf(b)] /\ g.recs[R0(g, b)].st[KidOf(b)] # "refined"
    BY <1>8, Unfolded DEF Is1
  <2> QED BY <1>2, <1>4, <1>6, <1>8, <2>1, <2>2 DEF States
<1>9. CASE Is1(g, b)
  <2>1. Is0(g, b) /\ UnitOf(g, b) = 1
    BY <1>9 DEF Is1, UnitOf
  <2>2. StateOf(g, b) = g.recs[R1(g, b)].st[LeafOf(b)]
    BY <1>9, Unfolded
  <2>3. Is2(g, b) <=> g.recs[R1(g, b)].st[LeafOf(b)] = "refined"
    BY <1>9 DEF Is2
  <2> QED BY <1>2, <1>5, <1>6, <1>9, <2>1, <2>2, <2>3 DEF States
<1> QED BY <1>7, <1>8, <1>9

-----------------------------------------------------------------------------
(* Edits of the tree.  First: the states of one record change, but for     *)
(* what is refined.                                                        *)

Recoloured(g, h, r, rec) ==
  /\ h.rt = g.rt /\ h.ref = g.ref /\ h.arena = g.arena
  /\ DOMAIN h.recs = DOMAIN g.recs /\ h.recs[r] = rec
  /\ \A x \in DOMAIN g.recs \ {r} : h.recs[x] = g.recs[x]

SameRefined(old, rec) ==
  /\ rec.ref = old.ref
  /\ \A i \in Kids : rec.st[i] = "refined" <=> old.st[i] = "refined"

LEMMA RecolourTree ==
  ASSUME NEW g, NEW home, TreeBy(g, home), NEW r \in DOMAIN g.recs, NEW rec, NEW h,
         Recoloured(g, h, r, rec), SameRefined(g.recs[r], rec),
         ~Inner(home[r]) => \A s \in Kids : s >= Slots => rec.st[s] = "free"
  PROVE  TreeBy(h, home)
<1>1. /\ h.rt = g.rt /\ h.ref = g.ref /\ h.arena = g.arena /\ DOMAIN h.recs = DOMAIN g.recs
      /\ h.recs[r] = rec /\ \A x \in DOMAIN g.recs \ {r} : h.recs[x] = g.recs[x]
  BY DEF Recoloured
<1>2. \A x \in DOMAIN g.recs : \A i \in Kids :
        h.recs[x].ref = g.recs[x].ref /\ (h.recs[x].st[i] = "refined" <=> g.recs[x].st[i] = "refined")
  <2> TAKE x \in DOMAIN g.recs
  <2>1. CASE x = r
    BY <1>1, <2>1, Zenon DEF SameRefined
  <2>2. CASE x # r
    BY <1>1, <2>2
  <2> QED BY <2>1, <2>2
<1>3. Downward(h, home)
  <2>1. Downward(g, home)
    BY Zenon DEF TreeBy
  <2> QED BY <1>1, <1>2, <2>1 DEF Downward
<1>4. Upward(h, home)
  <2>1. \A p \in DOMAIN g.recs : \A i \in Kids : \A x : Refers(g, p, i, x) => Refers(h, p, i, x)
    BY <1>2, Zenon DEF Refers
  <2>2. \A x \in DOMAIN g.recs : home[x][1] # 0 => \E p \in DOMAIN g.recs : \E i \in Kids : Refers(g, p, i, x)
    BY Zenon DEF TreeBy, Upward
  <2>3. \A x \in DOMAIN g.recs : home[x][1] = 0 => g.rt[home[x][2]] = "refined" /\ g.ref[home[x][2]] = x
    BY Zenon DEF TreeBy, Upward
  <2> QED BY <1>1, <2>1, <2>2, <2>3, Zenon DEF Upward
<1>5. SlotBlocksPadded(h, home)
  <2> SUFFICES ASSUME NEW x \in DOMAIN g.recs, ~Inner(home[x]), NEW s \in Kids, s >= Slots
               PROVE  h.recs[x].st[s] = "free"
    BY <1>1 DEF SlotBlocksPadded
  <2>1. CASE x = r
    BY <1>1, <2>1
  <2>2. CASE x # r
    BY <1>1, <2>2, Zenon DEF TreeBy, SlotBlocksPadded
  <2> QED BY <2>1, <2>2
<1>6. InTables(h)
  BY <1>1, Zenon DEF TreeBy, InTables
<1>7. ArenaSound(h)
  BY <1>1, Zenon DEF TreeBy, ArenaSound, Arena
<1>8. home \in [DOMAIN h.recs -> Places]
  BY <1>1, Zenon DEF TreeBy
<1> QED BY <1>3, <1>4, <1>5, <1>6, <1>7, <1>8, Zenon DEF TreeBy

(* Record r is on no way to b, or has for the child on the way the same    *)
(* state as before.                                                        *)
LEMMA RecolourElsewhere ==
  ASSUME NEW g, NEW home, TreeBy(g, home), NEW r \in DOMAIN g.recs, NEW rec, NEW h,
         Recoloured(g, h, r, rec), SameRefined(g.recs[r], rec), NEW b \in Blocks,
         Is0(g, b) /\ R0(g, b) = r => rec.st[KidOf(b)] = g.recs[r].st[KidOf(b)],
         Is1(g, b) /\ R1(g, b) = r => rec.st[LeafOf(b)] = g.recs[r].st[LeafOf(b)],
         ~(Is2(g, b) /\ R2(g, b) = r)
  PROVE  SameView(g, h, b)
<1>1. /\ h.rt = g.rt /\ h.ref = g.ref /\ h.recs[r] = rec
      /\ \A x \in DOMAIN g.recs : x # r => h.recs[x] = g.recs[x]
  BY DEF Recoloured
<1>2. \A x \in DOMAIN g.recs : h.recs[x].ref = g.recs[x].ref
  BY <1>1, Zenon DEF SameRefined
<1>3. /\ Is0(g, b) => R0(g, b) \in DOMAIN g.recs
      /\ Is1(g, b) => R1(g, b) \in DOMAIN g.recs
      /\ Is2(g, b) => R2(g, b) \in DOMAIN g.recs
  BY Down, Zenon
<1>4. Is0(g, b) => R0(h, b) = R0(g, b) /\ h.recs[R0(g, b)].st[KidOf(b)] = g.recs[R0(g, b)].st[KidOf(b)]
  BY <1>1, <1>3, Zenon DEF R0
<1>5. Is1(g, b) => R1(h, b) = R1(g, b) /\ h.recs[R1(g, b)].st[LeafOf(b)] = g.recs[R1(g, b)].st[LeafOf(b)]
  <2>1. Is1(g, b) => R1(h, b) = R1(g, b)
    BY <1>2, <1>3, <1>4, Zenon DEF R1, Is1
  <2> QED BY <1>1, <1>3, <2>1, Zenon
<1>6. Is2(g, b) => R2(h, b) = R2(g, b) /\ h.recs[R2(g, b)].st = g.recs[R2(g, b)].st
  <2>1. Is2(g, b) => R2(h, b) = R2(g, b)
    BY <1>2, <1>3, <1>5, Zenon DEF R2, Is2
  <2> QED BY <1>1, <1>3, <2>1, Zenon
<1>7. SameWay(g, h, b)
  BY <1>1, <1>4, <1>5, <1>6, Zenon DEF SameWay
<1> QED BY <1>7, SameWaySees

(* An L1 cell, not refined, of a refined cell. *)
LEMMA RecolourKid ==
  ASSUME NEW g, NEW home, TreeBy(g, home), NEW r \in DOMAIN g.recs, home[r][1] = 0, NEW rec, NEW h,
         Recoloured(g, h, r, rec), SameRefined(g.recs[r], rec), NEW b \in Blocks
  PROVE  /\ CellOf(b) # home[r][2] \/ rec.st[KidOf(b)] = g.recs[r].st[KidOf(b)] => SameView(g, h, b)
         /\ CellOf(b) = home[r][2] /\ rec.st[KidOf(b)] # "refined" =>
              /\ StateOf(g, b) = g.recs[r].st[KidOf(b)] /\ UnitOf(g, b) = Fanout
              /\ StateOf(h, b) = rec.st[KidOf(b)] /\ UnitOf(h, b) = Fanout
<1>1. /\ Is0(g, b) => home[R0(g, b)] = <<0, CellOf(b), 0, 0>>
      /\ Is1(g, b) => home[R1(g, b)][1] = 1
      /\ Is2(g, b) => home[R2(g, b)][1] = 2
  BY Down
<1>2. /\ ~(Is1(g, b) /\ R1(g, b) = r) /\ ~(Is2(g, b) /\ R2(g, b) = r)
      /\ Is0(g, b) /\ R0(g, b) = r => CellOf(b) = home[r][2]
  BY <1>1
<1>3. ASSUME CellOf(b) # home[r][2] \/ rec.st[KidOf(b)] = g.recs[r].st[KidOf(b)]
      PROVE  SameView(g, h, b)
  BY <1>2, <1>3, RecolourElsewhere
<1>4. ASSUME CellOf(b) = home[r][2], rec.st[KidOf(b)] # "refined"
      PROVE  /\ StateOf(g, b) = g.recs[r].st[KidOf(b)] /\ UnitOf(g, b) = Fanout
             /\ StateOf(h, b) = rec.st[KidOf(b)] /\ UnitOf(h, b) = Fanout
  <2>1. Is0(g, b) /\ R0(g, b) = r
    BY <1>4, Up
  <2>2. Is0(h, b) /\ R0(h, b) = r /\ h.recs[r] = rec
    BY <2>1, Zenon DEF Recoloured, Is0, R0
  <2>3. KidOf(b) \in Kids
    BY OfFacts
  <2>4. ~Is1(g, b) /\ ~Is1(h, b)
    BY <1>4, <2>1, <2>2, <2>3, Zenon DEF Is1, SameRefined
  <2> QED BY <2>1, <2>2, <2>4, Unfolded, Zenon DEF UnitOf
<1> QED BY <1>3, <1>4

(* A block, not refined, of a refined L1 cell. *)
LEMMA RecolourLeaf ==
  ASSUME NEW g, NEW home, TreeBy(g, home), NEW r \in DOMAIN g.recs, home[r][1] = 1, NEW rec, NEW h,
         Recoloured(g, h, r, rec), SameRefined(g.recs[r], rec), NEW b \in Blocks
  PROVE  /\ CellOf(b) # home[r][2] \/ KidOf(b) # home[r][3] \/ rec.st[LeafOf(b)] = g.recs[r].st[LeafOf(b)]
              => SameView(g, h, b)
         /\ CellOf(b) = home[r][2] /\ KidOf(b) = home[r][3] /\ rec.st[LeafOf(b)] # "refined" =>
              /\ StateOf(g, b) = g.recs[r].st[LeafOf(b)] /\ UnitOf(g, b) = 1
              /\ StateOf(h, b) = rec.st[LeafOf(b)] /\ UnitOf(h, b) = 1
<1>1. /\ Is0(g, b) => home[R0(g, b)][1] = 0
      /\ Is1(g, b) => home[R1(g, b)] = <<1, CellOf(b), KidOf(b), 0>>
      /\ Is2(g, b) => home[R2(g, b)][1] = 2
  BY Down
<1>2. /\ ~(Is0(g, b) /\ R0(g, b) = r) /\ ~(Is2(g, b) /\ R2(g, b) = r)
      /\ Is1(g, b) /\ R1(g, b) = r => CellOf(b) = home[r][2] /\ KidOf(b) = home[r][3]
  BY <1>1
<1>3. ASSUME CellOf(b) # home[r][2] \/ KidOf(b) # home[r][3] \/ rec.st[LeafOf(b)] = g.recs[r].st[LeafOf(b)]
      PROVE  SameView(g, h, b)
  BY <1>2, <1>3, RecolourElsewhere
<1>4. ASSUME CellOf(b) = home[r][2], KidOf(b) = home[r][3], rec.st[LeafOf(b)] # "refined"
      PROVE  /\ StateOf(g, b) = g.recs[r].st[LeafOf(b)] /\ UnitOf(g, b) = 1
             /\ StateOf(h, b) = rec.st[LeafOf(b)] /\ UnitOf(h, b) = 1
  <2>1. Is1(g, b) /\ R1(g, b) = r
    BY <1>4, Up
  <2>2. Is0(g, b) /\ R0(g, b) \in DOMAIN g.recs /\ R0(g, b) # r
    BY <1>2, <2>1, Down, Zenon DEF Is1
  <2>3. h.recs[R0(g, b)] = g.recs[R0(g, b)] /\ h.recs[r] = rec /\ Is0(h, b) /\ R0(h, b) = R0(g, b)
    BY <2>2 DEF Recoloured, Is0, R0
  <2>4. Is1(h, b) /\ R1(h, b) = r
    BY <2>1, <2>3, Zenon DEF Is1, R1
  <2>5. UnitOf(g, b) = 1 /\ UnitOf(h, b) = 1
    BY <2>1, <2>2, <2>3, <2>4, Zenon DEF UnitOf
  <2> QED BY <2>1, <2>3, <2>4, <2>5, Unfolded, Zenon
<1> QED BY <1>3, <1>4

(* The slots of a slot block. *)
LEMMA RecolourSlots ==
  ASSUME NEW g, NEW home, TreeBy(g, home), NEW r \in DOMAIN g.recs, home[r][1] = 2, NEW rec, NEW h,
         Recoloured(g, h, r, rec), SameRefined(g.recs[r], rec), NEW b \in Blocks
  PROVE  /\ ~(Is2(g, b) /\ R2(g, b) = r) => SameView(g, h, b)
         /\ Is2(g, b) /\ R2(g, b) = r =>
              /\ StateOf(h, b) = StateOf(g, b) /\ UnitOf(h, b) = UnitOf(g, b) /\ Is2(h, b)
              /\ SlotsOf(h, b) = rec.st
<1>1. /\ Is0(g, b) => home[R0(g, b)][1] = 0 /\ R0(g, b) \in DOMAIN g.recs
      /\ Is1(g, b) => home[R1(g, b)][1] = 1 /\ R1(g, b) \in DOMAIN g.recs
  BY Down
<1>2. /\ ~(Is0(g, b) /\ R0(g, b) = r) /\ ~(Is1(g, b) /\ R1(g, b) = r)
  BY <1>1
<1>3. ASSUME ~(Is2(g, b) /\ R2(g, b) = r) PROVE SameView(g, h, b)
  BY <1>2, <1>3, RecolourElsewhere
<1>4. ASSUME Is2(g, b), R2(g, b) = r
      PROVE  /\ StateOf(h, b) = StateOf(g, b) /\ UnitOf(h, b) = UnitOf(g, b) /\ Is2(h, b)
             /\ SlotsOf(h, b) = rec.st
  <2>1. Is1(g, b) /\ Is0(g, b)
    BY <1>4 DEF Is2, Is1
  <2>2. h.recs[R0(g, b)] = g.recs[R0(g, b)] /\ h.recs[R1(g, b)] = g.recs[R1(g, b)] /\ h.recs[r] = rec
    BY <1>1, <1>2, <2>1 DEF Recoloured
  <2>3. Is0(h, b) /\ R0(h, b) = R0(g, b)
    BY <2>1, Zenon DEF Recoloured, Is0, R0
  <2>4. Is1(h, b) /\ R1(h, b) = R1(g, b)
    BY <2>1, <2>2, <2>3, Zenon DEF Is1, R1
  <2>5. Is2(h, b) /\ R2(h, b) = R2(g, b)
    BY <1>4, <2>2, <2>4, Zenon DEF Is2, R2
  <2>6. UnitOf(h, b) = UnitOf(g, b)
    BY <2>1, <2>3, <2>4, Zenon DEF UnitOf
  <2>7. StateOf(h, b) = StateOf(g, b)
    BY <2>1, <2>2, <2>4, Unfolded, Zenon
  <2> QED BY <1>4, <2>2, <2>5, <2>6, <2>7, Zenon DEF SlotsOf
<1> QED BY <1>3, <1>4

(* Whole cells that are not refined change their state; the arena moves    *)
(* at most to one of them that is now reserved.                            *)
Marked(g, h, S, st) ==
  /\ st \in {"free", "full", "rsvd"} /\ S \subseteq Cells
  /\ \A c \in S : g.rt[c] \in {"free", "full"}
  /\ \A c \in Cells : h.rt[c] = IF c \in S THEN st ELSE g.rt[c]
  /\ h.ref = g.ref /\ h.recs = g.recs
  /\ \/ h.arena = g.arena
     \/ st = "rsvd" /\ \E c \in S : h.arena = c * CellBlocks

LEMMA MarkTree ==
  ASSUME NEW g \in Group, Tree(g), NEW h, NEW S, NEW st, Marked(g, h, S, st)
  PROVE  /\ Tree(h)
         /\ \A b \in Blocks : CellOf(b) \notin S => SameView(g, h, b)
         /\ \A b \in Blocks : CellOf(b) \in S =>
              /\ StateOf(g, b) = g.rt[CellOf(b)] /\ UnitOf(g, b) = CellBlocks
              /\ StateOf(h, b) = st /\ UnitOf(h, b) = CellBlocks
<1> PICK home : TreeBy(g, home)
  BY Zenon DEF Tree
<1>1. /\ h.ref = g.ref /\ h.recs = g.recs /\ st # "refined"
      /\ \A c \in Cells : h.rt[c] = IF c \in S THEN st ELSE g.rt[c]
      /\ \A c \in S : c \in Cells /\ g.rt[c] \in {"free", "full"}
  BY DEF Marked
<1>2. \A c \in Cells : h.rt[c] = "refined" <=> g.rt[c] = "refined"
  BY <1>1
<1>3. \A c \in Cells : g.rt[c] = "rsvd" => h.rt[c] = "rsvd"
  BY <1>1
<1>4. Downward(h, home)
  <2>1. Downward(g, home)
    BY Zenon DEF TreeBy
  <2> QED BY <1>1, <1>2, <2>1 DEF Downward
<1>5. Upward(h, home)
  <2>1. \A x \in DOMAIN g.recs : home[x][2] \in Cells
    BY HomeFacts
  <2>2. \A x \in DOMAIN g.recs : home[x][1] = 0 => g.rt[home[x][2]] = "refined" /\ g.ref[home[x][2]] = x
    BY Zenon DEF TreeBy, Upward
  <2>3. \A x \in DOMAIN g.recs : home[x][1] # 0 => \E p \in DOMAIN g.recs : \E i \in Kids : Refers(g, p, i, x)
    BY Zenon DEF TreeBy, Upward
  <2> QED BY <1>1, <1>2, <2>1, <2>2, <2>3 DEF Upward, Refers
<1>6. InTables(h)
  <2>1. \A r \in DOMAIN g.recs : CellOf(r[1]) \in Cells /\ g.rt[CellOf(r[1])] = "rsvd"
    <3>1. \A r \in DOMAIN g.recs : r[1] \in Blocks
      BY GroupFacts DEF Refs
    <3> QED BY <3>1, OfFacts DEF TreeBy, InTables
  <2> QED BY <1>1, <1>3, <2>1 DEF InTables
<1>7. ArenaSound(h)
  <2>1. h.rt[0] = "rsvd"
    BY <1>3, BlocksType DEF TreeBy, ArenaSound
  <2>2. CASE h.arena = g.arena
    <3>1. \A b \in Arena(g) : b \in Blocks /\ CellOf(b) \in Cells /\ g.rt[CellOf(b)] = "rsvd"
      BY OfFacts DEF TreeBy, ArenaSound
    <3>2. Arena(h) = Arena(g)
      BY <2>2 DEF Arena
    <3> QED BY <1>3, <2>1, <3>1, <3>2 DEF ArenaSound
  <2>3. CASE st = "rsvd" /\ \E c \in S : h.arena = c * CellBlocks
    <3>1. PICK c \in S : h.arena = c * CellBlocks
      BY <2>3
    <3>2. c \in Cells /\ c * CellBlocks \in Nat
      BY <1>1, <3>1, BlocksType
    <3>3. c + 1 <= CellCount /\ 1 * CellBlocks = CellBlocks
      BY <3>2, Sizes2, BlocksType DEF Cells
    <3>4. c .. c + 1 - 1 = {c}
      BY <3>2, BlocksType
    <3>5. \A b \in c * CellBlocks .. c * CellBlocks + CellBlocks - 1 : b \in Blocks /\ CellOf(b) = c
      <4>1. /\ c * CellBlocks .. c * CellBlocks + 1 * CellBlocks - 1 \subseteq Blocks
            /\ \A b \in Blocks : b \in c * CellBlocks .. c * CellBlocks + 1 * CellBlocks - 1
                                   <=> CellOf(b) \in c .. c + 1 - 1
        BY <3>2, <3>3, CellRun
      <4> QED BY <3>3, <3>4, <4>1
    <3>6. Arena(h) \subseteq c * CellBlocks .. c * CellBlocks + CellBlocks - 1
      BY <3>1 DEF Arena
    <3>7. h.rt[c] = "rsvd"
      BY <1>1, <2>3, <3>1
    <3> QED BY <2>1, <3>5, <3>6, <3>7 DEF ArenaSound
  <2> QED BY <2>2, <2>3 DEF Marked
<1>8. SlotBlocksPadded(h, home) /\ home \in [DOMAIN h.recs -> Places]
  BY <1>1, Zenon DEF TreeBy, SlotBlocksPadded
<1>9. Tree(h)
  BY <1>4, <1>5, <1>6, <1>7, <1>8, Zenon DEF TreeBy, Tree
<1>10. ASSUME NEW b \in Blocks, CellOf(b) \notin S PROVE SameView(g, h, b)
  <2>1. h.rt[CellOf(b)] = g.rt[CellOf(b)]
    BY <1>1, <1>10, OfFacts
  <2>2. SameWay(g, h, b)
    BY <1>1, <2>1, Zenon DEF SameWay, R0, R1, R2
  <2> QED BY <2>2, SameWaySees
<1>11. ASSUME NEW b \in Blocks, CellOf(b) \in S
       PROVE  /\ StateOf(g, b) = g.rt[CellOf(b)] /\ UnitOf(g, b) = CellBlocks
              /\ StateOf(h, b) = st /\ UnitOf(h, b) = CellBlocks
  <2>1. g.rt[CellOf(b)] \in {"free", "full"} /\ h.rt[CellOf(b)] = st
    BY <1>1, <1>11
  <2>2. ~Is0(g, b) /\ ~Is0(h, b)
    BY <1>1, <2>1 DEF Is0
  <2> QED BY <2>1, <2>2, Unfolded, Zenon DEF UnitOf
<1> QED BY <1>9, <1>10, <1>11

-----------------------------------------------------------------------------
(* Refining: a new record, all free, for a free cell, or for a child of a  *)
(* record.                                                                 *)

(* Record r may be taken: it is not in use, in a table block. *)
Fresh(g, r) == r \in Refs \ DOMAIN g.recs /\ g.rt[CellOf(r[1])] = "rsvd"

CellAttached(g, h, c, r) ==
  /\ c \in Cells /\ g.rt[c] = "free" /\ Fresh(g, r)
  /\ h.rt[c] = "refined" /\ h.ref[c] = r
  /\ \A d \in Cells \ {c} : h.rt[d] = g.rt[d] /\ h.ref[d] = g.ref[d]
  /\ h.arena = g.arena
  /\ DOMAIN h.recs = DOMAIN g.recs \cup {r} /\ h.recs[r] = ZeroRecord
  /\ \A x \in DOMAIN g.recs : h.recs[x] = g.recs[x]

LEMMA InTablesType ==
  ASSUME NEW g \in Group, NEW r \in DOMAIN g.recs
  PROVE  r \in Refs /\ r[1] \in Blocks /\ CellOf(r[1]) \in Cells
<1>1. r \in Refs /\ r[1] \in Blocks
  BY GroupFacts DEF Refs
<1> QED BY <1>1, OfFacts

LEMMA AttachCell ==
  ASSUME NEW g \in Group, Tree(g), NEW h, NEW c, NEW r, CellAttached(g, h, c, r)
  PROVE  Tree(h) /\ \A b \in Blocks : Alike(g, h, b)
<1> PICK home : TreeBy(g, home)
  BY Zenon DEF Tree
<1>1. /\ c \in Cells /\ g.rt[c] = "free" /\ r \in Refs /\ r \notin DOMAIN g.recs /\ g.rt[CellOf(r[1])] = "rsvd"
      /\ h.rt[c] = "refined" /\ h.ref[c] = r
      /\ \A d \in Cells : d # c => h.rt[d] = g.rt[d] /\ h.ref[d] = g.ref[d]
      /\ DOMAIN h.recs = DOMAIN g.recs \cup {r} /\ h.recs[r] = ZeroRecord
      /\ \A x \in DOMAIN g.recs : h.recs[x] = g.recs[x]
  BY DEF CellAttached, Fresh
<1> DEFINE hm == [x \in DOMAIN g.recs \cup {r} |-> IF x = r THEN <<0, c, 0, 0>> ELSE home[x]]
<1>2. \A x \in DOMAIN g.recs : hm[x] = home[x] /\ x # r
  BY <1>1
<1>3. hm[r] = <<0, c, 0, 0>>
  OBVIOUS
<1>4. hm \in [DOMAIN h.recs -> Places]
  <2>1. <<0, c, 0, 0>> \in Places
    BY <1>1, BlocksType DEF Places
  <2>2. \A x \in DOMAIN g.recs : home[x] \in Places
    BY HomeFacts
  <2> QED BY <1>1, <2>1, <2>2
<1> HIDE DEF hm
<1>5. \A i \in Kids : ZeroRecord.st[i] = "free"
  BY ZeroFacts
<1>6. Downward(h, hm)
  <2>1. Downward(g, home)
    BY Zenon DEF TreeBy
  <2>2. \A d \in Cells : h.rt[d] = "refined" => h.ref[d] \in DOMAIN h.recs /\ hm[h.ref[d]] = <<0, d, 0, 0>>
    <3> TAKE d \in Cells
    <3>1. CASE d = c
      BY <1>1, <1>3, <3>1
    <3>2. CASE d # c
      <4>1. h.rt[d] = g.rt[d] /\ h.ref[d] = g.ref[d]
        BY <1>1, <3>2
      <4>2. g.rt[d] = "refined" => g.ref[d] \in DOMAIN g.recs /\ home[g.ref[d]] = <<0, d, 0, 0>>
        BY <2>1 DEF Downward
      <4> QED BY <1>1, <1>2, <4>1, <4>2
    <3> QED BY <3>1, <3>2
  <2>3. ASSUME NEW x \in DOMAIN h.recs, NEW i \in Kids, h.recs[x].st[i] = "refined"
        PROVE  Inner(hm[x]) /\ h.recs[x].ref[i] \in DOMAIN h.recs /\ hm[h.recs[x].ref[i]] = Below(hm[x], i)
    <3>1. x # r
      BY <1>1, <1>5, <2>3
    <3>2. x \in DOMAIN g.recs /\ h.recs[x] = g.recs[x]
      BY <1>1, <3>1
    <3>3. Inner(home[x]) /\ g.recs[x].ref[i] \in DOMAIN g.recs /\ home[g.recs[x].ref[i]] = Below(home[x], i)
      BY <2>1, <2>3, <3>2, Zenon DEF Downward
    <3> QED BY <1>1, <1>2, <3>2, <3>3
  <2> QED BY <2>2, <2>3, Zenon DEF Downward
<1>7. Upward(h, hm)
  <2>1. ASSUME NEW x \in DOMAIN h.recs, hm[x][1] = 0 PROVE h.rt[hm[x][2]] = "refined" /\ h.ref[hm[x][2]] = x
    <3>1. CASE x = r
      BY <1>1, <1>3, <3>1
    <3>2. CASE x # r
      <4>1. x \in DOMAIN g.recs /\ hm[x] = home[x]
        BY <1>1, <1>2, <3>2
      <4>2. g.rt[home[x][2]] = "refined" /\ g.ref[home[x][2]] = x /\ home[x][2] \in Cells
        BY <2>1, <4>1, HomeFacts DEF TreeBy, Upward
      <4> QED BY <1>1, <4>1, <4>2
    <3> QED BY <3>1, <3>2
  <2>2. ASSUME NEW x \in DOMAIN h.recs, hm[x][1] # 0
        PROVE  \E p \in DOMAIN h.recs : \E i \in Kids : Refers(h, p, i, x)
    <3>1. x \in DOMAIN g.recs /\ home[x][1] # 0
      BY <1>1, <1>2, <1>3, <2>2
    <3>2. PICK p \in DOMAIN g.recs : \E i \in Kids : Refers(g, p, i, x)
      BY <3>1, Zenon DEF TreeBy, Upward
    <3>3. h.recs[p] = g.recs[p] /\ p \in DOMAIN h.recs
      BY <1>1
    <3> QED BY <3>2, <3>3, Zenon DEF Refers
  <2> QED BY <2>1, <2>2, Zenon DEF Upward
<1>8. InTables(h)
  <2>1. \A x \in DOMAIN g.recs : CellOf(x[1]) \in Cells /\ g.rt[CellOf(x[1])] = "rsvd"
    BY InTablesType DEF TreeBy, InTables
  <2>2. CellOf(r[1]) \in Cells
    BY <1>1, OfFacts DEF Refs
  <2> QED BY <1>1, <2>1, <2>2 DEF InTables
<1>9. SlotBlocksPadded(h, hm)
  <2>1. \A x \in DOMAIN g.recs : ~Inner(home[x]) => \A s \in Kids : s >= Slots => g.recs[x].st[s] = "free"
    BY Zenon DEF TreeBy, SlotBlocksPadded
  <2> QED BY <1>1, <1>2, <1>5, <2>1 DEF SlotBlocksPadded
<1>10. ArenaSound(h)
  <2>1. \A b \in Arena(g) : b \in Blocks /\ CellOf(b) \in Cells /\ g.rt[CellOf(b)] = "rsvd"
    BY OfFacts DEF TreeBy, ArenaSound
  <2>2. Arena(h) = Arena(g)
    BY DEF CellAttached, Arena
  <2>3. g.rt[0] = "rsvd"
    BY DEF TreeBy, ArenaSound
  <2> QED BY <1>1, <2>1, <2>2, <2>3, BlocksType DEF ArenaSound
<1>11. Tree(h)
  BY <1>4, <1>6, <1>7, <1>8, <1>9, <1>10, Zenon DEF TreeBy, Tree
<1>12. ASSUME NEW b \in Blocks PROVE Alike(g, h, b)
  <2>1. CellOf(b) \in Cells /\ KidOf(b) \in Kids
    BY OfFacts
  <2>2. CASE CellOf(b) # c
    <3>1. h.rt[CellOf(b)] = g.rt[CellOf(b)] /\ R0(h, b) = R0(g, b)
      BY <1>1, <2>1, <2>2 DEF R0
    <3>2. /\ Is0(g, b) => R0(g, b) \in DOMAIN g.recs
          /\ Is1(g, b) => R1(g, b) \in DOMAIN g.recs /\ Is0(g, b)
          /\ Is2(g, b) => R2(g, b) \in DOMAIN g.recs /\ Is1(g, b)
      BY Down, Zenon DEF Is1, Is2
    <3>3. Is1(g, b) => R1(h, b) = R1(g, b)
      BY <1>1, <3>1, <3>2, Zenon DEF R1
    <3>4. Is2(g, b) => R2(h, b) = R2(g, b)
      BY <1>1, <3>2, <3>3, Zenon DEF R2
    <3>5. SameWay(g, h, b)
      BY <1>1, <3>1, <3>2, <3>3, <3>4, Zenon DEF SameWay
    <3> QED BY <3>5, SameWaySees DEF Alike
  <2>3. CASE CellOf(b) = c
    <3>1. ~Is0(g, b) /\ StateOf(g, b) = "free"
      BY <1>1, <2>3, Unfolded DEF Is0
    <3>2. Is0(h, b) /\ R0(h, b) = r /\ ~Is1(h, b)
      BY <1>1, <1>5, <2>1, <2>3 DEF Is0, R0, Is1
    <3>3. StateOf(h, b) = "free"
      BY <1>1, <1>5, <2>1, <3>2, Unfolded
    <3> QED BY <3>1, <3>3 DEF Alike
  <2> QED BY <2>2, <2>3
<1> QED BY <1>11, <1>12

KidAttached(g, h, p, i, r) ==
  /\ p \in DOMAIN g.recs /\ i \in Kids /\ Fresh(g, r)
  /\ g.recs[p].st[i] # "refined"
  /\ h.rt = g.rt /\ h.ref = g.ref /\ h.arena = g.arena
  /\ DOMAIN h.recs = DOMAIN g.recs \cup {r} /\ h.recs[r] = ZeroRecord
  /\ h.recs[p].st[i] = "refined" /\ h.recs[p].ref[i] = r
  /\ \A k \in Kids \ {i} : h.recs[p].st[k] = g.recs[p].st[k] /\ h.recs[p].ref[k] = g.recs[p].ref[k]
  /\ \A x \in DOMAIN g.recs \ {p} : h.recs[x] = g.recs[x]

LEMMA KidAttachedFacts ==
  ASSUME NEW g, NEW h, NEW p, NEW i, NEW r, KidAttached(g, h, p, i, r)
  PROVE  /\ p \in DOMAIN g.recs /\ i \in Kids /\ r \in Refs /\ r \notin DOMAIN g.recs
         /\ g.rt[CellOf(r[1])] = "rsvd" /\ g.recs[p].st[i] # "refined"
         /\ h.rt = g.rt /\ h.ref = g.ref /\ h.arena = g.arena
         /\ DOMAIN h.recs = DOMAIN g.recs \cup {r} /\ h.recs[r] = ZeroRecord
         /\ h.recs[p].st[i] = "refined" /\ h.recs[p].ref[i] = r
         /\ \A k \in Kids : k # i => h.recs[p].st[k] = g.recs[p].st[k] /\ h.recs[p].ref[k] = g.recs[p].ref[k]
         /\ \A x \in DOMAIN g.recs : x # p => h.recs[x] = g.recs[x]
BY DEF KidAttached, Fresh

LEMMA AttachTree ==
  ASSUME NEW g \in Group, NEW home, TreeBy(g, home), NEW h, NEW p, NEW i, NEW r,
         KidAttached(g, h, p, i, r), Inner(home[p])
  PROVE  Tree(h)
<1>1. /\ p \in DOMAIN g.recs /\ i \in Kids /\ r \in Refs /\ r \notin DOMAIN g.recs
      /\ g.rt[CellOf(r[1])] = "rsvd" /\ g.recs[p].st[i] # "refined"
      /\ h.rt = g.rt /\ h.ref = g.ref /\ h.arena = g.arena
      /\ DOMAIN h.recs = DOMAIN g.recs \cup {r} /\ h.recs[r] = ZeroRecord
      /\ h.recs[p].st[i] = "refined" /\ h.recs[p].ref[i] = r
      /\ \A k \in Kids : k # i => h.recs[p].st[k] = g.recs[p].st[k] /\ h.recs[p].ref[k] = g.recs[p].ref[k]
      /\ \A x \in DOMAIN g.recs : x # p => h.recs[x] = g.recs[x]
  BY KidAttachedFacts
<1> DEFINE hm == [x \in DOMAIN g.recs \cup {r} |-> IF x = r THEN Below(home[p], i) ELSE home[x]]
<1>2. \A x \in DOMAIN g.recs : hm[x] = home[x] /\ x # r
  BY <1>1
<1>3. hm[r] = Below(home[p], i)
  OBVIOUS
<1>4. Below(home[p], i) \in Places /\ Below(home[p], i)[1] # 0
  <2>1. home[p][1] \in {0, 1} /\ home[p][2] \in Cells /\ home[p][3] \in Kids
    BY <1>1, HomeFacts DEF Inner
  <2> QED BY <1>1, <2>1, BlocksType DEF Below, Places
<1>5. hm \in [DOMAIN h.recs -> Places]
  <2>1. \A x \in DOMAIN g.recs : home[x] \in Places
    BY HomeFacts
  <2> QED BY <1>1, <1>4, <2>1
<1> HIDE DEF hm
<1>6. \A k \in Kids : ZeroRecord.st[k] = "free"
  BY ZeroFacts
<1>7. Downward(g, home)
  BY Zenon DEF TreeBy
<1>8. Downward(h, hm)
  <2>1. \A d \in Cells : h.rt[d] = "refined" => h.ref[d] \in DOMAIN h.recs /\ hm[h.ref[d]] = <<0, d, 0, 0>>
    <3> TAKE d \in Cells
    <3>1. g.rt[d] = "refined" => g.ref[d] \in DOMAIN g.recs /\ home[g.ref[d]] = <<0, d, 0, 0>>
      BY <1>7 DEF Downward
    <3> QED BY <1>1, <1>2, <3>1
  <2>2. ASSUME NEW x \in DOMAIN h.recs, NEW k \in Kids, h.recs[x].st[k] = "refined"
        PROVE  Inner(hm[x]) /\ h.recs[x].ref[k] \in DOMAIN h.recs /\ hm[h.recs[x].ref[k]] = Below(hm[x], k)
    <3>1. x # r /\ x \in DOMAIN g.recs
      BY <1>1, <1>6, <2>2
    <3>2. CASE x = p /\ k = i
      BY <1>1, <1>2, <1>3, <3>2
    <3>3. CASE ~(x = p /\ k = i)
      <4>1. g.recs[x].st[k] = "refined" /\ h.recs[x].ref[k] = g.recs[x].ref[k]
        BY <1>1, <2>2, <3>1, <3>3
      <4>2. Inner(home[x]) /\ g.recs[x].ref[k] \in DOMAIN g.recs /\ home[g.recs[x].ref[k]] = Below(home[x], k)
        BY <1>7, <3>1, <4>1, Zenon DEF Downward
      <4> QED BY <1>1, <1>2, <3>1, <4>1, <4>2
    <3> QED BY <3>2, <3>3
  <2> QED BY <2>1, <2>2, Zenon DEF Downward
<1>9. Upward(h, hm)
  <2>1. ASSUME NEW x \in DOMAIN h.recs, hm[x][1] = 0 PROVE h.rt[hm[x][2]] = "refined" /\ h.ref[hm[x][2]] = x
    <3>1. x # r /\ x \in DOMAIN g.recs /\ hm[x] = home[x]
      BY <1>1, <1>2, <1>3, <1>4, <2>1
    <3>2. g.rt[home[x][2]] = "refined" /\ g.ref[home[x][2]] = x
      BY <2>1, <3>1, Zenon DEF TreeBy, Upward
    <3> QED BY <1>1, <3>1, <3>2
  <2>2. ASSUME NEW x \in DOMAIN h.recs, hm[x][1] # 0
        PROVE  \E q \in DOMAIN h.recs : \E k \in Kids : Refers(h, q, k, x)
    <3>1. CASE x = r
      <4>1. Refers(h, p, i, r) /\ p \in DOMAIN h.recs
        BY <1>1 DEF Refers
      <4> QED BY <1>1, <3>1, <4>1
    <3>2. CASE x # r
      <4>1. x \in DOMAIN g.recs /\ home[x][1] # 0
        BY <1>1, <1>2, <2>2, <3>2
      <4>2. PICK q \in DOMAIN g.recs : \E k \in Kids : Refers(g, q, k, x)
        BY <4>1, Zenon DEF TreeBy, Upward
      <4>3. PICK k \in Kids : Refers(g, q, k, x)
        BY <4>2
      <4>4. ~(q = p /\ k = i)
        BY <1>1, <4>3 DEF Refers
      <4>5. Refers(h, q, k, x)
        BY <1>1, <4>3, <4>4 DEF Refers
      <4> QED BY <1>1, <4>5
    <3> QED BY <3>1, <3>2
  <2> QED BY <2>1, <2>2, Zenon DEF Upward
<1>10. InTables(h)
  BY <1>1 DEF TreeBy, InTables
<1>11. SlotBlocksPadded(h, hm)
  <2>1. \A x \in DOMAIN g.recs : ~Inner(home[x]) => \A s \in Kids : s >= Slots => g.recs[x].st[s] = "free"
    BY Zenon DEF TreeBy, SlotBlocksPadded
  <2> QED BY <1>1, <1>2, <1>6, <2>1 DEF SlotBlocksPadded
<1>12. ArenaSound(h)
  BY <1>1, Zenon DEF TreeBy, ArenaSound, Arena
<1> QED BY <1>5, <1>8, <1>9, <1>10, <1>11, <1>12, Zenon DEF TreeBy, Tree

(* The way to a block stays but at the child that is refined. *)
LEMMA AttachElsewhere ==
  ASSUME NEW g, NEW home, TreeBy(g, home), NEW h, NEW p, NEW i, NEW r,
         KidAttached(g, h, p, i, r), NEW b \in Blocks,
         ~(Is0(g, b) /\ R0(g, b) = p /\ KidOf(b) = i), ~(Is1(g, b) /\ R1(g, b) = p /\ LeafOf(b) = i),
         home[p][1] # 2
  PROVE  SameView(g, h, b)
<1>1. /\ p \in DOMAIN g.recs /\ h.rt = g.rt /\ h.ref = g.ref
      /\ \A k \in Kids : k # i => h.recs[p].st[k] = g.recs[p].st[k] /\ h.recs[p].ref[k] = g.recs[p].ref[k]
      /\ \A x \in DOMAIN g.recs : x # p => h.recs[x] = g.recs[x]
  BY KidAttachedFacts
<1>2. /\ Is0(g, b) => R0(g, b) \in DOMAIN g.recs
      /\ Is1(g, b) => R1(g, b) \in DOMAIN g.recs
      /\ Is2(g, b) => R2(g, b) \in DOMAIN g.recs /\ R2(g, b) # p
  <2>1. Is2(g, b) => home[R2(g, b)][1] = 2
    BY Down
  <2> QED BY <2>1, Down, Zenon
<1>3. KidOf(b) \in Kids /\ LeafOf(b) \in Kids
  BY OfFacts
<1>4. R0(h, b) = R0(g, b) /\ h.rt[CellOf(b)] = g.rt[CellOf(b)]
  BY <1>1 DEF R0
<1>5. Is0(g, b) => /\ h.recs[R0(g, b)].st[KidOf(b)] = g.recs[R0(g, b)].st[KidOf(b)]
                   /\ h.recs[R0(g, b)].ref[KidOf(b)] = g.recs[R0(g, b)].ref[KidOf(b)]
  BY <1>1, <1>2, <1>3
<1>6. Is1(g, b) => R1(h, b) = R1(g, b)
  BY <1>4, <1>5 DEF R1, Is1
<1>7. Is1(g, b) => /\ h.recs[R1(g, b)].st[LeafOf(b)] = g.recs[R1(g, b)].st[LeafOf(b)]
                   /\ h.recs[R1(g, b)].ref[LeafOf(b)] = g.recs[R1(g, b)].ref[LeafOf(b)]
  BY <1>1, <1>2, <1>3
<1>8. Is2(g, b) => R2(h, b) = R2(g, b) /\ h.recs[R2(g, b)].st = g.recs[R2(g, b)].st
  <2>1. Is2(g, b) => R2(h, b) = R2(g, b)
    BY <1>6, <1>7 DEF R2, Is2
  <2> QED BY <1>1, <1>2, <2>1
<1>9. SameWay(g, h, b)
  BY <1>4, <1>5, <1>6, <1>7, <1>8, Zenon DEF SameWay
<1> QED BY <1>9, SameWaySees

LEMMA AttachKid ==
  ASSUME NEW g \in Group, NEW home, TreeBy(g, home), NEW h, NEW p, NEW i, NEW r,
         KidAttached(g, h, p, i, r), home[p][1] = 0, g.recs[p].st[i] = "free"
  PROVE  Tree(h) /\ \A b \in Blocks : Alike(g, h, b)
<1>1. Tree(h)
  BY AttachTree DEF Inner
<1>2. ASSUME NEW b \in Blocks PROVE Alike(g, h, b)
  <2>1. Is1(g, b) => home[R1(g, b)][1] = 1
    BY Down
  <2>2. CASE ~(Is0(g, b) /\ R0(g, b) = p /\ KidOf(b) = i)
    <3>1. ~(Is1(g, b) /\ R1(g, b) = p /\ LeafOf(b) = i)
      BY <2>1
    <3>2. SameView(g, h, b)
      BY <2>2, <3>1, AttachElsewhere
    <3> QED BY <3>2 DEF Alike
  <2>3. CASE Is0(g, b) /\ R0(g, b) = p /\ KidOf(b) = i
    <3>1. ~Is1(g, b) /\ StateOf(g, b) = "free"
      BY <2>3, Unfolded DEF Is1
    <3>2. Is0(h, b) /\ R0(h, b) = p /\ h.recs[p].st[i] = "refined" /\ h.recs[p].ref[i] = r /\ h.recs[r] = ZeroRecord
      BY <2>3, KidAttachedFacts DEF Is0, R0
    <3>3. Is1(h, b) /\ R1(h, b) = r
      BY <2>3, <3>2 DEF Is1, R1
    <3>4. StateOf(h, b) = "free"
      BY <3>2, <3>3, Unfolded, OfFacts, ZeroFacts
    <3> QED BY <3>1, <3>4 DEF Alike
  <2> QED BY <2>2, <2>3
<1> QED BY <1>1, <1>2

(* A full block becomes a slot block, all slots free. *)
LEMMA AttachSlots ==
  ASSUME NEW g \in Group, NEW home, TreeBy(g, home), NEW h, NEW p, NEW i, NEW r,
         KidAttached(g, h, p, i, r), home[p][1] = 1
  PROVE  /\ Tree(h)
         /\ \A b \in Blocks :
              IF Is1(g, b) /\ R1(g, b) = p /\ LeafOf(b) = i
              THEN UnitOf(g, b) = 1 /\ UnitOf(h, b) = 1 /\ Is2(h, b) /\ R2(h, b) = r
                     /\ StateOf(g, b) = g.recs[p].st[i]
              ELSE SameView(g, h, b)
<1>1. Tree(h)
  BY AttachTree DEF Inner
<1>2. ASSUME NEW b \in Blocks, ~(Is1(g, b) /\ R1(g, b) = p /\ LeafOf(b) = i) PROVE SameView(g, h, b)
  <2>1. Is0(g, b) => home[R0(g, b)][1] = 0
    BY Down
  <2>2. ~(Is0(g, b) /\ R0(g, b) = p /\ KidOf(b) = i)
    BY <2>1
  <2> QED BY <1>2, <2>2, AttachElsewhere
<1>3. ASSUME NEW b \in Blocks, Is1(g, b) /\ R1(g, b) = p /\ LeafOf(b) = i
      PROVE  UnitOf(g, b) = 1 /\ UnitOf(h, b) = 1 /\ Is2(h, b) /\ R2(h, b) = r /\ StateOf(g, b) = g.recs[p].st[i]
  <2>1. Is0(g, b) /\ R0(g, b) \in DOMAIN g.recs /\ home[R0(g, b)][1] = 0
    BY <1>3, Down DEF Is1
  <2>2. R0(g, b) # p
    BY <2>1
  <2>3. /\ h.rt = g.rt /\ h.ref = g.ref /\ h.recs[R0(g, b)] = g.recs[R0(g, b)]
        /\ h.recs[p].st[i] = "refined" /\ h.recs[p].ref[i] = r
    BY <2>1, <2>2, KidAttachedFacts
  <2>4. Is0(h, b) /\ R0(h, b) = R0(g, b)
    BY <2>1, <2>3 DEF Is0, R0
  <2>5. Is1(h, b) /\ R1(h, b) = p
    BY <1>3, <2>3, <2>4 DEF Is1, R1
  <2>6. Is2(h, b) /\ R2(h, b) = r
    BY <1>3, <2>3, <2>5 DEF Is2, R2
  <2>7. UnitOf(g, b) = 1 /\ UnitOf(h, b) = 1
    BY <1>3, <2>1, <2>4, <2>5 DEF UnitOf
  <2> QED BY <1>3, <2>6, <2>7, Unfolded
<1> QED BY <1>1, <1>2, <1>3

-----------------------------------------------------------------------------
(* Coarsening: a record whose children are all free is given up.           *)

(* No two children, of whatever records, refer to one record. *)
LEMMA Apart ==
  ASSUME NEW g, NEW home, TreeBy(g, home), NEW p \in DOMAIN g.recs, NEW q \in DOMAIN g.recs,
         NEW i \in Kids, NEW k \in Kids, NEW r, Refers(g, p, i, r), Refers(g, q, k, r)
  PROVE  p = q /\ i = k
<1>1. home[p][1] # 2 /\ home[q][1] # 2 /\ Below(home[p], i) = Below(home[q], k)
  <2>1. \A x \in DOMAIN g.recs : \A j \in Kids : Refers(g, x, j, r) => Inner(home[x]) /\ home[r] = Below(home[x], j)
    BY Zenon DEF TreeBy, Downward, Refers
  <2>2. Inner(home[p]) /\ Inner(home[q]) /\ home[r] = Below(home[p], i) /\ home[r] = Below(home[q], k)
    BY <2>1
  <2> QED BY <2>2 DEF Inner
<1>2. home[p][1] = home[q][1] /\ home[p][2] = home[q][2] /\ i = k /\ (home[p][1] = 1 => home[p][3] = home[q][3])
  BY <1>1, HomeFacts DEF Below
<1>3. PICK b \in Blocks : CellOf(b) = home[p][2] /\ KidOf(b) = home[p][3] /\ LeafOf(b) = home[p][4]
  BY HasBlock
<1>4. home[p][1] \in {0, 1}
  BY <1>1, HomeFacts
<1>5. CASE home[p][1] = 0
  <2>1. R0(g, b) = p
    BY <1>3, <1>5, Up
  <2>2. CellOf(b) = home[q][2] /\ home[q][1] = 0
    BY <1>2, <1>3, <1>5
  <2>3. R0(g, b) = q
    BY <2>2, Up
  <2> QED BY <1>2, <2>1, <2>3
<1>6. CASE home[p][1] = 1
  <2>1. R1(g, b) = p
    BY <1>3, <1>6, Up
  <2>2. CellOf(b) = home[q][2] /\ KidOf(b) = home[q][3] /\ home[q][1] = 1
    BY <1>2, <1>3, <1>6
  <2>3. R1(g, b) = q
    BY <2>2, Up
  <2> QED BY <1>2, <2>1, <2>3
<1> QED BY <1>2, <1>4, <1>5, <1>6

(* No child refers to what a cell refers to. *)
LEMMA ApartFromCells ==
  ASSUME NEW g, NEW home, TreeBy(g, home), NEW p \in DOMAIN g.recs, NEW i \in Kids, NEW r,
         Refers(g, p, i, r), NEW c \in Cells, g.rt[c] = "refined"
  PROVE  g.ref[c] # r
<1>1. home[r] = Below(home[p], i) /\ home[g.ref[c]] = <<0, c, 0, 0>>
  BY Zenon DEF TreeBy, Downward, Refers
<1>2. Below(home[p], i)[1] # 0
  BY DEF Below
<1> QED BY <1>1, <1>2

CellDetached(g, h, c) ==
  /\ c \in Cells /\ g.rt[c] = "refined" /\ AllFree(g.recs[g.ref[c]])
  /\ h.rt[c] = "free"
  /\ \A d \in Cells \ {c} : h.rt[d] = g.rt[d] /\ h.ref[d] = g.ref[d]
  /\ h.arena = g.arena
  /\ DOMAIN h.recs = DOMAIN g.recs \ {g.ref[c]}
  /\ \A x \in DOMAIN g.recs \ {g.ref[c]} : h.recs[x] = g.recs[x]

LEMMA DetachCell ==
  ASSUME NEW g \in Group, Tree(g), NEW h, NEW c, CellDetached(g, h, c)
  PROVE  Tree(h) /\ \A b \in Blocks : Alike(g, h, b)
<1> PICK home : TreeBy(g, home)
  BY Zenon DEF Tree
<1> DEFINE r == g.ref[c]
<1>1. /\ c \in Cells /\ g.rt[c] = "refined" /\ AllFree(g.recs[r]) /\ h.rt[c] = "free"
      /\ \A d \in Cells : d # c => h.rt[d] = g.rt[d] /\ h.ref[d] = g.ref[d]
      /\ DOMAIN h.recs = DOMAIN g.recs \ {r}
      /\ \A x \in DOMAIN g.recs : x # r => h.recs[x] = g.recs[x]
  BY DEF CellDetached
<1>2. r \in DOMAIN g.recs /\ home[r] = <<0, c, 0, 0>>
  BY <1>1, Zenon DEF TreeBy, Downward
<1>3. \A i \in Kids : g.recs[r].st[i] = "free"
  BY <1>1 DEF AllFree
<1> HIDE DEF r
<1> DEFINE hm == [x \in DOMAIN g.recs \ {r} |-> home[x]]
<1>4. \A x \in DOMAIN h.recs : hm[x] = home[x] /\ x \in DOMAIN g.recs /\ x # r
  BY <1>1
<1>5. hm \in [DOMAIN h.recs -> Places]
  BY <1>1, HomeFacts
<1> HIDE DEF hm
<1>6. Downward(g, home)
  BY Zenon DEF TreeBy
<1>7. Downward(h, hm)
  <2>1. ASSUME NEW d \in Cells, h.rt[d] = "refined"
        PROVE  h.ref[d] \in DOMAIN h.recs /\ hm[h.ref[d]] = <<0, d, 0, 0>>
    <3>1. d # c /\ g.rt[d] = "refined" /\ h.ref[d] = g.ref[d]
      BY <1>1, <2>1
    <3>2. g.ref[d] \in DOMAIN g.recs /\ home[g.ref[d]] = <<0, d, 0, 0>>
      BY <1>6, <3>1 DEF Downward
    <3>3. g.ref[d] # r
      BY <1>2, <3>1, <3>2
    <3> QED BY <1>1, <1>4, <3>1, <3>2, <3>3
  <2>2. ASSUME NEW x \in DOMAIN h.recs, NEW i \in Kids, h.recs[x].st[i] = "refined"
        PROVE  Inner(hm[x]) /\ h.recs[x].ref[i] \in DOMAIN h.recs /\ hm[h.recs[x].ref[i]] = Below(hm[x], i)
    <3>1. x \in DOMAIN g.recs /\ h.recs[x] = g.recs[x] /\ hm[x] = home[x]
      BY <1>1, <1>4
    <3>2. Inner(home[x]) /\ g.recs[x].ref[i] \in DOMAIN g.recs /\ home[g.recs[x].ref[i]] = Below(home[x], i)
      BY <1>6, <2>2, <3>1, Zenon DEF Downward
    <3>3. g.recs[x].ref[i] # r
      BY <1>1, <2>2, <3>1, ApartFromCells DEF Refers, r
    <3> QED BY <1>1, <1>4, <3>1, <3>2, <3>3
  <2> QED BY <2>1, <2>2, Zenon DEF Downward
<1>8. Upward(h, hm)
  <2>1. ASSUME NEW x \in DOMAIN h.recs, hm[x][1] = 0 PROVE h.rt[hm[x][2]] = "refined" /\ h.ref[hm[x][2]] = x
    <3>1. x \in DOMAIN g.recs /\ hm[x] = home[x] /\ x # r
      BY <1>4
    <3>2. g.rt[home[x][2]] = "refined" /\ g.ref[home[x][2]] = x /\ home[x][2] \in Cells
      BY <2>1, <3>1, HomeFacts DEF TreeBy, Upward
    <3>3. home[x][2] # c
      BY <3>1, <3>2 DEF r
    <3> QED BY <1>1, <3>1, <3>2, <3>3
  <2>2. ASSUME NEW x \in DOMAIN h.recs, hm[x][1] # 0
        PROVE  \E p \in DOMAIN h.recs : \E i \in Kids : Refers(h, p, i, x)
    <3>1. x \in DOMAIN g.recs /\ home[x][1] # 0
      BY <1>4, <2>2
    <3>2. PICK p \in DOMAIN g.recs : \E i \in Kids : Refers(g, p, i, x)
      BY <3>1, Zenon DEF TreeBy, Upward
    <3>3. p # r
      BY <1>3, <3>2 DEF Refers
    <3>4. h.recs[p] = g.recs[p] /\ p \in DOMAIN h.recs
      BY <1>1, <3>3
    <3> QED BY <3>2, <3>4, Zenon DEF Refers
  <2> QED BY <2>1, <2>2, Zenon DEF Upward
<1>9. InTables(h)
  <2>1. \A x \in DOMAIN g.recs : CellOf(x[1]) \in Cells /\ g.rt[CellOf(x[1])] = "rsvd"
    BY InTablesType DEF TreeBy, InTables
  <2> QED BY <1>1, <2>1 DEF InTables
<1>10. SlotBlocksPadded(h, hm)
  <2>1. \A x \in DOMAIN g.recs : ~Inner(home[x]) => \A s \in Kids : s >= Slots => g.recs[x].st[s] = "free"
    BY Zenon DEF TreeBy, SlotBlocksPadded
  <2> QED BY <1>1, <1>4, <2>1 DEF SlotBlocksPadded
<1>11. ArenaSound(h)
  <2>1. \A b \in Arena(g) : b \in Blocks /\ CellOf(b) \in Cells /\ g.rt[CellOf(b)] = "rsvd"
    BY OfFacts DEF TreeBy, ArenaSound
  <2>2. Arena(h) = Arena(g)
    BY DEF CellDetached, Arena
  <2>3. g.rt[0] = "rsvd"
    BY DEF TreeBy, ArenaSound
  <2> QED BY <1>1, <2>1, <2>2, <2>3, BlocksType DEF ArenaSound
<1>12. Tree(h)
  BY <1>5, <1>7, <1>8, <1>9, <1>10, <1>11, Zenon DEF TreeBy, Tree
<1>13. ASSUME NEW b \in Blocks PROVE Alike(g, h, b)
  <2>1. CellOf(b) \in Cells /\ KidOf(b) \in Kids
    BY OfFacts
  <2>2. CASE CellOf(b) # c
    <3>1. h.rt[CellOf(b)] = g.rt[CellOf(b)] /\ R0(h, b) = R0(g, b)
      BY <1>1, <2>1, <2>2 DEF R0
    <3>2. /\ Is0(g, b) => R0(g, b) \in DOMAIN g.recs /\ R0(g, b) # r
          /\ Is1(g, b) => R1(g, b) \in DOMAIN g.recs /\ R1(g, b) # r /\ Is0(g, b)
          /\ Is2(g, b) => R2(g, b) \in DOMAIN g.recs /\ R2(g, b) # r /\ Is1(g, b)
      BY <1>2, <2>2, Down DEF Is1, Is2
    <3>3. Is1(g, b) => R1(h, b) = R1(g, b)
      BY <1>1, <3>1, <3>2, Zenon DEF R1
    <3>4. Is2(g, b) => R2(h, b) = R2(g, b)
      BY <1>1, <3>2, <3>3, Zenon DEF R2
    <3>5. SameWay(g, h, b)
      BY <1>1, <3>1, <3>2, <3>3, <3>4, Zenon DEF SameWay
    <3> QED BY <3>5, SameWaySees DEF Alike
  <2>3. CASE CellOf(b) = c
    <3>1. Is0(g, b) /\ R0(g, b) = r
      BY <1>1, <2>3 DEF Is0, R0, r
    <3>2. ~Is1(g, b)
      BY <1>3, <2>1, <3>1 DEF Is1
    <3>3. StateOf(g, b) = "free"
      BY <1>3, <2>1, <3>1, <3>2, Unfolded
    <3>4. ~Is0(h, b) /\ StateOf(h, b) = "free"
      BY <1>1, <2>3, Unfolded DEF Is0
    <3> QED BY <3>3, <3>4 DEF Alike
  <2> QED BY <2>2, <2>3
<1> QED BY <1>12, <1>13

KidDetached(g, h, p, i, r, st) ==
  /\ p \in DOMAIN g.recs /\ i \in Kids /\ Refers(g, p, i, r) /\ AllFree(g.recs[r]) /\ r # p
  /\ st \in {"free", "full"}
  /\ h.rt = g.rt /\ h.ref = g.ref /\ h.arena = g.arena
  /\ DOMAIN h.recs = DOMAIN g.recs \ {r}
  /\ h.recs[p].st[i] = st
  /\ \A k \in Kids \ {i} : h.recs[p].st[k] = g.recs[p].st[k] /\ h.recs[p].ref[k] = g.recs[p].ref[k]
  /\ \A x \in DOMAIN g.recs \ {r, p} : h.recs[x] = g.recs[x]

LEMMA KidDetachedFacts ==
  ASSUME NEW g, NEW h, NEW p, NEW i, NEW r, NEW st, KidDetached(g, h, p, i, r, st)
  PROVE  /\ p \in DOMAIN g.recs /\ i \in Kids /\ Refers(g, p, i, r) /\ r # p
         /\ \A k \in Kids : g.recs[r].st[k] = "free"
         /\ st # "refined" /\ h.rt = g.rt /\ h.ref = g.ref /\ h.arena = g.arena
         /\ DOMAIN h.recs = DOMAIN g.recs \ {r} /\ h.recs[p].st[i] = st
         /\ \A k \in Kids : k # i => h.recs[p].st[k] = g.recs[p].st[k] /\ h.recs[p].ref[k] = g.recs[p].ref[k]
         /\ \A x \in DOMAIN g.recs : x # p /\ x # r => h.recs[x] = g.recs[x]
BY DEF KidDetached, AllFree

LEMMA DetachTree ==
  ASSUME NEW g \in Group, NEW home, TreeBy(g, home), NEW h, NEW p, NEW i, NEW r, NEW st,
         KidDetached(g, h, p, i, r, st)
  PROVE  Tree(h)
<1>1. /\ p \in DOMAIN g.recs /\ i \in Kids /\ Refers(g, p, i, r) /\ r # p
      /\ \A k \in Kids : g.recs[r].st[k] = "free"
      /\ st # "refined" /\ h.rt = g.rt /\ h.ref = g.ref /\ h.arena = g.arena
      /\ DOMAIN h.recs = DOMAIN g.recs \ {r} /\ h.recs[p].st[i] = st
      /\ \A k \in Kids : k # i => h.recs[p].st[k] = g.recs[p].st[k] /\ h.recs[p].ref[k] = g.recs[p].ref[k]
      /\ \A x \in DOMAIN g.recs : x # p /\ x # r => h.recs[x] = g.recs[x]
  BY KidDetachedFacts
<1> DEFINE hm == [x \in DOMAIN g.recs \ {r} |-> home[x]]
<1>2. \A x \in DOMAIN h.recs : hm[x] = home[x] /\ x \in DOMAIN g.recs /\ x # r
  BY <1>1
<1>3. hm \in [DOMAIN h.recs -> Places]
  BY <1>1, HomeFacts
<1> HIDE DEF hm
<1>4. Downward(g, home)
  BY Zenon DEF TreeBy
<1>5. ASSUME NEW x \in DOMAIN h.recs, NEW k \in Kids, h.recs[x].st[k] = "refined"
      PROVE  ~(x = p /\ k = i) /\ g.recs[x].st[k] = "refined" /\ h.recs[x].ref[k] = g.recs[x].ref[k]
  BY <1>1, <1>2, <1>5
<1>6. Downward(h, hm)
  <2>1. ASSUME NEW d \in Cells, h.rt[d] = "refined"
        PROVE  h.ref[d] \in DOMAIN h.recs /\ hm[h.ref[d]] = <<0, d, 0, 0>>
    <3>1. g.ref[d] \in DOMAIN g.recs /\ home[g.ref[d]] = <<0, d, 0, 0>>
      BY <1>1, <1>4, <2>1 DEF Downward
    <3>2. g.ref[d] # r
      BY <1>1, <2>1, ApartFromCells
    <3> QED BY <1>1, <1>2, <3>1, <3>2
  <2>2. ASSUME NEW x \in DOMAIN h.recs, NEW k \in Kids, h.recs[x].st[k] = "refined"
        PROVE  Inner(hm[x]) /\ h.recs[x].ref[k] \in DOMAIN h.recs /\ hm[h.recs[x].ref[k]] = Below(hm[x], k)
    <3>1. ~(x = p /\ k = i) /\ g.recs[x].st[k] = "refined" /\ h.recs[x].ref[k] = g.recs[x].ref[k]
      BY <1>5, <2>2
    <3>2. x \in DOMAIN g.recs /\ hm[x] = home[x]
      BY <1>2
    <3>3. Inner(home[x]) /\ g.recs[x].ref[k] \in DOMAIN g.recs /\ home[g.recs[x].ref[k]] = Below(home[x], k)
      BY <1>4, <3>1, <3>2, Zenon DEF Downward
    <3>4. g.recs[x].ref[k] # r
      BY <1>1, <3>1, <3>2, Apart DEF Refers
    <3> QED BY <1>1, <1>2, <3>1, <3>2, <3>3, <3>4
  <2> QED BY <2>1, <2>2, Zenon DEF Downward
<1>7. Upward(h, hm)
  <2>1. ASSUME NEW x \in DOMAIN h.recs, hm[x][1] = 0 PROVE h.rt[hm[x][2]] = "refined" /\ h.ref[hm[x][2]] = x
    <3>1. x \in DOMAIN g.recs /\ hm[x] = home[x]
      BY <1>2
    <3>2. g.rt[home[x][2]] = "refined" /\ g.ref[home[x][2]] = x
      BY <2>1, <3>1, Zenon DEF TreeBy, Upward
    <3> QED BY <1>1, <3>1, <3>2
  <2>2. ASSUME NEW x \in DOMAIN h.recs, hm[x][1] # 0
        PROVE  \E q \in DOMAIN h.recs : \E k \in Kids : Refers(h, q, k, x)
    <3>1. x \in DOMAIN g.recs /\ home[x][1] # 0 /\ x # r
      BY <1>2, <2>2
    <3>2. PICK q \in DOMAIN g.recs : \E k \in Kids : Refers(g, q, k, x)
      BY <3>1, Zenon DEF TreeBy, Upward
    <3>3. PICK k \in Kids : Refers(g, q, k, x)
      BY <3>2
    <3>4. ~(q = p /\ k = i) /\ q # r
      BY <1>1, <3>1, <3>3 DEF Refers
    <3>5. Refers(h, q, k, x)
      BY <1>1, <3>3, <3>4 DEF Refers
    <3> QED BY <1>1, <3>4, <3>5
  <2> QED BY <2>1, <2>2, Zenon DEF Upward
<1>8. InTables(h)
  BY <1>1 DEF TreeBy, InTables
<1>9. SlotBlocksPadded(h, hm)
  <2>1. \A x \in DOMAIN g.recs : ~Inner(home[x]) => \A s \in Kids : s >= Slots => g.recs[x].st[s] = "free"
    BY Zenon DEF TreeBy, SlotBlocksPadded
  <2>2. Inner(home[p])
    BY <1>1, <1>4 DEF Downward, Refers
  <2> QED BY <1>1, <1>2, <2>1, <2>2 DEF SlotBlocksPadded
<1>10. ArenaSound(h)
  BY <1>1, Zenon DEF TreeBy, ArenaSound, Arena
<1> QED BY <1>3, <1>6, <1>7, <1>8, <1>9, <1>10, Zenon DEF TreeBy, Tree

LEMMA DetachElsewhere ==
  ASSUME NEW g, NEW home, TreeBy(g, home), NEW h, NEW p, NEW i, NEW r, NEW st,
         KidDetached(g, h, p, i, r, st), NEW b \in Blocks,
         ~(Is0(g, b) /\ R0(g, b) = p /\ KidOf(b) = i), ~(Is1(g, b) /\ R1(g, b) = p /\ LeafOf(b) = i)
  PROVE  SameView(g, h, b)
<1>1. /\ p \in DOMAIN g.recs /\ i \in Kids /\ Refers(g, p, i, r) /\ h.rt = g.rt /\ h.ref = g.ref
      /\ \A k \in Kids : k # i => h.recs[p].st[k] = g.recs[p].st[k] /\ h.recs[p].ref[k] = g.recs[p].ref[k]
      /\ \A x \in DOMAIN g.recs : x # p /\ x # r => h.recs[x] = g.recs[x]
  BY KidDetachedFacts
<1>2. CellOf(b) \in Cells /\ KidOf(b) \in Kids /\ LeafOf(b) \in Kids
  BY OfFacts
<1>3. Inner(home[p])
  BY <1>1, Zenon DEF TreeBy, Downward, Refers
<1>4. /\ Is0(g, b) => R0(g, b) \in DOMAIN g.recs
      /\ Is1(g, b) => R1(g, b) \in DOMAIN g.recs /\ Is0(g, b)
      /\ Is2(g, b) => R2(g, b) \in DOMAIN g.recs /\ R2(g, b) # p /\ Is1(g, b)
  <2>1. Is2(g, b) => home[R2(g, b)][1] = 2
    BY Down
  <2> QED BY <1>3, <2>1, Down, Zenon DEF Inner, Is1, Is2
<1>5. Is0(g, b) => R0(g, b) # r
  BY <1>1, <1>2, ApartFromCells DEF Is0, R0
<1>6. Is1(g, b) => R1(g, b) # r
  <2> SUFFICES ASSUME Is1(g, b), R1(g, b) = r PROVE FALSE
    OBVIOUS
  <2>1. Refers(g, R0(g, b), KidOf(b), r)
    BY DEF Is1, R1, Refers
  <2>2. R0(g, b) = p /\ KidOf(b) = i
    BY <1>1, <1>2, <1>4, <2>1, Apart
  <2> QED BY <1>4, <2>2
<1>7. Is2(g, b) => R2(g, b) # r
  <2> SUFFICES ASSUME Is2(g, b), R2(g, b) = r PROVE FALSE
    OBVIOUS
  <2>1. Refers(g, R1(g, b), LeafOf(b), r)
    BY DEF Is2, R2, Refers
  <2>2. R1(g, b) = p /\ LeafOf(b) = i
    BY <1>1, <1>2, <1>4, <2>1, Apart
  <2> QED BY <1>4, <2>2
<1>8. R0(h, b) = R0(g, b) /\ h.rt[CellOf(b)] = g.rt[CellOf(b)]
  BY <1>1 DEF R0
<1>9. Is0(g, b) => /\ h.recs[R0(g, b)].st[KidOf(b)] = g.recs[R0(g, b)].st[KidOf(b)]
                   /\ h.recs[R0(g, b)].ref[KidOf(b)] = g.recs[R0(g, b)].ref[KidOf(b)]
  BY <1>1, <1>2, <1>4, <1>5
<1>10. Is1(g, b) => R1(h, b) = R1(g, b)
  BY <1>4, <1>8, <1>9 DEF R1
<1>11. Is1(g, b) => /\ h.recs[R1(g, b)].st[LeafOf(b)] = g.recs[R1(g, b)].st[LeafOf(b)]
                    /\ h.recs[R1(g, b)].ref[LeafOf(b)] = g.recs[R1(g, b)].ref[LeafOf(b)]
  BY <1>1, <1>2, <1>4, <1>6
<1>12. Is2(g, b) => R2(h, b) = R2(g, b) /\ h.recs[R2(g, b)].st = g.recs[R2(g, b)].st
  <2>1. Is2(g, b) => R2(h, b) = R2(g, b)
    BY <1>4, <1>10, <1>11 DEF R2
  <2> QED BY <1>1, <1>4, <1>7, <2>1
<1>13. SameWay(g, h, b)
  BY <1>8, <1>9, <1>10, <1>11, <1>12, Zenon DEF SameWay
<1> QED BY <1>13, SameWaySees

LEMMA DetachKid ==
  ASSUME NEW g \in Group, NEW home, TreeBy(g, home), NEW h, NEW p, NEW i, NEW r,
         KidDetached(g, h, p, i, r, "free"), home[p][1] = 0
  PROVE  Tree(h) /\ \A b \in Blocks : Alike(g, h, b)
<1>1. Tree(h)
  BY DetachTree
<1>2. ASSUME NEW b \in Blocks PROVE Alike(g, h, b)
  <2>1. Is1(g, b) => home[R1(g, b)][1] = 1
    BY Down
  <2>2. CASE ~(Is0(g, b) /\ R0(g, b) = p /\ KidOf(b) = i)
    <3>1. ~(Is1(g, b) /\ R1(g, b) = p /\ LeafOf(b) = i)
      BY <2>1
    <3>2. SameView(g, h, b)
      BY <2>2, <3>1, DetachElsewhere
    <3> QED BY <3>2 DEF Alike
  <2>3. CASE Is0(g, b) /\ R0(g, b) = p /\ KidOf(b) = i
    <3>1. /\ Refers(g, p, i, r) /\ \A k \in Kids : g.recs[r].st[k] = "free"
          /\ h.rt = g.rt /\ h.ref = g.ref /\ h.recs[p].st[i] = "free"
      BY KidDetachedFacts
    <3>2. Is1(g, b) /\ R1(g, b) = r
      BY <2>3, <3>1 DEF Is1, R1, Refers
    <3>3. StateOf(g, b) = "free"
      BY <3>1, <3>2, Unfolded, OfFacts
    <3>4. Is0(h, b) /\ R0(h, b) = p
      BY <2>3, <3>1 DEF Is0, R0
    <3>5. ~Is1(h, b)
      BY <2>3, <3>1, <3>4 DEF Is1
    <3>6. StateOf(h, b) = "free"
      BY <2>3, <3>1, <3>4, <3>5, Unfolded
    <3> QED BY <3>3, <3>6 DEF Alike
  <2> QED BY <2>2, <2>3
<1> QED BY <1>1, <1>2

(* A slot block whose slots are all free becomes a full block. *)
LEMMA DetachSlots ==
  ASSUME NEW g \in Group, NEW home, TreeBy(g, home), NEW h, NEW p, NEW i, NEW r,
         KidDetached(g, h, p, i, r, "full"), home[p][1] = 1
  PROVE  /\ Tree(h)
         /\ \A b \in Blocks :
              IF Is1(g, b) /\ R1(g, b) = p /\ LeafOf(b) = i
              THEN Is2(g, b) /\ StateOf(h, b) = "full" /\ UnitOf(h, b) = 1 /\ ~Is2(h, b)
              ELSE SameView(g, h, b)
<1>1. Tree(h)
  BY DetachTree
<1>2. ASSUME NEW b \in Blocks, ~(Is1(g, b) /\ R1(g, b) = p /\ LeafOf(b) = i) PROVE SameView(g, h, b)
  <2>1. Is0(g, b) => home[R0(g, b)][1] = 0
    BY Down
  <2>2. ~(Is0(g, b) /\ R0(g, b) = p /\ KidOf(b) = i)
    BY <2>1
  <2> QED BY <1>2, <2>2, DetachElsewhere
<1>3. ASSUME NEW b \in Blocks, Is1(g, b) /\ R1(g, b) = p /\ LeafOf(b) = i
      PROVE  Is2(g, b) /\ StateOf(h, b) = "full" /\ UnitOf(h, b) = 1 /\ ~Is2(h, b)
  <2>1. Is0(g, b) /\ R0(g, b) \in DOMAIN g.recs /\ home[R0(g, b)][1] = 0 /\ CellOf(b) \in Cells
    BY <1>3, Down, OfFacts DEF Is1
  <2>2. /\ Refers(g, p, i, r) /\ h.rt = g.rt /\ h.ref = g.ref /\ h.recs[p].st[i] = "full"
        /\ \A x \in DOMAIN g.recs : x # p /\ x # r => h.recs[x] = g.recs[x]
        /\ p \in DOMAIN g.recs /\ i \in Kids
    BY KidDetachedFacts
  <2>3. R0(g, b) # p /\ R0(g, b) # r
    BY <2>1, <2>2, ApartFromCells DEF Is0, R0
  <2>4. Is0(h, b) /\ R0(h, b) = R0(g, b) /\ h.recs[R0(g, b)] = g.recs[R0(g, b)]
    BY <2>1, <2>2, <2>3 DEF Is0, R0
  <2>5. Is1(h, b) /\ R1(h, b) = p
    BY <1>3, <2>4 DEF Is1, R1
  <2>6. ~Is2(h, b) /\ UnitOf(h, b) = 1
    BY <1>3, <2>2, <2>4, <2>5 DEF Is2, UnitOf
  <2>7. StateOf(h, b) = "full"
    BY <1>3, <2>2, <2>5, Unfolded
  <2>8. Is2(g, b)
    BY <1>3, <2>2 DEF Is2, Refers
  <2> QED BY <2>6, <2>7, <2>8
<1> QED BY <1>1, <1>2, <1>3

-----------------------------------------------------------------------------
(* Counters *)

InState(g, S) == {b \in Blocks : StateOf(g, b) \in S}

Balanced(g) ==
  /\ g.free = Cardinality(InState(g, {"free"}))
  /\ g.rsvd = Cardinality(InState(g, {"rsvd"}))
  /\ g.full = Cardinality(InState(g, {"full", "refined"}))

Good(g) == g \in Group /\ Tree(g) /\ Balanced(g)

SameCounters(g, h) == h.free = g.free /\ h.rsvd = g.rsvd /\ h.full = g.full

LEMMA InStateFinite ==
  ASSUME NEW g, NEW S
  PROVE  IsFiniteSet(InState(g, S)) /\ Cardinality(InState(g, S)) \in Nat
<1>1. IsFiniteSet(Blocks)
  BY Sizes2, FS_Interval DEF Blocks
<1>2. InState(g, S) \in SUBSET Blocks
  BY DEF InState
<1> QED BY <1>1, <1>2, FS_Subset, FS_CardinalityType

LEMMA StillCounts ==
  ASSUME NEW g, NEW h, Balanced(g), \A b \in Blocks : StateOf(h, b) = StateOf(g, b), SameCounters(g, h)
  PROVE  Balanced(h)
<1>1. \A S : InState(h, S) = InState(g, S)
  BY DEF InState
<1> QED BY <1>1, Zenon DEF Balanced, SameCounters

(* The n blocks of T go from one state to another. *)
Moved(g, h, T, n, from, to) ==
  /\ T \in SUBSET Blocks /\ IsFiniteSet(T) /\ Cardinality(T) = n
  /\ \A b \in T : StateOf(g, b) = from /\ StateOf(h, b) = to
  /\ \A b \in Blocks \ T : StateOf(h, b) = StateOf(g, b)

LEMMA MovedOut ==
  ASSUME NEW g, NEW h, NEW T, NEW n, NEW from, NEW to, Moved(g, h, T, n, from, to), NEW S, from \in S, to \notin S
  PROVE  Cardinality(InState(h, S)) = Cardinality(InState(g, S)) - n
<1>1. InState(h, S) = InState(g, S) \ T /\ InState(g, S) \cap T = T
  BY DEF Moved, InState
<1>2. Cardinality(InState(g, S) \ T) = Cardinality(InState(g, S)) - Cardinality(InState(g, S) \cap T)
  BY InStateFinite, FS_Difference
<1> QED BY <1>1, <1>2 DEF Moved

LEMMA MovedIn ==
  ASSUME NEW g, NEW h, NEW T, NEW n, NEW from, NEW to, Moved(g, h, T, n, from, to), NEW S, from \notin S, to \in S
  PROVE  Cardinality(InState(h, S)) = Cardinality(InState(g, S)) + n
<1>1. InState(g, S) = InState(h, S) \ T /\ InState(h, S) \cap T = T
  BY DEF Moved, InState
<1>2. Cardinality(InState(h, S) \ T) = Cardinality(InState(h, S)) - Cardinality(InState(h, S) \cap T)
  BY InStateFinite, FS_Difference
<1>3. n \in Nat /\ Cardinality(T) = n
  BY FS_CardinalityType DEF Moved
<1>4. Cardinality(InState(g, S)) \in Nat /\ Cardinality(InState(h, S)) \in Nat
  BY InStateFinite
<1>5. Cardinality(InState(g, S)) = Cardinality(InState(h, S)) - n
  BY <1>1, <1>2, <1>3
<1> QED BY <1>3, <1>4, <1>5

LEMMA MovedPast ==
  ASSUME NEW g, NEW h, NEW T, NEW n, NEW from, NEW to, Moved(g, h, T, n, from, to), NEW S, from \in S <=> to \in S
  PROVE  Cardinality(InState(h, S)) = Cardinality(InState(g, S))
<1>1. InState(h, S) = InState(g, S)
  BY DEF Moved, InState
<1> QED BY <1>1

LEMMA FilledCounts ==
  ASSUME NEW g, NEW h, Balanced(g), NEW T, NEW n, Moved(g, h, T, n, "free", "full"),
         h.free = g.free - n, h.full = g.full + n, h.rsvd = g.rsvd
  PROVE  Balanced(h)
<1>1. Cardinality(InState(h, {"free"})) = Cardinality(InState(g, {"free"})) - n
  BY MovedOut
<1>2. Cardinality(InState(h, {"full", "refined"})) = Cardinality(InState(g, {"full", "refined"})) + n
  BY MovedIn
<1>3. Cardinality(InState(h, {"rsvd"})) = Cardinality(InState(g, {"rsvd"}))
  BY MovedPast
<1> QED BY <1>1, <1>2, <1>3, Zenon DEF Balanced

LEMMA FreedCounts ==
  ASSUME NEW g, NEW h, Balanced(g), NEW T, NEW n, Moved(g, h, T, n, "full", "free"),
         h.free = g.free + n, h.full = g.full - n, h.rsvd = g.rsvd
  PROVE  Balanced(h)
<1>1. Cardinality(InState(h, {"free"})) = Cardinality(InState(g, {"free"})) + n
  BY MovedIn
<1>2. Cardinality(InState(h, {"full", "refined"})) = Cardinality(InState(g, {"full", "refined"})) - n
  BY MovedOut
<1>3. Cardinality(InState(h, {"rsvd"})) = Cardinality(InState(g, {"rsvd"}))
  BY MovedPast
<1> QED BY <1>1, <1>2, <1>3, Zenon DEF Balanced

LEMMA ReservedCounts ==
  ASSUME NEW g, NEW h, Balanced(g), NEW T, NEW n, Moved(g, h, T, n, "free", "rsvd"),
         h.free = g.free - n, h.rsvd = g.rsvd + n, h.full = g.full
  PROVE  Balanced(h)
<1>1. Cardinality(InState(h, {"free"})) = Cardinality(InState(g, {"free"})) - n
  BY MovedOut
<1>2. Cardinality(InState(h, {"rsvd"})) = Cardinality(InState(g, {"rsvd"})) + n
  BY MovedIn
<1>3. Cardinality(InState(h, {"full", "refined"})) = Cardinality(InState(g, {"full", "refined"}))
  BY MovedPast
<1> QED BY <1>1, <1>2, <1>3, Zenon DEF Balanced

-----------------------------------------------------------------------------
(* What is held *)

Unheld == {"free", "rsvd"}
HeldAlike(g, h, b) == SameView(g, h, b) \/ (StateOf(g, b) \in Unheld /\ StateOf(h, b) \in Unheld)

(* Nothing that is held changes but the blocks of T, nor what the slots    *)
(* hold.                                                                   *)
HeldKept(g, h, T) ==
  /\ \A b \in Blocks \ T : HeldAlike(g, h, b)
  /\ h.slots = g.slots /\ h.inoHint = g.inoHint

Taken(g, h, T, u) ==
  \A b \in T : StateOf(g, b) \in Unheld /\ StateOf(h, b) = "full" /\ UnitOf(h, b) = u
Released(g, h, T, u) ==
  \A b \in T : StateOf(g, b) = "full" /\ UnitOf(g, b) = u /\ StateOf(h, b) \in Unheld

(* Records without a child in use. *)
Loose(g) == {r \in DOMAIN g.recs : AllFree(g.recs[r])}

LEMMA AlikeHeld ==
  ASSUME NEW g, NEW h, NEW b, Alike(g, h, b)
  PROVE  HeldAlike(g, h, b) /\ StateOf(h, b) = StateOf(g, b)
BY DEF Alike, HeldAlike, SameView, Unheld

LEMMA HeldTwice ==
  ASSUME NEW g, NEW h, NEW k, NEW b, HeldAlike(g, h, b), HeldAlike(h, k, b)
  PROVE  HeldAlike(g, k, b)
BY Zenon DEF HeldAlike, SameView

LEMMA KeptTwice ==
  ASSUME NEW g, NEW h, NEW k, NEW T, NEW U, HeldKept(g, h, T), HeldKept(h, k, U)
  PROVE  HeldKept(g, k, T \cup U)
<1>1. \A b \in Blocks : b \notin T \cup U => HeldAlike(g, h, b) /\ HeldAlike(h, k, b)
  BY DEF HeldKept
<1>2. \A b \in Blocks : b \notin T \cup U => HeldAlike(g, k, b)
  BY <1>1, HeldTwice
<1> QED BY <1>2 DEF HeldKept

-----------------------------------------------------------------------------
(* Table records *)

(* What tbl_alloc_rec does before it takes a record: nothing when the      *)
(* arena has room, else it starts an arena.                                *)
OldArena(g, h) ==
  ArenaRoom(g) # {} /\ h.rt = g.rt /\ h.arena = g.arena /\ h.free = g.free /\ h.rsvd = g.rsvd
NewArena(g, h, c) ==
  /\ ArenaRoom(g) = {} /\ c \in FreeCells(g)
  /\ h.rt[c] = "rsvd" /\ \A d \in Cells \ {c} : h.rt[d] = g.rt[d]
  /\ h.arena = c * CellBlocks
  /\ h.free = g.free - CellBlocks /\ h.rsvd = g.rsvd + CellBlocks
Reserved(g, h) ==
  /\ h.ref = g.ref /\ h.recs = g.recs /\ h.slots = g.slots
  /\ h.inoHint = g.inoHint /\ h.cellHint = g.cellHint /\ h.full = g.full
  /\ OldArena(g, h) \/ \E c \in Cells : NewArena(g, h, c)

RecordTaken(h, k, r) ==
  /\ OnlyRecs(h, k) /\ DOMAIN k.recs = DOMAIN h.recs \cup {r} /\ k.recs[r] = ZeroRecord
  /\ \A x \in DOMAIN h.recs \ {r} : k.recs[x] = h.recs[x]

(* A record of table block b is not in use. *)
RoomIn(g, b) == \E i \in 0 .. RecordsPerBlock - 1 : <<b, i>> \notin DOMAIN g.recs

LEMMA FreeCellsFacts ==
  ASSUME NEW g, FreeCells(g) # {}
  PROVE  /\ FreeCells(g) \in SUBSET Nat
         /\ Min(FreeCells(g)) \in Cells /\ g.rt[Min(FreeCells(g))] = "free"
<1>1. FreeCells(g) \in SUBSET Nat
  BY BlocksType DEF FreeCells
<1>2. Min(FreeCells(g)) \in FreeCells(g)
  BY <1>1, MinIsLeast
<1> QED BY <1>1, <1>2 DEF FreeCells

LEMMA TakeRecord ==
  ASSUME NEW g \in Group, NEW h \in Group, h.recs = g.recs, NEW r \in Refs, NEW k,
         OnlyRecs(h, k), k.recs = PutRecord(g, r, ZeroRecord).recs
  PROVE  RecordTaken(h, k, r)
<1>1. /\ DOMAIN PutRecord(g, r, ZeroRecord).recs = DOMAIN g.recs \cup {r}
      /\ PutRecord(g, r, ZeroRecord).recs[r] = ZeroRecord
      /\ \A x \in DOMAIN g.recs \ {r} : PutRecord(g, r, ZeroRecord).recs[x] = g.recs[x]
  BY PutFacts, ZeroFacts
<1> QED BY <1>1, Zenon DEF RecordTaken

LEMMA AllocRecordOld ==
  ASSUME NEW g \in Group, ArenaSound(g), ArenaRoom(g) # {}
  PROVE  /\ AllocRecord(g).ok /\ AllocRecord(g).g \in Group
         /\ \E h \in Group : /\ Reserved(g, h) /\ Fresh(h, AllocRecord(g).val)
                             /\ RecordTaken(h, AllocRecord(g).g, AllocRecord(g).val)
<1> DEFINE b == FirstFrom(ArenaRoom(g), IF g.tblHint \in Arena(g) THEN g.tblHint ELSE g.arena)
           i == Min({n \in 0 .. RecordsPerBlock - 1 : <<b, n>> \notin DOMAIN g.recs})
           put == PutRecord(g, <<b, i>>, ZeroRecord)
           h == [g EXCEPT !.tblHint = b]
<1>1. AllocRecord(g) = Done([put EXCEPT !.tblHint = b], <<b, i>>)
  BY Zenon DEF AllocRecord
<1>2. b \in Blocks /\ RoomIn(g, b) /\ g.rt[CellOf(b)] = "rsvd"
  <2>1. \A x \in Arena(g) : x \in Blocks /\ g.rt[CellOf(x)] = "rsvd"
    BY DEF ArenaSound
  <2>2. ArenaRoom(g) \in SUBSET Nat
    BY <2>1, BlocksType DEF ArenaRoom
  <2>3. (IF g.tblHint \in Arena(g) THEN g.tblHint ELSE g.arena) \in Nat
    BY GroupFacts, BlocksType
  <2>4. b \in ArenaRoom(g)
    BY <2>2, <2>3, FirstIsIn
  <2> QED BY <2>1, <2>4 DEF ArenaRoom, RoomIn
<1> HIDE DEF b
<1>3. i \in 0 .. RecordsPerBlock - 1 /\ <<b, i>> \notin DOMAIN g.recs
  <2>1. {n \in 0 .. RecordsPerBlock - 1 : <<b, n>> \notin DOMAIN g.recs} \in SUBSET Nat
    OBVIOUS
  <2>2. {n \in 0 .. RecordsPerBlock - 1 : <<b, n>> \notin DOMAIN g.recs} # {}
    BY <1>2 DEF RoomIn
  <2> QED BY <2>1, <2>2, MinIsLeast
<1> HIDE DEF i
<1>4. <<b, i>> \in Refs
  BY <1>2, <1>3 DEF Refs
<1>5. put \in Group /\ OnlyRecs(g, put)
  BY <1>4, PutFacts, ZeroFacts
<1> DEFINE k == [put EXCEPT !.tblHint = b]
<1>6. h \in Group /\ h.rt = g.rt /\ h.ref = g.ref /\ h.recs = g.recs /\ h.slots = g.slots /\ h.arena = g.arena
      /\ h.inoHint = g.inoHint /\ h.cellHint = g.cellHint /\ h.tblHint = b
      /\ h.free = g.free /\ h.rsvd = g.rsvd /\ h.full = g.full
  BY <1>2 DEF Group
<1> HIDE DEF put
<1>7. k \in Group /\ k.rt = put.rt /\ k.ref = put.ref /\ k.recs = put.recs /\ k.slots = put.slots /\ k.arena = put.arena
      /\ k.inoHint = put.inoHint /\ k.cellHint = put.cellHint /\ k.tblHint = b
      /\ k.free = put.free /\ k.rsvd = put.rsvd /\ k.full = put.full
  BY <1>2, <1>5 DEF Group
<1>8. AllocRecord(g).ok /\ AllocRecord(g).g = k /\ AllocRecord(g).val = <<b, i>>
  BY <1>1 DEF Done
<1> HIDE DEF h, k
<1>9. OnlyRecs(h, k)
  BY <1>5, <1>6, <1>7 DEF OnlyRecs
<1>10. RecordTaken(h, k, <<b, i>>)
  BY <1>4, <1>6, <1>7, <1>9, TakeRecord DEF put
<1>11. Reserved(g, h)
  BY <1>6 DEF Reserved, OldArena
<1>12. Fresh(h, <<b, i>>)
  BY <1>2, <1>3, <1>4, <1>6 DEF Fresh
<1> QED BY <1>6, <1>7, <1>8, <1>10, <1>11, <1>12

(* The step to a new arena b. *)
WithArena(g, rt, b, x, y) == [g EXCEPT !.rt = rt, !.arena = b, !.tblHint = b, !.free = x, !.rsvd = y]

LEMMA ArenaFacts ==
  ASSUME NEW g \in Group, NEW rt \in [Cells -> States], NEW b \in Blocks, NEW x \in Int, NEW y \in Int,
         NEW h, h = WithArena(g, rt, b, x, y)
  PROVE  /\ h \in Group /\ h.rt = rt /\ h.ref = g.ref /\ h.recs = g.recs /\ h.slots = g.slots /\ h.arena = b
         /\ h.inoHint = g.inoHint /\ h.cellHint = g.cellHint /\ h.tblHint = b
         /\ h.free = x /\ h.rsvd = y /\ h.full = g.full
<1> DEFINE f == [g EXCEPT !.rt = rt, !.arena = b, !.tblHint = b]
           e == [f EXCEPT !.free = x, !.rsvd = y]
<1>1. /\ f \in Group /\ f.rt = rt /\ f.ref = g.ref /\ f.recs = g.recs /\ f.slots = g.slots /\ f.arena = b
      /\ f.inoHint = g.inoHint /\ f.cellHint = g.cellHint /\ f.tblHint = b /\ f.full = g.full
  BY DEF Group
<1> HIDE DEF f
<1>2. /\ e \in Group /\ e.rt = f.rt /\ e.ref = f.ref /\ e.recs = f.recs /\ e.slots = f.slots /\ e.arena = f.arena
      /\ e.inoHint = f.inoHint /\ e.cellHint = f.cellHint /\ e.tblHint = f.tblHint
      /\ e.free = x /\ e.rsvd = y /\ e.full = f.full
  BY <1>1 DEF Group
<1>3. h = e
  BY Zenon DEF WithArena, f
<1> HIDE DEF e
<1> QED BY <1>1, <1>2, <1>3

LEMMA AllocRecordNew ==
  ASSUME NEW g \in Group, InTables(g), ArenaRoom(g) = {}, FreeCells(g) # {}
  PROVE  /\ AllocRecord(g).ok /\ AllocRecord(g).g \in Group
         /\ \E h \in Group : /\ Reserved(g, h) /\ Fresh(h, AllocRecord(g).val)
                             /\ RecordTaken(h, AllocRecord(g).g, AllocRecord(g).val)
<1> DEFINE c == Min(FreeCells(g))
           b == c * CellBlocks
           put == PutRecord(g, <<b, 0>>, ZeroRecord)
           h == [g EXCEPT !.rt[c] = "rsvd", !.arena = b, !.tblHint = b,
                          !.free = @ - CellBlocks, !.rsvd = @ + CellBlocks]
           k == [put EXCEPT !.rt[c] = "rsvd", !.arena = b, !.tblHint = b,
                            !.free = @ - CellBlocks, !.rsvd = @ + CellBlocks]
<1>1. AllocRecord(g) = Done(k, <<b, 0>>)
  BY Zenon DEF AllocRecord
<1>2. c \in Cells /\ g.rt[c] = "free" /\ c \in FreeCells(g)
  BY FreeCellsFacts DEF FreeCells
<1> HIDE DEF c
<1>3. b \in Blocks /\ CellOf(b) = c
  BY <1>2, BlocksType
<1> HIDE DEF b
<1>4. <<b, 0>> \in Refs /\ <<b, 0>> \notin DOMAIN g.recs
  <2>1. <<b, 0>> \in Refs
    BY <1>3, BlocksType DEF Refs
  <2>2. <<b, 0>>[1] = b
    OBVIOUS
  <2>3. <<b, 0>> \in DOMAIN g.recs => g.rt[CellOf(<<b, 0>>[1])] = "rsvd"
    BY Zenon DEF InTables
  <2> QED BY <1>2, <1>3, <2>1, <2>2, <2>3
<1>5. put \in Group /\ OnlyRecs(g, put)
  BY <1>4, PutFacts, ZeroFacts
<1> HIDE DEF put
<1>6. CellBlocks \in Int /\ "rsvd" \in States
  BY Sizes2 DEF States
<1>7. h \in Group /\ h.rt = [g.rt EXCEPT ![c] = "rsvd"] /\ h.ref = g.ref /\ h.recs = g.recs /\ h.slots = g.slots /\ h.arena = b
      /\ h.inoHint = g.inoHint /\ h.cellHint = g.cellHint /\ h.tblHint = b
      /\ h.free = g.free - CellBlocks /\ h.rsvd = g.rsvd + CellBlocks /\ h.full = g.full
  <2>1. g.rt \in [Cells -> States] /\ g.free \in Int /\ g.rsvd \in Int
    BY GroupFacts
  <2>2. [g.rt EXCEPT ![c] = "rsvd"] \in [Cells -> States]
    BY <1>6, <2>1
  <2>3. g.free - CellBlocks \in Int /\ g.rsvd + CellBlocks \in Int
    BY <1>6, <2>1
  <2>4. h = WithArena(g, [g.rt EXCEPT ![c] = "rsvd"], b, g.free - CellBlocks, g.rsvd + CellBlocks)
    BY DEF WithArena
  <2> HIDE DEF h
  <2> QED BY <1>3, <2>2, <2>3, <2>4, ArenaFacts
<1>8. k \in Group /\ k.rt = [put.rt EXCEPT ![c] = "rsvd"] /\ k.ref = put.ref /\ k.recs = put.recs /\ k.slots = put.slots /\ k.arena = b
      /\ k.inoHint = put.inoHint /\ k.cellHint = put.cellHint /\ k.tblHint = b
      /\ k.free = put.free - CellBlocks /\ k.rsvd = put.rsvd + CellBlocks /\ k.full = put.full
  <2>1. put.rt \in [Cells -> States] /\ put.free \in Int /\ put.rsvd \in Int
    BY <1>5, GroupFacts
  <2>2. [put.rt EXCEPT ![c] = "rsvd"] \in [Cells -> States]
    BY <1>6, <2>1
  <2>3. put.free - CellBlocks \in Int /\ put.rsvd + CellBlocks \in Int
    BY <1>6, <2>1
  <2>4. k = WithArena(put, [put.rt EXCEPT ![c] = "rsvd"], b, put.free - CellBlocks, put.rsvd + CellBlocks)
    BY DEF WithArena
  <2> HIDE DEF k
  <2> QED BY <1>3, <1>5, <2>2, <2>3, <2>4, ArenaFacts
<1>9. AllocRecord(g).ok /\ AllocRecord(g).g = k /\ AllocRecord(g).val = <<b, 0>>
  BY <1>1 DEF Done
<1> HIDE DEF h, k
<1>10. OnlyRecs(h, k)
  BY <1>5, <1>7, <1>8 DEF OnlyRecs
<1>11. RecordTaken(h, k, <<b, 0>>)
  BY <1>4, <1>7, <1>8, <1>10, TakeRecord DEF put
<1>12. h.rt[c] = "rsvd" /\ \A d \in Cells \ {c} : h.rt[d] = g.rt[d]
  <2>1. g.rt \in [Cells -> States]
    BY GroupFacts
  <2> QED BY <1>2, <1>7, <2>1
<1>13. Reserved(g, h)
  <2>1. NewArena(g, h, c)
    BY <1>2, <1>7, <1>12 DEF NewArena, b
  <2> QED BY <1>2, <1>7, <2>1 DEF Reserved
<1>14. Fresh(h, <<b, 0>>)
  BY <1>3, <1>4, <1>7, <1>12 DEF Fresh
<1> QED BY <1>7, <1>8, <1>9, <1>11, <1>13, <1>14

(* tbl_alloc_rec *)
LEMMA AllocRecordDone ==
  ASSUME NEW g \in Group, InTables(g), ArenaSound(g)
  PROVE  /\ AllocRecord(g).ok <=> ArenaRoom(g) # {} \/ FreeCells(g) # {}
         /\ ~AllocRecord(g).ok => AllocRecord(g).g = g
         /\ AllocRecord(g).ok =>
              /\ AllocRecord(g).g \in Group
              /\ \E h \in Group : /\ Reserved(g, h) /\ Fresh(h, AllocRecord(g).val)
                                  /\ RecordTaken(h, AllocRecord(g).g, AllocRecord(g).val)
<1>1. CASE ArenaRoom(g) # {}
  BY <1>1, AllocRecordOld
<1>2. CASE ArenaRoom(g) = {} /\ FreeCells(g) # {}
  BY <1>2, AllocRecordNew
<1>3. CASE ArenaRoom(g) = {} /\ FreeCells(g) = {}
  <2>1. AllocRecord(g) = Failed(g)
    BY <1>3 DEF AllocRecord
  <2> QED BY <1>3, <2>1 DEF Failed
<1> QED BY <1>1, <1>2, <1>3

LEMMA RunSize ==
  ASSUME NEW a \in Int, NEW n \in Nat \ {0}
  PROVE  IsFiniteSet(a .. a + n - 1) /\ Cardinality(a .. a + n - 1) = n
<1>1. a + n - 1 \in Int /\ a + n - 1 >= a
  OBVIOUS
<1>2. Cardinality(a .. a + n - 1) = (a + n - 1) - a + 1
  BY <1>1, FS_Interval
<1> QED BY <1>1, <1>2, FS_Interval

(* T are the n blocks of the cells S. *)
BlocksOf(S, T, n) ==
  /\ T \in SUBSET Blocks /\ IsFiniteSet(T) /\ Cardinality(T) = n
  /\ \A b \in Blocks : b \in T <=> CellOf(b) \in S

LEMMA BlocksOfRun ==
  ASSUME NEW c \in Cells, NEW k \in Nat \ {0}, c + k <= CellCount
  PROVE  BlocksOf(c .. c + k - 1, c * CellBlocks .. c * CellBlocks + k * CellBlocks - 1, k * CellBlocks)
<1> DEFINE n == k * CellBlocks
           T == c * CellBlocks .. c * CellBlocks + n - 1
<1>1. T \in SUBSET Blocks /\ \A b \in Blocks : b \in T <=> CellOf(b) \in c .. c + k - 1
  BY CellRun
<1>2. n \in Nat \ {0} /\ c * CellBlocks \in Int
  BY Sizes2, BlocksType
<1> HIDE DEF n
<1>3. IsFiniteSet(T) /\ Cardinality(T) = n
  BY <1>2, RunSize
<1> HIDE DEF T
<1>4. BlocksOf(c .. c + k - 1, T, n)
  BY <1>1, <1>3 DEF BlocksOf
<1> QED BY <1>4 DEF T, n

LEMMA BlocksOfCell ==
  ASSUME NEW c \in Cells
  PROVE  BlocksOf({c}, c * CellBlocks .. c * CellBlocks + CellBlocks - 1, CellBlocks)
<1>1. c + 1 <= CellCount /\ 1 * CellBlocks = CellBlocks /\ c .. c + 1 - 1 = {c} /\ 1 \in Nat \ {0}
  BY Sizes2 DEF Cells
<1>2. BlocksOf(c .. c + 1 - 1, c * CellBlocks .. c * CellBlocks + 1 * CellBlocks - 1, 1 * CellBlocks)
  BY <1>1, BlocksOfRun, Zenon
<1> QED BY <1>1, <1>2

(* Whole cells change their state. *)
UnitsMoved(g, h, T, n, from, to, u) ==
  /\ Tree(h) /\ Moved(g, h, T, n, from, to)
  /\ \A b \in Blocks \ T : SameView(g, h, b)
  /\ \A b \in T : UnitOf(g, b) = u /\ UnitOf(h, b) = u

LEMMA MarkBlocks ==
  ASSUME NEW g \in Group, Tree(g), NEW h, NEW S, NEW from, NEW to, Marked(g, h, S, to),
         \A d \in S : g.rt[d] = from, NEW n, NEW T, BlocksOf(S, T, n)
  PROVE  UnitsMoved(g, h, T, n, from, to, CellBlocks)
<1>1. T \in SUBSET Blocks /\ \A b \in Blocks : b \in T <=> CellOf(b) \in S
  BY DEF BlocksOf
<1>2. /\ Tree(h)
      /\ \A b \in Blocks : CellOf(b) \notin S => SameView(g, h, b)
      /\ \A b \in Blocks : CellOf(b) \in S =>
           /\ StateOf(g, b) = g.rt[CellOf(b)] /\ UnitOf(g, b) = CellBlocks
           /\ StateOf(h, b) = to /\ UnitOf(h, b) = CellBlocks
  BY MarkTree, Zenon
<1>3. /\ \A b \in Blocks \ T : SameView(g, h, b)
      /\ \A b \in T : /\ StateOf(g, b) = from /\ UnitOf(g, b) = CellBlocks
                      /\ StateOf(h, b) = to /\ UnitOf(h, b) = CellBlocks
  BY <1>1, <1>2
<1>4. Moved(g, h, T, n, from, to)
  <2>1. \A b \in Blocks \ T : StateOf(h, b) = StateOf(g, b)
    BY <1>3 DEF SameView
  <2> QED BY <1>3, <2>1, Zenon DEF Moved, BlocksOf
<1> QED BY <1>2, <1>3, <1>4, Zenon DEF UnitsMoved

LEMMA ReservedGood ==
  ASSUME NEW g, Good(g), NEW h \in Group, Reserved(g, h)
  PROVE  /\ Good(h) /\ HeldKept(g, h, {})
         /\ h.ref = g.ref /\ h.recs = g.recs
         /\ \A d \in Cells : g.rt[d] \in {"full", "refined"} => h.rt[d] = g.rt[d]
<1>1. h.ref = g.ref /\ h.recs = g.recs /\ h.slots = g.slots /\ h.inoHint = g.inoHint /\ h.full = g.full
  BY DEF Reserved
<1>2. g \in Group /\ Tree(g) /\ Balanced(g)
  BY DEF Good
<1>3. CASE OldArena(g, h)
  <2>1. h.rt = g.rt /\ h.arena = g.arena /\ SameCounters(g, h)
    BY <1>1, <1>3 DEF OldArena, SameCounters
  <2>2. Marked(g, h, {}, "free")
    BY <1>1, <2>1 DEF Marked
  <2>3. Tree(h) /\ \A b \in Blocks : SameView(g, h, b)
    BY <1>2, <2>2, MarkTree
  <2>4. Balanced(h)
    BY <1>2, <2>1, <2>3, StillCounts DEF SameView
  <2>5. HeldKept(g, h, {})
    BY <1>1, <2>3 DEF HeldKept, HeldAlike
  <2> QED BY <1>1, <2>1, <2>3, <2>4, <2>5 DEF Good
<1>4. ASSUME NEW c \in Cells, NewArena(g, h, c)
      PROVE  Good(h) /\ HeldKept(g, h, {}) /\ \A d \in Cells : g.rt[d] \in {"full", "refined"} => h.rt[d] = g.rt[d]
  <2>1. g.rt[c] = "free" /\ h.rt[c] = "rsvd" /\ (\A d \in Cells \ {c} : h.rt[d] = g.rt[d])
        /\ h.arena = c * CellBlocks /\ h.free = g.free - CellBlocks /\ h.rsvd = g.rsvd + CellBlocks
    BY <1>4 DEF NewArena, FreeCells
  <2> DEFINE T == c * CellBlocks .. c * CellBlocks + CellBlocks - 1
  <2> DEFINE S == {c}
  <2>2. Marked(g, h, S, "rsvd") /\ \A d \in S : g.rt[d] = "free"
    BY <1>1, <2>1 DEF Marked
  <2>3. BlocksOf(S, T, CellBlocks)
    BY BlocksOfCell
  <2> HIDE DEF S, T
  <2>4. /\ Tree(h) /\ T \in SUBSET Blocks
        /\ Moved(g, h, T, CellBlocks, "free", "rsvd")
        /\ \A b \in Blocks \ T : SameView(g, h, b)
        /\ \A b \in T : StateOf(g, b) = "free" /\ StateOf(h, b) = "rsvd"
    <3>1. T \in SUBSET Blocks
      BY <2>3 DEF BlocksOf
    <3>2. UnitsMoved(g, h, T, CellBlocks, "free", "rsvd", CellBlocks)
      BY <1>2, <2>2, <2>3, MarkBlocks
    <3> QED BY <3>1, <3>2, Zenon DEF UnitsMoved, Moved
  <2>5. Balanced(h)
    BY <1>1, <1>2, <2>1, <2>4, ReservedCounts
  <2>6. HeldKept(g, h, {})
    BY <1>1, <2>4 DEF HeldKept, HeldAlike, Unheld
  <2> QED BY <2>1, <2>4, <2>5, <2>6 DEF Good
<1> QED BY <1>1, <1>3, <1>4 DEF Reserved

LEMMA AlikeGood ==
  ASSUME NEW g, Good(g), NEW h \in Group, Tree(h), \A b \in Blocks : Alike(g, h, b),
         SameCounters(g, h), h.slots = g.slots, h.inoHint = g.inoHint
  PROVE  Good(h) /\ HeldKept(g, h, {})
<1>1. \A b \in Blocks : HeldAlike(g, h, b) /\ StateOf(h, b) = StateOf(g, b)
  BY AlikeHeld
<1>2. Balanced(h)
  BY <1>1, StillCounts DEF Good
<1> QED BY <1>1, <1>2 DEF Good, HeldKept


-----------------------------------------------------------------------------
(* Refining a cell or an L1 cell *)

(* Record r is new, and has nothing in use. *)
OneLoose(g, h, r) ==
  /\ r \in DOMAIN h.recs /\ r \notin DOMAIN g.recs /\ h.recs[r] = ZeroRecord
  /\ DOMAIN h.recs = DOMAIN g.recs \cup {r}

CellRefined(g, h, c, r) ==
  /\ Good(h) /\ HeldKept(g, h, {}) /\ OneLoose(g, h, r)
  /\ h.rt[c] = "refined" /\ h.ref[c] = r
  /\ \A x \in DOMAIN g.recs : h.recs[x] = g.recs[x]

LEMMA WithRtFacts ==
  ASSUME NEW g \in Group, NEW c \in Cells, NEW st \in States, NEW h, h = [g EXCEPT !.rt[c] = st]
  PROVE  /\ h \in Group /\ h.ref = g.ref /\ h.recs = g.recs /\ h.slots = g.slots /\ h.arena = g.arena
         /\ h.inoHint = g.inoHint /\ h.cellHint = g.cellHint /\ h.tblHint = g.tblHint
         /\ h.free = g.free /\ h.rsvd = g.rsvd /\ h.full = g.full
         /\ h.rt[c] = st /\ \A d \in Cells \ {c} : h.rt[d] = g.rt[d]
<1>1. /\ h \in Group /\ h.ref = g.ref /\ h.recs = g.recs /\ h.slots = g.slots /\ h.arena = g.arena
      /\ h.inoHint = g.inoHint /\ h.cellHint = g.cellHint /\ h.tblHint = g.tblHint
      /\ h.free = g.free /\ h.rsvd = g.rsvd /\ h.full = g.full /\ h.rt = [g.rt EXCEPT ![c] = st]
  BY DEF Group
<1>2. g.rt \in [Cells -> States]
  BY GroupFacts
<1> QED BY <1>1, <1>2

WithRef(g, c, r) == [g EXCEPT !.ref[c] = r]

LEMMA WithRefFacts ==
  ASSUME NEW g \in Group, NEW c \in Cells, NEW r \in Refs, NEW h, h = WithRef(g, c, r)
  PROVE  /\ h \in Group /\ h.rt = g.rt /\ h.recs = g.recs /\ h.slots = g.slots /\ h.arena = g.arena
         /\ h.inoHint = g.inoHint /\ h.cellHint = g.cellHint /\ h.tblHint = g.tblHint
         /\ h.free = g.free /\ h.rsvd = g.rsvd /\ h.full = g.full
         /\ h.ref[c] = r /\ \A d \in Cells \ {c} : h.ref[d] = g.ref[d]
<1>1. /\ h \in Group /\ h.rt = g.rt /\ h.recs = g.recs /\ h.slots = g.slots /\ h.arena = g.arena
      /\ h.inoHint = g.inoHint /\ h.cellHint = g.cellHint /\ h.tblHint = g.tblHint
      /\ h.free = g.free /\ h.rsvd = g.rsvd /\ h.full = g.full /\ h.ref = [g.ref EXCEPT ![c] = r]
  BY DEF Group, WithRef
<1>2. g.ref \in [Cells -> Refs]
  BY GroupFacts
<1> QED BY <1>1, <1>2

LEMMA TreeFacts ==
  ASSUME NEW g, Tree(g)
  PROVE  InTables(g) /\ ArenaSound(g) /\ g.rt[0] = "rsvd"
BY Zenon DEF Tree, TreeBy, ArenaSound

(* The state of the cell, flipped first. *)
LEMMA Flipped ==
  ASSUME NEW g \in Group, Tree(g), NEW c \in Cells, g.rt[c] = "free", NEW e, e = [g EXCEPT !.rt[c] = "refined"]
  PROVE  /\ e \in Group /\ InTables(e) /\ ArenaSound(e)
         /\ ArenaRoom(e) = ArenaRoom(g) /\ FreeCells(e) = FreeCells(g) \ {c}
         /\ e.rt[c] = "refined" /\ \A d \in Cells \ {c} : e.rt[d] = g.rt[d]
<1>1. /\ e \in Group /\ e.recs = g.recs /\ e.arena = g.arena /\ e.rt[c] = "refined"
      /\ \A d \in Cells \ {c} : e.rt[d] = g.rt[d]
  BY WithRtFacts DEF States
<1>2. \A d \in Cells : g.rt[d] = "rsvd" => e.rt[d] = "rsvd"
  BY <1>1
<1>3. InTables(e)
  <2>1. \A r \in DOMAIN g.recs : CellOf(r[1]) \in Cells
    BY InTablesType
  <2> QED BY <1>1, <1>2, <2>1, TreeFacts DEF InTables
<1>4. Arena(e) = Arena(g)
  BY <1>1 DEF Arena
<1>5. ArenaSound(e)
  <2>1. \A b \in Arena(g) : b \in Blocks /\ g.rt[CellOf(b)] = "rsvd"
    BY TreeFacts DEF ArenaSound
  <2>2. \A b \in Arena(g) : CellOf(b) \in Cells
    BY <2>1, OfFacts
  <2> QED BY <1>2, <1>4, <2>1, <2>2, TreeFacts, BlocksType DEF ArenaSound
<1>6. ArenaRoom(e) = ArenaRoom(g)
  BY <1>1, <1>4 DEF ArenaRoom
<1>7. FreeCells(e) = FreeCells(g) \ {c}
  BY <1>1 DEF FreeCells
<1> QED BY <1>1, <1>3, <1>5, <1>6, <1>7

LEMMA Unflipped ==
  ASSUME NEW g \in Group, Tree(g), NEW c \in Cells, g.rt[c] = "free", NEW e, e = [g EXCEPT !.rt[c] = "refined"],
         NEW f \in Group, Reserved(e, f), NEW h, h = [f EXCEPT !.rt[c] = "free"]
  PROVE  h \in Group /\ Reserved(g, h) /\ f.rt[c] = "refined"
<1>1. /\ h \in Group /\ h.ref = f.ref /\ h.recs = f.recs /\ h.slots = f.slots /\ h.arena = f.arena
      /\ h.inoHint = f.inoHint /\ h.cellHint = f.cellHint /\ h.free = f.free /\ h.rsvd = f.rsvd /\ h.full = f.full
      /\ h.rt[c] = "free" /\ \A d \in Cells \ {c} : h.rt[d] = f.rt[d]
  BY WithRtFacts DEF States
<1>2. /\ e \in Group /\ e.ref = g.ref /\ e.recs = g.recs /\ e.slots = g.slots /\ e.arena = g.arena
      /\ e.inoHint = g.inoHint /\ e.cellHint = g.cellHint /\ e.free = g.free /\ e.rsvd = g.rsvd /\ e.full = g.full
      /\ e.rt[c] = "refined" /\ \A d \in Cells \ {c} : e.rt[d] = g.rt[d]
  BY WithRtFacts DEF States
<1>3. ArenaRoom(e) = ArenaRoom(g) /\ FreeCells(e) = FreeCells(g) \ {c}
  BY Flipped
<1>4. g.rt \in [Cells -> States] /\ h.rt \in [Cells -> States]
  BY <1>1, GroupFacts
<1>5. /\ h.ref = g.ref /\ h.recs = g.recs /\ h.slots = g.slots
      /\ h.inoHint = g.inoHint /\ h.cellHint = g.cellHint /\ h.full = g.full
  BY <1>1, <1>2 DEF Reserved
<1>6. CASE OldArena(e, f)
  <2>1. h.rt = g.rt
    <3>1. f.rt = e.rt
      BY <1>6 DEF OldArena
    <3>2. \A d \in Cells : h.rt[d] = g.rt[d]
      BY <1>1, <1>2, <3>1
    <3> QED BY <1>4, <3>2
  <2>2. OldArena(g, h)
    BY <1>1, <1>2, <1>3, <1>6, <2>1 DEF OldArena
  <2>3. f.rt[c] = "refined"
    BY <1>2, <1>6 DEF OldArena
  <2> QED BY <1>1, <1>5, <2>2, <2>3 DEF Reserved
<1>7. ASSUME NEW a \in Cells, NewArena(e, f, a)
      PROVE  Reserved(g, h) /\ f.rt[c] = "refined"
  <2>1. /\ ArenaRoom(e) = {} /\ a \in FreeCells(e) /\ f.rt[a] = "rsvd" /\ (\A d \in Cells \ {a} : f.rt[d] = e.rt[d])
        /\ f.arena = a * CellBlocks /\ f.free = e.free - CellBlocks /\ f.rsvd = e.rsvd + CellBlocks
    BY <1>7 DEF NewArena
  <2>2. a # c /\ a \in FreeCells(g)
    BY <1>3, <2>1
  <2>3. h.rt[a] = "rsvd" /\ \A d \in Cells \ {a} : h.rt[d] = g.rt[d]
    BY <1>1, <1>2, <2>1, <2>2
  <2>4. NewArena(g, h, a)
    BY <1>1, <1>2, <1>3, <2>1, <2>2, <2>3, Zenon DEF NewArena
  <2>5. f.rt[c] = "refined"
    BY <1>2, <2>1, <2>2
  <2> QED BY <1>5, <2>4, <2>5 DEF Reserved
<1> QED BY <1>1, <1>6, <1>7 DEF Reserved

LEMMA RefineL0Done ==
  ASSUME NEW g, Good(g), NEW c \in Cells, g.rt[c] = "free"
  PROVE  /\ RefineL0(g, c).g \in Group
         /\ RefineL0(g, c).ok <=> ArenaRoom(g) # {} \/ FreeCells(g) \ {c} # {}
         /\ RefineL0(g, c).ok => CellRefined(g, RefineL0(g, c).g, c, RefineL0(g, c).val)
<1> DEFINE e == [g EXCEPT !.rt[c] = "refined"]
           a == AllocRecord(e)
           k == [a.g EXCEPT !.ref[c] = a.val]
<1>1. g \in Group /\ Tree(g) /\ Balanced(g)
  BY DEF Good
<1>2. /\ e \in Group /\ InTables(e) /\ ArenaSound(e) /\ e.rt[c] = "refined"
      /\ ArenaRoom(e) = ArenaRoom(g) /\ FreeCells(e) = FreeCells(g) \ {c}
  BY <1>1, Flipped
<1>3. RefineL0(g, c) = IF a.ok THEN Done(k, a.val) ELSE a
  BY Zenon DEF RefineL0, Then
<1>4. /\ a.ok <=> ArenaRoom(g) # {} \/ FreeCells(g) \ {c} # {}
      /\ ~a.ok => a.g = e
      /\ a.ok => a.g \in Group /\ \E f \in Group : Reserved(e, f) /\ Fresh(f, a.val) /\ RecordTaken(f, a.g, a.val)
  <2> HIDE DEF e
  <2> QED BY <1>2, AllocRecordDone
<1> HIDE DEF a
<1>5. CASE ~a.ok
  BY <1>2, <1>3, <1>4, <1>5
<1>6. CASE a.ok
  <2>1. PICK f \in Group : Reserved(e, f) /\ Fresh(f, a.val) /\ RecordTaken(f, a.g, a.val)
    BY <1>4, <1>6
  <2> DEFINE h == [f EXCEPT !.rt[c] = "free"]
             r == a.val
  <2>14. h = [f EXCEPT !.rt[c] = "free"]
    OBVIOUS
  <2>2. h \in Group /\ Reserved(g, h) /\ f.rt[c] = "refined"
    BY <1>1, <2>1, Unflipped
  <2> HIDE DEF h
  <2>3. /\ h.ref = f.ref /\ h.recs = f.recs /\ h.slots = f.slots /\ h.arena = f.arena
        /\ h.inoHint = f.inoHint /\ h.free = f.free /\ h.rsvd = f.rsvd /\ h.full = f.full
        /\ h.rt[c] = "free" /\ \A d \in Cells \ {c} : h.rt[d] = f.rt[d]
    BY <2>14, WithRtFacts DEF States
  <2>4. Good(h) /\ HeldKept(g, h, {}) /\ h.recs = g.recs
    BY <2>2, ReservedGood
  <2>5. r \in Refs /\ r \notin DOMAIN f.recs /\ f.rt[CellOf(r[1])] = "rsvd"
    BY <2>1 DEF Fresh
  <2>6. /\ a.g.rt = f.rt /\ a.g.ref = f.ref /\ a.g.slots = f.slots /\ a.g.arena = f.arena
        /\ a.g.inoHint = f.inoHint /\ a.g.free = f.free /\ a.g.rsvd = f.rsvd /\ a.g.full = f.full
        /\ DOMAIN a.g.recs = DOMAIN f.recs \cup {r} /\ a.g.recs[r] = ZeroRecord
        /\ \A x \in DOMAIN f.recs \ {r} : a.g.recs[x] = f.recs[x]
    BY <2>1, Zenon DEF RecordTaken, OnlyRecs
  <2> DEFINE q == a.g
  <2>15. k = WithRef(q, c, r) /\ q \in Group
    BY <1>4, <1>6 DEF WithRef
  <2> HIDE DEF k, r, q
  <2>16. /\ k \in Group /\ k.rt = q.rt /\ k.recs = q.recs /\ k.slots = q.slots /\ k.arena = q.arena
        /\ k.inoHint = q.inoHint /\ k.free = q.free /\ k.rsvd = q.rsvd /\ k.full = q.full
        /\ k.ref[c] = r /\ \A d \in Cells \ {c} : k.ref[d] = q.ref[d]
    BY <2>5, <2>15, WithRefFacts
  <2>7. /\ k \in Group /\ k.rt = a.g.rt /\ k.recs = a.g.recs /\ k.slots = a.g.slots /\ k.arena = a.g.arena
        /\ k.inoHint = a.g.inoHint /\ k.free = a.g.free /\ k.rsvd = a.g.rsvd /\ k.full = a.g.full
        /\ k.ref[c] = r /\ \A d \in Cells \ {c} : k.ref[d] = a.g.ref[d]
    BY <2>16 DEF q
  <2>8. CellAttached(h, k, c, r)
    <3>1. CellOf(r[1]) # c /\ CellOf(r[1]) \in Cells
      <4>1. r[1] \in Blocks
        BY <2>5 DEF Refs
      <4> QED BY <2>2, <2>5, <4>1, OfFacts
    <3>2. Fresh(h, r)
      BY <2>3, <2>5, <3>1 DEF Fresh
    <3> QED BY <2>2, <2>3, <2>5, <2>6, <2>7, <3>2 DEF CellAttached
  <2>9. Tree(k) /\ \A b \in Blocks : Alike(h, k, b)
    BY <2>4, <2>8, AttachCell DEF Good
  <2>10. Good(k) /\ HeldKept(h, k, {})
    BY <2>3, <2>4, <2>6, <2>7, <2>9, AlikeGood DEF SameCounters
  <2>11. HeldKept(g, k, {})
    BY <2>4, <2>10, KeptTwice
  <2>12. CellRefined(g, k, c, r)
    BY <2>2, <2>3, <2>4, <2>5, <2>6, <2>7, <2>10, <2>11 DEF CellRefined, OneLoose
  <2>13. RefineL0(g, c).ok /\ RefineL0(g, c).g = k /\ RefineL0(g, c).val = r
    BY <1>3, <1>6 DEF Done, r
  <2> QED BY <1>4, <1>6, <2>7, <2>12, <2>13
<1> QED BY <1>5, <1>6

(* A child of a record, with its reference. *)
WithKid(rec, i, st, r) == [rec EXCEPT !.st[i] = st, !.ref[i] = r]

KidIs(rec, new, i, st, r) ==
  /\ new \in Rec /\ new.st[i] = st /\ new.ref[i] = r
  /\ \A k \in Kids \ {i} : new.st[k] = rec.st[k] /\ new.ref[k] = rec.ref[k]

LEMMA WithKidFacts ==
  ASSUME NEW rec \in Rec, NEW i \in Kids, NEW st \in {"free", "full", "refined"}, NEW r \in Refs
  PROVE  KidIs(rec, WithKid(rec, i, st, r), i, st, r)
BY DEF WithKid, Rec, KidIs

KidRefined(g, h, c, i, r) ==
  /\ Good(h) /\ HeldKept(g, h, {}) /\ OneLoose(g, h, r)
  /\ h.rt[c] = "refined" /\ h.ref[c] = g.ref[c]
  /\ g.ref[c] \in DOMAIN g.recs
  /\ h.recs[g.ref[c]].st[i] = "refined" /\ h.recs[g.ref[c]].ref[i] = r
  /\ \A x \in DOMAIN g.recs \ {g.ref[c]} : h.recs[x] = g.recs[x]

(* The record of a refined cell. *)
LEMMA CellRecord ==
  ASSUME NEW g, NEW home, TreeBy(g, home), NEW c \in Cells, g.rt[c] = "refined"
  PROVE  g.ref[c] \in DOMAIN g.recs /\ home[g.ref[c]] = <<0, c, 0, 0>> /\ home[g.ref[c]][1] = 0
         /\ home[g.ref[c]][2] = c
<1>1. g.ref[c] \in DOMAIN g.recs /\ home[g.ref[c]] = <<0, c, 0, 0>>
  BY Zenon DEF TreeBy, Downward
<1> QED BY <1>1

LEMMA RefineL1Done ==
  ASSUME NEW g, Good(g), NEW c \in Cells, g.rt[c] = "refined", NEW i \in Kids,
         NEW p, p = g.ref[c], g.recs[p].st[i] = "free"
  PROVE  /\ RefineL1(g, p, i).g \in Group
         /\ RefineL1(g, p, i).ok <=> ArenaRoom(g) # {} \/ FreeCells(g) # {}
         /\ RefineL1(g, p, i).ok => KidRefined(g, RefineL1(g, p, i).g, c, i, RefineL1(g, p, i).val)
<1> DEFINE a == AllocRecord(g)
           q == a.g
           r == a.val
           rec == WithKid(q.recs[p], i, "refined", r)
           k == PutRecord(q, p, rec)
<1>1. g \in Group /\ Tree(g) /\ Balanced(g) /\ InTables(g) /\ ArenaSound(g)
  BY TreeFacts DEF Good
<1>2. RefineL1(g, p, i) = IF a.ok THEN Done(k, r) ELSE a
  BY Zenon DEF RefineL1, Then, WithKid
<1>3. /\ a.ok <=> ArenaRoom(g) # {} \/ FreeCells(g) # {}
      /\ ~a.ok => q = g
      /\ a.ok => q \in Group /\ \E h \in Group : Reserved(g, h) /\ Fresh(h, r) /\ RecordTaken(h, q, r)
  BY <1>1, AllocRecordDone
<1>4. p \in DOMAIN g.recs
  BY <1>1, CellRecord DEF Tree
<1>5. CASE ~a.ok
  BY <1>1, <1>2, <1>3, <1>5
<1>6. CASE a.ok
  <2> HIDE DEF a
  <2>1. PICK h \in Group : Reserved(g, h) /\ Fresh(h, r) /\ RecordTaken(h, q, r)
    BY <1>3, <1>6
  <2>2. RefineL1(g, p, i).ok /\ RefineL1(g, p, i).g = k /\ RefineL1(g, p, i).val = r
    BY <1>2, <1>6 DEF Done
  <2> HIDE DEF q, r
  <2>3. /\ Good(h) /\ HeldKept(g, h, {}) /\ h.recs = g.recs /\ h.ref = g.ref
        /\ h.rt[c] = "refined"
    BY <2>1, ReservedGood
  <2>4. r \in Refs /\ r \notin DOMAIN g.recs
    BY <2>1, <2>3 DEF Fresh
  <2>5. /\ q.rt = h.rt /\ q.ref = h.ref /\ q.slots = h.slots /\ q.arena = h.arena
        /\ q.inoHint = h.inoHint /\ q.free = h.free /\ q.rsvd = h.rsvd /\ q.full = h.full
        /\ DOMAIN q.recs = DOMAIN g.recs \cup {r} /\ q.recs[r] = ZeroRecord
        /\ \A x \in DOMAIN g.recs \ {r} : q.recs[x] = g.recs[x]
    BY <2>1, <2>3, Zenon DEF RecordTaken, OnlyRecs
  <2>6. q.recs[p] = g.recs[p] /\ g.recs[p] \in Rec /\ p \in Refs /\ p # r
    BY <1>1, <1>4, <2>4, <2>5, GroupFacts
  <2>7. rec \in Rec /\ rec.st[i] = "refined" /\ rec.ref[i] = r
        /\ \A j \in Kids \ {i} : rec.st[j] = g.recs[p].st[j] /\ rec.ref[j] = g.recs[p].ref[j]
    <3> DEFINE old == q.recs[p]
               st == "refined"
    <3>1. st \in {"free", "full", "refined"} /\ r \in Refs /\ old \in Rec
      BY <2>4, <2>6
    <3>2. KidIs(old, rec, i, st, r)
      BY <3>1, WithKidFacts
    <3> QED BY <2>6, <3>2 DEF KidIs
  <2> HIDE DEF rec
  <2>8. q \in Group
    BY <1>3, <1>6
  <2>9. /\ k \in Group /\ OnlyRecs(q, k) /\ DOMAIN k.recs = DOMAIN q.recs \cup {p} /\ k.recs[p] = rec
        /\ \A x \in DOMAIN q.recs \ {p} : k.recs[x] = q.recs[x]
    BY <2>6, <2>7, <2>8, PutFacts
  <2> HIDE DEF k
  <2>10. /\ DOMAIN k.recs = DOMAIN g.recs \cup {r} /\ k.recs[r] = ZeroRecord
         /\ \A x \in DOMAIN g.recs \ {p} : k.recs[x] = g.recs[x]
    BY <1>4, <2>4, <2>5, <2>6, <2>9
  <2>11. /\ k.rt = h.rt /\ k.ref = h.ref /\ k.slots = h.slots /\ k.arena = h.arena
         /\ k.inoHint = h.inoHint /\ SameCounters(h, k)
    BY <2>5, <2>9, Zenon DEF OnlyRecs, SameCounters
  <2>12. KidAttached(h, k, p, i, r)
    BY <1>4, <2>1, <2>3, <2>7, <2>9, <2>10, <2>11 DEF KidAttached
  <2>13. Tree(k) /\ \A b \in Blocks : Alike(h, k, b)
    <3>1. PICK home : TreeBy(h, home)
      BY <2>3, Zenon DEF Good, Tree
    <3>2. home[p][1] = 0
      BY <2>3, <3>1, CellRecord
    <3> QED BY <2>3, <2>12, <3>1, <3>2, AttachKid
  <2>14. Good(k) /\ HeldKept(h, k, {})
    BY <2>3, <2>9, <2>11, <2>13, AlikeGood
  <2>15. HeldKept(g, k, {})
    BY <2>3, <2>14, KeptTwice
  <2>16. KidRefined(g, k, c, i, r)
    BY <1>4, <2>3, <2>4, <2>7, <2>9, <2>10, <2>11, <2>14, <2>15 DEF KidRefined, OneLoose
  <2> QED BY <1>3, <1>6, <2>2, <2>9, <2>16
<1> QED BY <1>5, <1>6

-----------------------------------------------------------------------------
(* Taking and giving back *)

Given(g, h, T, u) == Good(h) /\ T \in SUBSET Blocks /\ HeldKept(g, h, T) /\ Taken(g, h, T, u)
Returned(g, h, T, u) == Good(h) /\ T \in SUBSET Blocks /\ HeldKept(g, h, T) /\ Released(g, h, T, u)

LEMMA GivenDone ==
  ASSUME NEW g, Good(g), NEW h \in Group, NEW T, NEW n, NEW u, UnitsMoved(g, h, T, n, "free", "full", u),
         h.slots = g.slots, h.inoHint = g.inoHint,
         h.free = g.free - n, h.full = g.full + n, h.rsvd = g.rsvd
  PROVE  Given(g, h, T, u)
<1>1. /\ Tree(h) /\ Moved(g, h, T, n, "free", "full") /\ T \in SUBSET Blocks
      /\ \A b \in Blocks \ T : SameView(g, h, b)
      /\ \A b \in T : StateOf(g, b) = "free" /\ StateOf(h, b) = "full" /\ UnitOf(h, b) = u
  BY Zenon DEF UnitsMoved, Moved
<1>2. Balanced(h)
  BY <1>1, FilledCounts DEF Good
<1>3. HeldKept(g, h, T)
  BY <1>1 DEF HeldKept, HeldAlike
<1>4. Taken(g, h, T, u)
  BY <1>1 DEF Taken, Unheld
<1> QED BY <1>1, <1>2, <1>3, <1>4 DEF Given, Good

LEMMA ReturnedDone ==
  ASSUME NEW g, Good(g), NEW h \in Group, NEW T, NEW n, NEW u, UnitsMoved(g, h, T, n, "full", "free", u),
         h.slots = g.slots, h.inoHint = g.inoHint,
         h.free = g.free + n, h.full = g.full - n, h.rsvd = g.rsvd
  PROVE  Returned(g, h, T, u)
<1>1. /\ Tree(h) /\ Moved(g, h, T, n, "full", "free") /\ T \in SUBSET Blocks
      /\ \A b \in Blocks \ T : SameView(g, h, b)
      /\ \A b \in T : StateOf(g, b) = "full" /\ StateOf(h, b) = "free" /\ UnitOf(g, b) = u
  BY Zenon DEF UnitsMoved, Moved
<1>2. Balanced(h)
  BY <1>1, FreedCounts DEF Good
<1>3. HeldKept(g, h, T)
  BY <1>1 DEF HeldKept, HeldAlike
<1>4. Released(g, h, T, u)
  BY <1>1 DEF Released, Unheld
<1> QED BY <1>1, <1>2, <1>3, <1>4 DEF Returned, Good

(* The children S of record p change their state. *)
Colours == {"free", "full"}
Painted(g, h, p, S, to) ==
  /\ h.rt = g.rt /\ h.ref = g.ref /\ h.arena = g.arena
  /\ DOMAIN h.recs = DOMAIN g.recs /\ h.recs[p] = SetKids(g.recs[p], S, to)
  /\ \A x \in DOMAIN g.recs \ {p} : h.recs[x] = g.recs[x]

Repainted(g, h, p, S, rec, to) ==
  /\ Recoloured(g, h, p, rec) /\ SameRefined(g.recs[p], rec)
  /\ \A i \in Kids : rec.st[i] = IF i \in S THEN to ELSE g.recs[p].st[i]

LEMMA PaintedFacts ==
  ASSUME NEW g \in Group, NEW h, NEW p \in DOMAIN g.recs, NEW S, NEW from \in Colours, NEW to \in Colours,
         Painted(g, h, p, S, to), \A j \in S : g.recs[p].st[j] = from
  PROVE  Repainted(g, h, p, S, SetKids(g.recs[p], S, to), to)
<1>1. g.recs[p] \in Rec
  BY GroupFacts
<1>2. /\ SetKids(g.recs[p], S, to).ref = g.recs[p].ref
      /\ \A i \in Kids : SetKids(g.recs[p], S, to).st[i] = IF i \in S THEN to ELSE g.recs[p].st[i]
  BY <1>1, SetKidsFacts DEF Colours
<1>3. from # "refined" /\ to # "refined"
  BY DEF Colours
<1>4. \A i \in Kids : SetKids(g.recs[p], S, to).st[i] = "refined" <=> g.recs[p].st[i] = "refined"
  BY <1>2, <1>3
<1> QED BY <1>2, <1>4, Zenon DEF Painted, Recoloured, SameRefined, Repainted

(* Children S, the m from child i on, of the record of cell c, and their n *)
(* blocks T.                                                               *)
KidsAt(c, i, m, S, n, T) ==
  /\ i \in Kids /\ m \in Nat \ {0} /\ i + m <= Fanout /\ S = i .. i + m - 1
  /\ n = m * Fanout /\ T = Blk(c, i, 0) .. Blk(c, i, 0) + n - 1
(* Children S, the n from child j on, of the record of L1 cell i of cell c. *)
LeavesAt(c, i, j, n, S, T) ==
  /\ j \in Kids /\ n \in Nat \ {0} /\ j + n <= Fanout /\ S = j .. j + n - 1
  /\ T = Blk(c, i, j) .. Blk(c, i, j) + n - 1

(* L1 cells of a refined cell. *)
LEMMA PaintKids ==
  ASSUME NEW g \in Group, NEW home, TreeBy(g, home), NEW h, NEW c \in Cells,
         NEW p \in DOMAIN g.recs, home[p][1] = 0, home[p][2] = c,
         NEW i, NEW m, NEW S, NEW n, NEW T, KidsAt(c, i, m, S, n, T),
         NEW from \in Colours, NEW to \in Colours,
         \A j \in S : g.recs[p].st[j] = from, Painted(g, h, p, S, to)
  PROVE  UnitsMoved(g, h, T, n, from, to, Fanout)
<1>1. /\ i \in Kids /\ m \in Nat \ {0} /\ i + m <= Fanout /\ S = i .. i + m - 1
      /\ n = m * Fanout /\ T = Blk(c, i, 0) .. Blk(c, i, 0) + n - 1
  BY DEF KidsAt
<1> DEFINE rec == SetKids(g.recs[p], S, to)
<1>2. /\ Recoloured(g, h, p, rec) /\ SameRefined(g.recs[p], rec)
      /\ \A k \in Kids : rec.st[k] = IF k \in S THEN to ELSE g.recs[p].st[k]
  <2>1. Repainted(g, h, p, S, rec, to)
    BY PaintedFacts
  <2> QED BY <2>1, Zenon DEF Repainted
<1> HIDE DEF rec
<1>3. T \in SUBSET Blocks /\ \A b \in Blocks : b \in T <=> CellOf(b) = c /\ KidOf(b) \in S
  <2>1. /\ Blk(c, i, 0) .. Blk(c, i, 0) + m * Fanout - 1 \subseteq Blocks
        /\ \A b \in Blocks : b \in Blk(c, i, 0) .. Blk(c, i, 0) + m * Fanout - 1
                               <=> CellOf(b) = c /\ KidOf(b) \in i .. i + m - 1
    BY <1>1, KidRun
  <2> QED BY <1>1, <2>1
<1>4. IsFiniteSet(T) /\ Cardinality(T) = n
  <2>1. n \in Nat \ {0} /\ Blk(c, i, 0) \in Int
    <3>1. Fanout \in Nat \ {0} /\ 0 \in Kids
      BY Sizes2, BlocksType
    <3>2. m * Fanout \in Nat \ {0}
      BY <1>1, <3>1
    <3> QED BY <1>1, <3>1, <3>2, BlkFacts
  <2> QED BY <1>1, <2>1, RunSize
<1>5. Tree(h)
  <2>1. TreeBy(h, home)
    <3>1. Inner(home[p])
      BY DEF Inner
    <3> QED BY <1>2, <3>1, RecolourTree
  <2> QED BY <2>1, Zenon DEF Tree
<1>6. ASSUME NEW b \in Blocks, b \notin T PROVE SameView(g, h, b)
  <2>1. CellOf(b) # c \/ KidOf(b) \notin S
    BY <1>3, <1>6
  <2>2. CellOf(b) # home[p][2] \/ rec.st[KidOf(b)] = g.recs[p].st[KidOf(b)]
    BY <1>2, <2>1, OfFacts
  <2> QED BY <1>2, <2>2, RecolourKid
<1>7. ASSUME NEW b \in T
      PROVE  /\ StateOf(g, b) = from /\ UnitOf(g, b) = Fanout
             /\ StateOf(h, b) = to /\ UnitOf(h, b) = Fanout
  <2>1. b \in Blocks /\ CellOf(b) = c /\ KidOf(b) \in S /\ KidOf(b) \in Kids
    BY <1>3, OfFacts
  <2>2. rec.st[KidOf(b)] = to /\ g.recs[p].st[KidOf(b)] = from /\ to # "refined"
    BY <1>2, <2>1 DEF Colours
  <2> QED BY <1>2, <2>1, <2>2, RecolourKid
<1>8. Moved(g, h, T, n, from, to)
  BY <1>3, <1>4, <1>6, <1>7 DEF Moved, SameView
<1> QED BY <1>5, <1>6, <1>7, <1>8 DEF UnitsMoved

(* The record of a refined L1 cell. *)
LEMMA KidRecord ==
  ASSUME NEW g, NEW home, TreeBy(g, home), NEW c \in Cells, g.rt[c] = "refined", NEW i \in Kids,
         g.recs[g.ref[c]].st[i] = "refined"
  PROVE  /\ g.recs[g.ref[c]].ref[i] \in DOMAIN g.recs
         /\ home[g.recs[g.ref[c]].ref[i]] = <<1, c, i, 0>>
<1>1. g.ref[c] \in DOMAIN g.recs /\ home[g.ref[c]] = <<0, c, 0, 0>>
  BY CellRecord
<1>2. /\ g.recs[g.ref[c]].ref[i] \in DOMAIN g.recs
      /\ home[g.recs[g.ref[c]].ref[i]] = Below(home[g.ref[c]], i)
  BY <1>1, Zenon DEF TreeBy, Downward
<1>3. Below(<<0, c, 0, 0>>, i) = <<1, c, i, 0>>
  BY DEF Below
<1> QED BY <1>1, <1>2, <1>3

(* Blocks of a refined L1 cell. *)
LEMMA PaintLeaves ==
  ASSUME NEW g \in Group, NEW home, TreeBy(g, home), NEW h, NEW c \in Cells, NEW i \in Kids,
         NEW p \in DOMAIN g.recs, home[p][1] = 1, home[p][2] = c, home[p][3] = i,
         NEW j, NEW n, NEW S, NEW T, LeavesAt(c, i, j, n, S, T),
         NEW from \in Colours, NEW to \in Colours,
         \A k \in S : g.recs[p].st[k] = from, Painted(g, h, p, S, to)
  PROVE  UnitsMoved(g, h, T, n, from, to, 1)
<1>1. /\ j \in Kids /\ n \in Nat \ {0} /\ j + n <= Fanout /\ S = j .. j + n - 1
      /\ T = Blk(c, i, j) .. Blk(c, i, j) + n - 1
  BY DEF LeavesAt
<1> DEFINE rec == SetKids(g.recs[p], S, to)
<1>2. /\ Recoloured(g, h, p, rec) /\ SameRefined(g.recs[p], rec)
      /\ \A k \in Kids : rec.st[k] = IF k \in S THEN to ELSE g.recs[p].st[k]
  <2>1. Repainted(g, h, p, S, rec, to)
    BY PaintedFacts
  <2> QED BY <2>1, Zenon DEF Repainted
<1> HIDE DEF rec
<1>3. T \in SUBSET Blocks /\ \A b \in Blocks : b \in T <=> CellOf(b) = c /\ KidOf(b) = i /\ LeafOf(b) \in S
  <2>1. /\ Blk(c, i, j) .. Blk(c, i, j) + n - 1 \subseteq Blocks
        /\ \A b \in Blocks : b \in Blk(c, i, j) .. Blk(c, i, j) + n - 1
                               <=> CellOf(b) = c /\ KidOf(b) = i /\ LeafOf(b) \in j .. j + n - 1
    BY <1>1, LeafRun
  <2> QED BY <1>1, <2>1
<1>4. IsFiniteSet(T) /\ Cardinality(T) = n
  <2>1. Blk(c, i, j) \in Int
    BY <1>1, BlkFacts
  <2> QED BY <1>1, <2>1, RunSize
<1>5. Tree(h)
  <2>1. TreeBy(h, home)
    <3>1. Inner(home[p])
      BY DEF Inner
    <3> QED BY <1>2, <3>1, RecolourTree
  <2> QED BY <2>1, Zenon DEF Tree
<1>6. ASSUME NEW b \in Blocks, b \notin T PROVE SameView(g, h, b)
  <2>1. CellOf(b) # c \/ KidOf(b) # i \/ LeafOf(b) \notin S
    BY <1>3, <1>6
  <2>2. CellOf(b) # home[p][2] \/ KidOf(b) # home[p][3] \/ rec.st[LeafOf(b)] = g.recs[p].st[LeafOf(b)]
    BY <1>2, <2>1, OfFacts
  <2> QED BY <1>2, <2>2, RecolourLeaf
<1>7. ASSUME NEW b \in T
      PROVE  /\ StateOf(g, b) = from /\ UnitOf(g, b) = 1
             /\ StateOf(h, b) = to /\ UnitOf(h, b) = 1
  <2>1. b \in Blocks /\ CellOf(b) = c /\ KidOf(b) = i /\ LeafOf(b) \in S /\ LeafOf(b) \in Kids
    BY <1>3, OfFacts
  <2>2. rec.st[LeafOf(b)] = to /\ g.recs[p].st[LeafOf(b)] = from /\ to # "refined"
    BY <1>2, <2>1 DEF Colours
  <2> QED BY <1>2, <2>1, <2>2, RecolourLeaf
<1>8. Moved(g, h, T, n, from, to)
  BY <1>3, <1>4, <1>6, <1>7 DEF Moved, SameView
<1> QED BY <1>5, <1>6, <1>7, <1>8 DEF UnitsMoved

WithCounts(g, x, y) == [g EXCEPT !.free = x, !.full = y]
WithHint(g, c) == [g EXCEPT !.cellHint = c]

(* h is g but for its counters and its hint. *)
SameTree(g, h) ==
  /\ h.rt = g.rt /\ h.ref = g.ref /\ h.recs = g.recs /\ h.slots = g.slots /\ h.arena = g.arena
  /\ h.inoHint = g.inoHint /\ h.tblHint = g.tblHint /\ h.rsvd = g.rsvd

LEMMA WithCountsFacts ==
  ASSUME NEW g \in Group, NEW x \in Int, NEW y \in Int
  PROVE  /\ WithCounts(g, x, y) \in Group /\ SameTree(g, WithCounts(g, x, y))
         /\ WithCounts(g, x, y).cellHint = g.cellHint
         /\ WithCounts(g, x, y).free = x /\ WithCounts(g, x, y).full = y
BY DEF WithCounts, SameTree, Group

LEMMA WithHintFacts ==
  ASSUME NEW g \in Group, NEW c \in Cells
  PROVE  /\ WithHint(g, c) \in Group /\ SameTree(g, WithHint(g, c))
         /\ WithHint(g, c).free = g.free /\ WithHint(g, c).full = g.full
BY DEF WithHint, SameTree, Group

LEMMA AccountFacts ==
  ASSUME NEW g \in Group, NEW n \in Int
  PROVE  /\ AccountAlloc(g, n) \in Group /\ SameTree(g, AccountAlloc(g, n))
         /\ AccountAlloc(g, n).free = g.free - n /\ AccountAlloc(g, n).full = g.full + n
         /\ AccountFree(g, n) \in Group /\ SameTree(g, AccountFree(g, n))
         /\ AccountFree(g, n).free = g.free + n /\ AccountFree(g, n).full = g.full - n
<1>1. g.free \in Int /\ g.full \in Int
  BY GroupFacts
<1>2. g.free - n \in Int /\ g.full + n \in Int /\ g.free + n \in Int /\ g.full - n \in Int
  BY <1>1
<1>3. AccountAlloc(g, n) = WithCounts(g, g.free - n, g.full + n)
  BY DEF AccountAlloc, WithCounts
<1>4. AccountFree(g, n) = WithCounts(g, g.free + n, g.full - n)
  BY DEF AccountFree, WithCounts
<1> QED BY <1>2, <1>3, <1>4, WithCountsFacts

Filled(g, h, p, S, n) ==
  /\ h \in Group /\ Painted(g, h, p, S, "full")
  /\ h.slots = g.slots /\ h.inoHint = g.inoHint /\ h.rsvd = g.rsvd
  /\ h.free = g.free - n /\ h.full = g.full + n

LEMMA FillFacts ==
  ASSUME NEW g \in Group, NEW p \in DOMAIN g.recs, NEW S, NEW n \in Int, NEW c \in Cells
  PROVE  Filled(g, Fill(g, p, S, n), p, S, n) /\ Filled(g, [Fill(g, p, S, n) EXCEPT !.cellHint = c], p, S, n)
<1> DEFINE rec == SetKids(g.recs[p], S, "full")
           q == PutRecord(g, p, rec)
           h == AccountAlloc(q, n)
           k == WithHint(h, c)
<1>1. p \in Refs /\ rec \in Rec
  BY GroupFacts, SetKidsFacts
<1>2. Fill(g, p, S, n) = h /\ [Fill(g, p, S, n) EXCEPT !.cellHint = c] = k
  BY DEF Fill, WithHint
<1> HIDE DEF rec
<1>3. /\ q \in Group /\ OnlyRecs(g, q) /\ DOMAIN q.recs = DOMAIN g.recs /\ q.recs[p] = rec
      /\ \A x \in DOMAIN g.recs \ {p} : q.recs[x] = g.recs[x]
  <2>1. /\ q \in Group /\ OnlyRecs(g, q) /\ DOMAIN q.recs = DOMAIN g.recs \cup {p} /\ q.recs[p] = rec
        /\ \A x \in DOMAIN g.recs \ {p} : q.recs[x] = g.recs[x]
    BY <1>1, PutFacts
  <2> QED BY <2>1
<1> HIDE DEF q
<1>4. h \in Group /\ SameTree(q, h) /\ h.free = q.free - n /\ h.full = q.full + n
  BY <1>3, AccountFacts
<1> HIDE DEF h
<1>5. k \in Group /\ SameTree(h, k) /\ k.free = h.free /\ k.full = h.full
  BY <1>4, WithHintFacts
<1> HIDE DEF k
<1>6. Filled(g, h, p, S, n)
  <2>1. /\ h.rt = g.rt /\ h.ref = g.ref /\ h.arena = g.arena /\ h.recs = q.recs
        /\ h.slots = g.slots /\ h.inoHint = g.inoHint /\ h.rsvd = g.rsvd
        /\ h.free = g.free - n /\ h.full = g.full + n
    BY <1>3, <1>4, Zenon DEF OnlyRecs, SameTree
  <2>2. Painted(g, h, p, S, "full")
    BY <1>3, <2>1, Zenon DEF Painted, rec
  <2> QED BY <1>4, <2>1, <2>2, Zenon DEF Filled
<1>7. Filled(g, k, p, S, n)
  BY <1>5, <1>6, Zenon DEF Filled, Painted, SameTree
<1> QED BY <1>2, <1>6, <1>7

(* Record p has a child in use now. *)
LEMMA FilledLoose ==
  ASSUME NEW g \in Group, NEW h, NEW p \in DOMAIN g.recs, NEW S, NEW i \in S, i \in Kids, Painted(g, h, p, S, "full")
  PROVE  Loose(h) \subseteq Loose(g) \ {p}
<1>1. g.recs[p] \in Rec
  BY GroupFacts
<1>2. SetKids(g.recs[p], S, "full").st[i] = "full"
  BY <1>1, SetKidsFacts
<1>3. ~AllFree(h.recs[p])
  BY <1>2 DEF AllFree, Painted
<1> QED BY <1>3 DEF Loose, Painted

(* p is the record of cell c, or that of L1 cell i of cell c. *)
CellRec(g, home, p, c) ==
  TreeBy(g, home) /\ p \in DOMAIN g.recs /\ c \in Cells /\ home[p][1] = 0 /\ home[p][2] = c
KidRec(g, home, p, c, i) ==
  /\ TreeBy(g, home) /\ p \in DOMAIN g.recs /\ c \in Cells /\ i \in Kids
  /\ home[p][1] = 1 /\ home[p][2] = c /\ home[p][3] = i

AllAre(g, p, S, st) == \A j \in S : g.recs[p].st[j] = st

LEMMA GivenKids ==
  ASSUME NEW g, Good(g), NEW home, NEW h, NEW c, NEW p, CellRec(g, home, p, c),
         NEW i, NEW m, NEW S, NEW n, NEW T, KidsAt(c, i, m, S, n, T),
         AllAre(g, p, S, "free"), Filled(g, h, p, S, n)
  PROVE  Given(g, h, T, Fanout) /\ Loose(h) \subseteq Loose(g) \ {p}
<1>1. g \in Group /\ Painted(g, h, p, S, "full") /\ h \in Group
  BY DEF Good, Filled
<1>2. UnitsMoved(g, h, T, n, "free", "full", Fanout)
  <2>1. "full" \in Colours /\ "free" \in Colours
    BY DEF Colours
  <2>2. /\ TreeBy(g, home) /\ p \in DOMAIN g.recs /\ c \in Cells /\ home[p][1] = 0 /\ home[p][2] = c
        /\ \A k \in S : g.recs[p].st[k] = "free"
    BY DEF CellRec, AllAre
  <2> QED BY <1>1, <2>1, <2>2, PaintKids
<1>3. Given(g, h, T, Fanout)
  BY <1>1, <1>2, GivenDone DEF Filled
<1>4. i \in S /\ i \in Kids
  BY BlocksType DEF KidsAt
<1>5. p \in DOMAIN g.recs
  BY DEF CellRec
<1> QED BY <1>1, <1>3, <1>4, <1>5, FilledLoose

LEMMA GivenLeaves ==
  ASSUME NEW g, Good(g), NEW home, NEW h, NEW c, NEW i, NEW p, KidRec(g, home, p, c, i),
         NEW j, NEW n, NEW S, NEW T, LeavesAt(c, i, j, n, S, T),
         AllAre(g, p, S, "free"), Filled(g, h, p, S, n)
  PROVE  Given(g, h, T, 1) /\ Loose(h) \subseteq Loose(g) \ {p}
<1>1. g \in Group /\ Painted(g, h, p, S, "full") /\ h \in Group
  BY DEF Good, Filled
<1>2. UnitsMoved(g, h, T, n, "free", "full", 1)
  <2>1. "full" \in Colours /\ "free" \in Colours
    BY DEF Colours
  <2>2. /\ TreeBy(g, home) /\ p \in DOMAIN g.recs /\ c \in Cells /\ i \in Kids
        /\ home[p][1] = 1 /\ home[p][2] = c /\ home[p][3] = i
        /\ \A k \in S : g.recs[p].st[k] = "free"
    BY DEF KidRec, AllAre
  <2> QED BY <1>1, <2>1, <2>2, PaintLeaves
<1>3. Given(g, h, T, 1)
  BY <1>1, <1>2, GivenDone DEF Filled
<1>4. j \in S /\ j \in Kids
  BY BlocksType DEF LeavesAt
<1>5. p \in DOMAIN g.recs
  BY DEF KidRec
<1> QED BY <1>1, <1>3, <1>4, <1>5, FilledLoose


LEMMA GivenAfter ==
  ASSUME NEW g, NEW h, NEW k, NEW T, NEW u, HeldKept(g, h, {}), Given(h, k, T, u)
  PROVE  Given(g, k, T, u)
<1>1. T \in SUBSET Blocks /\ Good(k) /\ HeldKept(h, k, T) /\ Taken(h, k, T, u)
  BY DEF Given
<1>2. HeldKept(g, k, T)
  <2>1. HeldKept(g, k, {} \cup T)
    BY <1>1, KeptTwice
  <2>2. {} \cup T = T
    OBVIOUS
  <2> QED BY <2>1, <2>2
<1>3. \A b \in T : StateOf(g, b) \in Unheld
  BY <1>1 DEF HeldKept, HeldAlike, SameView, Taken
<1> QED BY <1>1, <1>2, <1>3, Zenon DEF Given, Taken

Aligned(b, u) == \E q \in Nat : b = q * u

(* r is what an allocation in g of len blocks, in units of u, comes to. *)
Outcome(g, r, len, u) ==
  /\ r.g \in Group
  /\ r.ok => /\ r.val \in Blocks /\ Aligned(r.val, u)
             /\ Given(g, r.g, r.val .. r.val + len - 1, u) /\ Loose(r.g) = {}

LEMMA OutcomeFailed ==
  ASSUME NEW g, NEW h \in Group, NEW len, NEW u
  PROVE  Outcome(g, Failed(h), len, u)
BY DEF Outcome, Failed

LEMMA OutcomeDone ==
  ASSUME NEW g, NEW h, NEW b \in Blocks, NEW len, NEW u, Aligned(b, u),
         NEW T, T = b .. b + len - 1, Given(g, h, T, u), Loose(h) = {}
  PROVE  Outcome(g, Done(h, b), len, u)
<1>1. h \in Group
  BY DEF Given, Good
<1> QED BY <1>1 DEF Outcome, Done

WithRt(g, rt) == [g EXCEPT !.rt = rt]

LEMMA WithRtAllFacts ==
  ASSUME NEW g \in Group, NEW rt \in [Cells -> States], NEW h, h = WithRt(g, rt)
  PROVE  /\ h \in Group /\ h.ref = g.ref /\ h.recs = g.recs /\ h.slots = g.slots /\ h.arena = g.arena
         /\ h.inoHint = g.inoHint /\ h.free = g.free /\ h.rsvd = g.rsvd /\ h.full = g.full /\ h.rt = rt
BY DEF Group, WithRt

LEMMA AllocL0Done ==
  ASSUME NEW g, Good(g), Loose(g) = {}, NEW k \in Nat \ {0}
  PROVE  Outcome(g, AllocL0(g, k), k * CellBlocks, CellBlocks)
<1> DEFINE starts == {c \in Cells : \A d \in c .. c + k - 1 : d \in FreeCells(g)}
           c == Min(starts)
           S == c .. c + k - 1
           n == k * CellBlocks
           q == AccountAlloc(g, n)
           rt == [d \in Cells |-> IF d \in S THEN "full" ELSE q.rt[d]]
           h == WithRt(q, rt)
           T == c * CellBlocks .. c * CellBlocks + n - 1
<1>1. g \in Group /\ Tree(g)
  BY DEF Good
<1>2. CASE starts = {}
  <2>1. AllocL0(g, k) = Failed(g)
    BY <1>2 DEF AllocL0
  <2> QED BY <1>1, <2>1, OutcomeFailed
<1>3. CASE starts # {}
  <2>1. AllocL0(g, k) = Done(h, c * CellBlocks)
    BY <1>3 DEF AllocL0, WithRt
  <2>2. c \in Cells /\ \A d \in S : d \in Cells /\ g.rt[d] = "free"
    <3>1. starts \in SUBSET Nat
      BY BlocksType
    <3>2. c \in starts
      BY <1>3, <3>1, MinIsLeast
    <3> QED BY <3>2 DEF FreeCells
  <2> HIDE DEF c, starts
  <2>3. c + k <= CellCount
    <3>1. c + k - 1 \in S
      BY <2>2, BlocksType
    <3>2. c + k - 1 \in Cells
      BY <2>2, <3>1
    <3> QED BY <2>2, <3>2, BlocksType, Sizes2 DEF Cells
  <2>4. BlocksOf(S, T, n)
    BY <2>2, <2>3, BlocksOfRun
  <2>5. n \in Nat \ {0}
    <3>1. CellBlocks \in Nat \ {0}
      BY Sizes2
    <3> QED BY <3>1
  <2> HIDE DEF n
  <2>6. q \in Group /\ SameTree(g, q) /\ q.free = g.free - n /\ q.full = g.full + n
    BY <1>1, <2>5, AccountFacts
  <2> HIDE DEF q, S, T
  <2>7. rt \in [Cells -> States]
    <3>1. q.rt \in [Cells -> States]
      BY <2>6, GroupFacts
    <3> QED BY <3>1 DEF States
  <2>8. \A d \in Cells : rt[d] = IF d \in S THEN "full" ELSE g.rt[d]
    BY <2>6 DEF SameTree
  <2> HIDE DEF rt
  <2>9. /\ h \in Group /\ h.ref = q.ref /\ h.recs = q.recs /\ h.slots = q.slots /\ h.arena = q.arena
        /\ h.inoHint = q.inoHint /\ h.free = q.free /\ h.rsvd = q.rsvd /\ h.full = q.full /\ h.rt = rt
    BY <2>6, <2>7, WithRtAllFacts
  <2> HIDE DEF h
  <2>10. Marked(g, h, S, "full")
    <3>1. h.ref = g.ref /\ h.recs = g.recs /\ h.arena = g.arena
      BY <2>6, <2>9 DEF SameTree
    <3> QED BY <2>2, <2>8, <2>9, <3>1 DEF Marked
  <2>11. UnitsMoved(g, h, T, n, "free", "full", CellBlocks)
    BY <1>1, <2>2, <2>4, <2>10, MarkBlocks
  <2>12. Given(g, h, T, CellBlocks)
    BY <2>6, <2>9, <2>11, GivenDone DEF SameTree
  <2>13. Loose(h) = {}
    BY <2>6, <2>9 DEF Loose, SameTree
  <2>14. c * CellBlocks \in Blocks /\ Aligned(c * CellBlocks, CellBlocks)
    BY <2>2, BlocksType DEF Aligned
  <2> QED BY <2>1, <2>12, <2>13, <2>14, OutcomeDone DEF T, n
<1> QED BY <1>2, <1>3

LEMMA OutcomeAfter ==
  ASSUME NEW g, NEW h, HeldKept(g, h, {}), NEW r, NEW len, NEW u, Outcome(h, r, len, u)
  PROVE  Outcome(g, r, len, u)
BY GivenAfter, Zenon DEF Outcome

LEMMA KidsOutcome ==
  ASSUME NEW g, Good(g), NEW home, NEW c, NEW p, CellRec(g, home, p, c), Loose(g) \subseteq {p},
         NEW i, NEW m, NEW S, NEW n, NEW T, KidsAt(c, i, m, S, n, T),
         AllAre(g, p, S, "free"), NEW h, Filled(g, h, p, S, n)
  PROVE  Outcome(g, Done(h, c * CellBlocks + i * Fanout), n, Fanout)
<1>1. Given(g, h, T, Fanout) /\ Loose(h) \subseteq Loose(g) \ {p}
  BY GivenKids, Zenon
<1>2. Loose(h) = {}
  BY <1>1
<1> DEFINE b == Blk(c, i, 0)
<1>3. c \in Cells /\ i \in Kids /\ T = b .. b + n - 1
  BY DEF KidsAt, CellRec
<1>4. b \in Blocks /\ Aligned(b, Fanout) /\ b = c * CellBlocks + i * Fanout
  <2>1. 0 \in Kids /\ c \in Nat /\ i \in Nat /\ Fanout \in Nat /\ CellBlocks \in Nat
    BY <1>3, BlocksType, Sizes2
  <2>2. b \in Blocks /\ CellOf(b) = c /\ KidOf(b) = i /\ LeafOf(b) = 0
    BY <1>3, <2>1, BlkFacts
  <2>3. b = Fanout * (Fanout * c + i) + 0
    BY <2>2, OfFacts
  <2>4. Fanout * c + i \in Nat
    BY <2>1
  <2>5. b = (Fanout * c + i) * Fanout
    BY <2>1, <2>3, <2>4
  <2>6. c * CellBlocks \in Nat /\ i * Fanout \in Nat
    BY <2>1
  <2>7. b = c * CellBlocks + i * Fanout
    BY <2>6 DEF Blk
  <2> QED BY <2>2, <2>4, <2>5, <2>7 DEF Aligned
<1> HIDE DEF b
<1>5. Outcome(g, Done(h, b), n, Fanout)
  BY <1>1, <1>2, <1>3, <1>4, OutcomeDone
<1> QED BY <1>4, <1>5

LEMMA LeavesOutcome ==
  ASSUME NEW g, Good(g), NEW home, NEW c, NEW i, NEW p, KidRec(g, home, p, c, i), Loose(g) \subseteq {p},
         NEW j, NEW n, NEW S, NEW T, LeavesAt(c, i, j, n, S, T),
         AllAre(g, p, S, "free"), NEW h, Filled(g, h, p, S, n)
  PROVE  Outcome(g, Done(h, c * CellBlocks + i * Fanout + j), n, 1)
<1>1. Given(g, h, T, 1) /\ Loose(h) \subseteq Loose(g) \ {p}
  BY GivenLeaves, Zenon
<1>2. Loose(h) = {}
  BY <1>1
<1> DEFINE b == Blk(c, i, j)
<1>3. c \in Cells /\ i \in Kids /\ j \in Kids /\ T = b .. b + n - 1
  BY DEF LeavesAt, KidRec
<1>4. b \in Blocks /\ Aligned(b, 1) /\ b = c * CellBlocks + i * Fanout + j
  <2>1. b \in Blocks /\ b \in Nat
    BY <1>3, BlkFacts
  <2> QED BY <2>1 DEF Aligned, Blk
<1> HIDE DEF b
<1>5. Outcome(g, Done(h, b), n, 1)
  BY <1>1, <1>2, <1>3, <1>4, OutcomeDone
<1> QED BY <1>4, <1>5

LEMMA RunsFacts ==
  ASSUME NEW rec, NEW m, Runs(rec, m) # {}
  PROVE  /\ Min(Runs(rec, m)) \in Kids /\ Min(Runs(rec, m)) + m <= Fanout
         /\ \A j \in Min(Runs(rec, m)) .. Min(Runs(rec, m)) + m - 1 : rec.st[j] = "free"
<1>1. Runs(rec, m) \in SUBSET Nat
  BY BlocksType DEF Runs
<1>2. Min(Runs(rec, m)) \in Runs(rec, m)
  BY <1>1, MinIsLeast
<1> QED BY <1>2 DEF Runs

LEMMA FirstCell ==
  ASSUME NEW g \in Group, NEW S, S \subseteq Cells, S # {}
  PROVE  FirstFrom(S, g.cellHint) \in S
<1>1. S \in SUBSET Nat /\ g.cellHint \in Nat
  BY GroupFacts, BlocksType
<1> QED BY <1>1, FirstIsIn

(* What a cell just refined has room for. *)
LEMMA NewCellFacts ==
  ASSUME NEW g, NEW h, NEW c \in Cells, NEW r, CellRefined(g, h, c, r), Loose(g) = {}
  PROVE  /\ Good(h) /\ HeldKept(g, h, {}) /\ h.rt[c] = "refined" /\ h.ref[c] = r /\ r \in DOMAIN h.recs
         /\ Loose(h) \subseteq {r} /\ \A j \in Kids : h.recs[r].st[j] = "free"
<1>1. /\ Good(h) /\ HeldKept(g, h, {}) /\ h.rt[c] = "refined" /\ h.ref[c] = r
      /\ r \in DOMAIN h.recs /\ h.recs[r] = ZeroRecord /\ DOMAIN h.recs = DOMAIN g.recs \cup {r}
      /\ \A x \in DOMAIN g.recs : h.recs[x] = g.recs[x]
  BY DEF CellRefined, OneLoose
<1>2. Loose(h) \subseteq {r}
  BY <1>1 DEF Loose
<1> QED BY <1>1, <1>2, ZeroFacts

LEMMA AllocL1Done ==
  ASSUME NEW g, Good(g), Loose(g) = {}, NEW m \in Nat \ {0}, m <= Fanout
  PROVE  Outcome(g, AllocL1(g, m), m * Fanout, Fanout)
<1> DEFINE found == {c \in Refined(g) : Readable(g, c) => Runs(g.recs[g.ref[c]], m) # {}}
           n == m * Fanout
<1>1. g \in Group /\ Tree(g)
  BY DEF Good
<1>2. n \in Int /\ 0 \in Kids
  BY Sizes2, BlocksType
<1>3. CASE found # {}
  <2> DEFINE c == FirstFrom(found, g.cellHint)
             p == g.ref[c]
             i == Min(Runs(g.recs[p], m))
             h == [Fill(g, p, i .. i + m - 1, n) EXCEPT !.cellHint = c]
  <2>1. AllocL1(g, m) = IF Readable(g, c) THEN Done(h, c * CellBlocks + i * Fanout) ELSE Failed(g)
    BY <1>3 DEF AllocL1, Scan
  <2>2. c \in found
    <3>1. found \subseteq Cells
      BY DEF Refined
    <3> HIDE DEF found
    <3> QED BY <1>1, <1>3, <3>1, FirstCell
  <2> HIDE DEF c
  <2>3. c \in Cells /\ g.rt[c] = "refined" /\ (Readable(g, c) => Runs(g.recs[p], m) # {})
    BY <2>2 DEF Refined
  <2> HIDE DEF found
  <2>4. p \in DOMAIN g.recs
    BY <1>1, <2>3, CellRecord DEF Tree
  <2>5. Readable(g, c)
    BY <2>4 DEF Readable
  <2>6. i \in Kids /\ i + m <= Fanout /\ \A j \in i .. i + m - 1 : g.recs[p].st[j] = "free"
    BY <2>3, <2>5, RunsFacts
  <2> HIDE DEF n, i
  <2>7. Filled(g, h, p, i .. i + m - 1, n)
    BY <1>1, <1>2, <2>3, <2>4, FillFacts
  <2> HIDE DEF h
  <2>8. PICK home : TreeBy(g, home)
    BY <1>1, Zenon DEF Tree
  <2>9. CellRec(g, home, p, c) /\ Loose(g) \subseteq {p}
    BY <2>3, <2>8, CellRecord DEF CellRec
  <2> DEFINE S == i .. i + m - 1
             T == Blk(c, i, 0) .. Blk(c, i, 0) + n - 1
  <2>10. KidsAt(c, i, m, S, n, T)
    BY <2>6 DEF KidsAt, n
  <2>11. Filled(g, h, p, S, n) /\ AllAre(g, p, S, "free")
    BY <2>6, <2>7 DEF AllAre
  <2> HIDE DEF p, S, T
  <2>12. Outcome(g, Done(h, c * CellBlocks + i * Fanout), n, Fanout)
    BY <2>9, <2>10, <2>11, KidsOutcome, Zenon
  <2> QED BY <2>1, <2>5, <2>12 DEF n
<1>4. CASE found = {} /\ FreeCells(g) # {}
  <2> DEFINE c == Min(FreeCells(g))
             a == RefineL0(g, c)
             h == a.g
             r == a.val
             k == Fill(h, r, 0 .. m - 1, n)
  <2>1. AllocL1(g, m) = IF a.ok THEN Done(k, c * CellBlocks) ELSE a
    BY <1>4 DEF AllocL1, Scan, Then
  <2>2. c \in Cells /\ g.rt[c] = "free"
    BY <1>4, FreeCellsFacts
  <2> HIDE DEF c, found
  <2>3. a.g \in Group /\ (a.ok => CellRefined(g, h, c, r))
    BY <2>2, RefineL0Done
  <2>4. CASE ~a.ok
    BY <2>1, <2>3, <2>4 DEF Outcome
  <2>5. CASE a.ok
    <3> HIDE DEF a
    <3> HIDE DEF h, r
    <3>1. /\ Good(h) /\ HeldKept(g, h, {}) /\ h.rt[c] = "refined" /\ h.ref[c] = r /\ r \in DOMAIN h.recs
          /\ Loose(h) \subseteq {r} /\ \A j \in Kids : h.recs[r].st[j] = "free"
      BY <2>2, <2>3, <2>5, NewCellFacts
    <3> DEFINE i == 0
               S == 0 .. m - 1
               T == Blk(c, i, 0) .. Blk(c, i, 0) + n - 1
    <3>2. KidsAt(c, i, m, S, n, T) /\ AllAre(h, r, S, "free")
      <4>1. S \subseteq Kids
        BY Sizes2 DEF Kids
      <4> QED BY <1>2, <3>1, <4>1 DEF KidsAt, AllAre
    <3>3. c * CellBlocks = c * CellBlocks + i * Fanout
      BY <2>2, Sizes2, BlocksType
    <3>4. Filled(h, k, r, S, n)
      <4>1. h \in Group
        BY <3>1 DEF Good
      <4> HIDE DEF S, n
      <4> QED BY <1>2, <2>2, <3>1, <4>1, FillFacts DEF S
    <3>5. PICK home : TreeBy(h, home)
      BY <3>1, Zenon DEF Good, Tree
    <3>6. CellRec(h, home, r, c)
      BY <2>2, <3>1, <3>5, CellRecord DEF CellRec
    <3> HIDE DEF k, n, i, S, T
    <3>7. Outcome(h, Done(k, c * CellBlocks + i * Fanout), n, Fanout)
      BY <3>1, <3>2, <3>4, <3>6, KidsOutcome, Zenon
    <3>8. Outcome(g, Done(k, c * CellBlocks), n, Fanout)
      BY <3>1, <3>3, <3>7, OutcomeAfter
    <3> QED BY <2>1, <2>5, <3>8 DEF n
  <2> QED BY <2>4, <2>5
<1>5. CASE found = {} /\ FreeCells(g) = {}
  <2>1. AllocL1(g, m) = Failed(g)
    BY <1>5 DEF AllocL1, Scan
  <2> QED BY <1>1, <2>1, OutcomeFailed
<1> QED BY <1>3, <1>4, <1>5


(* What an L1 cell just refined has room for. *)
NewKid(g, h, c, i, r) ==
  /\ Good(h) /\ HeldKept(g, h, {}) /\ Loose(h) \subseteq {r} /\ r \in DOMAIN h.recs
  /\ \A j \in Kids : h.recs[r].st[j] = "free"
  /\ \E home : KidRec(h, home, r, c, i)

LEMMA NewKidFacts ==
  ASSUME NEW g, NEW h, NEW c \in Cells, NEW i \in Kids, NEW r, KidRefined(g, h, c, i, r), Loose(g) \subseteq {g.ref[c]}
  PROVE  NewKid(g, h, c, i, r)
<1> DEFINE p == g.ref[c]
<1>1. /\ Good(h) /\ HeldKept(g, h, {}) /\ h.rt[c] = "refined" /\ h.ref[c] = p
      /\ r \in DOMAIN h.recs /\ h.recs[r] = ZeroRecord /\ DOMAIN h.recs = DOMAIN g.recs \cup {r}
      /\ p \in DOMAIN g.recs /\ h.recs[p].st[i] = "refined" /\ h.recs[p].ref[i] = r
      /\ \A x \in DOMAIN g.recs : x # p => h.recs[x] = g.recs[x]
  BY DEF KidRefined, OneLoose
<1>2. Loose(h) \subseteq {r}
  <2>1. ASSUME NEW x \in DOMAIN h.recs, x # r PROVE ~AllFree(h.recs[x])
    <3>1. CASE x = p
      BY <1>1, <3>1 DEF AllFree
    <3>2. CASE x # p
      <4>1. x \in DOMAIN g.recs /\ h.recs[x] = g.recs[x] /\ x \notin Loose(g)
        BY <1>1, <2>1, <3>2
      <4> QED BY <4>1 DEF Loose
    <3> QED BY <3>1, <3>2
  <2> QED BY <2>1 DEF Loose
<1>3. PICK home : TreeBy(h, home)
  BY <1>1, Zenon DEF Good, Tree
<1>4. h.recs[h.ref[c]].st[i] = "refined" /\ h.recs[h.ref[c]].ref[i] = r
  BY <1>1
<1> HIDE DEF p
<1>5. home[r] = <<1, c, i, 0>>
  BY <1>1, <1>3, <1>4, KidRecord
<1>6. KidRec(h, home, r, c, i)
  BY <1>1, <1>3, <1>5 DEF KidRec
<1> QED BY <1>1, <1>2, <1>6, ZeroFacts DEF NewKid

LEMMA NewKidOutcome ==
  ASSUME NEW g, NEW h, NEW c \in Cells, NEW i \in Kids, NEW r, KidRefined(g, h, c, i, r), Loose(g) \subseteq {g.ref[c]},
         NEW n \in Nat \ {0}, n <= Fanout, NEW k, Filled(h, k, r, 0 .. n - 1, n)
  PROVE  Outcome(g, Done(k, c * CellBlocks + i * Fanout), n, 1)
<1>1. /\ Good(h) /\ HeldKept(g, h, {}) /\ Loose(h) \subseteq {r} /\ r \in DOMAIN h.recs
      /\ \A j \in Kids : h.recs[r].st[j] = "free"
      /\ \E home : KidRec(h, home, r, c, i)
  <2>1. NewKid(g, h, c, i, r)
    BY NewKidFacts, Zenon
  <2> QED BY <2>1, Zenon DEF NewKid
<1>2. PICK home : KidRec(h, home, r, c, i)
  BY <1>1
<1> DEFINE j == 0
           S == 0 .. n - 1
           T == Blk(c, i, j) .. Blk(c, i, j) + n - 1
<1>3. LeavesAt(c, i, j, n, S, T) /\ AllAre(h, r, S, "free")
  <2>1. S \subseteq Kids
    BY Sizes2 DEF Kids
  <2> QED BY <1>1, <2>1, BlocksType DEF LeavesAt, AllAre
<1>4. Filled(h, k, r, S, n)
  OBVIOUS
<1>5. c * CellBlocks + i * Fanout = c * CellBlocks + i * Fanout + j
  <2> DEFINE x == c * CellBlocks + i * Fanout
  <2>1. c \in Int /\ i \in Int /\ CellBlocks \in Int /\ Fanout \in Int
    BY Sizes2, BlocksType
  <2>2. x \in Int
    BY <2>1
  <2> HIDE DEF x
  <2>3. x = x + j
    BY <2>2
  <2> QED BY <2>3 DEF x
<1> HIDE DEF j, S, T
<1>6. Outcome(h, Done(k, c * CellBlocks + i * Fanout + j), n, 1)
  BY <1>1, <1>2, <1>3, <1>4, LeavesOutcome, Zenon
<1> QED BY <1>1, <1>5, <1>6, OutcomeAfter

LEMMA TakeRunDone ==
  ASSUME NEW g, Good(g), Loose(g) = {}, NEW n \in Nat \ {0}, n <= Fanout, NEW c \in Refined(g),
         KidsWithRun(g, g.recs[g.ref[c]], n) # {}
  PROVE  Outcome(g, TakeRun(g, c, n), n, 1)
<1> DEFINE l0 == g.recs[g.ref[c]]
           i == Min(KidsWithRun(g, l0, n))
           p == l0.ref[i]
           j == Min(Runs(g.recs[p], n))
           S == j .. j + n - 1
           T == Blk(c, i, j) .. Blk(c, i, j) + n - 1
           h == [Fill(g, p, S, n) EXCEPT !.cellHint = c]
<1>1. g \in Group /\ Tree(g) /\ c \in Cells /\ g.rt[c] = "refined"
  BY DEF Good, Refined
<1>2. PICK home : TreeBy(g, home)
  BY <1>1, Zenon DEF Tree
<1>3. Readable(g, c)
  BY <1>1, <1>2, CellRecord DEF Readable
<1>4. TakeRun(g, c, n) = Done(h, c * CellBlocks + i * Fanout + j)
  BY <1>3 DEF TakeRun
<1>5. i \in Kids /\ l0.st[i] = "refined" /\ Runs(g.recs[p], n) # {}
  <2>1. KidsWithRun(g, l0, n) \in SUBSET Nat
    BY BlocksType DEF KidsWithRun
  <2>2. i \in KidsWithRun(g, l0, n)
    BY <2>1, MinIsLeast
  <2> QED BY <2>2 DEF KidsWithRun
<1>6. p \in DOMAIN g.recs /\ home[p] = <<1, c, i, 0>>
  <2> HIDE DEF i
  <2> QED BY <1>1, <1>2, <1>5, KidRecord
<1> HIDE DEF i
<1> HIDE DEF p
<1>7. KidRec(g, home, p, c, i)
  BY <1>1, <1>2, <1>5, <1>6 DEF KidRec
<1>8. j \in Kids /\ j + n <= Fanout /\ \A k \in j .. j + n - 1 : g.recs[p].st[k] = "free"
  BY <1>5, RunsFacts
<1> HIDE DEF j
<1>9. LeavesAt(c, i, j, n, S, T) /\ AllAre(g, p, S, "free")
  BY <1>8 DEF LeavesAt, AllAre
<1> HIDE DEF S, T
<1>10. Filled(g, h, p, S, n)
  BY <1>1, <1>6, FillFacts
<1> HIDE DEF h
<1>11. Loose(g) \subseteq {p}
  OBVIOUS
<1>12. Outcome(g, Done(h, c * CellBlocks + i * Fanout + j), n, 1)
  BY <1>7, <1>9, <1>10, <1>11, LeavesOutcome, Zenon
<1> QED BY <1>4, <1>12

LEMMA RefineFreeKidDone ==
  ASSUME NEW g, Good(g), Loose(g) = {}, NEW n \in Nat \ {0}, n <= Fanout, NEW c \in Refined(g),
         FreeKids(g.recs[g.ref[c]]) # {}
  PROVE  Outcome(g, RefineFreeKid(g, c, n), n, 1)
<1> DEFINE p == g.ref[c]
           i == Min(FreeKids(g.recs[p]))
           a == RefineL1(g, p, i)
           h == a.g
           r == a.val
           k == [Fill(h, r, 0 .. n - 1, n) EXCEPT !.cellHint = c]
<1>1. g \in Group /\ Tree(g) /\ c \in Cells /\ g.rt[c] = "refined"
  BY DEF Good, Refined
<1>2. Readable(g, c)
  BY <1>1, CellRecord DEF Readable, Tree
<1>3. RefineFreeKid(g, c, n) = IF a.ok THEN Done(k, c * CellBlocks + i * Fanout) ELSE a
  BY <1>2 DEF RefineFreeKid, Then
<1>4. i \in Kids /\ g.recs[p].st[i] = "free"
  <2>1. FreeKids(g.recs[p]) \in SUBSET Nat
    BY BlocksType DEF FreeKids
  <2>2. i \in FreeKids(g.recs[p])
    BY <2>1, MinIsLeast
  <2> QED BY <2>2 DEF FreeKids
<1> HIDE DEF i
<1>5. a.g \in Group /\ (a.ok => KidRefined(g, h, c, i, r))
  BY <1>1, <1>4, RefineL1Done
<1>6. CASE ~a.ok
  BY <1>3, <1>5, <1>6 DEF Outcome
<1>7. CASE a.ok
  <2>1. Loose(g) \subseteq {g.ref[c]}
    OBVIOUS
  <2> HIDE DEF a, p
  <2> HIDE DEF h, r
  <2>2. KidRefined(g, h, c, i, r)
    BY <1>5, <1>7
  <2>3. h \in Group /\ r \in DOMAIN h.recs
    BY <2>2 DEF KidRefined, OneLoose, Good
  <2>4. Filled(h, k, r, 0 .. n - 1, n)
    BY <1>1, <2>3, FillFacts
  <2> HIDE DEF k
  <2>5. Outcome(g, Done(k, c * CellBlocks + i * Fanout), n, 1)
    BY <1>1, <1>4, <2>1, <2>2, <2>4, NewKidOutcome
  <2> QED BY <1>3, <1>7, <2>5
<1> QED BY <1>6, <1>7

LEMMA RefineFreeCellDone ==
  ASSUME NEW g, Good(g), Loose(g) = {}, NEW n \in Nat \ {0}, n <= Fanout, NEW c \in FreeCells(g)
  PROVE  Outcome(g, RefineFreeCell(g, c, n), n, 1)
<1> DEFINE a == RefineL0(g, c)
           h0 == a.g
           r0 == a.val
           d == RefineL1(h0, r0, 0)
           h == d.g
           r == d.val
           k == Fill(h, r, 0 .. n - 1, n)
<1>1. c \in Cells /\ g.rt[c] = "free" /\ 0 \in Kids
  BY BlocksType DEF FreeCells
<1>2. a.g \in Group /\ (a.ok => CellRefined(g, h0, c, r0))
  BY <1>1, RefineL0Done
<1>3. RefineFreeCell(g, c, n) = IF a.ok THEN IF d.ok THEN Done(k, c * CellBlocks) ELSE d ELSE a
  BY DEF RefineFreeCell, Then
<1>4. CASE ~a.ok
  BY <1>2, <1>3, <1>4 DEF Outcome
<1>5. CASE a.ok
  <2> HIDE DEF a
  <2> HIDE DEF h0, r0
  <2>1. /\ Good(h0) /\ HeldKept(g, h0, {}) /\ h0.rt[c] = "refined" /\ h0.ref[c] = r0 /\ r0 \in DOMAIN h0.recs
        /\ Loose(h0) \subseteq {r0} /\ \A j \in Kids : h0.recs[r0].st[j] = "free"
    BY <1>1, <1>2, <1>5, NewCellFacts
  <2>2. d.g \in Group /\ (d.ok => KidRefined(h0, h, c, 0, r))
    BY <1>1, <2>1, RefineL1Done
  <2>3. CASE ~d.ok
    BY <1>3, <1>5, <2>2, <2>3 DEF Outcome
  <2>4. CASE d.ok
    <3> HIDE DEF d
    <3> HIDE DEF h, r
    <3>1. KidRefined(h0, h, c, 0, r) /\ Loose(h0) \subseteq {h0.ref[c]}
      BY <2>1, <2>2, <2>4
    <3>2. h \in Group /\ r \in DOMAIN h.recs
      BY <3>1 DEF KidRefined, OneLoose, Good
    <3>3. Filled(h, k, r, 0 .. n - 1, n)
      <4> DEFINE S == 0 .. n - 1
      <4>1. n \in Int /\ c \in Cells
        BY <1>1
      <4> HIDE DEF S
      <4>2. Filled(h, Fill(h, r, S, n), r, S, n)
        BY <3>2, <4>1, FillFacts
      <4> QED BY <4>2 DEF S
    <3> HIDE DEF k
    <3>4. Outcome(h0, Done(k, c * CellBlocks + 0 * Fanout), n, 1)
      BY <1>1, <3>1, <3>3, NewKidOutcome
    <3>5. c * CellBlocks + 0 * Fanout = c * CellBlocks
      BY <1>1, Sizes2, BlocksType
    <3>6. Outcome(g, Done(k, c * CellBlocks), n, 1)
      BY <2>1, <3>4, <3>5, OutcomeAfter
    <3> QED BY <1>3, <1>5, <2>4, <3>6
  <2> QED BY <2>3, <2>4
<1> QED BY <1>4, <1>5

LEMMA AllocL2Done ==
  ASSUME NEW g, Good(g), Loose(g) = {}, NEW n \in Nat \ {0}, n <= Fanout
  PROVE  Outcome(g, AllocL2(g, n), n, 1)
<1> DEFINE withRun == {c \in Refined(g) : Readable(g, c) => KidsWithRun(g, g.recs[g.ref[c]], n) # {}}
           withKid == {c \in Refined(g) : Readable(g, c) => FreeKids(g.recs[g.ref[c]]) # {}}
<1>1. g \in Group /\ Tree(g) /\ Refined(g) \subseteq Cells
  BY DEF Good, Refined
<1>2. \A c \in Refined(g) : Readable(g, c)
  BY <1>1, CellRecord DEF Readable, Tree, Refined
<1>3. WithFreeKid(g) = withKid /\ withKid \subseteq Cells /\ withRun \subseteq Cells
  BY <1>1 DEF WithFreeKid, Scan
<1>4. AllocL2(g, n) =
        IF withRun # {} THEN TakeRun(g, FirstFrom(withRun, g.cellHint), n)
        ELSE IF withKid # {} THEN RefineFreeKid(g, FirstFrom(withKid, g.cellHint), n)
        ELSE IF FreeCells(g) # {} THEN RefineFreeCell(g, Min(FreeCells(g)), n)
        ELSE Failed(g)
  BY <1>3 DEF AllocL2, Scan
<1>5. \A c \in withRun : c \in Refined(g) /\ KidsWithRun(g, g.recs[g.ref[c]], n) # {}
  BY <1>2
<1>6. \A c \in withKid : c \in Refined(g) /\ FreeKids(g.recs[g.ref[c]]) # {}
  BY <1>2
<1> HIDE DEF withRun, withKid
<1>7. CASE withRun # {}
  <2>1. FirstFrom(withRun, g.cellHint) \in withRun
    BY <1>1, <1>3, <1>7, FirstCell
  <2> QED BY <1>4, <1>5, <1>7, <2>1, TakeRunDone
<1>8. CASE withRun = {} /\ withKid # {}
  <2>1. FirstFrom(withKid, g.cellHint) \in withKid
    BY <1>1, <1>3, <1>8, FirstCell
  <2> QED BY <1>4, <1>6, <1>8, <2>1, RefineFreeKidDone
<1>9. CASE withRun = {} /\ withKid = {} /\ FreeCells(g) # {}
  <2>1. Min(FreeCells(g)) \in FreeCells(g)
    BY <1>9, FreeCellsFacts DEF FreeCells
  <2> QED BY <1>4, <1>9, <2>1, RefineFreeCellDone
<1>10. CASE withRun = {} /\ withKid = {} /\ FreeCells(g) = {}
  BY <1>1, <1>4, <1>10, OutcomeFailed
<1> QED BY <1>7, <1>8, <1>9, <1>10

(* The unit that an extent of n blocks is allocated in. *)
UnitFor(n) == IF n >= CellBlocks THEN CellBlocks ELSE IF n > Fanout THEN Fanout ELSE 1

LEMMA AllocExtentDone ==
  ASSUME NEW g, Good(g), Loose(g) = {}, NEW n \in Nat \ {0}
  PROVE  Outcome(g, AllocExtent(g, n), CeilDiv(n, UnitFor(n)) * UnitFor(n), UnitFor(n))
<1>1. CASE n >= CellBlocks
  <2>1. CeilDiv(n, CellBlocks) \in Nat \ {0}
    BY Sizes2, CeilFacts
  <2> QED BY <1>1, <2>1, AllocL0Done DEF AllocExtent, UnitFor
<1>2. CASE n < CellBlocks /\ n > Fanout
  <2>1. Fanout \in Nat \ {0} /\ CellBlocks = Fanout * Fanout
    BY Sizes2
  <2>2. CeilDiv(n, Fanout) \in Nat \ {0} /\ CeilDiv(n, Fanout) <= Fanout
    BY <1>2, <2>1, CeilFacts
  <2>3. ~(n >= CellBlocks)
    BY <1>2, Sizes2
  <2>4. AllocExtent(g, n) = AllocL1(g, CeilDiv(n, Fanout)) /\ UnitFor(n) = Fanout
    BY <1>2, <2>3 DEF AllocExtent, UnitFor
  <2> QED BY <2>2, <2>4, AllocL1Done
<1>3. CASE n < CellBlocks /\ ~(n > Fanout)
  <2>1. n <= Fanout /\ ~(n >= CellBlocks)
    BY <1>3, Sizes2
  <2>2. AllocExtent(g, n) = AllocL2(g, n) /\ UnitFor(n) = 1
    BY <1>3, <2>1 DEF AllocExtent, UnitFor
  <2>3. CeilDiv(n, 1) = n
    BY CeilFacts
  <2>4. CeilDiv(n, 1) * 1 = n
    BY <2>3
  <2> QED BY <2>1, <2>2, <2>4, AllocL2Done
<1> QED BY <1>1, <1>2, <1>3, Sizes2

-----------------------------------------------------------------------------
(* Freeing *)

(* h is g to its callers, states included. *)
Still(g, h) == Good(h) /\ HeldKept(g, h, {}) /\ \A b \in Blocks : StateOf(h, b) = StateOf(g, b)

LEMMA AlikeStill ==
  ASSUME NEW g, Good(g), NEW h \in Group, Tree(h), \A b \in Blocks : Alike(g, h, b),
         SameCounters(g, h), h.slots = g.slots, h.inoHint = g.inoHint
  PROVE  Still(g, h)
<1>1. \A b \in Blocks : StateOf(h, b) = StateOf(g, b)
  BY AlikeHeld
<1> QED BY <1>1, AlikeGood DEF Still

LEMMA ReturnedThen ==
  ASSUME NEW g, NEW h, NEW k, NEW T, NEW u, Returned(g, h, T, u), Still(h, k)
  PROVE  Returned(g, k, T, u)
<1>1. /\ T \in SUBSET Blocks /\ HeldKept(g, h, T) /\ Released(g, h, T, u) /\ Good(k) /\ HeldKept(h, k, {})
      /\ \A b \in Blocks : StateOf(k, b) = StateOf(h, b)
  BY DEF Returned, Still
<1>2. HeldKept(g, k, T \cup {})
  BY <1>1, KeptTwice
<1>3. T \cup {} = T
  OBVIOUS
<1>4. Released(g, k, T, u)
  BY <1>1 DEF Released
<1> QED BY <1>1, <1>2, <1>3, <1>4 DEF Returned

Freed(g, r, T, u) == r.ok /\ r.val = u /\ Returned(g, r.g, T, u) /\ Loose(r.g) = {}

WithCell(g, c, st, r) == [g EXCEPT !.rt[c] = st, !.ref[c] = r]

LEMMA WithCellFacts ==
  ASSUME NEW g \in Group, NEW c \in Cells, NEW st \in States, NEW r \in Refs, NEW h, h = WithCell(g, c, st, r)
  PROVE  /\ h \in Group /\ h.recs = g.recs /\ h.slots = g.slots /\ h.arena = g.arena
         /\ h.inoHint = g.inoHint /\ h.free = g.free /\ h.rsvd = g.rsvd /\ h.full = g.full
         /\ h.rt[c] = st /\ \A d \in Cells \ {c} : h.rt[d] = g.rt[d] /\ h.ref[d] = g.ref[d]
<1>1. g.rt \in [Cells -> States] /\ g.ref \in [Cells -> Refs]
  BY GroupFacts
<1>2. h \in Group
  <2>1. [g.rt EXCEPT ![c] = st] \in [Cells -> States] /\ [g.ref EXCEPT ![c] = r] \in [Cells -> Refs]
    BY <1>1
  <2> QED BY <2>1 DEF WithCell, Group
<1>3. /\ h.recs = g.recs /\ h.slots = g.slots /\ h.arena = g.arena
      /\ h.inoHint = g.inoHint /\ h.free = g.free /\ h.rsvd = g.rsvd /\ h.full = g.full
      /\ h.rt = [g.rt EXCEPT ![c] = st] /\ h.ref = [g.ref EXCEPT ![c] = r]
  BY DEF WithCell, Group
<1> QED BY <1>1, <1>2, <1>3

(* maybe_coarsen_l0: the tree stays one, and no record is left without a   *)
(* child in use.                                                           *)
LEMMA CoarsenDone ==
  ASSUME NEW g, Good(g), NEW c \in Cells, g.rt[c] = "refined", NEW p, p = g.ref[c], Loose(g) \subseteq {p}
  PROVE  Still(g, CoarsenL0(g, c)) /\ Loose(CoarsenL0(g, c)) = {}
<1>1. g \in Group /\ Tree(g)
  BY DEF Good
<1>2. p \in DOMAIN g.recs
  BY <1>1, CellRecord DEF Tree
<1>3. CASE ~AllFree(g.recs[p])
  <2>1. CoarsenL0(g, c) = g
    BY <1>3 DEF CoarsenL0
  <2>2. Loose(g) = {}
    BY <1>3 DEF Loose
  <2>3. Still(g, g)
    BY DEF Still, HeldKept, HeldAlike, SameView
  <2> QED BY <2>1, <2>2, <2>3
<1>4. CASE AllFree(g.recs[p])
  <2> DEFINE q == DropRecord(g, p)
             h == WithCell(q, c, "free", NoRef)
  <2>1. CoarsenL0(g, c) = h
    BY <1>4 DEF CoarsenL0, WithCell
  <2>2. /\ q \in Group /\ OnlyRecs(g, q) /\ DOMAIN q.recs = DOMAIN g.recs \ {p}
        /\ \A x \in DOMAIN g.recs \ {p} : q.recs[x] = g.recs[x]
    BY <1>1, DropFacts
  <2> HIDE DEF q
  <2>3. "free" \in States
    BY DEF States
  <2>4. /\ h \in Group /\ h.recs = q.recs /\ h.slots = q.slots /\ h.arena = q.arena
        /\ h.inoHint = q.inoHint /\ h.free = q.free /\ h.rsvd = q.rsvd /\ h.full = q.full
        /\ h.rt[c] = "free" /\ \A d \in Cells \ {c} : h.rt[d] = q.rt[d] /\ h.ref[d] = q.ref[d]
    BY <2>2, <2>3, NoRefType, WithCellFacts
  <2> HIDE DEF h
  <2>5. /\ h.slots = g.slots /\ h.arena = g.arena /\ h.inoHint = g.inoHint /\ SameCounters(g, h)
        /\ \A d \in Cells \ {c} : h.rt[d] = g.rt[d] /\ h.ref[d] = g.ref[d]
    BY <2>2, <2>4 DEF OnlyRecs, SameCounters
  <2>6. CellDetached(g, h, c)
    BY <1>4, <2>2, <2>4, <2>5 DEF CellDetached
  <2>7. Tree(h) /\ \A b \in Blocks : Alike(g, h, b)
    BY <1>1, <2>6, DetachCell
  <2>8. Still(g, h)
    BY <2>4, <2>5, <2>7, AlikeStill
  <2>9. Loose(h) = {}
    BY <2>2, <2>4 DEF Loose
  <2> QED BY <2>1, <2>8, <2>9
<1> QED BY <1>3, <1>4

(* The children S of record p become free, for n blocks. *)
Emptied(g, h, p, S, n) ==
  /\ h \in Group /\ Painted(g, h, p, S, "free")
  /\ h.slots = g.slots /\ h.inoHint = g.inoHint /\ h.rsvd = g.rsvd
  /\ h.free = g.free + n /\ h.full = g.full - n

LEMMA EmptyFacts ==
  ASSUME NEW g \in Group, NEW p \in DOMAIN g.recs, NEW S, NEW n \in Int, NEW h,
         h = AccountFree(PutRecord(g, p, SetKids(g.recs[p], S, "free")), n)
  PROVE  Emptied(g, h, p, S, n)
<1> DEFINE rec == SetKids(g.recs[p], S, "free")
           q == PutRecord(g, p, rec)
<1>1. p \in Refs /\ rec \in Rec
  BY GroupFacts, SetKidsFacts
<1>2. h = AccountFree(q, n)
  OBVIOUS
<1> HIDE DEF rec
<1>3. /\ q \in Group /\ OnlyRecs(g, q) /\ DOMAIN q.recs = DOMAIN g.recs /\ q.recs[p] = rec
      /\ \A x \in DOMAIN g.recs \ {p} : q.recs[x] = g.recs[x]
  <2>1. /\ q \in Group /\ OnlyRecs(g, q) /\ DOMAIN q.recs = DOMAIN g.recs \cup {p} /\ q.recs[p] = rec
        /\ \A x \in DOMAIN g.recs \ {p} : q.recs[x] = g.recs[x]
    BY <1>1, PutFacts
  <2> QED BY <2>1
<1> HIDE DEF q
<1>4. h \in Group /\ SameTree(q, h) /\ h.free = q.free + n /\ h.full = q.full - n
  BY <1>2, <1>3, AccountFacts
<1>5. /\ h.rt = g.rt /\ h.ref = g.ref /\ h.arena = g.arena /\ h.recs = q.recs
      /\ h.slots = g.slots /\ h.inoHint = g.inoHint /\ h.rsvd = g.rsvd
      /\ h.free = g.free + n /\ h.full = g.full - n
  BY <1>3, <1>4, Zenon DEF OnlyRecs, SameTree
<1>6. Painted(g, h, p, S, "free")
  BY <1>3, <1>5, Zenon DEF Painted, rec
<1> QED BY <1>4, <1>5, <1>6, Zenon DEF Emptied

(* No record but p has lost a child in use. *)
LEMMA EmptiedLoose ==
  ASSUME NEW g, NEW h, NEW p, NEW S, Painted(g, h, p, S, "free")
  PROVE  Loose(h) \subseteq Loose(g) \cup {p}
BY DEF Painted, Loose

LEMMA ReturnedKids ==
  ASSUME NEW g, Good(g), NEW home, NEW h, NEW c, NEW p, CellRec(g, home, p, c),
         NEW i, NEW m, NEW S, NEW n, NEW T, KidsAt(c, i, m, S, n, T),
         AllAre(g, p, S, "full"), Emptied(g, h, p, S, n)
  PROVE  Returned(g, h, T, Fanout) /\ Loose(h) \subseteq Loose(g) \cup {p}
<1>1. g \in Group /\ Painted(g, h, p, S, "free") /\ h \in Group
  BY DEF Good, Emptied
<1>2. UnitsMoved(g, h, T, n, "full", "free", Fanout)
  <2>1. "full" \in Colours /\ "free" \in Colours
    BY DEF Colours
  <2>2. /\ TreeBy(g, home) /\ p \in DOMAIN g.recs /\ c \in Cells /\ home[p][1] = 0 /\ home[p][2] = c
        /\ \A k \in S : g.recs[p].st[k] = "full"
    BY DEF CellRec, AllAre
  <2> QED BY <1>1, <2>1, <2>2, PaintKids
<1>3. Returned(g, h, T, Fanout)
  BY <1>1, <1>2, ReturnedDone DEF Emptied
<1> QED BY <1>1, <1>3, EmptiedLoose

LEMMA ReturnedLeaves ==
  ASSUME NEW g, Good(g), NEW home, NEW h, NEW c, NEW i, NEW p, KidRec(g, home, p, c, i),
         NEW j, NEW n, NEW S, NEW T, LeavesAt(c, i, j, n, S, T),
         AllAre(g, p, S, "full"), Emptied(g, h, p, S, n)
  PROVE  Returned(g, h, T, 1) /\ Loose(h) \subseteq Loose(g) \cup {p}
<1>1. g \in Group /\ Painted(g, h, p, S, "free") /\ h \in Group
  BY DEF Good, Emptied
<1>2. UnitsMoved(g, h, T, n, "full", "free", 1)
  <2>1. "full" \in Colours /\ "free" \in Colours
    BY DEF Colours
  <2>2. /\ TreeBy(g, home) /\ p \in DOMAIN g.recs /\ c \in Cells /\ i \in Kids
        /\ home[p][1] = 1 /\ home[p][2] = c /\ home[p][3] = i
        /\ \A k \in S : g.recs[p].st[k] = "full"
    BY DEF KidRec, AllAre
  <2> QED BY <1>1, <2>1, <2>2, PaintLeaves
<1>3. Returned(g, h, T, 1)
  BY <1>1, <1>2, ReturnedDone DEF Emptied
<1> QED BY <1>1, <1>3, EmptiedLoose

LEMMA AlignedFacts ==
  ASSUME NEW b \in Nat, NEW u \in Nat \ {0}, Aligned(b, u)
  PROVE  (b % u) = 0
<1>1. PICK q \in Nat : b = q * u
  BY DEF Aligned
<1>2. b = u * q + 0 /\ 0 \in 0 .. u - 1
  BY <1>1
<1>3. u * q + 0 \in Nat
  BY <1>2
<1>4. ((u * q + 0) % u) = 0
  BY <1>2, <1>3, DivIs
<1> QED BY <1>2, <1>4

(* What free_extent does at block b, once the states are known.            *)
CellFreed(g, c) == [AccountFree(g, CellBlocks) EXCEPT !.rt[c] = "free"]
KidFreed(g, p, i) == AccountFree(PutRecord(g, p, SetKids(g.recs[p], {i}, "free")), Fanout)
LeafFreed(g, p, i, r, j) ==
  LET rec == SetKids(g.recs[r], {j}, "free") IN
  AccountFree(IF AllFree(rec) THEN PutRecord(DropRecord(g, r), p, [g.recs[p] EXCEPT !.st[i] = "free", !.ref[i] = NoRef])
              ELSE PutRecord(g, r, rec), 1)

LEMMA FreeUnitIs ==
  ASSUME NEW g, NEW b
  PROVE  /\ g.rt[CellOf(b)] = "full" /\ (b % CellBlocks) = 0 =>
              FreeUnit(g, b) = Done(CellFreed(g, CellOf(b)), CellBlocks)
         /\ g.rt[CellOf(b)] = "refined" /\ g.recs[R0(g, b)].st[KidOf(b)] = "full" /\ (b % Fanout) = 0 =>
              FreeUnit(g, b) = Done(CoarsenL0(KidFreed(g, R0(g, b), KidOf(b)), CellOf(b)), Fanout)
         /\ (g.rt[CellOf(b)] = "refined" /\ g.recs[R0(g, b)].st[KidOf(b)] = "refined"
              /\ g.recs[R1(g, b)].st[LeafOf(b)] = "full") =>
              FreeUnit(g, b) = Done(CoarsenL0(LeafFreed(g, R0(g, b), KidOf(b), R1(g, b), LeafOf(b)), CellOf(b)), 1)
<1>1. ASSUME g.rt[CellOf(b)] = "full", (b % CellBlocks) = 0
      PROVE  FreeUnit(g, b) = Done(CellFreed(g, CellOf(b)), CellBlocks)
  BY <1>1, Zenon DEF FreeUnit, CellFreed, CellOf
<1>2. ASSUME g.rt[CellOf(b)] = "refined", g.recs[R0(g, b)].st[KidOf(b)] = "full", (b % Fanout) = 0
      PROVE  FreeUnit(g, b) = Done(CoarsenL0(KidFreed(g, R0(g, b), KidOf(b)), CellOf(b)), Fanout)
  BY <1>2, Zenon DEF FreeUnit, KidFreed, CellOf, KidOf, R0
<1>3. ASSUME g.rt[CellOf(b)] = "refined", g.recs[R0(g, b)].st[KidOf(b)] = "refined",
             g.recs[R1(g, b)].st[LeafOf(b)] = "full"
      PROVE  FreeUnit(g, b) = Done(CoarsenL0(LeafFreed(g, R0(g, b), KidOf(b), R1(g, b), LeafOf(b)), CellOf(b)), 1)
  BY <1>3, Zenon DEF FreeUnit, LeafFreed, CellOf, KidOf, LeafOf, R0, R1
<1> QED BY <1>1, <1>2, <1>3

WithState(g, c, st) == [g EXCEPT !.rt[c] = st]

(* h is g but for the state of cell c. *)
OnlyState(g, h, c, st) ==
  /\ h \in Group /\ h.ref = g.ref /\ h.recs = g.recs /\ h.slots = g.slots /\ h.arena = g.arena
  /\ h.inoHint = g.inoHint /\ h.free = g.free /\ h.rsvd = g.rsvd /\ h.full = g.full
  /\ h.rt[c] = st /\ \A d \in Cells \ {c} : h.rt[d] = g.rt[d]

LEMMA WithStateFacts ==
  ASSUME NEW g \in Group, NEW c \in Cells, NEW st \in States
  PROVE  OnlyState(g, WithState(g, c, st), c, st)
<1> DEFINE h == WithState(g, c, st)
<1>1. g.rt \in [Cells -> States] /\ [g.rt EXCEPT ![c] = st] \in [Cells -> States]
  BY GroupFacts
<1>2. h \in Group
  BY <1>1 DEF WithState, Group
<1>3. /\ h.ref = g.ref /\ h.recs = g.recs /\ h.slots = g.slots /\ h.arena = g.arena
      /\ h.inoHint = g.inoHint /\ h.free = g.free /\ h.rsvd = g.rsvd /\ h.full = g.full
      /\ h.rt = [g.rt EXCEPT ![c] = st]
  BY DEF WithState, Group
<1> HIDE DEF h
<1>4. OnlyState(g, h, c, st)
  BY <1>1, <1>2, <1>3 DEF OnlyState
<1> QED BY <1>4 DEF h

LEMMA FreeCellDone ==
  ASSUME NEW g, Good(g), Loose(g) = {}, NEW b \in Blocks, g.rt[CellOf(b)] = "full", Aligned(b, CellBlocks)
  PROVE  Freed(g, FreeUnit(g, b), b .. b + CellBlocks - 1, CellBlocks)
<1> DEFINE c == CellOf(b)
           n == CellBlocks
           q == AccountFree(g, n)
           h == WithState(q, c, "free")
           T == b .. b + n - 1
<1>1. g \in Group /\ Tree(g) /\ c \in Cells /\ n \in Nat \ {0} /\ b \in Nat
  BY OfFacts, Sizes2, BlocksType DEF Good
<1>2. (b % CellBlocks) = 0
  BY <1>1, AlignedFacts
<1>3. FreeUnit(g, b) = Done(h, n)
  BY <1>2, FreeUnitIs DEF WithState, CellFreed
<1>4. b = c * CellBlocks
  <2>1. b = CellBlocks * c + (b % CellBlocks)
    BY OfFacts
  <2>2. c \in Nat
    BY <1>1, BlocksType
  <2> QED BY <1>1, <1>2, <2>1, <2>2
<1>5. BlocksOf({c}, T, n)
  BY <1>1, <1>4, BlocksOfCell
<1>6. q \in Group /\ SameTree(g, q) /\ q.free = g.free + n /\ q.full = g.full - n
  <2>1. n \in Int
    BY <1>1
  <2> HIDE DEF n
  <2> QED BY <1>1, <2>1, AccountFacts
<1>7. g.rt[c] = "full" /\ "free" \in States
  BY DEF States
<1> HIDE DEF c, n, q, T
<1>8. /\ h \in Group /\ h.ref = q.ref /\ h.recs = q.recs /\ h.slots = q.slots /\ h.arena = q.arena
      /\ h.inoHint = q.inoHint /\ h.free = q.free /\ h.rsvd = q.rsvd /\ h.full = q.full
      /\ h.rt[c] = "free" /\ \A d \in Cells \ {c} : h.rt[d] = q.rt[d]
  <2>1. OnlyState(q, h, c, "free")
    BY <1>1, <1>6, <1>7, WithStateFacts
  <2> HIDE DEF h
  <2> QED BY <2>1, Zenon DEF OnlyState
<1> HIDE DEF h
<1>9. Marked(g, h, {c}, "free")
  <2>1. h.ref = g.ref /\ h.recs = g.recs /\ h.arena = g.arena /\ \A d \in Cells \ {c} : h.rt[d] = g.rt[d]
    BY <1>6, <1>8 DEF SameTree
  <2> QED BY <1>1, <1>7, <1>8, <2>1 DEF Marked
<1>10. UnitsMoved(g, h, T, n, "full", "free", CellBlocks)
  BY <1>1, <1>5, <1>7, <1>9, MarkBlocks
<1>11. Returned(g, h, T, CellBlocks)
  BY <1>6, <1>8, <1>10, ReturnedDone DEF SameTree
<1>12. Loose(h) = {}
  BY <1>6, <1>8 DEF Loose, SameTree
<1>13. Freed(g, Done(h, n), T, n)
  BY <1>11, <1>12 DEF Freed, Done, n
<1> QED BY <1>3, <1>13 DEF T, n

LEMMA FreeKidDone ==
  ASSUME NEW g, Good(g), Loose(g) = {}, NEW b \in Blocks, Is0(g, b), g.recs[R0(g, b)].st[KidOf(b)] = "full",
         Aligned(b, Fanout)
  PROVE  Freed(g, FreeUnit(g, b), b .. b + Fanout - 1, Fanout)
<1> DEFINE c == CellOf(b)
           i == KidOf(b)
           p == R0(g, b)
           S == {i}
           n == Fanout
           h == KidFreed(g, p, i)
           k == CoarsenL0(h, c)
           T == b .. b + n - 1
<1>1. g \in Group /\ Tree(g) /\ c \in Cells /\ i \in Kids /\ n \in Nat \ {0} /\ b \in Nat /\ g.rt[c] = "refined"
  BY OfFacts, Sizes2, BlocksType DEF Good, Is0
<1>2. (b % Fanout) = 0
  BY <1>1, AlignedFacts
<1>3. FreeUnit(g, b) = Done(k, n)
  <2>1. g.rt[CellOf(b)] = "refined" /\ g.recs[R0(g, b)].st[KidOf(b)] = "full"
    BY DEF Is0
  <2> QED BY <1>2, <2>1, FreeUnitIs, Zenon
<1>4. PICK home : TreeBy(g, home)
  BY <1>1, Zenon DEF Tree
<1>5. p = g.ref[c] /\ p \in DOMAIN g.recs /\ g.recs[p].st[i] = "full"
  BY <1>1, <1>4, CellRecord DEF R0
<1>6. CellRec(g, home, p, c)
  BY <1>1, <1>4, <1>5, CellRecord DEF CellRec
<1>7. KidsAt(c, i, 1, S, n, T)
  <2>1. b = Blk(c, i, 0)
    <3>1. b = Blk(c, i, LeafOf(b)) /\ LeafOf(b) = 0
      BY <1>2, OfFacts DEF LeafOf
    <3> QED BY <3>1
  <2>2. S = i .. i + 1 - 1 /\ i + 1 <= Fanout
    <3>1. i \in 0 .. Fanout - 1
      BY <1>1 DEF Kids
    <3> QED BY <1>1, <3>1
  <2>3. n = 1 * Fanout
    BY <1>1
  <2> QED BY <1>1, <2>1, <2>2, <2>3 DEF KidsAt
<1>8. AllAre(g, p, S, "full")
  BY <1>5 DEF AllAre
<1> HIDE DEF c, i, p
<1>9. Emptied(g, h, p, S, n)
  <2>1. h = AccountFree(PutRecord(g, p, SetKids(g.recs[p], S, "free")), n)
    BY DEF KidFreed
  <2>2. n \in Int
    BY <1>1
  <2> HIDE DEF h, S, n
  <2> QED BY <1>1, <1>5, <2>1, <2>2, EmptyFacts
<1> HIDE DEF S, n, T
<1> HIDE DEF h
<1>10. Returned(g, h, T, Fanout) /\ Loose(h) \subseteq Loose(g) \cup {p}
  BY <1>6, <1>7, <1>8, <1>9, ReturnedKids, Zenon
<1>11. h.rt[c] = "refined" /\ p = h.ref[c] /\ Loose(h) \subseteq {p} /\ Good(h)
  BY <1>1, <1>5, <1>9, <1>10 DEF Emptied, Painted, Returned
<1>12. Still(h, k) /\ Loose(k) = {}
  BY <1>1, <1>11, CoarsenDone
<1> HIDE DEF k
<1>13. Returned(g, k, T, Fanout)
  BY <1>10, <1>12, ReturnedThen
<1>14. Freed(g, Done(k, n), T, n)
  BY <1>12, <1>13 DEF Freed, Done, n
<1> QED BY <1>3, <1>14 DEF T, n

(* The last block of an L1 cell: its record goes.                          *)
LastLeafFreed(g, p, i, r) == AccountFree(PutRecord(DropRecord(g, r), p, WithKid(g.recs[p], i, "free", NoRef)), 1)

LastLeaf(g, k, c, p, i, r, S) ==
  /\ g \in Group /\ Good(k) /\ p \in DOMAIN g.recs /\ i \in Kids /\ r \in DOMAIN g.recs /\ r # p
  /\ Refers(g, p, i, r) /\ Emptied(g, k, r, S, 1) /\ AllFree(k.recs[r]) /\ Loose(k) \subseteq {r}
  /\ c \in Cells /\ g.rt[c] = "refined" /\ g.ref[c] = p

LeafGone(g, k, h, p) == Still(k, h) /\ h.rt = g.rt /\ h.ref = g.ref /\ Loose(h) \subseteq {p}

LEMMA LastLeafDone ==
  ASSUME NEW g, NEW k, NEW c, NEW p, NEW i, NEW r, NEW S, LastLeaf(g, k, c, p, i, r, S)
  PROVE  LeafGone(g, k, LastLeafFreed(g, p, i, r), p)
<1> DEFINE new == WithKid(g.recs[p], i, "free", NoRef)
           q == DropRecord(g, r)
           x == PutRecord(q, p, new)
           h == LastLeafFreed(g, p, i, r)
<1>0. /\ g \in Group /\ Good(k) /\ p \in DOMAIN g.recs /\ i \in Kids /\ r \in DOMAIN g.recs /\ r # p
      /\ Refers(g, p, i, r) /\ Emptied(g, k, r, S, 1) /\ AllFree(k.recs[r]) /\ Loose(k) \subseteq {r}
      /\ c \in Cells /\ g.rt[c] = "refined" /\ g.ref[c] = p
  BY DEF LastLeaf
<1>1. h = AccountFree(x, 1)
  BY DEF LastLeafFreed
<1> HIDE DEF h
<1>2. g.recs[p] \in Rec /\ p \in Refs
  BY <1>0, GroupFacts
<1>3. KidIs(g.recs[p], new, i, "free", NoRef)
  BY <1>0, <1>2, NoRefType, WithKidFacts
<1>4. new \in Rec /\ new.st[i] = "free" /\ \A m \in Kids \ {i} : new.st[m] = g.recs[p].st[m] /\ new.ref[m] = g.recs[p].ref[m]
  BY <1>3 DEF KidIs
<1> HIDE DEF new
<1>5. /\ q \in Group /\ OnlyRecs(g, q) /\ DOMAIN q.recs = DOMAIN g.recs \ {r}
      /\ \A y \in DOMAIN g.recs \ {r} : q.recs[y] = g.recs[y]
  BY <1>0, DropFacts
<1> HIDE DEF q
<1>6. /\ x \in Group /\ OnlyRecs(q, x) /\ DOMAIN x.recs = DOMAIN g.recs \ {r} /\ x.recs[p] = new
      /\ \A y \in DOMAIN g.recs \ {r, p} : x.recs[y] = g.recs[y]
  <2>1. /\ x \in Group /\ OnlyRecs(q, x) /\ DOMAIN x.recs = DOMAIN q.recs \cup {p} /\ x.recs[p] = new
        /\ \A y \in DOMAIN q.recs \ {p} : x.recs[y] = q.recs[y]
    BY <1>0, <1>2, <1>4, <1>5, PutFacts
  <2> QED BY <1>0, <1>5, <2>1
<1> HIDE DEF x
<1>7. h \in Group /\ SameTree(x, h) /\ h.free = x.free + 1 /\ h.full = x.full - 1
  BY <1>1, <1>6, AccountFacts
<1>8. /\ h.rt = g.rt /\ h.ref = g.ref /\ h.arena = g.arena /\ h.recs = x.recs
      /\ h.slots = g.slots /\ h.inoHint = g.inoHint /\ h.rsvd = g.rsvd
      /\ h.free = g.free + 1 /\ h.full = g.full - 1
  BY <1>5, <1>6, <1>7, Zenon DEF OnlyRecs, SameTree
<1>9. /\ k \in Group /\ k.rt = g.rt /\ k.ref = g.ref /\ k.arena = g.arena
      /\ k.slots = g.slots /\ k.inoHint = g.inoHint /\ SameCounters(k, h)
      /\ DOMAIN k.recs = DOMAIN g.recs /\ \A y \in DOMAIN g.recs \ {r} : k.recs[y] = g.recs[y]
  BY <1>0, <1>8, Zenon DEF Emptied, Painted, SameCounters
<1>10. KidDetached(k, h, p, i, r, "free")
  BY <1>0, <1>4, <1>6, <1>8, <1>9 DEF KidDetached, Refers
<1>11. PICK home : TreeBy(k, home)
  BY <1>0, Zenon DEF Good, Tree
<1>12. home[p][1] = 0
  BY <1>0, <1>9, <1>11, CellRecord
<1>13. Tree(h) /\ \A b \in Blocks : Alike(k, h, b)
  BY <1>0, <1>9, <1>10, <1>11, <1>12, DetachKid
<1>14. Still(k, h)
  BY <1>0, <1>7, <1>8, <1>9, <1>13, AlikeStill
<1>15. Loose(h) \subseteq {p}
  BY <1>0, <1>6, <1>8, <1>9 DEF Loose
<1>16. LeafGone(g, k, h, p)
  BY <1>8, <1>14, <1>15 DEF LeafGone
<1> QED BY <1>16 DEF h

LEMMA FreeLeafDone ==
  ASSUME NEW g, Good(g), Loose(g) = {}, NEW b \in Blocks, Is1(g, b), g.recs[R1(g, b)].st[LeafOf(b)] = "full"
  PROVE  Freed(g, FreeUnit(g, b), b .. b + 1 - 1, 1)
<1> DEFINE c == CellOf(b)
           i == KidOf(b)
           j == LeafOf(b)
           p == R0(g, b)
           r == R1(g, b)
           S == {j}
           rec == SetKids(g.recs[r], S, "free")
           k == AccountFree(PutRecord(g, r, rec), 1)
           h == LeafFreed(g, p, i, r, j)
           e == CoarsenL0(h, c)
           T == b .. b + 1 - 1
<1>1. g \in Group /\ Tree(g) /\ c \in Cells /\ i \in Kids /\ j \in Kids /\ b \in Nat /\ g.rt[c] = "refined"
  BY OfFacts, BlocksType DEF Good, Is1, Is0
<1>2. FreeUnit(g, b) = Done(e, 1)
  <2>1. g.rt[CellOf(b)] = "refined" /\ g.recs[R0(g, b)].st[KidOf(b)] = "refined"
    BY DEF Is1, Is0
  <2> QED BY <2>1, FreeUnitIs, Zenon
<1>3. PICK home : TreeBy(g, home)
  BY <1>1, Zenon DEF Tree
<1>4. /\ p \in DOMAIN g.recs /\ home[p] = <<0, c, 0, 0>>
      /\ r \in DOMAIN g.recs /\ home[r] = <<1, c, i, 0>>
  BY <1>3, Down DEF Is1
<1>5. r # p /\ p = g.ref[c] /\ Refers(g, p, i, r) /\ g.recs[r].st[j] = "full"
  <2>1. p = g.ref[c] /\ Refers(g, p, i, r) /\ g.recs[r].st[j] = "full"
    BY DEF R0, R1, Refers, Is1
  <2> HIDE DEF c, i, p, r
  <2>2. r # p
    <3>1. <<1, c, i, 0>> # <<0, c, 0, 0>>
      OBVIOUS
    <3> QED BY <1>4, <3>1
  <2> QED BY <2>1, <2>2
<1>6. KidRec(g, home, r, c, i)
  BY <1>1, <1>3, <1>4 DEF KidRec
<1>7. LeavesAt(c, i, j, 1, S, T)
  <2>1. b = Blk(c, i, j)
    BY OfFacts
  <2>2. S = j .. j + 1 - 1 /\ j + 1 <= Fanout
    <3>1. j \in 0 .. Fanout - 1 /\ Fanout \in Nat
      BY <1>1, Sizes2 DEF Kids
    <3> QED BY <3>1
  <2> QED BY <1>1, <2>1, <2>2 DEF LeavesAt
<1>8. AllAre(g, r, S, "full")
  BY <1>5 DEF AllAre
<1>9. h = IF AllFree(rec) THEN LastLeafFreed(g, p, i, r) ELSE k
  BY DEF LeafFreed, LastLeafFreed, WithKid
<1>10. Emptied(g, k, r, S, 1)
  <2> HIDE DEF S
  <2> QED BY <1>1, <1>4, EmptyFacts
<1> HIDE DEF c, i, j, p, r, k, h, T
<1>11. Returned(g, k, T, 1) /\ Loose(k) \subseteq Loose(g) \cup {r}
  BY <1>6, <1>7, <1>8, <1>10, ReturnedLeaves, Zenon
<1>12. k.recs[r] = rec /\ k.rt = g.rt /\ k.ref = g.ref /\ Good(k)
  BY <1>10, <1>11 DEF Emptied, Painted, Returned
<1> HIDE DEF rec
<1>13. Still(k, h) /\ h.rt = g.rt /\ h.ref = g.ref /\ Loose(h) \subseteq {p}
  <2>1. CASE AllFree(rec)
    <3>1. h = LastLeafFreed(g, p, i, r)
      BY <1>9, <2>1
    <3>2. LastLeaf(g, k, c, p, i, r, S)
      BY <1>1, <1>4, <1>5, <1>10, <1>11, <1>12, <2>1 DEF LastLeaf
    <3> HIDE DEF S
    <3>3. LeafGone(g, k, h, p)
      BY <3>1, <3>2, LastLeafDone
    <3> QED BY <3>3 DEF LeafGone
  <2>2. CASE ~AllFree(rec)
    <3>1. h = k
      BY <1>9, <2>2
    <3>2. Loose(k) = {}
      BY <1>11, <1>12, <2>2 DEF Loose
    <3>3. Still(k, k)
      BY <1>12 DEF Still, HeldKept, HeldAlike, SameView
    <3> QED BY <1>12, <3>1, <3>2, <3>3
  <2> QED BY <2>1, <2>2
<1>14. h.rt[c] = "refined" /\ p = h.ref[c] /\ Good(h)
  BY <1>1, <1>5, <1>13 DEF Still
<1>15. Still(h, e) /\ Loose(e) = {}
  BY <1>1, <1>13, <1>14, CoarsenDone
<1> HIDE DEF e
<1>16. Returned(g, e, T, 1)
  <2>1. Returned(g, h, T, 1)
    BY <1>11, <1>13, ReturnedThen
  <2> QED BY <1>15, <2>1, ReturnedThen
<1>17. Freed(g, Done(e, 1), T, 1)
  BY <1>15, <1>16 DEF Freed, Done
<1> QED BY <1>2, <1>17 DEF T

(* One round of free_extent, at a block in use: the unit it starts is      *)
(* given back.                                                             *)
LEMMA FreeUnitDone ==
  ASSUME NEW g, Good(g), Loose(g) = {}, NEW b \in Blocks, StateOf(g, b) = "full",
         NEW u, u = UnitOf(g, b), Aligned(b, u)
  PROVE  Freed(g, FreeUnit(g, b), b .. b + u - 1, u)
<1>1. CASE ~Is0(g, b)
  <2>1. g.rt[CellOf(b)] = "full" /\ u = CellBlocks
    BY <1>1, Unfolded DEF UnitOf
  <2> QED BY <2>1, FreeCellDone
<1>2. CASE Is0(g, b) /\ ~Is1(g, b)
  <2>1. g.recs[R0(g, b)].st[KidOf(b)] = "full" /\ u = Fanout
    BY <1>2, Unfolded DEF UnitOf
  <2> QED BY <1>2, <2>1, FreeKidDone
<1>3. CASE Is1(g, b)
  <2>1. g.recs[R1(g, b)].st[LeafOf(b)] = "full" /\ u = 1
    BY <1>3, Unfolded DEF UnitOf, Is1
  <2> QED BY <1>3, <2>1, FreeLeafDone
<1> QED BY <1>1, <1>2, <1>3

-----------------------------------------------------------------------------
(* The loop of free_extent *)

Iterates(f, S, a, g) == f \in [Nat -> S] /\ f[0] = a /\ \A n \in Nat : f[n + 1] = g[n][f[n]]

(* There is a function whose values are found in turn, each by a step g[n]. *)
LEMMA RecursionExists ==
  ASSUME NEW S, NEW a \in S, NEW g \in [Nat -> [S -> S]]
  PROVE  \E f : Iterates(f, S, a, g)
<1> DEFINE Part(n, f) == f[0] = a /\ \A k \in 0 .. n - 1 : f[k + 1] = g[k][f[k]]
           T == {n \in Nat : \E f \in [0 .. n -> S] : Part(n, f)}
<1>1. 0 \in T
  <2>1. [k \in 0 .. 0 |-> a] \in [0 .. 0 -> S] /\ Part(0, [k \in 0 .. 0 |-> a])
    OBVIOUS
  <2> QED BY <2>1
<1>2. ASSUME NEW n \in T PROVE n + 1 \in T
  <2>1. PICK f \in [0 .. n -> S] : Part(n, f)
    OBVIOUS
  <2> DEFINE h == [k \in 0 .. n + 1 |-> IF k = n + 1 THEN g[n][f[n]] ELSE f[k]]
  <2>2. n \in Nat /\ f[n] \in S
    OBVIOUS
  <2>3. h \in [0 .. n + 1 -> S]
    BY <2>2
  <2>4. h[0] = a
    BY <2>1, <2>2
  <2>5. ASSUME NEW k \in 0 .. n PROVE h[k+1] = g[k][h[k]]
    <3>1. CASE k = n
      BY <2>2, <3>1
    <3>2. CASE k # n
      BY <2>1, <2>2, <3>2
    <3> QED BY <3>1, <3>2
  <2> HIDE DEF h
  <2>6. Part(n + 1, h)
    BY <2>2, <2>4, <2>5
  <2>7. n + 1 \in Nat
    BY <2>2
  <2> QED BY <2>3, <2>6, <2>7, Zenon
<1>3. T = Nat
  <2>1. T \in SUBSET Nat
    OBVIOUS
  <2> HIDE DEF T
  <2> QED BY <1>1, <1>2, <2>1, Induction
<1>4. \A n \in Nat : \E f \in [0 .. n -> S] : Part(n, f)
  BY <1>3
<1> DEFINE P(n) == CHOOSE f \in [0 .. n -> S] : Part(n, f)
<1>5. \A n \in Nat : P(n) \in [0 .. n -> S] /\ Part(n, P(n))
  BY <1>4
<1> HIDE DEF P, T
<1>6. ASSUME NEW n \in Nat, NEW m \in Nat, n <= m, NEW k \in 0 .. n PROVE P(n)[k] = P(m)[k]
  <2> DEFINE U == {j \in Nat : j <= n => P(n)[j] = P(m)[j]}
  <2>1. 0 \in U
    BY <1>5, <1>6
  <2>2. ASSUME NEW j \in U PROVE j + 1 \in U
    <3> SUFFICES ASSUME j + 1 <= n PROVE P(n)[j+1] = P(m)[j+1]
      OBVIOUS
    <3>1. j \in 0 .. n - 1 /\ j \in 0 .. m - 1
      BY <1>6
    <3>2. P(n)[j] = P(m)[j]
      BY <3>1
    <3> QED BY <1>5, <3>1, <3>2
  <2>3. U = Nat
    <3>1. U \in SUBSET Nat
      OBVIOUS
    <3> HIDE DEF U
    <3> QED BY <2>1, <2>2, <3>1, Induction
  <2>4. k \in U
    BY <2>3
  <2> QED BY <2>4
<1> DEFINE F == [n \in Nat |-> P(n)[n]]
<1>7. F \in [Nat -> S]
  BY <1>5
<1>8. F[0] = a
  BY <1>5
<1>9. ASSUME NEW n \in Nat PROVE F[n + 1] = g[n][F[n]]
  <2>1. P(n+1)[n] = P(n)[n]
    BY <1>6
  <2>2. P(n+1)[n + 1] = g[n][P(n+1)[n]]
    BY <1>5
  <2> QED BY <2>1, <2>2
<1> QED BY <1>7, <1>8, <1>9 DEF Iterates

(* The m units from block b on are in use, as units. *)
UnitsFull(g, b, len, u) ==
  \A x \in b .. b + len - 1 : x \in Blocks /\ StateOf(g, x) = "full" /\ UnitOf(g, x) = u

FreedRun(g, r, b, len, u) ==
  r.ok /\ r.val = len /\ Returned(g, r.g, b .. b + len - 1, u) /\ Loose(r.g) = {}

LEMMA ReturnedTwice ==
  ASSUME NEW g, NEW h, NEW k, NEW T, NEW U, NEW u, Returned(g, h, T, u), Returned(h, k, U, u)
  PROVE  Returned(g, k, T \cup U, u)
<1>1. /\ Good(h) /\ T \in SUBSET Blocks /\ HeldKept(g, h, T) /\ Released(g, h, T, u)
      /\ Good(k) /\ U \in SUBSET Blocks /\ HeldKept(h, k, U) /\ Released(h, k, U, u)
  BY DEF Returned
<1>2. HeldKept(g, k, T \cup U)
  BY <1>1, KeptTwice
<1>3. ASSUME NEW x \in T \cup U
      PROVE  StateOf(g, x) = "full" /\ UnitOf(g, x) = u /\ StateOf(k, x) \in Unheld
  <2>1. CASE x \in T
    <3>1. StateOf(g, x) = "full" /\ UnitOf(g, x) = u /\ StateOf(h, x) \in Unheld /\ x \in Blocks
      BY <1>1, <2>1 DEF Released
    <3>2. x \notin U
      BY <1>1, <3>1 DEF Released, Unheld
    <3>3. HeldAlike(h, k, x)
      BY <1>1, <3>1, <3>2 DEF HeldKept
    <3> QED BY <3>1, <3>3 DEF HeldAlike, SameView
  <2>2. CASE x \in U /\ x \notin T
    <3>1. StateOf(h, x) = "full" /\ UnitOf(h, x) = u /\ StateOf(k, x) \in Unheld /\ x \in Blocks
      BY <1>1, <2>2 DEF Released
    <3>2. HeldAlike(g, h, x)
      BY <1>1, <2>2, <3>1 DEF HeldKept
    <3> QED BY <3>1, <3>2 DEF HeldAlike, SameView, Unheld
  <2> QED BY <1>3, <2>1, <2>2
<1>4. Released(g, k, T \cup U, u)
  BY <1>3 DEF Released
<1> QED BY <1>1, <1>2, <1>4 DEF Returned

LEMMA AlignedSum ==
  ASSUME NEW b \in Nat, NEW u \in Nat, Aligned(b, u), NEW q \in Nat
  PROVE  Aligned(b + q * u, u)
<1>1. PICK p \in Nat : b = p * u
  BY DEF Aligned
<1>2. b + q * u = (p + q) * u /\ p + q \in Nat
  BY <1>1
<1> QED BY <1>2 DEF Aligned

(* What the loop has come to after some rounds: q units are given back.    *)
Point(g, x, b, m, u) ==
  /\ x \in [ok : {TRUE}, g : Group, val : Nat]
  /\ \E q \in 0 .. m : x.val = q * u
  /\ Returned(g, x.g, b .. b + x.val - 1, u) /\ Loose(x.g) = {}

LEMMA NextPoint ==
  ASSUME NEW g, NEW u \in Nat \ {0}, NEW b \in Nat, Aligned(b, u), NEW m \in Nat, UnitsFull(g, b, m * u, u),
         NEW x, Point(g, x, b, m, u), x.val < m * u
  PROVE  LET r == FreeUnit(x.g, b + x.val) IN r.ok /\ Point(g, Done(r.g, x.val + r.val), b, m, u) /\ r.val = u
<1> DEFINE v == x.val
           y == b + v
           r == FreeUnit(x.g, y)
           T == b .. b + v - 1
           U == y .. y + u - 1
<1>1. /\ x.g \in Group /\ v \in Nat /\ Returned(g, x.g, T, u) /\ Loose(x.g) = {}
  BY DEF Point
<1>2. PICK q \in 0 .. m : v = q * u
  BY DEF Point
<1>3. q < m /\ q + 1 \in 0 .. m /\ v + u = (q + 1) * u
  <2>1. u * q < u * m
    BY <1>2
  <2>2. q < m
    BY <2>1, Cancel
  <2> QED BY <1>2, <2>2
<1>4. y \in b .. b + m * u - 1 /\ y \notin T
  <2>1. m * u \in Nat
    OBVIOUS
  <2> QED BY <1>1, <2>1
<1>5. y \in Blocks /\ StateOf(g, y) = "full" /\ UnitOf(g, y) = u
  BY <1>4 DEF UnitsFull
<1>6. StateOf(x.g, y) = "full" /\ UnitOf(x.g, y) = u
  <2>1. HeldAlike(g, x.g, y)
    BY <1>1, <1>4, <1>5 DEF Returned, HeldKept
  <2> QED BY <1>5, <2>1 DEF HeldAlike, SameView, Unheld
<1>7. Aligned(y, u)
  <2>1. Aligned(b + q * u, u)
    <3>1. q \in Nat
      BY <1>2
    <3> QED BY <3>1, AlignedSum, Zenon
  <2>2. y = b + q * u
    BY <1>2
  <2> HIDE DEF y
  <2> QED BY <2>1, <2>2, Zenon
<1>8. Good(x.g)
  BY <1>1 DEF Returned
<1> HIDE DEF y
<1>9. Freed(x.g, r, U, u)
  BY <1>1, <1>5, <1>6, <1>7, <1>8, FreeUnitDone
<1> HIDE DEF r
<1>10. r.ok /\ r.val = u /\ Returned(x.g, r.g, U, u) /\ Loose(r.g) = {} /\ r.g \in Group
  BY <1>9 DEF Freed, Returned, Good
<1>11. T \cup U = b .. b + (v + u) - 1
  BY <1>1 DEF y
<1> HIDE DEF T, U, v
<1>12. Returned(g, r.g, b .. b + (v + u) - 1, u)
  BY <1>1, <1>10, <1>11, ReturnedTwice
<1>13. Point(g, Done(r.g, v + u), b, m, u)
  <2>1. Done(r.g, v + u) \in [ok : {TRUE}, g : Group, val : Nat] /\ Done(r.g, v + u).g = r.g /\ Done(r.g, v + u).val = v + u
    BY <1>1, <1>10 DEF Done
  <2> QED BY <1>3, <1>10, <1>12, <2>1 DEF Point
<1> QED BY <1>10, <1>13 DEF r, y, v

LEMMA PointsEnd ==
  ASSUME NEW g, NEW u \in Nat \ {0}, NEW b \in Nat, NEW m \in Nat, NEW x, Point(g, x, b, m, u),
         NEW n \in Nat, m = CeilDiv(n, u), x.val >= n
  PROVE  FreedRun(g, x, b, m * u, u)
<1>1. PICK q \in 0 .. m : x.val = q * u
  BY DEF Point
<1>2. m <= q
  <2>1. \A k \in Nat : n <= k * u => CeilDiv(n, u) <= k
    BY CeilFacts
  <2> QED BY <1>1, <2>1
<1>3. q = m
  BY <1>1, <1>2
<1> QED BY <1>1, <1>3 DEF Point, FreedRun

(* free_extent gives a run back, and nothing else. *)
LEMMA FreeRun ==
  ASSUME NEW g, Good(g), Loose(g) = {}, NEW u \in Nat \ {0}, NEW b \in Nat, NEW n \in Nat, n # 0 => Aligned(b, u),
         NEW m, m = CeilDiv(n, u), UnitsFull(g, b, m * u, u)
  PROVE  FreedRun(g, FreeExtent(g, b, n), b, m * u, u)
<1> DEFINE S == {x \in [ok : {TRUE}, g : Group, val : Nat] : Point(g, x, b, m, u)}
           round(r) ==
             IF r.val >= n THEN r
             ELSE IF r.ok
                  THEN IF FreeUnit(r.g, b + r.val).ok
                       THEN Done(FreeUnit(r.g, b + r.val).g, r.val + FreeUnit(r.g, b + r.val).val)
                       ELSE FreeUnit(r.g, b + r.val)
                  ELSE r
           ff == CHOOSE after : after = [k \in Nat |-> IF k = 0 THEN Done(g, 0) ELSE round(after[k - 1])]
<1>1. FreeExtent(g, b, n) = ff[n]
  BY Zenon DEF FreeExtent, Then
<1>2. m \in Nat /\ n <= m * u
  BY CeilFacts
<1>3. ASSUME NEW x \in S, ~(x.val >= n)
      PROVE  round(x) \in S /\ round(x).val = x.val + u
  <2> DEFINE r == FreeUnit(x.g, b + x.val)
             y == Done(r.g, x.val + r.val)
  <2>1. Point(g, x, b, m, u) /\ x.val \in Nat /\ x.ok
    OBVIOUS
  <2>2. x.val < m * u
    <3>1. m * u \in Nat
      BY <1>2
    <3> QED BY <1>2, <1>3, <2>1, <3>1
  <2>3. r.ok /\ Point(g, y, b, m, u) /\ r.val = u
    <3>1. Aligned(b, u)
      BY <1>3, <2>1
    <3> QED BY <1>2, <2>1, <2>2, <3>1, NextPoint
  <2>4. round(x) = y
    <3>1. round(x) = IF x.val >= n THEN x ELSE IF x.ok THEN IF r.ok THEN y ELSE r ELSE x
      BY Zenon
    <3> HIDE DEF round, r, y
    <3> QED BY <1>3, <2>1, <2>3, <3>1
  <2> HIDE DEF r, round
  <2>5. y \in S
    BY <2>3 DEF Point
  <2>6. y.val = x.val + u
    BY <2>3 DEF Done
  <2> QED BY <2>4, <2>5, <2>6
<1>4. ASSUME NEW x \in S, x.val >= n PROVE round(x) = x
  BY <1>4
<1>5. Done(g, 0) \in S
  <2>1. g \in Group /\ b .. b + 0 - 1 = {}
    BY DEF Good
  <2>2. Returned(g, g, {}, u)
    BY DEF Returned, HeldKept, HeldAlike, SameView, Released
  <2>3. 0 \in 0 .. m /\ 0 = 0 * u
    BY <1>2
  <2> QED BY <2>1, <2>2, <2>3 DEF Done, Point
<1> HIDE DEF round, S
<1>6. ff \in [Nat -> S] /\ ff[0] = Done(g, 0) /\ \A k \in Nat : ff[k + 1] = round(ff[k])
  <2> DEFINE h == [k \in Nat |-> [x \in S |-> round(x)]]
  <2>1. h \in [Nat -> [S -> S]] /\ \A k \in Nat, x \in S : h[k][x] = round(x)
    BY <1>3, <1>4
  <2> HIDE DEF h
  <2>2. PICK f : Iterates(f, S, Done(g, 0), h)
    BY <1>5, <2>1, RecursionExists
  <2>3. f \in [Nat -> S] /\ f[0] = Done(g, 0)
    BY <2>2 DEF Iterates
  <2>4. \A k \in Nat : f[k + 1] = round(f[k])
    <3>1. \A k \in Nat : f[k + 1] = h[k][f[k]] /\ f[k] \in S
      BY <2>2, <2>3 DEF Iterates
    <3> QED BY <2>1, <3>1
  <2>5. f = [k \in Nat |-> IF k = 0 THEN Done(g, 0) ELSE round(f[k - 1])]
    <3>1. \A k \in Nat \ {0} : k - 1 \in Nat /\ (k - 1) + 1 = k
      OBVIOUS
    <3>2. \A k \in Nat \ {0} : f[k] = round(f[k - 1])
      BY <2>4, <3>1
    <3> QED BY <2>3, <3>2
  <2>6. ff = [k \in Nat |-> IF k = 0 THEN Done(g, 0) ELSE round(ff[k - 1])]
    BY <2>5
  <2> HIDE DEF ff
  <2> DEFINE U == {k \in Nat : ff[k] = f[k]}
  <2>7. ff[0] = Done(g, 0)
    BY <2>6
  <2>8. \A k \in Nat : ff[k + 1] = round(ff[k])
    BY <2>6
  <2>9. U = Nat
    <3>1. U \in SUBSET Nat /\ 0 \in U /\ \A k \in U : k + 1 \in U
      BY <2>3, <2>4, <2>7, <2>8
    <3> HIDE DEF U
    <3> QED BY <3>1, Induction
  <2>10. \A k \in Nat : ff[k] \in S
    BY <2>3, <2>9
  <2>11. ff \in [Nat -> S]
    BY <2>6, <2>10
  <2> QED BY <2>7, <2>8, <2>11
<1> HIDE DEF ff
<1> DEFINE V == {k \in Nat : ff[k].val >= n \/ ff[k].val >= k}
<1>7. \A x \in S : x.val \in Nat /\ Point(g, x, b, m, u)
  BY DEF S
<1>8. V = Nat
  <2>1. 0 \in V
    BY <1>6, <1>7
  <2>2. ASSUME NEW k \in V PROVE k + 1 \in V
    <3>1. ff[k] \in S /\ ff[k].val \in Nat /\ k \in Nat
      BY <1>6, <1>7
    <3>2. CASE ff[k].val >= n
      <4>1. ff[k + 1] = ff[k]
        BY <1>4, <1>6, <3>1, <3>2
      <4> QED BY <3>1, <3>2, <4>1
    <3>3. CASE ~(ff[k].val >= n)
      <4>1. ff[k + 1].val = ff[k].val + u
        BY <1>3, <1>6, <3>1, <3>3
      <4>2. ff[k].val >= k
        BY <3>3
      <4> QED BY <3>1, <4>1, <4>2
    <3> QED BY <3>2, <3>3
  <2>3. V \in SUBSET Nat
    OBVIOUS
  <2> HIDE DEF V
  <2> QED BY <2>1, <2>2, <2>3, Induction
<1>9. ff[n].val >= n /\ Point(g, ff[n], b, m, u)
  <2>1. n \in V /\ ff[n] \in S
    BY <1>6, <1>8
  <2> QED BY <1>7, <2>1
<1>10. FreedRun(g, ff[n], b, m * u, u)
  BY <1>2, <1>9, PointsEnd
<1> QED BY <1>1, <1>10

LEMMA GranuleIs ==
  ASSUME NEW g, NEW b, StateOf(g, b) = "full"
  PROVE  GranuleAt(g, b) = Done(g, UnitOf(g, b))
<1> DEFINE cell == g.rt[CellOf(b)]
           l1 == g.recs[R0(g, b)].st[KidOf(b)]
<1>1. GranuleAt(g, b) = CASE cell = "full" -> Done(g, CellBlocks)
                          [] cell = "refined" /\ l1 = "full" -> Done(g, Fanout)
                          [] cell = "refined" /\ l1 = "refined" -> Done(g, 1)
                          [] OTHER -> Failed(g)
  BY DEF GranuleAt, CellOf, KidOf, R0
<1>2. /\ ~Is0(g, b) => cell = "full"
      /\ Is0(g, b) /\ ~Is1(g, b) => cell = "refined" /\ l1 = "full"
      /\ Is1(g, b) => cell = "refined" /\ l1 = "refined"
  BY Unfolded DEF Is0, Is1
<1>3. UnitOf(g, b) = IF ~Is0(g, b) THEN CellBlocks ELSE IF ~Is1(g, b) THEN Fanout ELSE 1
  BY DEF UnitOf
<1> HIDE DEF cell, l1
<1> QED BY <1>1, <1>2, <1>3

(* trim_run keeps the run or a part of it made of whole units. *)
TrimOutcome(g, r, b, n, m, u) ==
  /\ r.ok /\ Loose(r.g) = {}
  /\ \/ r.val = n /\ Returned(g, r.g, {}, u)
     \/ \E q \in 1 .. m - 1 : r.val = q * u /\ r.val < n /\ Returned(g, r.g, b + q * u .. b + m * u - 1, u)

LEMMA PartOfRun ==
  ASSUME NEW b \in Nat, NEW v \in Nat, NEW w \in Nat, v < w, NEW x, x = w - v
  PROVE  b + v .. b + v + x - 1 = b + v .. b + w - 1 /\ b + v .. b + v + x - 1 \subseteq b .. b + w - 1
OBVIOUS

LEMMA CeilRest ==
  ASSUME NEW u \in Nat \ {0}, NEW n \in Nat, NEW q \in Nat, q * u < n
  PROVE  q < CeilDiv(n, u) /\ CeilDiv(n - q * u, u) = CeilDiv(n, u) - q
<1> DEFINE m == CeilDiv(n, u)
           k == n - q * u
           l == CeilDiv(k, u)
<1>1. q * u \in Nat /\ k \in Nat
  OBVIOUS
<1>2. m \in Nat /\ n <= m * u /\ \A p \in Nat : n <= p * u => m <= p
  BY CeilFacts
<1>3. l \in Nat /\ k <= l * u /\ \A p \in Nat : k <= p * u => l <= p
  BY <1>1, CeilFacts
<1> HIDE DEF m, l
<1>4. q < m
  <2>1. m * u \in Nat
    BY <1>2
  <2>2. u * q < u * m
    BY <1>1, <1>2, <2>1
  <2> QED BY <1>2, <2>2, Cancel
<1>5. l <= m - q
  <2>1. m - q \in Nat /\ (m - q) * u = m * u - q * u
    BY <1>2, <1>4
  <2>2. k <= (m - q) * u
    <3>1. m * u \in Nat
      BY <1>2
    <3> QED BY <1>1, <1>2, <2>1, <3>1
  <2> QED BY <1>3, <2>1, <2>2
<1>6. m <= q + l
  <2>1. q + l \in Nat /\ (q + l) * u = q * u + l * u
    BY <1>3
  <2>2. n <= (q + l) * u
    <3>1. l * u \in Nat
      BY <1>3
    <3> QED BY <1>1, <1>3, <2>1, <3>1
  <2> QED BY <1>2, <2>1, <2>2
<1>7. l = m - q
  BY <1>2, <1>3, <1>4, <1>5, <1>6
<1> QED BY <1>4, <1>7 DEF m, l

LEMMA TrimDone ==
  ASSUME NEW g, Good(g), Loose(g) = {}, NEW u \in Nat \ {0}, NEW b \in Nat, Aligned(b, u), NEW n \in Nat \ {0},
         NEW m, m = CeilDiv(n, u), UnitsFull(g, b, m * u, u), NEW keep \in 1 .. n - 1
  PROVE  TrimOutcome(g, TrimRun(g, b, n, keep), b, n, m, u)
<1> DEFINE p == CeilDiv(keep, u)
           kept == Min({p * u, n})
           r == FreeExtent(g, b + kept, n - kept)
<1>1. m \in Nat /\ n <= m * u /\ p \in Nat /\ p * u \in Nat /\ p > 0 /\ m * u \in Nat
  <2>1. n \in Nat /\ keep \in Nat /\ keep > 0
    OBVIOUS
  <2>2. CeilDiv(n, u) \in Nat /\ n <= CeilDiv(n, u) * u /\ CeilDiv(n, u) * u \in Nat
    BY <2>1, CeilFacts
  <2>3. p \in Nat /\ p * u \in Nat /\ p > 0
    BY <2>1, CeilFacts
  <2> QED BY <2>2, <2>3
<1>2. GranuleAt(g, b) = Done(g, u)
  <2>1. b \in b .. b + m * u - 1
    BY <1>1
  <2> QED BY <2>1, GranuleIs DEF UnitsFull
<1>3. TrimRun(g, b, n, keep) = IF r.ok THEN Done(r.g, kept) ELSE r
  <2>1. TrimRun(g, b, n, keep) = Then(Done(g, u), LAMBDA h, unit :
           Then(FreeExtent(h, b + Min({CeilDiv(keep, unit) * unit, n}), n - Min({CeilDiv(keep, unit) * unit, n})),
                LAMBDA f, done : Done(f, Min({CeilDiv(keep, unit) * unit, n}))))
    BY <1>2, Zenon DEF TrimRun
  <2>2. Done(g, u).ok /\ Done(g, u).g = g /\ Done(g, u).val = u
    BY DEF Done
  <2> QED BY <2>1, <2>2, Zenon DEF Then
<1> HIDE DEF p
<1>4. kept \in {p * u, n} /\ kept <= p * u /\ kept <= n
  <2>1. {p * u, n} \in SUBSET Nat /\ {p * u, n} # {}
    BY <1>1
  <2> QED BY <2>1, MinIsLeast
<1> HIDE DEF kept
<1>5. CASE kept = n
  <2>1. CeilDiv(0, u) = 0
    <3>1. 0 = 0 * u
      OBVIOUS
    <3> QED BY <3>1, CeilFacts
  <2>2. UnitsFull(g, b + n, 0 * u, u)
    <3>1. b + n .. b + n + 0 * u - 1 = {}
      OBVIOUS
    <3> QED BY <3>1 DEF UnitsFull
  <2>3. r = FreeExtent(g, b + n, 0)
    BY <1>5
  <2> HIDE DEF r
  <2>4. FreedRun(g, r, b + n, 0 * u, u)
    BY <2>1, <2>2, <2>3, FreeRun
  <2>5. r.ok /\ Returned(g, r.g, {}, u) /\ Loose(r.g) = {}
    <3>1. b + n .. b + n + 0 * u - 1 = {}
      OBVIOUS
    <3> QED BY <2>4, <3>1 DEF FreedRun
  <2> QED BY <1>3, <1>5, <2>5 DEF TrimOutcome, Done
<1>6. CASE kept # n
  <2>1. kept = p * u /\ p * u < n
    BY <1>1, <1>4, <1>6
  <2> DEFINE y == b + p * u
             k == n - p * u
             l == CeilDiv(k, u)
  <2>2. p < m /\ l = m - p /\ k \in Nat /\ y \in Nat
    <3>1. n \in Nat /\ p \in Nat /\ p * u < n
      BY <1>1, <2>1
    <3>2. p < CeilDiv(n, u) /\ CeilDiv(n - p * u, u) = CeilDiv(n, u) - p
      BY <3>1, CeilRest
    <3> QED BY <1>1, <2>1, <3>2
  <2>3. l * u = m * u - p * u
    BY <1>1, <2>2
  <2>4. y .. y + l * u - 1 = b + p * u .. b + m * u - 1 /\ y .. y + l * u - 1 \subseteq b .. b + m * u - 1
    <3>1. m * u \in Nat /\ p * u \in Nat /\ p * u < m * u
      BY <1>1, <2>1
    <3> HIDE DEF l
    <3> QED BY <2>3, <3>1, PartOfRun
  <2>5. UnitsFull(g, y, l * u, u)
    BY <2>4 DEF UnitsFull
  <2>6. Aligned(y, u)
    BY <1>1, AlignedSum
  <2>7. r = FreeExtent(g, y, k)
    BY <2>1
  <2> HIDE DEF r, y, k
  <2>8. FreedRun(g, r, y, l * u, u)
    BY <2>2, <2>5, <2>6, <2>7, FreeRun
  <2>9. r.ok /\ Returned(g, r.g, b + p * u .. b + m * u - 1, u) /\ Loose(r.g) = {}
    BY <2>4, <2>8 DEF FreedRun
  <2>10. p \in 1 .. m - 1
    BY <1>1, <2>2
  <2> QED BY <1>3, <2>1, <2>9, <2>10 DEF TrimOutcome, Done
<1> QED BY <1>5, <1>6

-----------------------------------------------------------------------------
(* Inode slots *)

OnlySlots(g, h) ==
  /\ h.rt = g.rt /\ h.ref = g.ref /\ h.recs = g.recs /\ h.arena = g.arena /\ h.inoHint = g.inoHint
  /\ h.tblHint = g.tblHint /\ h.cellHint = g.cellHint /\ h.free = g.free /\ h.rsvd = g.rsvd /\ h.full = g.full

LEMMA SlotFacts ==
  ASSUME NEW g \in Group
  PROVE  /\ g.slots \in [DOMAIN g.slots -> {"zero", "inode"}] /\ DOMAIN g.slots \in SUBSET SlotPlaces
         /\ \A x \in DOMAIN g.slots : x[1] \in Blocks /\ x[2] \in 0 .. Slots - 1 /\ x = <<x[1], x[2]>>
<1>1. g.slots \in [DOMAIN g.slots -> {"zero", "inode"}] /\ DOMAIN g.slots \in SUBSET SlotPlaces
  BY DEF Group, SlotMaps
<1> QED BY <1>1 DEF SlotPlaces

WithSlots(g, slots) == [g EXCEPT !.slots = slots]

LEMMA WithSlotsFacts ==
  ASSUME NEW g \in Group, NEW D \in SUBSET SlotPlaces, NEW slots \in [D -> {"zero", "inode"}]
  PROVE  WithSlots(g, slots) \in Group /\ OnlySlots(g, WithSlots(g, slots)) /\ WithSlots(g, slots).slots = slots
<1>1. slots \in SlotMaps
  BY DEF SlotMaps
<1> QED BY <1>1 DEF WithSlots, OnlySlots, Group

LEMMA WriteSlotFacts ==
  ASSUME NEW g \in Group, NEW x \in DOMAIN g.slots, NEW content \in {"zero", "inode"}
  PROVE  /\ WriteSlot(g, x, content) \in Group /\ OnlySlots(g, WriteSlot(g, x, content))
         /\ DOMAIN WriteSlot(g, x, content).slots = DOMAIN g.slots
         /\ WriteSlot(g, x, content).slots[x] = content
         /\ \A y \in DOMAIN g.slots \ {x} : WriteSlot(g, x, content).slots[y] = g.slots[y]
<1> DEFINE new == [g.slots EXCEPT ![x] = content]
<1>1. g.slots \in [DOMAIN g.slots -> {"zero", "inode"}] /\ DOMAIN g.slots \in SUBSET SlotPlaces
  BY SlotFacts
<1>2. new \in [DOMAIN g.slots -> {"zero", "inode"}] /\ new[x] = content /\ \A y \in DOMAIN g.slots \ {x} : new[y] = g.slots[y]
  BY <1>1
<1>3. WriteSlot(g, x, content) = WithSlots(g, new)
  BY DEF WriteSlot, WithSlots
<1>4. DOMAIN new = DOMAIN g.slots
  BY <1>1
<1> HIDE DEF new
<1> QED BY <1>1, <1>2, <1>3, <1>4, WithSlotsFacts

LEMMA ZeroSlotsFacts ==
  ASSUME NEW g \in Group, NEW b \in Blocks
  PROVE  /\ ZeroSlots(g, b) \in Group /\ OnlySlots(g, ZeroSlots(g, b))
         /\ DOMAIN ZeroSlots(g, b).slots = DOMAIN g.slots \cup SlotsIn(b)
         /\ \A x \in SlotsIn(b) : ZeroSlots(g, b).slots[x] = "zero"
         /\ \A x \in DOMAIN g.slots \ SlotsIn(b) : ZeroSlots(g, b).slots[x] = g.slots[x]
<1> DEFINE D == DOMAIN g.slots \cup SlotsIn(b)
           new == [x \in D |-> IF x \in SlotsIn(b) THEN "zero" ELSE g.slots[x]]
<1>1. g.slots \in [DOMAIN g.slots -> {"zero", "inode"}] /\ DOMAIN g.slots \in SUBSET SlotPlaces
  BY SlotFacts
<1>2. D \in SUBSET SlotPlaces
  BY <1>1 DEF SlotsIn, SlotPlaces
<1>3. new \in [D -> {"zero", "inode"}]
  BY <1>1
<1>4. ZeroSlots(g, b) = WithSlots(g, new)
  BY DEF ZeroSlots, WithSlots
<1>5. /\ DOMAIN new = D /\ \A x \in SlotsIn(b) : new[x] = "zero"
      /\ \A x \in DOMAIN g.slots \ SlotsIn(b) : new[x] = g.slots[x]
  OBVIOUS
<1> HIDE DEF new, D
<1> QED BY <1>2, <1>3, <1>4, <1>5, WithSlotsFacts DEF D

LEMMA ForgetSlotsFacts ==
  ASSUME NEW g \in Group, NEW b \in Blocks
  PROVE  /\ ForgetSlots(g, b) \in Group /\ OnlySlots(g, ForgetSlots(g, b))
         /\ DOMAIN ForgetSlots(g, b).slots = DOMAIN g.slots \ SlotsIn(b)
         /\ \A x \in DOMAIN g.slots \ SlotsIn(b) : ForgetSlots(g, b).slots[x] = g.slots[x]
<1> DEFINE D == DOMAIN g.slots \ SlotsIn(b)
           new == [x \in D |-> g.slots[x]]
<1>1. g.slots \in [DOMAIN g.slots -> {"zero", "inode"}] /\ DOMAIN g.slots \in SUBSET SlotPlaces
  BY SlotFacts
<1>2. D \in SUBSET SlotPlaces /\ new \in [D -> {"zero", "inode"}] /\ DOMAIN new = D
  BY <1>1
<1>3. ForgetSlots(g, b) = WithSlots(g, new)
  BY DEF ForgetSlots, WithSlots
<1>4. \A x \in DOMAIN g.slots \ SlotsIn(b) : new[x] = g.slots[x]
  OBVIOUS
<1> HIDE DEF new, D
<1> QED BY <1>2, <1>3, <1>4, WithSlotsFacts DEF D

WithInoHint(g, b) == [g EXCEPT !.inoHint = b]

(* h is g but for the hint of inodes. *)
OnlyInoHint(g, h) ==
  /\ h.rt = g.rt /\ h.ref = g.ref /\ h.recs = g.recs /\ h.slots = g.slots /\ h.arena = g.arena
  /\ h.free = g.free /\ h.rsvd = g.rsvd /\ h.full = g.full

LEMMA WithInoHintFacts ==
  ASSUME NEW g \in Group, NEW b \in Blocks
  PROVE  WithInoHint(g, b) \in Group /\ OnlyInoHint(g, WithInoHint(g, b)) /\ WithInoHint(g, b).inoHint = b
BY DEF WithInoHint, OnlyInoHint, Group

(* No two slot blocks share a record. *)
LEMMA OneSlotBlock ==
  ASSUME NEW g, Tree(g), NEW b \in Blocks, NEW x \in Blocks, Is2(g, b), Is2(g, x), R2(g, b) = R2(g, x)
  PROVE  b = x
<1>1. PICK home : TreeBy(g, home)
  BY Zenon DEF Tree
<1>2. /\ home[R2(g, b)] = <<2, CellOf(b), KidOf(b), LeafOf(b)>>
      /\ home[R2(g, x)] = <<2, CellOf(x), KidOf(x), LeafOf(x)>>
  BY <1>1, Down
<1>3. CellOf(b) = CellOf(x) /\ KidOf(b) = KidOf(x) /\ LeafOf(b) = LeafOf(x)
  BY <1>2
<1> QED BY <1>3, OfFacts

(* A slot of slot block b changes its state. *)
SlotRecoloured(g, h, b, s, st) ==
  /\ Good(h) /\ Is2(h, b) /\ SlotsOf(h, b) = [SlotsOf(g, b) EXCEPT ![s] = st]
  /\ \A x \in Blocks \ {b} : SameView(g, h, x)

LEMMA RecolourSlot ==
  ASSUME NEW g, Good(g), NEW b \in Blocks, Is2(g, b), NEW r, r = R2(g, b), NEW s \in 0 .. Slots - 1,
         NEW st \in {"free", "full"}, NEW h \in Group, Recoloured(g, h, r, SetKids(g.recs[r], {s}, st)),
         SameCounters(g, h)
  PROVE  SlotRecoloured(g, h, b, s, st)
<1> DEFINE rec == SetKids(g.recs[r], {s}, st)
<1>1. g \in Group /\ Tree(g)
  BY DEF Good
<1>2. PICK home : TreeBy(g, home)
  BY <1>1, Zenon DEF Tree
<1>3. r \in DOMAIN g.recs /\ home[r] = <<2, CellOf(b), KidOf(b), LeafOf(b)>>
  BY <1>2, Down
<1>4. ~Inner(home[r]) /\ home[r][1] = 2
  BY <1>3 DEF Inner
<1>5. g.recs[r] \in Rec /\ \A i \in Kids : g.recs[r].st[i] # "refined"
  BY <1>1, <1>2, <1>3, <1>4, GroupFacts DEF TreeBy, Downward
<1>6. rec \in Rec /\ rec.ref = g.recs[r].ref /\ \A i \in Kids : rec.st[i] = IF i \in {s} THEN st ELSE g.recs[r].st[i]
  BY <1>5, SetKidsFacts
<1> HIDE DEF rec
<1>7. SameRefined(g.recs[r], rec)
  BY <1>5, <1>6 DEF SameRefined
<1>8. \A i \in Kids : i >= Slots => rec.st[i] = "free"
  <2>1. \A i \in Kids : i >= Slots => g.recs[r].st[i] = "free" /\ i # s
    BY <1>2, <1>3, <1>4, SlotsAssumption DEF TreeBy, SlotBlocksPadded, Kids
  <2> QED BY <1>6, <2>1
<1>9. Recoloured(g, h, r, rec)
  BY DEF rec
<1>10. Tree(h)
  <2>1. TreeBy(h, home)
    BY <1>2, <1>3, <1>7, <1>8, <1>9, RecolourTree
  <2> QED BY <2>1, Zenon DEF Tree
<1>11. \A x \in Blocks : ~(Is2(g, x) /\ R2(g, x) = r) => SameView(g, h, x)
  BY <1>2, <1>3, <1>4, <1>7, <1>9, RecolourSlots
<1>12. StateOf(h, b) = StateOf(g, b) /\ UnitOf(h, b) = UnitOf(g, b) /\ Is2(h, b) /\ SlotsOf(h, b) = rec.st
  BY <1>2, <1>3, <1>4, <1>7, <1>9, RecolourSlots
<1>13. \A x \in Blocks \ {b} : SameView(g, h, x)
  BY <1>1, <1>11, OneSlotBlock
<1>14. Balanced(h)
  <2>1. \A x \in Blocks : StateOf(h, x) = StateOf(g, x)
    BY <1>12, <1>13 DEF SameView
  <2> QED BY <2>1, StillCounts DEF Good
<1>15. rec.st = [SlotsOf(g, b) EXCEPT ![s] = st]
  <2>1. rec.st \in [Kids -> {"free", "full", "refined"}] /\ g.recs[r].st \in [Kids -> {"free", "full", "refined"}]
    BY <1>5, <1>6, RecFacts
  <2>2. \A i \in Kids : rec.st[i] = IF i = s THEN st ELSE g.recs[r].st[i]
    BY <1>6
  <2>3. SlotsOf(g, b) = g.recs[r].st
    BY DEF SlotsOf
  <2> QED BY <2>1, <2>2, <2>3
<1> QED BY <1>10, <1>12, <1>13, <1>14, <1>15 DEF SlotRecoloured, Good
(* h is g but that slot s of slot block b has another state and content.   *)
SlotWritten(g, h, b, s, content) ==
  /\ DOMAIN h.slots = DOMAIN g.slots /\ h.slots[<<b, s>>] = content
  /\ \A x \in DOMAIN g.slots \ {<<b, s>>} : h.slots[x] = g.slots[x]

SlotEdited(g, h, b, s, st, content) ==
  /\ h \in Group /\ Recoloured(g, h, R2(g, b), SetKids(g.recs[R2(g, b)], {s}, st))
  /\ SameCounters(g, h) /\ SlotWritten(g, h, b, s, content)
  /\ h.inoHint = g.inoHint \/ h.inoHint = b

SlotSet(g, h, b, s, st, content) ==
  /\ SlotRecoloured(g, h, b, s, st) /\ Loose(h) = {} /\ SlotWritten(g, h, b, s, content)
  /\ h.inoHint = g.inoHint \/ h.inoHint = b

LEMMA SlotSetDone ==
  ASSUME NEW g, Good(g), Loose(g) = {}, NEW b \in Blocks, Is2(g, b), NEW s \in 0 .. Slots - 1,
         NEW st \in {"free", "full"}, NEW content, NEW h, SlotEdited(g, h, b, s, st, content),
         ~AllFree(SetKids(g.recs[R2(g, b)], {s}, st))
  PROVE  SlotSet(g, h, b, s, st, content)
<1> DEFINE r == R2(g, b)
<1>1. SlotRecoloured(g, h, b, s, st)
  <2>1. h \in Group /\ Recoloured(g, h, r, SetKids(g.recs[r], {s}, st)) /\ SameCounters(g, h)
    BY Zenon DEF SlotEdited
  <2> HIDE DEF r
  <2>2. r = R2(g, b)
    BY DEF r
  <2> QED BY <2>1, <2>2, RecolourSlot, Zenon
<1>2. Loose(h) = {}
  <2> DEFINE rec == SetKids(g.recs[r], {s}, st)
  <2>1. DOMAIN h.recs = DOMAIN g.recs /\ h.recs[r] = rec /\ \A x \in DOMAIN g.recs \ {r} : h.recs[x] = g.recs[x]
    BY Zenon DEF SlotEdited, Recoloured
  <2>2. ~AllFree(rec)
    OBVIOUS
  <2> HIDE DEF rec, r
  <2> QED BY <2>1, <2>2, Zenon DEF Loose
<1> QED BY <1>1, <1>2, Zenon DEF SlotSet, SlotEdited

(* A slot record with a free slot taken has one in use. *)
LEMMA TakenSlot ==
  ASSUME NEW rec \in Rec, NEW s \in 0 .. Slots - 1
  PROVE  ~AllFree(SetKids(rec, {s}, "full"))
BY SetKidsFacts, BlocksType DEF AllFree

(* Slot blocks alone have slots, a slot holds an inode if its record says  *)
(* so, and the hint names a slot block.                                    *)
SlotsFit(g) ==
  /\ \A b \in Blocks, s \in 0 .. Slots - 1 : <<b, s>> \in DOMAIN g.slots <=> Is2(g, b)
  /\ \A b \in Blocks, s \in 0 .. Slots - 1 :
       Is2(g, b) => (g.slots[<<b, s>>] = "inode" <=> SlotsOf(g, b)[s] = "full")
  /\ g.inoHint # 0 => Is2(g, g.inoHint)

(* alloc_inode, in the slot block of the hint; mknod writes the inode.     *)
LEMMA HintedSlot ==
  ASSUME NEW g, Good(g), Loose(g) = {}, SlotsFit(g), NEW b \in Blocks, Is2(g, b),
         NEW s \in 0 .. Slots - 1, NEW r, r = R2(g, b)
  PROVE  SlotSet(g, WriteSlot(PutRecord(g, r, SetKids(g.recs[r], {s}, "full")), <<b, s>>, "inode"),
                 b, s, "full", "inode")
<1> DEFINE rec == SetKids(g.recs[r], {s}, "full")
           k == PutRecord(g, r, rec)
           h == WriteSlot(k, <<b, s>>, "inode")
<1>1. g \in Group /\ Tree(g)
  BY DEF Good
<1>2. r \in DOMAIN g.recs /\ g.recs[r] \in Rec /\ r \in Refs
  BY <1>1, StateTypes, GroupFacts
<1>3. rec \in Rec /\ ~AllFree(rec)
  BY <1>2, TakenSlot, SetKidsFacts
<1> HIDE DEF rec
<1>4. /\ k \in Group /\ OnlyRecs(g, k) /\ DOMAIN k.recs = DOMAIN g.recs \cup {r} /\ k.recs[r] = rec
      /\ \A x \in DOMAIN g.recs \ {r} : k.recs[x] = g.recs[x]
  BY <1>1, <1>2, <1>3, PutFacts
<1> HIDE DEF k
<1>5. <<b, s>> \in DOMAIN g.slots
  BY Zenon DEF SlotsFit
<1>6. k.slots = g.slots /\ k.inoHint = g.inoHint
  BY <1>4, Zenon DEF OnlyRecs
<1> DEFINE x == <<b, s>>
<1>7. x \in DOMAIN k.slots
  BY <1>5, <1>6
<1> HIDE DEF x
<1>8. /\ WriteSlot(k, x, "inode") \in Group /\ OnlySlots(k, WriteSlot(k, x, "inode"))
      /\ DOMAIN WriteSlot(k, x, "inode").slots = DOMAIN k.slots
      /\ WriteSlot(k, x, "inode").slots[x] = "inode"
      /\ \A y \in DOMAIN k.slots \ {x} : WriteSlot(k, x, "inode").slots[y] = k.slots[y]
  BY <1>4, <1>7, WriteSlotFacts
<1>9. h = WriteSlot(k, x, "inode") /\ x = <<b, s>>
  BY DEF x
<1> HIDE DEF h
<1>10. SlotWritten(g, h, b, s, "inode")
  BY <1>6, <1>8, <1>9, Zenon DEF SlotWritten
<1>11. /\ h.rt = g.rt /\ h.ref = g.ref /\ h.arena = g.arena /\ h.recs = k.recs
       /\ SameCounters(g, h) /\ h.inoHint = g.inoHint /\ h \in Group
  BY <1>4, <1>8, <1>9, Zenon DEF OnlyRecs, OnlySlots, SameCounters
<1>12. Recoloured(g, h, r, rec)
  BY <1>2, <1>4, <1>11 DEF Recoloured
<1>13. SlotEdited(g, h, b, s, "full", "inode")
  BY <1>10, <1>11, <1>12, Zenon DEF SlotEdited, rec
<1>14. SlotSet(g, h, b, s, "full", "inode")
  BY <1>3, <1>13, SlotSetDone DEF rec
<1> QED BY <1>14 DEF h, k, rec

(* free_inode, when other slots of the block stay in use.                  *)
LEMMA ClearedSlot ==
  ASSUME NEW g, Good(g), Loose(g) = {}, SlotsFit(g), NEW b \in Blocks, Is2(g, b),
         NEW s \in 0 .. Slots - 1, NEW r, r = R2(g, b), ~AllFree(SetKids(g.recs[r], {s}, "free"))
  PROVE  SlotSet(g, WithInoHint(PutRecord(WriteSlot(g, <<b, s>>, "zero"), r, SetKids(g.recs[r], {s}, "free")), b),
                 b, s, "free", "zero")
<1> DEFINE rec == SetKids(g.recs[r], {s}, "free")
           x == <<b, s>>
           w == WriteSlot(g, x, "zero")
           k == PutRecord(w, r, rec)
           h == WithInoHint(k, b)
<1>1. g \in Group /\ Tree(g)
  BY DEF Good
<1>2. r \in DOMAIN g.recs /\ g.recs[r] \in Rec /\ r \in Refs
  BY <1>1, StateTypes, GroupFacts
<1>3. rec \in Rec /\ ~AllFree(rec)
  BY <1>2, SetKidsFacts
<1> HIDE DEF rec
<1>4. x \in DOMAIN g.slots
  <2>1. <<b, s>> \in DOMAIN g.slots <=> Is2(g, b)
    BY Zenon DEF SlotsFit
  <2> QED BY <2>1
<1> HIDE DEF x
<1>5. /\ w \in Group /\ OnlySlots(g, w) /\ DOMAIN w.slots = DOMAIN g.slots /\ w.slots[x] = "zero"
      /\ \A y \in DOMAIN g.slots \ {x} : w.slots[y] = g.slots[y]
  BY <1>1, <1>4, WriteSlotFacts
<1> HIDE DEF w
<1>6. /\ k \in Group /\ OnlyRecs(w, k) /\ DOMAIN k.recs = DOMAIN w.recs \cup {r} /\ k.recs[r] = rec
      /\ \A y \in DOMAIN w.recs \ {r} : k.recs[y] = w.recs[y]
  BY <1>2, <1>3, <1>5, PutFacts
<1> HIDE DEF k
<1>7. h \in Group /\ OnlyInoHint(k, h) /\ h.inoHint = b
  BY <1>6, WithInoHintFacts
<1> HIDE DEF h
<1>8. /\ h.rt = g.rt /\ h.ref = g.ref /\ h.arena = g.arena /\ h.recs = k.recs /\ w.recs = g.recs
      /\ SameCounters(g, h) /\ h.slots = w.slots
  BY <1>5, <1>6, <1>7, Zenon DEF OnlyRecs, OnlySlots, OnlyInoHint, SameCounters
<1>9. SlotWritten(g, h, b, s, "zero")
  BY <1>5, <1>8 DEF SlotWritten, x
<1>10. Recoloured(g, h, r, rec)
  BY <1>2, <1>6, <1>8 DEF Recoloured
<1>11. SlotEdited(g, h, b, s, "free", "zero")
  BY <1>7, <1>8, <1>9, <1>10, Zenon DEF SlotEdited, rec
<1>12. SlotSet(g, h, b, s, "free", "zero")
  BY <1>3, <1>11, SlotSetDone DEF rec
<1> QED BY <1>12 DEF h, k, w, x, rec

(* free_inode, when no other slot is in use: the slot block is a full      *)
(* block again.                                                            *)
SlotBlockGone(g, k, b) ==
  /\ Good(k) /\ StateOf(k, b) = "full" /\ UnitOf(k, b) = 1 /\ ~Is2(k, b)
  /\ \A x \in Blocks \ {b} : SameView(g, k, x)
  /\ DOMAIN k.slots = DOMAIN g.slots \ SlotsIn(b)
  /\ \A x \in DOMAIN g.slots \ SlotsIn(b) : k.slots[x] = g.slots[x]
  /\ k.inoHint = g.inoHint /\ Loose(k) = {}

(* Full blocks and slot blocks are counted as one. *)
LEMMA InUseCounts ==
  ASSUME NEW g, NEW h, Balanced(g), NEW b \in Blocks, \A x \in Blocks \ {b} : StateOf(h, x) = StateOf(g, x),
         StateOf(g, b) \in {"full", "refined"}, StateOf(h, b) \in {"full", "refined"}, SameCounters(g, h)
  PROVE  Balanced(h)
<1>1. ASSUME NEW S, S \in {{"free"}, {"rsvd"}, {"full", "refined"}}
      PROVE  InState(h, S) = InState(g, S)
  <2>1. \A x \in Blocks : StateOf(h, x) \in S <=> StateOf(g, x) \in S
    BY <1>1
  <2> QED BY <2>1, Zenon DEF InState
<1>2. /\ InState(h, {"free"}) = InState(g, {"free"}) /\ InState(h, {"rsvd"}) = InState(g, {"rsvd"})
      /\ InState(h, {"full", "refined"}) = InState(g, {"full", "refined"})
  BY <1>1
<1> QED BY <1>2, Zenon DEF Balanced, SameCounters

(* The edit of free_inode, on the records. *)
SlotBlockDropped(g, b, r, p, i) == PutRecord(DropRecord(ForgetSlots(g, b), r), p, WithKid(g.recs[p], i, "full", NoRef))

SlotsDropped(g, h, b, r, p, i) ==
  /\ h \in Group /\ h.rt = g.rt /\ h.ref = g.ref /\ h.arena = g.arena /\ SameCounters(g, h)
  /\ h.inoHint = g.inoHint
  /\ DOMAIN h.recs = DOMAIN g.recs \ {r}
  /\ h.recs[p].st[i] = "full"
  /\ \A k \in Kids \ {i} : h.recs[p].st[k] = g.recs[p].st[k] /\ h.recs[p].ref[k] = g.recs[p].ref[k]
  /\ \A x \in DOMAIN g.recs \ {r, p} : h.recs[x] = g.recs[x]
  /\ DOMAIN h.slots = DOMAIN g.slots \ SlotsIn(b)
  /\ \A x \in DOMAIN g.slots \ SlotsIn(b) : h.slots[x] = g.slots[x]

LEMMA SlotBlockDroppedFacts ==
  ASSUME NEW g \in Group, NEW b \in Blocks, NEW p \in DOMAIN g.recs, NEW r, r # p, NEW i \in Kids
  PROVE  SlotsDropped(g, SlotBlockDropped(g, b, r, p, i), b, r, p, i)
<1> DEFINE e == ForgetSlots(g, b)
           f == DropRecord(e, r)
           rec == WithKid(g.recs[p], i, "full", NoRef)
           h == PutRecord(f, p, rec)
<1>1. /\ e \in Group /\ OnlySlots(g, e) /\ DOMAIN e.slots = DOMAIN g.slots \ SlotsIn(b)
      /\ \A x \in DOMAIN g.slots \ SlotsIn(b) : e.slots[x] = g.slots[x]
  BY ForgetSlotsFacts
<1>2. p \in Refs /\ g.recs[p] \in Rec
  BY GroupFacts
<1>3. rec \in Rec /\ rec.st[i] = "full"
      /\ \A k \in Kids \ {i} : rec.st[k] = g.recs[p].st[k] /\ rec.ref[k] = g.recs[p].ref[k]
  <2> DEFINE st == "full"
  <2>1. st \in {"free", "full", "refined"}
    OBVIOUS
  <2>2. KidIs(g.recs[p], rec, i, st, NoRef)
    BY <1>2, <2>1, NoRefType, WithKidFacts
  <2> QED BY <2>2 DEF KidIs
<1> HIDE DEF e, rec
<1>4. /\ f \in Group /\ OnlyRecs(e, f) /\ DOMAIN f.recs = DOMAIN e.recs \ {r}
      /\ \A x \in DOMAIN e.recs \ {r} : f.recs[x] = e.recs[x]
  BY <1>1, DropFacts
<1> HIDE DEF f
<1>5. /\ h \in Group /\ OnlyRecs(f, h) /\ DOMAIN h.recs = DOMAIN f.recs \cup {p} /\ h.recs[p] = rec
      /\ \A x \in DOMAIN f.recs \ {p} : h.recs[x] = f.recs[x]
  BY <1>2, <1>3, <1>4, PutFacts
<1> HIDE DEF h
<1>6. /\ h.rt = g.rt /\ h.ref = g.ref /\ h.arena = g.arena /\ SameCounters(g, h) /\ h.inoHint = g.inoHint
      /\ h.slots = e.slots /\ e.recs = g.recs
  BY <1>1, <1>4, <1>5, Zenon DEF OnlySlots, OnlyRecs, SameCounters
<1>7. DOMAIN h.recs = DOMAIN g.recs \ {r} /\ \A x \in DOMAIN g.recs \ {r, p} : h.recs[x] = g.recs[x]
  BY <1>4, <1>5, <1>6
<1>8. SlotsDropped(g, h, b, r, p, i)
  BY <1>1, <1>3, <1>5, <1>6, <1>7 DEF SlotsDropped
<1> QED BY <1>8 DEF h, f, e, rec, SlotBlockDropped

LEMMA SlotBlockGoneDone ==
  ASSUME NEW g, Good(g), Loose(g) = {}, NEW b \in Blocks, Is2(g, b), NEW s \in 0 .. Slots - 1,
         NEW r, r = R2(g, b), NEW p, p = R1(g, b), AllFree(SetKids(g.recs[r], {s}, "free"))
  PROVE  SlotBlockGone(g, SlotBlockDropped(g, b, r, p, LeafOf(b)), b)
<1> DEFINE rec == SetKids(g.recs[r], {s}, "free")
           i == LeafOf(b)
           k == PutRecord(g, r, rec)
           h == SlotBlockDropped(g, b, r, p, i)
<1>1. g \in Group /\ Tree(g) /\ Balanced(g)
  BY DEF Good
<1>2. /\ r \in DOMAIN g.recs /\ g.recs[r] \in Rec /\ r \in Refs /\ p \in DOMAIN g.recs
      /\ i \in Kids /\ Refers(g, p, i, r) /\ r # p
  <2>1. Is1(g, b) /\ g.recs[R1(g, b)].st[LeafOf(b)] = "refined"
    BY DEF Is2
  <2>2. PICK home : TreeBy(g, home)
    BY <1>1, Zenon DEF Tree
  <2>3. /\ R2(g, b) \in DOMAIN g.recs /\ home[R2(g, b)] = <<2, CellOf(b), KidOf(b), LeafOf(b)>>
        /\ R1(g, b) \in DOMAIN g.recs /\ home[R1(g, b)] = <<1, CellOf(b), KidOf(b), 0>>
    BY <2>1, <2>2, Down
  <2>4. R2(g, b) # R1(g, b)
    BY <2>3
  <2>5. Refers(g, R1(g, b), LeafOf(b), R2(g, b))
    BY <2>1 DEF Refers, R2
  <2> QED BY <1>1, <2>3, <2>4, <2>5, OfFacts, GroupFacts
<1>3. rec \in Rec
  BY <1>2, SetKidsFacts
<1>4. AllFree(rec)
  OBVIOUS
<1>5. /\ k \in Group /\ OnlyRecs(g, k) /\ DOMAIN k.recs = DOMAIN g.recs \cup {r} /\ k.recs[r] = rec
      /\ \A x \in DOMAIN g.recs \ {r} : k.recs[x] = g.recs[x]
  <2> HIDE DEF rec
  <2> QED BY <1>1, <1>2, <1>3, PutFacts
<1>6. SlotRecoloured(g, k, b, s, "free")
  <2>1. Recoloured(g, k, r, rec) /\ SameCounters(g, k)
    <3> HIDE DEF rec, k
    <3> QED BY <1>2, <1>5 DEF Recoloured, OnlyRecs, SameCounters
  <2> HIDE DEF k
  <2> QED BY <1>2, <1>5, <2>1, RecolourSlot
<1>7. SlotsDropped(g, h, b, r, p, i)
  <2> HIDE DEF i
  <2> QED BY <1>1, <1>2, SlotBlockDroppedFacts
<1> HIDE DEF rec, k, h, i
<1>8. /\ k.rt = g.rt /\ k.ref = g.ref /\ k.arena = g.arena /\ SameCounters(g, k) /\ k.inoHint = g.inoHint
      /\ DOMAIN k.recs = DOMAIN g.recs
  BY <1>2, <1>5 DEF OnlyRecs, SameCounters
<1>9. k.recs[p] = g.recs[p]
  BY <1>2, <1>5
<1>10. KidDetached(k, h, p, i, r, "full")
  <2>1. /\ h.rt = k.rt /\ h.ref = k.ref /\ h.arena = k.arena /\ DOMAIN h.recs = DOMAIN k.recs \ {r}
        /\ h.recs[p].st[i] = "full"
        /\ \A j \in Kids \ {i} : h.recs[p].st[j] = k.recs[p].st[j] /\ h.recs[p].ref[j] = k.recs[p].ref[j]
    BY <1>7, <1>8, <1>9, Zenon DEF SlotsDropped
  <2>2. \A x \in DOMAIN k.recs \ {r, p} : h.recs[x] = k.recs[x]
    BY <1>5, <1>7, <1>8 DEF SlotsDropped
  <2>3. Refers(k, p, i, r) /\ AllFree(k.recs[r]) /\ p \in DOMAIN k.recs
    BY <1>2, <1>4, <1>5, <1>8, <1>9 DEF Refers
  <2> QED BY <1>2, <2>1, <2>2, <2>3 DEF KidDetached
<1>11. Good(k) /\ Is2(k, b) /\ \A x \in Blocks \ {b} : SameView(g, k, x)
  BY <1>6 DEF SlotRecoloured
<1>12. k \in Group /\ Tree(k) /\ Balanced(k) /\ StateOf(k, b) = "refined"
  BY <1>11, StateTypes DEF Good
<1>13. PICK home : TreeBy(k, home)
  BY <1>12, Zenon DEF Tree
<1>14. /\ Is1(k, b) /\ R1(k, b) = p /\ LeafOf(b) = i
       /\ home[p][1] = 1
       /\ \A x \in Blocks \ {b} : ~(Is1(k, x) /\ R1(k, x) = p /\ LeafOf(x) = i)
  <2>1. Is1(k, b)
    BY <1>11 DEF Is2
  <2>2. home[R1(k, b)] = <<1, CellOf(b), KidOf(b), 0>>
    BY <1>13, <2>1, Down
  <2>3. R1(k, b) = p
    <3>1. R0(g, b) \in DOMAIN g.recs /\ R0(g, b) # r
      <4>1. PICK home1 : TreeBy(g, home1)
        BY <1>1, Zenon DEF Tree
      <4>2. Is0(g, b) /\ Is1(g, b)
        BY DEF Is2, Is1
      <4>3. /\ R2(g, b) \in DOMAIN g.recs /\ home1[R2(g, b)] = <<2, CellOf(b), KidOf(b), LeafOf(b)>>
            /\ R0(g, b) \in DOMAIN g.recs /\ home1[R0(g, b)] = <<0, CellOf(b), 0, 0>>
        BY <4>1, <4>2, Down
      <4> QED BY <4>3
    <3>2. k.recs[R0(g, b)] = g.recs[R0(g, b)]
      BY <1>5, <3>1
    <3> QED BY <1>8, <3>2 DEF R1, R0
  <2>4. ASSUME NEW x \in Blocks, Is1(k, x), R1(k, x) = p, LeafOf(x) = i
        PROVE  x = b
    <3>1. home[R1(k, x)] = <<1, CellOf(x), KidOf(x), 0>>
      BY <1>13, <2>4, Down
    <3>2. CellOf(x) = CellOf(b) /\ KidOf(x) = KidOf(b) /\ LeafOf(x) = LeafOf(b)
      BY <2>2, <2>3, <2>4, <3>1 DEF i
    <3> QED BY <3>2, OfFacts
  <2> QED BY <2>1, <2>2, <2>3, <2>4 DEF i
<1>15. /\ Tree(h) /\ StateOf(h, b) = "full" /\ UnitOf(h, b) = 1 /\ ~Is2(h, b)
       /\ \A x \in Blocks \ {b} : SameView(k, h, x)
  <2>1. /\ Tree(h)
        /\ \A x \in Blocks :
              IF Is1(k, x) /\ R1(k, x) = p /\ LeafOf(x) = i
              THEN Is2(k, x) /\ StateOf(h, x) = "full" /\ UnitOf(h, x) = 1 /\ ~Is2(h, x)
              ELSE SameView(k, h, x)
    BY <1>10, <1>12, <1>13, <1>14, DetachSlots
  <2> QED BY <1>14, <2>1
<1>16. \A x \in Blocks \ {b} : SameView(g, h, x)
  BY <1>11, <1>15 DEF SameView
<1>17. Balanced(h)
  <2>1. SameCounters(k, h)
    BY <1>7, <1>8 DEF SlotsDropped, SameCounters
  <2>2. \A x \in Blocks \ {b} : StateOf(h, x) = StateOf(k, x)
    BY <1>15 DEF SameView
  <2> QED BY <1>12, <1>15, <2>1, <2>2, InUseCounts
<1>18. Loose(h) = {}
  <2>1. DOMAIN h.recs = DOMAIN g.recs \ {r} /\ h.recs[p].st[i] = "full"
        /\ \A x \in DOMAIN g.recs \ {r, p} : h.recs[x] = g.recs[x]
    BY <1>7, Zenon DEF SlotsDropped
  <2>2. ~AllFree(h.recs[p])
    BY <1>2, <2>1 DEF AllFree
  <2>3. \A x \in DOMAIN g.recs : ~AllFree(g.recs[x])
    BY Zenon DEF Loose
  <2> QED BY <2>1, <2>2, <2>3 DEF Loose
<1>19. SlotBlockGone(g, h, b)
  BY <1>7, <1>15, <1>16, <1>17, <1>18 DEF SlotBlockGone, SlotsDropped, Good
<1> QED BY <1>19 DEF h, i

(* Hints and slots play no part in the tree.                               *)
SameState(g, h) ==
  /\ h.rt = g.rt /\ h.ref = g.ref /\ h.recs = g.recs /\ h.arena = g.arena /\ SameCounters(g, h)

LEMMA SameGood ==
  ASSUME NEW g, Good(g), NEW h \in Group, SameState(g, h)
  PROVE  Good(h) /\ Loose(h) = Loose(g) /\ \A b \in Blocks : SameView(g, h, b)
<1>1. g \in Group /\ Tree(g) /\ Balanced(g)
  BY DEF Good
<1>2. Marked(g, h, {}, "free")
  BY DEF Marked, SameState
<1>3. Tree(h) /\ \A b \in Blocks : SameView(g, h, b)
  BY <1>1, <1>2, MarkTree
<1>4. Balanced(h)
  BY <1>1, <1>3, StillCounts DEF SameView, SameState
<1>5. Loose(h) = Loose(g)
  BY Zenon DEF Loose, SameState
<1> QED BY <1>3, <1>4, <1>5 DEF Good

(* A block in use is refined: a slot block, with record r, its slots free. *)
BlockRefined(f, h, b, r) ==
  /\ Good(h) /\ Is2(h, b) /\ R2(h, b) = r /\ h.recs[r] = ZeroRecord /\ Loose(h) \subseteq {r}
  /\ \A x \in Blocks \ {b} : SameView(f, h, x)
  /\ h.slots = f.slots /\ h.inoHint = f.inoHint

LEMMA BlockRefinedDone ==
  ASSUME NEW f, Good(f), Loose(f) = {}, NEW b \in Blocks, StateOf(f, b) = "full", UnitOf(f, b) = 1,
         NEW r, Fresh(f, r), NEW q \in Group, RecordTaken(f, q, r), NEW p, p = R1(q, b)
  PROVE  BlockRefined(f, PutRecord(q, p, WithKid(q.recs[p], LeafOf(b), "refined", r)), b, r)
<1> DEFINE i == LeafOf(b)
           rec == WithKid(q.recs[p], i, "refined", r)
           h == PutRecord(q, p, rec)
<1>1. f \in Group /\ Tree(f) /\ Balanced(f) /\ i \in Kids
  BY OfFacts DEF Good
<1>2. PICK home : TreeBy(f, home)
  BY <1>1, Zenon DEF Tree
<1>3. r \in Refs /\ r \notin DOMAIN f.recs
  BY DEF Fresh
<1>4. /\ q.rt = f.rt /\ q.ref = f.ref /\ q.arena = f.arena /\ q.slots = f.slots /\ q.inoHint = f.inoHint
      /\ SameCounters(f, q) /\ DOMAIN q.recs = DOMAIN f.recs \cup {r} /\ q.recs[r] = ZeroRecord
      /\ \A x \in DOMAIN f.recs \ {r} : q.recs[x] = f.recs[x]
  BY Zenon DEF RecordTaken, OnlyRecs, SameCounters
<1>5. Is1(f, b) /\ Is0(f, b)
  <2>1. 1 # CellBlocks /\ 1 # Fanout
    BY Sizes2
  <2> QED BY <2>1 DEF UnitOf, Is1
<1>6. /\ R0(f, b) \in DOMAIN f.recs
      /\ R1(f, b) \in DOMAIN f.recs /\ home[R1(f, b)] = <<1, CellOf(b), KidOf(b), 0>>
  BY <1>2, <1>5, Down
<1>7. p = R1(f, b) /\ p \in DOMAIN f.recs /\ home[p] = <<1, CellOf(b), KidOf(b), 0>> /\ home[p][1] = 1
  <2>1. q.recs[R0(f, b)] = f.recs[R0(f, b)] /\ R0(q, b) = R0(f, b)
    BY <1>3, <1>4, <1>6 DEF R0
  <2>2. p = R1(f, b)
    BY <2>1 DEF R1
  <2> QED BY <1>6, <2>2
<1>8. f.recs[p].st[i] = "full" /\ q.recs[p] = f.recs[p] /\ p \in Refs /\ f.recs[p] \in Rec /\ p # r
  <2>1. StateOf(f, b) = f.recs[R1(f, b)].st[LeafOf(b)]
    BY <1>5, Unfolded
  <2> QED BY <1>1, <1>3, <1>4, <1>7, <2>1, GroupFacts
<1>9. rec \in Rec /\ rec.st[i] = "refined" /\ rec.ref[i] = r
      /\ \A k \in Kids \ {i} : rec.st[k] = f.recs[p].st[k] /\ rec.ref[k] = f.recs[p].ref[k]
  <2> DEFINE st == "refined"
             old == q.recs[p]
  <2>1. st \in {"free", "full", "refined"} /\ old \in Rec
    BY <1>8
  <2> HIDE DEF i
  <2>2. KidIs(old, rec, i, st, r)
    BY <1>1, <1>3, <2>1, WithKidFacts
  <2> QED BY <1>8, <2>2 DEF KidIs
<1> HIDE DEF rec
<1>10. /\ h \in Group /\ OnlyRecs(q, h) /\ DOMAIN h.recs = DOMAIN q.recs \cup {p} /\ h.recs[p] = rec
       /\ \A x \in DOMAIN q.recs \ {p} : h.recs[x] = q.recs[x]
  BY <1>8, <1>9, PutFacts
<1> HIDE DEF h
<1>11. /\ h.rt = f.rt /\ h.ref = f.ref /\ h.arena = f.arena /\ h.slots = f.slots /\ h.inoHint = f.inoHint
       /\ SameCounters(f, h)
  BY <1>4, <1>10, Zenon DEF OnlyRecs, SameCounters
<1>12. /\ DOMAIN h.recs = DOMAIN f.recs \cup {r} /\ h.recs[r] = ZeroRecord
       /\ \A x \in DOMAIN f.recs \ {p} : h.recs[x] = f.recs[x]
  BY <1>3, <1>4, <1>7, <1>8, <1>10
<1>13. KidAttached(f, h, p, i, r)
  <2> HIDE DEF i
  <2> QED BY <1>1, <1>7, <1>8, <1>9, <1>10, <1>11, <1>12 DEF KidAttached
<1>14. /\ Tree(h)
       /\ \A x \in Blocks :
              IF Is1(f, x) /\ R1(f, x) = p /\ LeafOf(x) = i
              THEN UnitOf(f, x) = 1 /\ UnitOf(h, x) = 1 /\ Is2(h, x) /\ R2(h, x) = r
                     /\ StateOf(f, x) = f.recs[p].st[i]
              ELSE SameView(f, h, x)
  <2> HIDE DEF i
  <2> QED BY <1>1, <1>2, <1>7, <1>13, AttachSlots
<1>15. ASSUME NEW x \in Blocks, Is1(f, x), R1(f, x) = p, LeafOf(x) = i
       PROVE  x = b
  <2>1. home[R1(f, x)] = <<1, CellOf(x), KidOf(x), 0>>
    BY <1>2, <1>15, Down
  <2>2. CellOf(x) = CellOf(b) /\ KidOf(x) = KidOf(b) /\ LeafOf(x) = LeafOf(b)
    BY <1>7, <1>15, <2>1
  <2> QED BY <2>2, OfFacts
<1>16. Is2(h, b) /\ R2(h, b) = r /\ \A x \in Blocks \ {b} : SameView(f, h, x)
  BY <1>5, <1>7, <1>14, <1>15
<1>17. Balanced(h)
  <2>1. StateOf(h, b) = "refined"
    BY <1>10, <1>14, <1>16, StateTypes
  <2>2. \A x \in Blocks \ {b} : StateOf(h, x) = StateOf(f, x)
    BY <1>16 DEF SameView
  <2> QED BY <1>1, <1>11, <2>1, <2>2, InUseCounts
<1>18. Loose(h) \subseteq {r}
  <2>1. ~AllFree(h.recs[p])
    BY <1>1, <1>9, <1>10 DEF AllFree
  <2>2. \A x \in DOMAIN f.recs : ~AllFree(f.recs[x])
    BY Zenon DEF Loose
  <2> QED BY <1>12, <2>1, <2>2 DEF Loose
<1>19. BlockRefined(f, h, b, r)
  BY <1>10, <1>11, <1>12, <1>14, <1>16, <1>17, <1>18 DEF BlockRefined, Good
<1> QED BY <1>19 DEF h, rec

(* A block that was not held is a slot block now, its first slot in use.   *)
SlotBlockMade(g, h, b) ==
  /\ Good(h) /\ Loose(h) = {} /\ b \in Blocks /\ StateOf(g, b) \in Unheld
  /\ Is2(h, b) /\ SlotsOf(h, b) = [ZeroRecord.st EXCEPT ![0] = "full"]
  /\ \A x \in Blocks \ {b} : HeldAlike(g, h, x)
  /\ DOMAIN h.slots = DOMAIN g.slots \cup SlotsIn(b)
  /\ \A s \in 0 .. Slots - 1 : h.slots[<<b, s>>] = IF s = 0 THEN "inode" ELSE "zero"
  /\ \A x \in DOMAIN g.slots \ SlotsIn(b) : h.slots[x] = g.slots[x]
  /\ h.inoHint = b

LEMMA SlotsInFacts ==
  ASSUME NEW b
  PROVE  \A s \in 0 .. Slots - 1 : <<b, s>> \in SlotsIn(b)
BY DEF SlotsIn

(* The inode in slot 0 of a slot block just refined. *)
FirstInode(h, b, r) == WriteSlot(WithInoHint(PutRecord(h, r, SetKids(ZeroRecord, {0}, "full")), b), <<b, 0>>, "inode")

ZeroedSlots(g, h, b) ==
  /\ DOMAIN h.slots = DOMAIN g.slots \cup SlotsIn(b)
  /\ \A x \in SlotsIn(b) : h.slots[x] = "zero"
  /\ \A x \in DOMAIN g.slots \ SlotsIn(b) : h.slots[x] = g.slots[x]

LEMMA FirstInodeDone ==
  ASSUME NEW g, NEW f, NEW h, NEW b \in Blocks, NEW r, BlockRefined(f, h, b, r), StateOf(g, b) \in Unheld,
         \A x \in Blocks \ {b} : HeldAlike(g, f, x), ZeroedSlots(g, f, b)
  PROVE  SlotBlockMade(g, FirstInode(h, b, r), b)
<1> DEFINE rec == SetKids(ZeroRecord, {0}, "full")
           k == PutRecord(h, r, rec)
           w == WithInoHint(k, b)
           x0 == <<b, 0>>
           e == WriteSlot(w, x0, "inode")
<1>1. /\ Good(h) /\ Is2(h, b) /\ R2(h, b) = r /\ h.recs[r] = ZeroRecord /\ Loose(h) \subseteq {r}
      /\ \A x \in Blocks \ {b} : SameView(f, h, x)
      /\ h.slots = f.slots /\ h.inoHint = f.inoHint
  BY Zenon DEF BlockRefined
<1>2. h \in Group /\ Tree(h)
  BY <1>1 DEF Good
<1>3. r \in DOMAIN h.recs /\ r \in Refs
  BY <1>1, <1>2, StateTypes, GroupFacts
<1>4. rec \in Rec /\ ~AllFree(rec)
  <2>1. 0 \in 0 .. Slots - 1
    BY BlocksType
  <2> QED BY <2>1, ZeroFacts, SetKidsFacts, TakenSlot
<1> HIDE DEF rec
<1>5. /\ k \in Group /\ OnlyRecs(h, k) /\ DOMAIN k.recs = DOMAIN h.recs \cup {r} /\ k.recs[r] = rec
      /\ \A x \in DOMAIN h.recs \ {r} : k.recs[x] = h.recs[x]
  BY <1>2, <1>3, <1>4, PutFacts
<1> HIDE DEF k
<1>6. w \in Group /\ OnlyInoHint(k, w) /\ w.inoHint = b
  BY <1>5, WithInoHintFacts
<1> HIDE DEF w
<1>7. w.slots = f.slots /\ x0 \in SlotsIn(b)
  BY <1>1, <1>5, <1>6, BlocksType, SlotsInFacts DEF OnlyRecs, OnlyInoHint
<1>8. x0 \in DOMAIN w.slots
  BY <1>7 DEF ZeroedSlots
<1> HIDE DEF x0
<1>9. /\ e \in Group /\ OnlySlots(w, e) /\ DOMAIN e.slots = DOMAIN w.slots /\ e.slots[x0] = "inode"
      /\ \A y \in DOMAIN w.slots \ {x0} : e.slots[y] = w.slots[y]
  BY <1>6, <1>8, WriteSlotFacts
<1> HIDE DEF e
<1>10. /\ e.rt = h.rt /\ e.ref = h.ref /\ e.arena = h.arena /\ e.recs = k.recs /\ SameCounters(h, e)
       /\ e.inoHint = b
  BY <1>5, <1>6, <1>9, Zenon DEF OnlyRecs, OnlySlots, OnlyInoHint, SameCounters
<1>11. SlotRecoloured(h, e, b, 0, "full")
  <2>1. Recoloured(h, e, r, SetKids(h.recs[r], {0}, "full"))
    BY <1>1, <1>3, <1>5, <1>10 DEF Recoloured, rec
  <2>2. 0 \in 0 .. Slots - 1
    BY BlocksType
  <2> DEFINE z == 0
  <2>3. Recoloured(h, e, r, SetKids(h.recs[r], {z}, "full")) /\ z \in 0 .. Slots - 1 /\ r = R2(h, b)
    BY <1>1, <2>1, <2>2
  <2> HIDE DEF z
  <2>4. SlotRecoloured(h, e, b, z, "full")
    BY <1>1, <1>9, <1>10, <2>3, RecolourSlot
  <2> QED BY <2>4 DEF z
<1>12. Loose(e) = {}
  BY <1>1, <1>3, <1>4, <1>5, <1>10 DEF Loose
<1>13. SlotsOf(e, b) = [ZeroRecord.st EXCEPT ![0] = "full"] /\ Good(e) /\ Is2(e, b)
       /\ \A x \in Blocks \ {b} : SameView(h, e, x)
  BY <1>1, <1>11 DEF SlotRecoloured, SlotsOf
<1>14. \A x \in Blocks \ {b} : HeldAlike(g, e, x)
  BY <1>1, <1>13, HeldTwice DEF HeldAlike
<1>15. /\ DOMAIN e.slots = DOMAIN g.slots \cup SlotsIn(b)
       /\ \A x \in DOMAIN g.slots \ SlotsIn(b) : e.slots[x] = g.slots[x]
  BY <1>7, <1>9 DEF ZeroedSlots
<1>16. \A s \in 0 .. Slots - 1 : e.slots[<<b, s>>] = IF s = 0 THEN "inode" ELSE "zero"
  <2> TAKE s \in 0 .. Slots - 1
  <2>1. <<b, s>> \in SlotsIn(b) /\ (s # 0 => <<b, s>> # x0) /\ (s = 0 => <<b, s>> = x0)
    BY SlotsInFacts DEF x0
  <2> QED BY <1>7, <1>9, <2>1 DEF ZeroedSlots
<1>17. SlotBlockMade(g, e, b)
  BY <1>10, <1>12, <1>13, <1>14, <1>15, <1>16 DEF SlotBlockMade
<1>18. FirstInode(h, b, r) = e
  BY DEF e, w, k, x0, rec, FirstInode
<1> QED BY <1>17, <1>18

(* What alloc_inode, then writing the inode, come to.                      *)
SlotGiven(g, h, b, s) ==
  /\ b \in Blocks /\ s \in 0 .. Slots - 1
  /\ \/ Is2(g, b) /\ SlotsOf(g, b)[s] = "free" /\ SlotSet(g, h, b, s, "full", "inode")
     \/ s = 0 /\ SlotBlockMade(g, h, b)

InodeOutcome(g, r) ==
  /\ ~r.ok => r.g \in Group
  /\ r.ok => \E b, s : r.val = <<b, s>> /\ SlotGiven(g, WriteSlot(r.g, r.val, "inode"), b, s)

LEMMA HintedInode ==
  ASSUME NEW g, Good(g), Loose(g) = {}, SlotsFit(g), g.inoHint # 0, SlotRefined(g, g.inoHint),
         FreeSlots(g, g.inoHint) # {}
  PROVE  InodeOutcome(g, AllocInode(g))
<1> DEFINE b == g.inoHint
           s == Min(FreeSlots(g, b))
           r == SlotRef(g, b)
           k == PutRecord(g, r, SetKids(g.recs[r], {s}, "full"))
<1>1. AllocInode(g) = Done(k, <<b, s>>)
  BY DEF AllocInode
<1>2. b \in Blocks /\ Is2(g, b) /\ r = R2(g, b) /\ g \in Group /\ Tree(g)
  BY Unfolded, GroupFacts DEF Good
<1>3. s \in 0 .. Slots - 1 /\ g.recs[r].st[s] = "free"
  <2> DEFINE F == FreeSlots(g, b)
  <2>1. F \in SUBSET Nat /\ F # {}
    BY SlotsAssumption DEF FreeSlots
  <2> HIDE DEF F
  <2>2. Min(F) \in F
    BY <2>1, MinIsLeast
  <2> QED BY <2>2 DEF F, FreeSlots
<1> HIDE DEF b, s, r
<1>6. SlotSet(g, WriteSlot(k, <<b, s>>, "inode"), b, s, "full", "inode")
  BY <1>2, <1>3, HintedSlot
<1>7. SlotsOf(g, b)[s] = "free"
  BY <1>2, <1>3 DEF SlotsOf
<1> HIDE DEF k
<1>8. SlotGiven(g, WriteSlot(k, <<b, s>>, "inode"), b, s)
  BY <1>2, <1>3, <1>6, <1>7 DEF SlotGiven
<1>9. AllocInode(g).ok /\ AllocInode(g).g = k /\ AllocInode(g).val = <<b, s>>
  BY <1>1 DEF Done
<1> QED BY <1>8, <1>9 DEF InodeOutcome

(* A block of its own, for a slot block. *)
LEMMA OneBlock ==
  ASSUME NEW g, Good(g), Loose(g) = {}
  PROVE  /\ AllocExtent(g, 1).g \in Group
         /\ AllocExtent(g, 1).ok =>
              \E b \in Blocks : /\ AllocExtent(g, 1).val = b /\ Given(g, AllocExtent(g, 1).g, {b}, 1)
                                /\ Loose(AllocExtent(g, 1).g) = {}
<1>1. UnitFor(1) = 1 /\ CeilDiv(1, 1) = 1
  BY Sizes2, CeilFacts DEF UnitFor
<1>2. Outcome(g, AllocExtent(g, 1), CeilDiv(1, UnitFor(1)) * UnitFor(1), UnitFor(1))
  <2>1. 1 \in Nat \ {0}
    OBVIOUS
  <2> QED BY <2>1, AllocExtentDone
<1>3. Outcome(g, AllocExtent(g, 1), 1, 1)
  BY <1>1, <1>2
<1> DEFINE r == AllocExtent(g, 1)
           b == r.val
<1>4. r.g \in Group /\ (r.ok => b \in Blocks /\ Given(g, r.g, b .. b + 1 - 1, 1) /\ Loose(r.g) = {})
  BY <1>3, Zenon DEF Outcome
<1> HIDE DEF r
<1>5. r.ok => b .. b + 1 - 1 = {b}
  <2>1. \A x \in Nat : x .. x + 1 - 1 = {x}
    OBVIOUS
  <2> HIDE DEF b
  <2> QED BY <1>4, <2>1, BlocksType
<1>6. r.ok => b \in Blocks /\ Given(g, r.g, {b}, 1) /\ Loose(r.g) = {}
  BY <1>4, <1>5
<1>7. r.g \in Group /\ (r.ok => \E x \in Blocks : r.val = x /\ Given(g, r.g, {x}, 1) /\ Loose(r.g) = {})
  BY <1>4, <1>6
<1> QED BY <1>7, Zenon DEF r

(* A new slot block, from a block just given, once there is a record.      *)
LEMMA NewSlotBlock ==
  ASSUME NEW g, NEW h, NEW b \in Blocks, Given(g, h, {b}, 1), Loose(h) = {},
         NEW z, z = ZeroSlots(h, b), NEW f \in Group, Reserved(z, f), NEW r, Fresh(f, r),
         NEW q \in Group, RecordTaken(f, q, r), NEW p, p = R1(q, b)
  PROVE  SlotBlockMade(g, FirstInode(PutRecord(q, p, WithKid(q.recs[p], LeafOf(b), "refined", r)), b, r), b)
<1>1. /\ Good(h) /\ h \in Group /\ StateOf(g, b) \in Unheld /\ StateOf(h, b) = "full" /\ UnitOf(h, b) = 1
      /\ \A x \in Blocks \ {b} : HeldAlike(g, h, x)
      /\ h.slots = g.slots /\ h.inoHint = g.inoHint
  BY DEF Given, Good, HeldKept, Taken
<1>2. /\ z \in Group /\ OnlySlots(h, z) /\ ZeroedSlots(h, z, b)
  <2>1. /\ ZeroSlots(h, b) \in Group /\ OnlySlots(h, ZeroSlots(h, b))
        /\ DOMAIN ZeroSlots(h, b).slots = DOMAIN h.slots \cup SlotsIn(b)
        /\ \A x \in SlotsIn(b) : ZeroSlots(h, b).slots[x] = "zero"
        /\ \A x \in DOMAIN h.slots \ SlotsIn(b) : ZeroSlots(h, b).slots[x] = h.slots[x]
    BY <1>1, ZeroSlotsFacts
  <2> QED BY <2>1 DEF ZeroedSlots
<1>3. SameState(h, z)
  BY <1>2 DEF OnlySlots, SameState, SameCounters
<1>4. Good(z) /\ Loose(z) = {} /\ \A x \in Blocks : SameView(h, z, x)
  <2>1. Good(z) /\ Loose(z) = Loose(h) /\ \A x \in Blocks : SameView(h, z, x)
    BY <1>1, <1>2, <1>3, SameGood
  <2> QED BY <2>1
<1>5. Good(f) /\ HeldKept(z, f, {}) /\ f.recs = z.recs
  BY <1>4, ReservedGood
<1>6. f.slots = z.slots /\ Loose(f) = {} /\ \A x \in Blocks : HeldAlike(z, f, x)
  BY <1>4, <1>5 DEF HeldKept, Loose
<1>7. StateOf(f, b) = "full" /\ UnitOf(f, b) = 1
  <2>1. StateOf(z, b) = "full" /\ UnitOf(z, b) = 1
    BY <1>1, <1>4 DEF SameView
  <2> QED BY <1>6, <2>1 DEF HeldAlike, SameView, Unheld
<1> DEFINE k == PutRecord(q, p, WithKid(q.recs[p], LeafOf(b), "refined", r))
<1>8. BlockRefined(f, k, b, r)
  BY <1>5, <1>6, <1>7, BlockRefinedDone
<1> HIDE DEF k
<1>9. \A x \in Blocks \ {b} : HeldAlike(g, f, x)
  <2> TAKE x \in Blocks \ {b}
  <2>1. HeldAlike(g, h, x) /\ HeldAlike(h, z, x) /\ HeldAlike(z, f, x)
    BY <1>1, <1>4, <1>6 DEF HeldAlike
  <2> QED BY <2>1, HeldTwice
<1>10. ZeroedSlots(g, f, b)
  BY <1>1, <1>2, <1>6, Zenon DEF ZeroedSlots
<1>11. SlotBlockMade(g, FirstInode(k, b, r), b)
  BY <1>1, <1>8, <1>9, <1>10, FirstInodeDone
<1> QED BY <1>11 DEF k

(* alloc_inode *)
LEMMA AllocInodeDone ==
  ASSUME NEW g, Good(g), Loose(g) = {}, SlotsFit(g)
  PROVE  InodeOutcome(g, AllocInode(g))
<1>1. CASE g.inoHint # 0 /\ SlotRefined(g, g.inoHint) /\ FreeSlots(g, g.inoHint) # {}
  BY <1>1, HintedInode
<1>2. CASE ~(g.inoHint # 0 /\ SlotRefined(g, g.inoHint) /\ FreeSlots(g, g.inoHint) # {})
  <2> DEFINE x == AllocExtent(g, 1)
             h0 == x.g
             b == x.val
             z == ZeroSlots(h0, b)
             a == AllocRecord(z)
             q == a.g
             r == a.val
             p == L1Ref(q, b)
             k == PutRecord(q, p, WithKid(q.recs[p], LeafOf(b), "refined", r))
             w == WithInoHint(PutRecord(k, r, SetKids(ZeroRecord, {0}, "full")), b)
  <2>1. AllocInode(g) = IF x.ok THEN (IF a.ok THEN Done(w, <<b, 0>>) ELSE a) ELSE x
    BY <1>2, Zenon DEF AllocInode, Then, WithKid, LeafOf, WithInoHint
  <2>2. h0 \in Group /\ (x.ok => b \in Blocks /\ Given(g, h0, {b}, 1) /\ Loose(h0) = {})
    BY OneBlock
  <2> HIDE DEF x
  <2>3. CASE ~x.ok
    BY <2>1, <2>2, <2>3 DEF InodeOutcome
  <2>4. ASSUME x.ok
        PROVE  z \in Group /\ InTables(z) /\ ArenaSound(z)
    <3> HIDE DEF h0, b
    <3>1. z \in Group /\ OnlySlots(h0, z)
      BY <2>2, <2>4, ZeroSlotsFacts
    <3>2. Good(h0)
      BY <2>2, <2>4 DEF Given
    <3> HIDE DEF z
    <3>3. SameState(h0, z)
      BY <3>1 DEF OnlySlots, SameState, SameCounters
    <3>4. Good(z)
      BY <3>1, <3>2, <3>3, SameGood
    <3> QED BY <3>1, <3>4, TreeFacts DEF Good
  <2>5. ASSUME x.ok
        PROVE  /\ ~a.ok => q = z
               /\ a.ok => q \in Group /\ \E f \in Group : Reserved(z, f) /\ Fresh(f, r) /\ RecordTaken(f, q, r)
    <3> HIDE DEF z
    <3> QED BY <2>4, <2>5, AllocRecordDone
  <2>6. CASE x.ok /\ ~a.ok
    <3>1. AllocInode(g) = a /\ q \in Group
      BY <2>1, <2>4, <2>5, <2>6
    <3> HIDE DEF a
    <3> QED BY <2>6, <3>1 DEF InodeOutcome
  <2>7. CASE x.ok /\ a.ok
    <3>1. AllocInode(g) = Done(w, <<b, 0>>)
      BY <2>1, <2>7
    <3>2. PICK f \in Group : Reserved(z, f) /\ Fresh(f, r) /\ RecordTaken(f, q, r)
      BY <2>5, <2>7
    <3>3. q \in Group /\ p = R1(q, b)
      <4> HIDE DEF q
      <4> QED BY <2>5, <2>7, Unfolded
    <3> HIDE DEF a, q, r, p
    <3>4. SlotBlockMade(g, FirstInode(k, b, r), b)
      <4>1. z = ZeroSlots(h0, b)
        OBVIOUS
      <4> HIDE DEF z, h0, b
      <4> QED BY <2>2, <2>7, <3>2, <3>3, <4>1, NewSlotBlock
    <3>5. FirstInode(k, b, r) = WriteSlot(w, <<b, 0>>, "inode")
      BY Zenon DEF FirstInode
    <3> HIDE DEF k, w
    <3>7. SlotGiven(g, WriteSlot(w, <<b, 0>>, "inode"), b, 0)
      BY <2>2, <2>7, <3>4, <3>5, BlocksType DEF SlotGiven
    <3>8. AllocInode(g).ok /\ AllocInode(g).g = w /\ AllocInode(g).val = <<b, 0>>
      BY <3>1 DEF Done
    <3> QED BY <3>7, <3>8 DEF InodeOutcome
  <2> QED BY <2>3, <2>6, <2>7
<1> QED BY <1>1, <1>2

(* The slot block is given back with the last inode in it.                 *)
SlotBlockFreed(g, h, b, s) ==
  /\ Good(h) /\ Loose(h) = {} /\ StateOf(h, b) \in Unheld
  /\ \A t \in 0 .. Slots - 1 : t # s => SlotsOf(g, b)[t] = "free"
  /\ \A x \in Blocks \ {b} : HeldAlike(g, h, x)
  /\ DOMAIN h.slots = DOMAIN g.slots \ SlotsIn(b)
  /\ \A x \in DOMAIN g.slots \ SlotsIn(b) : h.slots[x] = g.slots[x]
  /\ h.inoHint = IF g.inoHint = b THEN 0 ELSE g.inoHint

SlotTaken(g, h, b, s) == SlotSet(g, h, b, s, "free", "zero") \/ SlotBlockFreed(g, h, b, s)

LEMMA FreeOneBlock ==
  ASSUME NEW k, Good(k), Loose(k) = {}, NEW b \in Blocks, StateOf(k, b) = "full", UnitOf(k, b) = 1
  PROVE  /\ FreeExtent(k, b, 1).ok /\ Returned(k, FreeExtent(k, b, 1).g, {b}, 1)
         /\ Loose(FreeExtent(k, b, 1).g) = {}
<1>1. b \in Nat /\ Aligned(b, 1)
  <2>1. b \in Nat /\ b = b * 1
    BY BlocksType
  <2> QED BY <2>1 DEF Aligned
<1>2. CeilDiv(1, 1) = 1
  BY CeilFacts
<1>3. b .. b + 1 * 1 - 1 = {b}
  BY <1>1
<1>4. UnitsFull(k, b, 1 * 1, 1)
  BY <1>3 DEF UnitsFull
<1> DEFINE u == 1
           n == 1
           m == 1
<1>5. u \in Nat \ {0} /\ n \in Nat /\ (n # 0 => Aligned(b, u)) /\ m = CeilDiv(n, u) /\ UnitsFull(k, b, m * u, u)
  BY <1>1, <1>2, <1>4
<1>6. FreedRun(k, FreeExtent(k, b, n), b, m * u, u)
  <2> HIDE DEF u, n, m
  <2> QED BY <1>1, <1>5, FreeRun
<1>7. FreedRun(k, FreeExtent(k, b, 1), b, 1 * 1, 1)
  BY <1>6
<1> QED BY <1>3, <1>7 DEF FreedRun

LEMMA DropHintFacts ==
  ASSUME NEW g \in Group, NEW b
  PROVE  /\ DropHint(g, b) \in Group /\ OnlyInoHint(g, DropHint(g, b))
         /\ DropHint(g, b).inoHint = IF g.inoHint = b THEN 0 ELSE g.inoHint
<1>1. (IF g.inoHint = b THEN 0 ELSE g.inoHint) \in Blocks
  BY GroupFacts, BlocksType
<1>2. DropHint(g, b) = WithInoHint(g, IF g.inoHint = b THEN 0 ELSE g.inoHint)
  BY DEF DropHint, WithInoHint, Group
<1> QED BY <1>1, <1>2, WithInoHintFacts

(* free_inode *)
LEMMA FreeInodeDone ==
  ASSUME NEW g, Good(g), Loose(g) = {}, SlotsFit(g), NEW b \in Blocks, Is2(g, b),
         NEW s \in 0 .. Slots - 1
  PROVE  FreeInode(g, b, s).ok /\ SlotTaken(g, FreeInode(g, b, s).g, b, s)
<1> DEFINE r == SlotRef(g, b)
           p == L1Ref(g, b)
           rec == SetKids(g.recs[r], {s}, "free")
           w == WithInoHint(PutRecord(WriteSlot(g, <<b, s>>, "zero"), r, rec), b)
           k == SlotBlockDropped(g, b, r, p, LeafOf(b))
           x == FreeExtent(k, b, 1)
           y == x.g
           d == DropHint(y, b)
<1>1. FreeInode(g, b, s) = IF ~AllFree(rec) THEN Done(w, 0) ELSE IF x.ok THEN Done(d, 0) ELSE x
  <2>1. SlotRefined(g, b)
    BY Unfolded
  <2>2. CASE AllFree(rec)
    BY <2>1, <2>2 DEF FreeInode, Then, SlotBlockDropped, WithKid, LeafOf
  <2>3. CASE ~AllFree(rec)
    BY <2>1, <2>3, Zenon DEF FreeInode, WithInoHint
  <2> QED BY <2>2, <2>3
<1>2. r = R2(g, b) /\ p = R1(g, b)
  BY Unfolded
<1>3. CASE ~AllFree(rec)
  <2>1. SlotSet(g, w, b, s, "free", "zero")
    <3> HIDE DEF r
    <3> QED BY <1>2, <1>3, ClearedSlot
  <2>2. FreeInode(g, b, s).ok /\ FreeInode(g, b, s).g = w
    BY <1>1, <1>3 DEF Done
  <2> HIDE DEF w
  <2> QED BY <2>1, <2>2 DEF SlotTaken
<1>4. CASE AllFree(rec)
  <2>1. SlotBlockGone(g, k, b)
    <3> HIDE DEF r, p
    <3> QED BY <1>2, <1>4, SlotBlockGoneDone
  <2>2. \A t \in 0 .. Slots - 1 : t # s => SlotsOf(g, b)[t] = "free"
    <3>1. g \in Group /\ Tree(g)
      BY DEF Good
    <3>2. g.recs[r] \in Rec
      BY <1>2, <3>1, StateTypes, GroupFacts
    <3> HIDE DEF r
    <3>3. \A t \in Kids : rec.st[t] = IF t \in {s} THEN "free" ELSE g.recs[r].st[t]
      BY <3>2, SetKidsFacts
    <3>4. \A t \in Kids : rec.st[t] = "free"
      BY <1>4, Zenon DEF AllFree
    <3>5. \A t \in Kids : t # s => g.recs[r].st[t] = "free"
      BY <3>3, <3>4
    <3> QED BY <1>2, <3>5, BlocksType DEF SlotsOf
  <2> HIDE DEF k
  <2>3. Good(k) /\ Loose(k) = {} /\ StateOf(k, b) = "full" /\ UnitOf(k, b) = 1
    BY <2>1, Zenon DEF SlotBlockGone
  <2>4. x.ok /\ Returned(k, x.g, {b}, 1) /\ Loose(x.g) = {}
    BY <2>3, FreeOneBlock
  <2>5. FreeInode(g, b, s).ok /\ FreeInode(g, b, s).g = d
    BY <1>1, <1>4, <2>4 DEF Done
  <2> HIDE DEF x
  <2>6. /\ Good(y) /\ y \in Group /\ StateOf(y, b) \in Unheld /\ \A z \in Blocks \ {b} : HeldAlike(k, y, z)
        /\ y.slots = k.slots /\ y.inoHint = k.inoHint
    BY <2>4 DEF Returned, Good, HeldKept, Released
  <2>7. d \in Group /\ OnlyInoHint(y, d) /\ d.inoHint = IF y.inoHint = b THEN 0 ELSE y.inoHint
    <3> HIDE DEF y
    <3> QED BY <2>6, DropHintFacts
  <2>8. Loose(y) = {}
    BY <2>4
  <2> HIDE DEF d, y
  <2>9. SameState(y, d)
    BY <2>7 DEF OnlyInoHint, SameState, SameCounters
  <2>10. Good(d) /\ Loose(d) = Loose(y) /\ \A z \in Blocks : SameView(y, d, z)
    BY <2>6, <2>7, <2>9, SameGood
  <2>11. /\ \A z \in Blocks \ {b} : SameView(g, k, z)
         /\ DOMAIN k.slots = DOMAIN g.slots \ SlotsIn(b)
         /\ \A z \in DOMAIN g.slots \ SlotsIn(b) : k.slots[z] = g.slots[z]
         /\ k.inoHint = g.inoHint
    BY <2>1, Zenon DEF SlotBlockGone
  <2>12. \A z \in Blocks \ {b} : HeldAlike(g, d, z)
    <3> TAKE z \in Blocks \ {b}
    <3>1. HeldAlike(g, k, z) /\ HeldAlike(k, y, z) /\ HeldAlike(y, d, z)
      BY <2>6, <2>10, <2>11 DEF HeldAlike
    <3> QED BY <3>1, HeldTwice
  <2>13. StateOf(d, b) \in Unheld
    BY <2>6, <2>10 DEF SameView
  <2>14. d.slots = k.slots /\ d.inoHint = IF g.inoHint = b THEN 0 ELSE g.inoHint
    BY <2>6, <2>7, <2>11 DEF OnlyInoHint
  <2>15. SlotBlockFreed(g, d, b, s)
    BY <2>2, <2>8, <2>10, <2>11, <2>12, <2>13, <2>14 DEF SlotBlockFreed
  <2> QED BY <2>5, <2>15 DEF SlotTaken
<1> QED BY <1>3, <1>4

-----------------------------------------------------------------------------
(* Ownership *)

(* Whether block b is full, and in what unit, is the same in g and h; and  *)
(* whether it is a slot block, and its slots.                              *)
FullAlike(g, h, b) ==
  /\ StateOf(g, b) = "full" <=> StateOf(h, b) = "full"
  /\ StateOf(g, b) = "full" => UnitOf(h, b) = UnitOf(g, b)
SlotAlike(g, h, b) ==
  /\ Is2(g, b) <=> Is2(h, b)
  /\ Is2(g, b) => SlotsOf(h, b) = SlotsOf(g, b)

LEMMA HeldFacts ==
  ASSUME NEW g, NEW h, Good(g), Good(h), NEW b \in Blocks, HeldAlike(g, h, b)
  PROVE  FullAlike(g, h, b) /\ SlotAlike(g, h, b)
<1>1. (StateOf(g, b) = "refined" <=> Is2(g, b)) /\ (StateOf(h, b) = "refined" <=> Is2(h, b))
  BY StateTypes DEF Good
<1> QED BY <1>1 DEF HeldAlike, SameView, FullAlike, SlotAlike, Unheld

(* A run of n blocks may be made of units of u: a run in L1 cells that is  *)
(* cut to one of them could have been had in blocks.                       *)
FitsUnit(n, u) ==
  \/ u = 1 /\ n <= Fanout
  \/ u = Fanout /\ Fanout <= n /\ n < CellBlocks
  \/ u = CellBlocks /\ n >= CellBlocks

LEMMA FitsFacts ==
  ASSUME NEW n \in Nat \ {0}, NEW u, FitsUnit(n, u)
  PROVE  /\ u \in Nat \ {0} /\ CeilDiv(n, u) \in Nat \ {0} /\ CeilDiv(n, u) * u \in Nat \ {0}
         /\ CeilDiv(n, u) * u = CeilDiv(n, UnitFor(n)) * UnitFor(n)
<1>1. u \in Nat \ {0}
  BY Sizes2 DEF FitsUnit
<1>2. CeilDiv(n, u) \in Nat /\ CeilDiv(n, u) * u \in Nat /\ n <= CeilDiv(n, u) * u /\ CeilDiv(n, u) > 0
  BY <1>1, CeilFacts
<1>3. CASE u = UnitFor(n)
  BY <1>1, <1>2, <1>3
<1>4. CASE u # UnitFor(n)
  <2>1. u = Fanout /\ n = Fanout /\ UnitFor(n) = 1
    BY <1>4, Sizes2 DEF FitsUnit, UnitFor
  <2>2. n = 1 * Fanout /\ n = n * 1
    BY <2>1
  <2>3. CeilDiv(n, Fanout) = 1 /\ CeilDiv(n, 1) = n
    <3>1. Fanout \in Nat \ {0} /\ 1 \in Nat \ {0} /\ n \in Nat
      BY Sizes2
    <3>2. CeilDiv(n, Fanout) = 1
      BY <2>2, <3>1, CeilFacts
    <3>3. CeilDiv(n, 1) = n
      BY <2>2, <3>1, CeilFacts
    <3> QED BY <3>2, <3>3
  <2>4. CeilDiv(n, u) = 1 /\ CeilDiv(n, UnitFor(n)) = n
    BY <2>1, <2>3
  <2> QED BY <1>1, <1>2, <2>1, <2>4
<1> QED BY <1>3, <1>4

LEMMA SpanIs ==
  ASSUME NEW b, NEW n \in Nat \ {0}, NEW u, FitsUnit(n, u)
  PROVE  Span(<<b, n>>) = b .. b + CeilDiv(n, u) * u - 1
<1>1. CeilDiv(n, u) * u = CeilDiv(n, UnitFor(n)) * UnitFor(n)
  BY FitsFacts
<1> QED BY <1>1 DEF Span, UnitFor

(* Extent e is in use, made of units. *)
Extents == Blocks \X (Nat \ {0})
HoldsIn(g, e, u) ==
  FitsUnit(e[2], u) /\ Aligned(e[1], u) /\ UnitsFull(g, e[1], CeilDiv(e[2], u) * u, u)
Holds(g, e) == e \in Extents /\ \E u : HoldsIn(g, e, u)

OwnedBy(g, own) ==
  /\ \A e \in own : Holds(g, e)
  /\ \A b \in Blocks : StateOf(g, b) = "full" => \E e \in own : b \in Span(e)
  /\ \A e, f \in own : e # f => Span(e) \cap Span(f) = {}

LEMMA HoldsSpan ==
  ASSUME NEW g, NEW e, Holds(g, e)
  PROVE  e[1] \in Span(e) /\ \A b \in Span(e) : b \in Blocks /\ StateOf(g, b) = "full"
<1>1. e \in Extents /\ e = <<e[1], e[2]>> /\ e[1] \in Nat /\ e[2] \in Nat \ {0}
  <2>1. e \in Extents /\ e = <<e[1], e[2]>> /\ e[1] \in Blocks /\ e[2] \in Nat \ {0}
    BY DEF Holds, Extents
  <2> QED BY <2>1, BlocksType
<1>2. PICK u : HoldsIn(g, e, u)
  BY Zenon DEF Holds
<1>3. Span(e) = e[1] .. e[1] + CeilDiv(e[2], u) * u - 1
  <2>1. Span(<<e[1], e[2]>>) = e[1] .. e[1] + CeilDiv(e[2], u) * u - 1
    BY <1>1, <1>2, SpanIs DEF HoldsIn
  <2> QED BY <1>1, <2>1
<1>4. \A b \in Span(e) : b \in Blocks /\ StateOf(g, b) = "full"
  BY <1>2, <1>3 DEF HoldsIn, UnitsFull
<1>5. CeilDiv(e[2], u) * u \in Nat \ {0}
  BY <1>1, <1>2, FitsFacts DEF HoldsIn
<1>6. e[1] \in Span(e)
  <2>1. \A a \in Nat, k \in Nat \ {0} : a \in a .. a + k - 1
    OBVIOUS
  <2>2. e[1] \in e[1] .. e[1] + CeilDiv(e[2], u) * u - 1
    BY <1>1, <1>5, <2>1, Zenon
  <2> QED BY <1>3, <2>2, Zenon
<1> QED BY <1>4, <1>6

LEMMA HoldsKept ==
  ASSUME NEW g, NEW h, NEW e, Holds(g, e), \A b \in Span(e) : FullAlike(g, h, b)
  PROVE  Holds(h, e)
<1>1. e \in Extents /\ e = <<e[1], e[2]>> /\ e[2] \in Nat \ {0}
  BY DEF Holds, Extents
<1>2. PICK u : HoldsIn(g, e, u)
  BY Zenon DEF Holds
<1>3. Span(e) = e[1] .. e[1] + CeilDiv(e[2], u) * u - 1
  <2>1. Span(<<e[1], e[2]>>) = e[1] .. e[1] + CeilDiv(e[2], u) * u - 1
    BY <1>1, <1>2, SpanIs DEF HoldsIn
  <2> QED BY <1>1, <2>1
<1>4. UnitsFull(h, e[1], CeilDiv(e[2], u) * u, u)
  BY <1>2, <1>3 DEF HoldsIn, UnitsFull, FullAlike
<1>5. HoldsIn(h, e, u)
  BY <1>2, <1>4, Zenon DEF HoldsIn
<1> QED BY <1>1, <1>5, Zenon DEF Holds

(* No extent is touched. *)
LEMMA OwnedKeeps ==
  ASSUME NEW g, NEW own, OwnedBy(g, own), NEW h, \A b \in Blocks : FullAlike(g, h, b)
  PROVE  OwnedBy(h, own)
<1>1. \A e \in own : Holds(h, e)
  BY HoldsSpan, HoldsKept DEF OwnedBy
<1>2. \A b \in Blocks : StateOf(h, b) = "full" => \E e \in own : b \in Span(e)
  BY Zenon DEF OwnedBy, FullAlike
<1> QED BY <1>1, <1>2, Zenon DEF OwnedBy

(* Blocks that were not full become an extent. *)
LEMMA OwnedGrows ==
  ASSUME NEW g, NEW own, OwnedBy(g, own), NEW h, NEW e, Holds(h, e),
         \A b \in Span(e) : StateOf(g, b) # "full",
         \A b \in Blocks \ Span(e) : FullAlike(g, h, b)
  PROVE  OwnedBy(h, own \cup {e})
<1>1. \A f \in own : Holds(g, f) /\ \A b \in Span(f) : b \in Blocks /\ StateOf(g, b) = "full"
  BY HoldsSpan DEF OwnedBy
<1>2. \A f \in own : Span(f) \cap Span(e) = {}
  BY <1>1
<1>3. \A f \in own : Holds(h, f)
  <2> TAKE f \in own
  <2>1. \A b \in Span(f) : FullAlike(g, h, b)
    BY <1>1, <1>2
  <2> QED BY <1>1, <2>1, HoldsKept
<1>4. \A b \in Blocks : StateOf(h, b) = "full" => \E f \in own \cup {e} : b \in Span(f)
  <2> TAKE b \in Blocks
  <2> HAVE StateOf(h, b) = "full"
  <2>1. CASE b \in Span(e)
    BY <2>1
  <2>2. CASE b \notin Span(e)
    BY <2>2 DEF OwnedBy, FullAlike
  <2> QED BY <2>1, <2>2
<1>5. \A f, k \in own \cup {e} : f # k => Span(f) \cap Span(k) = {}
  BY <1>2 DEF OwnedBy
<1> QED BY <1>3, <1>4, <1>5 DEF OwnedBy

(* An extent is given up, or what is left of it, N, stays one. *)
LEMMA OwnedShrinks ==
  ASSUME NEW g, NEW own, OwnedBy(g, own), NEW h, NEW e \in own, NEW N,
         \A f \in N : Holds(h, f) /\ Span(f) \subseteq Span(e), \A f, k \in N : f = k,
         \A b \in Span(e) : StateOf(h, b) = "full" => \E f \in N : b \in Span(f),
         \A b \in Blocks \ Span(e) : FullAlike(g, h, b)
  PROVE  OwnedBy(h, (own \ {e}) \cup N)
<1>1. \A f \in own : Holds(g, f) /\ \A b \in Span(f) : b \in Blocks /\ StateOf(g, b) = "full"
  BY HoldsSpan DEF OwnedBy
<1>2. \A f \in own \ {e} : Span(f) \cap Span(e) = {}
  BY DEF OwnedBy
<1>3. \A f \in own \ {e} : Holds(h, f)
  <2> TAKE f \in own \ {e}
  <2>1. \A b \in Span(f) : FullAlike(g, h, b)
    BY <1>1, <1>2
  <2> QED BY <1>1, <2>1, HoldsKept
<1>4. \A b \in Blocks : StateOf(h, b) = "full" => \E f \in (own \ {e}) \cup N : b \in Span(f)
  <2> TAKE b \in Blocks
  <2> HAVE StateOf(h, b) = "full"
  <2>1. CASE b \in Span(e)
    BY <2>1
  <2>2. CASE b \notin Span(e)
    <3>1. StateOf(g, b) = "full"
      BY <2>2 DEF FullAlike
    <3>2. PICK f \in own : b \in Span(f)
      BY <3>1 DEF OwnedBy
    <3> QED BY <2>2, <3>2
  <2> QED BY <2>1, <2>2
<1>5. \A f, k \in (own \ {e}) \cup N : f # k => Span(f) \cap Span(k) = {}
  <2>1. \A f, k \in own \ {e} : f # k => Span(f) \cap Span(k) = {}
    BY Zenon DEF OwnedBy
  <2>2. \A f \in own \ {e}, k \in N : Span(f) \cap Span(k) = {}
    BY <1>2
  <2>3. \A f, k \in N : f = k
    OBVIOUS
  <2> QED BY <2>1, <2>2, <2>3
<1> QED BY <1>3, <1>4, <1>5 DEF OwnedBy

(* What giving and returning leave alone. *)
SlotsAlike(g, h) == (\A b \in Blocks : SlotAlike(g, h, b)) /\ h.slots = g.slots /\ h.inoHint = g.inoHint

LEMMA GivenFacts ==
  ASSUME NEW g, Good(g), NEW h, NEW T, NEW u, Given(g, h, T, u)
  PROVE  /\ \A b \in Blocks \ T : FullAlike(g, h, b)
         /\ \A b \in T : b \in Blocks /\ StateOf(g, b) # "full" /\ StateOf(h, b) = "full" /\ UnitOf(h, b) = u
         /\ SlotsAlike(g, h)
<1>1. /\ Good(h) /\ T \in SUBSET Blocks /\ h.slots = g.slots /\ h.inoHint = g.inoHint
      /\ \A b \in Blocks \ T : HeldAlike(g, h, b)
      /\ \A b \in T : StateOf(g, b) \in Unheld /\ StateOf(h, b) = "full" /\ UnitOf(h, b) = u
  BY Zenon DEF Given, HeldKept, Taken
<1>2. \A b \in Blocks \ T : FullAlike(g, h, b) /\ SlotAlike(g, h, b)
  BY <1>1, HeldFacts
<1>3. \A b \in T : SlotAlike(g, h, b)
  <2> TAKE b \in T
  <2>1. (StateOf(g, b) = "refined" <=> Is2(g, b)) /\ (StateOf(h, b) = "refined" <=> Is2(h, b))
    BY <1>1, StateTypes DEF Good
  <2> QED BY <1>1, <2>1 DEF SlotAlike, Unheld
<1>4. \A b \in Blocks : SlotAlike(g, h, b)
  BY <1>2, <1>3
<1> QED BY <1>1, <1>2, <1>4 DEF SlotsAlike, Unheld

LEMMA ReturnedFacts ==
  ASSUME NEW g, Good(g), NEW h, NEW T, NEW u, Returned(g, h, T, u)
  PROVE  /\ \A b \in Blocks \ T : FullAlike(g, h, b)
         /\ \A b \in T : b \in Blocks /\ StateOf(h, b) # "full"
         /\ SlotsAlike(g, h)
<1>1. /\ Good(h) /\ T \in SUBSET Blocks /\ h.slots = g.slots /\ h.inoHint = g.inoHint
      /\ \A b \in Blocks \ T : HeldAlike(g, h, b)
      /\ \A b \in T : StateOf(g, b) = "full" /\ StateOf(h, b) \in Unheld
  BY Zenon DEF Returned, HeldKept, Released
<1>2. \A b \in Blocks \ T : FullAlike(g, h, b) /\ SlotAlike(g, h, b)
  BY <1>1, HeldFacts
<1>3. \A b \in T : SlotAlike(g, h, b)
  <2> TAKE b \in T
  <2>1. (StateOf(g, b) = "refined" <=> Is2(g, b)) /\ (StateOf(h, b) = "refined" <=> Is2(h, b))
    BY <1>1, StateTypes DEF Good
  <2> QED BY <1>1, <2>1 DEF SlotAlike, Unheld
<1>4. \A b \in Blocks : SlotAlike(g, h, b)
  BY <1>2, <1>3
<1> QED BY <1>1, <1>2, <1>4 DEF SlotsAlike, Unheld

(* alloc_extent *)
LEMMA AllocOwned ==
  ASSUME NEW g, Good(g), NEW own, OwnedBy(g, own), NEW n \in Nat \ {0}, NEW r,
         Outcome(g, r, CeilDiv(n, UnitFor(n)) * UnitFor(n), UnitFor(n)), r.ok
  PROVE  OwnedBy(r.g, own \cup {<<r.val, n>>}) /\ SlotsAlike(g, r.g) /\ Good(r.g) /\ Loose(r.g) = {}
<1> DEFINE u == UnitFor(n)
           b == r.val
           h == r.g
           T == b .. b + CeilDiv(n, u) * u - 1
           e == <<b, n>>
<1>1. b \in Blocks /\ Aligned(b, u) /\ Given(g, h, T, u) /\ Loose(h) = {}
  BY Zenon DEF Outcome
<1>2. FitsUnit(n, u)
  BY Sizes2 DEF FitsUnit, UnitFor
<1> HIDE DEF u, b, h, T
<1>3. Span(e) = T
  BY <1>2, SpanIs DEF T
<1>4. /\ \A x \in Blocks \ T : FullAlike(g, h, x)
      /\ \A x \in T : x \in Blocks /\ StateOf(g, x) # "full" /\ StateOf(h, x) = "full" /\ UnitOf(h, x) = u
      /\ SlotsAlike(g, h)
  BY <1>1, GivenFacts
<1>5. Good(h)
  BY <1>1 DEF Given
<1>6. UnitsFull(h, b, CeilDiv(n, u) * u, u)
  BY <1>4, Zenon DEF UnitsFull, T
<1>7. e \in Extents /\ e[1] = b /\ e[2] = n
  BY <1>1 DEF Extents
<1> HIDE DEF e
<1>8. Holds(h, e)
  <2>1. HoldsIn(h, e, u)
    BY <1>1, <1>2, <1>6, <1>7 DEF HoldsIn
  <2> QED BY <1>7, <2>1, Zenon DEF Holds
<1>9. OwnedBy(h, own \cup {e})
  BY <1>3, <1>4, <1>8, OwnedGrows
<1> QED BY <1>1, <1>4, <1>5, <1>9 DEF e, b, h

(* free_extent *)
LEMMA FreeOwned ==
  ASSUME NEW g, Good(g), Loose(g) = {}, NEW own, OwnedBy(g, own), NEW e \in own
  PROVE  LET r == FreeExtent(g, e[1], e[2]) IN
         r.ok /\ OwnedBy(r.g, own \ {e}) /\ SlotsAlike(g, r.g) /\ Good(r.g) /\ Loose(r.g) = {}
<1> DEFINE b == e[1]
           n == e[2]
           r == FreeExtent(g, b, n)
           h == r.g
<1>1. Holds(g, e)
  BY DEF OwnedBy
<1>2. PICK u : HoldsIn(g, e, u)
  BY <1>1, Zenon DEF Holds
<1>3. e = <<b, n>> /\ b \in Blocks /\ n \in Nat \ {0}
  BY <1>1 DEF Holds, Extents
<1>4. b \in Nat /\ n \in Nat /\ FitsUnit(n, u) /\ Aligned(b, u) /\ UnitsFull(g, b, CeilDiv(n, u) * u, u)
  BY <1>2, <1>3, BlocksType DEF HoldsIn
<1>5. u \in Nat \ {0}
  BY <1>3, <1>4, FitsFacts
<1> DEFINE m == CeilDiv(n, u)
<1>6. FreedRun(g, r, b, m * u, u)
  <2> HIDE DEF b, n
  <2> QED BY <1>4, <1>5, FreeRun
<1>7. Span(e) = b .. b + m * u - 1
  <2> HIDE DEF b, n
  <2> QED BY <1>3, <1>4, SpanIs
<1> HIDE DEF r, m
<1>8. r.ok /\ Returned(g, h, Span(e), u) /\ Loose(h) = {}
  BY <1>6, <1>7 DEF FreedRun
<1> HIDE DEF h
<1>9. /\ \A x \in Blocks \ Span(e) : FullAlike(g, h, x)
      /\ \A x \in Span(e) : x \in Blocks /\ StateOf(h, x) # "full"
      /\ SlotsAlike(g, h)
  BY <1>8, ReturnedFacts
<1>10. OwnedBy(h, (own \ {e}) \cup {})
  <2> DEFINE N == {}
  <2>1. /\ \A f \in N : Holds(h, f) /\ Span(f) \subseteq Span(e)
        /\ \A f, k \in N : f = k
        /\ \A x \in Span(e) : StateOf(h, x) = "full" => \E f \in N : x \in Span(f)
    BY <1>9
  <2> HIDE DEF N
  <2>2. OwnedBy(h, (own \ {e}) \cup N)
    BY <1>9, <2>1, OwnedShrinks
  <2> QED BY <2>2 DEF N
<1>11. Good(h)
  BY <1>8 DEF Returned
<1>12. (own \ {e}) \cup {} = own \ {e}
  OBVIOUS
<1> QED BY <1>8, <1>9, <1>10, <1>11, <1>12 DEF h, r

(* Part of a run, whole units from its start, is a run. *)
LEMMA PartFits ==
  ASSUME NEW n \in Nat \ {0}, NEW u, FitsUnit(n, u), NEW q \in Nat \ {0}, NEW v, v = q * u, v < n
  PROVE  v \in Nat \ {0} /\ FitsUnit(v, u) /\ CeilDiv(v, u) = q
<1>1. u \in Nat \ {0} /\ q \in Nat \ {0}
  BY FitsFacts
<1>2. q * u \in Nat /\ q * u >= u
  <2>1. \A x, y \in Nat \ {0} : x * y \in Nat /\ x * y >= y
    <3> TAKE x, y \in Nat \ {0}
    <3>1. x * y = (x - 1) * y + y /\ (x - 1) * y \in Nat
      OBVIOUS
    <3> QED BY <3>1
  <2> QED BY <1>1, <2>1
<1>3. v \in Nat \ {0} /\ v >= u
  BY <1>1, <1>2
<1>4. FitsUnit(v, u)
  BY <1>1, <1>3, Sizes2 DEF FitsUnit
<1>5. CeilDiv(v, u) = q
  BY <1>1, <1>3, CeilFacts
<1> QED BY <1>3, <1>4, <1>5

(* Of a run of m units, the units from the q-th on are gone. *)
LEMMA RestOfRun ==
  ASSUME NEW b \in Nat, NEW u \in Nat \ {0}, NEW m \in Nat, NEW q \in Nat, q < m
  PROVE  LET S == b .. b + m * u - 1  K == b .. b + q * u - 1  R == b + q * u .. b + m * u - 1 IN
         K \subseteq S /\ R \subseteq S /\ \A x \in S : x \in K <=> x \notin R
<1>1. q * u \in Nat /\ m * u \in Nat /\ q * u < m * u
  <2>1. u * q + u <= u * m
    BY LessTimes
  <2>2. u * q = q * u /\ u * m = m * u /\ q * u \in Nat /\ m * u \in Nat
    OBVIOUS
  <2> QED BY <2>1, <2>2
<1> DEFINE v == q * u
           w == m * u
<1>2. v \in Nat /\ w \in Nat /\ v < w
  BY <1>1
<1> HIDE DEF v, w
<1>3. LET S == b .. b + w - 1  K == b .. b + v - 1  R == b + v .. b + w - 1 IN
      K \subseteq S /\ R \subseteq S /\ \A x \in S : x \in K <=> x \notin R
  BY <1>2
<1> QED BY <1>3 DEF v, w

(* trim_run *)
LEMMA TrimOwned ==
  ASSUME NEW g, Good(g), Loose(g) = {}, NEW own, OwnedBy(g, own), NEW e \in own, NEW keep \in 1 .. e[2] - 1
  PROVE  LET r == TrimRun(g, e[1], e[2], keep) IN
         /\ r.ok /\ <<e[1], r.val>> \in Extents /\ OwnedBy(r.g, (own \ {e}) \cup {<<e[1], r.val>>})
         /\ SlotsAlike(g, r.g) /\ Good(r.g) /\ Loose(r.g) = {}
<1> DEFINE b == e[1]
           n == e[2]
           r == TrimRun(g, b, n, keep)
           h == r.g
           v == r.val
           d == <<b, v>>
<1>1. Holds(g, e)
  BY DEF OwnedBy
<1>2. PICK u : HoldsIn(g, e, u)
  BY <1>1, Zenon DEF Holds
<1>3. e = <<b, n>> /\ b \in Blocks /\ n \in Nat \ {0}
  BY <1>1 DEF Holds, Extents
<1>4. b \in Nat /\ FitsUnit(n, u) /\ Aligned(b, u) /\ UnitsFull(g, b, CeilDiv(n, u) * u, u)
  BY <1>2, <1>3, BlocksType DEF HoldsIn
<1>5. u \in Nat \ {0} /\ CeilDiv(n, u) \in Nat \ {0}
  BY <1>3, <1>4, FitsFacts
<1> DEFINE m == CeilDiv(n, u)
<1>6. TrimOutcome(g, r, b, n, m, u)
  <2> HIDE DEF b, n
  <2> QED BY <1>3, <1>4, <1>5, TrimDone DEF n
<1>7. Span(e) = b .. b + m * u - 1
  <2> HIDE DEF b, n
  <2> QED BY <1>3, <1>4, SpanIs
<1>8. m \in Nat
  BY <1>5
<1> HIDE DEF m, r, b, n
<1>9. r.ok /\ Loose(h) = {}
  BY <1>6 DEF TrimOutcome
<1>10. CASE v = n /\ Returned(g, h, {}, u)
  <2>1. (\A x \in Blocks : FullAlike(g, h, x)) /\ SlotsAlike(g, h) /\ Good(h)
    BY <1>10, ReturnedFacts DEF Returned
  <2> HIDE DEF h, v
  <2>2. OwnedBy(h, own)
    BY <2>1, OwnedKeeps
  <2>3. d = e /\ (own \ {e}) \cup {e} = own /\ e \in Extents
    BY <1>1, <1>3, <1>10 DEF Holds
  <2> QED BY <1>9, <2>1, <2>2, <2>3 DEF h, v, r, b, n
<1>11. ASSUME NEW q \in 1 .. m - 1, v = q * u, v < n, Returned(g, h, b + q * u .. b + m * u - 1, u)
       PROVE  /\ d \in Extents /\ OwnedBy(h, (own \ {e}) \cup {d}) /\ SlotsAlike(g, h) /\ Good(h)
  <2> DEFINE R == b + q * u .. b + m * u - 1
             K == b .. b + q * u - 1
  <2>1. q \in Nat \ {0} /\ q < m
    BY <1>8
  <2>2. v \in Nat \ {0} /\ FitsUnit(v, u) /\ CeilDiv(v, u) = q
    <3> HIDE DEF v
    <3> QED BY <1>3, <1>4, <1>11, <2>1, PartFits
  <2>3. K \subseteq Span(e) /\ R \subseteq Span(e) /\ \A x \in Span(e) : x \in K <=> x \notin R
    BY <1>4, <1>5, <1>7, <1>8, <2>1, RestOfRun
  <2>4. Returned(g, h, R, u)
    BY <1>11
  <2> HIDE DEF h, v
  <2>5. Span(d) = K
    BY <2>2, SpanIs
  <2> HIDE DEF R
  <2>6. /\ \A x \in Blocks \ R : FullAlike(g, h, x)
        /\ \A x \in R : x \in Blocks /\ StateOf(h, x) # "full"
        /\ SlotsAlike(g, h)
    BY <2>4, ReturnedFacts
  <2>7. Good(h)
    BY <2>4 DEF Returned
  <2>8. d \in Extents /\ d[1] = b /\ d[2] = v
    BY <1>3, <2>2 DEF Extents
  <2>9. \A x \in Span(e) : x \in Blocks /\ StateOf(g, x) = "full" /\ UnitOf(g, x) = u
    BY <1>4, <1>7 DEF UnitsFull, m
  <2>10. UnitsFull(h, b, q * u, u)
    <3>1. \A x \in K : x \in Blocks /\ x \in Span(e) /\ x \notin R
      BY <2>3, <2>9
    <3> HIDE DEF K
    <3>2. \A x \in K : x \in Blocks /\ StateOf(h, x) = "full" /\ UnitOf(h, x) = u
      BY <2>6, <2>9, <3>1 DEF FullAlike
    <3> QED BY <3>2, Zenon DEF UnitsFull, K
  <2> HIDE DEF d, K
  <2>11. Holds(h, d)
    <3>1. HoldsIn(h, d, u)
      BY <1>4, <2>2, <2>8, <2>10 DEF HoldsIn
    <3> QED BY <2>8, <3>1, Zenon DEF Holds
  <2>12. OwnedBy(h, (own \ {e}) \cup {d})
    <3> DEFINE N == {d}
    <3>1. \A f \in N : Holds(h, f) /\ Span(f) \subseteq Span(e)
      BY <2>3, <2>5, <2>11
    <3>2. \A f, k \in N : f = k
      OBVIOUS
    <3>3. \A x \in Span(e) : StateOf(h, x) = "full" => \E f \in N : x \in Span(f)
      BY <2>3, <2>5, <2>6
    <3>4. \A x \in Blocks \ Span(e) : FullAlike(g, h, x)
      BY <2>3, <2>6
    <3> HIDE DEF N
    <3>5. OwnedBy(h, (own \ {e}) \cup N)
      BY <3>1, <3>2, <3>3, <3>4, OwnedShrinks
    <3> QED BY <3>5 DEF N
  <2> QED BY <2>6, <2>7, <2>8, <2>12
<1>12. (v = n /\ Returned(g, h, {}, u))
       \/ \E q \in 1 .. m - 1 : v = q * u /\ v < n /\ Returned(g, h, b + q * u .. b + m * u - 1, u)
  BY <1>6, Zenon DEF TrimOutcome
<1>13. ASSUME ~(v = n /\ Returned(g, h, {}, u))
       PROVE  /\ d \in Extents /\ OwnedBy(h, (own \ {e}) \cup {d}) /\ SlotsAlike(g, h) /\ Good(h)
  <2>1. PICK q \in 1 .. m - 1 : v = q * u /\ v < n /\ Returned(g, h, b + q * u .. b + m * u - 1, u)
    BY <1>12, <1>13, Zenon
  <2> QED BY <1>11, <2>1
<1> QED BY <1>9, <1>10, <1>13 DEF r, b, n

(* The inodes in use. *)
InodesAre(g, is) == is = {x \in DOMAIN g.slots : g.slots[x] = "inode"}

LEMMA SlotsKept ==
  ASSUME NEW g \in Group, SlotsFit(g), NEW is, InodesAre(g, is), NEW h, SlotsAlike(g, h)
  PROVE  SlotsFit(h) /\ InodesAre(h, is)
<1>1. /\ h.slots = g.slots /\ h.inoHint = g.inoHint /\ g.inoHint \in Blocks
      /\ \A b \in Blocks : (Is2(g, b) <=> Is2(h, b)) /\ (Is2(g, b) => SlotsOf(h, b) = SlotsOf(g, b))
  BY GroupFacts DEF SlotsAlike, SlotAlike
<1>2. SlotsFit(h)
  BY <1>1 DEF SlotsFit
<1>3. InodesAre(h, is)
  BY <1>1, Zenon DEF InodesAre
<1> QED BY <1>2, <1>3

(* A change to one slot, or to the slots of one block, as the inodes see   *)
(* it.                                                                     *)
FullKept(g, h, b) == \A x \in Blocks \ {b} : FullAlike(g, h, x) /\ SlotAlike(g, h, x)

LEMMA KeptOwned ==
  ASSUME NEW g, NEW own, OwnedBy(g, own), NEW h, NEW b \in Blocks, FullKept(g, h, b),
         StateOf(g, b) # "full", StateOf(h, b) # "full"
  PROVE  OwnedBy(h, own)
<1>1. \A x \in Blocks : FullAlike(g, h, x)
  BY DEF FullKept, FullAlike
<1> QED BY <1>1, OwnedKeeps

(* A slot is taken or given up, its block stays. *)
LEMMA SlotSetKept ==
  ASSUME NEW g, Good(g), SlotsFit(g), NEW own, OwnedBy(g, own), NEW is, InodesAre(g, is),
         NEW b \in Blocks, Is2(g, b), NEW s \in 0 .. Slots - 1, NEW st, NEW content,
         st = "full" <=> content = "inode", NEW h, SlotSet(g, h, b, s, st, content)
  PROVE  /\ SlotsFit(h) /\ OwnedBy(h, own)
         /\ InodesAre(h, IF content = "inode" THEN is \cup {<<b, s>>} ELSE is \ {<<b, s>>})
<1>1. /\ Good(h) /\ Is2(h, b) /\ SlotsOf(h, b) = [SlotsOf(g, b) EXCEPT ![s] = st]
      /\ \A x \in Blocks \ {b} : SameView(g, h, x)
      /\ DOMAIN h.slots = DOMAIN g.slots /\ h.slots[<<b, s>>] = content
      /\ \A x \in DOMAIN g.slots \ {<<b, s>>} : h.slots[x] = g.slots[x]
      /\ h.inoHint = g.inoHint \/ h.inoHint = b
  BY Zenon DEF SlotSet, SlotRecoloured, SlotWritten
<1>2. /\ g \in Group /\ Tree(g) /\ h \in Group /\ Tree(h)
  BY <1>1 DEF Good
<1>3. FullKept(g, h, b)
  BY <1>1, HeldFacts DEF FullKept, HeldAlike
<1>4. StateOf(g, b) = "refined" /\ StateOf(h, b) = "refined" /\ SlotsOf(g, b) \in [Kids -> {"free", "full"}]
  BY <1>1, <1>2, StateTypes
<1>5. OwnedBy(h, own)
  BY <1>3, <1>4, KeptOwned
<1>6. \A t \in 0 .. Slots - 1 : SlotsOf(h, b)[t] = IF t = s THEN st ELSE SlotsOf(g, b)[t]
  BY <1>1, <1>4, BlocksType
<1>7. SlotsFit(h)
  <2>1. \A x \in Blocks, t \in 0 .. Slots - 1 : <<x, t>> \in DOMAIN h.slots <=> Is2(h, x)
    <3> TAKE x \in Blocks, t \in 0 .. Slots - 1
    <3>1. <<x, t>> \in DOMAIN h.slots <=> Is2(g, x)
      BY <1>1 DEF SlotsFit
    <3>2. Is2(g, x) <=> Is2(h, x)
      BY <1>1, <1>3 DEF FullKept, SlotAlike
    <3> QED BY <3>1, <3>2
  <2>2. ASSUME NEW x \in Blocks, NEW t \in 0 .. Slots - 1, Is2(h, x)
        PROVE  h.slots[<<x, t>>] = "inode" <=> SlotsOf(h, x)[t] = "full"
    <3>1. Is2(g, x) /\ <<x, t>> \in DOMAIN g.slots
      BY <1>1, <1>3, <2>2 DEF FullKept, SlotAlike, SlotsFit
    <3>2. g.slots[<<x, t>>] = "inode" <=> SlotsOf(g, x)[t] = "full"
      BY <3>1, Zenon DEF SlotsFit
    <3>3. CASE x = b /\ t = s
      BY <1>1, <1>6, <3>3
    <3>4. CASE x = b /\ t # s
      <4>1. <<x, t>> # <<b, s>>
        BY <3>4
      <4>2. h.slots[<<x, t>>] = g.slots[<<x, t>>]
        BY <1>1, <3>1, <4>1, Zenon
      <4>3. SlotsOf(h, x)[t] = SlotsOf(g, x)[t]
        BY <1>6, <3>4
      <4> QED BY <3>2, <4>2, <4>3
    <3>5. CASE x # b
      <4>1. <<x, t>> # <<b, s>>
        BY <3>5
      <4>2. h.slots[<<x, t>>] = g.slots[<<x, t>>]
        BY <1>1, <3>1, <4>1, Zenon
      <4>3. SlotsOf(h, x) = SlotsOf(g, x)
        BY <1>3, <3>1, <3>5 DEF FullKept, SlotAlike
      <4> QED BY <3>2, <4>2, <4>3
    <3> QED BY <3>3, <3>4, <3>5
  <2>3. h.inoHint # 0 => Is2(h, h.inoHint)
    <3>1. g.inoHint \in Blocks
      BY <1>2, GroupFacts
    <3> QED BY <1>1, <1>3, <3>1 DEF FullKept, SlotAlike, SlotsFit
  <2> QED BY <2>1, <2>2, <2>3 DEF SlotsFit
<1>8. InodesAre(h, IF content = "inode" THEN is \cup {<<b, s>>} ELSE is \ {<<b, s>>})
  <2>1. <<b, s>> \in DOMAIN g.slots <=> Is2(g, b)
    BY Zenon DEF SlotsFit
  <2> DEFINE x0 == <<b, s>>
  <2>2. x0 \in DOMAIN g.slots /\ h.slots[x0] = content /\ \A x \in DOMAIN g.slots \ {x0} : h.slots[x] = g.slots[x]
    BY <1>1, <2>1
  <2> HIDE DEF x0
  <2>3. InodesAre(h, IF content = "inode" THEN is \cup {x0} ELSE is \ {x0})
    <3>1. CASE content = "inode"
      BY <1>1, <2>2, <3>1 DEF InodesAre
    <3>2. CASE content # "inode"
      BY <1>1, <2>2, <3>2 DEF InodesAre
    <3> QED BY <3>1, <3>2
  <2> QED BY <2>3 DEF x0
<1> QED BY <1>5, <1>7, <1>8

(* A slot of another block is none of block b's. *)
LEMMA OtherBlocksSlot ==
  ASSUME NEW b, NEW x, x # b, NEW t
  PROVE  <<x, t>> \notin SlotsIn(b)
BY DEF SlotsIn

(* A slot block is made, with one inode. *)
LEMMA SlotBlockMadeKept ==
  ASSUME NEW g, Good(g), SlotsFit(g), NEW own, OwnedBy(g, own), NEW is, InodesAre(g, is),
         NEW b, NEW h, SlotBlockMade(g, h, b)
  PROVE  SlotsFit(h) /\ OwnedBy(h, own) /\ InodesAre(h, is \cup {<<b, 0>>})
<1>1. /\ Good(h) /\ b \in Blocks /\ StateOf(g, b) \in Unheld
      /\ Is2(h, b) /\ SlotsOf(h, b) = [ZeroRecord.st EXCEPT ![0] = "full"]
      /\ \A x \in Blocks \ {b} : HeldAlike(g, h, x)
      /\ DOMAIN h.slots = DOMAIN g.slots \cup SlotsIn(b)
      /\ \A s \in 0 .. Slots - 1 : h.slots[<<b, s>>] = IF s = 0 THEN "inode" ELSE "zero"
      /\ \A x \in DOMAIN g.slots \ SlotsIn(b) : h.slots[x] = g.slots[x]
      /\ h.inoHint = b
  BY Zenon DEF SlotBlockMade
<1>2. /\ g \in Group /\ Tree(g) /\ h \in Group /\ Tree(h)
  BY <1>1 DEF Good
<1>3. FullKept(g, h, b)
  BY <1>1, HeldFacts DEF FullKept
<1>4. StateOf(g, b) # "full" /\ StateOf(h, b) # "full" /\ ~Is2(g, b)
  BY <1>1, <1>2, StateTypes DEF Unheld
<1>5. OwnedBy(h, own)
  BY <1>1, <1>3, <1>4, KeptOwned
<1>6. \A t \in 0 .. Slots - 1 : SlotsOf(h, b)[t] = "full" <=> t = 0
  <2>1. DOMAIN ZeroRecord.st = Kids /\ \A t \in Kids : ZeroRecord.st[t] = "free"
    BY ZeroFacts, RecFacts
  <2> QED BY <1>1, <2>1, BlocksType
<1>7. SlotsFit(h)
  <2>1. \A x \in Blocks, t \in 0 .. Slots - 1 : <<x, t>> \in DOMAIN h.slots <=> Is2(h, x)
    <3> TAKE x \in Blocks, t \in 0 .. Slots - 1
    <3>1. CASE x = b
      BY <1>1, <3>1, SlotsInFacts
    <3>2. CASE x # b
      <4>1. <<x, t>> \in DOMAIN g.slots <=> Is2(g, x)
        BY Zenon DEF SlotsFit
      <4>2. Is2(g, x) <=> Is2(h, x)
        BY <1>3, <3>2 DEF FullKept, SlotAlike
      <4>3. <<x, t>> \notin SlotsIn(b)
        BY <3>2, OtherBlocksSlot
      <4> QED BY <1>1, <4>1, <4>2, <4>3, Zenon
    <3> QED BY <3>1, <3>2
  <2>2. ASSUME NEW x \in Blocks, NEW t \in 0 .. Slots - 1, Is2(h, x)
        PROVE  h.slots[<<x, t>>] = "inode" <=> SlotsOf(h, x)[t] = "full"
    <3>1. CASE x = b
      BY <1>1, <1>6, <3>1
    <3>2. CASE x # b
      <4>1. Is2(g, x) /\ SlotsOf(h, x) = SlotsOf(g, x)
        BY <1>3, <2>2, <3>2 DEF FullKept, SlotAlike
      <4>2. <<x, t>> \in DOMAIN g.slots /\ (g.slots[<<x, t>>] = "inode" <=> SlotsOf(g, x)[t] = "full")
        BY <4>1, Zenon DEF SlotsFit
      <4>3. <<x, t>> \notin SlotsIn(b)
        BY <3>2, OtherBlocksSlot
      <4>4. h.slots[<<x, t>>] = g.slots[<<x, t>>]
        BY <1>1, <4>2, <4>3, Zenon
      <4> QED BY <4>1, <4>2, <4>4
    <3> QED BY <3>1, <3>2
  <2> QED BY <1>1, <2>1, <2>2 DEF SlotsFit
<1>8. \A x \in SlotsIn(b) : x \notin DOMAIN g.slots
                            /\ (h.slots[x] = "inode" <=> x = <<b, 0>>)
  <2> TAKE x \in SlotsIn(b)
  <2>1. PICK s \in 0 .. Slots - 1 : x = <<b, s>>
    BY DEF SlotsIn
  <2>2. <<b, s>> \in DOMAIN g.slots <=> Is2(g, b)
    BY <1>1, Zenon DEF SlotsFit
  <2> QED BY <1>1, <1>4, <2>1, <2>2
<1>9. InodesAre(h, is \cup {<<b, 0>>})
  <2> DEFINE x0 == <<b, 0>>
  <2>1. x0 \in SlotsIn(b)
    BY BlocksType, SlotsInFacts
  <2>2. \A x \in SlotsIn(b) : x \notin DOMAIN g.slots /\ (h.slots[x] = "inode" <=> x = x0)
    BY <1>8
  <2> HIDE DEF x0
  <2>3. InodesAre(h, is \cup {x0})
    BY <1>1, <2>1, <2>2 DEF InodesAre
  <2> QED BY <2>3 DEF x0
<1> QED BY <1>5, <1>7, <1>9

(* A slot block is given back with its last inode. *)
LEMMA SlotBlockFreedKept ==
  ASSUME NEW g, Good(g), SlotsFit(g), NEW own, OwnedBy(g, own), NEW is, InodesAre(g, is),
         NEW b \in Blocks, Is2(g, b), NEW s \in 0 .. Slots - 1, NEW h, SlotBlockFreed(g, h, b, s)
  PROVE  SlotsFit(h) /\ OwnedBy(h, own) /\ InodesAre(h, is \ {<<b, s>>})
<1>1. /\ Good(h) /\ StateOf(h, b) \in Unheld
      /\ \A t \in 0 .. Slots - 1 : t # s => SlotsOf(g, b)[t] = "free"
      /\ \A x \in Blocks \ {b} : HeldAlike(g, h, x)
      /\ DOMAIN h.slots = DOMAIN g.slots \ SlotsIn(b)
      /\ \A x \in DOMAIN g.slots \ SlotsIn(b) : h.slots[x] = g.slots[x]
      /\ h.inoHint = IF g.inoHint = b THEN 0 ELSE g.inoHint
  BY Zenon DEF SlotBlockFreed
<1>2. /\ g \in Group /\ Tree(g) /\ h \in Group /\ Tree(h)
  BY <1>1 DEF Good
<1>3. FullKept(g, h, b)
  BY <1>1, HeldFacts DEF FullKept
<1>4. StateOf(g, b) # "full" /\ StateOf(h, b) # "full" /\ ~Is2(h, b)
  BY <1>1, <1>2, StateTypes DEF Unheld
<1>5. OwnedBy(h, own)
  BY <1>3, <1>4, KeptOwned
<1>6. SlotsFit(h)
  <2>1. \A x \in Blocks, t \in 0 .. Slots - 1 : <<x, t>> \in DOMAIN h.slots <=> Is2(h, x)
    <3> TAKE x \in Blocks, t \in 0 .. Slots - 1
    <3>1. CASE x = b
      BY <1>1, <1>4, <3>1, SlotsInFacts
    <3>2. CASE x # b
      <4>1. <<x, t>> \in DOMAIN g.slots <=> Is2(g, x)
        BY Zenon DEF SlotsFit
      <4>2. Is2(g, x) <=> Is2(h, x)
        BY <1>3, <3>2 DEF FullKept, SlotAlike
      <4>3. <<x, t>> \notin SlotsIn(b)
        BY <3>2, OtherBlocksSlot
      <4> QED BY <1>1, <4>1, <4>2, <4>3, Zenon
    <3> QED BY <3>1, <3>2
  <2>2. ASSUME NEW x \in Blocks, NEW t \in 0 .. Slots - 1, Is2(h, x)
        PROVE  h.slots[<<x, t>>] = "inode" <=> SlotsOf(h, x)[t] = "full"
    <3>1. x # b
      BY <1>4, <2>2
    <3>2. Is2(g, x) /\ SlotsOf(h, x) = SlotsOf(g, x)
      BY <1>3, <2>2, <3>1 DEF FullKept, SlotAlike
    <3>3. <<x, t>> \in DOMAIN g.slots /\ (g.slots[<<x, t>>] = "inode" <=> SlotsOf(g, x)[t] = "full")
      BY <3>2, Zenon DEF SlotsFit
    <3>4. <<x, t>> \notin SlotsIn(b)
      BY <3>1, OtherBlocksSlot
    <3>5. h.slots[<<x, t>>] = g.slots[<<x, t>>]
      BY <1>1, <3>3, <3>4, Zenon
    <3> QED BY <3>2, <3>3, <3>5
  <2>3. h.inoHint # 0 => Is2(h, h.inoHint)
    <3>1. g.inoHint \in Blocks
      BY <1>2, GroupFacts
    <3> QED BY <1>1, <1>3, <3>1 DEF FullKept, SlotAlike, SlotsFit
  <2> QED BY <2>1, <2>2, <2>3 DEF SlotsFit
<1>7. \A x \in SlotsIn(b) : g.slots[x] = "inode" => x = <<b, s>>
  <2> TAKE x \in SlotsIn(b)
  <2>1. PICK t \in 0 .. Slots - 1 : x = <<b, t>>
    BY DEF SlotsIn
  <2>2. g.slots[<<b, t>>] = "inode" <=> SlotsOf(g, b)[t] = "full"
    BY Zenon DEF SlotsFit
  <2> QED BY <1>1, <2>1, <2>2
<1>8. InodesAre(h, is \ {<<b, s>>})
  <2> DEFINE x0 == <<b, s>>
  <2>1. x0 \in SlotsIn(b)
    BY SlotsInFacts
  <2>2. \A x \in SlotsIn(b) : g.slots[x] = "inode" => x = x0
    BY <1>7
  <2> HIDE DEF x0
  <2>3. InodesAre(h, is \ {x0})
    BY <1>1, <2>1, <2>2 DEF InodesAre
  <2> QED BY <2>3 DEF x0
<1> QED BY <1>5, <1>6, <1>8

-----------------------------------------------------------------------------
(* mkfs *)

(* Whole cells, in a group none of whose cells is refined. *)
LEMMA FlatCount ==
  ASSUME NEW g, \A b \in Blocks : ~Is0(g, b), NEW S, NEW T, NEW n, BlocksOf(S, T, n), NEW X,
         \A c \in Cells : g.rt[c] \in X <=> c \in S
  PROVE  InState(g, X) = T /\ Cardinality(InState(g, X)) = n
<1>1. \A b \in Blocks : StateOf(g, b) = g.rt[CellOf(b)] /\ CellOf(b) \in Cells
  BY Unfolded, OfFacts
<1>2. \A b \in Blocks : StateOf(g, b) \in X <=> b \in T
  BY <1>1 DEF BlocksOf
<1>3. InState(g, X) = T
  BY <1>2 DEF InState, BlocksOf
<1> QED BY <1>3 DEF BlocksOf

LEMMA FlatEmpty ==
  ASSUME NEW g, \A b \in Blocks : ~Is0(g, b), NEW X, \A c \in Cells : g.rt[c] \notin X
  PROVE  InState(g, X) = {} /\ Cardinality(InState(g, X)) = 0
<1>1. \A b \in Blocks : StateOf(g, b) = g.rt[CellOf(b)] /\ CellOf(b) \in Cells
  BY Unfolded, OfFacts
<1>2. InState(g, X) = {}
  BY <1>1 DEF InState
<1> QED BY <1>2, FS_EmptySet

LEMMA NewGroupFacts ==
  /\ NewGroup \in Group
  /\ \A c \in Cells : NewGroup.rt[c] = IF c = 0 THEN "rsvd" ELSE "free"
  /\ DOMAIN NewGroup.recs = {} /\ DOMAIN NewGroup.slots = {} /\ NewGroup.arena = 0 /\ NewGroup.inoHint = 0
  /\ NewGroup.free = (CellCount - 1) * CellBlocks /\ NewGroup.rsvd = CellBlocks /\ NewGroup.full = 0
<1>1. [c \in Cells |-> IF c = 0 THEN "rsvd" ELSE "free"] \in [Cells -> States]
  BY DEF States
<1>2. [c \in Cells |-> NoRef] \in [Cells -> Refs]
  BY NoRefType
<1>3. [r \in {} |-> ZeroRecord] \in RecMaps
  <2>1. [r \in {} |-> ZeroRecord] \in [{} -> Rec] /\ {} \in SUBSET Refs
    OBVIOUS
  <2> QED BY <2>1 DEF RecMaps
<1>4. [x \in {} |-> "zero"] \in SlotMaps
  <2>1. [x \in {} |-> "zero"] \in [{} -> {"zero", "inode"}] /\ {} \in SUBSET SlotPlaces
    OBVIOUS
  <2> QED BY <2>1 DEF SlotMaps
<1>5. 0 \in Blocks /\ 0 \in Cells /\ (CellCount - 1) * CellBlocks \in Int /\ CellBlocks \in Int
  BY BlocksType, Sizes2
<1>6. NewGroup \in Group
  BY <1>1, <1>2, <1>3, <1>4, <1>5 DEF NewGroup, Group
<1>7. \A c \in Cells : NewGroup.rt[c] = IF c = 0 THEN "rsvd" ELSE "free"
  BY DEF NewGroup
<1> QED BY <1>6, <1>7 DEF NewGroup

LEMMA NewGroupGood == Good(NewGroup) /\ Loose(NewGroup) = {}
<1> DEFINE g == NewGroup
<1>1. /\ g \in Group
      /\ \A c \in Cells : g.rt[c] = IF c = 0 THEN "rsvd" ELSE "free"
      /\ DOMAIN g.recs = {} /\ g.arena = 0
      /\ g.free = (CellCount - 1) * CellBlocks /\ g.rsvd = CellBlocks /\ g.full = 0
  BY NewGroupFacts
<1> HIDE DEF g
<1>2. Tree(g)
  <2> DEFINE home == [r \in {} |-> r]
  <2>1. home \in [DOMAIN g.recs -> Places]
    BY <1>1
  <2>2. Downward(g, home) /\ Upward(g, home) /\ InTables(g) /\ SlotBlocksPadded(g, home)
    BY <1>1 DEF Downward, Upward, InTables, SlotBlocksPadded
  <2>3. ArenaSound(g)
    BY <1>1, BlocksType DEF ArenaSound, Arena
  <2> QED BY <2>1, <2>2, <2>3 DEF Tree, TreeBy
<1>3. \A b \in Blocks : ~Is0(g, b)
  BY <1>1, OfFacts DEF Is0
<1>4. Cardinality(InState(g, {"rsvd"})) = CellBlocks
  <2>1. BlocksOf({0}, 0 * CellBlocks .. 0 * CellBlocks + CellBlocks - 1, CellBlocks)
    BY BlocksType, BlocksOfCell
  <2>2. \A c \in Cells : g.rt[c] \in {"rsvd"} <=> c \in {0}
    BY <1>1
  <2> QED BY <1>3, <2>1, <2>2, FlatCount
<1>5. Cardinality(InState(g, {"full", "refined"})) = 0
  <2>1. \A c \in Cells : g.rt[c] \notin {"full", "refined"}
    BY <1>1
  <2> QED BY <1>3, <2>1, FlatEmpty
<1>6. Cardinality(InState(g, {"free"})) = (CellCount - 1) * CellBlocks
  <2>1. CASE CellCount = 1
    <3>1. \A c \in Cells : g.rt[c] \notin {"free"}
      BY <1>1, <2>1 DEF Cells
    <3>2. Cardinality(InState(g, {"free"})) = 0
      BY <1>3, <3>1, FlatEmpty
    <3> QED BY <2>1, <3>2, Sizes2
  <2>2. CASE CellCount # 1
    <3> DEFINE k == CellCount - 1
               S == 1 .. 1 + k - 1
               T == 1 * CellBlocks .. 1 * CellBlocks + k * CellBlocks - 1
    <3>1. 1 \in Cells /\ k \in Nat \ {0} /\ 1 + k <= CellCount
      BY <2>2, Sizes2 DEF Cells
    <3>2. \A c \in Cells : g.rt[c] \in {"free"} <=> c \in S
      BY <1>1, Sizes2 DEF Cells
    <3> HIDE DEF k
    <3>3. BlocksOf(S, T, k * CellBlocks)
      BY <3>1, BlocksOfRun
    <3> HIDE DEF S, T
    <3>4. Cardinality(InState(g, {"free"})) = k * CellBlocks
      BY <1>3, <3>2, <3>3, FlatCount
    <3> QED BY <3>4 DEF k
  <2> QED BY <2>1, <2>2
<1>7. Balanced(g)
  BY <1>1, <1>4, <1>5, <1>6 DEF Balanced
<1>8. Loose(g) = {}
  BY <1>1 DEF Loose
<1> QED BY <1>1, <1>2, <1>7, <1>8 DEF Good, g

(* The k-th record of the arena that mkfs makes. *)
TblRec(k) == <<CellBlocks + k \div RecordsPerBlock, k % RecordsPerBlock>>

LEMMA TblRecFacts ==
  ASSUME CellCount > 3
  PROVE  /\ \A k \in 0 .. 2 : TblRec(k) \in Refs /\ CellOf(TblRec(k)[1]) = 1
         /\ TblRec(0) # TblRec(1) /\ TblRec(0) # TblRec(2) /\ TblRec(1) # TblRec(2)
<1>1. RecordsPerBlock \in Nat \ {0}
  BY BlocksType
<1>2. \A k \in 0 .. 2 : /\ k \div RecordsPerBlock \in Nat /\ (k % RecordsPerBlock) \in 0 .. RecordsPerBlock - 1
                        /\ k = RecordsPerBlock * (k \div RecordsPerBlock) + (k % RecordsPerBlock)
  <2> TAKE k \in 0 .. 2
  <2>1. k \in Nat
    OBVIOUS
  <2> QED BY <1>1, <2>1, DivFacts
<1>3. \A q, t \in Nat : RecordsPerBlock * q + t <= 2 => q <= 2
  <2> TAKE q, t \in Nat
  <2> HAVE RecordsPerBlock * q + t <= 2
  <2>1. RecordsPerBlock * q = q + (RecordsPerBlock - 1) * q /\ (RecordsPerBlock - 1) * q \in Nat
    BY <1>1
  <2> QED BY <2>1
<1>4. \A k \in 0 .. 2 : k \div RecordsPerBlock \in 0 .. 2
  <2> TAKE k \in 0 .. 2
  <2> DEFINE q == k \div RecordsPerBlock
             t == k % RecordsPerBlock
  <2>1. q \in Nat /\ t \in Nat /\ k = RecordsPerBlock * q + t
    BY <1>1, <1>2
  <2> HIDE DEF q, t
  <2>2. q <= 2
    BY <1>3, <2>1
  <2> QED BY <2>1, <2>2 DEF q
<1>5. \A q \in 0 .. 2 : CellBlocks + q \in Blocks /\ CellOf(CellBlocks + q) = 1
  <2> TAKE q \in 0 .. 2
  <2>1. q \in 0 .. CellBlocks - 1 /\ CellBlocks \in Nat \ {0}
    BY Sizes2
  <2>2. CellBlocks * 1 + q \in Nat /\ CellBlocks * 1 = CellBlocks
    BY <2>1
  <2>3. (CellBlocks * 1 + q) \div CellBlocks = 1
    BY <2>1, <2>2, DivIs
  <2>4. CellBlocks + q <= CellCount * CellBlocks - 1
    <3>1. CellCount * CellBlocks = 2 * CellBlocks + (CellCount - 2) * CellBlocks /\ (CellCount - 2) * CellBlocks \in Nat
      BY <2>1, Sizes2
    <3> QED BY <2>1, <3>1, Sizes2
  <2> QED BY <2>2, <2>3, <2>4, Sizes2 DEF Blocks, CellOf
<1>6. \A k \in 0 .. 2 : TblRec(k) \in Refs /\ CellOf(TblRec(k)[1]) = 1
  BY <1>2, <1>4, <1>5 DEF TblRec, Refs
<1>7. \A k, l \in 0 .. 2 : TblRec(k) = TblRec(l) => k = l
  <2> TAKE k, l \in 0 .. 2
  <2> HAVE TblRec(k) = TblRec(l)
  <2> DEFINE q == k \div RecordsPerBlock
             p == l \div RecordsPerBlock
  <2>1. q \in Nat /\ p \in Nat
    BY <1>2
  <2>2. CellBlocks + q = CellBlocks + p /\ (k % RecordsPerBlock) = (l % RecordsPerBlock)
    BY DEF TblRec
  <2>3. k = RecordsPerBlock * q + (k % RecordsPerBlock) /\ l = RecordsPerBlock * p + (l % RecordsPerBlock)
    BY <1>2
  <2> HIDE DEF q, p
  <2>4. q = p
    BY <2>1, <2>2, Sizes2
  <2> QED BY <2>2, <2>3, <2>4
<1> QED BY <1>6, <1>7

(* A record with one child that is not free. *)
OneKid(st, ref) ==
  [st |-> [i \in Kids |-> IF i = 0 THEN st ELSE "free"],
   ref |-> [i \in Kids |-> IF i = 0 THEN ref ELSE NoRef]]

LEMMA OneKidFacts ==
  ASSUME NEW st \in {"full", "refined"}, NEW ref \in Refs
  PROVE  /\ OneKid(st, ref) \in Rec /\ ~AllFree(OneKid(st, ref))
         /\ OneKid(st, ref).st[0] = st /\ OneKid(st, ref).ref[0] = ref
         /\ \A i \in Kids : i # 0 => OneKid(st, ref).st[i] = "free"
<1>1. 0 \in Kids
  BY BlocksType
<1>2. \A i \in Kids : OneKid(st, ref).st[i] = IF i = 0 THEN st ELSE "free"
  BY DEF OneKid
<1>3. OneKid(st, ref) \in Rec
  BY NoRefType DEF OneKid, Rec
<1>4. OneKid(st, ref).ref[0] = ref
  BY <1>1 DEF OneKid
<1> QED BY <1>1, <1>2, <1>3, <1>4 DEF AllFree

LastCell == CellCount - 1
MadeRecs(g) ==
  /\ DOMAIN g.recs = {TblRec(0), TblRec(1), TblRec(2)}
  /\ g.recs[TblRec(0)] = OneKid("refined", TblRec(1))
  /\ g.recs[TblRec(1)] = OneKid("refined", TblRec(2))
  /\ g.recs[TblRec(2)] = OneKid("full", NoRef)

Made(g) ==
  /\ g \in Group
  /\ \A c \in Cells : g.rt[c] = IF c \in {0, 1, LastCell} THEN "rsvd" ELSE IF c = 2 THEN "refined" ELSE "free"
  /\ g.ref[2] = TblRec(0) /\ MadeRecs(g)
  /\ g.slots = [x \in SlotsIn(RootBlock) |-> IF x[2] = 0 THEN "inode" ELSE "zero"]
  /\ g.arena = CellBlocks /\ g.inoHint = RootBlock
  /\ g.free = (CellCount - 3) * CellBlocks - 1 /\ g.rsvd = 3 * CellBlocks /\ g.full = 1

LEMMA ThreeCells ==
  ASSUME CellCount > 3
  PROVE  Cardinality({0, 1, LastCell}) = 3 /\ LastCell \in Cells /\ LastCell > 2 /\ 2 \in Cells /\ 1 \in Cells
<1>1. LastCell \in Nat /\ LastCell > 2
  BY Sizes2 DEF LastCell
<1>2. IsFiniteSet({0}) /\ Cardinality({0}) = 1
  BY FS_Singleton
<1>3. IsFiniteSet({0} \cup {1}) /\ Cardinality({0} \cup {1}) = 2
  BY <1>2, FS_AddElement
<1>4. Cardinality(({0} \cup {1}) \cup {LastCell}) = 3
  BY <1>1, <1>3, FS_AddElement
<1>5. ({0} \cup {1}) \cup {LastCell} = {0, 1, LastCell}
  OBVIOUS
<1> QED BY <1>1, <1>4, <1>5, Sizes2 DEF Cells, LastCell

LEMMA FirstGroupMade ==
  ASSUME CellCount > 3
  PROVE  Made(FirstGroup)
<1> DEFINE g == FirstGroup
           rt == [c \in Cells |-> IF c \in {0, 1, LastCell} THEN "rsvd" ELSE IF c = 2 THEN "refined" ELSE "free"]
           ref == [c \in Cells |-> IF c = 2 THEN TblRec(0) ELSE NoRef]
           D == {TblRec(0), TblRec(1), TblRec(2)}
           recs == [r \in D |-> IF r = TblRec(0) THEN OneKid("refined", TblRec(1))
                                ELSE IF r = TblRec(1) THEN OneKid("refined", TblRec(2))
                                ELSE OneKid("full", NoRef)]
           slots == [x \in SlotsIn(RootBlock) |-> IF x[2] = 0 THEN "inode" ELSE "zero"]
           x == (CellCount - 3) * CellBlocks - 1
           y == 3 * CellBlocks
<1>1. g = [rt |-> rt, ref |-> ref, recs |-> recs, slots |-> slots, arena |-> CellBlocks, inoHint |-> RootBlock,
           free |-> x, rsvd |-> y, full |-> 1, tblHint |-> 0, cellHint |-> 0]
  <2>1. CellCount - 1 > 2 /\ Cardinality({0, 1, CellCount - 1}) = 3
    BY ThreeCells, Sizes2 DEF LastCell
  <2>2. (CASE CellCount - 1 > 2 -> {0, 1, CellCount - 1} [] OTHER -> {0, 1}) = {0, 1, LastCell}
    BY <2>1 DEF LastCell
  <2>3. Cardinality({0, 1, LastCell}) = 3
    BY ThreeCells
  <2> QED BY <2>2, <2>3 DEF FirstGroup, TblRec, OneKid
<1> HIDE DEF g
<1>2. TblRec(0) \in Refs /\ TblRec(1) \in Refs /\ TblRec(2) \in Refs
      /\ TblRec(0) # TblRec(1) /\ TblRec(0) # TblRec(2) /\ TblRec(1) # TblRec(2)
  BY TblRecFacts
<1>3. recs \in RecMaps
  <2>1. OneKid("refined", TblRec(1)) \in Rec /\ OneKid("refined", TblRec(2)) \in Rec /\ OneKid("full", NoRef) \in Rec
    BY <1>2, OneKidFacts, NoRefType
  <2>2. recs \in [D -> Rec]
    BY <2>1
  <2>3. D \in SUBSET Refs
    BY <1>2
  <2> HIDE DEF D, recs
  <2> QED BY <2>2, <2>3 DEF RecMaps
<1>4. CellBlocks \in Blocks /\ RootBlock \in Blocks /\ 0 \in Blocks /\ 0 \in Cells
  <2>1. 1 \in Cells /\ 2 \in Cells
    BY ThreeCells
  <2>2. 1 * CellBlocks \in Blocks /\ 2 * CellBlocks \in Blocks
    BY <2>1, BlocksType
  <2> QED BY <2>2, BlocksType, Sizes2 DEF RootBlock
<1>5. slots \in SlotMaps
  <2>1. slots \in [SlotsIn(RootBlock) -> {"zero", "inode"}]
    OBVIOUS
  <2>2. SlotsIn(RootBlock) \in SUBSET SlotPlaces
    BY <1>4 DEF SlotsIn, SlotPlaces
  <2> HIDE DEF slots
  <2> QED BY <2>1, <2>2 DEF SlotMaps
<1>6. rt \in [Cells -> States] /\ ref \in [Cells -> Refs]
  BY <1>2, NoRefType DEF States
<1>7. x \in Int /\ y \in Int /\ 1 \in Int
  BY Sizes2
<1>8. \A c \in Cells : g.rt[c] = IF c \in {0, 1, LastCell} THEN "rsvd" ELSE IF c = 2 THEN "refined" ELSE "free"
  BY <1>1
<1>9. g.ref[2] = TblRec(0)
  BY <1>1, ThreeCells
<1>10. MadeRecs(g)
  <2>1. g.recs = recs
    BY <1>1
  <2> QED BY <1>2, <2>1 DEF MadeRecs
<1>11. g.slots = slots /\ g.arena = CellBlocks /\ g.inoHint = RootBlock /\ g.free = x /\ g.rsvd = y /\ g.full = 1
  BY <1>1
<1>12. g \in Group
  <2> HIDE DEF rt, ref, recs, slots, x, y
  <2> QED BY <1>1, <1>3, <1>4, <1>5, <1>6, <1>7 DEF Group
<1> QED BY <1>8, <1>9, <1>10, <1>11, <1>12 DEF Made, g

LEMMA RootFacts ==
  ASSUME CellCount > 3
  PROVE  /\ RootBlock \in Blocks /\ RootBlock # 0
         /\ CellOf(RootBlock) = 2 /\ KidOf(RootBlock) = 0 /\ LeafOf(RootBlock) = 0
         /\ \A b \in Blocks : CellOf(b) = 2 /\ KidOf(b) = 0 /\ LeafOf(b) = 0 => b = RootBlock
<1>1. 2 \in Cells /\ 0 \in Kids
  BY ThreeCells, BlocksType
<1>2. Blk(2, 0, 0) = RootBlock /\ RootBlock # 0
  BY Sizes2 DEF Blk, RootBlock
<1>3. RootBlock \in Blocks /\ CellOf(RootBlock) = 2 /\ KidOf(RootBlock) = 0 /\ LeafOf(RootBlock) = 0
  BY <1>1, <1>2, BlkFacts
<1>4. \A b \in Blocks : CellOf(b) = 2 /\ KidOf(b) = 0 /\ LeafOf(b) = 0 => b = RootBlock
  BY <1>2, OfFacts
<1> QED BY <1>2, <1>3, <1>4

LEMMA MadeTree ==
  ASSUME CellCount > 3, NEW g, Made(g)
  PROVE  Tree(g)
<1> DEFINE D == {TblRec(0), TblRec(1), TblRec(2)}
           home == [r \in D |-> IF r = TblRec(0) THEN <<0, 2, 0, 0>>
                                ELSE IF r = TblRec(1) THEN <<1, 2, 0, 0>> ELSE <<2, 2, 0, 0>>]
<1>1. /\ 2 \in Cells /\ 1 \in Cells /\ 0 \in Cells /\ 0 \in Kids /\ LastCell > 2 /\ 1 # 2
      /\ TblRec(0) # TblRec(1) /\ TblRec(0) # TblRec(2) /\ TblRec(1) # TblRec(2)
  BY ThreeCells, BlocksType, TblRecFacts
<1>2. DOMAIN g.recs = D
  BY DEF Made, MadeRecs
<1>3. home[TblRec(0)] = <<0, 2, 0, 0>> /\ home[TblRec(1)] = <<1, 2, 0, 0>> /\ home[TblRec(2)] = <<2, 2, 0, 0>>
  BY <1>1
<1>4. home \in [D -> Places]
  BY <1>1 DEF Places
<1>5. /\ \A i \in Kids : g.recs[TblRec(0)].st[i] = "refined" => i = 0
      /\ \A i \in Kids : g.recs[TblRec(1)].st[i] = "refined" => i = 0
      /\ \A i \in Kids : i # 0 => g.recs[TblRec(2)].st[i] = "free"
      /\ g.recs[TblRec(2)].st[0] = "full"
      /\ g.recs[TblRec(0)].st[0] = "refined" /\ g.recs[TblRec(0)].ref[0] = TblRec(1)
      /\ g.recs[TblRec(1)].st[0] = "refined" /\ g.recs[TblRec(1)].ref[0] = TblRec(2)
  BY TblRecFacts, OneKidFacts, NoRefType DEF Made, MadeRecs
<1>6. /\ g.ref[2] = TblRec(0) /\ g.rt[2] = "refined" /\ g.rt[0] = "rsvd" /\ g.rt[1] = "rsvd"
      /\ \A c \in Cells : g.rt[c] = "refined" => c = 2
  BY <1>1 DEF Made
<1> HIDE DEF home
<1>7. Downward(g, home)
  <2>1. \A c \in Cells : g.rt[c] = "refined" => g.ref[c] \in DOMAIN g.recs /\ home[g.ref[c]] = <<0, c, 0, 0>>
    BY <1>2, <1>3, <1>6
  <2>2. ASSUME NEW r \in DOMAIN g.recs, NEW i \in Kids, g.recs[r].st[i] = "refined"
        PROVE  Inner(home[r]) /\ g.recs[r].ref[i] \in DOMAIN g.recs /\ home[g.recs[r].ref[i]] = Below(home[r], i)
    <3>1. CASE r = TblRec(0)
      BY <1>2, <1>3, <1>5, <2>2, <3>1 DEF Inner, Below
    <3>2. CASE r = TblRec(1)
      BY <1>2, <1>3, <1>5, <2>2, <3>2 DEF Inner, Below
    <3>3. CASE r = TblRec(2)
      BY <1>5, <2>2, <3>3
    <3> QED BY <1>2, <3>1, <3>2, <3>3
  <2> QED BY <2>1, <2>2 DEF Downward
<1>8. Upward(g, home)
  <2>1. \A r \in DOMAIN g.recs : home[r][1] = 0 => g.rt[home[r][2]] = "refined" /\ g.ref[home[r][2]] = r
    BY <1>2, <1>3, <1>6
  <2>2. ASSUME NEW r \in DOMAIN g.recs, home[r][1] # 0
        PROVE  \E p \in DOMAIN g.recs : \E i \in Kids : Refers(g, p, i, r)
    <3>1. Refers(g, TblRec(0), 0, TblRec(1)) /\ Refers(g, TblRec(1), 0, TblRec(2))
      BY <1>5 DEF Refers
    <3>2. r = TblRec(1) \/ r = TblRec(2)
      BY <1>2, <1>3, <2>2
    <3>3. TblRec(0) \in DOMAIN g.recs /\ TblRec(1) \in DOMAIN g.recs
      BY <1>2
    <3> QED BY <1>1, <3>1, <3>2, <3>3
  <2> QED BY <2>1, <2>2, Zenon DEF Upward
<1>9. InTables(g)
  <2>1. \A r \in D : CellOf(r[1]) = 1
    BY TblRecFacts
  <2> QED BY <1>2, <1>6, <2>1 DEF InTables
<1>10. SlotBlocksPadded(g, home)
  <2>1. \A s \in Kids : s >= Slots => s # 0
    BY BlocksType, SlotsAssumption
  <2>2. \A r \in DOMAIN g.recs : ~Inner(home[r]) => r = TblRec(2)
    BY <1>2, <1>3 DEF Inner
  <2> QED BY <1>5, <2>1, <2>2 DEF SlotBlocksPadded
<1>11. ArenaSound(g)
  <2>1. BlocksOf({1}, 1 * CellBlocks .. 1 * CellBlocks + CellBlocks - 1, CellBlocks)
    BY <1>1, BlocksOfCell
  <2>2. 1 * CellBlocks = CellBlocks /\ CellBlocks # 0
    BY Sizes2
  <2>3. g.arena = CellBlocks
    BY DEF Made
  <2>4. Arena(g) = 1 * CellBlocks .. 1 * CellBlocks + CellBlocks - 1
    BY <2>2, <2>3 DEF Arena
  <2>5. \A b \in Arena(g) : b \in Blocks /\ CellOf(b) = 1
    BY <2>1, <2>4 DEF BlocksOf
  <2> QED BY <1>6, <2>5 DEF ArenaSound
<1> QED BY <1>2, <1>4, <1>7, <1>8, <1>9, <1>10, <1>11 DEF Tree, TreeBy

(* What mkfs has made of the blocks. *)
LEMMA MadeViews ==
  ASSUME CellCount > 3, NEW g, Made(g), NEW b \in Blocks
  PROVE  /\ CellOf(b) # 2 => ~Is0(g, b) /\ StateOf(g, b) = g.rt[CellOf(b)] /\ ~Is2(g, b)
         /\ CellOf(b) = 2 /\ b # RootBlock => StateOf(g, b) = "free" /\ ~Is2(g, b)
         /\ b = RootBlock => Is2(g, b) /\ SlotsOf(g, b) = OneKid("full", NoRef).st
<1>1. CellOf(b) \in Cells /\ KidOf(b) \in Kids /\ LeafOf(b) \in Kids
  BY OfFacts
<1>2. \A c \in Cells : g.rt[c] = "refined" <=> c = 2
  BY ThreeCells DEF Made
<1>3. Is0(g, b) <=> CellOf(b) = 2
  BY <1>1, <1>2 DEF Is0
<1>4. CASE CellOf(b) # 2
  BY <1>3, <1>4, RootFacts, Unfolded DEF Is2, Is1
<1>5. CASE CellOf(b) = 2
  <2>1. R0(g, b) = TblRec(0)
    BY <1>5 DEF R0, Made
  <2>2. /\ g.recs[TblRec(0)] = OneKid("refined", TblRec(1)) /\ g.recs[TblRec(1)] = OneKid("refined", TblRec(2))
        /\ g.recs[TblRec(2)] = OneKid("full", NoRef)
    BY DEF Made, MadeRecs
  <2>3. TblRec(1) \in Refs /\ TblRec(2) \in Refs
    BY TblRecFacts
  <2>4. CASE KidOf(b) # 0
    <3>1. g.recs[R0(g, b)].st[KidOf(b)] = "free"
      BY <1>1, <2>1, <2>2, <2>3, <2>4, OneKidFacts
    <3>2. b # RootBlock
      BY <2>4, RootFacts
    <3> QED BY <1>3, <1>5, <3>1, <3>2, Unfolded DEF Is1, Is2
  <2>5. CASE KidOf(b) = 0
    <3>1. g.recs[R0(g, b)].st[KidOf(b)] = "refined" /\ g.recs[R0(g, b)].ref[KidOf(b)] = TblRec(1)
      BY <2>1, <2>2, <2>3, <2>5, OneKidFacts
    <3>2. Is1(g, b) /\ R1(g, b) = TblRec(1)
      BY <1>3, <1>5, <3>1 DEF Is1, R1
    <3>3. CASE LeafOf(b) # 0
      <4>1. g.recs[R1(g, b)].st[LeafOf(b)] = "free"
        BY <1>1, <2>2, <2>3, <3>2, <3>3, OneKidFacts
      <4>2. b # RootBlock
        BY <3>3, RootFacts
      <4> QED BY <1>5, <3>2, <4>1, <4>2, Unfolded DEF Is2
    <3>4. CASE LeafOf(b) = 0
      <4>1. g.recs[R1(g, b)].st[LeafOf(b)] = "refined" /\ g.recs[R1(g, b)].ref[LeafOf(b)] = TblRec(2)
        BY <2>2, <2>3, <3>2, <3>4, OneKidFacts
      <4>2. Is2(g, b) /\ R2(g, b) = TblRec(2)
        BY <3>2, <4>1 DEF Is2, R2
      <4>3. b = RootBlock
        BY <1>5, <2>5, <3>4, RootFacts
      <4>4. SlotsOf(g, b) = OneKid("full", NoRef).st
        BY <2>2, <4>2 DEF SlotsOf
      <4> QED BY <1>5, <4>2, <4>3, <4>4
    <3> QED BY <3>3, <3>4
  <2> QED BY <2>4, <2>5
<1> QED BY <1>4, <1>5

(* The group of mkfs before the root directory's slot block: cell 2 free.  *)
LEMMA MadeCounts ==
  ASSUME CellCount > 3, NEW g, Made(g)
  PROVE  Balanced(g)
<1> DEFINE flat == [rt |-> [c \in Cells |-> IF c \in {0, 1, LastCell} THEN "rsvd" ELSE "free"],
                    free |-> (CellCount - 3) * CellBlocks, rsvd |-> 3 * CellBlocks, full |-> 0]
<1>1. /\ \A c \in Cells : flat.rt[c] = IF c \in {0, 1, LastCell} THEN "rsvd" ELSE "free"
      /\ flat.free = (CellCount - 3) * CellBlocks /\ flat.rsvd = 3 * CellBlocks /\ flat.full = 0
  OBVIOUS
<1> HIDE DEF flat
<1>2. 2 \in Cells /\ 1 \in Cells /\ 0 \in Cells /\ LastCell \in Cells /\ LastCell > 2
  BY ThreeCells, BlocksType
<1>3. \A b \in Blocks : ~Is0(flat, b)
  BY <1>1, OfFacts DEF Is0
<1>4. Cardinality(InState(flat, {"rsvd"})) = 3 * CellBlocks
  <2> DEFINE A == 0 * CellBlocks .. 0 * CellBlocks + 2 * CellBlocks - 1
             B == LastCell * CellBlocks .. LastCell * CellBlocks + CellBlocks - 1
  <2>1. BlocksOf(0 .. 0 + 2 - 1, A, 2 * CellBlocks)
    <3> DEFINE k == 2
    <3>1. k \in Nat \ {0} /\ 0 + k <= CellCount
      BY Sizes2
    <3> HIDE DEF k
    <3>2. BlocksOf(0 .. 0 + k - 1, 0 * CellBlocks .. 0 * CellBlocks + k * CellBlocks - 1, k * CellBlocks)
      BY <1>2, <3>1, BlocksOfRun
    <3> QED BY <3>2 DEF k
  <2>2. BlocksOf({LastCell}, B, CellBlocks)
    BY <1>2, BlocksOfCell
  <2> HIDE DEF A, B
  <2>3. /\ A \subseteq Blocks /\ IsFiniteSet(A) /\ Cardinality(A) = 2 * CellBlocks
        /\ B \subseteq Blocks /\ IsFiniteSet(B) /\ Cardinality(B) = CellBlocks
        /\ \A b \in Blocks : b \in A <=> CellOf(b) \in {0, 1}
        /\ \A b \in Blocks : b \in B <=> CellOf(b) = LastCell
    <3>1. 0 .. 0 + 2 - 1 = {0, 1}
      OBVIOUS
    <3> QED BY <2>1, <2>2, <3>1 DEF BlocksOf
  <2>4. A \cap B = {}
    BY <1>2, <2>3
  <2>5. Cardinality(A \cup B) = 3 * CellBlocks /\ IsFiniteSet(A \cup B)
    <3>1. Cardinality(A \cup B) = Cardinality(A) + Cardinality(B) - Cardinality(A \cap B) /\ IsFiniteSet(A \cup B)
      BY <2>3, FS_Union
    <3> QED BY <2>3, <2>4, <3>1, FS_EmptySet, Sizes2
  <2>6. BlocksOf({0, 1, LastCell}, A \cup B, 3 * CellBlocks)
    BY <2>3, <2>5 DEF BlocksOf
  <2>7. \A c \in Cells : flat.rt[c] \in {"rsvd"} <=> c \in {0, 1, LastCell}
    BY <1>1
  <2> QED BY <1>3, <2>6, <2>7, FlatCount
<1>5. Cardinality(InState(flat, {"free"})) = (CellCount - 3) * CellBlocks
  <2> DEFINE k == CellCount - 3
             S == 2 .. 2 + k - 1
             T == 2 * CellBlocks .. 2 * CellBlocks + k * CellBlocks - 1
  <2>1. k \in Nat \ {0} /\ 2 + k <= CellCount
    BY Sizes2
  <2>2. \A c \in Cells : flat.rt[c] \in {"free"} <=> c \in S
    BY <1>1, Sizes2 DEF Cells, LastCell
  <2> HIDE DEF k
  <2>3. BlocksOf(S, T, k * CellBlocks)
    BY <1>2, <2>1, BlocksOfRun
  <2> HIDE DEF S, T
  <2>4. Cardinality(InState(flat, {"free"})) = k * CellBlocks
    BY <1>3, <2>2, <2>3, FlatCount
  <2> QED BY <2>4 DEF k
<1>6. Cardinality(InState(flat, {"full", "refined"})) = 0
  <2>1. \A c \in Cells : flat.rt[c] \notin {"full", "refined"}
    BY <1>1
  <2> QED BY <1>3, <2>1, FlatEmpty
<1>7. Moved(flat, g, {RootBlock}, 1, "free", "refined")
  <2>1. RootBlock \in Blocks /\ CellOf(RootBlock) = 2
    BY RootFacts
  <2>2. \A b \in Blocks : StateOf(flat, b) = flat.rt[CellOf(b)]
    BY <1>3, Unfolded
  <2>3. StateOf(flat, RootBlock) = "free"
    BY <1>1, <1>2, <2>1, <2>2
  <2>4. Is2(g, RootBlock) /\ g \in Group /\ Tree(g)
    BY <2>1, MadeViews, MadeTree DEF Made
  <2>5. StateOf(g, RootBlock) = "refined"
    BY <2>1, <2>4, StateTypes
  <2>6. \A b \in Blocks \ {RootBlock} : StateOf(g, b) = StateOf(flat, b)
    <3> TAKE b \in Blocks \ {RootBlock}
    <3>1. CellOf(b) \in Cells
      BY OfFacts
    <3>2. CASE CellOf(b) # 2
      <4>1. StateOf(g, b) = g.rt[CellOf(b)]
        BY <3>2, MadeViews
      <4> QED BY <1>1, <2>2, <3>1, <3>2, <4>1 DEF Made
    <3>3. CASE CellOf(b) = 2
      <4>1. StateOf(g, b) = "free"
        BY <3>3, MadeViews
      <4> QED BY <1>1, <1>2, <2>2, <3>3, <4>1
    <3> QED BY <3>2, <3>3
  <2> QED BY <2>1, <2>3, <2>5, <2>6, FS_Singleton DEF Moved
<1>8. Cardinality(InState(g, {"free"})) = (CellCount - 3) * CellBlocks - 1
  BY <1>5, <1>7, MovedOut
<1>9. Cardinality(InState(g, {"full", "refined"})) = 0 + 1
  BY <1>6, <1>7, MovedIn
<1>10. Cardinality(InState(g, {"rsvd"})) = 3 * CellBlocks
  BY <1>4, <1>7, MovedPast
<1>11. g.free = (CellCount - 3) * CellBlocks - 1 /\ g.rsvd = 3 * CellBlocks /\ g.full = 1
  BY Zenon DEF Made
<1> QED BY <1>8, <1>9, <1>10, <1>11 DEF Balanced

LEMMA MadeGood ==
  ASSUME CellCount > 3, NEW g, Made(g)
  PROVE  /\ Good(g) /\ Loose(g) = {} /\ SlotsFit(g) /\ OwnedBy(g, {})
         /\ InodesAre(g, {<<RootBlock, 0>>})
<1>1. g \in Group /\ Good(g)
  BY MadeTree, MadeCounts DEF Good, Made
<1>2. Loose(g) = {}
  <2>1. /\ DOMAIN g.recs = {TblRec(0), TblRec(1), TblRec(2)}
        /\ g.recs[TblRec(0)] = OneKid("refined", TblRec(1)) /\ g.recs[TblRec(1)] = OneKid("refined", TblRec(2))
        /\ g.recs[TblRec(2)] = OneKid("full", NoRef)
    BY DEF Made, MadeRecs
  <2>2. ~AllFree(OneKid("refined", TblRec(1))) /\ ~AllFree(OneKid("refined", TblRec(2))) /\ ~AllFree(OneKid("full", NoRef))
    BY TblRecFacts, OneKidFacts, NoRefType
  <2> QED BY <2>1, <2>2 DEF Loose
<1>3. \A b \in Blocks : Is2(g, b) <=> b = RootBlock
  BY MadeViews
<1>4. /\ g.slots = [x \in SlotsIn(RootBlock) |-> IF x[2] = 0 THEN "inode" ELSE "zero"]
      /\ g.inoHint = RootBlock /\ RootBlock \in Blocks
  BY RootFacts DEF Made
<1>5. \A b \in Blocks, s \in 0 .. Slots - 1 : <<b, s>> \in SlotsIn(RootBlock) <=> b = RootBlock
  BY DEF SlotsIn
<1>6. SlotsFit(g)
  <2>1. \A b \in Blocks, s \in 0 .. Slots - 1 : <<b, s>> \in DOMAIN g.slots <=> Is2(g, b)
    BY <1>3, <1>4, <1>5
  <2>2. ASSUME NEW b \in Blocks, NEW s \in 0 .. Slots - 1, Is2(g, b)
        PROVE  g.slots[<<b, s>>] = "inode" <=> SlotsOf(g, b)[s] = "full"
    <3>1. b = RootBlock /\ <<b, s>> \in SlotsIn(RootBlock)
      BY <1>3, <1>5, <2>2
    <3>2. g.slots[<<b, s>>] = IF s = 0 THEN "inode" ELSE "zero"
      BY <1>4, <3>1
    <3>3. SlotsOf(g, b) = OneKid("full", NoRef).st /\ s \in Kids
      BY <3>1, MadeViews, BlocksType
    <3>4. OneKid("full", NoRef).st[0] = "full" /\ \A i \in Kids : i # 0 => OneKid("full", NoRef).st[i] = "free"
      BY OneKidFacts, NoRefType
    <3>5. SlotsOf(g, b)[s] = IF s = 0 THEN "full" ELSE "free"
      BY <3>3, <3>4
    <3> QED BY <3>2, <3>5
  <2>3. g.inoHint # 0 => Is2(g, g.inoHint)
    BY <1>3, <1>4
  <2> QED BY <2>1, <2>2, <2>3 DEF SlotsFit
<1>7. OwnedBy(g, {})
  <2>1. \A b \in Blocks : StateOf(g, b) # "full"
    <3> TAKE b \in Blocks
    <3>1. CellOf(b) \in Cells
      BY OfFacts
    <3>2. CASE CellOf(b) # 2
      BY <3>1, <3>2, MadeViews DEF Made
    <3>3. CASE CellOf(b) = 2 /\ b # RootBlock
      BY <3>3, MadeViews
    <3>4. CASE b = RootBlock
      <4>1. StateOf(g, b) = "refined"
        BY <1>1, <1>3, <3>4, StateTypes DEF Good
      <4> QED BY <4>1
    <3> QED BY <3>2, <3>3, <3>4
  <2> QED BY <2>1 DEF OwnedBy
<1>8. InodesAre(g, {<<RootBlock, 0>>})
  <2>1. \A x \in SlotsIn(RootBlock) : g.slots[x] = "inode" <=> x = <<RootBlock, 0>>
    BY <1>4 DEF SlotsIn
  <2>2. <<RootBlock, 0>> \in SlotsIn(RootBlock)
    BY BlocksType, SlotsInFacts
  <2>3. DOMAIN g.slots = SlotsIn(RootBlock)
    BY <1>4
  <2> QED BY <2>1, <2>2, <2>3 DEF InodesAre
<1> QED BY <1>1, <1>2, <1>6, <1>7, <1>8


LEMMA NewGroupInv ==
  SlotsFit(NewGroup) /\ OwnedBy(NewGroup, {}) /\ InodesAre(NewGroup, {})
<1> DEFINE g == NewGroup
<1>1. /\ \A c \in Cells : g.rt[c] = IF c = 0 THEN "rsvd" ELSE "free"
      /\ DOMAIN g.slots = {} /\ g.inoHint = 0
  BY NewGroupFacts
<1> HIDE DEF g
<1>2. \A b \in Blocks : ~Is0(g, b) /\ ~Is2(g, b)
  BY <1>1, OfFacts DEF Is0, Is1, Is2
<1>3. SlotsFit(g)
  BY <1>1, <1>2 DEF SlotsFit
<1>4. \A b \in Blocks : StateOf(g, b) # "full"
  <2> TAKE b \in Blocks
  <2>1. StateOf(g, b) = g.rt[CellOf(b)] /\ CellOf(b) \in Cells
    BY <1>2, Unfolded, OfFacts
  <2> QED BY <1>1, <2>1
<1>5. OwnedBy(g, {})
  BY <1>4 DEF OwnedBy
<1>6. InodesAre(g, {})
  BY <1>1 DEF InodesAre
<1> QED BY <1>3, <1>5, <1>6 DEF g

-----------------------------------------------------------------------------
(* The invariant *)

AllocInv ==
  /\ Good(ag) /\ Loose(ag) = {}
  /\ SlotsFit(ag) /\ OwnedBy(ag, owned) /\ InodesAre(ag, inodes)

LEMMA InitInv == Init => AllocInv
<1> SUFFICES ASSUME Init PROVE AllocInv
  OBVIOUS
<1>1. CASE ag = NewGroup /\ inodes = {}
  BY <1>1, NewGroupGood, NewGroupInv DEF Init, AllocInv
<1>2. CASE CellCount > 3 /\ ag = FirstGroup /\ inodes = {<<RootBlock, 0>>}
  <2>1. Made(ag)
    BY <1>2, FirstGroupMade
  <2>2. Good(ag) /\ Loose(ag) = {} /\ SlotsFit(ag) /\ OwnedBy(ag, {}) /\ InodesAre(ag, inodes)
    BY <1>2, <2>1, MadeGood
  <2> QED BY <2>2 DEF Init, AllocInv
<1> QED BY <1>1, <1>2 DEF Init

(* Only the hints of the group have moved. *)
LEMMA HintsMoved ==
  ASSUME AllocInv, NEW t \in Blocks, NEW c \in Cells,
         ag' = [ag EXCEPT !.tblHint = t, !.cellHint = c], UNCHANGED <<owned, inodes>>
  PROVE  AllocInv'
<1> DEFINE h == [ag EXCEPT !.tblHint = t, !.cellHint = c]
<1>1. Good(ag) /\ Loose(ag) = {} /\ SlotsFit(ag) /\ OwnedBy(ag, owned) /\ InodesAre(ag, inodes) /\ ag \in Group
  BY DEF AllocInv, Good
<1>2. h \in Group /\ SameState(ag, h) /\ h.slots = ag.slots /\ h.inoHint = ag.inoHint
  BY <1>1 DEF Group, SameState, SameCounters
<1>3. ag' = h /\ owned' = owned /\ inodes' = inodes
  OBVIOUS
<1> HIDE DEF h
<1>4. Good(h) /\ Loose(h) = {} /\ \A b \in Blocks : SameView(ag, h, b)
  BY <1>1, <1>2, SameGood
<1>5. \A b \in Blocks : FullAlike(ag, h, b) /\ SlotAlike(ag, h, b)
  BY <1>4 DEF SameView, FullAlike, SlotAlike
<1>6. SlotsAlike(ag, h)
  BY <1>2, <1>5 DEF SlotsAlike
<1>7. SlotsFit(h) /\ InodesAre(h, inodes)
  BY <1>1, <1>6, SlotsKept
<1>8. OwnedBy(h, owned)
  BY <1>1, <1>5, OwnedKeeps
<1>9. AllocInv' <=> Good(h) /\ Loose(h) = {} /\ SlotsFit(h) /\ OwnedBy(h, owned) /\ InodesAre(h, inodes)
  BY <1>3, Zenon DEF AllocInv
<1> QED BY <1>4, <1>7, <1>8, <1>9

LEMMA NextInv ==
  ASSUME NEW h, Good(h), Loose(h) = {}, SlotsFit(h), NEW own, OwnedBy(h, own), NEW is, InodesAre(h, is),
         ag' = h, owned' = own, inodes' = is
  PROVE  AllocInv'
BY Zenon DEF AllocInv

LEMMA AbortInv ==
  ASSUME AllocInv, NEW r, r.g \in Group, Abort(r)
  PROVE  AllocInv'
<1>1. r.g.tblHint \in Blocks /\ r.g.cellHint \in Cells
  BY GroupFacts
<1> QED BY <1>1, HintsMoved DEF Abort

LEMMA AllocKeeps ==
  ASSUME AllocInv, NEW n \in Sizes, Alloc(n)
  PROVE  AllocInv'
<1> DEFINE r == AllocExtent(ag, n)
           u == UnitFor(n)
<1>1. Good(ag) /\ Loose(ag) = {} /\ SlotsFit(ag) /\ OwnedBy(ag, owned) /\ InodesAre(ag, inodes) /\ ag \in Group
  BY DEF AllocInv, Good
<1>2. n \in Nat \ {0}
  BY SizeAssumption
<1>3. Outcome(ag, r, CeilDiv(n, u) * u, u)
  BY <1>1, <1>2, AllocExtentDone
<1>4. IF r.ok THEN ag' = r.g /\ owned' = owned \cup {<<r.val, n>>} /\ UNCHANGED inodes ELSE Abort(r)
  BY DEF Alloc
<1> HIDE DEF r
<1>5. CASE ~r.ok
  BY <1>3, <1>4, <1>5, AbortInv DEF Outcome
<1>6. CASE r.ok
  <2>1. OwnedBy(r.g, owned \cup {<<r.val, n>>}) /\ SlotsAlike(ag, r.g) /\ Good(r.g) /\ Loose(r.g) = {}
    BY <1>1, <1>2, <1>3, <1>6, AllocOwned
  <2>2. SlotsFit(r.g) /\ InodesAre(r.g, inodes)
    BY <1>1, <2>1, SlotsKept
  <2> QED BY <1>4, <1>6, <2>1, <2>2, NextInv
<1> QED BY <1>5, <1>6

LEMMA FreeKeeps ==
  ASSUME AllocInv, NEW e \in owned, Free(e)
  PROVE  AllocInv'
<1> DEFINE r == FreeExtent(ag, e[1], e[2])
<1>1. Good(ag) /\ Loose(ag) = {} /\ SlotsFit(ag) /\ OwnedBy(ag, owned) /\ InodesAre(ag, inodes) /\ ag \in Group
  BY DEF AllocInv, Good
<1>2. r.ok /\ OwnedBy(r.g, owned \ {e}) /\ SlotsAlike(ag, r.g) /\ Good(r.g) /\ Loose(r.g) = {}
  BY <1>1, FreeOwned
<1>3. IF r.ok THEN ag' = r.g /\ owned' = owned \ {e} /\ UNCHANGED inodes ELSE Abort(r)
  BY DEF Free
<1> HIDE DEF r
<1>4. SlotsFit(r.g) /\ InodesAre(r.g, inodes)
  BY <1>1, <1>2, SlotsKept
<1> QED BY <1>2, <1>3, <1>4, NextInv

LEMMA TrimKeeps ==
  ASSUME AllocInv, NEW e \in owned, NEW keep \in 1 .. e[2] - 1, Trim(e, keep)
  PROVE  AllocInv'
<1> DEFINE r == TrimRun(ag, e[1], e[2], keep)
           own == (owned \ {e}) \cup {<<e[1], r.val>>}
<1>1. Good(ag) /\ Loose(ag) = {} /\ SlotsFit(ag) /\ OwnedBy(ag, owned) /\ InodesAre(ag, inodes) /\ ag \in Group
  BY DEF AllocInv, Good
<1>2. r.ok /\ OwnedBy(r.g, own) /\ SlotsAlike(ag, r.g) /\ Good(r.g) /\ Loose(r.g) = {}
  BY <1>1, TrimOwned
<1>3. IF r.ok THEN ag' = r.g /\ owned' = own /\ UNCHANGED inodes ELSE Abort(r)
  BY DEF Trim
<1> HIDE DEF r, own
<1>4. SlotsFit(r.g) /\ InodesAre(r.g, inodes)
  BY <1>1, <1>2, SlotsKept
<1> QED BY <1>2, <1>3, <1>4, NextInv

LEMMA NewInodeKeeps ==
  ASSUME AllocInv, NewInode
  PROVE  AllocInv'
<1> DEFINE r == AllocInode(ag)
           h == WriteSlot(r.g, r.val, "inode")
<1>1. Good(ag) /\ Loose(ag) = {} /\ SlotsFit(ag) /\ OwnedBy(ag, owned) /\ InodesAre(ag, inodes) /\ ag \in Group
  BY DEF AllocInv, Good
<1>2. InodeOutcome(ag, r)
  BY <1>1, AllocInodeDone
<1>3. IF r.ok THEN ag' = h /\ inodes' = inodes \cup {r.val} /\ UNCHANGED owned ELSE Abort(r)
  BY DEF NewInode
<1>4. CASE ~r.ok
  <2> HIDE DEF r, h
  <2> QED BY <1>2, <1>3, <1>4, AbortInv DEF InodeOutcome
<1>5. CASE r.ok
  <2>1. \E b, s : r.val = <<b, s>> /\ SlotGiven(ag, h, b, s)
    BY <1>2, <1>5 DEF InodeOutcome
  <2> HIDE DEF r, h
  <2>2. PICK b, s : r.val = <<b, s>> /\ SlotGiven(ag, h, b, s)
    BY <2>1
  <2>3. b \in Blocks /\ s \in 0 .. Slots - 1
    BY <2>2 DEF SlotGiven
  <2>4. CASE Is2(ag, b) /\ SlotsOf(ag, b)[s] = "free" /\ SlotSet(ag, h, b, s, "full", "inode")
    <3>1. Good(h) /\ Loose(h) = {}
      BY <2>4 DEF SlotSet, SlotRecoloured
    <3>2. SlotsFit(h) /\ OwnedBy(h, owned) /\ InodesAre(h, inodes \cup {<<b, s>>})
      BY <1>1, <2>3, <2>4, SlotSetKept
    <3> QED BY <1>3, <1>5, <2>2, <3>1, <3>2, NextInv
  <2>5. CASE s = 0 /\ SlotBlockMade(ag, h, b)
    <3>1. Good(h) /\ Loose(h) = {}
      BY <2>5 DEF SlotBlockMade
    <3>2. SlotsFit(h) /\ OwnedBy(h, owned) /\ InodesAre(h, inodes \cup {<<b, 0>>})
      BY <1>1, <2>5, SlotBlockMadeKept
    <3> QED BY <1>3, <1>5, <2>2, <2>5, <3>1, <3>2, NextInv
  <2> QED BY <2>2, <2>4, <2>5 DEF SlotGiven
<1> QED BY <1>4, <1>5

(* An inode in use is in a slot block. *)
LEMMA InodePlace ==
  ASSUME NEW g, Good(g), SlotsFit(g), NEW is, InodesAre(g, is), NEW ino \in is
  PROVE  /\ ino = <<ino[1], ino[2]>> /\ ino[1] \in Blocks /\ ino[2] \in 0 .. Slots - 1
         /\ Is2(g, ino[1]) /\ SlotsOf(g, ino[1])[ino[2]] = "full"
<1>1. ino \in DOMAIN g.slots /\ g.slots[ino] = "inode" /\ g \in Group
  BY DEF InodesAre, Good
<1>2. ino = <<ino[1], ino[2]>> /\ ino[1] \in Blocks /\ ino[2] \in 0 .. Slots - 1
  BY <1>1, SlotFacts
<1>3. <<ino[1], ino[2]>> \in DOMAIN g.slots /\ g.slots[<<ino[1], ino[2]>>] = "inode"
  BY <1>1, <1>2
<1>4. Is2(g, ino[1])
  BY <1>2, <1>3 DEF SlotsFit
<1>5. SlotsOf(g, ino[1])[ino[2]] = "full"
  BY <1>2, <1>3, <1>4 DEF SlotsFit
<1> QED BY <1>2, <1>4, <1>5

LEMMA RemoveInodeKeeps ==
  ASSUME AllocInv, NEW ino \in inodes, RemoveInode(ino)
  PROVE  AllocInv'
<1> DEFINE b == ino[1]
           s == ino[2]
           r == FreeInode(ag, b, s)
<1>1. Good(ag) /\ Loose(ag) = {} /\ SlotsFit(ag) /\ OwnedBy(ag, owned) /\ InodesAre(ag, inodes) /\ ag \in Group
  BY DEF AllocInv, Good
<1>2. ino = <<b, s>> /\ b \in Blocks /\ s \in 0 .. Slots - 1 /\ Is2(ag, b)
  BY <1>1, InodePlace
<1>3. IF r.ok THEN ag' = r.g /\ inodes' = inodes \ {ino} /\ UNCHANGED owned ELSE Abort(r)
  BY DEF RemoveInode
<1> HIDE DEF b, s
<1>4. r.ok /\ SlotTaken(ag, r.g, b, s)
  BY <1>1, <1>2, FreeInodeDone
<1> HIDE DEF r
<1>5. CASE SlotSet(ag, r.g, b, s, "free", "zero")
  <2>1. Good(r.g) /\ Loose(r.g) = {}
    BY <1>5 DEF SlotSet, SlotRecoloured
  <2>2. SlotsFit(r.g) /\ OwnedBy(r.g, owned) /\ InodesAre(r.g, inodes \ {<<b, s>>})
    BY <1>1, <1>2, <1>5, SlotSetKept
  <2> QED BY <1>2, <1>3, <1>4, <2>1, <2>2, NextInv
<1>6. CASE SlotBlockFreed(ag, r.g, b, s)
  <2>1. Good(r.g) /\ Loose(r.g) = {}
    BY <1>6 DEF SlotBlockFreed
  <2>2. SlotsFit(r.g) /\ OwnedBy(r.g, owned) /\ InodesAre(r.g, inodes \ {<<b, s>>})
    BY <1>1, <1>2, <1>6, SlotBlockFreedKept
  <2> QED BY <1>2, <1>3, <1>4, <2>1, <2>2, NextInv
<1> QED BY <1>4, <1>5, <1>6 DEF SlotTaken

LEMMA StepInv == AllocInv /\ [Next]_vars => AllocInv'
<1> SUFFICES ASSUME AllocInv, [Next]_vars PROVE AllocInv'
  OBVIOUS
<1>1. ASSUME NEW n \in Sizes, Alloc(n) PROVE AllocInv'
  BY <1>1, AllocKeeps
<1>2. ASSUME NEW e \in owned, Free(e) PROVE AllocInv'
  BY <1>2, FreeKeeps
<1>3. ASSUME NEW e \in owned, NEW keep \in 1 .. e[2] - 1, Trim(e, keep) PROVE AllocInv'
  BY <1>3, TrimKeeps
<1>4. CASE NewInode
  BY <1>4, NewInodeKeeps
<1>5. ASSUME NEW ino \in inodes, RemoveInode(ino) PROVE AllocInv'
  BY <1>5, RemoveInodeKeeps
<1>6. CASE Reopen
  <2>1. 0 \in Blocks /\ 0 \in Cells
    BY BlocksType
  <2> QED BY <1>6, <2>1, HintsMoved DEF Reopen
<1>7. CASE UNCHANGED vars
  BY <1>7, Zenon DEF vars, AllocInv
<1> QED BY <1>1, <1>2, <1>3, <1>4, <1>5, <1>6, <1>7 DEF Next

LEMMA AllocInvHolds == Spec => []AllocInv
BY InitInv, StepInv, PTL DEF Spec

-----------------------------------------------------------------------------
(* What follows *)

(* The allocator's state is a group: cells and records in their states,    *)
(* references to places of records, counters that are numbers; and what    *)
(* callers hold are runs of blocks and slots of the group.                 *)
THEOREM Types == Spec => []TypeOK
<1>1. AllocInv => TypeOK
  <2> SUFFICES ASSUME AllocInv PROVE TypeOK
    OBVIOUS
  <2>1. ag \in Group /\ Balanced(ag) /\ OwnedBy(ag, owned) /\ InodesAre(ag, inodes)
    BY DEF AllocInv, Good
  <2>2. Rec = [st : [Kids -> States \ {"rsvd"}], ref : [Kids -> Refs]]
    <3>1. {"free", "full", "refined"} = States \ {"rsvd"}
      BY DEF States
    <3> QED BY <3>1, Zenon DEF Rec
  <2>3. ag.free \in Nat /\ ag.rsvd \in Nat /\ ag.full \in Nat
    BY <2>1, InStateFinite DEF Balanced
  <2>4. owned \subseteq Blocks \X (Nat \ {0})
    BY <2>1 DEF OwnedBy, Holds, Extents
  <2>5. /\ ag.rt \in [Cells -> States] /\ ag.ref \in [Cells -> Refs]
        /\ DOMAIN ag.recs \subseteq Refs /\ \A r \in DOMAIN ag.recs : ag.recs[r] \in Rec
        /\ DOMAIN ag.slots \subseteq SlotPlaces
        /\ ag.arena \in Blocks /\ ag.inoHint \in Blocks /\ ag.tblHint \in Blocks /\ ag.cellHint \in Cells
    BY <2>1, GroupFacts
  <2>6. inodes \subseteq SlotPlaces
    BY <2>1, <2>5 DEF InodesAre
  <2> QED BY <2>2, <2>3, <2>4, <2>5, <2>6, Zenon DEF TypeOK, SlotPlaces
<1> QED BY <1>1, AllocInvHolds, PTL

(* Freeing leaves nothing refined that has no child in use, neither in     *)
(* free_extent nor in free_inode, and nor does an allocation: the space of *)
(* what is freed piece by piece is one piece again.                        *)
THEOREM AlwaysCoarsened == Spec => []Coarsened
<1>1. AllocInv => Coarsened
  BY DEF AllocInv, Loose, Coarsened
<1> QED BY <1>1, AllocInvHolds, PTL

(* What free_extent, trim_run and free_inode are called with by a caller   *)
(* who holds it is never refused, whatever was done before.                *)
THEOREM FreesSucceed == Spec => []FreeSucceeds
<1>1. AllocInv => FreeSucceeds
  <2> SUFFICES ASSUME AllocInv PROVE FreeSucceeds
    OBVIOUS
  <2>1. Good(ag) /\ Loose(ag) = {} /\ SlotsFit(ag) /\ OwnedBy(ag, owned) /\ InodesAre(ag, inodes)
    BY DEF AllocInv
  <2>2. ASSUME NEW e \in owned PROVE FreeExtent(ag, e[1], e[2]).ok
    BY <2>1, FreeOwned
  <2>3. ASSUME NEW e \in owned, NEW keep \in 1 .. e[2] - 1 PROVE TrimRun(ag, e[1], e[2], keep).ok
    BY <2>1, TrimOwned
  <2>4. ASSUME NEW ino \in inodes PROVE FreeInode(ag, ino[1], ino[2]).ok
    <3>1. ino[1] \in Blocks /\ ino[2] \in 0 .. Slots - 1 /\ Is2(ag, ino[1])
      BY <2>1, InodePlace
    <3> QED BY <2>1, <3>1, FreeInodeDone
  <2> QED BY <2>2, <2>3, <2>4 DEF FreeSucceeds
<1> QED BY <1>1, AllocInvHolds, PTL

(* A slot block has an inode: its record would be loose if it had none.    *)
LEMMA SlotBlockUsed ==
  ASSUME NEW g, Good(g), Loose(g) = {}, SlotsFit(g), NEW is, InodesAre(g, is), NEW b \in Blocks, Is2(g, b)
  PROVE  \E s \in 0 .. Slots - 1 : <<b, s>> \in is
<1>1. g \in Group /\ Tree(g)
  BY DEF Good
<1>2. PICK home : TreeBy(g, home)
  BY <1>1, Zenon DEF Tree
<1> DEFINE r == R2(g, b)
<1>3. r \in DOMAIN g.recs /\ home[r] = <<2, CellOf(b), KidOf(b), LeafOf(b)>>
  BY <1>2, Down
<1>4. SlotsOf(g, b) = g.recs[r].st /\ SlotsOf(g, b) \in [Kids -> {"free", "full"}]
  BY <1>1, StateTypes DEF SlotsOf
<1> HIDE DEF r
<1>5. \A s \in Kids : s >= Slots => g.recs[r].st[s] = "free"
  <2>1. ~Inner(home[r])
    BY <1>3 DEF Inner
  <2> QED BY <1>2, <1>3, <2>1, Zenon DEF TreeBy, SlotBlocksPadded
<1>6. ~AllFree(g.recs[r])
  BY <1>3 DEF Loose
<1>7. PICK s \in Kids : g.recs[r].st[s] # "free"
  BY <1>6 DEF AllFree
<1>8. s \in 0 .. Slots - 1
  BY <1>5, <1>7, SlotsAssumption DEF Kids
<1>9. SlotsOf(g, b)[s] = "full"
  BY <1>4, <1>7
<1>10. <<b, s>> \in DOMAIN g.slots
  BY <1>8 DEF SlotsFit
<1>11. g.slots[<<b, s>>] = "inode"
  BY <1>8, <1>9 DEF SlotsFit
<1> QED BY <1>8, <1>10, <1>11 DEF InodesAre

(* The blocks that the tree has as in use are those of the extents and of  *)
(* the slot blocks of the inodes that callers hold: none is lost, none is  *)
(* held twice.                                                             *)
THEOREM Ownership == Spec => []OwnershipExact
<1>1. AllocInv => OwnershipExact
  <2> SUFFICES ASSUME AllocInv PROVE OwnershipExact
    OBVIOUS
  <2>1. /\ Good(ag) /\ Loose(ag) = {} /\ SlotsFit(ag) /\ OwnedBy(ag, owned) /\ InodesAre(ag, inodes)
        /\ ag \in Group /\ Tree(ag)
    BY DEF AllocInv, Good
  <2>2. \A b \in Blocks : StateOf(ag, b) = "refined" <=> Is2(ag, b)
    BY <2>1, StateTypes
  <2>3. \A e \in owned : \A b \in Span(e) : b \in Blocks /\ StateOf(ag, b) = "full"
    BY <2>1, HoldsSpan DEF OwnedBy
  <2>4. \A ino \in inodes : ino[1] \in Blocks /\ StateOf(ag, ino[1]) = "refined"
    BY <2>1, <2>2, InodePlace
  <2>5. \A b \in Blocks : StateOf(ag, b) = "full" => \E e \in owned : b \in Span(e)
    BY <2>1 DEF OwnedBy
  <2>6. \A b \in Blocks : StateOf(ag, b) = "refined" => \E ino \in inodes : b = ino[1]
    <3> SUFFICES ASSUME NEW b \in Blocks, StateOf(ag, b) = "refined" PROVE \E ino \in inodes : b = ino[1]
      OBVIOUS
    <3>1. PICK s \in 0 .. Slots - 1 : <<b, s>> \in inodes
      BY <2>1, <2>2, SlotBlockUsed
    <3>2. b = <<b, s>>[1]
      OBVIOUS
    <3> QED BY <3>1, <3>2
  <2>7. Allocated(ag) = (UNION {Span(e) : e \in owned}) \cup {ino[1] : ino \in inodes}
    <3> DEFINE X == UNION {Span(e) : e \in owned}
               Y == {ino[1] : ino \in inodes}
    <3>1. \A b : b \in X <=> \E e \in owned : b \in Span(e)
      OBVIOUS
    <3>2. \A b : b \in Y <=> \E ino \in inodes : b = ino[1]
      OBVIOUS
    <3>3. \A b : b \in Allocated(ag) <=> b \in Blocks /\ (StateOf(ag, b) = "full" \/ StateOf(ag, b) = "refined")
      BY DEF Allocated
    <3> HIDE DEF X, Y
    <3>4. \A b : b \in X => b \in Blocks /\ StateOf(ag, b) = "full"
      BY <2>3, <3>1
    <3>5. \A b : b \in Y => b \in Blocks /\ StateOf(ag, b) = "refined"
      BY <2>4, <3>2
    <3>6. \A b \in Blocks : (StateOf(ag, b) = "full" => b \in X) /\ (StateOf(ag, b) = "refined" => b \in Y)
      BY <2>5, <2>6, <3>1, <3>2
    <3>7. Allocated(ag) = X \cup Y
      BY <3>3, <3>4, <3>5, <3>6
    <3> QED BY <3>7 DEF X, Y
  <2>8. \A e, f \in owned : e # f => Span(e) \cap Span(f) = {}
    BY <2>1 DEF OwnedBy
  <2>9. \A e \in owned, ino \in inodes : ino[1] \notin Span(e)
    BY <2>3, <2>4
  <2> QED BY <2>7, <2>8, <2>9 DEF OwnershipExact
<1> QED BY <1>1, AllocInvHolds, PTL

(* alloc_inode and free_inode keep the states of slots, the slot blocks    *)
(* and the hint in step with the inodes there are.                         *)
THEOREM SlotStates == Spec => []SlotsExact
<1>1. AllocInv => SlotsExact
  <2> SUFFICES ASSUME AllocInv PROVE SlotsExact
    OBVIOUS
  <2>1. /\ Good(ag) /\ Loose(ag) = {} /\ SlotsFit(ag) /\ InodesAre(ag, inodes)
        /\ ag \in Group /\ Tree(ag) /\ ag.inoHint \in Blocks
    BY GroupFacts DEF AllocInv, Good
  <2>2. \A b : SlotRefined(ag, b) <=> Is2(ag, b)
    BY Unfolded
  <2>3. \A ino \in inodes : /\ ino = <<ino[1], ino[2]>> /\ ino[1] \in Blocks /\ ino[2] \in 0 .. Slots - 1
                            /\ Is2(ag, ino[1]) /\ SlotsOf(ag, ino[1])[ino[2]] = "full"
    BY <2>1, InodePlace
  <2>4. \A b : FreeSlots(ag, b) = {s \in 0 .. Slots - 1 : SlotsOf(ag, b)[s] = "free"}
    BY Unfolded DEF FreeSlots, SlotsOf
  <2>5. ASSUME NEW b \in Blocks \ {0} PROVE b \in {ino[1] : ino \in inodes} <=> SlotRefined(ag, b)
    <3>1. ASSUME Is2(ag, b) PROVE b \in {ino[1] : ino \in inodes}
      <4>1. PICK s \in 0 .. Slots - 1 : <<b, s>> \in inodes
        BY <2>1, <3>1, SlotBlockUsed
      <4>2. b = <<b, s>>[1]
        OBVIOUS
      <4> QED BY <4>1, <4>2
    <3> QED BY <2>2, <2>3, <3>1
  <2>6. ASSUME NEW ino \in inodes PROVE ino[2] \notin FreeSlots(ag, ino[1])
    BY <2>3, <2>4
  <2>7. ASSUME NEW ino \in inodes, NEW s \in (0 .. Slots - 1) \ FreeSlots(ag, ino[1])
        PROVE  <<ino[1], s>> \in inodes
    <3> DEFINE b == ino[1]
    <3>1. b \in Blocks /\ Is2(ag, b) /\ s \in 0 .. Slots - 1 /\ SlotsOf(ag, b)[s] # "free"
      BY <2>3, <2>4, <2>7
    <3> HIDE DEF b
    <3>2. SlotsOf(ag, b) \in [Kids -> {"free", "full"}] /\ s \in Kids
      BY <2>1, <3>1, StateTypes, BlocksType
    <3>3. SlotsOf(ag, b)[s] = "full"
      BY <3>1, <3>2
    <3>4. <<b, s>> \in DOMAIN ag.slots /\ ag.slots[<<b, s>>] = "inode"
      BY <2>1, <3>1, <3>3 DEF SlotsFit
    <3> QED BY <2>1, <3>4 DEF InodesAre, b
  <2>8. ag.inoHint # 0 => SlotRefined(ag, ag.inoHint)
    BY <2>1, <2>2 DEF SlotsFit
  <2> QED BY <2>5, <2>6, <2>7, <2>8 DEF SlotsExact
<1> QED BY <1>1, AllocInvHolds, PTL

-----------------------------------------------------------------------------
(* The places that refer to records *)

LEMMA SameSize ==
  ASSUME NEW S, IsFiniteSet(S), NEW T, NEW f \in [S -> T],
         \A x \in S : \A y \in S : f[x] = f[y] => x = y, \A t \in T : \E x \in S : f[x] = t
  PROVE  IsFiniteSet(T) /\ Cardinality(T) = Cardinality(S)
<1>1. f \in Injection(S, T)
  BY DEF Injection, IsInjective
<1>2. f \in Surjection(S, T)
  BY DEF Surjection
<1>3. ExistsBijection(S, T)
  BY <1>1, <1>2 DEF Bijection, ExistsBijection
<1> QED BY <1>3, FS_Bijection

(* The way down to a record, as RefSites has it. *)
PathOf(p) == CASE p[1] = 0 -> <<p[2]>> [] p[1] = 1 -> <<p[2], p[3]>> [] OTHER -> <<p[2], p[3], p[4]>>
Site(home, r) == <<PathOf(home[r]), r>>
SitesAt(g, home, k) == {Site(home, r) : r \in {x \in DOMAIN g.recs : home[x][1] = k}}

SitesBelow(g, S) ==
  UNION {{<<Append(p[1], i), g.recs[p[2]].ref[i]>> : i \in {k \in Kids : g.recs[p[2]].st[k] = "refined"}} :
           p \in {q \in S : q[2] \in DOMAIN g.recs}}

LEMMA Appended ==
  ASSUME NEW a \in Nat, NEW b \in Nat, NEW c \in Nat
  PROVE  Append(<<a>>, b) = <<a, b>> /\ Append(<<a, b>>, c) = <<a, b, c>>
<1>1. <<a>> \in Seq(Nat) /\ <<a, b>> \in Seq(Nat) /\ <<a, b, c>> \in Seq(Nat)
  OBVIOUS
<1>2. Len(<<a>>) = 1 /\ Len(<<a, b>>) = 2 /\ Len(<<a, b, c>>) = 3
  OBVIOUS
<1>3. Append(<<a>>, b) = <<a, b>>
  <2> DEFINE s == Append(<<a>>, b)
             t == <<a, b>>
  <2>2. t \in Seq(Nat) /\ Len(t) = 2 /\ t[1] = a /\ t[2] = b
    OBVIOUS
  <2>1. s \in Seq(Nat) /\ Len(s) = 2 /\ s[1] = a /\ s[2] = b
    BY <1>1, <1>2, AppendProperties
  <2> HIDE DEF s, t
  <2>3. \A i \in 1 .. Len(s) : s[i] = t[i]
    BY <2>1, <2>2
  <2>4. s = t
    BY <2>1, <2>2, <2>3, SeqEqual
  <2> QED BY <2>4 DEF s, t
<1>4. Append(<<a, b>>, c) = <<a, b, c>>
  <2> DEFINE s == Append(<<a, b>>, c)
             t == <<a, b, c>>
  <2>2. t \in Seq(Nat) /\ Len(t) = 3 /\ t[1] = a /\ t[2] = b /\ t[3] = c
    OBVIOUS
  <2>1. s \in Seq(Nat) /\ Len(s) = 3 /\ s[1] = a /\ s[2] = b /\ s[3] = c
    BY <1>1, <1>2, AppendProperties
  <2> HIDE DEF s, t
  <2>3. \A i \in 1 .. Len(s) : s[i] = t[i]
    BY <2>1, <2>2
  <2>4. s = t
    BY <2>1, <2>2, <2>3, SeqEqual
  <2> QED BY <2>4 DEF s, t
<1> QED BY <1>3, <1>4

LEMMA PathBelow ==
  ASSUME NEW g, NEW home, TreeBy(g, home), NEW p \in DOMAIN g.recs, home[p][1] # 2, NEW i \in Kids
  PROVE  PathOf(Below(home[p], i)) = Append(PathOf(home[p]), i)
<1> DEFINE h == home[p]
<1>1. h[1] \in 0 .. 2 /\ h[1] # 2 /\ h[2] \in Nat /\ h[3] \in Nat /\ i \in Nat
  BY HomeFacts, BlocksType
<1> HIDE DEF h
<1>2. CASE h[1] = 0
  <2>1. Below(h, i) = <<1, h[2], i, 0>>
    BY <1>2 DEF Below
  <2>2. PathOf(Below(h, i)) = <<h[2], i>>
    BY <2>1 DEF PathOf
  <2>3. PathOf(h) = <<h[2]>>
    BY <1>2 DEF PathOf
  <2> QED BY <1>1, <2>2, <2>3, Appended DEF h
<1>3. CASE h[1] = 1
  <2>1. Below(h, i) = <<2, h[2], h[3], i>>
    BY <1>3 DEF Below
  <2>2. PathOf(Below(h, i)) = <<h[2], h[3], i>>
    BY <2>1 DEF PathOf
  <2>3. PathOf(h) = <<h[2], h[3]>>
    BY <1>3 DEF PathOf
  <2> QED BY <1>1, <2>2, <2>3, Appended DEF h
<1>4. h[1] = 0 \/ h[1] = 1
  BY <1>1
<1> QED BY <1>2, <1>3, <1>4

LEMMA CellSites ==
  ASSUME NEW g, NEW home, TreeBy(g, home)
  PROVE  {<<<<c>>, g.ref[c]>> : c \in Refined(g)} = SitesAt(g, home, 0)
<1> DEFINE L == {<<<<c>>, g.ref[c]>> : c \in Refined(g)}
<1>1. ASSUME NEW c \in Refined(g) PROVE <<<<c>>, g.ref[c]>> \in SitesAt(g, home, 0)
  <2>1. g.ref[c] \in DOMAIN g.recs /\ home[g.ref[c]] = <<0, c, 0, 0>>
    BY DEF TreeBy, Downward, Refined
  <2>2. PathOf(home[g.ref[c]]) = <<c>> /\ home[g.ref[c]][1] = 0
    BY <2>1 DEF PathOf
  <2> QED BY <2>1, <2>2 DEF SitesAt, Site
<1>2. ASSUME NEW r \in DOMAIN g.recs, home[r][1] = 0 PROVE Site(home, r) \in L
  <2>1. home[r][2] \in Refined(g) /\ g.ref[home[r][2]] = r
    BY <1>2, HomeFacts DEF TreeBy, Upward, Refined
  <2>2. PathOf(home[r]) = <<home[r][2]>>
    BY <1>2 DEF PathOf
  <2> QED BY <2>1, <2>2 DEF Site
<1> QED BY <1>1, <1>2 DEF SitesAt

LEMMA KidSites ==
  ASSUME NEW g, NEW home, TreeBy(g, home), NEW k \in {0, 1}
  PROVE  SitesBelow(g, SitesAt(g, home, k)) = SitesAt(g, home, k + 1)
<1> DEFINE S == SitesAt(g, home, k)
<1>1. \A x : x \in SitesBelow(g, S) <=>
         \E p \in S : \E i \in Kids : /\ p[2] \in DOMAIN g.recs /\ g.recs[p[2]].st[i] = "refined"
                                      /\ x = <<Append(p[1], i), g.recs[p[2]].ref[i]>>
  BY DEF SitesBelow
<1>2. \A p \in DOMAIN g.recs : \A i \in Kids : g.recs[p].st[i] = "refined" =>
         /\ home[p][1] # 2 /\ g.recs[p].ref[i] \in DOMAIN g.recs
         /\ home[g.recs[p].ref[i]] = Below(home[p], i)
  BY DEF TreeBy, Downward, Inner
<1>3. \A x : x \in S <=> \E q \in DOMAIN g.recs : home[q][1] = k /\ x = <<PathOf(home[q]), q>>
  BY DEF SitesAt, Site
<1>4. \A p \in DOMAIN g.recs : \A i \in Kids :
         /\ home[p][1] = 0 => Below(home[p], i)[1] = 1
         /\ home[p][1] # 0 => Below(home[p], i)[1] = 2
  BY DEF Below
<1>5. \A x : x \in SitesAt(g, home, k + 1) <=> \E q \in DOMAIN g.recs : home[q][1] = k + 1 /\ x = <<PathOf(home[q]), q>>
  BY DEF SitesAt, Site
<1> HIDE DEF S
<1>6. ASSUME NEW x \in SitesBelow(g, S) PROVE x \in SitesAt(g, home, k + 1)
  <2>1. PICK p \in S, i \in Kids : /\ p[2] \in DOMAIN g.recs /\ g.recs[p[2]].st[i] = "refined"
                                   /\ x = <<Append(p[1], i), g.recs[p[2]].ref[i]>>
    BY <1>1
  <2>2. PICK q \in DOMAIN g.recs : home[q][1] = k /\ p = <<PathOf(home[q]), q>>
    BY <1>3
  <2>3. p[1] = PathOf(home[q]) /\ p[2] = q
    BY <2>2
  <2> DEFINE r == g.recs[q].ref[i]
  <2>4. home[q][1] # 2 /\ r \in DOMAIN g.recs /\ home[r] = Below(home[q], i)
    BY <1>2, <2>1, <2>3
  <2>5. PathOf(home[r]) = Append(PathOf(home[q]), i)
    BY <2>4, PathBelow
  <2>6. home[r][1] = k + 1
    BY <1>4, <2>2, <2>4
  <2>7. x = <<PathOf(home[r]), r>>
    BY <2>1, <2>3, <2>5
  <2> HIDE DEF r
  <2> QED BY <1>5, <2>4, <2>6, <2>7
<1>7. ASSUME NEW r \in DOMAIN g.recs, home[r][1] = k + 1 PROVE <<PathOf(home[r]), r>> \in SitesBelow(g, S)
  <2>1. PICK p \in DOMAIN g.recs : \E i \in Kids : Refers(g, p, i, r)
    BY <1>7 DEF TreeBy, Upward
  <2>2. PICK i \in Kids : g.recs[p].st[i] = "refined" /\ g.recs[p].ref[i] = r
    BY <2>1 DEF Refers
  <2>3. home[p][1] # 2 /\ home[r] = Below(home[p], i)
    BY <1>2, <2>2
  <2>4. home[p][1] = k
    <3>1. home[p][1] = 0 \/ home[p][1] = 1
      BY <2>3, HomeFacts
    <3> QED BY <1>4, <1>7, <2>3, <3>1
  <2>5. PathOf(home[r]) = Append(PathOf(home[p]), i)
    BY <2>3, PathBelow
  <2> DEFINE x == <<PathOf(home[p]), p>>
  <2>6. x \in S /\ x[1] = PathOf(home[p]) /\ x[2] = p
    BY <1>3, <2>4
  <2> HIDE DEF x
  <2>7. <<PathOf(home[r]), r>> = <<Append(x[1], i), g.recs[x[2]].ref[i]>>
    BY <2>2, <2>5, <2>6
  <2> QED BY <1>1, <2>2, <2>6, <2>7
<1>8. SitesBelow(g, S) = SitesAt(g, home, k + 1)
  BY <1>5, <1>6, <1>7
<1> QED BY <1>8 DEF S

(* A place for every record, a record for every place. *)
LEMMA SitesOf ==
  ASSUME NEW home, TreeBy(ag, home)
  PROVE  \A x : x \in RefSites <=> \E r \in DOMAIN ag.recs : x = Site(home, r)
<1> DEFINE l0 == {<<<<c>>, ag.ref[c]>> : c \in Refined(ag)}
<1>1. RefSites = l0 \cup SitesBelow(ag, l0) \cup SitesBelow(ag, SitesBelow(ag, l0))
  BY DEF RefSites, SitesBelow
<1>2. l0 = SitesAt(ag, home, 0)
  BY CellSites
<1> HIDE DEF l0
<1>3. SitesBelow(ag, SitesAt(ag, home, 0)) = SitesAt(ag, home, 1)
  BY KidSites, 0 + 1 = 1
<1>4. SitesBelow(ag, SitesAt(ag, home, 1)) = SitesAt(ag, home, 2)
  BY KidSites, 1 + 1 = 2
<1>5. RefSites = SitesAt(ag, home, 0) \cup SitesAt(ag, home, 1) \cup SitesAt(ag, home, 2)
  BY <1>1, <1>2, <1>3, <1>4
<1>6. \A r \in DOMAIN ag.recs : home[r][1] = 0 \/ home[r][1] = 1 \/ home[r][1] = 2
  BY HomeFacts
<1>7. \A k : \A x : x \in SitesAt(ag, home, k) <=> \E r \in DOMAIN ag.recs : home[r][1] = k /\ x = Site(home, r)
  BY DEF SitesAt
<1> QED BY <1>5, <1>6, <1>7

LEMMA RecordsFinite ==
  ASSUME NEW g \in Group
  PROVE  IsFiniteSet(DOMAIN g.recs)
<1>1. IsFiniteSet(Blocks) /\ IsFiniteSet(0 .. RecordsPerBlock - 1)
  BY Sizes2, BlocksType, FS_Interval DEF Blocks
<1>2. IsFiniteSet(Refs)
  BY <1>1, FS_Product DEF Refs
<1> QED BY <1>2, GroupFacts, FS_Subset

(* alloc_rec and drop_rec keep the tree a tree: a record is used exactly   *)
(* where something refined refers to it, and lies in a table block of a    *)
(* reserved cell.                                                          *)
THEOREM Records == Spec => []RecordsExact
<1>1. AllocInv => RecordsExact
  <2> SUFFICES ASSUME AllocInv PROVE RecordsExact
    OBVIOUS
  <2>1. ag \in Group /\ Tree(ag)
    BY DEF AllocInv, Good
  <2>2. PICK home : TreeBy(ag, home)
    BY <2>1, Zenon DEF Tree
  <2> DEFINE D == DOMAIN ag.recs
             f == [r \in D |-> Site(home, r)]
  <2>3. \A x : x \in RefSites <=> \E r \in D : x = Site(home, r)
    BY <2>2, SitesOf
  <2>4. \A r : Site(home, r)[2] = r
    BY DEF Site
  <2>5. {p[2] : p \in RefSites} = D
    BY <2>3, <2>4
  <2>6. Cardinality(RefSites) = Cardinality(D)
    <3>1. IsFiniteSet(D)
      BY <2>1, RecordsFinite
    <3>2. f \in [D -> RefSites] /\ \A r \in D : f[r] = Site(home, r)
      BY <2>3
    <3> HIDE DEF D, f
    <3>3. \A x \in D : \A y \in D : f[x] = f[y] => x = y
      BY <2>4, <3>2
    <3>4. \A t \in RefSites : \E x \in D : f[x] = t
      BY <2>3, <3>2
    <3> QED BY <3>1, <3>2, <3>3, <3>4, SameSize
  <2>7. \A r \in D : ag.rt[r[1] \div CellBlocks] = "rsvd"
    BY <2>2 DEF TreeBy, InTables, CellOf
  <2> QED BY <2>5, <2>6, <2>7 DEF RecordsExact
<1> QED BY <1>1, AllocInvHolds, PTL

-----------------------------------------------------------------------------
(* What fsck counts *)

(* The blocks of a set of cells, of L1 cells, of places of blocks.         *)
LEMMA BlocksOfCells ==
  ASSUME NEW S \in SUBSET Cells
  PROVE  LET T == {b \in Blocks : CellOf(b) \in S} IN IsFiniteSet(T) /\ Cardinality(T) = Cardinality(S) * CellBlocks
<1> DEFINE T == {b \in Blocks : CellOf(b) \in S}
           U == S \X (Kids \X Kids)
           f == [x \in U |-> Blk(x[1], x[2][1], x[2][2])]
<1>1. IsFiniteSet(S) /\ IsFiniteSet(Kids) /\ Cardinality(Kids) = Fanout /\ Cardinality(S) \in Nat
  <2>1. IsFiniteSet(Cells) /\ IsFiniteSet(Kids) /\ Cardinality(Kids) = Fanout
    BY Sizes2, FS_Interval DEF Cells, Kids
  <2> QED BY <2>1, FS_Subset, FS_CardinalityType
<1>2. IsFiniteSet(U) /\ Cardinality(U) = Cardinality(S) * CellBlocks
  <2>1. IsFiniteSet(Kids \X Kids) /\ Cardinality(Kids \X Kids) = CellBlocks
    BY <1>1, FS_Product, Sizes2
  <2> QED BY <1>1, <2>1, FS_Product
<1>3. ASSUME NEW x \in U
      PROVE  /\ x = <<x[1], <<x[2][1], x[2][2]>>>> /\ f[x] \in T
             /\ CellOf(f[x]) = x[1] /\ KidOf(f[x]) = x[2][1] /\ LeafOf(f[x]) = x[2][2]
  <2>1. x = <<x[1], <<x[2][1], x[2][2]>>>> /\ x[1] \in S /\ x[1] \in Cells /\ x[2][1] \in Kids /\ x[2][2] \in Kids
    OBVIOUS
  <2>2. f[x] = Blk(x[1], x[2][1], x[2][2])
    OBVIOUS
  <2> HIDE DEF f, U
  <2> QED BY <2>1, <2>2, BlkFacts
<1>4. f \in [U -> T]
  BY <1>3
<1>5. \A b \in T : <<CellOf(b), <<KidOf(b), LeafOf(b)>>>> \in U /\ f[<<CellOf(b), <<KidOf(b), LeafOf(b)>>>>] = b
  BY OfFacts
<1> HIDE DEF f, U, T
<1>6. \A x \in U : \A y \in U : f[x] = f[y] => x = y
  BY <1>3
<1>7. \A b \in T : \E x \in U : f[x] = b
  BY <1>5
<1>8. IsFiniteSet(T) /\ Cardinality(T) = Cardinality(S) * CellBlocks
  BY <1>2, <1>4, <1>6, <1>7, SameSize
<1> QED BY <1>8 DEF T

LEMMA BlocksOfKids ==
  ASSUME NEW S \in SUBSET (Cells \X Kids)
  PROVE  LET T == {b \in Blocks : <<CellOf(b), KidOf(b)>> \in S} IN IsFiniteSet(T) /\ Cardinality(T) = Cardinality(S) * Fanout
<1> DEFINE T == {b \in Blocks : <<CellOf(b), KidOf(b)>> \in S}
           U == S \X Kids
           f == [x \in U |-> Blk(x[1][1], x[1][2], x[2])]
<1>1. IsFiniteSet(S) /\ IsFiniteSet(Kids) /\ Cardinality(Kids) = Fanout
  <2>1. IsFiniteSet(Cells) /\ IsFiniteSet(Kids) /\ Cardinality(Kids) = Fanout
    BY Sizes2, FS_Interval DEF Cells, Kids
  <2> QED BY <2>1, FS_Product, FS_Subset
<1>2. IsFiniteSet(U) /\ Cardinality(U) = Cardinality(S) * Fanout
  BY <1>1, FS_Product
<1>3. ASSUME NEW x \in U
      PROVE  /\ x = <<<<x[1][1], x[1][2]>>, x[2]>> /\ f[x] \in T
             /\ CellOf(f[x]) = x[1][1] /\ KidOf(f[x]) = x[1][2] /\ LeafOf(f[x]) = x[2]
  <2>1. /\ x = <<<<x[1][1], x[1][2]>>, x[2]>> /\ <<x[1][1], x[1][2]>> \in S
        /\ x[1][1] \in Cells /\ x[1][2] \in Kids /\ x[2] \in Kids
    OBVIOUS
  <2>2. f[x] = Blk(x[1][1], x[1][2], x[2])
    OBVIOUS
  <2> HIDE DEF f, U
  <2> QED BY <2>1, <2>2, BlkFacts
<1>4. f \in [U -> T]
  BY <1>3
<1>5. \A b \in T : <<<<CellOf(b), KidOf(b)>>, LeafOf(b)>> \in U /\ f[<<<<CellOf(b), KidOf(b)>>, LeafOf(b)>>] = b
  BY OfFacts
<1> HIDE DEF f, U, T
<1>6. \A x \in U : \A y \in U : f[x] = f[y] => x = y
  BY <1>3
<1>7. \A b \in T : \E x \in U : f[x] = b
  BY <1>5
<1>8. IsFiniteSet(T) /\ Cardinality(T) = Cardinality(S) * Fanout
  BY <1>2, <1>4, <1>6, <1>7, SameSize
<1> QED BY <1>8 DEF T

LEMMA BlocksOfLeaves ==
  ASSUME NEW S \in SUBSET ((Cells \X Kids) \X Kids)
  PROVE  LET T == {b \in Blocks : <<<<CellOf(b), KidOf(b)>>, LeafOf(b)>> \in S} IN IsFiniteSet(T) /\ Cardinality(T) = Cardinality(S)
<1> DEFINE T == {b \in Blocks : <<<<CellOf(b), KidOf(b)>>, LeafOf(b)>> \in S}
           f == [x \in S |-> Blk(x[1][1], x[1][2], x[2])]
<1>1. IsFiniteSet(S)
  <2>1. IsFiniteSet(Cells) /\ IsFiniteSet(Kids)
    BY Sizes2, FS_Interval DEF Cells, Kids
  <2> QED BY <2>1, FS_Product, FS_Subset
<1>2. ASSUME NEW x \in S
      PROVE  /\ x = <<<<x[1][1], x[1][2]>>, x[2]>> /\ f[x] \in T
             /\ CellOf(f[x]) = x[1][1] /\ KidOf(f[x]) = x[1][2] /\ LeafOf(f[x]) = x[2]
  <2>1. x = <<<<x[1][1], x[1][2]>>, x[2]>> /\ x[1][1] \in Cells /\ x[1][2] \in Kids /\ x[2] \in Kids
    OBVIOUS
  <2>2. f[x] = Blk(x[1][1], x[1][2], x[2])
    OBVIOUS
  <2> HIDE DEF f
  <2> QED BY <2>1, <2>2, BlkFacts
<1>3. f \in [S -> T]
  BY <1>2
<1>4. \A b \in T : <<<<CellOf(b), KidOf(b)>>, LeafOf(b)>> \in S /\ f[<<<<CellOf(b), KidOf(b)>>, LeafOf(b)>>] = b
  BY OfFacts
<1> HIDE DEF f, T
<1>5. \A x \in S : \A y \in S : f[x] = f[y] => x = y
  BY <1>2
<1>6. \A b \in T : \E x \in S : f[x] = b
  BY <1>4
<1>7. IsFiniteSet(T) /\ Cardinality(T) = Cardinality(S)
  BY <1>1, <1>3, <1>5, <1>6, SameSize
<1> QED BY <1>7 DEF T

LEMMA ApartSizes ==
  ASSUME NEW A, IsFiniteSet(A), NEW B, IsFiniteSet(B), A \cap B = {}
  PROVE  /\ IsFiniteSet(A \cup B) /\ Cardinality(A \cup B) = Cardinality(A) + Cardinality(B)
         /\ Cardinality(A) \in Nat /\ Cardinality(B) \in Nat
<1>1. Cardinality(A \cap B) = 0
  BY FS_EmptySet, Zenon
<1>2. Cardinality(A \cup B) = Cardinality(A) + Cardinality(B) - Cardinality(A \cap B) /\ IsFiniteSet(A \cup B)
  BY FS_Union, Zenon
<1>3. Cardinality(A) \in Nat /\ Cardinality(B) \in Nat
  BY FS_CardinalityType
<1> DEFINE n == Cardinality(A \cap B)
<1>4. Cardinality(A \cup B) = Cardinality(A) + Cardinality(B) - n /\ n = 0
  BY <1>1, <1>2
<1> HIDE DEF n
<1> QED BY <1>2, <1>3, <1>4

(* The walk of tally_ag. *)
CellsIn(g, st) == {c \in Cells : g.rt[c] = st}
KidsIn(g, st) ==
  {k \in {c \in CellsIn(g, "refined") : g.ref[c] \in DOMAIN g.recs} \X Kids : g.recs[g.ref[k[1]]].st[k[2]] = st}
L1At(g, k) == g.recs[g.ref[k[1]]].ref[k[2]]
LeavesIn(g, st) ==
  {x \in {k \in KidsIn(g, "refined") : L1At(g, k) \in DOMAIN g.recs} \X Kids : g.recs[L1At(g, x[1])].st[x[2]] = st}
L3At(g, x) == g.recs[L1At(g, x[1])].ref[x[2]]
Tallied(g, st) ==
  Cardinality(CellsIn(g, st)) * CellBlocks + Cardinality(KidsIn(g, st)) * Fanout + Cardinality(LeavesIn(g, st))
Referenced(g) ==
  {g.ref[c] : c \in CellsIn(g, "refined")} \cup {L1At(g, k) : k \in KidsIn(g, "refined")}
    \cup {L3At(g, x) : x \in LeavesIn(g, "refined")}

LEMMA WalkFacts ==
  ASSUME NEW g \in Group, Tree(g), NEW st
  PROVE  /\ CellsIn(g, st) \in SUBSET Cells /\ KidsIn(g, st) \in SUBSET (Cells \X Kids)
         /\ LeavesIn(g, st) \in SUBSET ((Cells \X Kids) \X Kids)
         /\ \A b \in Blocks :
              /\ CellOf(b) \in CellsIn(g, st) <=> g.rt[CellOf(b)] = st
              /\ <<CellOf(b), KidOf(b)>> \in KidsIn(g, st) <=> Is0(g, b) /\ g.recs[R0(g, b)].st[KidOf(b)] = st
              /\ <<<<CellOf(b), KidOf(b)>>, LeafOf(b)>> \in LeavesIn(g, st)
                   <=> Is1(g, b) /\ g.recs[R1(g, b)].st[LeafOf(b)] = st
<1>1. CellsIn(g, st) \in SUBSET Cells
  BY DEF CellsIn
<1>2. \A s : KidsIn(g, s) \in SUBSET (Cells \X Kids)
  BY DEF KidsIn, CellsIn
<1>3. LeavesIn(g, st) \in SUBSET ((Cells \X Kids) \X Kids)
  BY <1>2 DEF LeavesIn
<1>4. ASSUME NEW b \in Blocks
      PROVE  /\ CellOf(b) \in CellsIn(g, st) <=> g.rt[CellOf(b)] = st
             /\ <<CellOf(b), KidOf(b)>> \in KidsIn(g, st) <=> Is0(g, b) /\ g.recs[R0(g, b)].st[KidOf(b)] = st
             /\ <<<<CellOf(b), KidOf(b)>>, LeafOf(b)>> \in LeavesIn(g, st)
                  <=> Is1(g, b) /\ g.recs[R1(g, b)].st[LeafOf(b)] = st
  <2> DEFINE c == CellOf(b)
             i == KidOf(b)
             j == LeafOf(b)
  <2>1. c \in Cells /\ i \in Kids /\ j \in Kids
    BY OfFacts
  <2>2. (Is0(g, b) => R0(g, b) \in DOMAIN g.recs) /\ (Is1(g, b) => R1(g, b) \in DOMAIN g.recs)
    BY StateTypes
  <2>3. /\ Is0(g, b) <=> g.rt[c] = "refined"
        /\ R0(g, b) = g.ref[c]
        /\ Is1(g, b) <=> Is0(g, b) /\ g.recs[g.ref[c]].st[i] = "refined"
        /\ R1(g, b) = g.recs[g.ref[c]].ref[i]
    BY DEF Is0, R0, Is1, R1
  <2> HIDE DEF c, i, j
  <2>4. \A s : c \in CellsIn(g, s) <=> g.rt[c] = s
    BY <2>1 DEF CellsIn
  <2>5. \A s : <<c, i>> \in KidsIn(g, s) <=> Is0(g, b) /\ g.recs[R0(g, b)].st[i] = s
    BY <2>1, <2>2, <2>3, <2>4 DEF KidsIn
  <2>6. L1At(g, <<c, i>>) = R1(g, b)
    BY <2>3 DEF L1At
  <2>7. <<<<c, i>>, j>> \in LeavesIn(g, st) <=> Is1(g, b) /\ g.recs[R1(g, b)].st[j] = st
    <3> DEFINE k == <<c, i>>
    <3>1. k \in KidsIn(g, "refined") <=> Is1(g, b)
      BY <2>3, <2>5
    <3>2. L1At(g, k) = R1(g, b)
      BY <2>6
    <3> HIDE DEF k
    <3>3. <<k, j>> \in LeavesIn(g, st) <=> Is1(g, b) /\ g.recs[R1(g, b)].st[j] = st
      BY <2>1, <2>2, <3>1, <3>2 DEF LeavesIn
    <3> QED BY <3>3 DEF k
  <2> QED BY <2>4, <2>5, <2>7 DEF c, i, j
<1> QED BY <1>1, <1>2, <1>3, <1>4

(* What it counts is the number of blocks in a state. *)
LEMMA TalliedIs ==
  ASSUME NEW g \in Group, Tree(g), NEW st, st # "refined"
  PROVE  Cardinality(InState(g, {st})) = Tallied(g, st)
<1> DEFINE A == {b \in Blocks : CellOf(b) \in CellsIn(g, st)}
           B == {b \in Blocks : <<CellOf(b), KidOf(b)>> \in KidsIn(g, st)}
           C == {b \in Blocks : <<<<CellOf(b), KidOf(b)>>, LeafOf(b)>> \in LeavesIn(g, st)}
<1>1. /\ CellsIn(g, st) \in SUBSET Cells /\ KidsIn(g, st) \in SUBSET (Cells \X Kids)
      /\ LeavesIn(g, st) \in SUBSET ((Cells \X Kids) \X Kids)
  BY WalkFacts
<1>2. /\ IsFiniteSet(A) /\ Cardinality(A) = Cardinality(CellsIn(g, st)) * CellBlocks
      /\ IsFiniteSet(B) /\ Cardinality(B) = Cardinality(KidsIn(g, st)) * Fanout
      /\ IsFiniteSet(C) /\ Cardinality(C) = Cardinality(LeavesIn(g, st))
  BY <1>1, BlocksOfCells, BlocksOfKids, BlocksOfLeaves
<1>3. \A b \in Blocks :
        /\ b \in A <=> g.rt[CellOf(b)] = st
        /\ b \in B <=> Is0(g, b) /\ g.recs[R0(g, b)].st[KidOf(b)] = st
        /\ b \in C <=> Is1(g, b) /\ g.recs[R1(g, b)].st[LeafOf(b)] = st
  BY WalkFacts
<1>4. A \subseteq Blocks /\ B \subseteq Blocks /\ C \subseteq Blocks
  OBVIOUS
<1> HIDE DEF A, B, C
<1>5. \A b \in Blocks : /\ StateOf(g, b) = st <=> b \in A \/ b \in B \/ b \in C
                        /\ ~(b \in A /\ b \in B) /\ ~(b \in A /\ b \in C) /\ ~(b \in B /\ b \in C)
  <2> TAKE b \in Blocks
  <2>1. /\ ~Is0(g, b) => StateOf(g, b) = g.rt[CellOf(b)]
        /\ Is0(g, b) /\ ~Is1(g, b) => StateOf(g, b) = g.recs[R0(g, b)].st[KidOf(b)]
        /\ Is1(g, b) => StateOf(g, b) = g.recs[R1(g, b)].st[LeafOf(b)]
    BY Unfolded
  <2>2. /\ Is0(g, b) <=> g.rt[CellOf(b)] = "refined"
        /\ Is1(g, b) <=> Is0(g, b) /\ g.recs[R0(g, b)].st[KidOf(b)] = "refined"
    BY DEF Is0, Is1
  <2> QED BY <1>3, <2>1, <2>2
<1>6. InState(g, {st}) = (A \cup B) \cup C
  BY <1>4, <1>5 DEF InState
<1>7. A \cap B = {} /\ (A \cup B) \cap C = {}
  BY <1>4, <1>5
<1>8. IsFiniteSet(A \cup B) /\ Cardinality(A \cup B) = Cardinality(A) + Cardinality(B)
  BY <1>2, <1>7, ApartSizes, Zenon
<1>9. Cardinality((A \cup B) \cup C) = Cardinality(A \cup B) + Cardinality(C)
  BY <1>2, <1>7, <1>8, ApartSizes, Zenon
<1> QED BY <1>2, <1>6, <1>8, <1>9 DEF Tallied

(* A block that is a slot block is in use. *)
LEMMA UsedIs ==
  ASSUME NEW g \in Group, Tree(g)
  PROVE  Cardinality(InState(g, {"full", "refined"})) = Tallied(g, "full") + Cardinality(LeavesIn(g, "refined"))
<1> DEFINE A == InState(g, {"full"})
           B == {b \in Blocks : <<<<CellOf(b), KidOf(b)>>, LeafOf(b)>> \in LeavesIn(g, "refined")}
<1>1. LeavesIn(g, "refined") \in SUBSET ((Cells \X Kids) \X Kids)
  BY WalkFacts
<1>2. IsFiniteSet(B) /\ Cardinality(B) = Cardinality(LeavesIn(g, "refined"))
  BY <1>1, BlocksOfLeaves
<1>3. \A b \in Blocks : b \in B <=> Is2(g, b)
  BY WalkFacts DEF Is2
<1>4. B \subseteq Blocks
  OBVIOUS
<1> HIDE DEF B
<1>5. \A b \in Blocks : b \in B <=> StateOf(g, b) = "refined"
  BY <1>3, StateTypes
<1>6. InState(g, {"full", "refined"}) = A \cup B /\ A \cap B = {}
  BY <1>4, <1>5 DEF InState
<1>7. IsFiniteSet(A) /\ Cardinality(A) \in Nat /\ Cardinality(A) = Tallied(g, "full")
  BY InStateFinite, TalliedIs
<1> HIDE DEF A
<1>8. Cardinality(A \cup B) = Cardinality(A) + Cardinality(B)
  BY <1>2, <1>6, <1>7, ApartSizes, Zenon
<1> QED BY <1>2, <1>6, <1>7, <1>8

LEMMA ReferencedIs ==
  ASSUME NEW g \in Group, Tree(g)
  PROVE  Referenced(g) = DOMAIN g.recs
<1>1. PICK home : TreeBy(g, home)
  BY Zenon DEF Tree
<1>2. \A r : r \in Referenced(g) <=>
        \/ \E c \in CellsIn(g, "refined") : r = g.ref[c]
        \/ \E k \in KidsIn(g, "refined") : r = L1At(g, k)
        \/ \E x \in LeavesIn(g, "refined") : r = L3At(g, x)
  BY DEF Referenced
<1>3. \A b \in Blocks :
        /\ CellOf(b) \in CellsIn(g, "refined") <=> Is0(g, b)
        /\ <<CellOf(b), KidOf(b)>> \in KidsIn(g, "refined") <=> Is1(g, b)
        /\ <<<<CellOf(b), KidOf(b)>>, LeafOf(b)>> \in LeavesIn(g, "refined") <=> Is2(g, b)
  BY WalkFacts DEF Is0, Is1, Is2
<1>4. \A b : /\ g.ref[CellOf(b)] = R0(g, b) /\ L1At(g, <<CellOf(b), KidOf(b)>>) = R1(g, b)
             /\ L3At(g, <<<<CellOf(b), KidOf(b)>>, LeafOf(b)>>) = R2(g, b)
  BY DEF R0, R1, R2, L1At, L3At
<1>5. ASSUME NEW r \in Referenced(g) PROVE r \in DOMAIN g.recs
  <2>1. ASSUME NEW c \in CellsIn(g, "refined"), r = g.ref[c] PROVE r \in DOMAIN g.recs
    BY <1>1, <2>1 DEF CellsIn, TreeBy, Downward
  <2>2. ASSUME NEW k \in KidsIn(g, "refined"), r = L1At(g, k) PROVE r \in DOMAIN g.recs
    <3>1. k = <<k[1], k[2]>> /\ k[1] \in Cells /\ k[2] \in Kids
      BY WalkFacts
    <3>2. PICK b \in Blocks : CellOf(b) = k[1] /\ KidOf(b) = k[2]
      BY <3>1, BlocksType, BlkFacts
    <3>3. k = <<CellOf(b), KidOf(b)>>
      BY <3>1, <3>2
    <3>4. Is1(g, b) /\ r = R1(g, b)
      BY <1>3, <1>4, <2>2, <3>3
    <3> QED BY <3>4, StateTypes
  <2>3. ASSUME NEW x \in LeavesIn(g, "refined"), r = L3At(g, x) PROVE r \in DOMAIN g.recs
    <3>1. x = <<<<x[1][1], x[1][2]>>, x[2]>> /\ x[1][1] \in Cells /\ x[1][2] \in Kids /\ x[2] \in Kids
      BY WalkFacts
    <3>2. PICK b \in Blocks : CellOf(b) = x[1][1] /\ KidOf(b) = x[1][2] /\ LeafOf(b) = x[2]
      BY <3>1, BlkFacts
    <3>3. x = <<<<CellOf(b), KidOf(b)>>, LeafOf(b)>>
      BY <3>1, <3>2
    <3>4. Is2(g, b) /\ r = R2(g, b)
      BY <1>3, <1>4, <2>3, <3>3
    <3> QED BY <3>4, StateTypes
  <2> QED BY <1>2, <2>1, <2>2, <2>3
<1>6. ASSUME NEW r \in DOMAIN g.recs PROVE r \in Referenced(g)
  <2>1. PICK b \in Blocks : CellOf(b) = home[r][2] /\ KidOf(b) = home[r][3] /\ LeafOf(b) = home[r][4]
    BY <1>1, HasBlock
  <2>2. home[r][1] = 0 \/ home[r][1] = 1 \/ home[r][1] = 2
    BY <1>1, HomeFacts
  <2>3. (Is0(g, b) /\ R0(g, b) = r) \/ (Is1(g, b) /\ R1(g, b) = r) \/ (Is2(g, b) /\ R2(g, b) = r)
    BY <1>1, <2>1, <2>2, Up
  <2>4. /\ Is0(g, b) => R0(g, b) \in Referenced(g)
        /\ Is1(g, b) => R1(g, b) \in Referenced(g)
        /\ Is2(g, b) => R2(g, b) \in Referenced(g)
    BY <1>2, <1>3, <1>4
  <2> QED BY <2>3, <2>4
<1> QED BY <1>5, <1>6

LEMMA TallyIs ==
  ASSUME NEW g
  PROVE  LET t == TallyAg(g) IN
         /\ t.free = Tallied(g, "free") /\ t.rsvd = Tallied(g, "rsvd")
         /\ t.full = Tallied(g, "full") + Cardinality(LeavesIn(g, "refined"))
         /\ t.errs = {<<"not marked used", r>> : r \in Referenced(g) \ DOMAIN g.recs}
                       \cup {<<"leak", r>> : r \in {r \in DOMAIN g.recs \ Referenced(g) : r[1] \in {r1[1] : r1 \in Referenced(g)}}}
                       \cup UNION {CheckSlotBlock(g, x[1][1] * CellBlocks + x[1][2] * Fanout + x[2], g.recs[L3At(g, x)]) :
                                     x \in {x \in LeavesIn(g, "refined") : L3At(g, x) \in DOMAIN g.recs}}
BY DEF TallyAg, Tallied, Referenced, CellsIn, KidsIn, LeavesIn, L1At, L3At

(* The slots of a slot block hold what their states say. *)
LEMMA SlotBlockChecked ==
  ASSUME NEW g, Good(g), SlotsFit(g), NEW b \in Blocks, Is2(g, b)
  PROVE  CheckSlotBlock(g, b, g.recs[R2(g, b)]) = {}
<1> DEFINE rec == g.recs[R2(g, b)]
<1>1. rec.st = SlotsOf(g, b) /\ SlotsOf(g, b) \in [Kids -> {"free", "full"}] /\ g \in Group
  BY StateTypes DEF SlotsOf, Good
<1>2. g.slots \in [DOMAIN g.slots -> {"zero", "inode"}]
  BY <1>1, SlotFacts
<1> HIDE DEF rec
<1>3. ASSUME NEW s \in 0 .. Slots - 1
      PROVE  <<b, s>> \in DOMAIN g.slots /\ g.slots[<<b, s>>] = IF rec.st[s] = "full" THEN "inode" ELSE IF rec.st[s] = "free" THEN "zero" ELSE "none"
  <2> DEFINE x == <<b, s>>
  <2>1. x \in DOMAIN g.slots /\ (g.slots[x] = "inode" <=> rec.st[s] = "full")
    BY <1>1 DEF SlotsFit
  <2>2. rec.st[s] \in {"free", "full"}
    BY <1>1, BlocksType
  <2> HIDE DEF x
  <2>3. g.slots[x] = "zero" \/ g.slots[x] = "inode"
    BY <1>2, <2>1
  <2>4. g.slots[x] = IF rec.st[s] = "full" THEN "inode" ELSE IF rec.st[s] = "free" THEN "zero" ELSE "none"
    BY <2>1, <2>2, <2>3
  <2> QED BY <2>1, <2>4 DEF x
<1>4. CheckSlotBlock(g, b, rec) = {}
  BY <1>3 DEF CheckSlotBlock
<1> QED BY <1>4 DEF rec

LEMMA WalkClean ==
  ASSUME NEW g, Good(g), SlotsFit(g)
  PROVE  CheckGroup(g) = {}
<1>1. g \in Group /\ Tree(g) /\ Balanced(g)
  BY DEF Good
<1>2. Referenced(g) = DOMAIN g.recs
  BY <1>1, ReferencedIs
<1> DEFINE t == TallyAg(g)
           A == {<<"not marked used", r>> : r \in Referenced(g) \ DOMAIN g.recs}
           B == {<<"leak", r>> : r \in {r \in DOMAIN g.recs \ Referenced(g) : r[1] \in {r1[1] : r1 \in Referenced(g)}}}
           V == {x \in LeavesIn(g, "refined") : L3At(g, x) \in DOMAIN g.recs}
           At(x) == x[1][1] * CellBlocks + x[1][2] * Fanout + x[2]
           C == UNION {CheckSlotBlock(g, At(x), g.recs[L3At(g, x)]) : x \in V}
<1>3. A = {} /\ B = {}
  BY <1>2
<1>4. C = {}
  <2>1. ASSUME NEW x \in LeavesIn(g, "refined") PROVE CheckSlotBlock(g, At(x), g.recs[L3At(g, x)]) = {}
    <3>1. x = <<<<x[1][1], x[1][2]>>, x[2]>> /\ x[1][1] \in Cells /\ x[1][2] \in Kids /\ x[2] \in Kids
      BY <1>1, WalkFacts
    <3> DEFINE b == Blk(x[1][1], x[1][2], x[2])
    <3>2. b = At(x)
      BY DEF Blk
    <3>3. b \in Blocks /\ CellOf(b) = x[1][1] /\ KidOf(b) = x[1][2] /\ LeafOf(b) = x[2]
      BY <3>1, BlkFacts
    <3> HIDE DEF b
    <3>4. <<<<CellOf(b), KidOf(b)>>, LeafOf(b)>> \in LeavesIn(g, "refined")
      BY <3>1, <3>3
    <3>5. Is2(g, b)
      BY <1>1, <3>3, <3>4, WalkFacts DEF Is2
    <3>6. R2(g, b) = L3At(g, x)
      BY <3>3 DEF R2, R1, R0, L3At, L1At
    <3>7. CheckSlotBlock(g, b, g.recs[R2(g, b)]) = {}
      BY <3>3, <3>5, SlotBlockChecked
    <3> QED BY <3>2, <3>6, <3>7
  <2> HIDE DEF At
  <2> QED BY <2>1
<1>5. t.errs = A \cup B \cup C
  BY TallyIs
<1>6. t.free = g.free /\ t.rsvd = g.rsvd /\ t.full = g.full
  <2>1. t.free = Tallied(g, "free") /\ t.rsvd = Tallied(g, "rsvd")
        /\ t.full = Tallied(g, "full") + Cardinality(LeavesIn(g, "refined"))
    BY TallyIs
  <2>2. /\ Cardinality(InState(g, {"free"})) = Tallied(g, "free")
        /\ Cardinality(InState(g, {"rsvd"})) = Tallied(g, "rsvd")
    BY <1>1, TalliedIs
  <2>3. Cardinality(InState(g, {"full", "refined"})) = Tallied(g, "full") + Cardinality(LeavesIn(g, "refined"))
    BY <1>1, UsedIs
  <2> HIDE DEF t
  <2> QED BY <1>1, <2>1, <2>2, <2>3, Zenon DEF Balanced
<1>7. CheckGroup(g) = t.errs \cup {<<"counter", n>> : n \in {n \in {"free", "rsvd", "full"} : t[n] # g[n]}}
  BY DEF CheckGroup
<1> HIDE DEF t, A, B, C
<1>8. \A n \in {"free", "rsvd", "full"} : t[n] = g[n]
  BY <1>6
<1> QED BY <1>3, <1>4, <1>5, <1>7, <1>8

(* check_allocator of fsck reports nothing of a group, whatever was done   *)
(* to it: its own walk of the tree finds each record referred to, the      *)
(* counters of the header right, and slots that hold what they should.     *)
THEOREM Fsck == Spec => []FsckClean
<1>1. AllocInv => FsckClean
  BY WalkClean DEF AllocInv, FsckClean
<1> QED BY <1>1, AllocInvHolds, PTL

-----------------------------------------------------------------------------
(* When space runs out *)

LEMMA CellFlipped ==
  ASSUME NEW g \in Group, Tree(g), NEW c \in Cells, g.rt[c] = "free"
  PROVE  LET e == [g EXCEPT !.rt[c] = "refined"]
         IN /\ e \in Group /\ InTables(e) /\ ArenaSound(e)
            /\ ArenaRoom(e) = ArenaRoom(g) /\ FreeCells(e) = FreeCells(g) \ {c}
            /\ e.rt[c] = "refined" /\ \A d \in Cells \ {c} : e.rt[d] = g.rt[d]
<1> DEFINE e == [g EXCEPT !.rt[c] = "refined"]
<1>1. /\ e \in Group /\ InTables(e) /\ ArenaSound(e) /\ e.rt[c] = "refined"
      /\ ArenaRoom(e) = ArenaRoom(g) /\ FreeCells(e) = FreeCells(g) \ {c}
  BY Flipped
<1>2. \A d \in Cells \ {c} : e.rt[d] = g.rt[d]
  BY Flipped
<1> QED BY <1>1, <1>2

(* A record taken leaves a new arena with room, and an old one with what   *)
(* room there was in the other table blocks.                               *)
LEMMA RoomLeft ==
  ASSUME NEW g, Good(g), NEW c \in Cells, g.rt[c] = "free", NEW h, h = RefineL0(g, c).g, RefineL0(g, c).ok,
         ArenaRoom(h) = {}, FreeCells(h) = {}
  PROVE  FreeCells(g) = {c} /\ \E b : ArenaRoom(g) \subseteq {b}
<1> DEFINE e == [g EXCEPT !.rt[c] = "refined"]
           a == AllocRecord(e)
           q == a.g
           r == a.val
<1>1. g \in Group /\ Tree(g)
  BY DEF Good
<1>2. /\ e \in Group /\ InTables(e) /\ ArenaSound(e)
      /\ ArenaRoom(e) = ArenaRoom(g) /\ FreeCells(e) = FreeCells(g) \ {c}
      /\ e.rt[c] = "refined" /\ \A d \in Cells \ {c} : e.rt[d] = g.rt[d]
  BY <1>1, CellFlipped
<1>3. RefineL0(g, c) = IF a.ok THEN Done([q EXCEPT !.ref[c] = r], r) ELSE a
  BY Zenon DEF RefineL0, Then
<1>4. a.ok => q \in Group /\ \E f \in Group : Reserved(e, f) /\ Fresh(f, r) /\ RecordTaken(f, q, r)
  <2> HIDE DEF e
  <2> QED BY <1>2, AllocRecordDone
<1>5. e.recs = g.recs /\ e.arena = g.arena
  <2>1. e = [g EXCEPT !.rt[c] = "refined"]
    OBVIOUS
  <2> HIDE DEF e
  <2> QED BY <1>1, <2>1, WithRtFacts DEF States
<1> HIDE DEF a
<1>6. a.ok
  BY <1>3
<1>7. h = [q EXCEPT !.ref[c] = r]
  BY <1>3, <1>6 DEF Done
<1> HIDE DEF q, r, e
<1>8. PICK f \in Group : Reserved(e, f) /\ Fresh(f, r) /\ RecordTaken(f, q, r)
  BY <1>4, <1>6
<1>9. q.rt = f.rt /\ q.arena = f.arena /\ DOMAIN q.recs = DOMAIN g.recs \cup {r} /\ q \in Group /\ r \in Refs
  BY <1>4, <1>5, <1>6, <1>8 DEF RecordTaken, OnlyRecs, Reserved, Fresh
<1>10. h.rt = f.rt /\ h.arena = f.arena /\ DOMAIN h.recs = DOMAIN g.recs \cup {r}
  BY <1>7, <1>9 DEF Group
<1>11. CASE OldArena(e, f)
  <2>1. h.rt = e.rt /\ h.arena = g.arena
    BY <1>5, <1>10, <1>11 DEF OldArena
  <2>2. FreeCells(h) = FreeCells(g) \ {c}
    BY <1>2, <2>1 DEF FreeCells
  <2>3. FreeCells(g) = {c}
    <3>1. c \in FreeCells(g)
      BY DEF FreeCells
    <3> QED BY <2>2, <3>1
  <2>4. ASSUME NEW b \in ArenaRoom(g), b # r[1] PROVE FALSE
    <3>1. b \in Arena(g) /\ \E i \in 0 .. RecordsPerBlock - 1 : <<b, i>> \notin DOMAIN g.recs
      BY DEF ArenaRoom
    <3>2. PICK i \in 0 .. RecordsPerBlock - 1 : <<b, i>> \notin DOMAIN g.recs
      BY <3>1
    <3>3. <<b, i>>[1] = b
      OBVIOUS
    <3>4. <<b, i>> # r
      BY <2>4, <3>3
    <3>5. b \in Arena(h) /\ <<b, i>> \notin DOMAIN h.recs
      BY <1>10, <2>1, <3>1, <3>2, <3>4 DEF Arena
    <3> QED BY <3>5 DEF ArenaRoom
  <2> QED BY <2>3, <2>4
<1>12. ASSUME NEW d \in Cells, NewArena(e, f, d) PROVE FALSE
  <2>1. d \in FreeCells(e) /\ h.arena = d * CellBlocks
    BY <1>10, <1>12 DEF NewArena
  <2>2. g.rt[d] = "free" /\ d # 0
    BY <1>1, <1>2, <2>1, TreeFacts DEF FreeCells
  <2> DEFINE x == Blk(d, 0, 0)
             y == Blk(d, 0, 1)
  <2>3. /\ x = d * CellBlocks /\ y = d * CellBlocks + 1 /\ x \in Nat /\ x # 0
        /\ CellOf(x) = d /\ CellOf(y) = d /\ x \in Blocks /\ y \in Blocks
    <3>1. d \in Nat \ {0} /\ d * CellBlocks \in Nat /\ d * CellBlocks # 0
      BY <2>2, BlocksType, Sizes2
    <3>2. 0 \in Kids /\ 1 \in Kids
      BY BlocksType
    <3>3. Blk(d, 0, 0) = d * CellBlocks /\ Blk(d, 0, 1) = d * CellBlocks + 1
      BY <3>1, Sizes2 DEF Blk
    <3> QED BY <3>1, <3>2, <3>3, BlkFacts
  <2> HIDE DEF x, y
  <2>4. Arena(h) = x .. x + CellBlocks - 1
    BY <2>1, <2>3 DEF Arena
  <2>5. x \in Arena(h) /\ y \in Arena(h)
    BY <2>3, <2>4, Sizes2
  <2>6. \A b : CellOf(b) = d => <<b, 0>> \notin DOMAIN g.recs
    <3>1. \A s \in DOMAIN g.recs : g.rt[CellOf(s[1])] = "rsvd"
      BY <1>1, TreeFacts DEF InTables
    <3>2. \A b : <<b, 0>>[1] = b
      OBVIOUS
    <3> QED BY <2>2, <3>1, <3>2
  <2>7. <<x, 0>> # r \/ <<y, 0>> # r
    <3>1. x # y
      BY <2>3
    <3> QED BY <3>1
  <2>8. <<x, 0>> \notin DOMAIN h.recs \/ <<y, 0>> \notin DOMAIN h.recs
    BY <1>10, <2>3, <2>6, <2>7
  <2> QED BY <2>5, <2>8, BlocksType DEF ArenaRoom
<1> QED BY <1>8, <1>11, <1>12 DEF Reserved

LEMMA AtMostOne ==
  ASSUME NEW S, NEW x, S \subseteq {x}
  PROVE  Cardinality(S) <= 1
<1>1. IsFiniteSet({x}) /\ Cardinality({x}) = 1
  BY FS_Singleton
<1>2. S \in SUBSET {x}
  OBVIOUS
<1> QED BY <1>1, <1>2, FS_Subset

(* Pass 3 fails when there is one free cell and at most one table block    *)
(* has a record left.                                                      *)
LEMMA RefineFreeCellFails ==
  ASSUME NEW g, Good(g), NEW n, NEW c \in FreeCells(g), ~RefineFreeCell(g, c, n).ok
  PROVE  Cardinality(FreeCells(g)) <= 1 /\ Cardinality(ArenaRoom(g)) <= 1
<1> DEFINE a == RefineL0(g, c)
           d == RefineL1(a.g, a.val, 0)
<1>1. c \in Cells /\ g.rt[c] = "free" /\ 0 \in Kids
  BY BlocksType DEF FreeCells
<1>2. (a.ok <=> ArenaRoom(g) # {} \/ FreeCells(g) \ {c} # {}) /\ (a.ok => CellRefined(g, a.g, c, a.val))
  BY <1>1, RefineL0Done
<1>3. RefineFreeCell(g, c, n).ok <=> a.ok /\ d.ok
  BY DEF RefineFreeCell, Then, Done
<1>4. CASE ~a.ok
  <2>1. ArenaRoom(g) \subseteq {c} /\ FreeCells(g) \subseteq {c}
    BY <1>2, <1>4
  <2> QED BY <2>1, AtMostOne
<1>5. CASE a.ok /\ ~d.ok
  <2> DEFINE h == a.g
             p == a.val
  <2>1. /\ Good(h) /\ h.rt[c] = "refined" /\ h.ref[c] = p
        /\ \A j \in Kids : h.recs[p].st[j] = "free"
    <3> HIDE DEF a
    <3>1. CellRefined(g, h, c, p)
      BY <1>2, <1>5
    <3> HIDE DEF h, p
    <3> QED BY <3>1, ZeroFacts DEF CellRefined, OneLoose, ZeroRecord
  <2>2. d.ok <=> ArenaRoom(h) # {} \/ FreeCells(h) # {}
    <3> HIDE DEF a
    <3> DEFINE z == 0
    <3>1. z \in Kids /\ h.recs[p].st[z] = "free"
      BY <1>1, <2>1
    <3> HIDE DEF z
    <3>2. d.ok <=> RefineL1(h, p, z).ok
      BY DEF z
    <3> HIDE DEF h, p, d
    <3>3. RefineL1(h, p, z).ok <=> ArenaRoom(h) # {} \/ FreeCells(h) # {}
      BY <1>1, <2>1, <3>1, RefineL1Done
    <3> QED BY <3>2, <3>3
  <2>3. FreeCells(g) = {c} /\ \E b : ArenaRoom(g) \subseteq {b}
    <3> HIDE DEF d
    <3>1. ArenaRoom(h) = {} /\ FreeCells(h) = {}
      BY <1>5, <2>2
    <3> QED BY <1>1, <1>5, <3>1, RoomLeft
  <2> QED BY <2>3, AtMostOne
<1> QED BY <1>3, <1>4, <1>5

(* Pass 1 takes a run that it saw, and pass 2 fails only for want of a     *)
(* record.                                                                 *)
LEMMA TakeRunSucceeds ==
  ASSUME NEW g, Good(g), NEW n, NEW c \in Refined(g)
  PROVE  TakeRun(g, c, n).ok
<1>1. Readable(g, c)
  BY CellRecord DEF Readable, Good, Tree, Refined
<1> QED BY <1>1 DEF TakeRun, Done

LEMMA RefineFreeKidFails ==
  ASSUME NEW g, Good(g), NEW n, NEW c \in Refined(g), FreeKids(g.recs[g.ref[c]]) # {},
         ~RefineFreeKid(g, c, n).ok
  PROVE  ArenaRoom(g) = {} /\ FreeCells(g) = {}
<1> DEFINE p == g.ref[c]
           i == Min(FreeKids(g.recs[p]))
           a == RefineL1(g, p, i)
<1>1. c \in Cells /\ g.rt[c] = "refined" /\ Tree(g)
  BY DEF Good, Refined
<1>2. Readable(g, c)
  BY <1>1, CellRecord DEF Readable, Tree
<1>3. RefineFreeKid(g, c, n).ok <=> a.ok
  BY <1>2 DEF RefineFreeKid, Then, Done
<1>4. i \in Kids /\ g.recs[p].st[i] = "free"
  <2>1. FreeKids(g.recs[p]) \in SUBSET Nat
    BY BlocksType DEF FreeKids
  <2>2. i \in FreeKids(g.recs[p])
    BY <2>1, MinIsLeast
  <2> QED BY <2>2 DEF FreeKids
<1> HIDE DEF i
<1>5. a.ok <=> ArenaRoom(g) # {} \/ FreeCells(g) # {}
  BY <1>1, <1>4, RefineL1Done
<1> QED BY <1>3, <1>5

LEMMA AllocL2Fails ==
  ASSUME NEW g, Good(g), NEW n, ~AllocL2(g, n).ok
  PROVE  /\ \A c \in Refined(g) : KidsWithRun(g, g.recs[g.ref[c]], n) = {}
         /\ Cardinality(FreeCells(g)) <= 1
         /\ (FreeCells(g) # {} \/ \E c \in Refined(g) : FreeKids(g.recs[g.ref[c]]) # {})
              => Cardinality(ArenaRoom(g)) <= 1
<1> DEFINE withRun == {c \in Refined(g) : Readable(g, c) => KidsWithRun(g, g.recs[g.ref[c]], n) # {}}
           withKid == {c \in Refined(g) : Readable(g, c) => FreeKids(g.recs[g.ref[c]]) # {}}
<1>1. g \in Group /\ Tree(g) /\ Refined(g) \subseteq Cells
  BY DEF Good, Refined
<1>2. \A c \in Refined(g) : Readable(g, c)
  BY <1>1, CellRecord DEF Readable, Tree, Refined
<1>3. WithFreeKid(g) = withKid /\ withKid \subseteq Cells /\ withRun \subseteq Cells
  BY <1>1 DEF WithFreeKid, Scan
<1>4. AllocL2(g, n) =
        IF withRun # {} THEN TakeRun(g, FirstFrom(withRun, g.cellHint), n)
        ELSE IF withKid # {} THEN RefineFreeKid(g, FirstFrom(withKid, g.cellHint), n)
        ELSE IF FreeCells(g) # {} THEN RefineFreeCell(g, Min(FreeCells(g)), n)
        ELSE Failed(g)
  BY <1>3 DEF AllocL2, Scan
<1>5. \A c \in withRun : c \in Refined(g)
  OBVIOUS
<1>6. \A c \in withKid : c \in Refined(g) /\ FreeKids(g.recs[g.ref[c]]) # {}
  BY <1>2
<1>7. withRun = {} => \A c \in Refined(g) : KidsWithRun(g, g.recs[g.ref[c]], n) = {}
  OBVIOUS
<1>8. withKid = {} => \A c \in Refined(g) : FreeKids(g.recs[g.ref[c]]) = {}
  OBVIOUS
<1>9. Cardinality({}) <= 1
  BY FS_EmptySet
<1> HIDE DEF withRun, withKid
<1>10. withRun = {}
  <2>1. SUFFICES ASSUME withRun # {} PROVE FALSE
    OBVIOUS
  <2>2. FirstFrom(withRun, g.cellHint) \in withRun
    BY <1>1, <1>3, <2>1, FirstCell
  <2> DEFINE c == FirstFrom(withRun, g.cellHint)
  <2>3. c \in Refined(g) /\ AllocL2(g, n) = TakeRun(g, c, n)
    BY <1>4, <1>5, <2>1, <2>2
  <2> HIDE DEF c
  <2> QED BY <2>3, TakeRunSucceeds
<1>11. CASE withKid # {}
  <2> DEFINE c == FirstFrom(withKid, g.cellHint)
  <2>1. c \in withKid
    BY <1>1, <1>3, <1>11, FirstCell
  <2>2. c \in Refined(g) /\ FreeKids(g.recs[g.ref[c]]) # {} /\ AllocL2(g, n) = RefineFreeKid(g, c, n)
    BY <1>4, <1>6, <1>10, <1>11, <2>1
  <2> HIDE DEF c
  <2>3. ArenaRoom(g) = {} /\ FreeCells(g) = {}
    BY <2>2, RefineFreeKidFails
  <2> QED BY <1>7, <1>9, <1>10, <2>3
<1>12. CASE withKid = {} /\ FreeCells(g) # {}
  <2> DEFINE c == Min(FreeCells(g))
  <2>1. c \in FreeCells(g)
    BY <1>12, FreeCellsFacts DEF FreeCells
  <2>2. AllocL2(g, n) = RefineFreeCell(g, c, n)
    BY <1>4, <1>10, <1>12
  <2> HIDE DEF c
  <2>3. Cardinality(FreeCells(g)) <= 1 /\ Cardinality(ArenaRoom(g)) <= 1
    BY <2>1, <2>2, RefineFreeCellFails
  <2> QED BY <1>7, <1>10, <2>3
<1>13. CASE withKid = {} /\ FreeCells(g) = {}
  BY <1>7, <1>8, <1>9, <1>10, <1>13
<1> QED BY <1>11, <1>12, <1>13

(* A small allocation is refused only when space really ran out: no L1     *)
(* cell has a run of that size, and to refine another there is no free     *)
(* cell or no record (but for the one cell and the one table block that    *)
(* refining would itself take).                                            *)
THEOREM NoSpaceIsTrue == Spec => []NoFalseENOSPC
<1>1. AllocInv => NoFalseENOSPC
  <2>1. SUFFICES ASSUME Good(ag), NEW n \in 1 .. Fanout, ~AllocExtent(ag, n).ok
                 PROVE  /\ \A c \in Refined(ag) : KidsWithRun(ag, ag.recs[ag.ref[c]], n) = {}
                        /\ Cardinality(FreeCells(ag)) <= 1
                        /\ (FreeCells(ag) # {} \/ \E c \in Refined(ag) : FreeKids(ag.recs[ag.ref[c]]) # {})
                             => Cardinality(ArenaRoom(ag)) <= 1
    BY Zenon DEF AllocInv, NoFalseENOSPC
  <2>2. ~(n >= CellBlocks) /\ ~(n > Fanout)
    BY Sizes2
  <2>3. AllocExtent(ag, n) = AllocL2(ag, n)
    BY <2>2 DEF AllocExtent
  <2> QED BY <2>1, <2>3, AllocL2Fails
<1> QED BY <1>1, AllocInvHolds, PTL
=============================================================================
