--------------------------- MODULE DirectoryProof ---------------------------
(***************************************************************************)
(* Theorems about Directory, for every set of names, every hash, room and  *)
(* depth: extendible hashing stays well formed, finds what it lists,       *)
(* shrinks again, and implements a map from names to inodes.               *)
(*                                                                         *)
(* Splits, doublings, merges and halvings are repeated by recursive        *)
(* functions; what they keep is shown by induction over sets of numbers.   *)
(***************************************************************************)
EXTENDS Directory, SequenceTheorems, FiniteSetTheorems, WellFoundedInduction, TLAPS

-----------------------------------------------------------------------------
(* Induction, and functions defined by it                                  *)

LEMMA LeastNumber ==
  ASSUME NEW T \in SUBSET Nat, NEW n \in T
  PROVE  \E x \in T : \A y \in T : x <= y
<1>1. PICK x \in T : \A y \in T : ~(<<y, x>> \in OpToRel(<, Nat))
  BY NatLessThanWellFounded, WFMin
<1>2. \A y \in T : ~(y < x)
  BY <1>1 DEF OpToRel
<1> QED BY <1>2

LEMMA Induction ==
  ASSUME NEW T \in SUBSET Nat, 0 \in T, \A n \in T : n + 1 \in T
  PROVE  T = Nat
<1> SUFFICES ASSUME NEW m \in Nat \ T PROVE FALSE
  OBVIOUS
<1>1. PICK x \in Nat \ T : \A y \in Nat \ T : x <= y
  BY LeastNumber
<1>2. x # 0
  OBVIOUS
<1>3. x - 1 \in Nat /\ x - 1 \in T
  BY <1>1, <1>2
<1>4. (x - 1) + 1 \in T
  BY <1>3
<1> QED BY <1>1, <1>4

Iterates(f, S, a, g) == f \in [Nat -> S] /\ f[0] = a /\ \A n \in Nat : f[n + 1] = g[n][f[n]]

(* There is a function whose values are found in turn, each by a step g[n]. *)
LEMMA RecursionExists ==
  ASSUME NEW S, NEW a \in S, NEW g \in [Nat -> [S -> S]]
  PROVE  \E f : Iterates(f, S, a, g)
<1> DEFINE Part(n, f) == f[0] = a /\ \A k \in 0 .. n - 1 : f[k + 1] = g[k][f[k]]
           T == {n \in Nat : \E f \in [0 .. n -> S] : Part(n, f)}
<1>1. 0 \in T
  <2>1. [k \in 0 .. 0 |-> a] \in [0 .. 0 -> S] /\ Part(0, [k \in 0 .. 0 |-> a])
    OBVIOUS
  <2> QED BY <2>1
<1>2. ASSUME NEW n \in T PROVE n + 1 \in T
  <2>1. PICK f \in [0 .. n -> S] : Part(n, f)
    OBVIOUS
  <2> DEFINE h == [k \in 0 .. n + 1 |-> IF k = n + 1 THEN g[n][f[n]] ELSE f[k]]
  <2>2. n \in Nat /\ f[n] \in S
    OBVIOUS
  <2>3. h \in [0 .. n + 1 -> S]
    BY <2>2
  <2>4. h[0] = a
    BY <2>1, <2>2
  <2>5. ASSUME NEW k \in 0 .. n PROVE h[k+1] = g[k][h[k]]
    <3>1. CASE k = n
      BY <2>2, <3>1
    <3>2. CASE k # n
      BY <2>1, <2>2, <3>2
    <3> QED BY <3>1, <3>2
  <2> HIDE DEF h
  <2>6. Part(n + 1, h)
    BY <2>2, <2>4, <2>5
  <2>7. n + 1 \in Nat
    BY <2>2
  <2> QED BY <2>3, <2>6, <2>7, Zenon
<1>3. T = Nat
  <2>1. T \in SUBSET Nat
    OBVIOUS
  <2> HIDE DEF T
  <2> QED BY <1>1, <1>2, <2>1, Induction
<1>4. \A n \in Nat : \E f \in [0 .. n -> S] : Part(n, f)
  BY <1>3
<1> DEFINE P(n) == CHOOSE f \in [0 .. n -> S] : Part(n, f)
<1>5. \A n \in Nat : P(n) \in [0 .. n -> S] /\ Part(n, P(n))
  BY <1>4
<1> HIDE DEF P, T
<1>6. ASSUME NEW n \in Nat, NEW m \in Nat, n <= m, NEW k \in 0 .. n PROVE P(n)[k] = P(m)[k]
  <2> DEFINE U == {j \in Nat : j <= n => P(n)[j] = P(m)[j]}
  <2>1. 0 \in U
    BY <1>5, <1>6
  <2>2. ASSUME NEW j \in U PROVE j + 1 \in U
    <3> SUFFICES ASSUME j + 1 <= n PROVE P(n)[j+1] = P(m)[j+1]
      OBVIOUS
    <3>1. j \in 0 .. n - 1 /\ j \in 0 .. m - 1
      BY <1>6
    <3>2. P(n)[j] = P(m)[j]
      BY <3>1
    <3> QED BY <1>5, <3>1, <3>2
  <2>3. U = Nat
    <3>1. U \in SUBSET Nat
      OBVIOUS
    <3> HIDE DEF U
    <3> QED BY <2>1, <2>2, <3>1, Induction
  <2>4. k \in U
    BY <2>3
  <2> QED BY <2>4
<1> DEFINE F == [n \in Nat |-> P(n)[n]]
<1>7. F \in [Nat -> S]
  BY <1>5
<1>8. F[0] = a
  BY <1>5
<1>9. ASSUME NEW n \in Nat PROVE F[n + 1] = g[n][F[n]]
  <2>1. P(n+1)[n] = P(n)[n]
    BY <1>6
  <2>2. P(n+1)[n + 1] = g[n][P(n+1)[n]]
    BY <1>5
  <2> QED BY <2>1, <2>2
<1> QED BY <1>7, <1>8, <1>9 DEF Iterates

LEMMA Pow2Steps == Pow2[0] = 1 /\ \A n \in Nat : Pow2[n + 1] = 2 * Pow2[n]
<1> DEFINE h == [n \in Nat |-> [k \in Nat |-> 2 * k]]
<1>1. h \in [Nat -> [Nat -> Nat]] /\ 1 \in Nat /\ \A n, k \in Nat : h[n][k] = 2 * k
  OBVIOUS
<1> HIDE DEF h
<1>2. PICK f : Iterates(f, Nat, 1, h)
  BY <1>1, RecursionExists
<1>3. f = [n \in Nat |-> IF n = 0 THEN 1 ELSE 2 * f[n - 1]]
  <2>1. \A n \in Nat : f[n] \in Nat /\ f[n + 1] = h[n][f[n]]
    BY <1>2 DEF Iterates
  <2>2. \A n \in Nat \ {0} : n - 1 \in Nat /\ (n - 1) + 1 = n
    OBVIOUS
  <2>3. \A n \in Nat \ {0} : f[n] = 2 * f[n - 1]
    BY <1>1, <2>1, <2>2
  <2> QED BY <1>2, <2>3 DEF Iterates
<1>4. Pow2 = [n \in Nat |-> IF n = 0 THEN 1 ELSE 2 * Pow2[n - 1]]
  BY <1>3 DEF Pow2
<1> HIDE DEF Pow2
<1>5. \A n \in Nat : Pow2[n + 1] = 2 * Pow2[n]
  BY <1>4
<1> QED BY <1>4, <1>5

-----------------------------------------------------------------------------
(* Powers of two, and division by them                                     *)

LEMMA Pow2Facts ==
  /\ Pow2[0] = 1
  /\ \A n \in Nat : Pow2[n] \in Nat \ {0} /\ Pow2[n + 1] = 2 * Pow2[n]
<1> DEFINE T == {n \in Nat : Pow2[n] \in Nat \ {0}}
<1>1. 0 \in T
  BY Pow2Steps
<1>2. ASSUME NEW n \in T PROVE n + 1 \in T
  BY Pow2Steps
<1>3. T = Nat
  <2>1. T \in SUBSET Nat
    OBVIOUS
  <2> HIDE DEF T
  <2> QED BY <1>1, <1>2, <2>1, Induction
<1> QED BY <1>3, Pow2Steps

LEMMA Pow2Sum ==
  ASSUME NEW a \in Nat, NEW b \in Nat
  PROVE  Pow2[a] * Pow2[b] = Pow2[a + b]
<1> DEFINE T == {n \in Nat : Pow2[a] * Pow2[n] = Pow2[a + n]}
<1>1. 0 \in T
  BY Pow2Facts
<1>2. ASSUME NEW n \in T PROVE n + 1 \in T
  <2>1. n \in Nat /\ a + n \in Nat /\ a + (n + 1) = (a + n) + 1
    OBVIOUS
  <2>2. Pow2[n + 1] = 2 * Pow2[n] /\ Pow2[(a + n) + 1] = 2 * Pow2[a + n]
    BY <2>1, Pow2Facts
  <2>3. Pow2[a] \in Nat /\ Pow2[n] \in Nat /\ Pow2[a + n] \in Nat
    BY <2>1, Pow2Facts
  <2>4. \A x, y \in Nat : x * (2 * y) = 2 * (x * y)
    OBVIOUS
  <2>5. Pow2[a] * Pow2[n + 1] = 2 * (Pow2[a] * Pow2[n])
    BY <2>2, <2>3, <2>4
  <2> QED BY <2>1, <2>2, <2>5
<1>3. T = Nat
  <2>1. T \in SUBSET Nat
    OBVIOUS
  <2> HIDE DEF T
  <2> QED BY <1>1, <1>2, <2>1, Induction
<1> QED BY <1>3

LEMMA Pow2Parts ==
  ASSUME NEW d \in Nat, NEW k \in 0 .. d
  PROVE  /\ Pow2[k] \in Nat \ {0} /\ Pow2[d - k] \in Nat \ {0} /\ Pow2[d] \in Nat \ {0}
         /\ Pow2[k] * Pow2[d - k] = Pow2[d]
<1>1. k \in Nat /\ d - k \in Nat /\ k + (d - k) = d
  OBVIOUS
<1>2. Pow2[k] * Pow2[d - k] = Pow2[k + (d - k)]
  BY <1>1, Pow2Sum, Zenon
<1>3. Pow2[k] \in Nat \ {0} /\ Pow2[d - k] \in Nat \ {0} /\ Pow2[d] \in Nat \ {0}
  BY <1>1, Pow2Facts
<1> QED BY <1>1, <1>2, <1>3

LEMMA DivFacts ==
  ASSUME NEW s \in Nat, NEW k \in Nat \ {0}
  PROVE  /\ s \div k \in Nat
         /\ k * (s \div k) <= s /\ s < k * (s \div k) + k
         /\ \A q \in Nat : k * q <= s /\ s < k * q + k => s \div k = q
OBVIOUS

LEMMA Cancel ==
  ASSUME NEW k \in Nat \ {0}, NEW x \in Int, NEW y \in Int, k * x < k * y
  PROVE  x < y
<1> SUFFICES ASSUME y <= x PROVE FALSE
  OBVIOUS
<1>1. x - y \in Nat
  OBVIOUS
<1>2. k * (x - y) \in Nat
  BY <1>1
<1>3. k * (x - y) = k * x - k * y
  OBVIOUS
<1>4. k * x \in Int /\ k * y \in Int
  OBVIOUS
<1> QED BY <1>2, <1>3, <1>4

(* To divide by a and then by b is to divide by their product. *)
LEMMA DivTwice ==
  ASSUME NEW s \in Nat, NEW a \in Nat \ {0}, NEW b \in Nat \ {0}
  PROVE  (s \div a) \div b = s \div (a * b)
<1> DEFINE r == s \div a
           q == s \div (a * b)
<1>1. a * b \in Nat \ {0}
  OBVIOUS
<1>2. r \in Nat /\ a * r <= s /\ s < a * r + a
  BY DivFacts
<1>3. q \in Nat /\ (a * b) * q <= s /\ s < (a * b) * q + a * b
  BY <1>1, DivFacts
<1> HIDE DEF r, q
<1>4. (a * b) * q = a * (b * q) /\ (a * b) * q + a * b = a * (b * q + b) /\ a * r + a = a * (r + 1)
  BY <1>2, <1>3
<1>5. b * q \in Nat /\ a * r \in Nat /\ a * (b * q) \in Nat /\ a * (b * q + b) \in Nat /\ a * (r + 1) \in Nat
  BY <1>2, <1>3
<1>6. a * (b * q) < a * (r + 1) /\ a * r < a * (b * q + b)
  BY <1>2, <1>3, <1>4, <1>5
<1>7. b * q < r + 1 /\ r < b * q + b
  BY <1>2, <1>5, <1>6, Cancel
<1>8. b * q <= r
  BY <1>2, <1>5, <1>7
<1>9. r \div b = q
  BY <1>2, <1>3, <1>7, <1>8, DivFacts
<1> QED BY <1>9 DEF r, q

LEMMA Parity ==
  ASSUME NEW q \in Nat
  PROVE  q % 2 \in {0, 1} /\ q % 2 = q - 2 * (q \div 2) /\ q \div 2 \in Nat
OBVIOUS


LEMMA Monotone ==
  ASSUME NEW k \in Nat, NEW x \in Nat, NEW y \in Nat, x <= y
  PROVE  k * x <= k * y
<1>1. k * (y - x) \in Nat
  OBVIOUS
<1>2. k * (y - x) = k * y - k * x
  OBVIOUS
<1> QED BY <1>1, <1>2

LEMMA Halves ==
  ASSUME NEW s \in Nat, NEW k \in Nat
  PROVE  s \div Pow2[k] \in Nat /\ s \div Pow2[k + 1] = (s \div Pow2[k]) \div 2
<1>1. Pow2[k] \in Nat \ {0} /\ 2 \in Nat \ {0} /\ Pow2[k + 1] = Pow2[k] * 2
  BY Pow2Facts
<1>2. (s \div Pow2[k]) \div 2 = s \div (Pow2[k] * 2)
  BY <1>1, DivTwice, Zenon
<1>3. s \div Pow2[k] \in Nat
  BY <1>1
<1> QED BY <1>1, <1>2, <1>3

(* The leading bits of a number of d bits. *)
LEMMA Leading ==
  ASSUME NEW d \in Nat, NEW k \in 0 .. d, NEW s \in 0 .. Pow2[d] - 1
  PROVE  s \div Pow2[k] \in 0 .. Pow2[d - k] - 1
<1> DEFINE a == Pow2[k]
           b == Pow2[d - k]
           q == s \div a
<1>1. k \in Nat /\ d - k \in Nat /\ k + (d - k) = d
  OBVIOUS
<1>2. a \in Nat \ {0} /\ b \in Nat \ {0} /\ a * b = Pow2[d] /\ Pow2[d] \in Nat
  BY Pow2Parts
<1>3. s \in Nat /\ s < a * b
  BY <1>2
<1> HIDE DEF a, b
<1>4. q \in Nat /\ a * q <= s
  BY <1>2, <1>3, DivFacts
<1> HIDE DEF q
<1>5. a * q \in Nat /\ a * b \in Nat
  BY <1>2, <1>4
<1>6. q < b
  BY <1>2, <1>3, <1>4, <1>5, Cancel
<1> QED BY <1>2, <1>4, <1>6 DEF a, b, q

(* The same bits but the last is the same number, but for the last bit. *)
LEMMA SameHalf ==
  ASSUME NEW q \in Nat, NEW r \in Nat, q \div 2 = r \div 2
  PROVE  q % 2 = r % 2 <=> q = r
BY Parity

(* The other half of the 2^(k + 1) numbers around s. *)
Other(s, k) == IF (s \div Pow2[k]) % 2 = 0 THEN s + Pow2[k] ELSE s - Pow2[k]

LEMMA OtherFacts ==
  ASSUME NEW d \in Nat, NEW k \in Nat, k < d, NEW s \in 0 .. Pow2[d] - 1
  PROVE  /\ Other(s, k) \in 0 .. Pow2[d] - 1
         /\ Other(s, k) \div Pow2[k + 1] = s \div Pow2[k + 1]
         /\ (Other(s, k) \div Pow2[k]) % 2 # (s \div Pow2[k]) % 2
         /\ \A u \in Nat : u \div Pow2[k + 1] = s \div Pow2[k + 1] =>
              u \div Pow2[k] \in {s \div Pow2[k], Other(s, k) \div Pow2[k]}
<1> DEFINE p == Pow2[k]
           q == s \div p
           v == Other(s, k)
           c == IF q % 2 = 0 THEN q + 1 ELSE q - 1
<1>1. s \in Nat /\ p \in Nat \ {0} /\ Pow2[d] \in Nat
  BY Pow2Facts
<1>2. v = IF q % 2 = 0 THEN s + p ELSE s - p
  BY DEF Other
<1> HIDE DEF p, v
<1>3. q \in Nat /\ p * q <= s /\ s < p * q + p
  BY <1>1, DivFacts
<1> HIDE DEF q
<1>4. c \in Nat /\ c \div 2 = q \div 2 /\ c % 2 # q % 2 /\ c # q
  BY <1>3, Parity
<1>5. v \in Nat /\ v \div p = c
  <2>1. CASE q % 2 = 0
    <3>1. v = s + p /\ c = q + 1 /\ p * c = p * q + p
      BY <1>1, <1>2, <1>3, <2>1
    <3> HIDE DEF c
    <3>2. v \in Nat /\ p * c <= v /\ v < p * c + p
      BY <1>1, <1>3, <3>1
    <3> QED BY <1>1, <1>4, <3>2, DivFacts
  <2>2. CASE q % 2 # 0
    <3>1. v = s - p /\ c = q - 1 /\ p * c = p * q - p /\ q >= 1
      BY <1>1, <1>2, <1>3, <2>2, Parity
    <3> HIDE DEF c
    <3>2. p * c \in Nat
      BY <1>1, <1>4
    <3>3. v \in Nat /\ p * c <= v /\ v < p * c + p
      BY <1>1, <1>3, <3>1, <3>2
    <3> QED BY <1>1, <1>4, <3>3, DivFacts
  <2> QED BY <2>1, <2>2
<1> HIDE DEF c
<1>6. s \div Pow2[k + 1] = q \div 2 /\ v \div Pow2[k + 1] = q \div 2
  <2>1. s \div Pow2[k + 1] = (s \div Pow2[k]) \div 2 /\ v \div Pow2[k + 1] = (v \div Pow2[k]) \div 2
    BY <1>1, <1>5, Halves
  <2> QED BY <1>4, <1>5, <2>1 DEF p, q
<1>7. v < Pow2[d]
  <2> DEFINE a == Pow2[k + 1]
             b == Pow2[d - (k + 1)]
             t == s \div a
  <2>1. k + 1 \in 0 .. d /\ d - (k + 1) \in Nat /\ (k + 1) + (d - (k + 1)) = d /\ k + 1 \in Nat
    BY <1>1
  <2>2. t \in 0 .. b - 1
    BY <2>1, Leading
  <2>3. a \in Nat \ {0} /\ b \in Nat \ {0} /\ a * b = Pow2[d]
    BY <2>1, Pow2Parts
  <2>4. v \div a = t
    BY <1>6
  <2> HIDE DEF a, b, t
  <2>5. v < a * t + a
    BY <1>5, <2>3, <2>4, DivFacts
  <2>6. a * (t + 1) <= a * b
    BY <2>2, <2>3, Monotone
  <2>7. a * (t + 1) = a * t + a /\ a * t \in Nat
    BY <2>2, <2>3
  <2> QED BY <1>1, <1>5, <2>3, <2>5, <2>6, <2>7
<1>8. ASSUME NEW u \in Nat, u \div Pow2[k + 1] = s \div Pow2[k + 1]
      PROVE  u \div p \in {q, c}
  <2>1. u \div p \in Nat /\ (u \div p) \div 2 = q \div 2
    BY <1>6, <1>8, Halves DEF p
  <2>2. (u \div p) % 2 = q % 2 \/ (u \div p) % 2 = c % 2
    BY <1>3, <1>4, <2>1, Parity
  <2> QED BY <1>3, <1>4, <2>1, <2>2, SameHalf
<1> QED BY <1>1, <1>4, <1>5, <1>6, <1>7, <1>8 DEF p, q, v

(* The slot of a name in tables of all depths. *)
LEMMA SlotFacts ==
  ASSUME NEW n \in Names, NEW d \in 0 .. MaxDepth
  PROVE  /\ HashOf[n] \in Nat
         /\ Slot(HashOf[n], d) \in 0 .. Pow2[d] - 1
         /\ \A k \in 0 .. d : Slot(HashOf[n], d) \div Pow2[d - k] = Slot(HashOf[n], k)
<1>1. HashBits \in Nat /\ MaxDepth \in 0 .. HashBits - 1 /\ HashOf[n] \in 0 .. Pow2[HashBits] - 1
  BY HashAssumption
<1>2. HashOf[n] \in Nat /\ d \in Nat /\ HashBits - d \in 0 .. HashBits /\ HashBits - (HashBits - d) = d
  BY <1>1
<1>3. HashOf[n] \div Pow2[HashBits - d] \in 0 .. Pow2[d] - 1
  BY <1>1, <1>2, Leading
<1>4. ASSUME NEW k \in 0 .. d
      PROVE  Slot(HashOf[n], d) \div Pow2[d - k] = Slot(HashOf[n], k)
  <2>1. HashBits - k \in Nat /\ HashBits - d \in 0 .. HashBits - k /\ (HashBits - k) - (HashBits - d) = d - k
    BY <1>1, <1>2
  <2>2. /\ Pow2[HashBits - d] \in Nat \ {0} /\ Pow2[d - k] \in Nat \ {0}
        /\ Pow2[HashBits - d] * Pow2[d - k] = Pow2[HashBits - k]
    BY <2>1, Pow2Parts
  <2>3. (HashOf[n] \div Pow2[HashBits - d]) \div Pow2[d - k] = HashOf[n] \div (Pow2[HashBits - d] * Pow2[d - k])
    BY <1>2, <2>2, DivTwice, Zenon
  <2> QED BY <2>2, <2>3 DEF Slot
<1> QED BY <1>2, <1>3, <1>4 DEF Slot


-----------------------------------------------------------------------------
(* Tables and buckets                                                      *)

Entries == Names \X Inodes
BucketSet == [ld : 0 .. MaxDepth, entries : SUBSET Entries]
HashedSet ==
  [depth : 0 .. MaxDepth,
   table : UNION {[0 .. Pow2[d] - 1 -> Nat] : d \in 0 .. MaxDepth},
   buckets : UNION {[0 .. n - 1 -> BucketSet] : n \in Nat},
   free : Seq(Nat)]

(* Two slots share a bucket if and only if they agree in its local depth.  *)
Shift(x, s) == x.depth - x.buckets[x.table[s]].ld
Aligned(x) ==
  \A s, u \in DOMAIN x.table :
    x.table[u] = x.table[s] <=> u \div Pow2[Shift(x, s)] = s \div Pow2[Shift(x, s)]

TableInv(x) ==
  /\ DOMAIN x.table = 0 .. Pow2[x.depth] - 1
  /\ \A b \in DOMAIN x.buckets : x.buckets[b].ld <= x.depth
  /\ Range(x.table) = InUse(x)
  /\ Aligned(x)

FreeInv(x) ==
  /\ Range(x.free) \subseteq DOMAIN x.buckets
  /\ \A i, j \in 1 .. Len(x.free) : x.free[i] = x.free[j] => i = j
  /\ \A b \in Range(x.free) : x.buckets[b] = NewBucket(0)

Placed(x) == \A b \in DOMAIN x.buckets : \A e \in x.buckets[b].entries : BucketOf(x, e[1]) = b

Sound(x) == x \in HashedSet /\ TableInv(x) /\ FreeInv(x) /\ Placed(x)

Listed(x) == UNION {x.buckets[b].entries : b \in InUse(x)}

LEMMA SoundFacts ==
  ASSUME NEW x, Sound(x)
  PROVE  /\ x.depth \in 0 .. MaxDepth /\ x.depth \in Nat /\ MaxDepth \in Nat
         /\ \E n \in Nat : DOMAIN x.buckets = 0 .. n - 1
         /\ DOMAIN x.buckets \subseteq Nat
         /\ x.table \in [0 .. Pow2[x.depth] - 1 -> DOMAIN x.buckets]
         /\ \A b \in DOMAIN x.buckets :
              /\ x.buckets[b] \in BucketSet
              /\ x.buckets[b].ld \in 0 .. x.depth /\ x.buckets[b].entries \subseteq Entries
         /\ \A s \in DOMAIN x.table : x.table[s] \in InUse(x) /\ Shift(x, s) \in 0 .. x.depth
         /\ \A b \in InUse(x) : b \in DOMAIN x.buckets /\ \E s \in DOMAIN x.table : x.table[s] = b
         /\ x.free \in Seq(Nat) /\ DOMAIN x.free = 1 .. Len(x.free) /\ Len(x.free) \in Nat
<1>1. MaxDepth \in Nat /\ x.depth \in 0 .. MaxDepth
  BY HashAssumption DEF Sound, HashedSet
<1>2. PICK n \in Nat : x.buckets \in [0 .. n - 1 -> BucketSet]
  BY DEF Sound, HashedSet
<1>3. PICK d \in 0 .. MaxDepth : x.table \in [0 .. Pow2[d] - 1 -> Nat]
  BY DEF Sound, HashedSet
<1>4. DOMAIN x.table = 0 .. Pow2[x.depth] - 1 /\ Range(x.table) = InUse(x)
      /\ \A b \in DOMAIN x.buckets : x.buckets[b].ld <= x.depth
  BY DEF Sound, TableInv
<1>5. \A s \in DOMAIN x.table : x.table[s] \in InUse(x)
  BY <1>4 DEF Range
<1>6. \A b \in InUse(x) : b \in DOMAIN x.buckets /\ \E s \in DOMAIN x.table : x.table[s] = b
  BY <1>4 DEF Range, InUse
<1>7. x.table \in [0 .. Pow2[x.depth] - 1 -> DOMAIN x.buckets]
  <2>1. x.table = [s \in DOMAIN x.table |-> x.table[s]]
    BY <1>3
  <2> QED BY <1>4, <1>5, <1>6, <2>1
<1>8. \A b \in DOMAIN x.buckets :
        /\ x.buckets[b] \in BucketSet
        /\ x.buckets[b].ld \in 0 .. x.depth /\ x.buckets[b].entries \subseteq Entries
  BY <1>1, <1>2, <1>4 DEF BucketSet
<1>9. \A s \in DOMAIN x.table : Shift(x, s) \in 0 .. x.depth
  BY <1>1, <1>5, <1>6, <1>8 DEF Shift
<1>10. x.free \in Seq(Nat)
  BY DEF Sound, HashedSet
<1> QED BY <1>1, <1>2, <1>5, <1>6, <1>7, <1>8, <1>9, <1>10, LenProperties

(* The four parts of a hashed directory. *)
LEMMA InHashedSet ==
  ASSUME NEW x, NEW d \in 0 .. MaxDepth, NEW n \in Nat, NEW t \in [0 .. Pow2[d] - 1 -> Nat],
         NEW c \in [0 .. n - 1 -> BucketSet], NEW f \in Seq(Nat),
         x = [depth |-> d, table |-> t, buckets |-> c, free |-> f]
  PROVE  x \in HashedSet
BY DEF HashedSet

LEMMA Fields ==
  ASSUME NEW x \in HashedSet
  PROVE  \E a, b, c, f : /\ x = [depth |-> a, table |-> b, buckets |-> c, free |-> f]
                         /\ x.depth = a /\ x.table = b /\ x.buckets = c /\ x.free = f
BY DEF HashedSet

(* What EXCEPT does to a record. *)
LEMMA WithTable ==
  ASSUME NEW x \in HashedSet, NEW d, NEW t
  PROVE  [x EXCEPT !.depth = d, !.table = t]
           = [depth |-> d, table |-> t, buckets |-> x.buckets, free |-> x.free]
<1>1. PICK a, b, c, f : /\ x = [depth |-> a, table |-> b, buckets |-> c, free |-> f]
                        /\ x.depth = a /\ x.table = b /\ x.buckets = c /\ x.free = f
  BY Fields
<1> DEFINE y == [x EXCEPT !.depth = d]
<1>2. y = [depth |-> d, table |-> b, buckets |-> c, free |-> f]
  BY <1>1
<1> HIDE DEF y
<1>3. [y EXCEPT !.table = t] = [depth |-> d, table |-> t, buckets |-> c, free |-> f]
  BY <1>2
<1> QED BY <1>1, <1>3, Zenon DEF y

LEMMA WithBuckets ==
  ASSUME NEW x \in HashedSet, NEW v
  PROVE  /\ [x EXCEPT !.buckets = v] = [depth |-> x.depth, table |-> x.table, buckets |-> v, free |-> x.free]
         /\ [x EXCEPT !.free = v] = [depth |-> x.depth, table |-> x.table, buckets |-> x.buckets, free |-> v]
<1>1. PICK a, b, c, f : /\ x = [depth |-> a, table |-> b, buckets |-> c, free |-> f]
                        /\ x.depth = a /\ x.table = b /\ x.buckets = c /\ x.free = f
  BY Fields
<1>2. [x EXCEPT !.buckets = v] = [depth |-> a, table |-> b, buckets |-> v, free |-> f]
  BY <1>1
<1>3. [x EXCEPT !.free = v] = [depth |-> a, table |-> b, buckets |-> c, free |-> v]
  BY <1>1
<1> QED BY <1>1, <1>2, <1>3, Zenon

LEMMA WithParts ==
  ASSUME NEW x \in HashedSet, NEW u, NEW t, NEW v
  PROVE  /\ [x EXCEPT !.buckets = u, !.table = t]
              = [depth |-> x.depth, table |-> t, buckets |-> u, free |-> x.free]
         /\ [x EXCEPT !.buckets = u, !.table = t, !.free = v]
              = [depth |-> x.depth, table |-> t, buckets |-> u, free |-> v]
<1>1. PICK a, b, c, f : /\ x = [depth |-> a, table |-> b, buckets |-> c, free |-> f]
                        /\ x.depth = a /\ x.table = b /\ x.buckets = c /\ x.free = f
  BY Fields
<1> DEFINE y == [x EXCEPT !.buckets = u]
           z == [y EXCEPT !.table = t]
<1>2. y = [depth |-> a, table |-> b, buckets |-> u, free |-> f]
  BY <1>1
<1> HIDE DEF y
<1>3. z = [depth |-> a, table |-> t, buckets |-> u, free |-> f]
  BY <1>2
<1> HIDE DEF z
<1>4. [z EXCEPT !.free = v] = [depth |-> a, table |-> t, buckets |-> u, free |-> v]
  BY <1>3
<1> QED BY <1>1, <1>3, <1>4, Zenon DEF y, z

LEMMA PairSlots ==
  ASSUME NEW d \in Nat
  PROVE  /\ Pow2[d + 1] = 2 * Pow2[d] /\ Pow2[d] \in Nat \ {0}
         /\ \A s \in 0 .. Pow2[d + 1] - 1 : s \div 2 \in 0 .. Pow2[d] - 1
         /\ \A s \in 0 .. Pow2[d] - 1 : 2 * s \in 0 .. Pow2[d + 1] - 1 /\ 2 * s + 1 \in 0 .. Pow2[d + 1] - 1
<1>1. Pow2[d + 1] = 2 * Pow2[d] /\ Pow2[d] \in Nat \ {0}
  BY Pow2Facts
<1>2. \A s \in 0 .. 2 * Pow2[d] - 1 : s \div 2 \in 0 .. Pow2[d] - 1
  BY <1>1
<1> QED BY <1>1, <1>2

LEMMA Doubles == \A s \in Nat : (2 * s) \div 2 = s /\ (2 * s + 1) \div 2 = s
OBVIOUS


-----------------------------------------------------------------------------
(* Insert                                                                  *)

(* Every slot becomes two. *)
LEMMA DoubledSound ==
  ASSUME NEW x, Sound(x), x.depth < MaxDepth
  PROVE  /\ Sound(Doubled(x))
         /\ Doubled(x).depth = x.depth + 1 /\ Doubled(x).buckets = x.buckets /\ Doubled(x).free = x.free
         /\ \A s \in 0 .. Pow2[x.depth + 1] - 1 : Doubled(x).table[s] = x.table[s \div 2]
         /\ \A n \in Names : BucketOf(Doubled(x), n) = BucketOf(x, n)
<1> DEFINE d == x.depth
           t == [s \in 0 .. Pow2[d + 1] - 1 |-> x.table[s \div 2]]
           y == Doubled(x)
<1>5. x \in HashedSet /\ y = [depth |-> d + 1, table |-> t, buckets |-> x.buckets, free |-> x.free]
  <2>1. x \in HashedSet
    BY DEF Sound
  <2>2. [x EXCEPT !.depth = x.depth + 1].table = x.table
    BY <2>1 DEF HashedSet
  <2>3. y = [x EXCEPT !.depth = x.depth + 1, !.table = t]
    BY <2>2, Zenon DEF Doubled
  <2> HIDE DEF t, y
  <2>4. [x EXCEPT !.depth = x.depth + 1, !.table = t]
          = [depth |-> x.depth + 1, table |-> t, buckets |-> x.buckets, free |-> x.free]
    BY <2>1, WithTable, Zenon
  <2> QED BY <2>1, <2>3, <2>4, Zenon
<1>14. \A s \in 0 .. Pow2[d + 1] - 1 : t[s] = x.table[s \div 2]
  OBVIOUS
<1>15. DOMAIN t = 0 .. Pow2[d + 1] - 1 /\ t = [s \in 0 .. Pow2[d + 1] - 1 |-> t[s]]
  OBVIOUS
<1>13. x.depth = d
  OBVIOUS
<1> HIDE DEF d, t, y
<1>1. /\ d \in Nat /\ d + 1 \in 0 .. MaxDepth /\ d + 1 \in Nat /\ MaxDepth \in Nat
      /\ x.table \in [0 .. Pow2[d] - 1 -> DOMAIN x.buckets] /\ DOMAIN x.buckets \subseteq Nat
      /\ x.free \in Seq(Nat)
  BY <1>13, SoundFacts
<1>2. PICK n \in Nat : x.buckets \in [0 .. n - 1 -> BucketSet]
  BY DEF Sound, HashedSet
<1>3. /\ Pow2[d + 1] = 2 * Pow2[d] /\ Pow2[d] \in Nat \ {0}
      /\ \A s \in 0 .. Pow2[d + 1] - 1 : s \div 2 \in 0 .. Pow2[d] - 1
      /\ \A s \in 0 .. Pow2[d] - 1 : 2 * s \in 0 .. Pow2[d + 1] - 1
  BY <1>1, PairSlots
<1>6. /\ t \in [0 .. Pow2[d + 1] - 1 -> DOMAIN x.buckets]
      /\ t \in [0 .. Pow2[d + 1] - 1 -> Nat]
      /\ \A s \in 0 .. Pow2[d + 1] - 1 : t[s] = x.table[s \div 2]
  BY <1>1, <1>3, <1>14, <1>15
<1>7. y \in HashedSet
  BY <1>1, <1>2, <1>5, <1>6, InHashedSet
<1>8. y.depth = d + 1 /\ y.table = t /\ y.buckets = x.buckets /\ y.free = x.free /\ InUse(y) = InUse(x)
  BY <1>5 DEF InUse
<1>9. TableInv(y)
  <2>1. \A b \in DOMAIN y.buckets : y.buckets[b].ld <= y.depth
    <3> TAKE b \in DOMAIN y.buckets
    <3>1. x.buckets[b].ld \in 0 .. d
      BY <1>8, <1>13, SoundFacts
    <3> QED BY <1>1, <1>8, <3>1
  <2>2. Range(y.table) = InUse(y)
    <3>1. Range(x.table) = InUse(x)
      BY DEF Sound, TableInv
    <3>2. Range(t) \subseteq Range(x.table)
      <4> SUFFICES ASSUME NEW s \in 0 .. Pow2[d + 1] - 1 PROVE t[s] \in Range(x.table)
        BY <1>15 DEF Range
      <4>1. t[s] = x.table[s \div 2] /\ s \div 2 \in DOMAIN x.table
        BY <1>1, <1>3, <1>6
      <4> QED BY <4>1 DEF Range
    <3>3. ASSUME NEW s \in DOMAIN x.table PROVE x.table[s] \in Range(t)
      <4>1. s \in 0 .. Pow2[d] - 1
        BY <1>1
      <4>2. 2 * s \in 0 .. Pow2[d + 1] - 1 /\ s \in Nat /\ (2 * s) \div 2 = s
        BY <1>3, <4>1, Doubles
      <4>3. t[2 * s] = x.table[s] /\ 2 * s \in DOMAIN t
        BY <1>6, <4>2
      <4> QED BY <4>3 DEF Range
    <3> QED BY <1>8, <3>1, <3>2, <3>3 DEF Range
  <2>3. Aligned(y)
    <3> SUFFICES ASSUME NEW s \in 0 .. Pow2[d + 1] - 1, NEW u \in 0 .. Pow2[d + 1] - 1
                 PROVE  t[u] = t[s] <=> u \div Pow2[Shift(y, s)] = s \div Pow2[Shift(y, s)]
      BY <1>6, <1>8 DEF Aligned
    <3> DEFINE k == Shift(x, s \div 2)
    <3>1. s \div 2 \in DOMAIN x.table /\ u \div 2 \in DOMAIN x.table /\ t[s] = x.table[s \div 2] /\ t[u] = x.table[u \div 2]
      BY <1>1, <1>3, <1>6
    <3>2. k \in 0 .. d
      BY <1>13, <3>1, SoundFacts
    <3>3. Shift(y, s) = k + 1
      <4> DEFINE l == x.buckets[x.table[s \div 2]].ld
      <4>1. l \in 0 .. d
        BY <1>1, <1>13, <3>1, SoundFacts
      <4>2. k = d - l /\ Shift(y, s) = (d + 1) - l
        BY <1>8, <1>13, <3>1, Zenon DEF Shift
      <4> HIDE DEF k, l
      <4> QED BY <1>1, <4>1, <4>2
    <3>4. x.table[u \div 2] = x.table[s \div 2] <=> (u \div 2) \div Pow2[k] = (s \div 2) \div Pow2[k]
      BY <3>1 DEF Sound, TableInv, Aligned
    <3> HIDE DEF k
    <3>5. \A v \in Nat : (v \div 2) \div Pow2[k] = v \div Pow2[k + 1]
      <4> TAKE v \in Nat
      <4>1. 2 \in Nat \ {0} /\ Pow2[k] \in Nat \ {0} /\ Pow2[k + 1] = 2 * Pow2[k]
        <5>1. k \in Nat /\ 2 \in Nat \ {0}
          BY <1>1, <3>2
        <5> QED BY <5>1, Pow2Facts, Zenon
      <4>2. (v \div 2) \div Pow2[k] = v \div (2 * Pow2[k])
        BY <4>1, DivTwice, Zenon
      <4> QED BY <4>1, <4>2
    <3> QED BY <1>3, <3>1, <3>3, <3>4, <3>5
  <2> QED BY <1>6, <1>8, <2>1, <2>2, <2>3 DEF TableInv
<1>10. FreeInv(y)
  BY <1>8 DEF Sound, FreeInv
<1>11. \A m \in Names : BucketOf(y, m) = BucketOf(x, m)
  <2> TAKE m \in Names
  <2> DEFINE s == Slot(HashOf[m], d + 1)
  <2>1. s \in 0 .. Pow2[d + 1] - 1 /\ s \div Pow2[(d + 1) - d] = Slot(HashOf[m], d)
    <3>1. d \in 0 .. d + 1
      BY <1>1
    <3> QED BY <1>1, <3>1, SlotFacts, Zenon
  <2>2. Pow2[(d + 1) - d] = 2
    <3>1. (d + 1) - d = 0 + 1
      BY <1>1
    <3> QED BY <3>1, Pow2Facts
  <2> QED BY <1>6, <1>8, <1>13, <2>1, <2>2 DEF BucketOf
<1>12. Placed(y)
  <2> SUFFICES ASSUME NEW b \in DOMAIN x.buckets, NEW e \in x.buckets[b].entries PROVE BucketOf(y, e[1]) = b
    BY <1>8 DEF Placed
  <2>1. e[1] \in Names
    BY SoundFacts DEF Entries
  <2> QED BY <1>11, <2>1 DEF Sound, Placed
<1> QED BY <1>6, <1>7, <1>8, <1>9, <1>10, <1>11, <1>12, <1>13, Zenon DEF Sound, y


(* What a split leaves of the buckets and of the table. *)
SplitPart(x, b, goes) ==
  [ld |-> x.buckets[b].ld + 1,
   entries |-> {e \in x.buckets[b].entries : Goes(e, x.buckets[b].ld) = goes}]
SplitBuckets(x, b, new) ==
  [k \in DOMAIN x.buckets \cup {new} |->
     IF k = b THEN SplitPart(x, b, FALSE) ELSE IF k = new THEN SplitPart(x, b, TRUE) ELSE x.buckets[k]]
SplitTable(x, b, new) ==
  [s \in DOMAIN x.table |->
     IF x.table[s] = b /\ (s \div Pow2[x.depth - 1 - x.buckets[b].ld]) % 2 = 1 THEN new ELSE x.table[s]]

LEMMA SplitToIs ==
  ASSUME NEW x \in HashedSet, NEW b, NEW new
  PROVE  SplitTo(x, b, new) =
           [depth |-> x.depth, table |-> SplitTable(x, b, new), buckets |-> SplitBuckets(x, b, new),
            free |-> x.free]
<1> DEFINE c == SplitBuckets(x, b, new)
           t == SplitTable(x, b, new)
<1>1. \A v : [x EXCEPT !.buckets = v].table = x.table
  BY DEF HashedSet
<1>2. SplitTo(x, b, new) = [x EXCEPT !.buckets = c, !.table = t]
  BY <1>1, Zenon DEF SplitTo, SplitBuckets, SplitTable, SplitPart
<1> HIDE DEF c, t
<1>3. [x EXCEPT !.buckets = c, !.table = t] = [depth |-> x.depth, table |-> t, buckets |-> c, free |-> x.free]
  BY WithParts, Zenon
<1>4. SplitTo(x, b, new) = [depth |-> x.depth, table |-> t, buckets |-> c, free |-> x.free]
  BY <1>2, <1>3, Zenon
<1> QED BY <1>4, Zenon DEF c, t

(* The number new is not in use; the m buckets include it, and f is the    *)
(* freelist without it.                                                    *)
Taken(x, f, new, m) ==
  /\ f \in Seq(Nat) /\ new \in Nat \ InUse(x)
  /\ DOMAIN x.buckets \cup {new} = 0 .. m - 1
  /\ Range(f) = Range(x.free) \ {new}
  /\ \A i, j \in 1 .. Len(f) : f[i] = f[j] => i = j

(* Bucket b is split, and f is the freelist then. *)
SplitOf(x, f, b, new) == SplitTo([x EXCEPT !.free = f], b, new)

(* Bucket b, some of whose slots differ in the next bit, is split: its     *)
(* entries and its slots are parted by that bit.                           *)
LEMMA SplitToSound ==
  ASSUME NEW x, Sound(x), NEW b \in InUse(x), x.buckets[b].ld < x.depth,
         NEW f, NEW m \in Nat, NEW new, Taken(x, f, new, m)
  PROVE  LET y == SplitOf(x, f, b, new)
         IN /\ Sound(y) /\ Listed(y) = Listed(x) /\ InUse(y) = InUse(x) \cup {new}
            /\ y.depth = x.depth /\ y.table = SplitTable(x, b, new) /\ y.buckets = SplitBuckets(x, b, new)
<1> DEFINE w == [x EXCEPT !.free = f]
           d == w.depth
           ld == w.buckets[b].ld
           k == d - 1 - ld
           part(goes) == SplitPart(w, b, goes)
           bit(s) == (s \div Pow2[k]) % 2
           c == SplitBuckets(w, b, new)
           t == SplitTable(w, b, new)
           y == SplitTo(w, b, new)
<1>21. /\ f \in Seq(Nat) /\ new \in Nat \ InUse(x)
       /\ DOMAIN x.buckets \cup {new} = 0 .. m - 1
       /\ Range(f) = Range(x.free) \ {new}
       /\ \A i, j \in 1 .. Len(f) : f[i] = f[j] => i = j
  BY DEF Taken
<1>1. x \in HashedSet
  BY DEF Sound
<1>2. w = [depth |-> x.depth, table |-> x.table, buckets |-> x.buckets, free |-> f]
  BY <1>1, WithBuckets, Zenon
<1>3. w \in HashedSet /\ w.depth = x.depth /\ w.table = x.table /\ w.buckets = x.buckets /\ w.free = f
  BY <1>1, <1>2, <1>21 DEF HashedSet
<1> HIDE DEF w
<1>4. y = [depth |-> d, table |-> t, buckets |-> c, free |-> f]
  BY <1>3, SplitToIs, Zenon
<1>5. /\ d \in Nat /\ d \in 0 .. MaxDepth /\ MaxDepth \in Nat /\ ld \in 0 .. d - 1 /\ ld \in Nat
      /\ k \in Nat /\ k < d /\ d - ld = k + 1 /\ d - (ld + 1) = k
      /\ x.table \in [0 .. Pow2[d] - 1 -> DOMAIN x.buckets] /\ DOMAIN x.buckets \subseteq Nat
      /\ b \in DOMAIN x.buckets /\ b # new
  <2>1. b \in DOMAIN x.buckets /\ b # new
    BY <1>21 DEF InUse
  <2>2. d \in Nat /\ d \in 0 .. MaxDepth /\ MaxDepth \in Nat /\ ld \in 0 .. d /\ ld < d
    BY <1>3, <2>1, SoundFacts
  <2>3. x.table \in [0 .. Pow2[d] - 1 -> DOMAIN x.buckets] /\ DOMAIN x.buckets \subseteq Nat
    BY <1>3, SoundFacts
  <2> HIDE DEF d, ld
  <2> QED BY <2>1, <2>2, <2>3
<1>6. DOMAIN t = 0 .. Pow2[d] - 1 /\ DOMAIN x.table = 0 .. Pow2[d] - 1
      /\ \A s \in 0 .. Pow2[d] - 1 : t[s] = IF x.table[s] = b /\ bit(s) = 1 THEN new ELSE x.table[s]
  BY <1>3, <1>5 DEF SplitTable
<1>7. /\ DOMAIN c = 0 .. m - 1 /\ c[b] = part(FALSE) /\ c[new] = part(TRUE)
      /\ \A j \in DOMAIN x.buckets \ {b, new} : c[j] = x.buckets[j]
      /\ b \in 0 .. m - 1 /\ new \in 0 .. m - 1 /\ \A j \in DOMAIN c \ {b, new} : j \in DOMAIN x.buckets
  BY <1>3, <1>5, <1>21 DEF SplitBuckets
<1>8. t = [s \in 0 .. Pow2[d] - 1 |-> t[s]] /\ c = [j \in 0 .. m - 1 |-> c[j]]
  BY <1>6, <1>7, <1>21 DEF SplitTable, SplitBuckets
<1>9. y.depth = d /\ y.table = t /\ y.buckets = c /\ y.free = f
  <2> HIDE DEF c, t, y, d
  <2> QED BY <1>4
<1>10. \A goes \in BOOLEAN : part(goes).ld = ld + 1
         /\ part(goes).entries = {e \in x.buckets[b].entries : Goes(e, ld) = goes}
         /\ part(goes) = [ld |-> part(goes).ld, entries |-> part(goes).entries]
  BY <1>3 DEF SplitPart
<1>12. \A s \in Nat : bit(s) \in {0, 1} /\ bit(s) = (s \div Pow2[k]) % 2
  <2> TAKE s \in Nat
  <2>1. s \div Pow2[k] \in Nat
    BY <1>5, Halves
  <2> QED BY <2>1, Parity
<1>13. y = SplitOf(x, f, b, new) /\ x.depth = d /\ x.buckets[b].ld = ld
  BY <1>3 DEF w, SplitOf
<1>22. t = SplitTable(x, b, new) /\ c = SplitBuckets(x, b, new)
  BY <1>3, Zenon DEF SplitTable, SplitBuckets, SplitPart
<1> HIDE DEF d, ld, k, part, bit, c, t, y
<1>14. InUse(y) = InUse(x) \cup {new}
  BY <1>7, <1>9, <1>21 DEF InUse
<1>15. \A s \in DOMAIN x.table : x.table[s] \in InUse(x) /\ s \in Nat /\ Shift(x, s) = d - x.buckets[x.table[s]].ld
  <2>1. \A s \in DOMAIN x.table : x.table[s] \in InUse(x) /\ s \in Nat
    <3>1. \A s \in DOMAIN x.table : x.table[s] \in InUse(x)
      BY SoundFacts, Zenon
    <3> QED BY <1>6, <3>1
  <2> QED BY <1>13, <2>1, Zenon DEF Shift
<1>16. y \in HashedSet
  <2>1. \A goes \in BOOLEAN : part(goes) \in BucketSet
    <3> TAKE goes \in BOOLEAN
    <3>1. x.buckets[b].entries \in SUBSET Entries
      BY <1>5, SoundFacts
    <3>2. part(goes).entries \in SUBSET Entries /\ part(goes).ld \in 0 .. MaxDepth
      BY <1>5, <1>10, <3>1
    <3> QED BY <1>10, <3>2 DEF BucketSet
  <2>2. \A j \in DOMAIN x.buckets : x.buckets[j] \in BucketSet
    BY SoundFacts
  <2>3. \A j \in 0 .. m - 1 : c[j] \in BucketSet
    BY <1>7, <2>1, <2>2
  <2>4. c \in [0 .. m - 1 -> BucketSet]
    BY <1>8, <2>3
  <2>5. \A s \in 0 .. Pow2[d] - 1 : t[s] \in Nat
    BY <1>5, <1>6, <1>21
  <2>6. t \in [0 .. Pow2[d] - 1 -> Nat]
    BY <1>8, <2>5
  <2> QED BY <1>4, <1>5, <1>21, <2>4, <2>6, InHashedSet
<1>17. TableInv(y)
  <2>1. \A j \in DOMAIN c : c[j].ld <= d
    <3> TAKE j \in DOMAIN c
    <3>1. CASE j \in {b, new}
      <4>1. c[j].ld = ld + 1
        BY <1>7, <1>10, <3>1
      <4> QED BY <1>5, <4>1
    <3>2. CASE j \notin {b, new}
      <4>1. c[j] = x.buckets[j] /\ j \in DOMAIN x.buckets
        BY <1>7, <3>2
      <4> QED BY <1>13, <4>1, SoundFacts
    <3> QED BY <3>1, <3>2
  <2>2. Range(t) \subseteq InUse(x) \cup {new}
    BY <1>6, <1>15 DEF Range
  <2>3. ASSUME NEW j \in InUse(x) \ {b} PROVE j \in Range(t)
    <3>1. PICK s \in DOMAIN x.table : x.table[s] = j
      BY SoundFacts
    <3>2. t[s] = j /\ s \in DOMAIN t
      BY <1>6, <3>1
    <3> QED BY <3>2 DEF Range
  <2>4. b \in Range(t) /\ new \in Range(t)
    <3>1. PICK s \in DOMAIN x.table : x.table[s] = b
      BY SoundFacts
    <3> DEFINE u == Other(s, k)
    <3>2. s \in 0 .. Pow2[d] - 1
      BY <1>6
    <3>3. u \in 0 .. Pow2[d] - 1 /\ u \div Pow2[k + 1] = s \div Pow2[k + 1] /\ (u \div Pow2[k]) % 2 # (s \div Pow2[k]) % 2
      <4>1. d \in Nat /\ k \in Nat /\ k < d
        BY <1>5
      <4>2. \A i \in 0 .. Pow2[d] - 1 :
              /\ Other(i, k) \in 0 .. Pow2[d] - 1
              /\ Other(i, k) \div Pow2[k + 1] = i \div Pow2[k + 1]
              /\ (Other(i, k) \div Pow2[k]) % 2 # (i \div Pow2[k]) % 2
        BY <4>1, OtherFacts
      <4> QED BY <3>2, <4>2, Zenon
    <3> HIDE DEF u
    <3>4. Shift(x, s) = k + 1
      BY <1>5, <1>13, <1>15, <3>1
    <3>5. x.table[u] = b
      BY <1>6, <3>1, <3>3, <3>4 DEF Sound, TableInv, Aligned
    <3>6. bit(u) # bit(s) /\ bit(u) \in {0, 1} /\ bit(s) \in {0, 1}
      BY <1>12, <3>2, <3>3
    <3>7. ((t[u] = b /\ t[s] = new) \/ (t[u] = new /\ t[s] = b)) /\ u \in DOMAIN t /\ s \in DOMAIN t
      BY <1>6, <3>1, <3>2, <3>3, <3>5, <3>6
    <3> QED BY <3>7 DEF Range
  <2>5. Aligned(y)
    <3> SUFFICES ASSUME NEW s \in 0 .. Pow2[d] - 1, NEW u \in 0 .. Pow2[d] - 1
                 PROVE  t[u] = t[s] <=> u \div Pow2[Shift(y, s)] = s \div Pow2[Shift(y, s)]
      BY <1>6, <1>9 DEF Aligned
    <3>1. Shift(y, s) = d - c[t[s]].ld
      BY <1>9 DEF Shift
    <3>2. x.table[u] = x.table[s] <=> u \div Pow2[Shift(x, s)] = s \div Pow2[Shift(x, s)]
      BY <1>6 DEF Sound, TableInv, Aligned
    <3>3. x.table[s] \in InUse(x) /\ x.table[u] \in InUse(x) /\ s \in Nat /\ u \in Nat
          /\ Shift(x, s) = d - x.buckets[x.table[s]].ld
      BY <1>6, <1>15
    <3>4. CASE x.table[s] # b
      <4>1. t[s] = x.table[s] /\ x.table[s] \in DOMAIN x.buckets \ {b, new}
        BY <1>6, <1>21, <3>3, <3>4 DEF InUse
      <4>2. Shift(y, s) = Shift(x, s)
        BY <1>7, <3>1, <3>3, <4>1
      <4>3. t[u] = t[s] <=> x.table[u] = x.table[s]
        BY <1>6, <1>21, <3>3, <3>4, <4>1
      <4> QED BY <3>2, <4>2, <4>3
    <3>5. CASE x.table[s] = b
      <4>1. t[s] \in {b, new} /\ Shift(x, s) = k + 1
        BY <1>5, <1>6, <1>13, <3>3, <3>5
      <4>2. Shift(y, s) = k
        BY <1>5, <1>7, <1>10, <3>1, <4>1
      <4>3. bit(s) \in {0, 1} /\ bit(u) \in {0, 1}
        BY <1>12, <3>3
      <4>4. t[u] = t[s] <=> x.table[u] = b /\ bit(u) = bit(s)
        BY <1>5, <1>6, <1>21, <3>3, <3>5, <4>3
      <4> DEFINE q == s \div Pow2[k]
                 r == u \div Pow2[k]
      <4>5. q \in Nat /\ r \in Nat /\ q \div 2 = s \div Pow2[k + 1] /\ r \div 2 = u \div Pow2[k + 1]
        BY <1>5, <3>3, Halves
      <4>6. bit(s) = q % 2 /\ bit(u) = r % 2
        BY <1>12, <3>3
      <4>7. x.table[u] = b <=> r \div 2 = q \div 2
        BY <3>2, <3>5, <4>1, <4>5
      <4>8. q = r <=> u \div Pow2[Shift(y, s)] = s \div Pow2[Shift(y, s)]
        BY <4>2
      <4> HIDE DEF q, r
      <4>9. r \div 2 = q \div 2 => (r % 2 = q % 2 <=> r = q)
        BY <4>5, SameHalf
      <4> QED BY <4>4, <4>6, <4>7, <4>8, <4>9
    <3> QED BY <3>4, <3>5
  <2>6. Range(t) = InUse(y)
    BY <1>14, <2>2, <2>3, <2>4
  <2> QED BY <1>6, <1>9, <2>1, <2>5, <2>6 DEF TableInv
<1>18. FreeInv(y)
  <2>1. Range(f) \subseteq DOMAIN c
    BY <1>7, <1>21 DEF Sound, FreeInv
  <2>2. \A j \in Range(f) : j \in Range(x.free) /\ j # b /\ j # new
    BY <1>21 DEF InUse
  <2>3. \A j \in Range(f) : c[j] = NewBucket(0)
    BY <1>7, <2>1, <2>2 DEF Sound, FreeInv
  <2> QED BY <1>9, <1>21, <2>1, <2>3 DEF FreeInv
<1>19. Placed(y)
  <2> SUFFICES ASSUME NEW j \in DOMAIN c, NEW e \in c[j].entries PROVE BucketOf(y, e[1]) = j
    BY <1>9 DEF Placed
  <2>1. PICK i \in DOMAIN x.buckets : e \in x.buckets[i].entries /\ (j \notin {b, new} => i = j)
               /\ (j \in {b, new} => i = b /\ (Goes(e, ld) <=> j = new))
    BY <1>5, <1>7, <1>10
  <2>2. e[1] \in Names
    BY <2>1, SoundFacts DEF Entries
  <2> DEFINE s == Slot(HashOf[e[1]], d)
  <2>3. s \in 0 .. Pow2[d] - 1 /\ s \div Pow2[d - (ld + 1)] = Slot(HashOf[e[1]], ld + 1) /\ s \in Nat
    <3>1. ld + 1 \in 0 .. d
      BY <1>5
    <3>2. s \in 0 .. Pow2[d] - 1 /\ s \div Pow2[d - (ld + 1)] = Slot(HashOf[e[1]], ld + 1)
      BY <1>5, <2>2, <3>1, SlotFacts, Zenon
    <3> QED BY <3>2
  <2>4. x.table[s] = i /\ BucketOf(y, e[1]) = t[s]
    BY <1>9, <1>13, <2>1 DEF Sound, Placed, BucketOf
  <2>5. bit(s) = 1 <=> Goes(e, ld)
    <3>1. HashBits - (ld + 1) = HashBits - 1 - ld
      BY <1>5, HashAssumption
    <3>2. bit(s) = (HashOf[e[1]] \div Pow2[HashBits - 1 - ld]) % 2
      BY <1>5, <1>12, <2>3, <3>1 DEF Slot
    <3> QED BY <3>2 DEF Goes
  <2> HIDE DEF s
  <2> QED BY <1>6, <2>1, <2>3, <2>4, <2>5
<1>20. Listed(y) = Listed(x)
  <2>1. c[b].entries \cup c[new].entries = x.buckets[b].entries
    BY <1>7, <1>10 DEF Goes
  <2>2. \A j \in InUse(x) \ {b} : c[j] = x.buckets[j]
    BY <1>7, <1>21 DEF InUse
  <2> QED BY <1>9, <1>14, <2>1, <2>2 DEF Listed
<1> QED BY <1>9, <1>13, <1>14, <1>16, <1>17, <1>18, <1>19, <1>20, <1>22, Zenon DEF Sound

(* Bucket b of x is split, with new for its buddy, once the table is wide  *)
(* enough: that gives y.                                                   *)
Parted(x, b, new, wide, y) ==
  /\ \/ x.buckets[b].ld = x.depth /\ x.depth < MaxDepth /\ wide = Doubled(x)
     \/ x.buckets[b].ld < x.depth /\ wide = x
  /\ Sound(wide) /\ InUse(wide) = InUse(x) /\ wide.buckets = x.buckets /\ x.buckets[b].ld < wide.depth
  /\ new \notin InUse(x) /\ InUse(y) = InUse(x) \cup {new}
  /\ y.depth = wide.depth /\ y.table = SplitTable(wide, b, new) /\ y.buckets = SplitBuckets(wide, b, new)

LEMMA SplitSound ==
  ASSUME NEW x, Sound(x), NEW b \in InUse(x), NEW y \in Split(x, b)
  PROVE  Sound(y) /\ Listed(y) = Listed(x) /\ \E new, wide : Parted(x, b, new, wide, y)
<1> DEFINE new == IF x.free = << >> THEN Cardinality(DOMAIN x.buckets) ELSE Last(x.free)
           wide == IF x.buckets[b].ld = x.depth THEN Doubled(x) ELSE x
           f == IF x.free = << >> THEN << >> ELSE Front(x.free)
<1>1. ~AtLimit(x, b) /\ y = SplitTo(TakeNumber(wide), b, new)
  BY Zenon DEF Split
<1>2. /\ Sound(wide) /\ wide.buckets = x.buckets /\ wide.free = x.free
      /\ x.buckets[b].ld < wide.depth
      /\ \/ x.buckets[b].ld = x.depth /\ x.depth < MaxDepth /\ wide = Doubled(x)
         \/ x.buckets[b].ld < x.depth /\ wide = x
  <2>1. x.buckets[b].ld \in 0 .. x.depth /\ x.depth \in Nat /\ x.depth \in 0 .. MaxDepth /\ MaxDepth \in Nat
    <3>1. b \in DOMAIN x.buckets
      BY DEF InUse
    <3> QED BY <3>1, SoundFacts
  <2>2. CASE x.buckets[b].ld = x.depth
    <3>1. x.depth < MaxDepth
      BY <1>1, <2>1, <2>2 DEF AtLimit
    <3>2. /\ Sound(Doubled(x)) /\ Doubled(x).depth = x.depth + 1
          /\ Doubled(x).buckets = x.buckets /\ Doubled(x).free = x.free
      BY <3>1, DoubledSound, Zenon
    <3>3. x.depth < x.depth + 1
      BY <2>1
    <3> QED BY <2>2, <3>1, <3>2, <3>3, Zenon
  <2>3. CASE x.buckets[b].ld # x.depth
    <3>1. x.buckets[b].ld < x.depth
      BY <2>1, <2>3
    <3> QED BY <2>3, <3>1, Zenon
  <2> QED BY <2>2, <2>3
<1> HIDE DEF wide
<1>3. InUse(wide) = InUse(x) /\ Listed(wide) = Listed(x)
  BY <1>2, Zenon DEF InUse, Listed
<1>4. TakeNumber(wide) = [wide EXCEPT !.free = f]
  <2>1. CASE x.free = << >>
    <3>1. wide \in HashedSet
      BY <1>2, Zenon DEF Sound
    <3>2. [wide EXCEPT !.free = wide.free] = wide
      BY <3>1 DEF HashedSet
    <3> QED BY <1>2, <2>1, <3>2, Zenon DEF TakeNumber
  <2>2. CASE x.free # << >>
    BY <1>2, <2>2, Zenon DEF TakeNumber
  <2> QED BY <2>1, <2>2
<1>5. PICK n \in Nat : DOMAIN x.buckets = 0 .. n - 1
  BY SoundFacts, Zenon
<1>6. /\ x.free \in Seq(Nat) /\ DOMAIN x.free = 1 .. Len(x.free) /\ Len(x.free) \in Nat
      /\ Range(x.free) \subseteq DOMAIN x.buckets
      /\ \A i, j \in 1 .. Len(x.free) : x.free[i] = x.free[j] => i = j
  <2>1. x.free \in Seq(Nat) /\ DOMAIN x.free = 1 .. Len(x.free) /\ Len(x.free) \in Nat
    BY SoundFacts, Zenon
  <2> QED BY <2>1 DEF Sound, FreeInv
<1>7. /\ f \in Seq(Nat) /\ new \in Nat \ InUse(x)
      /\ \E m \in Nat : DOMAIN x.buckets \cup {new} = 0 .. m - 1
      /\ Range(f) = Range(x.free) \ {new}
      /\ \A i, j \in 1 .. Len(f) : f[i] = f[j] => i = j
  <2>1. CASE x.free = << >>
    <3>1. Cardinality(0 .. n - 1) = n
      <4>1. n - 1 \in Int /\ 0 \in Int
        OBVIOUS
      <4>2. Cardinality(0 .. n - 1) = IF 0 > n - 1 THEN 0 ELSE (n - 1) - 0 + 1
        BY <4>1, FS_Interval, Zenon
      <4> QED BY <4>2
    <3>2. new = n /\ f = << >>
      BY <1>5, <2>1, <3>1, Zenon
    <3>3. Range(x.free) = {} /\ Range(f) = {} /\ Len(f) = 0
      BY <2>1, <3>2 DEF Range
    <3>4. n \notin InUse(x) /\ (0 .. n - 1) \cup {n} = 0 .. (n + 1) - 1 /\ n + 1 \in Nat
      BY <1>5 DEF InUse
    <3>5. f \in Seq(Nat)
      <4>1. << >> \in Seq(Nat)
        OBVIOUS
      <4> QED BY <3>2, <4>1, Zenon
    <3>6. \A i, j \in 1 .. Len(f) : f[i] = f[j] => i = j
      BY <3>3
    <3> HIDE DEF f, new
    <3> QED BY <1>5, <3>2, <3>3, <3>4, <3>5, <3>6
  <2>2. CASE x.free # << >>
    <3> DEFINE l == Len(x.free)
    <3>1. f = Front(x.free) /\ new = x.free[l] /\ l \in Nat \ {0}
      BY <1>6, <2>2 DEF Last
    <3>2. f \in Seq(Nat) /\ Len(f) = l - 1 /\ \A i \in 1 .. l - 1 : f[i] = x.free[i]
      BY <1>6, <3>1 DEF Front
    <3> HIDE DEF l, f, new
    <3>3. new \in Range(x.free)
      BY <1>6, <3>1 DEF Range, l
    <3>4. Range(f) = Range(x.free) \ {new}
      <4>1. DOMAIN f = 1 .. l - 1 /\ DOMAIN x.free = 1 .. l
        BY <1>6, <3>2 DEF l
      <4>2. \A i \in 1 .. l : x.free[i] = new <=> i = l
        BY <1>6, <3>1 DEF l
      <4> QED BY <3>1, <3>2, <4>1, <4>2 DEF Range
    <3>5. \A i, j \in 1 .. Len(f) : f[i] = f[j] => i = j
      BY <1>6, <3>1, <3>2 DEF l
    <3>6. new \in DOMAIN x.buckets /\ new \notin InUse(x) /\ new \in Nat
      BY <1>5, <1>6, <3>3 DEF InUse
    <3>7. DOMAIN x.buckets \cup {new} = 0 .. n - 1
      BY <1>5, <3>6
    <3> QED BY <3>2, <3>4, <3>5, <3>6, <3>7
  <2> QED BY <2>1, <2>2
<1>8. PICK m \in Nat : DOMAIN x.buckets \cup {new} = 0 .. m - 1
  BY <1>7, Zenon
<1> HIDE DEF f, new
<1>9. /\ Sound(y) /\ Listed(y) = Listed(wide) /\ InUse(y) = InUse(wide) \cup {new}
      /\ y.depth = wide.depth /\ y.table = SplitTable(wide, b, new) /\ y.buckets = SplitBuckets(wide, b, new)
  <2>1. Sound(wide) /\ b \in InUse(wide) /\ wide.buckets[b].ld < wide.depth
    BY <1>2, <1>3, Zenon
  <2>2. Taken(wide, f, new, m)
    BY <1>2, <1>3, <1>7, <1>8, Zenon DEF Taken
  <2> DEFINE z == SplitOf(wide, f, b, new)
  <2>3. /\ Sound(z) /\ Listed(z) = Listed(wide) /\ InUse(z) = InUse(wide) \cup {new}
        /\ z.depth = wide.depth /\ z.table = SplitTable(wide, b, new) /\ z.buckets = SplitBuckets(wide, b, new)
    BY <2>1, <2>2, SplitToSound
  <2>4. y = z
    BY <1>1, <1>4, Zenon DEF SplitOf
  <2> HIDE DEF z
  <2> QED BY <2>3, <2>4, Zenon
<1>10. Parted(x, b, new, wide, y)
  <2>1. new \notin InUse(x)
    BY <1>7
  <2> QED BY <1>2, <1>3, <1>9, <2>1, Zenon DEF Parted
<1> QED BY <1>3, <1>9, <1>10, Zenon

(* Bucket b with the entries E. *)
Holding(x, b, E) == [x EXCEPT !.buckets[b].entries = E]

LEMMA EntriesSound ==
  ASSUME NEW x, Sound(x), NEW b \in InUse(x), NEW E \in SUBSET Entries,
         \A e \in E : BucketOf(x, e[1]) = b,
         NEW y, y = Holding(x, b, E)
  PROVE  /\ Sound(y) /\ InUse(y) = InUse(x) /\ y.depth = x.depth /\ y.table = x.table
         /\ y.buckets[b].entries = E /\ y.buckets[b].ld = x.buckets[b].ld
         /\ \A j \in InUse(x) \ {b} : y.buckets[j] = x.buckets[j]
<1> DEFINE part == [x.buckets[b] EXCEPT !.entries = E]
           c == [x.buckets EXCEPT ![b] = part]
<1>1. x \in HashedSet /\ b \in DOMAIN x.buckets
  BY DEF Sound, InUse
<1>2. PICK n \in Nat : x.buckets \in [0 .. n - 1 -> BucketSet]
  BY DEF Sound, HashedSet
<1>3. part \in BucketSet /\ part.ld = x.buckets[b].ld /\ part.entries = E
  <2>1. x.buckets[b] \in BucketSet
    BY <1>1, <1>2
  <2> QED BY <2>1 DEF BucketSet
<1>4. y = [depth |-> x.depth, table |-> x.table, buckets |-> c, free |-> x.free]
  <2> HIDE DEF c
  <2>1. [x EXCEPT !.buckets = c] = [depth |-> x.depth, table |-> x.table, buckets |-> c, free |-> x.free]
    BY <1>1, WithBuckets, Zenon
  <2> QED BY <2>1, Zenon DEF c, Holding
<1> HIDE DEF part
<1>5. /\ c \in [0 .. n - 1 -> BucketSet] /\ DOMAIN c = DOMAIN x.buckets /\ c[b] = part
      /\ \A j \in DOMAIN x.buckets \ {b} : c[j] = x.buckets[j]
  BY <1>1, <1>2, <1>3
<1> HIDE DEF c
<1>6. y.depth = x.depth /\ y.table = x.table /\ y.buckets = c /\ y.free = x.free
  BY <1>4
<1>7. InUse(y) = InUse(x)
  BY <1>5, <1>6 DEF InUse
<1>8. \A j \in DOMAIN x.buckets : c[j].ld = x.buckets[j].ld
  BY <1>3, <1>5
<1>9. y \in HashedSet
  <2>1. x.depth \in 0 .. MaxDepth /\ x.free \in Seq(Nat)
    BY <1>1 DEF HashedSet
  <2>2. x.table \in [0 .. Pow2[x.depth] - 1 -> Nat]
    BY SoundFacts
  <2> QED BY <1>4, <1>5, <2>1, <2>2, InHashedSet
<1>10. TableInv(y)
  <2>1. \A s \in DOMAIN x.table : Shift(y, s) = Shift(x, s)
    <3> TAKE s \in DOMAIN x.table
    <3>1. x.table[s] \in DOMAIN x.buckets
      BY SoundFacts DEF InUse
    <3> QED BY <1>6, <1>8, <3>1 DEF Shift
  <2>2. Aligned(y)
    <3> SUFFICES ASSUME NEW s \in DOMAIN x.table, NEW u \in DOMAIN x.table
                 PROVE  x.table[u] = x.table[s] <=> u \div Pow2[Shift(y, s)] = s \div Pow2[Shift(y, s)]
      BY <1>6 DEF Aligned
    <3>1. Aligned(x)
      BY DEF Sound, TableInv
    <3> QED BY <2>1, <3>1, Zenon DEF Aligned
  <2> QED BY <1>5, <1>6, <1>7, <1>8, <2>2 DEF Sound, TableInv
<1>11. FreeInv(y)
  <2>1. \A j \in Range(x.free) : j \in DOMAIN x.buckets \ {b}
    BY DEF Sound, FreeInv, InUse
  <2> QED BY <1>5, <1>6, <2>1 DEF Sound, FreeInv
<1>12. Placed(y)
  <2>1. \A m : BucketOf(y, m) = BucketOf(x, m)
    BY <1>6, Zenon DEF BucketOf
  <2> SUFFICES ASSUME NEW j \in DOMAIN c, NEW e \in c[j].entries PROVE BucketOf(x, e[1]) = j
    BY <1>6, <2>1 DEF Placed
  <2>2. CASE j = b
    BY <1>3, <1>5, <2>2
  <2>3. CASE j # b
    BY <1>5, <2>3 DEF Sound, Placed
  <2> QED BY <2>2, <2>3
<1>13. \A j \in InUse(x) \ {b} : y.buckets[j] = x.buckets[j]
  BY <1>5, <1>6 DEF InUse
<1> QED BY <1>3, <1>5, <1>6, <1>7, <1>9, <1>10, <1>11, <1>12, <1>13, Zenon DEF Sound

LEMMA BucketOfFacts ==
  ASSUME NEW x, Sound(x), NEW n \in Names
  PROVE  BucketOf(x, n) \in InUse(x) /\ BucketOf(x, n) \in DOMAIN x.buckets
<1>1. x.depth \in 0 .. MaxDepth /\ DOMAIN x.table = 0 .. Pow2[x.depth] - 1
  BY SoundFacts
<1>2. Slot(HashOf[n], x.depth) \in DOMAIN x.table
  BY <1>1, SlotFacts, Zenon
<1>3. x.table[Slot(HashOf[n], x.depth)] \in InUse(x)
  BY <1>2, SoundFacts, Zenon
<1> QED BY <1>3 DEF BucketOf, InUse

(* Entry e fits the bucket of its name. *)
Fits(x, e) == Room(x.buckets[BucketOf(x, e[1])].entries) + SizeOf[e[1]] <= BucketRoom
(* The bucket of the name of e holds e too. *)
With(x, e) == Holding(x, BucketOf(x, e[1]), x.buckets[BucketOf(x, e[1])].entries \cup {e})

(* A set that splits do not leave holds what the entry is put into. *)
LEMMA InsertRounds ==
  ASSUME NEW S, NEW x \in S, NEW e, NEW y \in HashedInsert(x, e),
         \A z \in S : ~Fits(z, e) => Split(z, BucketOf(z, e[1])) \subseteq S
  PROVE  \E z \in S : y = With(z, e)
<1> DEFINE n == e[1]
           fits(z) == Room(z.buckets[BucketOf(z, n)].entries) + SizeOf[n] <= BucketRoom
           round(z) == IF fits(z) THEN {z} ELSE Split(z, BucketOf(z, n))
           ff == CHOOSE after : after = [k \in Nat |-> IF k = 0 THEN {x} ELSE UNION {round(z) : z \in after[k - 1]}]
<1>1. ASSUME NEW z \in S PROVE round(z) \subseteq S
  <2>1. CASE fits(z)
    <3> HIDE DEF fits
    <3> QED BY <2>1
  <2>2. CASE ~fits(z)
    <3>1. ~Fits(z, e)
      BY <2>2, Zenon DEF Fits
    <3>2. Split(z, BucketOf(z, n)) \subseteq S
      BY <3>1, Zenon
    <3> HIDE DEF fits
    <3> QED BY <2>2, <3>2
  <2> QED BY <2>1, <2>2
<1>2. HashedInsert(x, e) =
        {[z EXCEPT !.buckets[BucketOf(z, n)].entries = @ \cup {e}] : z \in ff[MaxDepth + 1]}
  BY Zenon DEF HashedInsert
<1> HIDE DEF round
<1>3. ff = [k \in Nat |-> IF k = 0 THEN {x} ELSE UNION {round(z) : z \in ff[k - 1]}]
  <2> DEFINE h == [k \in Nat |-> [T \in SUBSET S |-> UNION {round(z) : z \in T}]]
  <2>1. /\ h \in [Nat -> [SUBSET S -> SUBSET S]] /\ {x} \in SUBSET S
        /\ \A k \in Nat, T \in SUBSET S : h[k][T] = UNION {round(z) : z \in T}
    BY <1>1
  <2> HIDE DEF h
  <2>2. PICK f : Iterates(f, SUBSET S, {x}, h)
    BY <2>1, RecursionExists
  <2>3. f = [k \in Nat |-> IF k = 0 THEN {x} ELSE UNION {round(z) : z \in f[k - 1]}]
    <3>1. \A k \in Nat \ {0} : k - 1 \in Nat /\ (k - 1) + 1 = k /\ f[k] = h[k - 1][f[k - 1]]
      BY <2>2 DEF Iterates
    <3>2. \A k \in Nat \ {0} : f[k] = UNION {round(z) : z \in f[k - 1]}
      <4>1. \A k \in Nat : f[k] \in SUBSET S
        BY <2>2 DEF Iterates
      <4> QED BY <2>1, <3>1, <4>1
    <3>3. f \in [Nat -> SUBSET S] /\ f[0] = {x}
      BY <2>2 DEF Iterates
    <3> QED BY <3>2, <3>3
  <2> QED BY <2>3
<1> HIDE DEF ff
<1>4. \A k \in Nat : ff[k] \subseteq S
  <2> DEFINE U == {k \in Nat : ff[k] \subseteq S}
  <2>1. 0 \in U
    BY <1>3
  <2>2. ASSUME NEW k \in U PROVE k + 1 \in U
    <3>1. ff[k + 1] = UNION {round(z) : z \in ff[k]}
      BY <1>3
    <3> QED BY <1>1, <3>1
  <2>3. U = Nat
    <3>1. U \in SUBSET Nat
      OBVIOUS
    <3> HIDE DEF U
    <3> QED BY <2>1, <2>2, <3>1, Induction
  <2> QED BY <2>3
<1>5. PICK z \in S : y = [z EXCEPT !.buckets[BucketOf(z, n)].entries = @ \cup {e}]
  <2>1. MaxDepth + 1 \in Nat
    BY HashAssumption
  <2>2. ff[MaxDepth + 1] \subseteq S
    BY <1>4, <2>1
  <2> QED BY <1>2, <2>2, Zenon
<1>6. y = With(z, e)
  BY <1>5, Zenon DEF With, Holding
<1> QED BY <1>6, Zenon

(* The entry is held where a lookup finds it, and all else is as it was. *)
LEMMA WithSound ==
  ASSUME NEW x, Sound(x), NEW e \in Entries, NEW y, y = With(x, e)
  PROVE  /\ Sound(y) /\ Listed(y) = Listed(x) \cup {e} /\ InUse(y) = InUse(x)
         /\ y.depth = x.depth /\ y.table = x.table
         /\ \A j \in InUse(x) :
              /\ y.buckets[j].ld = x.buckets[j].ld
              /\ y.buckets[j].entries = x.buckets[j].entries \cup (IF j = BucketOf(x, e[1]) THEN {e} ELSE {})
<1> DEFINE b == BucketOf(x, e[1])
           E == x.buckets[b].entries \cup {e}
<1>1. e[1] \in Names
  BY DEF Entries
<1>2. b \in InUse(x) /\ b \in DOMAIN x.buckets
  BY <1>1, BucketOfFacts, Zenon
<1>3. E \in SUBSET Entries /\ \A i \in E : BucketOf(x, i[1]) = b
  <2>1. x.buckets[b].entries \subseteq Entries
    BY <1>2, SoundFacts
  <2>2. \A i \in x.buckets[b].entries : BucketOf(x, i[1]) = b
    BY <1>2, Zenon DEF Sound, Placed
  <2> QED BY <2>1, <2>2
<1>4. y = Holding(x, b, E)
  BY Zenon DEF With
<1>5. E = x.buckets[b].entries \cup {e}
  OBVIOUS
<1> HIDE DEF E
<1>6. /\ Sound(y) /\ InUse(y) = InUse(x) /\ y.depth = x.depth /\ y.table = x.table
      /\ y.buckets[b].entries = E /\ y.buckets[b].ld = x.buckets[b].ld
      /\ \A j \in InUse(x) \ {b} : y.buckets[j] = x.buckets[j]
  BY <1>2, <1>3, <1>4, EntriesSound
<1>7. ASSUME NEW j \in InUse(x)
      PROVE  /\ y.buckets[j].ld = x.buckets[j].ld
             /\ y.buckets[j].entries = x.buckets[j].entries \cup (IF j = b THEN {e} ELSE {})
  <2> HIDE DEF b
  <2> QED BY <1>5, <1>6
<1>8. Listed(y) = Listed(x) \cup {e}
  <2> HIDE DEF b
  <2> QED BY <1>2, <1>5, <1>6, <1>7 DEF Listed
<1> QED BY <1>6, <1>7, <1>8

LEMMA HashedInsertSound ==
  ASSUME NEW x, Sound(x), NEW e \in Entries, NEW y \in HashedInsert(x, e)
  PROVE  Sound(y) /\ Listed(y) = Listed(x) \cup {e}
<1> DEFINE S == {z \in HashedSet : Sound(z) /\ Listed(z) = Listed(x)}
<1>1. e[1] \in Names
  BY DEF Entries
<1>2. ASSUME NEW z \in S, NEW w \in Split(z, BucketOf(z, e[1])) PROVE w \in S
  <2>1. BucketOf(z, e[1]) \in InUse(z)
    BY <1>1, BucketOfFacts, Zenon
  <2>2. Sound(w) /\ Listed(w) = Listed(z)
    BY <2>1, SplitSound, Zenon
  <2>3. w \in HashedSet
    BY <2>2, Zenon DEF Sound
  <2> QED BY <2>2, <2>3
<1>3. x \in S
  BY Zenon DEF Sound
<1>4. \A z \in S : Sound(z) /\ Listed(z) = Listed(x)
  OBVIOUS
<1> HIDE DEF S
<1>5. \A z \in S : ~Fits(z, e) => Split(z, BucketOf(z, e[1])) \subseteq S
  BY <1>2
<1>6. PICK z \in S : y = With(z, e)
  BY <1>3, <1>5, InsertRounds, Zenon
<1>7. Sound(z) /\ Listed(z) = Listed(x)
  BY <1>4
<1>8. Sound(y) /\ Listed(y) = Listed(z) \cup {e}
  BY <1>6, <1>7, WithSound
<1> QED BY <1>7, <1>8

(* The directory that dir_to_hashed starts from: one bucket. *)
OneBucket == [depth |-> 0, table |-> [s \in {0} |-> 0], buckets |-> [b \in {0} |-> NewBucket(0)],
              free |-> << >>]

LEMMA OneBucketSound ==
  /\ Sound(OneBucket) /\ Listed(OneBucket) = {} /\ OneBucket.depth = 0
  /\ InUse(OneBucket) = {0} /\ OneBucket.buckets[0].ld = 0
<1> DEFINE one == OneBucket
<1>1. MaxDepth \in Nat /\ Pow2[0] = 1
  BY HashAssumption, Pow2Facts
<1>2. one.depth = 0 /\ one.table = [s \in {0} |-> 0] /\ one.buckets = [b \in {0} |-> NewBucket(0)] /\ one.free = << >>
  BY DEF OneBucket
<1>3. one \in HashedSet
  <2>1. 0 .. Pow2[0] - 1 = {0} /\ 0 .. 1 - 1 = {0}
    BY <1>1
  <2>2. NewBucket(0) \in BucketSet
    BY <1>1 DEF NewBucket, BucketSet
  <2>3. /\ [s \in {0} |-> 0] \in [0 .. Pow2[0] - 1 -> Nat] /\ << >> \in Seq(Nat)
        /\ [b \in {0} |-> NewBucket(0)] \in [0 .. 1 - 1 -> BucketSet] /\ 0 \in 0 .. MaxDepth /\ 1 \in Nat
    BY <1>1, <2>1, <2>2
  <2> QED BY <2>3, InHashedSet DEF OneBucket
<1> HIDE DEF one
<1>4. DOMAIN one.table = {0} /\ one.table[0] = 0 /\ DOMAIN one.buckets = {0} /\ one.buckets[0] = NewBucket(0)
  BY <1>2
<1>5. NewBucket(0).ld = 0 /\ NewBucket(0).entries = {}
  BY DEF NewBucket
<1>6. InUse(one) = {0}
  BY <1>2, <1>4 DEF InUse, Range
<1>7. TableInv(one)
  <2>1. DOMAIN one.table = 0 .. Pow2[one.depth] - 1
    BY <1>1, <1>2, <1>4
  <2>2. Range(one.table) = InUse(one)
    BY <1>4, <1>6 DEF Range
  <2>3. Aligned(one)
    BY <1>4, Zenon DEF Aligned
  <2> QED BY <1>2, <1>4, <1>5, <2>1, <2>2, <2>3 DEF TableInv
<1>8. FreeInv(one)
  BY <1>2 DEF FreeInv, Range
<1>9. Placed(one)
  BY <1>4, <1>5 DEF Placed
<1>10. Listed(one) = {} /\ one.depth = 0 /\ one.buckets[0].ld = 0
  BY <1>2, <1>4, <1>5, <1>6 DEF Listed
<1>11. Sound(one)
  BY <1>3, <1>7, <1>8, <1>9, Zenon DEF Sound
<1> QED BY <1>6, <1>10, <1>11, Zenon DEF one

LEMMA ToHashedRounds ==
  ASSUME NEW l \in Seq(Entries)
  PROVE  \E ff : /\ ToHashed(l) = ff[Len(l)] /\ ff[0] = {OneBucket}
                 /\ \A k \in 1 .. Len(l) : ff[k] = UNION {HashedInsert(z, l[k]) : z \in ff[k - 1]}
<1> DEFINE one == OneBucket
           S == {z \in HashedSet : Sound(z)}
           ff == CHOOSE after : after = [k \in 0 .. Len(l) |->
                   IF k = 0 THEN {one} ELSE UNION {HashedInsert(z, l[k]) : z \in after[k - 1]}]
<1>1. Len(l) \in Nat /\ \A k \in 1 .. Len(l) : l[k] \in Entries
  OBVIOUS
<1>2. ToHashed(l) = ff[Len(l)]
  BY Zenon DEF ToHashed, OneBucket
<1>3. Sound(one)
  BY OneBucketSound
<1> HIDE DEF one
<1>4. ASSUME NEW z \in S, NEW k \in 1 .. Len(l)
      PROVE  HashedInsert(z, l[k]) \in SUBSET S
  <2>1. \A w \in HashedInsert(z, l[k]) : Sound(w)
    BY <1>1, HashedInsertSound
  <2> QED BY <2>1, Zenon DEF Sound
<1>5. one \in S
  BY <1>3, Zenon DEF Sound
<1> HIDE DEF S
<1>6. ff = [k \in 0 .. Len(l) |-> IF k = 0 THEN {one} ELSE UNION {HashedInsert(z, l[k]) : z \in ff[k - 1]}]
  <2> DEFINE h == [k \in Nat |-> [T \in SUBSET S |->
                    IF k + 1 \in 1 .. Len(l) THEN UNION {HashedInsert(z, l[k + 1]) : z \in T} ELSE {}]]
  <2>1. h \in [Nat -> [SUBSET S -> SUBSET S]] /\ {one} \in SUBSET S
    BY <1>4, <1>5
  <2>2. \A k \in 1 .. Len(l), T \in SUBSET S : h[k - 1][T] = UNION {HashedInsert(z, l[k]) : z \in T}
    <3> TAKE k \in 1 .. Len(l), T \in SUBSET S
    <3>1. k - 1 \in Nat /\ (k - 1) + 1 = k
      OBVIOUS
    <3> QED BY <3>1
  <2> HIDE DEF h
  <2>3. PICK f : Iterates(f, SUBSET S, {one}, h)
    BY <2>1, RecursionExists
  <2>4. \A k \in 1 .. Len(l) : f[k] = UNION {HashedInsert(z, l[k]) : z \in f[k - 1]}
    <3> TAKE k \in 1 .. Len(l)
    <3>1. k - 1 \in Nat /\ (k - 1) + 1 = k
      OBVIOUS
    <3>2. f[k] = h[k - 1][f[k - 1]] /\ f[k - 1] \in SUBSET S
      BY <2>3, <3>1 DEF Iterates
    <3> QED BY <2>2, <3>2
  <2> DEFINE g == [k \in 0 .. Len(l) |-> f[k]]
  <2>5. g = [k \in 0 .. Len(l) |-> IF k = 0 THEN {one} ELSE UNION {HashedInsert(z, l[k]) : z \in g[k - 1]}]
    <3>1. f[0] = {one}
      BY <2>3 DEF Iterates
    <3>2. \A k \in 1 .. Len(l) : g[k - 1] = f[k - 1]
      BY <1>1
    <3>3. g = [k \in 0 .. Len(l) |-> g[k]] /\ \A k \in 0 .. Len(l) : g[k] = f[k]
      OBVIOUS
    <3> HIDE DEF g
    <3>4. \A k \in 0 .. Len(l) :
            g[k] = IF k = 0 THEN {one} ELSE UNION {HashedInsert(z, l[k]) : z \in g[k - 1]}
      <4> TAKE k \in 0 .. Len(l)
      <4>1. CASE k = 0
        BY <1>1, <3>1, <3>3, <4>1
      <4>2. CASE k # 0
        <5>1. k \in 1 .. Len(l)
          BY <1>1, <4>2
        <5>2. g[k] = UNION {HashedInsert(z, l[k]) : z \in g[k - 1]}
          BY <2>4, <3>2, <3>3, <5>1
        <5> QED BY <4>2, <5>2
      <4> QED BY <4>1, <4>2
    <3> QED BY <3>3, <3>4
  <2> HIDE DEF g
  <2> QED BY <2>5
<1> HIDE DEF ff
<1>7. ff[0] = {one} /\ \A k \in 1 .. Len(l) : ff[k] = UNION {HashedInsert(z, l[k]) : z \in ff[k - 1]}
  <2>1. 0 \in 0 .. Len(l)
    BY <1>1
  <2>2. \A k \in 1 .. Len(l) : k \in 0 .. Len(l) /\ k # 0
    BY <1>1
  <2>3. \A k \in 0 .. Len(l) : ff[k] = IF k = 0 THEN {one} ELSE UNION {HashedInsert(z, l[k]) : z \in ff[k - 1]}
    BY <1>6, Zenon
  <2> QED BY <2>1, <2>2, <2>3, Zenon
<1> QED BY <1>2, <1>7, Zenon DEF one

LEMMA ToHashedSound ==
  ASSUME NEW l \in Seq(Entries), NEW y \in ToHashed(l)
  PROVE  Sound(y) /\ Listed(y) = Range(l)
<1>1. Len(l) \in Nat /\ \A k \in 1 .. Len(l) : l[k] \in Entries
  OBVIOUS
<1>2. PICK ff : /\ ToHashed(l) = ff[Len(l)] /\ ff[0] = {OneBucket}
                /\ \A k \in 1 .. Len(l) : ff[k] = UNION {HashedInsert(z, l[k]) : z \in ff[k - 1]}
  BY ToHashedRounds, Zenon
<1>3. Sound(OneBucket) /\ Listed(OneBucket) = {}
  BY OneBucketSound
<1>4. \A k \in Nat : k <= Len(l) => \A z \in ff[k] : Sound(z) /\ Listed(z) = {l[i] : i \in 1 .. k}
  <2> DEFINE U == {k \in Nat : k <= Len(l) => \A z \in ff[k] : Sound(z) /\ Listed(z) = {l[i] : i \in 1 .. k}}
  <2>1. 0 \in U
    BY <1>1, <1>2, <1>3
  <2>2. ASSUME NEW k \in U PROVE k + 1 \in U
    <3> SUFFICES ASSUME k + 1 <= Len(l), NEW w \in ff[k + 1]
                 PROVE  Sound(w) /\ Listed(w) = {l[i] : i \in 1 .. k + 1}
      OBVIOUS
    <3>1. k \in Nat /\ k <= Len(l) /\ k + 1 \in 1 .. Len(l) /\ k + 1 \in 0 .. Len(l) /\ (k + 1) - 1 = k
      BY <1>1
    <3>2. ff[k + 1] = UNION {HashedInsert(z, l[k + 1]) : z \in ff[k]}
      BY <1>2, <3>1
    <3>3. PICK z \in ff[k] : w \in HashedInsert(z, l[k + 1])
      BY <3>2
    <3>4. Sound(z) /\ Listed(z) = {l[i] : i \in 1 .. k}
      BY <3>1
    <3>5. Sound(w) /\ Listed(w) = Listed(z) \cup {l[k + 1]}
      BY <1>1, <3>1, <3>3, <3>4, HashedInsertSound
    <3>6. 1 .. k + 1 = 1 .. k \cup {k + 1}
      BY <3>1
    <3> QED BY <3>4, <3>5, <3>6
  <2>3. U = Nat
    <3>1. U \in SUBSET Nat
      OBVIOUS
    <3> HIDE DEF U
    <3> QED BY <2>1, <2>2, <3>1, Induction
  <2> QED BY <2>3
<1>5. Sound(y) /\ Listed(y) = {l[i] : i \in 1 .. Len(l)}
  BY <1>1, <1>2, <1>4
<1> QED BY <1>1, <1>5 DEF Range


-----------------------------------------------------------------------------
(* Remove                                                                  *)

(* What a merge leaves of the buckets and of the table. *)
MergedBuckets(x, b, gone) ==
  [x.buckets EXCEPT ![b] = [ld |-> @.ld - 1, entries |-> @.entries \cup x.buckets[gone].entries],
                    ![gone] = NewBucket(0)]
MergedTable(x, b, gone) == [s \in DOMAIN x.table |-> IF x.table[s] = gone THEN b ELSE x.table[s]]

LEMMA MergeIs ==
  ASSUME NEW x \in HashedSet, NEW b, NEW gone
  PROVE  Merge(x, b, gone) =
           [depth |-> x.depth, table |-> MergedTable(x, b, gone), buckets |-> MergedBuckets(x, b, gone),
            free |-> Append(x.free, gone)]
<1> DEFINE p == [ld |-> x.buckets[b].ld - 1, entries |-> x.buckets[b].entries \cup x.buckets[gone].entries]
           q == NewBucket(0)
           t == MergedTable(x, b, gone)
           f == Append(x.free, gone)
<1>1. \A v, w : /\ [x EXCEPT !.buckets = v].table = x.table
                /\ [[x EXCEPT !.buckets = v] EXCEPT !.buckets = w].table = x.table
                /\ [[[x EXCEPT !.buckets = v] EXCEPT !.buckets = w] EXCEPT !.table = t].free = x.free
  <2> HIDE DEF t
  <2> QED BY DEF HashedSet
<1>2. Merge(x, b, gone) = [x EXCEPT !.buckets[b] = p, !.buckets[gone] = q, !.table = t, !.free = f]
  BY <1>1, Zenon DEF Merge, MergedTable
<1>3. PICK a, i, c, j : /\ x = [depth |-> a, table |-> i, buckets |-> c, free |-> j]
                        /\ x.depth = a /\ x.table = i /\ x.buckets = c /\ x.free = j
  BY Fields
<1> DEFINE c1 == [x.buckets EXCEPT ![b] = p]
           c2 == [c1 EXCEPT ![gone] = q]
           y1 == [x EXCEPT !.buckets[b] = p]
           y2 == [y1 EXCEPT !.buckets[gone] = q]
           z == [y2 EXCEPT !.table = t]
<1>4. MergedBuckets(x, b, gone) = c2
  BY Zenon DEF MergedBuckets
<1> HIDE DEF p, q, t, f
<1>5. y1 = [depth |-> a, table |-> i, buckets |-> c1, free |-> j]
  <2> HIDE DEF c1
  <2>1. [x EXCEPT !.buckets = c1] = [depth |-> a, table |-> i, buckets |-> c1, free |-> j]
    BY <1>3
  <2> QED BY <2>1, Zenon DEF c1
<1> HIDE DEF y1, c1
<1>6. y2 = [depth |-> a, table |-> i, buckets |-> c2, free |-> j]
  <2> HIDE DEF c2
  <2>1. [y1 EXCEPT !.buckets = c2] = [depth |-> a, table |-> i, buckets |-> c2, free |-> j]
    BY <1>5
  <2>2. y1.buckets = c1
    BY <1>5
  <2> QED BY <2>1, <2>2, Zenon DEF c2
<1> HIDE DEF c2, y2
<1>7. z = [depth |-> a, table |-> t, buckets |-> c2, free |-> j]
  BY <1>6
<1> HIDE DEF z
<1>8. [z EXCEPT !.free = f] = [depth |-> a, table |-> t, buckets |-> c2, free |-> f]
  BY <1>7
<1>9. [x EXCEPT !.buckets[b] = p, !.buckets[gone] = q, !.table = t, !.free = f] = [z EXCEPT !.free = f]
  BY Zenon DEF z, y2, y1
<1> QED BY <1>2, <1>3, <1>4, <1>8, <1>9, Zenon DEF t, f

(* The buckets of two buddies become one. *)
LEMMA MergeSound ==
  ASSUME NEW x, Sound(x), NEW s \in Mergeable(x),
         NEW y, y = Merge(x, x.table[s], x.table[BuddySlot(x, s)])
  PROVE  Sound(y) /\ Listed(y) = Listed(x)
<1> DEFINE d == x.depth
           b == x.table[s]
           v == BuddySlot(x, s)
           gone == x.table[v]
           ld == x.buckets[b].ld
           k == d - ld
           c == MergedBuckets(x, b, gone)
           t == MergedTable(x, b, gone)
           f == Append(x.free, gone)
<1>1. x \in HashedSet
  BY DEF Sound
<1>2. y = [depth |-> d, table |-> t, buckets |-> c, free |-> f]
  BY <1>1, MergeIs, Zenon
<1>3. s \in DOMAIN x.table /\ ld > 0 /\ gone # b /\ x.buckets[gone].ld = ld
  BY Zenon DEF Mergeable
<1>4. /\ d \in Nat /\ d \in 0 .. MaxDepth /\ MaxDepth \in Nat
      /\ DOMAIN x.table = 0 .. Pow2[d] - 1 /\ x.table \in [0 .. Pow2[d] - 1 -> DOMAIN x.buckets]
      /\ b \in InUse(x) /\ b \in DOMAIN x.buckets /\ ld \in 0 .. d
      /\ x.free \in Seq(Nat) /\ DOMAIN x.buckets \subseteq Nat
  <2>1. b \in InUse(x) /\ b \in DOMAIN x.buckets
    BY <1>3, SoundFacts DEF InUse
  <2>2. ld \in 0 .. d
    BY <2>1, SoundFacts
  <2> HIDE DEF b, ld
  <2> QED BY <2>1, <2>2, SoundFacts
<1>5. v = Other(s, k)
  BY Zenon DEF BuddySlot, Other
<1>6. x.depth = d /\ x.table[s] = b /\ x.buckets[b].ld = ld /\ x.table[v] = gone
  OBVIOUS
<1>7. d - ld = k
  OBVIOUS
<1>8. PICK n \in Nat : x.buckets \in [0 .. n - 1 -> BucketSet]
  BY DEF Sound, HashedSet
<1> HIDE DEF d, b, v, gone, ld, k
<1>9. k \in Nat /\ k < d /\ ld \in Nat \ {0} /\ d - (ld - 1) = k + 1 /\ s \in Nat
  BY <1>3, <1>4, <1>7
<1>10. /\ v \in 0 .. Pow2[d] - 1 /\ v \div Pow2[k + 1] = s \div Pow2[k + 1] /\ v \in Nat
       /\ \A u \in Nat : u \div Pow2[k + 1] = s \div Pow2[k + 1] =>
            u \div Pow2[k] \in {s \div Pow2[k], v \div Pow2[k]}
  <2>1. s \in 0 .. Pow2[d] - 1
    BY <1>3, <1>4
  <2>2. /\ v \in 0 .. Pow2[d] - 1 /\ v \div Pow2[k + 1] = s \div Pow2[k + 1]
        /\ \A u \in Nat : u \div Pow2[k + 1] = s \div Pow2[k + 1] =>
             u \div Pow2[k] \in {s \div Pow2[k], v \div Pow2[k]}
    <3>1. d \in Nat /\ k \in Nat /\ k < d
      BY <1>4, <1>9
    <3>2. \A i \in 0 .. Pow2[d] - 1 :
            /\ Other(i, k) \in 0 .. Pow2[d] - 1
            /\ Other(i, k) \div Pow2[k + 1] = i \div Pow2[k + 1]
            /\ \A u \in Nat : u \div Pow2[k + 1] = i \div Pow2[k + 1] =>
                 u \div Pow2[k] \in {i \div Pow2[k], Other(i, k) \div Pow2[k]}
      BY <3>1, OtherFacts
    <3> QED BY <1>5, <2>1, <3>2, Zenon
  <2> QED BY <2>2
<1>11. gone \in InUse(x) /\ gone \in DOMAIN x.buckets /\ gone \in Nat
  BY <1>4, <1>6, <1>10, SoundFacts DEF InUse
<1>12. /\ c \in [0 .. n - 1 -> BucketSet] /\ DOMAIN c = DOMAIN x.buckets
       /\ c[b].ld = ld - 1 /\ c[b].entries = x.buckets[b].entries \cup x.buckets[gone].entries
       /\ c[gone] = NewBucket(0)
       /\ \A j \in DOMAIN x.buckets \ {b, gone} : c[j] = x.buckets[j]
  <2> DEFINE p == [ld |-> x.buckets[b].ld - 1, entries |-> x.buckets[b].entries \cup x.buckets[gone].entries]
             q == NewBucket(0)
  <2>1. c = [x.buckets EXCEPT ![b] = p, ![gone] = q]
    BY Zenon DEF MergedBuckets
  <2>2. p \in BucketSet /\ p.ld = ld - 1 /\ p.entries = x.buckets[b].entries \cup x.buckets[gone].entries
    <3>1. x.buckets[b].entries \subseteq Entries /\ x.buckets[gone].entries \subseteq Entries
      BY <1>4, <1>11, SoundFacts
    <3>2. ld - 1 \in 0 .. MaxDepth
      BY <1>4, <1>9
    <3> QED BY <1>6, <3>1, <3>2 DEF BucketSet
  <2>3. q \in BucketSet /\ q = NewBucket(0)
    BY <1>4 DEF NewBucket, BucketSet
  <2> HIDE DEF c, p, q
  <2> QED BY <1>3, <1>4, <1>8, <1>11, <2>1, <2>2, <2>3
<1>13. /\ DOMAIN t = 0 .. Pow2[d] - 1 /\ t \in [0 .. Pow2[d] - 1 -> Nat]
       /\ \A u \in 0 .. Pow2[d] - 1 : t[u] = IF x.table[u] = gone THEN b ELSE x.table[u]
  BY <1>4 DEF MergedTable
<1>14. /\ f \in Seq(Nat) /\ DOMAIN f = 1 .. Len(x.free) + 1 /\ Len(f) = Len(x.free) + 1 /\ Len(x.free) \in Nat
       /\ f[Len(x.free) + 1] = gone /\ \A i \in 1 .. Len(x.free) : f[i] = x.free[i]
       /\ DOMAIN x.free = 1 .. Len(x.free)
  BY <1>4, <1>11
<1> HIDE DEF c, t, f
<1>15. y.depth = d /\ y.table = t /\ y.buckets = c /\ y.free = f
  BY <1>2
<1>16. Range(f) = Range(x.free) \cup {gone}
  <2>1. \A i \in DOMAIN f : i \in 1 .. Len(x.free) \/ i = Len(x.free) + 1
    BY <1>14
  <2>2. \A i \in DOMAIN x.free : i \in DOMAIN f /\ f[i] = x.free[i]
    BY <1>14
  <2>3. Len(x.free) + 1 \in DOMAIN f
    BY <1>14
  <2> QED BY <1>14, <2>1, <2>2, <2>3 DEF Range
<1>17. InUse(y) = InUse(x) \ {gone}
  BY <1>12, <1>15, <1>16 DEF InUse
<1>18. y \in HashedSet
  BY <1>2, <1>4, <1>12, <1>13, <1>14, InHashedSet
<1>19. \A u \in 0 .. Pow2[d] - 1 :
         x.table[u] \in InUse(x) /\ x.table[u] \in DOMAIN x.buckets /\ u \in Nat
         /\ Shift(x, u) = d - x.buckets[x.table[u]].ld
  <2> TAKE u \in 0 .. Pow2[d] - 1
  <2>1. x.table[u] \in InUse(x)
    BY <1>4, SoundFacts
  <2>2. Shift(x, u) = d - x.buckets[x.table[u]].ld
    BY <1>6, Zenon DEF Shift
  <2> QED BY <2>1, <2>2 DEF InUse
<1>20. TableInv(y)
  <2>1. \A j \in DOMAIN c : c[j].ld <= d
    <3> TAKE j \in DOMAIN c
    <3>1. CASE j = b
      BY <1>4, <1>9, <1>12, <3>1
    <3>2. CASE j = gone
      BY <1>4, <1>12, <3>2 DEF NewBucket
    <3>3. CASE j \notin {b, gone}
      <4>1. c[j] = x.buckets[j] /\ j \in DOMAIN x.buckets
        BY <1>12, <3>3
      <4> QED BY <1>6, <4>1, SoundFacts
    <3> QED BY <3>1, <3>2, <3>3
  <2>2. Range(t) \subseteq InUse(x) \ {gone}
    BY <1>3, <1>4, <1>13, <1>19 DEF Range
  <2>3. ASSUME NEW j \in InUse(x) \ {gone} PROVE j \in Range(t)
    <3>1. PICK u \in DOMAIN x.table : x.table[u] = j
      BY SoundFacts
    <3>2. t[u] = j /\ u \in DOMAIN t
      BY <1>4, <1>13, <3>1
    <3> QED BY <3>2 DEF Range
  <2>4. Aligned(y)
    <3> SUFFICES ASSUME NEW i \in 0 .. Pow2[d] - 1, NEW u \in 0 .. Pow2[d] - 1
                 PROVE  t[u] = t[i] <=> u \div Pow2[Shift(y, i)] = i \div Pow2[Shift(y, i)]
      BY <1>13, <1>15 DEF Aligned
    <3>1. Shift(y, i) = d - c[t[i]].ld
      BY <1>15, Zenon DEF Shift
    <3>2. Aligned(x)
      BY DEF Sound, TableInv
    <3>3. CASE x.table[i] \in {b, gone}
      <4>1. t[i] = b /\ Shift(y, i) = k + 1
        BY <1>9, <1>12, <1>13, <3>1, <3>3
      <4>2. t[u] = b <=> x.table[u] \in {b, gone}
        BY <1>13
      <4>3. Shift(x, s) = k /\ Shift(x, v) = k
        <5>1. s \in 0 .. Pow2[d] - 1
          BY <1>3, <1>4
        <5>2. Shift(x, s) = d - x.buckets[x.table[s]].ld /\ Shift(x, v) = d - x.buckets[x.table[v]].ld
          BY <1>10, <1>19, <5>1, Zenon
        <5> QED BY <1>3, <1>6, <1>7, <5>2, Zenon
      <4>4. \A w \in 0 .. Pow2[d] - 1 :
              x.table[w] \in {b, gone} <=> w \div Pow2[k] \in {s \div Pow2[k], v \div Pow2[k]}
        <5> TAKE w \in 0 .. Pow2[d] - 1
        <5>1. /\ x.table[w] = x.table[s] <=> w \div Pow2[k] = s \div Pow2[k]
              /\ x.table[w] = x.table[v] <=> w \div Pow2[k] = v \div Pow2[k]
          BY <1>3, <1>4, <1>10, <3>2, <4>3, Zenon DEF Aligned
        <5> QED BY <1>6, <5>1, Zenon
      <4>5. \A w \in 0 .. Pow2[d] - 1 :
              w \div Pow2[k] \in {s \div Pow2[k], v \div Pow2[k]} <=> w \div Pow2[k + 1] = s \div Pow2[k + 1]
        <5> TAKE w \in 0 .. Pow2[d] - 1
        <5>1. w \in Nat
          OBVIOUS
        <5>2. /\ w \div Pow2[k + 1] = (w \div Pow2[k]) \div 2
              /\ s \div Pow2[k + 1] = (s \div Pow2[k]) \div 2
              /\ v \div Pow2[k + 1] = (v \div Pow2[k]) \div 2
          BY <1>9, <1>10, <5>1, Halves, Zenon
        <5> QED BY <1>10, <5>1, <5>2, Zenon
      <4>6. i \div Pow2[k + 1] = s \div Pow2[k + 1]
        BY <3>3, <4>4, <4>5, Zenon
      <4> QED BY <4>1, <4>2, <4>4, <4>5, <4>6, Zenon
    <3>4. CASE x.table[i] \notin {b, gone}
      <4>1. t[i] = x.table[i] /\ Shift(y, i) = Shift(x, i)
        BY <1>12, <1>13, <1>19, <3>1, <3>4
      <4>2. t[u] = t[i] <=> x.table[u] = x.table[i]
        BY <1>13, <3>4, <4>1
      <4>3. x.table[u] = x.table[i] <=> u \div Pow2[Shift(x, i)] = i \div Pow2[Shift(x, i)]
        BY <1>4, <3>2, Zenon DEF Aligned
      <4> QED BY <4>1, <4>2, <4>3, Zenon
    <3> QED BY <3>3, <3>4
  <2>5. Range(t) = InUse(y)
    BY <1>17, <2>2, <2>3
  <2> QED BY <1>13, <1>15, <2>1, <2>4, <2>5 DEF TableInv
<1>21. FreeInv(y)
  <2>1. Range(f) \subseteq DOMAIN c
    BY <1>11, <1>12, <1>16 DEF Sound, FreeInv
  <2>2. \A i, j \in 1 .. Len(f) : f[i] = f[j] => i = j
    <3> SUFFICES ASSUME NEW i \in 1 .. Len(f), NEW j \in 1 .. Len(f), f[i] = f[j] PROVE i = j
      OBVIOUS
    <3>1. \A m \in 1 .. Len(x.free) : x.free[m] # gone
      BY <1>11, <1>14 DEF InUse, Range
    <3>2. \A m, w \in 1 .. Len(x.free) : x.free[m] = x.free[w] => m = w
      BY DEF Sound, FreeInv
    <3>3. \A m \in 1 .. Len(f) : m \in 1 .. Len(x.free) \/ (m = Len(x.free) + 1 /\ f[m] = gone)
      BY <1>14
    <3>4. CASE f[i] = gone
      <4>1. i \notin 1 .. Len(x.free) /\ j \notin 1 .. Len(x.free)
        BY <1>14, <3>1, <3>4
      <4> QED BY <3>3, <4>1
    <3>5. CASE f[i] # gone
      <4>1. i \in 1 .. Len(x.free) /\ j \in 1 .. Len(x.free)
        BY <3>3, <3>5
      <4> QED BY <1>14, <3>2, <4>1
    <3> QED BY <3>4, <3>5
  <2>3. \A j \in Range(f) : c[j] = NewBucket(0)
    <3> TAKE j \in Range(f)
    <3>1. CASE j = gone
      BY <1>12, <3>1
    <3>2. CASE j # gone
      <4>1. j \in Range(x.free) /\ j \in DOMAIN x.buckets \ {b, gone}
        BY <1>4, <1>16, <3>2 DEF Sound, FreeInv, InUse
      <4> QED BY <1>12, <4>1 DEF Sound, FreeInv
    <3> QED BY <3>1, <3>2
  <2> QED BY <1>15, <2>1, <2>2, <2>3 DEF FreeInv
<1>22. Placed(y)
  <2> SUFFICES ASSUME NEW j \in DOMAIN c, NEW e \in c[j].entries PROVE BucketOf(y, e[1]) = j
    BY <1>15 DEF Placed
  <2>1. PICK i \in DOMAIN x.buckets : 
               /\ e \in x.buckets[i].entries
               /\ (i # gone /\ i = j) \/ (i \in {b, gone} /\ j = b)
    <3>1. CASE j = b
      BY <1>4, <1>11, <1>12, <3>1
    <3>2. CASE j = gone
      BY <1>12, <3>2 DEF NewBucket
    <3>3. CASE j \notin {b, gone}
      BY <1>12, <3>3
    <3> QED BY <3>1, <3>2, <3>3
  <2>2. e[1] \in Names
    BY <2>1, SoundFacts DEF Entries
  <2> DEFINE u == Slot(HashOf[e[1]], d)
  <2>3. u \in 0 .. Pow2[d] - 1
    BY <1>4, <2>2, SlotFacts, Zenon
  <2>4. x.table[u] = i /\ BucketOf(y, e[1]) = t[u]
    BY <1>6, <1>15, <2>1 DEF Sound, Placed, BucketOf
  <2> HIDE DEF u
  <2> QED BY <1>3, <1>13, <2>1, <2>3, <2>4
<1>23. Listed(y) = Listed(x)
  <2>1. \A j \in InUse(x) \ {b, gone} : c[j] = x.buckets[j]
    BY <1>12 DEF InUse
  <2>2. /\ Listed(y) = UNION {c[j].entries : j \in InUse(x) \ {gone}}
        /\ Listed(x) = UNION {x.buckets[j].entries : j \in InUse(x)}
    BY <1>15, <1>17, Zenon DEF Listed
  <2>3. \A j \in InUse(x) \ {gone} : \A e \in c[j].entries : e \in Listed(x)
    BY <1>4, <1>11, <1>12, <2>1, <2>2
  <2>4. \A j \in InUse(x) : \A e \in x.buckets[j].entries : e \in Listed(y)
    <3> SUFFICES ASSUME NEW j \in InUse(x), NEW e \in x.buckets[j].entries
                 PROVE  \E i \in InUse(x) \ {gone} : e \in c[i].entries
      BY <2>2
    <3>1. CASE j \in {b, gone}
      BY <1>3, <1>4, <1>12, <3>1
    <3>2. CASE j \notin {b, gone}
      BY <2>1, <3>2
    <3> QED BY <3>1, <3>2
  <2> QED BY <2>2, <2>3, <2>4
<1> QED BY <1>18, <1>20, <1>21, <1>22, <1>23, Zenon DEF Sound


(* Every two slots, which agree, become one. *)
LEMMA HalvedSound ==
  ASSUME NEW x, Sound(x), x.depth > 0, Halvable(x)
  PROVE  /\ Sound(Halved(x)) /\ Listed(Halved(x)) = Listed(x)
         /\ Halved(x).depth = x.depth - 1 /\ Halved(x).buckets = x.buckets /\ Halved(x).free = x.free
<1> DEFINE d == x.depth
           t == [s \in 0 .. Pow2[d - 1] - 1 |-> x.table[2 * s]]
           y == Halved(x)
<1>1. x \in HashedSet /\ y = [depth |-> d - 1, table |-> t, buckets |-> x.buckets, free |-> x.free]
  <2>1. x \in HashedSet
    BY DEF Sound
  <2>2. [x EXCEPT !.depth = x.depth - 1].table = x.table
    BY <2>1 DEF HashedSet
  <2>3. y = [x EXCEPT !.depth = x.depth - 1, !.table = t]
    BY <2>2, Zenon DEF Halved
  <2> HIDE DEF t, y
  <2>4. [x EXCEPT !.depth = x.depth - 1, !.table = t]
          = [depth |-> x.depth - 1, table |-> t, buckets |-> x.buckets, free |-> x.free]
    BY <2>1, WithTable, Zenon
  <2> QED BY <2>1, <2>3, <2>4, Zenon
<1>2. DOMAIN t = 0 .. Pow2[d - 1] - 1 /\ t = [s \in 0 .. Pow2[d - 1] - 1 |-> t[s]]
      /\ \A s \in 0 .. Pow2[d - 1] - 1 : t[s] = x.table[2 * s]
  OBVIOUS
<1>3. x.depth = d
  OBVIOUS
<1> HIDE DEF d, t, y
<1>4. /\ d \in Nat \ {0} /\ d - 1 \in Nat /\ d - 1 \in 0 .. MaxDepth /\ (d - 1) + 1 = d
      /\ d \in 0 .. MaxDepth /\ MaxDepth \in Nat
      /\ x.table \in [0 .. Pow2[d] - 1 -> DOMAIN x.buckets] /\ DOMAIN x.buckets \subseteq Nat
      /\ DOMAIN x.table = 0 .. Pow2[d] - 1 /\ x.free \in Seq(Nat)
  <2>1. d \in Nat /\ d > 0 /\ d \in 0 .. MaxDepth /\ MaxDepth \in Nat
    BY <1>3, SoundFacts
  <2>2. /\ x.table \in [0 .. Pow2[d] - 1 -> DOMAIN x.buckets] /\ DOMAIN x.buckets \subseteq Nat
        /\ x.free \in Seq(Nat)
    BY <1>3, SoundFacts
  <2> QED BY <2>1, <2>2
<1>5. PICK n \in Nat : x.buckets \in [0 .. n - 1 -> BucketSet]
  BY DEF Sound, HashedSet
<1>6. /\ Pow2[d] = 2 * Pow2[d - 1] /\ Pow2[d - 1] \in Nat \ {0}
      /\ \A s \in 0 .. Pow2[d] - 1 : s \div 2 \in 0 .. Pow2[d - 1] - 1
      /\ \A s \in 0 .. Pow2[d - 1] - 1 : 2 * s \in 0 .. Pow2[d] - 1 /\ 2 * s + 1 \in 0 .. Pow2[d] - 1
  BY <1>4, PairSlots
<1>7. \A s \in 0 .. Pow2[d] - 1 : x.table[s] = x.table[2 * (s \div 2)] /\ x.table[s] = t[s \div 2]
  <2> TAKE s \in 0 .. Pow2[d] - 1
  <2>1. x.table[s] = x.table[2 * (s \div 2)]
    BY <1>4, Zenon DEF Halvable
  <2> QED BY <1>2, <1>6, <2>1
<1>8. t \in [0 .. Pow2[d - 1] - 1 -> Nat]
  <2>1. \A s \in 0 .. Pow2[d - 1] - 1 : t[s] \in Nat
    BY <1>2, <1>4, <1>6
  <2> QED BY <1>2, <2>1
<1>9. y \in HashedSet
  BY <1>1, <1>4, <1>5, <1>8, InHashedSet
<1>10. y.depth = d - 1 /\ y.table = t /\ y.buckets = x.buckets /\ y.free = x.free /\ InUse(y) = InUse(x)
  BY <1>1 DEF InUse
<1>11. \A s \in 0 .. Pow2[d] - 1 :
         /\ x.table[s] \in InUse(x) /\ Shift(x, s) \in 0 .. d
         /\ Shift(x, s) = d - x.buckets[x.table[s]].ld /\ x.buckets[x.table[s]].ld \in 0 .. d
  <2> TAKE s \in 0 .. Pow2[d] - 1
  <2>1. x.table[s] \in InUse(x) /\ Shift(x, s) \in 0 .. d
    BY <1>3, <1>4, SoundFacts
  <2>2. x.buckets[x.table[s]].ld \in 0 .. d
    BY <1>3, <1>4, SoundFacts
  <2> QED BY <1>3, <2>1, <2>2, Zenon DEF Shift
<1>12. Aligned(x)
  BY DEF Sound, TableInv
<1>13. \A s \in 0 .. Pow2[d] - 1 : Shift(x, s) # 0
  <2> SUFFICES ASSUME NEW s \in 0 .. Pow2[d] - 1, Shift(x, s) = 0 PROVE FALSE
    OBVIOUS
  <2> DEFINE a == 2 * (s \div 2)
             b == a + 1
  <2>1. a \in 0 .. Pow2[d] - 1 /\ b \in 0 .. Pow2[d] - 1 /\ a # b /\ a \div 2 = s \div 2 /\ b \div 2 = s \div 2
    BY <1>6, Doubles
  <2> HIDE DEF a, b
  <2>2. x.table[a] = x.table[s] /\ x.table[b] = x.table[s]
    BY <1>7, <2>1, Zenon
  <2>3. a \div Pow2[0] = s \div Pow2[0] /\ b \div Pow2[0] = s \div Pow2[0]
    BY <1>4, <1>12, <2>1, <2>2, Zenon DEF Aligned
  <2>4. a \div 1 = a /\ b \div 1 = b /\ Pow2[0] = 1
    BY <2>1, Pow2Facts
  <2> QED BY <2>1, <2>3, <2>4
<1>14. TableInv(y)
  <2>1. \A j \in DOMAIN x.buckets : x.buckets[j].ld <= d - 1
    <3> TAKE j \in DOMAIN x.buckets
    <3>1. CASE j \in InUse(x)
      <4>1. PICK s \in DOMAIN x.table : x.table[s] = j
        BY <3>1, SoundFacts
      <4>2. s \in 0 .. Pow2[d] - 1
        BY <1>4
      <4> QED BY <1>4, <1>11, <1>13, <4>1, <4>2
    <3>2. CASE j \notin InUse(x)
      <4>1. x.buckets[j] = NewBucket(0)
        BY <3>2 DEF InUse, Sound, FreeInv
      <4> QED BY <1>4, <4>1 DEF NewBucket
    <3> QED BY <3>1, <3>2
  <2>2. Range(t) = InUse(x)
    <3>1. Range(x.table) = InUse(x)
      BY DEF Sound, TableInv
    <3>2. Range(t) \subseteq Range(x.table)
      <4>1. \A s \in DOMAIN t : t[s] = x.table[2 * s] /\ 2 * s \in DOMAIN x.table
        BY <1>2, <1>4, <1>6, Zenon
      <4> QED BY <4>1, Zenon DEF Range
    <3>3. Range(x.table) \subseteq Range(t)
      <4>1. \A s \in 0 .. Pow2[d] - 1 : x.table[s] = t[s \div 2] /\ s \div 2 \in DOMAIN t
        BY <1>2, <1>6, <1>7, Zenon
      <4> QED BY <1>4, <4>1, Zenon DEF Range
    <3> QED BY <3>1, <3>2, <3>3
  <2>3. Aligned(y)
    <3> SUFFICES ASSUME NEW s \in 0 .. Pow2[d - 1] - 1, NEW u \in 0 .. Pow2[d - 1] - 1
                 PROVE  t[u] = t[s] <=> u \div Pow2[Shift(y, s)] = s \div Pow2[Shift(y, s)]
      BY <1>2, <1>10 DEF Aligned
    <3> DEFINE k == Shift(x, 2 * s)
               l == x.buckets[x.table[2 * s]].ld
    <3>1. 2 * s \in 0 .. Pow2[d] - 1 /\ 2 * u \in 0 .. Pow2[d] - 1 /\ t[s] = x.table[2 * s] /\ t[u] = x.table[2 * u]
          /\ s \in Nat /\ u \in Nat
      <4>1. s \in Nat /\ u \in Nat
        OBVIOUS
      <4> QED BY <1>2, <1>6, <4>1, Zenon
    <3>2. k \in 0 .. d /\ k # 0 /\ k = d - l /\ l \in 0 .. d
      BY <1>11, <1>13, <3>1, Zenon
    <3>3. Shift(y, s) = (d - 1) - l
      BY <1>10, <3>1, Zenon DEF Shift
    <3>4. x.table[2 * u] = x.table[2 * s] <=> (2 * u) \div Pow2[k] = (2 * s) \div Pow2[k]
      BY <1>4, <1>12, <3>1, Zenon DEF Aligned
    <3> HIDE DEF k, l
    <3>5. Shift(y, s) = k - 1 /\ k - 1 \in Nat /\ (k - 1) + 1 = k
      BY <1>4, <3>2, <3>3
    <3>6. \A w \in Nat : (2 * w) \div Pow2[k] = w \div Pow2[k - 1]
      <4> TAKE w \in Nat
      <4>1. 2 \in Nat \ {0} /\ Pow2[k - 1] \in Nat \ {0} /\ Pow2[k] = 2 * Pow2[k - 1]
        BY <3>5, Pow2Facts
      <4>2. 2 * w \in Nat /\ (2 * w) \div 2 = w
        BY Doubles
      <4>3. ((2 * w) \div 2) \div Pow2[k - 1] = (2 * w) \div (2 * Pow2[k - 1])
        BY <4>1, <4>2, DivTwice, Zenon
      <4> QED BY <4>1, <4>2, <4>3, Zenon
    <3> QED BY <3>1, <3>4, <3>5, <3>6, Zenon
  <2> QED BY <1>2, <1>10, <2>1, <2>2, <2>3 DEF TableInv
<1>15. FreeInv(y)
  BY <1>10 DEF Sound, FreeInv
<1>16. Placed(y)
  <2> SUFFICES ASSUME NEW b \in DOMAIN x.buckets, NEW e \in x.buckets[b].entries PROVE BucketOf(y, e[1]) = b
    BY <1>10 DEF Placed
  <2>1. e[1] \in Names
    BY SoundFacts DEF Entries
  <2> DEFINE s == Slot(HashOf[e[1]], d)
  <2>2. s \in 0 .. Pow2[d] - 1 /\ s \div Pow2[d - (d - 1)] = Slot(HashOf[e[1]], d - 1)
    <3>1. d - 1 \in 0 .. d
      BY <1>4
    <3> QED BY <1>4, <2>1, <3>1, SlotFacts, Zenon
  <2>3. Pow2[d - (d - 1)] = 2
    <3>1. d - (d - 1) = 0 + 1
      BY <1>4
    <3> QED BY <3>1, Pow2Facts
  <2>4. x.table[s] = b /\ BucketOf(y, e[1]) = t[Slot(HashOf[e[1]], d - 1)]
    BY <1>3, <1>10 DEF Sound, Placed, BucketOf
  <2> QED BY <1>7, <2>2, <2>3, <2>4, Zenon
<1>17. Listed(y) = Listed(x)
  BY <1>10, Zenon DEF Listed
<1> QED BY <1>3, <1>9, <1>10, <1>14, <1>15, <1>16, <1>17, Zenon DEF Sound, y

LEMMA MergeRoundSound ==
  ASSUME NEW x, Sound(x), NEW y \in MergeRound(x)
  PROVE  Sound(y) /\ Listed(y) = Listed(x)
<1> DEFINE s == Min(Mergeable(x))
           z == Merge(x, x.table[s], x.table[BuddySlot(x, s)])
<1>1. x.depth \in Nat
  BY SoundFacts
<1>2. CASE x.depth = 0
  <2>1. ~(x.depth > 0)
    BY <1>2
  <2>2. MergeRound(x) = {x}
    BY <1>2, <2>1, Zenon DEF MergeRound
  <2> QED BY <2>2, Zenon
<1>3. CASE x.depth # 0 /\ Mergeable(x) # {}
  <2>1. x.depth > 0
    BY <1>1, <1>3
  <2>2. MergeRound(x) = IF HeaderFits(z) THEN {z} ELSE {}
    BY <1>3, <2>1, Zenon DEF MergeRound
  <2>3. y = z
    <3> HIDE DEF z
    <3> QED BY <2>2
  <2>4. s \in Mergeable(x)
    <3>1. Mergeable(x) \in SUBSET Nat
      <4>1. DOMAIN x.table = 0 .. Pow2[x.depth] - 1
        BY DEF Sound, TableInv
      <4>2. \A i \in DOMAIN x.table : i \in Nat
        BY <4>1
      <4> QED BY <4>2, Zenon DEF Mergeable
    <3>2. \E i \in Mergeable(x) : \A j \in Mergeable(x) : i <= j
      <4>1. PICK i : i \in Mergeable(x)
        BY <1>3
      <4> QED BY <3>1, <4>1, LeastNumber
    <3> QED BY <3>2, Zenon DEF Min
  <2> HIDE DEF s
  <2> QED BY <2>3, <2>4, MergeSound, Zenon
<1>4. CASE x.depth # 0 /\ Mergeable(x) = {} /\ Halvable(x)
  <2>1. x.depth > 0
    BY <1>1, <1>4
  <2>2. MergeRound(x) = {Halved(x)}
    BY <1>4, <2>1, Zenon DEF MergeRound
  <2>3. Sound(Halved(x)) /\ Listed(Halved(x)) = Listed(x)
    BY <1>4, <2>1, HalvedSound, Zenon
  <2> QED BY <2>2, <2>3, Zenon
<1>5. CASE x.depth # 0 /\ Mergeable(x) = {} /\ ~Halvable(x)
  <2>1. MergeRound(x) = {x}
    BY <1>5, Zenon DEF MergeRound
  <2> QED BY <2>1, Zenon
<1> QED BY <1>2, <1>3, <1>4, <1>5

(* The table is as wide as its deepest bucket needs. *)
Deep(x) == \E b \in InUse(x) : x.buckets[b].ld = x.depth
(* try_merge has nothing left to do. *)
Rested(x) == x.depth = 0 \/ (Mergeable(x) = {} /\ ~Halvable(x))
(* Each of its rounds lowers this number. *)
Weight(x) == Cardinality(InUse(x)) + x.depth

(* There are finitely many buckets, at most one for each slot. *)
LEMMA InUseCounts ==
  ASSUME NEW x, Sound(x)
  PROVE  /\ IsFiniteSet(InUse(x)) /\ Cardinality(InUse(x)) \in Nat \ {0}
         /\ Cardinality(InUse(x)) <= Pow2[x.depth]
         /\ x.depth \in Nat /\ Pow2[x.depth] \in Nat \ {0}
<1> DEFINE D == 0 .. Pow2[x.depth] - 1
<1>1. x.depth \in Nat /\ Pow2[x.depth] \in Nat \ {0}
  BY SoundFacts, Pow2Facts
<1>2. IsFiniteSet(D) /\ Cardinality(D) = Pow2[x.depth]
  <2> DEFINE p == Pow2[x.depth]
  <2>1. p \in Nat \ {0}
    BY <1>1
  <2> HIDE DEF p
  <2>2. 0 \in Int /\ p - 1 \in Int
    BY <2>1
  <2>3. IsFiniteSet(0 .. p - 1) /\ Cardinality(0 .. p - 1) = IF 0 > p - 1 THEN 0 ELSE (p - 1) - 0 + 1
    BY <2>2, FS_Interval, Zenon
  <2>4. Cardinality(0 .. p - 1) = p
    BY <2>1, <2>3
  <2> QED BY <2>3, <2>4 DEF p
<1>3. x.table \in Surjection(D, InUse(x))
  <2>1. DOMAIN x.table = D /\ \A s \in D : x.table[s] \in InUse(x)
    BY SoundFacts DEF Sound, TableInv
  <2>2. x.table \in [D -> InUse(x)]
    <3>1. x.table \in [D -> DOMAIN x.buckets]
      BY SoundFacts
    <3> HIDE DEF D
    <3> QED BY <2>1, <3>1
  <2>3. \A b \in InUse(x) : \E s \in D : x.table[s] = b
    BY <2>1, SoundFacts
  <2> HIDE DEF D
  <2> QED BY <2>2, <2>3 DEF Surjection
<1>4. IsFiniteSet(InUse(x)) /\ Cardinality(InUse(x)) <= Cardinality(D)
  BY <1>2, <1>3, FS_Surjection
<1>5. x.table[0] \in InUse(x)
  <2>1. 0 \in D /\ DOMAIN x.table = D
    BY <1>1 DEF Sound, TableInv
  <2> QED BY <2>1, SoundFacts
<1>6. Cardinality(InUse(x)) \in Nat /\ Cardinality(InUse(x)) # 0
  BY <1>4, <1>5, FS_CardinalityType, FS_EmptySet
<1> QED BY <1>1, <1>2, <1>4, <1>6

LEMMA MergeUses ==
  ASSUME NEW x, Sound(x), NEW s \in Mergeable(x),
         NEW y, y = Merge(x, x.table[s], x.table[BuddySlot(x, s)])
  PROVE  Weight(y) = Weight(x) - 1
<1> DEFINE b == x.table[s]
           gone == x.table[BuddySlot(x, s)]
<1>1. x \in HashedSet
  BY DEF Sound
<1>2. y = [depth |-> x.depth, table |-> MergedTable(x, b, gone), buckets |-> MergedBuckets(x, b, gone),
           free |-> Append(x.free, gone)]
  BY <1>1, MergeIs, Zenon
<1>3. s \in DOMAIN x.table /\ x.buckets[b].ld > 0
  BY Zenon DEF Mergeable
<1>4. gone \in InUse(x)
  <2> DEFINE v == BuddySlot(x, s)
             k == x.depth - x.buckets[b].ld
  <2>1. v = Other(s, k)
    BY Zenon DEF BuddySlot, Other
  <2>2. x.depth \in Nat /\ s \in 0 .. Pow2[x.depth] - 1 /\ DOMAIN x.table = 0 .. Pow2[x.depth] - 1
        /\ x.buckets[b].ld \in 0 .. x.depth
    <3>1. b \in DOMAIN x.buckets
      BY <1>3, SoundFacts DEF InUse
    <3> QED BY <1>3, <3>1, SoundFacts
  <2>3. k \in Nat /\ k < x.depth
    BY <1>3, <2>2
  <2> HIDE DEF v, k
  <2>4. v \in DOMAIN x.table
    BY <2>1, <2>2, <2>3, OtherFacts
  <2> QED BY <2>4, SoundFacts DEF v
<1> HIDE DEF b, gone
<1>5. DOMAIN y.buckets = DOMAIN x.buckets /\ y.free = Append(x.free, gone) /\ y.depth = x.depth
  BY <1>2 DEF MergedBuckets
<1>6. Range(y.free) = Range(x.free) \cup {gone}
  <2>1. x.free \in Seq(Nat) /\ gone \in Nat /\ DOMAIN x.free = 1 .. Len(x.free) /\ Len(x.free) \in Nat
    BY <1>4, SoundFacts DEF InUse
  <2> DEFINE f == Append(x.free, gone)
             n == Len(x.free)
  <2>2. DOMAIN f = 1 .. n + 1 /\ f[n + 1] = gone /\ \A i \in 1 .. n : f[i] = x.free[i]
    BY <2>1
  <2> HIDE DEF f
  <2>3. n \in Nat /\ 1 .. n + 1 = 1 .. n \cup {n + 1}
    BY <2>1
  <2>4. Range(f) = {x.free[i] : i \in 1 .. n} \cup {gone}
    <3> HIDE DEF n
    <3> QED BY <2>2, <2>3 DEF Range
  <2> QED BY <1>5, <2>1, <2>4 DEF Range, f
<1>7. InUse(y) = InUse(x) \ {gone}
  BY <1>5, <1>6 DEF InUse
<1>8. Cardinality(InUse(y)) = Cardinality(InUse(x)) - 1
  BY <1>4, <1>7, InUseCounts, FS_RemoveElement
<1>9. Cardinality(InUse(x)) \in Nat /\ x.depth \in Nat /\ y.depth = x.depth
  BY <1>5, InUseCounts
<1> QED BY <1>8, <1>9 DEF Weight

LEMMA RoundWeight ==
  ASSUME NEW x, Sound(x), NEW y \in MergeRound(x)
  PROVE  IF Rested(x) THEN y = x ELSE Weight(y) = Weight(x) - 1
<1> DEFINE s == Min(Mergeable(x))
           z == Merge(x, x.table[s], x.table[BuddySlot(x, s)])
<1>1. x.depth \in Nat
  BY SoundFacts
<1>2. CASE x.depth = 0
  <2>1. ~(x.depth > 0)
    BY <1>2
  <2>2. MergeRound(x) = {x}
    BY <1>2, <2>1, Zenon DEF MergeRound
  <2> QED BY <1>2, <2>2, Zenon DEF Rested
<1>3. CASE x.depth # 0 /\ Mergeable(x) # {}
  <2>1. x.depth > 0
    BY <1>1, <1>3
  <2>2. MergeRound(x) = IF HeaderFits(z) THEN {z} ELSE {}
    BY <1>3, <2>1, Zenon DEF MergeRound
  <2>3. y = z
    <3> HIDE DEF z
    <3> QED BY <2>2
  <2>4. s \in Mergeable(x)
    <3>1. Mergeable(x) \in SUBSET Nat
      <4>1. DOMAIN x.table = 0 .. Pow2[x.depth] - 1
        BY DEF Sound, TableInv
      <4>2. \A i \in DOMAIN x.table : i \in Nat
        BY <4>1
      <4> QED BY <4>2, Zenon DEF Mergeable
    <3>2. \E i \in Mergeable(x) : \A j \in Mergeable(x) : i <= j
      <4>1. PICK i : i \in Mergeable(x)
        BY <1>3
      <4> QED BY <3>1, <4>1, LeastNumber
    <3> QED BY <3>2, Zenon DEF Min
  <2> HIDE DEF s
  <2>5. Weight(y) = Weight(x) - 1
    BY <2>3, <2>4, MergeUses, Zenon
  <2> QED BY <1>3, <2>5, Zenon DEF Rested
<1>4. CASE x.depth # 0 /\ Mergeable(x) = {} /\ Halvable(x)
  <2>1. x.depth > 0
    BY <1>1, <1>4
  <2>2. MergeRound(x) = {Halved(x)}
    BY <1>4, <2>1, Zenon DEF MergeRound
  <2>3. /\ Halved(x).depth = x.depth - 1 /\ Halved(x).buckets = x.buckets
        /\ Halved(x).free = x.free
    BY <1>4, <2>1, HalvedSound, Zenon
  <2>4. Weight(y) = Weight(x) - 1
    <3>1. InUse(y) = InUse(x) /\ y.depth = x.depth - 1
      BY <2>2, <2>3 DEF InUse
    <3> QED BY <1>1, <3>1, InUseCounts DEF Weight
  <2> QED BY <1>4, <2>4, Zenon DEF Rested
<1>5. CASE x.depth # 0 /\ Mergeable(x) = {} /\ ~Halvable(x)
  <2>1. MergeRound(x) = {x}
    BY <1>5, Zenon DEF MergeRound
  <2> QED BY <1>5, <2>1, Zenon DEF Rested
<1> QED BY <1>2, <1>3, <1>4, <1>5

LEMMA RestedFacts ==
  ASSUME NEW x, Sound(x), Rested(x)
  PROVE  Mergeable(x) = {} /\ Deep(x)
<1>1. /\ x.depth \in Nat /\ \A s \in DOMAIN x.table : x.table[s] \in InUse(x)
      /\ \A b \in InUse(x) : x.buckets[b].ld \in 0 .. x.depth
      /\ DOMAIN x.table = 0 .. Pow2[x.depth] - 1 /\ Pow2[x.depth] \in Nat \ {0}
  <2>1. x.depth \in Nat /\ \A s \in DOMAIN x.table : x.table[s] \in InUse(x)
    BY SoundFacts
  <2>2. \A b \in InUse(x) : x.buckets[b].ld \in 0 .. x.depth
    BY SoundFacts
  <2>3. DOMAIN x.table = 0 .. Pow2[x.depth] - 1
    BY DEF Sound, TableInv
  <2> QED BY <2>1, <2>2, <2>3, Pow2Facts
<1>2. CASE x.depth = 0
  <2>1. \A b \in InUse(x) : x.buckets[b].ld = 0 /\ ~(x.buckets[b].ld > 0)
    BY <1>1, <1>2
  <2>2. Mergeable(x) = {}
    BY <1>1, <2>1, Zenon DEF Mergeable
  <2>3. 0 \in DOMAIN x.table
    BY <1>1
  <2> QED BY <1>1, <1>2, <2>1, <2>2, <2>3, Zenon DEF Deep
<1>3. CASE Mergeable(x) = {} /\ ~Halvable(x)
  <2>1. PICK s \in DOMAIN x.table : x.table[s] # x.table[2 * (s \div 2)]
    BY <1>3, Zenon DEF Halvable
  <2> DEFINE k == Shift(x, s)
             u == 2 * (s \div 2)
  <2>2. s \in Nat /\ k \in 0 .. x.depth /\ u \in DOMAIN x.table /\ u \div 2 = s \div 2 /\ u \in Nat
    <3>1. s \in Nat
      BY <1>1
    <3>2. u \in Nat /\ u <= s /\ u \div 2 = s \div 2
      BY <3>1
    <3>3. u \in DOMAIN x.table
      BY <1>1, <3>1, <3>2
    <3>4. k \in 0 .. x.depth
      BY SoundFacts
    <3> QED BY <3>1, <3>2, <3>3, <3>4
  <2>3. x.table[u] = x.table[s] <=> u \div Pow2[k] = s \div Pow2[k]
    BY <2>1, <2>2, Zenon DEF Sound, TableInv, Aligned
  <2>4. x.table[u] # x.table[s]
    BY <2>1
  <2>5. k = x.depth - x.buckets[x.table[s]].ld
    BY DEF Shift
  <2> HIDE DEF k, u
  <2>6. k = 0
    <3> SUFFICES ASSUME k # 0 PROVE FALSE
      OBVIOUS
    <3>1. k - 1 \in Nat /\ (k - 1) + 1 = k
      BY <1>1, <2>2
    <3>2. 2 \in Nat \ {0} /\ Pow2[k - 1] \in Nat \ {0} /\ Pow2[k] = 2 * Pow2[k - 1]
      BY <3>1, Pow2Facts
    <3>3. \A w \in Nat : w \div Pow2[k] = (w \div 2) \div Pow2[k - 1]
      <4> TAKE w \in Nat
      <4>1. (w \div 2) \div Pow2[k - 1] = w \div (2 * Pow2[k - 1])
        BY <3>2, DivTwice, Zenon
      <4> QED BY <3>2, <4>1, Zenon
    <3> QED BY <2>2, <2>3, <2>4, <3>3, Zenon
  <2>7. x.buckets[x.table[s]].ld = x.depth
    BY <1>1, <2>1, <2>5, <2>6
  <2> QED BY <1>1, <1>3, <2>1, <2>7, Zenon DEF Deep
<1> QED BY <1>2, <1>3 DEF Rested

(* The rounds of try_merge. *)
LEMMA TryMergeRounds ==
  ASSUME NEW x, Sound(x)
  PROVE  \E ff : /\ TryMerge(x) = ff[Pow2[MaxDepth + 1]] /\ ff[0] = {x}
                 /\ \A k \in Nat : ff[k + 1] = UNION {MergeRound(z) : z \in ff[k]}
                 /\ \A k \in Nat : \A z \in ff[k] : Sound(z) /\ Listed(z) = Listed(x)
<1> DEFINE S == {z \in HashedSet : Sound(z) /\ Listed(z) = Listed(x)}
           ff == CHOOSE after : after =
                   [k \in Nat |-> IF k = 0 THEN {x} ELSE UNION {MergeRound(z) : z \in after[k - 1]}]
<1>1. ASSUME NEW z \in S PROVE MergeRound(z) \subseteq S
  <2> SUFFICES ASSUME NEW w \in MergeRound(z) PROVE w \in S
    <3> HIDE DEF S
    <3> QED OBVIOUS
  <2>1. Sound(w) /\ Listed(w) = Listed(z)
    BY MergeRoundSound, Zenon
  <2>2. w \in HashedSet
    BY <2>1, Zenon DEF Sound
  <2> QED BY <2>1, <2>2
<1>2. x \in S
  BY Zenon DEF Sound
<1>3. TryMerge(x) = ff[Pow2[MaxDepth + 1]]
  BY Zenon DEF TryMerge
<1> HIDE DEF S
<1>4. ff = [k \in Nat |-> IF k = 0 THEN {x} ELSE UNION {MergeRound(z) : z \in ff[k - 1]}]
  <2> DEFINE h == [k \in Nat |-> [T \in SUBSET S |-> UNION {MergeRound(z) : z \in T}]]
  <2>1. /\ h \in [Nat -> [SUBSET S -> SUBSET S]] /\ {x} \in SUBSET S
        /\ \A k \in Nat, T \in SUBSET S : h[k][T] = UNION {MergeRound(z) : z \in T}
    BY <1>1, <1>2
  <2> HIDE DEF h
  <2>2. PICK f : Iterates(f, SUBSET S, {x}, h)
    BY <2>1, RecursionExists
  <2>3. f = [k \in Nat |-> IF k = 0 THEN {x} ELSE UNION {MergeRound(z) : z \in f[k - 1]}]
    <3>1. \A k \in Nat \ {0} : k - 1 \in Nat /\ (k - 1) + 1 = k /\ f[k] = h[k - 1][f[k - 1]]
      BY <2>2 DEF Iterates
    <3>2. \A k \in Nat \ {0} : f[k] = UNION {MergeRound(z) : z \in f[k - 1]}
      <4>1. \A k \in Nat : f[k] \in SUBSET S
        BY <2>2 DEF Iterates
      <4> QED BY <2>1, <3>1, <4>1
    <3>3. f \in [Nat -> SUBSET S] /\ f[0] = {x}
      BY <2>2 DEF Iterates
    <3> QED BY <3>2, <3>3
  <2> QED BY <2>3
<1> HIDE DEF ff
<1>5. ff[0] = {x} /\ \A k \in Nat : ff[k + 1] = UNION {MergeRound(z) : z \in ff[k]}
  BY <1>4
<1>6. \A k \in Nat : ff[k] \subseteq S
  <2> DEFINE U == {k \in Nat : ff[k] \subseteq S}
  <2>1. 0 \in U
    BY <1>2, <1>5
  <2>2. ASSUME NEW k \in U PROVE k + 1 \in U
    BY <1>1, <1>5
  <2>3. U = Nat
    <3>1. U \in SUBSET Nat
      OBVIOUS
    <3> HIDE DEF U
    <3> QED BY <2>1, <2>2, <3>1, Induction
  <2> QED BY <2>3
<1>7. \A k \in Nat : \A z \in ff[k] : Sound(z) /\ Listed(z) = Listed(x)
  BY <1>6 DEF S
<1> QED BY <1>3, <1>5, <1>7, Zenon

(* 2^(MaxDepth + 1) rounds are enough. *)
LEMMA TryMergeRests ==
  ASSUME NEW x, Sound(x), NEW y \in TryMerge(x)
  PROVE  Sound(y) /\ Listed(y) = Listed(x) /\ Rested(y)
<1> DEFINE N == Pow2[MaxDepth + 1]
<1>1. PICK ff : /\ TryMerge(x) = ff[N] /\ ff[0] = {x}
                /\ \A k \in Nat : ff[k + 1] = UNION {MergeRound(z) : z \in ff[k]}
                /\ \A k \in Nat : \A z \in ff[k] : Sound(z) /\ Listed(z) = Listed(x)
  BY TryMergeRounds, Zenon
<1>2. \A z : Sound(z) => Weight(z) \in Nat \ {0}
  <2> SUFFICES ASSUME NEW z, Sound(z) PROVE Weight(z) \in Nat \ {0}
    OBVIOUS
  <2>1. Cardinality(InUse(z)) \in Nat \ {0} /\ z.depth \in Nat
    BY InUseCounts
  <2> QED BY <2>1 DEF Weight
<1>3. N \in Nat /\ Weight(x) <= N
  <2> DEFINE d == x.depth
  <2>1. MaxDepth \in Nat /\ d \in 0 .. MaxDepth
    BY SoundFacts
  <2>2. d < Pow2[d]
    <3> DEFINE T == {n \in Nat : n < Pow2[n]}
    <3>1. 0 \in T /\ \A n \in T : n + 1 \in T
      BY Pow2Facts
    <3>2. T = Nat
      <4>1. T \in SUBSET Nat
        OBVIOUS
      <4> HIDE DEF T
      <4> QED BY <3>1, <4>1, Induction
    <3>3. d \in Nat
      BY <2>1
    <3> HIDE DEF d
    <3> QED BY <3>2, <3>3
  <2>3. Weight(x) <= Pow2[d] + d
    BY InUseCounts DEF Weight
  <2>4. Pow2[d + 1] <= N /\ N \in Nat /\ Pow2[d + 1] = 2 * Pow2[d] /\ Pow2[d] \in Nat
    <3> HIDE DEF d
    <3>1. MaxDepth + 1 \in Nat /\ d + 1 \in 0 .. MaxDepth + 1 /\ d \in Nat
      BY <2>1
    <3>2. /\ Pow2[d + 1] \in Nat \ {0} /\ Pow2[(MaxDepth + 1) - (d + 1)] \in Nat \ {0} /\ N \in Nat \ {0}
          /\ Pow2[d + 1] * Pow2[(MaxDepth + 1) - (d + 1)] = N
      BY <3>1, Pow2Parts
    <3>3. \A a, b \in Nat \ {0} : a <= a * b
      <4> TAKE a, b \in Nat \ {0}
      <4>1. a * 1 <= a * b
        BY Monotone
      <4> QED BY <4>1
    <3>4. Pow2[d + 1] <= N
      BY <3>2, <3>3
    <3> QED BY <3>1, <3>2, <3>4, Pow2Facts
  <2>5. Weight(x) \in Nat /\ d \in Nat
    BY <1>2, <2>1
  <2> HIDE DEF d, N
  <2> QED BY <2>2, <2>3, <2>4, <2>5
<1> HIDE DEF N
<1>4. \A k \in Nat : \A z \in ff[k] : Rested(z) \/ Weight(z) + k <= Weight(x)
  <2> DEFINE U == {k \in Nat : \A z \in ff[k] : Rested(z) \/ Weight(z) + k <= Weight(x)}
  <2>1. 0 \in U
    BY <1>1, <1>2
  <2>2. ASSUME NEW k \in U PROVE k + 1 \in U
    <3> SUFFICES ASSUME NEW w \in ff[k + 1], ~Rested(w) PROVE Weight(w) + (k + 1) <= Weight(x)
      OBVIOUS
    <3>1. k \in Nat /\ \A z \in ff[k] : Rested(z) \/ Weight(z) + k <= Weight(x)
      OBVIOUS
    <3> HIDE DEF U
    <3>2. PICK z \in ff[k] : w \in MergeRound(z)
      BY <1>1, <3>1
    <3>3. Sound(z) /\ Sound(w)
      BY <1>1, <3>1, <3>2, MergeRoundSound
    <3>4. ~Rested(z) /\ Weight(w) = Weight(z) - 1
      BY <3>2, <3>3, RoundWeight
    <3>5. Weight(z) \in Nat /\ Weight(w) \in Nat /\ Weight(x) \in Nat
      BY <1>2, <3>3
    <3> QED BY <3>1, <3>4, <3>5
  <2>3. U = Nat
    <3>1. U \in SUBSET Nat
      OBVIOUS
    <3> HIDE DEF U
    <3> QED BY <2>1, <2>2, <3>1, Induction
  <2> QED BY <2>3
<1>5. Sound(y) /\ Listed(y) = Listed(x) /\ (Rested(y) \/ Weight(y) + N <= Weight(x))
  BY <1>1, <1>3, <1>4
<1>6. Weight(y) \in Nat \ {0} /\ Weight(x) \in Nat
  BY <1>2, <1>5
<1> QED BY <1>3, <1>5, <1>6


-----------------------------------------------------------------------------
(* Room                                                                    *)

(* Room is a sum, taken by a recursive function over the subsets of a set. *)
OneOf(s) == CHOOSE x \in s : TRUE
Size(e) == SizeOf[e[1]]
SumsUp(iter, S) ==
  iter = [s \in SUBSET S |-> IF s = {} THEN 0 ELSE Size(OneOf(s)) + iter[s \ {OneOf(s)}]]
Sums(S) == CHOOSE iter : SumsUp(iter, S)

LEMMA SizeFacts == \A e \in Entries : Size(e) \in Nat \ {0}
BY RoomAssumption DEF Entries, Size

LEMMA OneOfSet == ASSUME NEW s, s # {} PROVE OneOf(s) \in s
BY DEF OneOf

LEMMA RoomIs == ASSUME NEW S PROVE Room(S) = Sums(S)[S]
BY Zenon DEF Room, MapThenSumSet, MapThenFoldSet, Sums, SumsUp, OneOf, Size

LEMMA Smaller ==
  ASSUME NEW s, IsFiniteSet(s), s # {}
  PROVE  /\ OneOf(s) \in s /\ IsFiniteSet(s \ {OneOf(s)})
         /\ Cardinality(s) \in Nat \ {0}
         /\ Cardinality(s \ {OneOf(s)}) = Cardinality(s) - 1
<1>1. OneOf(s) \in s
  BY OneOfSet
<1>2. Cardinality(s) \in Nat /\ Cardinality(s) # 0
  BY FS_CardinalityType, FS_EmptySet
<1> QED BY <1>1, <1>2, FS_RemoveElement

LEMMA SumsExist ==
  ASSUME NEW S \in SUBSET Entries, IsFiniteSet(S)
  PROVE  SumsUp(Sums(S), S)
<1> DEFINE F == [SUBSET S -> Nat]
           step(f) == [s \in SUBSET S |-> IF s = {} THEN 0 ELSE Size(OneOf(s)) + f[s \ {OneOf(s)}]]
           h == [n \in Nat |-> [f \in F |-> step(f)]]
           zero == [s \in SUBSET S |-> 0]
<1>1. \A s \in SUBSET S : s # {} => Size(OneOf(s)) \in Nat /\ s \ {OneOf(s)} \in SUBSET S
  BY OneOfSet, SizeFacts
<1>2. ASSUME NEW f \in F PROVE step(f) \in F
  BY <1>1
<1>3. zero \in F /\ h \in [Nat -> [F -> F]] /\ \A n \in Nat, f \in F : h[n][f] = step(f)
  <2> HIDE DEF F, step
  <2>1. h \in [Nat -> [F -> F]] /\ \A n \in Nat, f \in F : h[n][f] = step(f)
    BY <1>2
  <2> QED BY <2>1 DEF F
<1>4. PICK f : Iterates(f, F, zero, h)
  <2> HIDE DEF h, F, zero
  <2> QED BY <1>3, RecursionExists
<1>5. f[0] = zero /\ \A n \in Nat : f[n] \in F /\ f[n + 1] = step(f[n])
  <2> HIDE DEF h, F, step, zero
  <2> QED BY <1>3, <1>4 DEF Iterates
<1> DEFINE it == [s \in SUBSET S |-> f[Cardinality(s)][s]]
<1>6. ASSUME NEW s \in SUBSET S
      PROVE  it[s] = IF s = {} THEN 0 ELSE Size(OneOf(s)) + it[s \ {OneOf(s)}]
  <2>1. CASE s = {}
    BY <1>5, <2>1, FS_EmptySet
  <2>2. CASE s # {}
    <3> DEFINE r == s \ {OneOf(s)}
               n == Cardinality(r)
    <3>1. IsFiniteSet(s)
      BY FS_Subset
    <3>2. n \in Nat /\ Cardinality(s) = n + 1 /\ r \in SUBSET S
      <4>1. IsFiniteSet(r) /\ Cardinality(s) \in Nat \ {0} /\ Cardinality(r) = Cardinality(s) - 1
        BY <2>2, <3>1, Smaller, Zenon
      <4>2. n \in Nat
        BY <4>1, FS_CardinalityType, Zenon
      <4> QED BY <4>1, <4>2
    <3>3. f[n + 1][s] = Size(OneOf(s)) + f[n][r]
      <4> HIDE DEF n, r
      <4>1. f[n + 1] = step(f[n])
        BY <1>5, <3>2
      <4> QED BY <2>2, <4>1 DEF r
    <3> HIDE DEF r
    <3>4. it[s] = f[n + 1][s] /\ it[r] = f[n][r]
      BY <3>2
    <3> QED BY <2>2, <3>3, <3>4 DEF r
  <2> QED BY <2>1, <2>2
<1>7. SumsUp(it, S)
  <2>1. it = [s \in SUBSET S |-> it[s]]
    OBVIOUS
  <2> HIDE DEF it
  <2> QED BY <1>6, <2>1 DEF SumsUp
<1> HIDE DEF it
<1> QED BY <1>7 DEF Sums

LEMMA SumsAgree ==
  ASSUME NEW S \in SUBSET Entries, IsFiniteSet(S), NEW T \in SUBSET S, NEW s \in SUBSET T
  PROVE  Sums(S)[s] = Sums(T)[s]
<1> DEFINE U == {n \in Nat : \A r \in SUBSET T : Cardinality(r) = n => Sums(S)[r] = Sums(T)[r]}
<1>1. IsFiniteSet(T) /\ \A r \in SUBSET T : IsFiniteSet(r) /\ Cardinality(r) \in Nat /\ r \in SUBSET S
  <2>1. IsFiniteSet(T)
    BY FS_Subset
  <2> QED BY <2>1, FS_Subset, FS_CardinalityType
<1>2. /\ \A r \in SUBSET T : Sums(S)[r] = IF r = {} THEN 0 ELSE Size(OneOf(r)) + Sums(S)[r \ {OneOf(r)}]
      /\ \A r \in SUBSET T : Sums(T)[r] = IF r = {} THEN 0 ELSE Size(OneOf(r)) + Sums(T)[r \ {OneOf(r)}]
  <2>1. SumsUp(Sums(S), S) /\ SumsUp(Sums(T), T)
    BY <1>1, SumsExist
  <2> DEFINE a == Sums(S)
             b == Sums(T)
  <2>2. SumsUp(a, S) /\ SumsUp(b, T)
    BY <2>1
  <2> HIDE DEF a, b
  <2>3. \A r \in SUBSET T : a[r] = IF r = {} THEN 0 ELSE Size(OneOf(r)) + a[r \ {OneOf(r)}]
    BY <1>1, <2>2 DEF SumsUp
  <2>4. \A r \in SUBSET T : b[r] = IF r = {} THEN 0 ELSE Size(OneOf(r)) + b[r \ {OneOf(r)}]
    BY <2>2 DEF SumsUp
  <2> QED BY <2>3, <2>4, Zenon DEF a, b
<1>3. 0 \in U
  BY <1>1, <1>2, FS_EmptySet
<1>4. ASSUME NEW n \in U PROVE n + 1 \in U
  <2> SUFFICES ASSUME NEW r \in SUBSET T, Cardinality(r) = n + 1 PROVE Sums(S)[r] = Sums(T)[r]
    OBVIOUS
  <2>1. r # {} /\ n \in Nat
    <3>1. n \in Nat /\ n + 1 # 0
      OBVIOUS
    <3> HIDE DEF U
    <3> QED BY <3>1, FS_EmptySet
  <2>2. Cardinality(r \ {OneOf(r)}) = n /\ r \ {OneOf(r)} \in SUBSET T
    BY <1>1, <2>1, Smaller
  <2>3. Sums(S)[r \ {OneOf(r)}] = Sums(T)[r \ {OneOf(r)}]
    BY <2>2
  <2> QED BY <1>2, <2>1, <2>3
<1>5. U = Nat
  <2>1. U \in SUBSET Nat
    OBVIOUS
  <2> HIDE DEF U
  <2> QED BY <1>3, <1>4, <2>1, Induction
<1> QED BY <1>1, <1>5

(* The room of a set is that of one of its elements, whichever is taken    *)
(* first, and that of the others.                                          *)
LEMMA RoomUnfolds ==
  /\ Room({}) = 0
  /\ \A S \in SUBSET Entries : IsFiniteSet(S) /\ S # {} =>
       Room(S) = Size(OneOf(S)) + Room(S \ {OneOf(S)})
<1>1. ASSUME NEW S \in SUBSET Entries, IsFiniteSet(S)
      PROVE  Room(S) = IF S = {} THEN 0 ELSE Size(OneOf(S)) + Room(S \ {OneOf(S)})
  <2> DEFINE a == Sums(S)
             R == S \ {OneOf(S)}
  <2>1. Room(S) = a[S] /\ Room(R) = Sums(R)[R]
    BY RoomIs, Zenon
  <2>2. SumsUp(a, S)
    BY <1>1, SumsExist
  <2>3. a[R] = Sums(R)[R]
    <3>1. R \in SUBSET S /\ R \in SUBSET R
      OBVIOUS
    <3> QED BY <1>1, <3>1, SumsAgree
  <2> HIDE DEF a
  <2>4. a[S] = IF S = {} THEN 0 ELSE Size(OneOf(S)) + a[S \ {OneOf(S)}]
    BY <2>2 DEF SumsUp
  <2> QED BY <2>1, <2>3, <2>4
<1>2. Room({}) = 0
  BY <1>1, FS_EmptySet
<1> QED BY <1>1, <1>2

LEMMA RoomsAre ==
  ASSUME NEW S \in SUBSET Entries, IsFiniteSet(S)
  PROVE  \A T \in SUBSET S : Room(T) \in Nat
<1> DEFINE U == {n \in Nat : \A T \in SUBSET S : Cardinality(T) = n => Room(T) \in Nat}
<1>1. \A T \in SUBSET S : IsFiniteSet(T) /\ Cardinality(T) \in Nat
  BY FS_Subset, FS_CardinalityType
<1>2. ASSUME NEW T \in SUBSET S, T # {}
      PROVE  /\ Size(OneOf(T)) \in Nat /\ Room(T) = Size(OneOf(T)) + Room(T \ {OneOf(T)})
             /\ T \ {OneOf(T)} \in SUBSET S /\ Cardinality(T \ {OneOf(T)}) = Cardinality(T) - 1
             /\ Cardinality(T) # 0
  <2>1. Size(OneOf(T)) \in Nat
    BY <1>2, OneOfSet, SizeFacts
  <2> QED BY <1>1, <1>2, <2>1, Smaller, RoomUnfolds
<1>3. 0 \in U
  <2>1. \A T \in SUBSET S : Cardinality(T) = 0 => T = {}
    BY <1>1, <1>2
  <2>2. Room({}) \in Nat
    BY RoomUnfolds
  <2>3. \A T \in SUBSET S : Cardinality(T) = 0 => Room(T) \in Nat
    BY <2>1, <2>2, Zenon
  <2> QED BY <2>3
<1>4. ASSUME NEW n \in U PROVE n + 1 \in U
  <2> SUFFICES ASSUME NEW T \in SUBSET S, Cardinality(T) = n + 1 PROVE Room(T) \in Nat
    OBVIOUS
  <2>1. CASE T = {}
    BY <2>1, RoomUnfolds
  <2>2. CASE T # {}
    <3>1. T \ {OneOf(T)} \in SUBSET S /\ Cardinality(T \ {OneOf(T)}) = n
      <4>1. n \in Nat
        OBVIOUS
      <4>2. T \ {OneOf(T)} \in SUBSET S /\ Cardinality(T \ {OneOf(T)}) = Cardinality(T) - 1
        BY <1>2, <2>2, Zenon
      <4> QED BY <4>1, <4>2
    <3>2. Room(T \ {OneOf(T)}) \in Nat
      BY <3>1
    <3> QED BY <1>2, <2>2, <3>2
  <2> QED BY <2>1, <2>2
<1>5. U = Nat
  <2>1. U \in SUBSET Nat
    OBVIOUS
  <2> HIDE DEF U
  <2> QED BY <1>3, <1>4, <2>1, Induction
<1> QED BY <1>1, <1>5

LEMMA RoomOrder ==
  ASSUME NEW S \in SUBSET Entries, IsFiniteSet(S)
  PROVE  Room(S) \in Nat /\ \A e \in S : Room(S) = Size(e) + Room(S \ {e})
<1> DEFINE P(T) == Room(T) \in Nat /\ \A e \in T : Room(T) = Size(e) + Room(T \ {e})
           U == {n \in Nat : \A T \in SUBSET Entries : IsFiniteSet(T) /\ Cardinality(T) = n => P(T)}
<1>1. 0 \in U
  <2> SUFFICES ASSUME NEW T \in SUBSET Entries, IsFiniteSet(T), Cardinality(T) = 0 PROVE P(T)
    OBVIOUS
  <2>1. T = {}
    BY FS_EmptySet
  <2> QED BY <2>1, RoomUnfolds
<1>2. ASSUME NEW n \in U PROVE n + 1 \in U
  <2> SUFFICES ASSUME NEW T \in SUBSET Entries, IsFiniteSet(T), Cardinality(T) = n + 1 PROVE P(T)
    OBVIOUS
  <2> DEFINE a == OneOf(T)
  <2>1. T # {}
    BY FS_EmptySet
  <2>2. a \in T /\ a \in Entries /\ Size(a) \in Nat
    BY <2>1, OneOfSet, SizeFacts
  <2>3. Room(T) = Size(a) + Room(T \ {a})
    BY <2>1, RoomUnfolds
  <2> HIDE DEF a
  <2>4. \A e \in T : IsFiniteSet(T \ {e}) /\ Cardinality(T \ {e}) = n /\ P(T \ {e})
    <3> TAKE e \in T
    <3>1. IsFiniteSet(T \ {e}) /\ Cardinality(T \ {e}) = (n + 1) - 1
      <4> HIDE DEF U
      <4>1. IsFiniteSet(T \ {e}) /\ Cardinality(T \ {e}) = IF e \in T THEN Cardinality(T) - 1 ELSE Cardinality(T)
        BY FS_RemoveElement
      <4> QED BY <4>1
    <3>2. Cardinality(T \ {e}) = n
      BY <3>1
    <3> QED BY <3>1, <3>2
  <2>5. \A e \in T : Room(T \ {e}) \in Nat
    BY <2>4
  <2>6. ASSUME NEW e \in T, e # a PROVE Room(T) = Size(e) + Room(T \ {e})
    <3>1. Room(T \ {a}) = Size(e) + Room((T \ {a}) \ {e})
      BY <2>2, <2>4, <2>6
    <3>2. Room(T \ {e}) = Size(a) + Room((T \ {e}) \ {a})
      BY <2>2, <2>4, <2>6
    <3>3. (T \ {a}) \ {e} = (T \ {e}) \ {a}
      OBVIOUS
    <3>4. Room((T \ {a}) \ {e}) \in Nat /\ Size(e) \in Nat /\ e \in Entries
      <4>1. P(T \ {a}) /\ e \in T \ {a} /\ e \in Entries
        BY <2>2, <2>4, <2>6
      <4>2. \A r \in SUBSET T : Room(r) \in Nat
        BY RoomsAre
      <4> QED BY <4>1, <4>2, SizeFacts
    <3> QED BY <2>2, <2>3, <3>1, <3>2, <3>3, <3>4
  <2>7. Room(T) \in Nat
    BY <2>2, <2>3, <2>5
  <2> QED BY <2>3, <2>6, <2>7
<1>3. U = Nat
  <2>1. U \in SUBSET Nat
    OBVIOUS
  <2> HIDE DEF U
  <2> QED BY <1>1, <1>2, <2>1, Induction
<1>4. Cardinality(S) \in Nat
  BY FS_CardinalityType
<1> QED BY <1>3, <1>4

LEMMA RoomAdds ==
  ASSUME NEW S \in SUBSET Entries, IsFiniteSet(S), NEW e \in Entries \ S
  PROVE  IsFiniteSet(S \cup {e}) /\ Room(S \cup {e}) = Room(S) + SizeOf[e[1]]
<1> DEFINE T == S \cup {e}
<1>1. IsFiniteSet(T) /\ T \in SUBSET Entries /\ e \in T /\ T \ {e} = S
  BY FS_AddElement
<1> HIDE DEF T
<1>2. Room(T) = Size(e) + Room(S)
  BY <1>1, RoomOrder
<1>3. Size(e) \in Nat /\ Room(S) \in Nat
  BY SizeFacts, RoomOrder
<1> QED BY <1>1, <1>2, <1>3 DEF T, Size

(* The room of a set is that of its parts. *)
LEMMA RoomParts ==
  ASSUME NEW S \in SUBSET Entries, IsFiniteSet(S), NEW A \in SUBSET S
  PROVE  /\ Room(S) = Room(A) + Room(S \ A)
         /\ Room(S) \in Nat /\ Room(A) \in Nat /\ Room(S \ A) \in Nat /\ Room(A) <= Room(S)
<1> DEFINE U == {n \in Nat : \A T \in SUBSET S : Cardinality(T) = n => Room(S) = Room(T) + Room(S \ T)}
<1>1. \A T \in SUBSET S : IsFiniteSet(T) /\ Cardinality(T) \in Nat /\ Room(T) \in Nat /\ T \in SUBSET Entries
  BY FS_Subset, FS_CardinalityType, RoomsAre
<1>2. 0 \in U
  <2>1. ASSUME NEW T \in SUBSET S, Cardinality(T) = 0 PROVE Room(S) = Room(T) + Room(S \ T)
    <3>1. T = {}
      BY <1>1, <2>1, FS_EmptySet
    <3>2. Room({}) = 0 /\ S \ {} = S
      BY RoomUnfolds
    <3> QED BY <1>1, <3>1, <3>2
  <2> QED BY <2>1
<1>3. ASSUME NEW n \in U PROVE n + 1 \in U
  <2> SUFFICES ASSUME NEW T \in SUBSET S, Cardinality(T) = n + 1 PROVE Room(S) = Room(T) + Room(S \ T)
    OBVIOUS
  <2>1. n \in Nat /\ \A R \in SUBSET S : Cardinality(R) = n => Room(S) = Room(R) + Room(S \ R)
    OBVIOUS
  <2> HIDE DEF U
  <2>2. n + 1 # 0
    BY <2>1
  <2>3. PICK a : a \in T
    BY <2>2, FS_EmptySet
  <2> DEFINE R == T \ {a}
  <2>4. R \in SUBSET S /\ Cardinality(R) = n
    <3>1. Cardinality(R) = Cardinality(T) - 1
      BY <1>1, <2>3, FS_RemoveElement
    <3> QED BY <2>1, <3>1
  <2>5. Room(S) = Room(R) + Room(S \ R)
    BY <2>1, <2>4, Zenon
  <2>6. Room(T) = Size(a) + Room(R)
    BY <1>1, <2>3, RoomOrder
  <2>7. Room(S \ R) = Size(a) + Room((S \ R) \ {a})
    <3>1. S \ R \in SUBSET Entries /\ IsFiniteSet(S \ R) /\ a \in S \ R
      BY <1>1, <2>3
    <3> HIDE DEF R
    <3> QED BY <3>1, RoomOrder
  <2>8. (S \ R) \ {a} = S \ T
    BY <2>3
  <2>9. Size(a) \in Nat /\ Room(R) \in Nat /\ Room(S \ T) \in Nat
    <3>1. a \in Entries
      BY <1>1, <2>3
    <3> QED BY <1>1, <3>1, <2>4, SizeFacts
  <2> HIDE DEF R
  <2> QED BY <2>5, <2>6, <2>7, <2>8, <2>9
<1>4. U = Nat
  <2>1. U \in SUBSET Nat
    OBVIOUS
  <2> HIDE DEF U
  <2> QED BY <1>2, <1>3, <2>1, Induction
<1>5. Room(S) = Room(A) + Room(S \ A)
  BY <1>1, <1>4
<1>6. Room(A) \in Nat /\ Room(S \ A) \in Nat
  BY <1>1
<1> QED BY <1>5, <1>6


-----------------------------------------------------------------------------
(* No two buddies fit one bucket                                           *)

(* The slots s and u hold buckets of one local depth that would be one     *)
(* bucket if they had a bit less.                                          *)
Brothers(x, s, u) ==
  /\ x.table[s] # x.table[u]
  /\ x.buckets[x.table[s]].ld > 0 /\ x.buckets[x.table[u]].ld = x.buckets[x.table[s]].ld
  /\ s \div Pow2[Shift(x, s) + 1] = u \div Pow2[Shift(x, s) + 1]

(* The entries of bucket j once e is inserted where a lookup finds it. *)
Held(x, j, e) == x.buckets[j].entries \cup (IF j = BucketOf(x, e[1]) THEN {e} ELSE {})

(* No two brothers fit one bucket once e is inserted. *)
Tight(x, e) ==
  \A s, u \in DOMAIN x.table :
    Brothers(x, s, u) => Room(Held(x, x.table[s], e)) + Room(Held(x, x.table[u], e)) > BucketRoom

LEMMA BucketRooms ==
  ASSUME NEW x, Sound(x), IsFiniteSet(Listed(x)), NEW b \in InUse(x)
  PROVE  /\ x.buckets[b].entries \in SUBSET Entries /\ IsFiniteSet(x.buckets[b].entries)
         /\ x.buckets[b].entries \in SUBSET Listed(x) /\ Room(x.buckets[b].entries) \in Nat
<1>1. x.buckets[b].entries \in SUBSET Entries /\ x.buckets[b].entries \in SUBSET Listed(x)
  BY SoundFacts DEF Listed, InUse
<1>2. IsFiniteSet(x.buckets[b].entries)
  BY <1>1, FS_Subset
<1> QED BY <1>1, <1>2, RoomOrder

LEMMA MergeableMeans ==
  ASSUME NEW x, Sound(x), IsFiniteSet(Listed(x))
  PROVE  Mergeable(x) = {} <=>
           \A s, u \in DOMAIN x.table : Brothers(x, s, u) =>
             Room(x.buckets[x.table[s]].entries) + Room(x.buckets[x.table[u]].entries) > BucketRoom
<1> DEFINE R(s) == Room(x.buckets[x.table[s]].entries)
<1>1. /\ x.depth \in Nat /\ DOMAIN x.table = 0 .. Pow2[x.depth] - 1
      /\ \A s \in DOMAIN x.table : x.table[s] \in InUse(x) /\ s \in Nat
      /\ \A b \in InUse(x) : x.buckets[b].ld \in 0 .. x.depth
  <2>1. x.depth \in Nat /\ DOMAIN x.table = 0 .. Pow2[x.depth] - 1
    BY SoundFacts DEF Sound, TableInv
  <2>2. \A s \in DOMAIN x.table : x.table[s] \in InUse(x) /\ s \in Nat
    <3>1. \A s \in DOMAIN x.table : x.table[s] \in InUse(x)
      BY SoundFacts, Zenon
    <3>2. \A s \in DOMAIN x.table : s \in Nat
      BY <2>1
    <3> QED BY <3>1, <3>2
  <2>3. \A b \in InUse(x) : x.buckets[b].ld \in 0 .. x.depth
    BY SoundFacts
  <2> QED BY <2>1, <2>2, <2>3
<1>2. BucketRoom \in Nat /\ \A s \in DOMAIN x.table : R(s) \in Nat
  BY <1>1, BucketRooms, RoomAssumption
<1>3. \A s, u \in DOMAIN x.table :
        x.table[u] = x.table[s] <=> u \div Pow2[Shift(x, s)] = s \div Pow2[Shift(x, s)]
  BY Zenon DEF Sound, TableInv, Aligned
<1>4. ASSUME NEW s \in DOMAIN x.table, x.buckets[x.table[s]].ld > 0
      PROVE  /\ BuddySlot(x, s) \in DOMAIN x.table
             /\ BuddySlot(x, s) \div Pow2[Shift(x, s) + 1] = s \div Pow2[Shift(x, s) + 1]
             /\ \A u \in Nat : u \div Pow2[Shift(x, s) + 1] = s \div Pow2[Shift(x, s) + 1] =>
                  u \div Pow2[Shift(x, s)] \in {s \div Pow2[Shift(x, s)], BuddySlot(x, s) \div Pow2[Shift(x, s)]}
  <2> DEFINE k == Shift(x, s)
             v == BuddySlot(x, s)
  <2>1. v = Other(s, k)
    BY Zenon DEF BuddySlot, Other, Shift
  <2>2. x.buckets[x.table[s]].ld \in 0 .. x.depth /\ k = x.depth - x.buckets[x.table[s]].ld
    BY <1>1, Zenon DEF Shift
  <2> HIDE DEF k, v
  <2>3. k \in Nat /\ k < x.depth /\ s \in 0 .. Pow2[x.depth] - 1 /\ x.depth \in Nat
    BY <1>1, <1>4, <2>2
  <2>4. /\ v \in 0 .. Pow2[x.depth] - 1 /\ v \div Pow2[k + 1] = s \div Pow2[k + 1]
        /\ \A u \in Nat : u \div Pow2[k + 1] = s \div Pow2[k + 1] =>
             u \div Pow2[k] \in {s \div Pow2[k], v \div Pow2[k]}
    BY <2>1, <2>3, OtherFacts
  <2> QED BY <1>1, <2>4, Zenon DEF k, v
<1>5. ASSUME NEW s \in Mergeable(x)
      PROVE  /\ s \in DOMAIN x.table /\ BuddySlot(x, s) \in DOMAIN x.table
             /\ Brothers(x, s, BuddySlot(x, s)) /\ R(s) + R(BuddySlot(x, s)) <= BucketRoom
  <2>1. /\ s \in DOMAIN x.table /\ x.buckets[x.table[s]].ld > 0
        /\ x.table[BuddySlot(x, s)] # x.table[s]
        /\ x.buckets[x.table[BuddySlot(x, s)]].ld = x.buckets[x.table[s]].ld
        /\ R(s) + R(BuddySlot(x, s)) <= BucketRoom
    BY Zenon DEF Mergeable
  <2> HIDE DEF R
  <2> QED BY <1>4, <2>1, Zenon DEF Brothers
<1>6. ASSUME NEW s \in DOMAIN x.table, NEW u \in DOMAIN x.table, Brothers(x, s, u), R(s) + R(u) <= BucketRoom
      PROVE  s \in Mergeable(x)
  <2> DEFINE k == Shift(x, s)
             v == BuddySlot(x, s)
  <2>1. /\ x.table[s] # x.table[u]
        /\ x.buckets[x.table[s]].ld > 0 /\ x.buckets[x.table[u]].ld = x.buckets[x.table[s]].ld
        /\ s \div Pow2[k + 1] = u \div Pow2[k + 1]
    BY <1>6, Zenon DEF Brothers
  <2>2. Shift(x, u) = k
    BY <2>1, Zenon DEF Shift
  <2>3. v \in DOMAIN x.table /\ u \div Pow2[k] \in {s \div Pow2[k], v \div Pow2[k]}
    BY <1>1, <1>4, <2>1, Zenon
  <2> HIDE DEF k, v
  <2>4. u \div Pow2[k] # s \div Pow2[k]
    BY <1>3, <2>1, Zenon DEF k
  <2>5. v \div Pow2[k] = u \div Pow2[k]
    BY <2>3, <2>4, Zenon
  <2>6. x.table[v] = x.table[u]
    BY <1>3, <2>2, <2>3, <2>5, Zenon
  <2> QED BY <1>6, <2>1, <2>6, Zenon DEF Mergeable, v
<1>7. \A s, u \in DOMAIN x.table : R(s) + R(u) > BucketRoom <=> ~(R(s) + R(u) <= BucketRoom)
  <2> HIDE DEF R
  <2> QED BY <1>2
<1> HIDE DEF R
<1>8. Mergeable(x) = {} <=> \A s, u \in DOMAIN x.table : Brothers(x, s, u) => R(s) + R(u) > BucketRoom
  BY <1>5, <1>6, <1>7, Zenon
<1> QED BY <1>8, Zenon DEF R

LEMMA HeldFacts ==
  ASSUME NEW x, Sound(x), IsFiniteSet(Listed(x)), NEW e \in Entries \ Listed(x), NEW b \in InUse(x)
  PROVE  /\ Held(x, b, e) \in SUBSET Entries /\ IsFiniteSet(Held(x, b, e)) /\ Room(Held(x, b, e)) \in Nat
         /\ Room(x.buckets[b].entries) <= Room(Held(x, b, e))
         /\ b = BucketOf(x, e[1]) => Room(Held(x, b, e)) = Room(x.buckets[b].entries) + SizeOf[e[1]]
<1> DEFINE E == x.buckets[b].entries
<1>1. E \in SUBSET Entries /\ IsFiniteSet(E) /\ Room(E) \in Nat /\ e \in Entries \ E
  BY BucketRooms
<1>2. SizeOf[e[1]] \in Nat
  BY SizeFacts DEF Size
<1>3. CASE b = BucketOf(x, e[1])
  <2>1. Held(x, b, e) = E \cup {e}
    BY <1>3, Zenon DEF Held
  <2> HIDE DEF E
  <2>2. IsFiniteSet(E \cup {e}) /\ Room(E \cup {e}) = Room(E) + SizeOf[e[1]]
    BY <1>1, RoomAdds
  <2>3. E \cup {e} \in SUBSET Entries
    BY <1>1
  <2>4. Room(E) + SizeOf[e[1]] \in Nat /\ Room(E) <= Room(E) + SizeOf[e[1]]
    BY <1>1, <1>2
  <2> QED BY <2>1, <2>2, <2>3, <2>4, Zenon DEF E
<1>4. CASE b # BucketOf(x, e[1])
  <2>1. Held(x, b, e) = E
    BY <1>4 DEF Held
  <2> HIDE DEF E
  <2>2. Room(E) <= Room(E)
    BY <1>1
  <2> QED BY <1>1, <1>4, <2>1, <2>2, Zenon DEF E
<1> QED BY <1>3, <1>4

(* A directory in which nothing can be merged is tight for every entry. *)
LEMMA TightFirst ==
  ASSUME NEW x, Sound(x), IsFiniteSet(Listed(x)), NEW e \in Entries \ Listed(x), Mergeable(x) = {}
  PROVE  Tight(x, e)
<1> SUFFICES ASSUME NEW s \in DOMAIN x.table, NEW u \in DOMAIN x.table, Brothers(x, s, u)
             PROVE  Room(Held(x, x.table[s], e)) + Room(Held(x, x.table[u], e)) > BucketRoom
  BY Zenon DEF Tight
<1> DEFINE b == x.table[s]
           c == x.table[u]
<1>1. Room(x.buckets[b].entries) + Room(x.buckets[c].entries) > BucketRoom
  BY MergeableMeans, Zenon
<1>2. b \in InUse(x) /\ c \in InUse(x) /\ BucketRoom \in Nat
  BY SoundFacts, RoomAssumption
<1> HIDE DEF b, c
<1>3. /\ Room(x.buckets[b].entries) \in Nat /\ Room(x.buckets[c].entries) \in Nat
      /\ Room(Held(x, b, e)) \in Nat /\ Room(Held(x, c, e)) \in Nat
      /\ Room(x.buckets[b].entries) <= Room(Held(x, b, e))
      /\ Room(x.buckets[c].entries) <= Room(Held(x, c, e))
  BY <1>2, BucketRooms, HeldFacts
<1>4. Room(Held(x, b, e)) + Room(Held(x, c, e)) > BucketRoom
  BY <1>1, <1>2, <1>3
<1> QED BY <1>4 DEF b, c

LEMMA DoubledTight ==
  ASSUME NEW x, Sound(x), x.depth < MaxDepth, NEW e \in Entries, Tight(x, e)
  PROVE  Tight(Doubled(x), e)
<1> DEFINE y == Doubled(x)
           d == x.depth
<1>1. /\ Sound(y) /\ y.depth = d + 1 /\ y.buckets = x.buckets
      /\ \A s \in 0 .. Pow2[d + 1] - 1 : y.table[s] = x.table[s \div 2]
      /\ \A n \in Names : BucketOf(y, n) = BucketOf(x, n)
  BY DoubledSound, Zenon
<1> HIDE DEF y
<1>2. d \in Nat /\ DOMAIN x.table = 0 .. Pow2[d] - 1 /\ DOMAIN y.table = 0 .. Pow2[d + 1] - 1
  BY <1>1, SoundFacts DEF Sound, TableInv
<1>3. e[1] \in Names
  BY DEF Entries
<1>4. \A j : Held(y, j, e) = Held(x, j, e)
  BY <1>1, <1>3, Zenon DEF Held
<1>5. ASSUME NEW s \in DOMAIN y.table
      PROVE  /\ s \div 2 \in DOMAIN x.table /\ y.table[s] = x.table[s \div 2]
             /\ Shift(y, s) = Shift(x, s \div 2) + 1
             /\ Shift(x, s \div 2) \in Nat /\ s \in Nat
  <2>1. s \div 2 \in DOMAIN x.table /\ y.table[s] = x.table[s \div 2] /\ s \in Nat
    <3>1. s \in 0 .. Pow2[d + 1] - 1
      BY <1>2, <1>5
    <3>2. s \in Nat
      BY <3>1
    <3>3. s \div 2 \in 0 .. Pow2[d] - 1
      <4> HIDE DEF d
      <4> QED BY <1>2, <3>1, PairSlots
    <3> QED BY <1>1, <1>2, <3>1, <3>2, <3>3, Zenon
  <2>2. x.table[s \div 2] \in InUse(x) /\ Shift(x, s \div 2) \in Nat
    <3>1. Shift(x, s \div 2) \in 0 .. x.depth /\ x.table[s \div 2] \in InUse(x)
      BY <2>1, SoundFacts
    <3> QED BY <1>2, <3>1
  <2>3. x.buckets[x.table[s \div 2]].ld \in Nat
    <3>1. x.buckets[x.table[s \div 2]].ld \in 0 .. x.depth
      BY <2>2, SoundFacts DEF InUse
    <3> QED BY <1>2, <3>1
  <2>4. Shift(y, s) = (d + 1) - x.buckets[x.table[s \div 2]].ld
    BY <1>1, <2>1, Zenon DEF Shift
  <2>5. Shift(x, s \div 2) = d - x.buckets[x.table[s \div 2]].ld
    BY Zenon DEF Shift
  <2> HIDE DEF d
  <2>6. Shift(y, s) = Shift(x, s \div 2) + 1
    BY <1>2, <2>3, <2>4, <2>5
  <2> QED BY <2>1, <2>2, <2>6
<1>6. ASSUME NEW s \in DOMAIN y.table, NEW u \in DOMAIN y.table, Brothers(y, s, u)
      PROVE  Brothers(x, s \div 2, u \div 2)
  <2> DEFINE k == Shift(x, s \div 2)
  <2>1. /\ y.table[s] # y.table[u]
        /\ y.buckets[y.table[s]].ld > 0 /\ y.buckets[y.table[u]].ld = y.buckets[y.table[s]].ld
        /\ s \div Pow2[Shift(y, s) + 1] = u \div Pow2[Shift(y, s) + 1]
    BY <1>6, Zenon DEF Brothers
  <2>2. Shift(y, s) = k + 1 /\ k \in Nat /\ s \in Nat /\ u \in Nat
    BY <1>5
  <2> HIDE DEF k
  <2>3. 2 \in Nat \ {0} /\ Pow2[k + 1] \in Nat \ {0} /\ Pow2[(k + 1) + 1] = 2 * Pow2[k + 1]
    BY <2>2, Pow2Facts
  <2>4. \A w \in Nat : (w \div 2) \div Pow2[k + 1] = w \div Pow2[(k + 1) + 1]
    <3> TAKE w \in Nat
    <3>1. (w \div 2) \div Pow2[k + 1] = w \div (2 * Pow2[k + 1])
      BY <2>3, DivTwice, Zenon
    <3> QED BY <2>3, <3>1, Zenon
  <2>5. (s \div 2) \div Pow2[k + 1] = (u \div 2) \div Pow2[k + 1]
    BY <2>1, <2>2, <2>4, Zenon
  <2> QED BY <1>1, <1>5, <2>1, <2>5, Zenon DEF Brothers, k
<1>7. \A s, u \in DOMAIN y.table :
        Brothers(y, s, u) => Room(Held(y, y.table[s], e)) + Room(Held(y, y.table[u], e)) > BucketRoom
  BY <1>4, <1>5, <1>6, Zenon DEF Tight
<1> QED BY <1>7, Zenon DEF Tight, y

(* What a split leaves of the buckets and slots, all but the new one of b  *)
(* being as they were.                                                     *)
LEMMA PartedFacts ==
  ASSUME NEW x, Sound(x), NEW b \in InUse(x), NEW new, NEW wide, NEW y, Parted(x, b, new, wide, y)
  PROVE  /\ DOMAIN y.table = DOMAIN wide.table
         /\ \A s \in DOMAIN wide.table :
              /\ wide.table[s] # b => y.table[s] = wide.table[s]
              /\ wide.table[s] = b => y.table[s] \in {b, new}
         /\ \A j \in InUse(x) \ {b} : y.buckets[j] = x.buckets[j]
         /\ y.buckets[b].ld = x.buckets[b].ld + 1 /\ y.buckets[new].ld = x.buckets[b].ld + 1
         /\ y.buckets[b].entries \cup y.buckets[new].entries = x.buckets[b].entries
         /\ y.buckets[b].entries \cap y.buckets[new].entries = {}
         /\ \A n \in Names : /\ BucketOf(wide, n) = BucketOf(x, n)
                             /\ BucketOf(x, n) = b => BucketOf(y, n) \in {b, new}
                             /\ BucketOf(x, n) # b => BucketOf(y, n) = BucketOf(x, n)
<1> DEFINE t == SplitTable(wide, b, new)
           c == SplitBuckets(wide, b, new)
           ld == x.buckets[b].ld
<1>1. /\ Sound(wide) /\ InUse(wide) = InUse(x) /\ wide.buckets = x.buckets
      /\ new \notin InUse(x) /\ y.depth = wide.depth /\ y.table = t /\ y.buckets = c
  BY Zenon DEF Parted
<1>2. b \in DOMAIN x.buckets /\ b # new /\ \A j \in InUse(x) : j \in DOMAIN x.buckets /\ j # new
  BY <1>1 DEF InUse
<1>3. /\ DOMAIN t = DOMAIN wide.table
      /\ \A s \in DOMAIN wide.table :
           /\ wide.table[s] # b => t[s] = wide.table[s]
           /\ wide.table[s] = b => t[s] \in {b, new}
  BY DEF SplitTable
<1>4. /\ c[b] = SplitPart(wide, b, FALSE) /\ c[new] = SplitPart(wide, b, TRUE)
      /\ \A j \in InUse(x) \ {b} : c[j] = x.buckets[j]
  BY <1>1, <1>2 DEF SplitBuckets
<1>5. /\ SplitPart(wide, b, FALSE).ld = ld + 1 /\ SplitPart(wide, b, TRUE).ld = ld + 1
      /\ SplitPart(wide, b, FALSE).entries = {e \in x.buckets[b].entries : Goes(e, ld) = FALSE}
      /\ SplitPart(wide, b, TRUE).entries = {e \in x.buckets[b].entries : Goes(e, ld) = TRUE}
  BY <1>1 DEF SplitPart
<1> HIDE DEF t, c, ld
<1>6. /\ y.buckets[b].entries \cup y.buckets[new].entries = x.buckets[b].entries
      /\ y.buckets[b].entries \cap y.buckets[new].entries = {}
  <2>1. \A e : Goes(e, ld) \in BOOLEAN
    BY DEF Goes
  <2>2. /\ y.buckets[b].entries = {e \in x.buckets[b].entries : Goes(e, ld) = FALSE}
        /\ y.buckets[new].entries = {e \in x.buckets[b].entries : Goes(e, ld) = TRUE}
    BY <1>1, <1>4, <1>5, Zenon
  <2> QED BY <2>1, <2>2
<1>7. ASSUME NEW n \in Names
      PROVE  /\ BucketOf(wide, n) = BucketOf(x, n)
             /\ BucketOf(x, n) = b => BucketOf(y, n) \in {b, new}
             /\ BucketOf(x, n) # b => BucketOf(y, n) = BucketOf(x, n)
  <2>1. BucketOf(wide, n) = BucketOf(x, n)
    <3>1. CASE wide = x
      BY <3>1
    <3>2. CASE x.depth < MaxDepth /\ wide = Doubled(x)
      BY <3>2, DoubledSound, Zenon
    <3> QED BY <3>1, <3>2, Zenon DEF Parted
  <2>2. Slot(HashOf[n], wide.depth) \in DOMAIN wide.table
    <3>1. wide.depth \in 0 .. MaxDepth /\ DOMAIN wide.table = 0 .. Pow2[wide.depth] - 1
      BY <1>1, SoundFacts
    <3> QED BY <3>1, SlotFacts, Zenon
  <2>3. /\ BucketOf(wide, n) = wide.table[Slot(HashOf[n], wide.depth)]
        /\ BucketOf(y, n) = y.table[Slot(HashOf[n], wide.depth)]
    BY <1>1, Zenon DEF BucketOf
  <2> QED BY <1>1, <1>3, <2>1, <2>2, <2>3, Zenon
<1>8. \A j \in InUse(x) \ {b} : y.buckets[j] = x.buckets[j]
  BY <1>1, <1>4, Zenon
<1>9. y.buckets[b].ld = ld + 1 /\ y.buckets[new].ld = ld + 1
  BY <1>1, <1>4, <1>5, Zenon
<1>10. /\ DOMAIN y.table = DOMAIN wide.table
       /\ \A s \in DOMAIN wide.table :
            /\ wide.table[s] # b => y.table[s] = wide.table[s]
            /\ wide.table[s] = b => y.table[s] \in {b, new}
  BY <1>1, <1>3, Zenon
<1> QED BY <1>6, <1>7, <1>8, <1>9, <1>10, Zenon DEF ld

(* The two halves of a bucket that was too small for e are too large for   *)
(* one bucket, e included.                                                 *)
LEMMA HalvesTight ==
  ASSUME NEW x, Sound(x), IsFiniteSet(Listed(x)), NEW e \in Entries \ Listed(x),
         NEW b, b = BucketOf(x, e[1]), Room(x.buckets[b].entries) + SizeOf[e[1]] > BucketRoom,
         NEW new, NEW wide, NEW y, Parted(x, b, new, wide, y), Sound(y)
  PROVE  /\ Room(Held(y, b, e)) + Room(Held(y, new, e)) > BucketRoom
         /\ Room(Held(y, new, e)) + Room(Held(y, b, e)) > BucketRoom
<1> DEFINE E == x.buckets[b].entries
           S == E \cup {e}
           A == Held(y, b, e)
           B == Held(y, new, e)
<1>1. e[1] \in Names /\ b \in InUse(x)
  <2>1. e[1] \in Names
    BY DEF Entries
  <2> QED BY <2>1, BucketOfFacts, Zenon
<1>2. E \in SUBSET Entries /\ IsFiniteSet(E) /\ e \in Entries \ E /\ Room(E) \in Nat
  BY <1>1, BucketRooms
<1>3. IsFiniteSet(S) /\ Room(S) = Room(E) + SizeOf[e[1]] /\ S \in SUBSET Entries
  <2> HIDE DEF E
  <2> QED BY <1>2, RoomAdds
<1>4. new # b
  BY <1>1, Zenon DEF Parted
<1>5. /\ y.buckets[b].entries \cup y.buckets[new].entries = E
      /\ y.buckets[b].entries \cap y.buckets[new].entries = {}
      /\ BucketOf(y, e[1]) \in {b, new}
  <2>1. /\ y.buckets[b].entries \cup y.buckets[new].entries = x.buckets[b].entries
        /\ y.buckets[b].entries \cap y.buckets[new].entries = {}
        /\ \A n \in Names : BucketOf(x, n) = b => BucketOf(y, n) \in {b, new}
    BY <1>1, PartedFacts
  <2> QED BY <1>1, <2>1
<1>6. A \in SUBSET S /\ S \ A = B
  <2>1. A = y.buckets[b].entries \cup (IF b = BucketOf(y, e[1]) THEN {e} ELSE {})
    BY Zenon DEF Held
  <2>2. B = y.buckets[new].entries \cup (IF new = BucketOf(y, e[1]) THEN {e} ELSE {})
    BY Zenon DEF Held
  <2> HIDE DEF E, A, B
  <2> QED BY <1>2, <1>4, <1>5, <2>1, <2>2
<1> HIDE DEF A, B, S
<1>7. /\ Room(S) = Room(A) + Room(S \ A)
      /\ Room(S) \in Nat /\ Room(A) \in Nat /\ Room(S \ A) \in Nat
  BY <1>3, <1>6, RoomParts
<1>8. Room(S) = Room(A) + Room(B) /\ Room(A) \in Nat /\ Room(B) \in Nat
  BY <1>6, <1>7, Zenon
<1>9. Room(S) > BucketRoom /\ Room(S) = Room(B) + Room(A)
  <2>1. Room(S) > BucketRoom
    BY <1>3, Zenon
  <2> QED BY <1>8, <2>1
<1> QED BY <1>8, <1>9, Zenon DEF A, B
LEMMA SplitTight ==
  ASSUME NEW x, Sound(x), IsFiniteSet(Listed(x)), NEW e \in Entries \ Listed(x), Tight(x, e),
         NEW b, b = BucketOf(x, e[1]), Room(x.buckets[b].entries) + SizeOf[e[1]] > BucketRoom,
         NEW new, NEW wide, NEW y, Parted(x, b, new, wide, y), Sound(y)
  PROVE  Tight(y, e)
<1>1. e[1] \in Names /\ b \in InUse(x)
  <2>1. e[1] \in Names
    BY DEF Entries
  <2> QED BY <2>1, BucketOfFacts, Zenon
<1>2. /\ Sound(wide) /\ InUse(wide) = InUse(x) /\ wide.buckets = x.buckets
      /\ x.buckets[b].ld < wide.depth /\ new \notin InUse(x) /\ y.depth = wide.depth
  BY Zenon DEF Parted
<1>3. Tight(wide, e)
  <2>1. CASE wide = x
    BY <2>1
  <2>2. CASE x.depth < MaxDepth /\ wide = Doubled(x)
    BY <2>2, DoubledTight, Zenon
  <2> QED BY <2>1, <2>2, Zenon DEF Parted
<1>4. /\ DOMAIN y.table = DOMAIN wide.table
      /\ \A s \in DOMAIN wide.table :
           /\ wide.table[s] # b => y.table[s] = wide.table[s]
           /\ wide.table[s] = b => y.table[s] \in {b, new}
      /\ \A j \in InUse(x) \ {b} : y.buckets[j] = x.buckets[j]
      /\ y.buckets[b].ld = x.buckets[b].ld + 1 /\ y.buckets[new].ld = x.buckets[b].ld + 1
  BY <1>1, PartedFacts
<1>5. BucketOf(wide, e[1]) = b /\ BucketOf(y, e[1]) \in {b, new}
  <2>1. \A n \in Names :
          /\ BucketOf(wide, n) = BucketOf(x, n)
          /\ BucketOf(x, n) = b => BucketOf(y, n) \in {b, new}
    BY <1>1, PartedFacts
  <2> QED BY <1>1, <2>1
<1>6. \A s \in DOMAIN wide.table : wide.table[s] \in InUse(x) /\ s \in Nat
  <2>1. \A s \in DOMAIN wide.table : wide.table[s] \in InUse(x)
    BY <1>2, SoundFacts, Zenon
  <2>2. DOMAIN wide.table = 0 .. Pow2[wide.depth] - 1
    BY <1>2 DEF Sound, TableInv
  <2> QED BY <2>1, <2>2
<1>7. wide.depth \in Nat /\ x.buckets[b].ld \in Nat
  <2>1. wide.depth \in Nat /\ x.depth \in Nat /\ x.buckets[b].ld \in 0 .. x.depth
    BY <1>1, <1>2, SoundFacts DEF InUse
  <2> QED BY <2>1
<1> SUFFICES ASSUME NEW s \in DOMAIN wide.table, NEW u \in DOMAIN wide.table, Brothers(y, s, u)
             PROVE  Room(Held(y, y.table[s], e)) + Room(Held(y, y.table[u], e)) > BucketRoom
  BY <1>4, Zenon DEF Tight
<1>8. /\ y.table[s] # y.table[u]
      /\ y.buckets[y.table[s]].ld > 0 /\ y.buckets[y.table[u]].ld = y.buckets[y.table[s]].ld
      /\ s \div Pow2[Shift(y, s) + 1] = u \div Pow2[Shift(y, s) + 1]
      /\ Shift(y, u) = Shift(y, s)
  BY Zenon DEF Brothers, Shift
<1>9. ASSUME NEW v \in DOMAIN wide.table, wide.table[v] = b
      PROVE  Shift(y, v) + 1 = Shift(wide, v)
  <2>1. y.table[v] \in {b, new} /\ Shift(y, v) = y.depth - y.buckets[y.table[v]].ld
    BY <1>4, <1>9, Zenon DEF Shift
  <2>2. Shift(y, v) = wide.depth - (x.buckets[b].ld + 1)
    BY <1>2, <1>4, <2>1
  <2>3. Shift(wide, v) = wide.depth - x.buckets[b].ld
    BY <1>2, <1>9, Zenon DEF Shift
  <2> QED BY <1>7, <2>2, <2>3
<1>10. wide.table[s] = b <=> wide.table[u] = b
  <2>1. Aligned(wide)
    BY <1>2 DEF Sound, TableInv
  <2>2. wide.table[s] = b => wide.table[u] = b
    BY <1>8, <1>9, <2>1, Zenon DEF Aligned
  <2>3. wide.table[u] = b => wide.table[s] = b
    BY <1>8, <1>9, <2>1, Zenon DEF Aligned
  <2> QED BY <2>2, <2>3
<1>11. CASE wide.table[s] = b
  <2>1. (y.table[s] = b /\ y.table[u] = new) \/ (y.table[s] = new /\ y.table[u] = b)
    BY <1>4, <1>8, <1>10, <1>11
  <2>2. /\ Room(Held(y, b, e)) + Room(Held(y, new, e)) > BucketRoom
        /\ Room(Held(y, new, e)) + Room(Held(y, b, e)) > BucketRoom
    BY HalvesTight, Zenon
  <2> QED BY <2>1, <2>2, Zenon
<1>12. CASE wide.table[s] # b
  <2> DEFINE j == wide.table[s]
             i == wide.table[u]
  <2>1. j \in InUse(x) \ {b} /\ i \in InUse(x) \ {b}
    BY <1>6, <1>10, <1>12
  <2>2. y.table[s] = j /\ y.table[u] = i /\ y.buckets[j] = wide.buckets[j] /\ y.buckets[i] = wide.buckets[i]
    BY <1>2, <1>4, <1>10, <1>12, <2>1
  <2>3. Brothers(wide, s, u)
    <3>1. Shift(y, s) = Shift(wide, s)
      BY <1>2, <2>2, Zenon DEF Shift
    <3> QED BY <1>8, <2>2, <3>1, Zenon DEF Brothers
  <2>4. j # BucketOf(wide, e[1]) /\ i # BucketOf(wide, e[1]) /\ j # BucketOf(y, e[1]) /\ i # BucketOf(y, e[1])
    BY <1>2, <1>5, <2>1
  <2>5. Held(y, j, e) = Held(wide, j, e) /\ Held(y, i, e) = Held(wide, i, e)
    BY <2>2, <2>4, Zenon DEF Held
  <2>6. Room(Held(wide, j, e)) + Room(Held(wide, i, e)) > BucketRoom
    BY <1>3, <2>3, Zenon DEF Tight
  <2> QED BY <2>2, <2>5, <2>6, Zenon
<1> QED BY <1>11, <1>12

LEMMA SplitDeep ==
  ASSUME NEW x, Sound(x), Deep(x), NEW b \in InUse(x),
         NEW new, NEW wide, NEW y, Parted(x, b, new, wide, y)
  PROVE  Deep(y)
<1>1. /\ \A j \in InUse(x) \ {b} : y.buckets[j] = x.buckets[j]
      /\ y.buckets[b].ld = x.buckets[b].ld + 1
  BY PartedFacts
<1>2. InUse(y) = InUse(x) \cup {new} /\ y.depth = wide.depth
  BY Zenon DEF Parted
<1>3. CASE x.buckets[b].ld = x.depth /\ x.depth < MaxDepth /\ wide = Doubled(x)
  <2>1. wide.depth = x.depth + 1
    BY <1>3, DoubledSound, Zenon
  <2>2. y.buckets[b].ld = y.depth /\ b \in InUse(y)
    BY <1>1, <1>2, <1>3, <2>1
  <2> QED BY <2>2, Zenon DEF Deep
<1>4. CASE x.buckets[b].ld < x.depth /\ wide = x
  <2>1. PICK j \in InUse(x) : x.buckets[j].ld = x.depth
    BY Zenon DEF Deep
  <2>2. j # b
    <3>1. x.depth \in Nat
      BY SoundFacts
    <3> QED BY <1>4, <2>1, <3>1
  <2>3. y.buckets[j].ld = y.depth /\ j \in InUse(y)
    BY <1>1, <1>2, <1>4, <2>1, <2>2
  <2> QED BY <2>3, Zenon DEF Deep
<1> QED BY <1>3, <1>4, Zenon DEF Parted

(* Nothing can be merged, and the table is as wide as its deepest bucket   *)
(* needs.                                                                  *)
Shrunk(x) == Mergeable(x) = {} /\ Deep(x) /\ IsFiniteSet(Listed(x))

LEMMA WithShrunk ==
  ASSUME NEW x, Sound(x), IsFiniteSet(Listed(x)), NEW e \in Entries \ Listed(x), Tight(x, e), Deep(x),
         NEW y, y = With(x, e)
  PROVE  Shrunk(y)
<1>1. /\ Sound(y) /\ Listed(y) = Listed(x) \cup {e} /\ InUse(y) = InUse(x)
      /\ y.depth = x.depth /\ y.table = x.table
      /\ \A j \in InUse(x) :
           /\ y.buckets[j].ld = x.buckets[j].ld
           /\ y.buckets[j].entries = x.buckets[j].entries \cup (IF j = BucketOf(x, e[1]) THEN {e} ELSE {})
  BY WithSound
<1>2. IsFiniteSet(Listed(y))
  BY <1>1, FS_AddElement
<1>3. Deep(y)
  BY <1>1, Zenon DEF Deep
<1>4. \A j \in InUse(x) : y.buckets[j].entries = Held(x, j, e)
  BY <1>1, Zenon DEF Held
<1>5. \A s \in DOMAIN x.table : x.table[s] \in InUse(x)
  BY SoundFacts, Zenon
<1>6. ASSUME NEW s \in DOMAIN y.table, NEW u \in DOMAIN y.table, Brothers(y, s, u)
      PROVE  Room(y.buckets[y.table[s]].entries) + Room(y.buckets[y.table[u]].entries) > BucketRoom
  <2>1. /\ s \in DOMAIN x.table /\ u \in DOMAIN x.table
        /\ x.table[s] \in InUse(x) /\ x.table[u] \in InUse(x)
    BY <1>1, <1>5, Zenon
  <2>2. y.buckets[x.table[s]].ld = x.buckets[x.table[s]].ld /\ y.buckets[x.table[u]].ld = x.buckets[x.table[u]].ld
    BY <1>1, <2>1, Zenon
  <2>3. Shift(y, s) = Shift(x, s)
    BY <1>1, <2>2, Zenon DEF Shift
  <2>4. Brothers(x, s, u)
    BY <1>1, <1>6, <2>2, <2>3, Zenon DEF Brothers
  <2>5. Room(Held(x, x.table[s], e)) + Room(Held(x, x.table[u], e)) > BucketRoom
    BY <2>1, <2>4, Zenon DEF Tight
  <2> QED BY <1>1, <1>4, <2>1, <2>5, Zenon
<1>7. Mergeable(y) = {}
  BY <1>1, <1>2, <1>6, MergeableMeans, Zenon
<1> QED BY <1>2, <1>3, <1>7, Zenon DEF Shrunk

LEMMA InsertShrunk ==
  ASSUME NEW x, Sound(x), Shrunk(x), NEW e \in Entries \ Listed(x), NEW y \in HashedInsert(x, e)
  PROVE  Shrunk(y)
<1> DEFINE S == {z \in HashedSet : Sound(z) /\ Listed(z) = Listed(x) /\ Tight(z, e) /\ Deep(z)}
<1>1. e[1] \in Names
  BY DEF Entries
<1>2. Mergeable(x) = {} /\ Deep(x) /\ IsFiniteSet(Listed(x))
  BY Zenon DEF Shrunk
<1>3. ASSUME NEW z \in S, ~Fits(z, e), NEW w \in Split(z, BucketOf(z, e[1])) PROVE w \in S
  <2> DEFINE b == BucketOf(z, e[1])
  <2>1. Sound(z) /\ Listed(z) = Listed(x) /\ Tight(z, e) /\ Deep(z)
    OBVIOUS
  <2>2. b \in InUse(z) /\ b = BucketOf(z, e[1]) /\ w \in Split(z, b)
    BY <1>1, <2>1, BucketOfFacts, Zenon
  <2>3. Room(z.buckets[b].entries) + SizeOf[e[1]] > BucketRoom
    <3>1. ~(Room(z.buckets[b].entries) + SizeOf[e[1]] <= BucketRoom)
      BY <1>3, Zenon DEF Fits
    <3>2. Room(z.buckets[b].entries) \in Nat /\ SizeOf[e[1]] \in Nat /\ BucketRoom \in Nat
      <4>1. Room(z.buckets[b].entries) \in Nat
        BY <1>2, <2>1, <2>2, BucketRooms, Zenon
      <4> QED BY <1>1, <4>1, RoomAssumption
    <3> HIDE DEF b
    <3> QED BY <3>1, <3>2
  <2> HIDE DEF b, S
  <2>4. Sound(w) /\ Listed(w) = Listed(z) /\ \E new, wide : Parted(z, b, new, wide, w)
    BY <2>1, <2>2, SplitSound, Zenon
  <2>5. PICK new, wide : Parted(z, b, new, wide, w)
    BY <2>4, Zenon
  <2>6. e \in Entries \ Listed(z) /\ IsFiniteSet(Listed(z))
    BY <1>2, <2>1
  <2>7. Tight(w, e)
    BY <2>1, <2>2, <2>3, <2>4, <2>5, <2>6, SplitTight, Zenon
  <2>8. Deep(w)
    BY <2>1, <2>2, <2>5, SplitDeep, Zenon
  <2>9. w \in HashedSet
    BY <2>4, Zenon DEF Sound
  <2> QED BY <2>1, <2>4, <2>7, <2>8, <2>9, Zenon DEF S
<1>4. x \in S
  <2>1. Tight(x, e) /\ x \in HashedSet
    BY <1>2, TightFirst, Zenon DEF Sound
  <2> QED BY <1>2, <2>1
<1>5. \A z \in S : Sound(z) /\ Listed(z) = Listed(x) /\ Tight(z, e) /\ Deep(z)
  OBVIOUS
<1> HIDE DEF S
<1>6. \A z \in S : ~Fits(z, e) => Split(z, BucketOf(z, e[1])) \subseteq S
  <2> SUFFICES ASSUME NEW z \in S, ~Fits(z, e), NEW w \in Split(z, BucketOf(z, e[1])) PROVE w \in S
    BY Zenon
  <2> QED BY <1>3, Zenon
<1>7. PICK z \in S : y = With(z, e)
  BY <1>4, <1>6, InsertRounds, ZenonT(60)
<1>8. Sound(z) /\ IsFiniteSet(Listed(z)) /\ e \in Entries \ Listed(z) /\ Tight(z, e) /\ Deep(z)
  BY <1>2, <1>5
<1> QED BY <1>7, <1>8, WithShrunk, Zenon

LEMMA ToHashedShrunk ==
  ASSUME NEW l \in Seq(Entries), \A i, j \in 1 .. Len(l) : l[i] = l[j] => i = j, NEW y \in ToHashed(l)
  PROVE  Shrunk(y)
<1>1. Len(l) \in Nat /\ \A k \in 1 .. Len(l) : l[k] \in Entries
  OBVIOUS
<1>2. PICK ff : /\ ToHashed(l) = ff[Len(l)] /\ ff[0] = {OneBucket}
                /\ \A k \in 1 .. Len(l) : ff[k] = UNION {HashedInsert(z, l[k]) : z \in ff[k - 1]}
  BY ToHashedRounds, Zenon
<1> DEFINE P(k, z) == Sound(z) /\ Shrunk(z) /\ Listed(z) = {l[i] : i \in 1 .. k}
           U == {k \in Nat : k <= Len(l) => \A z \in ff[k] : P(k, z)}
<1>3. P(0, OneBucket)
  <2>1. /\ Sound(OneBucket) /\ Listed(OneBucket) = {} /\ OneBucket.depth = 0
        /\ InUse(OneBucket) = {0} /\ OneBucket.buckets[0].ld = 0
    BY OneBucketSound
  <2>2. Rested(OneBucket)
    BY <2>1, Zenon DEF Rested
  <2>3. Mergeable(OneBucket) = {} /\ Deep(OneBucket)
    BY <2>1, <2>2, RestedFacts
  <2>4. IsFiniteSet(Listed(OneBucket))
    BY <2>1, FS_EmptySet
  <2>5. Shrunk(OneBucket)
    BY <2>3, <2>4, Zenon DEF Shrunk
  <2> QED BY <2>1, <2>5
<1>4. 0 \in U
  BY <1>2, <1>3
<1>5. ASSUME NEW k \in U PROVE k + 1 \in U
  <2> SUFFICES ASSUME k + 1 <= Len(l), NEW w \in ff[k + 1] PROVE P(k + 1, w)
    OBVIOUS
  <2>1. k \in Nat /\ k <= Len(l) /\ k + 1 \in 1 .. Len(l) /\ (k + 1) - 1 = k
    BY <1>1
  <2>2. ff[k + 1] = UNION {HashedInsert(z, l[k + 1]) : z \in ff[k]}
    BY <1>2, <2>1
  <2>3. PICK z \in ff[k] : w \in HashedInsert(z, l[k + 1])
    BY <2>2
  <2>4. Sound(z) /\ Shrunk(z) /\ Listed(z) = {l[i] : i \in 1 .. k}
    BY <2>1
  <2>5. Sound(w) /\ Listed(w) = Listed(z) \cup {l[k + 1]}
    BY <1>1, <2>1, <2>3, <2>4, HashedInsertSound
  <2>6. 1 .. k + 1 = 1 .. k \cup {k + 1}
    BY <2>1
  <2>7. l[k + 1] \in Entries \ Listed(z)
    <3>1. \A i \in 1 .. k : i \in 1 .. Len(l) /\ i # k + 1
      BY <1>1, <2>1
    <3>2. \A i \in 1 .. k : l[i] # l[k + 1]
      BY <2>1, <3>1
    <3> QED BY <1>1, <2>1, <2>4, <3>2
  <2>8. Shrunk(w)
    BY <2>3, <2>4, <2>7, InsertShrunk
  <2> QED BY <2>4, <2>5, <2>6, <2>8
<1>6. U = Nat
  <2>1. U \in SUBSET Nat
    OBVIOUS
  <2> HIDE DEF U
  <2> QED BY <1>4, <1>5, <2>1, Induction
<1>7. P(Len(l), y)
  BY <1>1, <1>2, <1>6
<1> QED BY <1>7


-----------------------------------------------------------------------------
(* The directory                                                           *)

DirSet == [fmt : {"empty", "embed", "hashed"}, embed : Seq(Entries), hashed : HashedSet \cup {NoBuckets}]

(* The inductive invariant: the hashed part is sound while it is used, and *)
(* no name is listed twice.                                                *)
DirInv(d) ==
  /\ d \in DirSet
  /\ IF d.fmt = "hashed" THEN d.embed = << >> /\ Sound(d.hashed) ELSE d.hashed = NoBuckets
  /\ d.fmt = "empty" => d.embed = << >>
  /\ \A i, j \in 1 .. Len(d.embed) : d.embed[i][1] = d.embed[j][1] => i = j
  /\ \A e, f \in Listing(d) : e[1] = f[1] => e = f

LEMMA FindFacts ==
  ASSUME NEW d, DirInv(d)
  PROVE  /\ Listing(d) \subseteq Entries
         /\ \A n \in Names : Find(d, n) = {e \in Listing(d) : e[1] = n}
<1>1. CASE d.fmt = "hashed"
  <2> DEFINE x == d.hashed
  <2>1. Sound(x)
    BY <1>1 DEF DirInv
  <2>2. Listing(d) = UNION {x.buckets[b].entries : b \in InUse(x)}
    BY <1>1, Zenon DEF Listing
  <2>3. \A n : Find(d, n) = {e \in x.buckets[BucketOf(x, n)].entries : e[1] = n}
    BY <1>1, Zenon DEF Find
  <2> HIDE DEF x
  <2>4. Listing(d) \subseteq Entries
    BY <2>1, <2>2, SoundFacts DEF InUse
  <2>5. \A n \in Names : Find(d, n) = {e \in Listing(d) : e[1] = n}
    <3> TAKE n \in Names
    <3>1. BucketOf(x, n) \in InUse(x)
      BY <2>1, BucketOfFacts
    <3>2. \A b \in InUse(x) : \A e \in x.buckets[b].entries : e[1] = n => BucketOf(x, n) = b
      BY <2>1, Zenon DEF Sound, Placed, InUse
    <3> QED BY <2>2, <2>3, <3>1, <3>2
  <2> QED BY <2>4, <2>5
<1>2. CASE d.fmt # "hashed"
  <2>1. Listing(d) = Range(d.embed) /\ \A n : Find(d, n) = {e \in Range(d.embed) : e[1] = n}
    BY <1>2, Zenon DEF Listing, Find
  <2>2. d.embed \in Seq(Entries)
    BY DEF DirInv, DirSet
  <2>3. Range(d.embed) \subseteq Entries
    BY <2>2 DEF Range
  <2> QED BY <2>1, <2>3, Zenon
<1> QED BY <1>1, <1>2

LEMMA HashedDir ==
  ASSUME NEW x, Sound(x), \A e, f \in Listed(x) : e[1] = f[1] => e = f
  PROVE  DirInv(Hashed(x)) /\ Listing(Hashed(x)) = Listed(x)
<1>1. Hashed(x).fmt = "hashed" /\ Hashed(x).embed = << >> /\ Hashed(x).hashed = x
  BY DEF Hashed
<1>2. Hashed(x) \in DirSet
  <2>1. x \in HashedSet
    BY Zenon DEF Sound
  <2> QED BY <2>1 DEF Hashed, DirSet
<1>3. Listing(Hashed(x)) = Listed(x)
  BY <1>1, Zenon DEF Listing, Listed
<1>4. \A i, j \in 1 .. Len(Hashed(x).embed) : Hashed(x).embed[i][1] = Hashed(x).embed[j][1] => i = j
  <2>1. 1 .. Len(Hashed(x).embed) = {}
    BY <1>1
  <2> QED BY <2>1
<1> DEFINE d == Hashed(x)
<1>5. /\ d.fmt = "hashed" /\ d.embed = << >> /\ d.hashed = x /\ d \in DirSet /\ Listing(d) = Listed(x)
      /\ \A i, j \in 1 .. Len(d.embed) : d.embed[i][1] = d.embed[j][1] => i = j
  BY <1>1, <1>2, <1>3, <1>4, Zenon
<1> HIDE DEF d
<1>6. DirInv(d) /\ Listing(d) = Listed(x)
  BY <1>5 DEF DirInv
<1> QED BY <1>6 DEF d

LEMMA EmptyDirSound == DirInv(EmptyDir) /\ Listing(EmptyDir) = {}
<1>1. EmptyDir.fmt = "empty" /\ EmptyDir.embed = << >> /\ EmptyDir.hashed = NoBuckets /\ EmptyDir \in DirSet
  BY DEF EmptyDir, DirSet
<1>2. Listing(EmptyDir) = {}
  BY <1>1 DEF Listing, Range
<1>3. 1 .. Len(EmptyDir.embed) = {}
  BY <1>1
<1> QED BY <1>1, <1>2, <1>3 DEF DirInv

(* What the embedded entries of a directory become. *)
LEMMA EmbedDir ==
  ASSUME NEW d, DirInv(d), d.fmt # "hashed", NEW l \in Seq(Entries),
         \A i, j \in 1 .. Len(l) : l[i][1] = l[j][1] => i = j,
         NEW y, y = [fmt |-> "embed", embed |-> l, hashed |-> d.hashed]
  PROVE  DirInv(y) /\ Listing(y) = Range(l)
<1>1. y.fmt = "embed" /\ y.embed = l /\ y.hashed = d.hashed
  OBVIOUS
<1>2. d.hashed = NoBuckets /\ y \in DirSet
  BY DEF DirInv, DirSet
<1>3. Listing(y) = Range(l)
  BY <1>1 DEF Listing
<1>4. \A e, f \in Range(l) : e[1] = f[1] => e = f
  BY DEF Range
<1> QED BY <1>1, <1>2, <1>3, <1>4 DEF DirInv

LEMMA InsertedSound ==
  ASSUME NEW d, DirInv(d), NEW e \in Entries, Find(d, e[1]) = {}, NEW y \in Inserted(d, e)
  PROVE  DirInv(y) /\ Listing(y) = Listing(d) \cup {e}
<1>1. e[1] \in Names /\ \A f \in Listing(d) : f[1] # e[1]
  <2>1. e[1] \in Names
    BY DEF Entries
  <2> QED BY <2>1, FindFacts
<1>2. \A f, g \in Listing(d) \cup {e} : f[1] = g[1] => f = g
  BY <1>1 DEF DirInv
<1>3. CASE d.fmt = "hashed"
  <2>1. PICK x \in HashedInsert(d.hashed, e) : y = Hashed(x)
    BY <1>3, Zenon DEF Inserted
  <2>2. Sound(d.hashed) /\ Listing(d) = Listed(d.hashed)
    BY <1>3 DEF DirInv, Listing, Listed
  <2>3. Sound(x) /\ Listed(x) = Listing(d) \cup {e}
    BY <2>1, <2>2, HashedInsertSound
  <2> QED BY <1>2, <2>1, <2>3, HashedDir
<1>4. CASE d.fmt # "hashed"
  <2> DEFINE l == d.embed
  <2>1. l \in Seq(Entries) /\ Listing(d) = Range(l) /\ Len(l) \in Nat /\ DOMAIN l = 1 .. Len(l)
    BY <1>4 DEF DirInv, DirSet, Listing
  <2>2. CASE Room(Range(l)) + SizeOf[e[1]] <= EmbedRoom
    <3> DEFINE m == Append(l, e)
    <3>1. y = [d EXCEPT !.fmt = "embed", !.embed = m]
      <4>1. [d EXCEPT !.fmt = "embed"].embed = d.embed
        BY DEF DirInv, DirSet
      <4> QED BY <1>4, <2>2, <4>1, Zenon DEF Inserted
    <3>2. m \in Seq(Entries) /\ Len(m) = Len(l) + 1 /\ m[Len(l) + 1] = e
          /\ \A i \in 1 .. Len(l) : m[i] = l[i]
      BY <2>1
    <3> HIDE DEF m
    <3>3. y = [fmt |-> "embed", embed |-> m, hashed |-> d.hashed]
      <4>1. PICK a, b, c : d = [fmt |-> a, embed |-> b, hashed |-> c] /\ d.hashed = c
        BY DEF DirInv, DirSet
      <4> DEFINE z == [d EXCEPT !.fmt = "embed"]
      <4>2. z = [fmt |-> "embed", embed |-> b, hashed |-> c]
        BY <4>1
      <4> HIDE DEF z
      <4>3. [z EXCEPT !.embed = m] = [fmt |-> "embed", embed |-> m, hashed |-> c]
        BY <4>2
      <4> QED BY <3>1, <4>1, <4>3, Zenon DEF z
    <3>4. \A i \in 1 .. Len(l) : l[i] \in Range(l)
      BY <2>1 DEF Range
    <3>5. \A i, j \in 1 .. Len(m) : m[i][1] = m[j][1] => i = j
      <4> SUFFICES ASSUME NEW i \in 1 .. Len(m), NEW j \in 1 .. Len(m), m[i][1] = m[j][1] PROVE i = j
        OBVIOUS
      <4>1. \A k \in 1 .. Len(m) : k \in 1 .. Len(l) \/ k = Len(l) + 1
        BY <2>1, <3>2
      <4>2. \A k \in 1 .. Len(l) : m[k][1] # e[1] /\ m[k] = l[k]
        BY <1>1, <2>1, <3>2, <3>4
      <4>3. \A k, w \in 1 .. Len(l) : l[k][1] = l[w][1] => k = w
        BY DEF DirInv
      <4> QED BY <3>2, <4>1, <4>2, <4>3
    <3>6. Range(m) = Range(l) \cup {e}
      <4>1. DOMAIN m = 1 .. Len(l) + 1 /\ Len(l) + 1 \in 1 .. Len(l) + 1
        BY <2>1, <3>2
      <4>2. \A k \in 1 .. Len(l) + 1 : k \in 1 .. Len(l) \/ k = Len(l) + 1
        BY <2>1
      <4>3. 1 .. Len(l) \subseteq 1 .. Len(l) + 1
        BY <2>1
      <4> QED BY <2>1, <3>2, <4>1, <4>2, <4>3 DEF Range
    <3>7. DirInv(y) /\ Listing(y) = Range(m)
      BY <1>4, <3>2, <3>3, <3>5, EmbedDir
    <3> QED BY <2>1, <3>6, <3>7
  <2>3. CASE ~(Room(Range(l)) + SizeOf[e[1]] <= EmbedRoom)
    <3>1. PICK z \in ToHashed(l) : \E x \in HashedInsert(z, e) : y = Hashed(x)
      BY <1>4, <2>3, Zenon DEF Inserted
    <3>2. PICK x \in HashedInsert(z, e) : y = Hashed(x)
      BY <3>1
    <3> HIDE DEF l
    <3>3. Sound(z) /\ Listed(z) = Listing(d)
      BY <2>1, ToHashedSound
    <3>4. Sound(x) /\ Listed(x) = Listing(d) \cup {e}
      BY <3>3, HashedInsertSound
    <3> QED BY <1>2, <3>2, <3>4, HashedDir
  <2> QED BY <2>2, <2>3
<1> QED BY <1>3, <1>4

LEMMA RemoveAtFacts ==
  ASSUME NEW S, NEW l \in Seq(S), NEW i \in 1 .. Len(l)
  PROVE  /\ RemoveAt(l, i) \in Seq(S) /\ Len(RemoveAt(l, i)) = Len(l) - 1
         /\ \A j \in 1 .. Len(l) - 1 : RemoveAt(l, i)[j] = IF j < i THEN l[j] ELSE l[j + 1]
<1>1. RemoveAt(l, i) = SubSeq(l, 1, i - 1) \o SubSeq(l, i + 1, Len(l))
  BY DEF RemoveAt
<1>2. /\ SubSeq(l, 1, i - 1) \in Seq(S) /\ Len(SubSeq(l, 1, i - 1)) = i - 1
      /\ \A j \in 1 .. i - 1 : SubSeq(l, 1, i - 1)[j] = l[j]
  OBVIOUS
<1>3. /\ SubSeq(l, i + 1, Len(l)) \in Seq(S) /\ Len(SubSeq(l, i + 1, Len(l))) = Len(l) - i
      /\ \A j \in 1 .. Len(l) - i : SubSeq(l, i + 1, Len(l))[j] = l[i + j]
  OBVIOUS
<1> DEFINE a == SubSeq(l, 1, i - 1)
           b == SubSeq(l, i + 1, Len(l))
<1> HIDE DEF a, b
<1>4. /\ a \in Seq(S) /\ Len(a) = i - 1 /\ \A j \in 1 .. i - 1 : a[j] = l[j]
      /\ b \in Seq(S) /\ Len(b) = Len(l) - i /\ \A j \in 1 .. Len(l) - i : b[j] = l[i + j]
      /\ RemoveAt(l, i) = a \o b
  BY <1>1, <1>2, <1>3 DEF a, b
<1>5. a \o b \in Seq(S) /\ Len(a \o b) = Len(l) - 1
  BY <1>4
<1>6. \A j \in 1 .. Len(l) - 1 : (a \o b)[j] = IF j < i THEN l[j] ELSE l[j + 1]
  <2> TAKE j \in 1 .. Len(l) - 1
  <2>1. CASE j < i
    BY <1>4, <2>1
  <2>2. CASE ~(j < i)
    <3>1. j - (i - 1) \in 1 .. Len(l) - i /\ i + (j - (i - 1)) = j + 1
      BY <2>2
    <3>2. (a \o b)[j] = b[j - (i - 1)]
      BY <1>4, <2>2
    <3> QED BY <1>4, <2>2, <3>1, <3>2
  <2> QED BY <2>1, <2>2
<1> QED BY <1>4, <1>5, <1>6

(* Without the entry e. *)
Without(x, e) == [x EXCEPT !.buckets[BucketOf(x, e[1])].entries = @ \ {e}]

LEMMA EntryTaken ==
  ASSUME NEW x, Sound(x), NEW e \in Entries, NEW y, y = Without(x, e)
  PROVE  Sound(y) /\ Listed(y) = Listed(x) \ {e}
<1> DEFINE b == BucketOf(x, e[1])
           E == x.buckets[b].entries \ {e}
<1>1. e[1] \in Names
  BY DEF Entries
<1>2. b \in InUse(x) /\ b \in DOMAIN x.buckets
  BY <1>1, BucketOfFacts, Zenon
<1>3. E \in SUBSET Entries /\ \A i \in E : BucketOf(x, i[1]) = b
  <2>1. x.buckets[b].entries \subseteq Entries
    BY <1>2, SoundFacts
  <2>2. \A i \in x.buckets[b].entries : BucketOf(x, i[1]) = b
    BY <1>2, Zenon DEF Sound, Placed
  <2> QED BY <2>1, <2>2
<1>4. y = Holding(x, b, E)
  BY Zenon DEF Holding, Without
<1>5. \A j \in InUse(x) \ {b} : e \notin x.buckets[j].entries
  BY Zenon DEF Sound, Placed, InUse
<1> HIDE DEF b, E
<1>6. /\ Sound(y) /\ InUse(y) = InUse(x) /\ y.buckets[b].entries = E
      /\ \A j \in InUse(x) \ {b} : y.buckets[j] = x.buckets[j]
  BY <1>2, <1>3, <1>4, EntriesSound
<1>7. Listed(y) = Listed(x) \ {e}
  BY <1>2, <1>5, <1>6 DEF Listed, E
<1> QED BY <1>6, <1>7

LEMMA RemovedSound ==
  ASSUME NEW d, DirInv(d), NEW n \in Names, NEW e \in Find(d, n), NEW y \in Removed(d, e)
  PROVE  DirInv(y) /\ Listing(y) = Listing(d) \ {e}
<1>1. e \in Listing(d) /\ e \in Entries /\ e[1] = n
  BY FindFacts
<1>2. \A f, g \in Listing(d) \ {e} : f[1] = g[1] => f = g
  BY DEF DirInv
<1>3. CASE d.fmt = "hashed"
  <2> DEFINE left == Without(d.hashed, e)
  <2>1. PICK z \in TryMerge(left) : y = IF Listing(Hashed(z)) = {} THEN EmptyDir ELSE Hashed(z)
    BY <1>3, Zenon DEF Removed, Without
  <2>2. Sound(d.hashed) /\ Listing(d) = Listed(d.hashed)
    BY <1>3 DEF DirInv, Listing, Listed
  <2>7. Sound(left) /\ Listed(left) = Listing(d) \ {e}
    <3>1. \A w : w = left => Sound(w) /\ Listed(w) = Listed(d.hashed) \ {e}
      BY <1>1, <2>2, EntryTaken, Zenon
    <3> QED BY <2>2, <3>1, Zenon
  <2> HIDE DEF left
  <2>8. Sound(z) /\ Listed(z) = Listing(d) \ {e}
    BY <2>1, <2>7, TryMergeRests
  <2>9. DirInv(Hashed(z)) /\ Listing(Hashed(z)) = Listing(d) \ {e}
    BY <1>2, <2>8, HashedDir
  <2> QED BY <2>1, <2>9, EmptyDirSound
<1>4. CASE d.fmt = "embed"
  <2> DEFINE l == d.embed
             i == CHOOSE i \in DOMAIN l : l[i] = e
             m == RemoveAt(l, i)
  <2>1. l \in Seq(Entries) /\ Listing(d) = Range(l) /\ Len(l) \in Nat /\ DOMAIN l = 1 .. Len(l)
        /\ \A j, k \in 1 .. Len(l) : l[j][1] = l[k][1] => j = k
    BY <1>4 DEF DirInv, DirSet, Listing
  <2>2. y = IF m = << >> THEN EmptyDir ELSE [d EXCEPT !.embed = m]
    BY <1>4, Zenon DEF Removed
  <2>3. i \in 1 .. Len(l) /\ l[i] = e
    <3>1. \E j \in DOMAIN l : l[j] = e
      BY <1>1, <2>1 DEF Range
    <3> QED BY <2>1, <3>1
  <2> HIDE DEF l, i
  <2>4. /\ m \in Seq(Entries) /\ Len(m) = Len(l) - 1 /\ DOMAIN m = 1 .. Len(l) - 1
        /\ \A j \in 1 .. Len(l) - 1 : m[j] = IF j < i THEN l[j] ELSE l[j + 1]
    <3>1. /\ m \in Seq(Entries) /\ Len(m) = Len(l) - 1
          /\ \A j \in 1 .. Len(l) - 1 : m[j] = IF j < i THEN l[j] ELSE l[j + 1]
      BY <2>1, <2>3, RemoveAtFacts, Zenon
    <3> HIDE DEF m
    <3> QED BY <3>1
  <2> HIDE DEF m
  <2>5. \A j, k \in 1 .. Len(m) : m[j][1] = m[k][1] => j = k
    <3> SUFFICES ASSUME NEW j \in 1 .. Len(m), NEW k \in 1 .. Len(m), m[j][1] = m[k][1] PROVE j = k
      OBVIOUS
    <3> DEFINE p == IF j < i THEN j ELSE j + 1
               q == IF k < i THEN k ELSE k + 1
    <3>1. p \in 1 .. Len(l) /\ q \in 1 .. Len(l) /\ m[j] = l[p] /\ m[k] = l[q]
      BY <2>1, <2>3, <2>4
    <3>2. p = q => j = k
      BY <2>3
    <3> HIDE DEF p, q
    <3> QED BY <2>1, <3>1, <3>2
  <2>6. Range(m) = Range(l) \ {e}
    <3>1. \A j \in 1 .. Len(l) - 1 : m[j] \in Range(l) /\ m[j] # e
      <4> TAKE j \in 1 .. Len(l) - 1
      <4> DEFINE p == IF j < i THEN j ELSE j + 1
      <4>1. p \in 1 .. Len(l) /\ m[j] = l[p] /\ p # i
        BY <2>1, <2>3, <2>4
      <4> HIDE DEF p
      <4>2. l[p] # l[i]
        BY <2>1, <2>3, <4>1
      <4> QED BY <2>1, <2>3, <4>1, <4>2 DEF Range
    <3>2. \A j \in 1 .. Len(l) : j # i => l[j] \in Range(m)
      <4> SUFFICES ASSUME NEW j \in 1 .. Len(l), j # i PROVE \E k \in 1 .. Len(l) - 1 : m[k] = l[j]
        BY <2>4 DEF Range
      <4>1. CASE j < i
        <5>1. j \in 1 .. Len(l) - 1
          BY <2>1, <2>3, <4>1
        <5> QED BY <2>4, <4>1, <5>1
      <4>2. CASE ~(j < i)
        <5>1. j - 1 \in 1 .. Len(l) - 1 /\ ~(j - 1 < i) /\ (j - 1) + 1 = j
          BY <2>1, <2>3, <4>2
        <5> QED BY <2>4, <5>1
      <4> QED BY <4>1, <4>2
    <3> QED BY <2>1, <2>3, <2>4, <3>1, <3>2 DEF Range
  <2>7. CASE m = << >>
    <3>1. Range(m) = {}
      BY <2>7 DEF Range
    <3> QED BY <2>1, <2>2, <2>6, <2>7, <3>1, EmptyDirSound
  <2>8. CASE m # << >>
    <3>1. [d EXCEPT !.embed = m] = [fmt |-> "embed", embed |-> m, hashed |-> d.hashed]
      <4>1. PICK a, b, c : d = [fmt |-> a, embed |-> b, hashed |-> c] /\ d.hashed = c /\ d.fmt = a
        BY DEF DirInv, DirSet
      <4>2. [d EXCEPT !.embed = m] = [fmt |-> a, embed |-> m, hashed |-> c]
        BY <4>1
      <4> QED BY <1>4, <4>1, <4>2, Zenon
    <3>2. y = [fmt |-> "embed", embed |-> m, hashed |-> d.hashed]
      BY <2>2, <2>8, <3>1, Zenon
    <3>3. DirInv(y) /\ Listing(y) = Range(m)
      BY <1>4, <2>4, <2>5, <3>2, EmbedDir
    <3> QED BY <2>1, <2>6, <3>3
  <2> QED BY <2>7, <2>8
<1>5. CASE d.fmt = "empty"
  <2>1. Listing(d) = {}
    BY <1>5 DEF DirInv, Listing, Range
  <2> QED BY <1>1, <2>1
<1>6. d.fmt \in {"empty", "embed", "hashed"}
  BY DEF DirInv, DirSet
<1> QED BY <1>3, <1>4, <1>5, <1>6

(* What makes Compact inductive: there are finitely many entries.          *)
DirShrunk(d) ==
  /\ IsFiniteSet(Listing(d))
  /\ d.fmt = "hashed" => Shrunk(d.hashed) /\ Listing(d) # {}

LEMMA InsertedShrunk ==
  ASSUME NEW d, DirInv(d), DirShrunk(d), NEW e \in Entries, Find(d, e[1]) = {}, NEW y \in Inserted(d, e)
  PROVE  DirShrunk(y)
<1>1. Listing(y) = Listing(d) \cup {e} /\ DirInv(y)
  BY InsertedSound
<1>2. IsFiniteSet(Listing(y)) /\ Listing(y) # {}
  <2>1. IsFiniteSet(Listing(d))
    BY Zenon DEF DirShrunk
  <2>2. IsFiniteSet(Listing(d) \cup {e})
    BY <2>1, FS_AddElement
  <2> QED BY <1>1, <2>2
<1>3. e \in Entries \ Listing(d)
  <2>1. e[1] \in Names
    BY DEF Entries
  <2>2. Find(d, e[1]) = {f \in Listing(d) : f[1] = e[1]}
    BY <2>1, FindFacts
  <2> QED BY <2>2
<1>4. CASE d.fmt = "hashed"
  <2>1. PICK x \in HashedInsert(d.hashed, e) : y = Hashed(x)
    BY <1>4, Zenon DEF Inserted
  <2>2. Sound(d.hashed) /\ Listing(d) = Listed(d.hashed)
    BY <1>4 DEF DirInv, Listing, Listed
  <2>3. Shrunk(d.hashed)
    BY <1>4, Zenon DEF DirShrunk
  <2>4. Shrunk(x)
    BY <1>3, <2>1, <2>2, <2>3, InsertShrunk
  <2>5. y.hashed = x
    BY <2>1 DEF Hashed
  <2> QED BY <1>2, <2>4, <2>5, Zenon DEF DirShrunk
<1>5. CASE d.fmt # "hashed" /\ Room(Range(d.embed)) + SizeOf[e[1]] <= EmbedRoom
  <2>1. y = [d EXCEPT !.fmt = "embed", !.embed = Append(@, e)]
    BY <1>5, Zenon DEF Inserted
  <2>2. y.fmt = "embed"
    BY <2>1 DEF DirInv, DirSet
  <2>3. y.fmt # "hashed"
    BY <2>2
  <2> QED BY <1>2, <2>3, Zenon DEF DirShrunk
<1>6. CASE d.fmt # "hashed" /\ ~(Room(Range(d.embed)) + SizeOf[e[1]] <= EmbedRoom)
  <2> DEFINE l == d.embed
  <2>1. PICK z \in ToHashed(l) : \E x \in HashedInsert(z, e) : y = Hashed(x)
    BY <1>6, Zenon DEF Inserted
  <2>2. PICK x \in HashedInsert(z, e) : y = Hashed(x)
    BY <2>1
  <2>3. l \in Seq(Entries) /\ Listing(d) = Range(l)
    BY <1>6 DEF DirInv, DirSet, Listing
  <2>4. \A i, j \in 1 .. Len(l) : l[i][1] = l[j][1] => i = j
    BY Zenon DEF DirInv
  <2> HIDE DEF l
  <2>5. \A i, j \in 1 .. Len(l) : l[i] = l[j] => i = j
    BY <2>4
  <2>6. Sound(z) /\ Listed(z) = Listing(d)
    BY <2>1, <2>3, ToHashedSound
  <2>7. Shrunk(z)
    BY <2>1, <2>3, <2>5, ToHashedShrunk
  <2>8. Shrunk(x)
    BY <1>3, <2>2, <2>6, <2>7, InsertShrunk
  <2>9. y.hashed = x
    BY <2>2 DEF Hashed
  <2> QED BY <1>2, <2>8, <2>9, Zenon DEF DirShrunk
<1> QED BY <1>4, <1>5, <1>6

LEMMA RemovedShrunk ==
  ASSUME NEW d, DirInv(d), DirShrunk(d), NEW n \in Names, NEW e \in Find(d, n), NEW y \in Removed(d, e)
  PROVE  DirShrunk(y)
<1>1. e \in Listing(d) /\ e \in Entries /\ e[1] = n
  BY FindFacts
<1>2. IsFiniteSet(Listing(y))
  <2>1. Listing(y) = Listing(d) \ {e} /\ IsFiniteSet(Listing(d))
    BY RemovedSound, Zenon DEF DirShrunk
  <2>2. Listing(y) \subseteq Listing(d)
    BY <2>1
  <2> QED BY <2>1, <2>2, FS_Subset
<1>3. CASE d.fmt = "hashed"
  <2> DEFINE left == Without(d.hashed, e)
  <2>1. PICK z \in TryMerge(left) : y = IF Listing(Hashed(z)) = {} THEN EmptyDir ELSE Hashed(z)
    BY <1>3, Zenon DEF Removed, Without
  <2>2. Sound(left)
    <3>1. Sound(d.hashed)
      BY <1>3 DEF DirInv
    <3>2. \A w : w = left => Sound(w)
      BY <1>1, <3>1, EntryTaken, Zenon
    <3> QED BY <3>2
  <2> HIDE DEF left
  <2>3. Sound(z) /\ Rested(z)
    BY <2>1, <2>2, TryMergeRests
  <2>4. Mergeable(z) = {} /\ Deep(z)
    BY <2>3, RestedFacts
  <2>5. CASE Listing(Hashed(z)) = {}
    <3>1. y.fmt = "empty"
      BY <2>1, <2>5 DEF EmptyDir
    <3>2. y.fmt # "hashed"
      BY <3>1
    <3> QED BY <1>2, <3>2, Zenon DEF DirShrunk
  <2>6. CASE Listing(Hashed(z)) # {}
    <3>1. y = Hashed(z) /\ Listing(y) # {}
      BY <2>1, <2>6
    <3>2. y.hashed = z /\ y.fmt = "hashed"
      BY <3>1 DEF Hashed
    <3>3. Listing(y) = Listed(z)
      BY <3>2, Zenon DEF Listing, Listed
    <3>4. Shrunk(z)
      BY <1>2, <2>4, <3>3, Zenon DEF Shrunk
    <3> QED BY <1>2, <3>1, <3>2, <3>4, Zenon DEF DirShrunk
  <2> QED BY <2>5, <2>6
<1>4. CASE d.fmt # "hashed"
  <2>1. d.fmt \in {"empty", "embed", "hashed"} /\ d \in DirSet
    BY DEF DirInv, DirSet
  <2>2. d.fmt = "embed"
    <3>1. d.fmt = "empty" => Listing(d) = {}
      BY DEF DirInv, Listing, Range
    <3> QED BY <1>1, <1>4, <2>1, <3>1
  <2>3. \E m : y = IF m = << >> THEN EmptyDir ELSE [d EXCEPT !.embed = m]
    BY <2>2, Zenon DEF Removed
  <2>4. y.fmt \in {"empty", "embed"}
    BY <2>1, <2>2, <2>3 DEF EmptyDir, DirSet
  <2>5. y.fmt # "hashed"
    BY <2>4
  <2> QED BY <1>2, <2>5, Zenon DEF DirShrunk
<1> QED BY <1>3, <1>4


-----------------------------------------------------------------------------
(* The theorems                                                            *)

Inv == DirInv(dir)

LEMMA NamedIs == ASSUME Inv, NEW n \in Names PROVE Map!Named(n) = Find(dir, n)
<1>1. Find(dir, n) = {e \in Listing(dir) : e[1] = n}
  BY FindFacts DEF Inv
<1> QED BY <1>1, Zenon DEF Map!Named

LEMMA InsertStep ==
  ASSUME Inv, NEW n \in Names, NEW i \in Inodes, InsertEntry(n, i)
  PROVE  Inv' /\ Map!InsertEntry(n, i)
<1> DEFINE e == <<n, i>>
<1>1. e \in Entries /\ e[1] = n
  BY DEF Entries
<1>2. Find(dir, e[1]) = {} /\ dir' \in Inserted(dir, e)
  BY <1>1, Zenon DEF InsertEntry
<1> HIDE DEF e
<1>3. DirInv(dir') /\ Listing(dir') = Listing(dir) \cup {e}
  BY <1>1, <1>2, InsertedSound, Zenon DEF Inv
<1>4. Map!Named(n) = {}
  BY <1>1, <1>2, NamedIs, Zenon
<1> QED BY <1>3, <1>4, Zenon DEF Inv, Map!InsertEntry, e

LEMMA RemoveStep ==
  ASSUME Inv, NEW n \in Names, RemoveEntry(n)
  PROVE  Inv' /\ Map!RemoveEntry(n)
<1>1. PICK e \in Find(dir, n) : dir' \in Removed(dir, e)
  BY Zenon DEF RemoveEntry
<1>2. DirInv(dir') /\ Listing(dir') = Listing(dir) \ {e}
  BY <1>1, RemovedSound, Zenon DEF Inv
<1>3. Map!Named(n) = {e}
  <2>1. e \in Listing(dir) /\ e[1] = n /\ Find(dir, n) = {f \in Listing(dir) : f[1] = n}
    BY <1>1, FindFacts DEF Inv
  <2>2. \A f \in Listing(dir) : f[1] = n => f = e
    BY <2>1 DEF Inv, DirInv
  <2>3. Map!Named(n) = {f \in Listing(dir) : f[1] = n}
    BY Zenon DEF Map!Named
  <2> QED BY <2>1, <2>2, <2>3
<1> QED BY <1>2, <1>3 DEF Inv, Map!RemoveEntry

LEMMA NextStep ==
  ASSUME Inv, [Next]_dir
  PROVE  Inv' /\ [Map!Next]_(Listing(dir))
<1>1. CASE Next
  <2>1. PICK n \in Names : RemoveEntry(n) \/ \E i \in Inodes : InsertEntry(n, i)
    BY <1>1, Zenon DEF Next
  <2>2. CASE RemoveEntry(n)
    <3>1. Inv' /\ Map!RemoveEntry(n)
      BY <2>2, RemoveStep
    <3> QED BY <3>1, Zenon DEF Map!Next
  <2>3. CASE \E i \in Inodes : InsertEntry(n, i)
    <3>1. PICK i \in Inodes : InsertEntry(n, i)
      BY <2>3
    <3>2. Inv' /\ Map!InsertEntry(n, i)
      BY <3>1, InsertStep
    <3> QED BY <3>2, Zenon DEF Map!Next
  <2> QED BY <2>1, <2>2, <2>3
<1>2. CASE UNCHANGED dir
  BY <1>2, Zenon DEF Inv
<1> QED BY <1>1, <1>2

LEMMA InitSound == Init => Inv /\ Map!Init
BY EmptyDirSound DEF Init, Inv, Map!Init

LEMMA Invariance == Spec => []Inv
<1>1. Inv /\ [Next]_dir => Inv'
  BY NextStep
<1> QED BY <1>1, InitSound, PTL DEF Spec

(* Every directory that dir_insert and dir_remove make is of its type: the *)
(* depth is at most MAX_DEPTH, the table has 2^depth slots, each with the  *)
(* number of a bucket, and no bucket's local depth exceeds the global one. *)
THEOREM DirectoryTyped == Spec => []TypeOK
<1>1. Inv => TypeOK
  <2> SUFFICES ASSUME Inv PROVE TypeOK
    OBVIOUS
  <2>1. dir.fmt \in {"empty", "embed", "hashed"} /\ dir.embed \in Seq(Names \X Inodes)
    BY DEF Inv, DirInv, DirSet, Entries
  <2>2. CASE dir.fmt = "hashed"
    <3> DEFINE x == dir.hashed
    <3>1. Sound(x)
      BY <2>2 DEF Inv, DirInv
    <3> HIDE DEF x
    <3>2. x.depth \in 0 .. MaxDepth /\ x.table \in [0 .. Pow2[x.depth] - 1 -> DOMAIN x.buckets]
      BY <3>1, SoundFacts, Zenon
    <3>3. Range(x.free) \subseteq DOMAIN x.buckets
      BY <3>1, Zenon DEF Sound, FreeInv
    <3>4. \A b \in DOMAIN x.buckets :
            x.buckets[b] \in [ld : 0 .. x.depth, entries : SUBSET (Names \X Inodes)]
      <4> TAKE b \in DOMAIN x.buckets
      <4>1. x.buckets[b] \in BucketSet /\ x.buckets[b].ld \in 0 .. x.depth
        BY <3>1, SoundFacts
      <4> QED BY <4>1 DEF BucketSet, Entries
    <3> QED BY <2>1, <3>2, <3>3, <3>4 DEF TypeOK, x0, x
  <2>3. CASE dir.fmt # "hashed"
    <3>1. x0 = NoBuckets
      BY <2>3 DEF Inv, DirInv, x0
    <3>2. x0.depth \in 0 .. MaxDepth
      BY <3>1, HashAssumption DEF NoBuckets
    <3>3. Range(x0.free) = {} /\ DOMAIN x0.buckets = {}
      BY <3>1 DEF NoBuckets, Range
    <3> QED BY <2>1, <2>3, <3>2, <3>3 DEF TypeOK
  <2> QED BY <2>2, <2>3
<1> QED BY <1>1, Invariance, PTL

(* What dir_list shows is what dir_find finds, and dir_check has nothing   *)
(* to report: after any splits, doublings, merges and halvings each entry  *)
(* is in the one bucket that its hash leads to, no slot points at a freed  *)
(* bucket, and no local depth exceeds the global one.                      *)
THEOREM LookupsFind == Spec => []LookupFinds
<1>1. Inv => LookupFinds
  <2> SUFFICES ASSUME Inv PROVE LookupFinds
    OBVIOUS
  <2>1. \A e \in Listing(dir) : Find(dir, e[1]) = {e}
    <3> TAKE e \in Listing(dir)
    <3>1. e \in Entries
      BY FindFacts DEF Inv
    <3>2. e[1] \in Names
      BY <3>1 DEF Entries
    <3>3. Find(dir, e[1]) = {f \in Listing(dir) : f[1] = e[1]}
      BY <3>2, FindFacts DEF Inv
    <3>4. \A f \in Listing(dir) : f[1] = e[1] => f = e
      BY DEF Inv, DirInv
    <3> QED BY <3>3, <3>4
  <2>2. DirCheck(dir) = {}
    <3>1. CASE dir.fmt # "hashed"
      BY <3>1, Zenon DEF DirCheck
    <3>2. CASE dir.fmt = "hashed"
      <4> DEFINE x == dir.hashed
                 freed == Range(x.free)
                 inTable(T) == {s \in DOMAIN x.table : x.table[s] \in T}
      <4>1. Sound(x)
        BY <3>2 DEF Inv, DirInv
      <4>2. DirCheck(dir) =
              {<<"no such bucket", s>> : s \in DOMAIN x.table \ inTable(DOMAIN x.buckets)}
                \cup {<<"freed bucket", s>> : s \in inTable(freed)}
                \cup {<<"freelist", b>> : b \in freed \ DOMAIN x.buckets}
                \cup {<<"local depth", b>> : b \in {b \in InUse(x) : x.buckets[b].ld > x.depth}}
                \cup UNION {{<<"wrong bucket", e>> : e \in {e \in x.buckets[b].entries :
                                                             BucketOf(x, e[1]) # b}} : b \in InUse(x)}
        BY <3>2, Zenon DEF DirCheck
      <4> HIDE DEF x
      <4>3. \A s \in DOMAIN x.table : x.table[s] \in InUse(x)
        BY <4>1, SoundFacts
      <4>4. inTable(DOMAIN x.buckets) = DOMAIN x.table /\ inTable(freed) = {}
        BY <4>3 DEF InUse
      <4>5. freed \subseteq DOMAIN x.buckets
        BY <4>1, Zenon DEF Sound, FreeInv
      <4>6. {b \in InUse(x) : x.buckets[b].ld > x.depth} = {}
        BY <4>1, SoundFacts
      <4>7. \A b \in InUse(x) : {e \in x.buckets[b].entries : BucketOf(x, e[1]) # b} = {}
        BY <4>1 DEF Sound, Placed, InUse
      <4> HIDE DEF freed, inTable
      <4>8. {<<"no such bucket", s>> : s \in DOMAIN x.table \ inTable(DOMAIN x.buckets)} = {}
        BY <4>4
      <4>9. {<<"freed bucket", s>> : s \in inTable(freed)} = {} /\ {<<"freelist", b>> : b \in freed \ DOMAIN x.buckets} = {}
        BY <4>4, <4>5
      <4>10. {<<"local depth", b>> : b \in {b \in InUse(x) : x.buckets[b].ld > x.depth}} = {}
        BY <4>6
      <4>11. UNION {{<<"wrong bucket", e>> : e \in {e \in x.buckets[b].entries :
                                                      BucketOf(x, e[1]) # b}} : b \in InUse(x)} = {}
        BY <4>7
      <4> QED BY <4>2, <4>8, <4>9, <4>10, <4>11, Zenon
    <3> QED BY <3>1, <3>2
  <2> QED BY <2>1, <2>2 DEF LookupFinds
<1> QED BY <1>1, Invariance, PTL

(* The slots of a bucket of local depth ld are just those whose top ld     *)
(* bits are some one number, no slot points at a freed bucket and every    *)
(* other bucket has one, and no number is freed twice (hashed_insert,      *)
(* try_merge, dhdr_write): in every reachable directory.                   *)
THEOREM TablesSound == Spec => []TableSound
<1>1. Inv => TableSound
  <2> SUFFICES ASSUME Inv, dir.fmt = "hashed" PROVE TableSound
    BY DEF TableSound
  <2> DEFINE x == dir.hashed
  <2>1. Sound(x)
    BY DEF Inv, DirInv
  <2> HIDE DEF x
  <2>2. Range(x.table) = InUse(x)
    BY <2>1 DEF Sound, TableInv
  <2>3. ASSUME NEW b \in InUse(x)
        PROVE  \E top \in 0 .. Pow2[x.buckets[b].ld] - 1 :
                 {s \in DOMAIN x.table : x.table[s] = b}
                   = {s \in DOMAIN x.table : s \div Pow2[x.depth - x.buckets[b].ld] = top}
    <3>1. PICK u \in DOMAIN x.table : x.table[u] = b
      BY <2>1, SoundFacts
    <3> DEFINE ld == x.buckets[b].ld
               k == x.depth - ld
    <3>2. x.depth \in Nat /\ ld \in 0 .. x.depth /\ u \in 0 .. Pow2[x.depth] - 1
      BY <2>1, <3>1, SoundFacts DEF InUse
    <3>3. k \in 0 .. x.depth /\ x.depth - k = ld
      BY <3>2
    <3>4. Shift(x, u) = k
      BY <3>1 DEF Shift
    <3> HIDE DEF ld, k
    <3>5. u \div Pow2[k] \in 0 .. Pow2[ld] - 1
      BY <3>2, <3>3, Leading
    <3>6. \A s \in DOMAIN x.table : x.table[s] = b <=> s \div Pow2[k] = u \div Pow2[k]
      BY <2>1, <3>1, <3>4, Zenon DEF Sound, TableInv, Aligned
    <3>7. {s \in DOMAIN x.table : x.table[s] = b}
            = {s \in DOMAIN x.table : s \div Pow2[k] = u \div Pow2[k]}
      BY <3>6, Zenon
    <3>8. \E top \in 0 .. Pow2[ld] - 1 :
             {s \in DOMAIN x.table : x.table[s] = b} = {s \in DOMAIN x.table : s \div Pow2[k] = top}
      BY <3>5, <3>7, Zenon
    <3> QED BY <3>8, Zenon DEF k, ld
  <2>4. Cardinality(Range(x.free)) = Len(x.free)
    <3>1. /\ x.free \in Seq(Nat) /\ DOMAIN x.free = 1 .. Len(x.free) /\ Len(x.free) \in Nat
          /\ \A i, j \in 1 .. Len(x.free) : x.free[i] = x.free[j] => i = j
      BY <2>1, SoundFacts DEF Sound, FreeInv
    <3>2. x.free \in [1 .. Len(x.free) -> Range(x.free)]
      BY <3>1 DEF Range
    <3>3. x.free \in Bijection(1 .. Len(x.free), Range(x.free))
      BY <3>1, <3>2 DEF Bijection, Injection, IsInjective, Surjection, Range
    <3>4. ExistsBijection(1 .. Len(x.free), Range(x.free))
      BY <3>3 DEF ExistsBijection
    <3> QED BY <3>1, <3>4, FS_CountingElements
  <2> QED BY <2>2, <2>3, <2>4, Zenon DEF TableSound, x0, x
<1> QED BY <1>1, Invariance, PTL

(* A hashed directory is never larger than its entries need: after every   *)
(* insert and removal no two buddies fit one bucket, the table is as wide  *)
(* as its deepest bucket asks for, and a directory that lost its last      *)
(* entry is not hashed any more (hashed_insert, try_merge, dir_remove).    *)
THEOREM DirectoriesShrink == Spec => []Compact
<1> DEFINE I == Inv /\ DirShrunk(dir)
<1>1. Init => I
  <2> SUFFICES ASSUME Init PROVE I
    OBVIOUS
  <2>1. dir = EmptyDir /\ Inv
    BY InitSound DEF Init
  <2>2. Listing(dir) = {} /\ dir.fmt # "hashed"
    BY <2>1, EmptyDirSound DEF EmptyDir
  <2>3. IsFiniteSet(Listing(dir))
    BY <2>2, FS_EmptySet
  <2> QED BY <2>1, <2>2, <2>3, Zenon DEF DirShrunk
<1>2. I /\ [Next]_dir => I'
  <2> SUFFICES ASSUME Inv, DirShrunk(dir), [Next]_dir PROVE I'
    OBVIOUS
  <2>1. Inv'
    BY NextStep
  <2>2. CASE Next
    <3>1. PICK n \in Names : RemoveEntry(n) \/ \E i \in Inodes : InsertEntry(n, i)
      BY <2>2, Zenon DEF Next
    <3>2. CASE RemoveEntry(n)
      <4>1. PICK e \in Find(dir, n) : dir' \in Removed(dir, e)
        BY <3>2, Zenon DEF RemoveEntry
      <4>2. DirShrunk(dir')
        BY <4>1, RemovedShrunk, Zenon DEF Inv
      <4> QED BY <2>1, <4>2
    <3>3. CASE \E i \in Inodes : InsertEntry(n, i)
      <4>1. PICK i \in Inodes : InsertEntry(n, i)
        BY <3>3
      <4> DEFINE e == <<n, i>>
      <4>2. e \in Entries /\ e[1] = n
        BY DEF Entries
      <4>3. Find(dir, e[1]) = {} /\ dir' \in Inserted(dir, e)
        BY <4>1, <4>2, Zenon DEF InsertEntry
      <4> HIDE DEF e
      <4>4. DirShrunk(dir')
        BY <4>2, <4>3, InsertedShrunk, Zenon DEF Inv
      <4> QED BY <2>1, <4>4
    <3> QED BY <3>1, <3>2, <3>3
  <2>3. CASE UNCHANGED dir
    BY <2>1, <2>3, Zenon
  <2> QED BY <2>2, <2>3
<1>3. I => Compact
  BY Zenon DEF DirShrunk, Shrunk, Deep, Compact, x0
<1> QED BY <1>1, <1>2, <1>3, PTL DEF Spec

(* Directory implements NameMap: whatever is converted, split, doubled,    *)
(* merged, halved or collapsed on the way, dir_insert adds just the one    *)
(* entry of a name that was not listed, and dir_remove removes just the    *)
(* one entry of the name it is given.                                      *)
THEOREM MapImplemented == Spec => ImplementsMap
<1>1. Inv /\ [Next]_dir => [Map!Next]_(Listing(dir))
  BY NextStep
<1> QED BY <1>1, InitSound, Invariance, PTL DEF Spec, ImplementsMap, Map!Spec


=============================================================================
