----------------------------- MODULE ResizeProof -----------------------------
(***************************************************************************)
(* Proofs about Resize, for devices, groups and calls of every number and  *)
(* size: the variables stay in their sets, and no two groups ever share a  *)
(* byte, in memory or in the map a recovery would load.                    *)
(*                                                                         *)
(* Neither is inductive.  What makes them so is where the map may differ   *)
(* from the copies on the medium (only between the step that changes it    *)
(* and the sync of both copies), that two copies of one generation are     *)
(* one map, and what the checks of add_ag and relocate still say when the  *)
(* entry they were made for is written, several steps later.               *)
(***************************************************************************)
EXTENDS Resize, FiniteSetTheorems, SequenceTheorems, TLAPS

-----------------------------------------------------------------------------
(* Numbers.  The provers have no induction; that finite sets have minimal  *)
(* subsets gives what is needed of it.                                     *)

(* A set of naturals has a least element: the interval up to it is minimal *)
(* among the intervals up to its elements.                                 *)
LEMMA LeastNumber ==
  ASSUME NEW T \in SUBSET Nat, NEW n \in T
  PROVE  \E x \in T : \A y \in T : x <= y
<1> DEFINE Upto(k) == 0 .. k
           A == 0 .. n
           D == {Upto(k) : k \in {j \in T : j <= n}}
<1>1. IsWellFoundedOn(StrictSubsetOrdering(A), FiniteSubsetsOf(A))
  BY FS_StrictSubsetOrderingWellFounded
<1>2. D \subseteq FiniteSubsetsOf(A)
  <2>1. \A k \in {j \in T : j <= n} : Upto(k) \subseteq A
    OBVIOUS
  <2>2. \A k \in {j \in T : j <= n} : IsFiniteSet(Upto(k))
    BY FS_Interval, SMT
  <2> QED BY <2>1, <2>2 DEF FiniteSubsetsOf
<1>3. D # {}
  OBVIOUS
<1> HIDE DEF A
<1>4. PICK X \in D : \A Y \in D : ~(<<Y, X>> \in StrictSubsetOrdering(A))
  <2> HIDE DEF D
  <2> QED BY <1>1, <1>2, <1>3, WFMin, Zenon
<1>5. PICK x \in T : x <= n /\ X = Upto(x)
  BY <1>4
<1>6. ASSUME NEW y \in T, y < x
      PROVE  FALSE
  <2>1. Upto(y) \in D
    BY <1>5, <1>6
  <2>2. Upto(y) \subseteq A /\ X \subseteq A
    BY <1>5, <1>6 DEF A
  <2>3. Upto(y) \subseteq X /\ Upto(y) # X
    BY <1>5, <1>6
  <2>4. <<Upto(y), X>> \in StrictSubsetOrdering(A)
    BY <2>2, <2>3, Zenon DEF StrictSubsetOrdering
  <2> QED BY <1>4, <2>1, <2>4, Zenon
<1> QED BY <1>5, <1>6

(* A bounded set of naturals has a greatest element, and MaxOf is it.      *)
LEMMA MaxOfBounded ==
  ASSUME NEW n \in Nat, NEW S \in SUBSET (0 .. n), S # {}
  PROVE  MaxOf(S) \in S /\ \A y \in S : y <= MaxOf(S)
<1> DEFINE T == {n - x : x \in S}
<1>1. T \in SUBSET Nat
  OBVIOUS
<1>2. PICK t \in T : TRUE
  OBVIOUS
<1>3. PICK m \in T : \A u \in T : m <= u
  <2> HIDE DEF T
  <2> QED BY <1>1, <1>2, LeastNumber
<1>4. PICK x \in S : m = n - x
  BY <1>3
<1>5. \A y \in S : y <= x
  <2> TAKE y \in S
  <2>1. n - y \in T
    OBVIOUS
  <2>2. m <= n - y
    <3> HIDE DEF T
    <3> QED BY <1>3, <2>1
  <2>3. x \in 0 .. n /\ y \in 0 .. n
    OBVIOUS
  <2> QED BY <1>4, <2>2, <2>3
<1> HIDE DEF T
<1> QED BY <1>5 DEF MaxOf

(* Of two, it is one and no less than either (grow's set_len).             *)
LEMMA MaxOfTwo ==
  ASSUME NEW a \in Nat, NEW b \in Nat
  PROVE  LET m == MaxOf({a, b}) IN m \in {a, b} /\ a <= m /\ b <= m
<1>1. {a, b} \in SUBSET (0 .. a + b) /\ {a, b} # {}
  OBVIOUS
<1>2. MaxOf({a, b}) \in {a, b} /\ \A y \in {a, b} : y <= MaxOf({a, b})
  BY <1>1, MaxOfBounded, a + b \in Nat
<1> QED BY <1>2

-----------------------------------------------------------------------------
(* The map *)

(* A map that may be in memory, or in a copy that is not torn.             *)
MapSet ==
  {m \in [kind : {"map"}, gen : Nat, entries : Seq(EntrySet)] :
     \A i \in DOMAIN m.entries : m.entries[i].length >= 1}

(* The groups of entries lie apart from each other, on n units.            *)
ApartOn(entries, n) ==
  /\ \A i \in Ids(entries) : BootLength <= entries[i].at /\ End(entries[i]) <= n
  /\ \A i, j \in Ids(entries) :
       i # j => End(entries[i]) <= entries[j].at \/ End(entries[j]) <= entries[i].at

(* A place where a group may go: on the device, behind AG 0, and apart     *)
(* from every group but skip.                                              *)
FreePlace(entries, at, length, skip, n) ==
  /\ at \in Nat /\ length \in Nat \ {0}
  /\ BootLength <= at /\ at + length <= n
  /\ \A i \in Ids(entries) :
       i # skip => End(entries[i]) <= at \/ at + length <= entries[i].at

LEMMA ApartSame == \A entries : Apart(entries) <=> ApartOn(entries, size)
BY DEF Apart, ApartOn

LEMMA ApartSameNext == \A entries : Apart(entries)' <=> ApartOn(entries', size')
BY DEF Apart, ApartOn

LEMMA EntryFacts ==
  ASSUME NEW m \in MapSet
  PROVE  /\ m.kind = "map" /\ m.gen \in Nat /\ m.entries \in Seq(EntrySet)
         /\ Len(m.entries) \in Nat /\ DOMAIN m.entries = 1 .. Len(m.entries)
         /\ Ids(m.entries) \subseteq DOMAIN m.entries
         /\ \A i \in DOMAIN m.entries :
              /\ m.entries[i] \in EntrySet
              /\ m.entries[i].present \in BOOLEAN
              /\ m.entries[i].at \in 0 .. MaxSize
              /\ m.entries[i].length \in Nat \ {0}
              /\ End(m.entries[i]) \in Nat
<1>1. m.kind = "map" /\ m.gen \in Nat /\ m.entries \in Seq(EntrySet)
  BY DEF MapSet
<1>2. Len(m.entries) \in Nat /\ DOMAIN m.entries = 1 .. Len(m.entries)
  BY <1>1, LenProperties
<1>3. Ids(m.entries) \subseteq DOMAIN m.entries
  BY DEF Ids
<1>4. ASSUME NEW i \in DOMAIN m.entries
      PROVE  /\ m.entries[i] \in EntrySet
             /\ m.entries[i].present \in BOOLEAN
             /\ m.entries[i].at \in 0 .. MaxSize
             /\ m.entries[i].length \in Nat \ {0}
             /\ End(m.entries[i]) \in Nat
  <2>1. m.entries[i] \in EntrySet
    BY <1>1, <1>2, ElementOfSeq
  <2>2. m.entries[i].length >= 1
    BY DEF MapSet
  <2> QED BY <2>1, <2>2, SizeAssumption DEF EntrySet, End
<1> QED BY <1>1, <1>2, <1>3, <1>4

(* overlaps_excluding answers no exactly for a place that is free.         *)
LEMMA OverlapsFacts ==
  ASSUME NEW m \in MapSet, NEW at \in Nat, NEW length \in Nat \ {0}, NEW skip,
         NEW n \in Nat, at + length <= n, ~Overlaps(m.entries, at, length, skip)
  PROVE  FreePlace(m.entries, at, length, skip, n)
BY EntryFacts, SizeAssumption DEF Overlaps, FreePlace

-----------------------------------------------------------------------------
(* The end of the last group, and the gaps before it                       *)

(* MappedEnd is behind AG 0 and every group, and on the device (grow adds  *)
(* a group there).                                                         *)
LEMMA MappedEndFacts ==
  ASSUME NEW m \in MapSet, NEW n \in Nat, BootLength <= n, ApartOn(m.entries, n)
  PROVE  /\ MappedEnd(m.entries) \in BootLength .. n
         /\ \A i \in Ids(m.entries) : End(m.entries[i]) <= MappedEnd(m.entries)
<1> DEFINE S == {s[2] : s \in Segments(m.entries)}
<1>1. BootLength \in S
  <2>1. <<0, BootLength>> \in Segments(m.entries) /\ BootLength = <<0, BootLength>>[2]
    BY DEF Segments
  <2> QED BY <2>1
<1>2. \A i \in Ids(m.entries) : End(m.entries[i]) \in S
  <2> TAKE i \in Ids(m.entries)
  <2> DEFINE s == <<m.entries[i].at, End(m.entries[i])>>
  <2>1. s \in Segments(m.entries) /\ End(m.entries[i]) = s[2]
    BY DEF Segments
  <2> QED BY <2>1
<1>3. S \in SUBSET (0 .. n)
  <2> SUFFICES ASSUME NEW s \in Segments(m.entries) PROVE s[2] \in 0 .. n
    OBVIOUS
  <2>1. CASE s = <<0, BootLength>>
    BY <2>1, SizeAssumption
  <2>2. ASSUME NEW i \in Ids(m.entries), s = <<m.entries[i].at, End(m.entries[i])>>
        PROVE  s[2] \in 0 .. n
    <3>1. End(m.entries[i]) \in Nat /\ End(m.entries[i]) <= n
      BY EntryFacts DEF ApartOn
    <3> QED BY <3>1, <2>2
  <2> QED BY <2>1, <2>2 DEF Segments
<1>4. MappedEnd(m.entries) = MaxOf(S)
  BY DEF MappedEnd
<1> HIDE DEF S
<1>5. MaxOf(S) \in S /\ \A y \in S : y <= MaxOf(S)
  BY <1>1, <1>3, MaxOfBounded
<1>6. MaxOf(S) \in 0 .. n
  BY <1>3, <1>5
<1>7. BootLength <= MaxOf(S)
  BY <1>1, <1>5
<1>8. \A i \in Ids(m.entries) : End(m.entries[i]) <= MaxOf(S)
  BY <1>2, <1>5
<1> QED BY <1>4, <1>6, <1>7, <1>8, SizeAssumption

LEMMA SegmentFacts ==
  ASSUME NEW m \in MapSet, NEW n \in Nat, BootLength <= n, ApartOn(m.entries, n),
         NEW t \in Segments(m.entries)
  PROVE  t[1] \in Nat /\ t[2] \in 0 .. n
<1>1. CASE t = <<0, BootLength>>
  BY <1>1, SizeAssumption
<1>2. ASSUME NEW i \in Ids(m.entries), t = <<m.entries[i].at, End(m.entries[i])>>
      PROVE  t[1] \in Nat /\ t[2] \in 0 .. n
  <2>1. m.entries[i].at \in Nat /\ End(m.entries[i]) \in Nat /\ End(m.entries[i]) <= n
    BY SizeAssumption, EntryFacts DEF ApartOn
  <2> QED BY <2>1, <1>2
<1> QED BY <1>1, <1>2 DEF Segments

(* find_gap's cursor when it reaches segment s, and the segments it would  *)
(* stop at.                                                                *)
Cursor(entries, s) ==
  MaxOf({0} \cup {t[2] : t \in {u \in Segments(entries) : u[1] < s[1]}})
Roomy(entries, length, below) ==
  {s \in Segments(entries) :
     /\ s[1] > Cursor(entries, s)
     /\ Least(s[1], below) - Cursor(entries, s) >= length}

LEMMA CursorFacts ==
  ASSUME NEW m \in MapSet, NEW n \in Nat, BootLength <= n, ApartOn(m.entries, n), NEW s
  PROVE  /\ Cursor(m.entries, s) \in 0 .. n
         /\ \A t \in Segments(m.entries) : t[1] < s[1] => t[2] <= Cursor(m.entries, s)
         /\ \/ Cursor(m.entries, s) = 0
            \/ \E t \in Segments(m.entries) : t[1] < s[1] /\ Cursor(m.entries, s) = t[2]
<1> DEFINE before == {u \in Segments(m.entries) : u[1] < s[1]}
           ends == {0} \cup {t[2] : t \in before}
<1>1. ends \in SUBSET (0 .. n) /\ ends # {}
  BY SegmentFacts
<1>2. Cursor(m.entries, s) = MaxOf(ends)
  BY DEF Cursor
<1>3. \A t \in before : t[2] \in ends
  OBVIOUS
<1>4. \A y \in ends : y = 0 \/ \E t \in before : y = t[2]
  OBVIOUS
<1> HIDE DEF ends
<1>5. MaxOf(ends) \in ends /\ \A y \in ends : y <= MaxOf(ends)
  BY <1>1, MaxOfBounded
<1> QED BY <1>1, <1>2, <1>3, <1>4, <1>5

(* find_gap returns the cursor at a segment with room before it, the end   *)
(* of the last segment, or nothing.                                        *)
LEMMA FindGapCases ==
  ASSUME NEW m \in MapSet, NEW n \in Nat, BootLength <= n, ApartOn(m.entries, n),
         NEW length, NEW below
  PROVE  LET g == FindGap(m.entries, length, below)
             roomy == Roomy(m.entries, length, below)
             last == MappedEnd(m.entries) IN
         /\ roomy # {} => \E s \in roomy : g = Cursor(m.entries, s)
         /\ roomy = {} /\ below - last >= length => g = last
         /\ roomy = {} /\ ~(below - last >= length) => g = NoGap
<1> DEFINE roomy == Roomy(m.entries, length, below)
           last == MappedEnd(m.entries)
           first == CHOOSE s \in roomy : \A t \in roomy : s[1] <= t[1]
<1>1. FindGap(m.entries, length, below) =
        CASE roomy # {} -> Cursor(m.entries, first)
          [] roomy = {} /\ below - last >= length -> last
          [] OTHER -> NoGap
  BY DEF FindGap, Roomy, Cursor
<1>2. ASSUME roomy # {} PROVE first \in roomy
  <2> DEFINE starts == {s[1] : s \in roomy}
  <2>1. \A s \in roomy : s[1] \in Nat
    BY SegmentFacts DEF Roomy
  <2>2. \A s \in roomy : s[1] \in starts
    OBVIOUS
  <2> HIDE DEF roomy
  <2>3. starts \in SUBSET Nat /\ starts # {}
    BY <1>2, <2>1
  <2>4. PICK x \in starts : \A y \in starts : x <= y
    <3> HIDE DEF starts
    <3> QED BY <2>3, LeastNumber
  <2>5. PICK s \in roomy : s[1] = x
    BY <2>4
  <2>6. \A t \in roomy : s[1] <= t[1]
    BY <2>2, <2>4, <2>5
  <2> QED BY <2>5, <2>6
<1> HIDE DEF roomy, last, first
<1> QED BY <1>1, <1>2 DEF roomy, last

(* What find_gap returns is a number of units. *)
LEMMA FindGapNumber ==
  ASSUME NEW m \in MapSet, NEW n \in Nat, BootLength <= n, ApartOn(m.entries, n),
         NEW length, NEW below
  PROVE  FindGap(m.entries, length, below) \in Nat
<1>1. MappedEnd(m.entries) \in Nat
  BY MappedEndFacts, SizeAssumption
<1>2. NoGap \in Nat
  BY SizeAssumption DEF NoGap
<1>3. \A s : Cursor(m.entries, s) \in Nat
  BY CursorFacts
<1> QED BY <1>1, <1>2, <1>3, FindGapCases

(* It lies between the groups and ends below the limit.                    *)
LEMMA GapFits ==
  ASSUME NEW m \in MapSet, NEW n \in Nat, BootLength <= n, n <= MaxSize, ApartOn(m.entries, n),
         NEW length \in Nat \ {0}, NEW below \in 0 .. n,
         FindGap(m.entries, length, below) # NoGap
  PROVE  LET g == FindGap(m.entries, length, below) IN
         g + length <= below /\ ~Overlaps(m.entries, g, length, 0 - 1)
<1> DEFINE g == FindGap(m.entries, length, below)
           last == MappedEnd(m.entries)
<1>1. \A i \in Ids(m.entries) :
        /\ m.entries[i].at \in Nat /\ End(m.entries[i]) \in Nat
        /\ <<m.entries[i].at, End(m.entries[i])>> \in Segments(m.entries)
  BY SizeAssumption, EntryFacts DEF Segments
<1>2. <<0, BootLength>> \in Segments(m.entries) /\ BootLength \in Nat \ {0}
  BY SizeAssumption DEF Segments
<1>3. ASSUME NEW s \in Roomy(m.entries, length, below), g = Cursor(m.entries, s)
      PROVE  g + length <= below /\ ~Overlaps(m.entries, g, length, 0 - 1)
  <2>1. /\ s \in Segments(m.entries) /\ s[1] \in Nat
        /\ s[1] > g /\ Least(s[1], below) - g >= length
    BY <1>3, SegmentFacts DEF Roomy
  <2>2. g \in Nat /\ \A t \in Segments(m.entries) : t[1] < s[1] => t[2] <= g
    BY <1>3, CursorFacts
  <2> HIDE DEF g
  <2>3. g + length <= below /\ g + length <= s[1]
    BY <2>1, <2>2 DEF Least
  <2>4. BootLength <= g
    <3>1. 0 < s[1]
      BY <2>1, <2>2
    <3> QED BY <1>2, <2>2, <3>1
  <2>5. ASSUME NEW i \in Ids(m.entries)
        PROVE  ~(g < End(m.entries[i]) /\ m.entries[i].at < g + length)
    <3> DEFINE at == m.entries[i].at
               end == End(m.entries[i])
    <3>1. at \in Nat /\ end \in Nat
      BY <1>1
    <3>2. at < s[1] => end <= g
      <4> DEFINE t == <<at, end>>
      <4>1. t \in Segments(m.entries) /\ t[1] = at /\ t[2] = end
        BY <1>1
      <4> HIDE DEF t
      <4> QED BY <2>2, <4>1
    <3> HIDE DEF at, end
    <3>3. ~(g < end /\ at < g + length)
      BY <2>1, <2>2, <2>3, <3>1, <3>2
    <3> QED BY <3>3 DEF at, end
  <2> QED BY <1>2, <2>2, <2>3, <2>4, <2>5 DEF Overlaps
<1>4. ASSUME g = last, below - last >= length
      PROVE  g + length <= below /\ ~Overlaps(m.entries, g, length, 0 - 1)
  <2>1. last \in BootLength .. n /\ \A i \in Ids(m.entries) : End(m.entries[i]) <= last
    BY MappedEndFacts
  <2> HIDE DEF g, last
  <2>2. g \in Nat /\ BootLength <= g /\ g + length <= below
    BY <1>2, <1>4, <2>1
  <2>3. \A i \in Ids(m.entries) : ~(g < End(m.entries[i]))
    <3> TAKE i \in Ids(m.entries)
    <3> DEFINE end == End(m.entries[i])
    <3>1. end \in Nat /\ end <= g
      BY <1>1, <1>4, <2>1
    <3> HIDE DEF end
    <3>2. ~(g < end)
      BY <2>2, <3>1
    <3> QED BY <3>2 DEF end
  <2> QED BY <1>2, <2>2, <2>3 DEF Overlaps
<1> HIDE DEF last
<1> QED BY <1>3, <1>4, FindGapCases DEF last

(* And if it returns nothing, nothing fits: before the first group behind  *)
(* a place that fits, or behind the last group, it would have stopped.     *)
LEMMA GapFound ==
  ASSUME NEW m \in MapSet, NEW n \in Nat, BootLength <= n, n <= MaxSize, ApartOn(m.entries, n),
         NEW length \in Nat \ {0}, NEW below \in 0 .. n,
         NEW p \in 0 .. n, p + length <= below, ~Overlaps(m.entries, p, length, 0 - 1)
  PROVE  FindGap(m.entries, length, below) # NoGap
<1> DEFINE behind == {t \in Segments(m.entries) : t[1] >= p + length}
           last == MappedEnd(m.entries)
<1>1. FreePlace(m.entries, p, length, 0 - 1, n)
  BY OverlapsFacts
<1>2. \A t \in Segments(m.entries) : t[1] \in Nat /\ t[2] \in 0 .. n /\ (t[2] <= p \/ t \in behind)
  <2> TAKE t \in Segments(m.entries)
  <2>1. t[1] \in Nat /\ t[2] \in 0 .. n
    BY SegmentFacts
  <2>2. CASE t = <<0, BootLength>>
    BY <1>1, <2>1, <2>2 DEF FreePlace
  <2>3. ASSUME NEW i \in Ids(m.entries), t = <<m.entries[i].at, End(m.entries[i])>>
        PROVE  t[2] <= p \/ t \in behind
    <3>1. i # 0 - 1
      <4>1. i \in 1 .. Len(m.entries) /\ Len(m.entries) \in Nat
        BY EntryFacts
      <4> QED BY <4>1
    <3>2. End(m.entries[i]) <= p \/ p + length <= m.entries[i].at
      BY <1>1, <3>1 DEF FreePlace
    <3>3. m.entries[i].at \in Nat
      BY SizeAssumption, EntryFacts
    <3> QED BY <2>3, <3>2, <3>3
  <2> QED BY <2>1, <2>2, <2>3 DEF Segments
<1>3. Roomy(m.entries, length, below) # {} \/ below - last >= length
  <2>1. CASE behind = {}
    <3>1. \A t \in Segments(m.entries) : t[2] \in 0 .. p
      BY <1>2, <2>1
    <3>2. last \in 0 .. p
      <4> DEFINE ends == {t[2] : t \in Segments(m.entries)}
      <4>1. ends \in SUBSET (0 .. p) /\ ends # {}
        BY <3>1 DEF Segments
      <4>2. last = MaxOf(ends)
        BY DEF MappedEnd
      <4>3. p \in Nat
        OBVIOUS
      <4> HIDE DEF ends, last
      <4>4. MaxOf(ends) \in ends
        BY <4>1, <4>3, MaxOfBounded
      <4> QED BY <4>1, <4>2, <4>4
    <3> HIDE DEF last
    <3> QED BY <3>2
  <2>2. CASE behind # {}
    <3> DEFINE starts == {t[1] : t \in behind}
    <3>1. \A t \in behind : t[1] \in starts
      OBVIOUS
    <3>2. starts \in SUBSET Nat /\ starts # {}
      BY <1>2, <2>2
    <3>3. PICK x \in starts : \A y \in starts : x <= y
      <4> HIDE DEF starts
      <4> QED BY <3>2, LeastNumber
    <3>4. PICK s \in behind : s[1] = x
      BY <3>3
    <3>5. \A t \in Segments(m.entries) : t[1] < s[1] => t[2] <= p
      <4> TAKE t \in Segments(m.entries)
      <4> HAVE t[1] < s[1]
      <4>1. t \in behind => s[1] <= t[1]
        BY <3>1, <3>3, <3>4
      <4>2. t[1] \in Nat /\ s[1] \in Nat
        BY <1>2, <3>4
      <4> QED BY <1>2, <4>1, <4>2
    <3> DEFINE c == Cursor(m.entries, s)
    <3>6. c \in 0 .. n /\ (c = 0 \/ \E t \in Segments(m.entries) : t[1] < s[1] /\ c = t[2])
      BY CursorFacts
    <3> HIDE DEF c
    <3>7. c <= p
      BY <3>5, <3>6
    <3>8. s[1] \in Nat /\ s[1] >= p + length
      BY <1>2, <3>4
    <3>9. s[1] > c /\ Least(s[1], below) - c >= length
      BY <3>6, <3>7, <3>8 DEF Least
    <3> QED BY <3>4, <3>9 DEF Roomy, c
  <2> QED BY <2>1, <2>2
<1>4. \A s : Cursor(m.entries, s) # NoGap
  BY CursorFacts, SizeAssumption DEF NoGap
<1>5. last # NoGap
  <2>1. last \in BootLength .. n
    BY MappedEndFacts
  <2> HIDE DEF last
  <2> QED BY <2>1, SizeAssumption DEF NoGap
<1> HIDE DEF last
<1> QED BY <1>3, <1>4, <1>5, FindGapCases DEF last

-----------------------------------------------------------------------------
(* What the medium holds                                                   *)

MapCopies == {MapCopy(0), MapCopy(1)}
SbCopies == {Primary, Backup}
SbSet == [kind : {"sb"}, gen : Nat, nextAg : Nat, seq : Nat]

(* One of the copies of the map is whole, and two of one generation are    *)
(* the same map.                                                           *)
CopiesSound(img) ==
  /\ \A l \in MapCopies : img[l] \in MapSet \cup {Torn}
  /\ MapFound(img)
  /\ \A k, l \in MapCopies :
       img[k].kind = "map" /\ img[l].kind = "map" /\ img[k].gen = img[l].gen
         => img[k] = img[l]

LEMMA Locations ==
  /\ MapCopies \subseteq Loc /\ SbCopies \subseteq Loc
  /\ MapCopies \cap SbCopies = {}
  /\ Log \in Loc /\ Log \notin MapCopies \cup SbCopies
  /\ \A i : P(i) \notin MapCopies \cup SbCopies
  /\ \A i : P(i) # Log
  /\ \A i \in Units : P(i) \in Loc
  /\ \A i, j : P(i) = P(j) => i = j
BY DEF MapCopies, SbCopies, Loc, MapCopy, Primary, Backup, Log, P

LEMMA TornFacts == Torn \notin MapSet /\ Torn.kind # "map" /\ Torn.kind # "sb"
BY DEF Torn, MapSet

(* load_agmap returns one of the copies, and no copy is newer.             *)
LEMMA LoadFacts ==
  ASSUME NEW img, CopiesSound(img)
  PROVE  /\ LoadAgmap(img) \in MapSet
         /\ \E l \in MapCopies : img[l].kind = "map" /\ LoadAgmap(img) = img[l]
         /\ \A l \in MapCopies :
              img[l].kind = "map" =>
                /\ img[l] \in MapSet /\ img[l].gen <= LoadAgmap(img).gen
                /\ img[l].gen = LoadAgmap(img).gen => img[l] = LoadAgmap(img)
<1> DEFINE a == img[MapCopy(0)]
           b == img[MapCopy(1)]
<1>1. \A l \in MapCopies : img[l].kind = "map" => img[l] \in MapSet /\ img[l].gen \in Nat
  BY TornFacts, EntryFacts DEF CopiesSound
<1>2. MapCopy(0) \in MapCopies /\ MapCopy(1) \in MapCopies
  BY DEF MapCopies
<1>3. a.kind = "map" \/ b.kind = "map"
  BY DEF CopiesSound, MapFound
<1>4. LoadAgmap(img) = IF a.kind # "map" \/ (b.kind = "map" /\ b.gen > a.gen) THEN b ELSE a
  BY DEF LoadAgmap
<1>5. a.kind = "map" /\ b.kind = "map" /\ a.gen = b.gen => a = b
  BY <1>2 DEF CopiesSound
<1>6. \A l \in MapCopies : img[l] = a \/ img[l] = b
  BY DEF MapCopies
<1>7. (a.kind = "map" => a \in MapSet /\ a.gen \in Nat) /\ (b.kind = "map" => b \in MapSet /\ b.gen \in Nat)
  BY <1>1, <1>2
<1> DEFINE d == LoadAgmap(img)
<1>8. d.kind = "map" /\ (d = a \/ d = b)
  BY <1>3, <1>4
<1>9. (a.kind = "map" => a.gen <= d.gen /\ (a.gen = d.gen => a = d))
      /\ (b.kind = "map" => b.gen <= d.gen /\ (b.gen = d.gen => b = d))
  <2> HIDE DEF a, b, d
  <2> QED BY <1>3, <1>4, <1>5, <1>7 DEF d
<1> HIDE DEF a, b, d
<1>10. d \in MapSet
  BY <1>7, <1>8
<1>11. \E l \in MapCopies : img[l].kind = "map" /\ d = img[l]
  BY <1>2, <1>8 DEF a, b
<1>12. \A l \in MapCopies : img[l].kind = "map" =>
         img[l] \in MapSet /\ img[l].gen <= d.gen /\ (img[l].gen = d.gen => img[l] = d)
  BY <1>6, <1>7, <1>9
<1> QED BY <1>10, <1>11, <1>12 DEF d

LEMMA LoadSame ==
  ASSUME NEW img, NEW other, \A l \in MapCopies : img[l] = other[l]
  PROVE  LoadAgmap(img) = LoadAgmap(other) /\ (CopiesSound(other) => CopiesSound(img))
<1>1. img[MapCopy(0)] = other[MapCopy(0)] /\ img[MapCopy(1)] = other[MapCopy(1)]
  BY DEF MapCopies
<1> QED BY <1>1 DEF LoadAgmap, CopiesSound, MapFound

-----------------------------------------------------------------------------
(* The invariant                                                           *)

OpSet == [kind : {"none", "add", "relocate", "retire"},
          ag : Nat, at : Nat, length : Nat, done : Nat]

(* The values of the device: what TypeOK says, and superblocks where       *)
(* superblocks belong.                                                     *)
DeviceInv ==
  /\ DOMAIN durable = Loc /\ DOMAIN cache = Loc
  /\ \A p \in pending : p[1] \in Loc
  /\ \A l \in SbCopies : durable[l] \in SbSet \cup {Torn} /\ cache[l] \in SbSet \cup {Torn}
  /\ \A p \in pending : p[1] \in SbCopies => p[2] \in SbSet

(* The values in memory. *)
MemoryInv ==
  /\ pc \in Phases
  /\ size \in BootLength .. MaxSize
  /\ sb \in SbSet /\ map \in MapSet /\ op \in OpSet
  /\ limit \in BootLength .. NoLimit
  /\ ops \in 0 .. MaxOps /\ cuts \in 0 .. MaxCuts /\ torn \in 0 .. MaxTorn

Recorded == LoadAgmap(durable)
Stable == {"replay", "idle", "addSync", "copy", "copySync", "shrink"}

(* The map in memory is the one on the medium, but from the step that      *)
(* changes it (writeMap) to the sync of its copies (mapSync), which are    *)
(* newer than all on the medium; and all of them keep the groups apart.    *)
MapInv ==
  /\ CopiesSound(durable)
  /\ ApartOn(Recorded.entries, size)
  /\ pc = "down" => map = NoMap
  /\ pc \in Stable => map = Recorded
  /\ pc \in {"writeMap", "mapSync"} => ApartOn(map.entries, size)
  /\ pc = "writeMap" => map.gen = Recorded.gen
  /\ pc = "mapSync" =>
       /\ map.gen = Recorded.gen + 1
       /\ \A l \in MapCopies : cache[l] = map
       /\ \A p \in pending : p[1] \in MapCopies => p[2] = map
  /\ pc # "mapSync" =>
       /\ \A l \in MapCopies : cache[l] = durable[l]
       /\ \A p \in pending : p[1] \notin MapCopies

(* What the checks of add_ag and relocate established still holds when the *)
(* entry is written; shrink's loop has a size to reach.                    *)
OpInv ==
  /\ pc = "addSync" => FreePlace(map.entries, op.at, op.length, 0 - 1, size)
  /\ pc \in {"copy", "copySync"} =>
       /\ op.ag \in Ids(map.entries)
       /\ op.length = map.entries[op.ag].length
       /\ FreePlace(map.entries, op.at, op.length, op.ag, size)
  /\ pc = "copy" => op.done < op.length
  /\ pc = "shrink" => limit # NoLimit

IInv == DeviceInv /\ MemoryInv /\ MapInv /\ OpInv

-----------------------------------------------------------------------------
(* Writes that leave the copies of the map alone                           *)

LeavesMap ==
  /\ \A l \in MapCopies : durable'[l] = durable[l] /\ cache'[l] = durable[l]
  /\ \A p \in pending' : p[1] \notin MapCopies

LEMMA OverlayFacts ==
  ASSUME NEW img, NEW ws
  PROVE  /\ DOMAIN Overlay(img, ws) = DOMAIN img
         /\ \A l \in DOMAIN img : l \in DOMAIN ws => Overlay(img, ws)[l] = ws[l]
         /\ \A l \in DOMAIN img : l \notin DOMAIN ws => Overlay(img, ws)[l] = img[l]
BY DEF Overlay

LEMMA MapWritten ==
  ASSUME MapInv, pc # "mapSync"
  PROVE  /\ \A l \in MapCopies : cache[l] = durable[l]
         /\ \A p \in pending : p[1] \notin MapCopies
BY DEF MapInv

LEMMA DeviceSame ==
  ASSUME DeviceInv, MapInv, pc # "mapSync", UNCHANGED deviceVars
  PROVE  DeviceInv' /\ LeavesMap
<1>1. durable' = durable /\ cache' = cache /\ pending' = pending
  BY DEF deviceVars
<1>2. DeviceInv'
  BY <1>1 DEF DeviceInv
<1> QED BY <1>1, <1>2, MapWritten DEF LeavesMap

(* A header or a unit of a copied group. *)
LEMMA UnitWrite ==
  ASSUME DeviceInv, MapInv, pc # "mapSync",
         NEW u \in Units, NEW ws, DOMAIN ws = {P(u)}, Pwrite(ws)
  PROVE  DeviceInv' /\ LeavesMap
<1>1. P(u) \in Loc /\ P(u) \notin MapCopies /\ P(u) \notin SbCopies
  BY Locations
<1>2. cache' = Overlay(cache, ws) /\ durable' = durable
      /\ pending' = pending \cup {<<P(u), ws[P(u)]>>}
  BY DEF Pwrite
<1>3. \A l \in Loc : l # P(u) => cache'[l] = cache[l]
  BY <1>2, OverlayFacts DEF DeviceInv
<1>4. DOMAIN cache' = Loc
  BY <1>2, OverlayFacts DEF DeviceInv
<1>5. \A p \in pending' : p \in pending \/ p[1] = P(u)
  BY <1>2
<1>6. DeviceInv'
  BY <1>1, <1>2, <1>3, <1>4, <1>5, Locations DEF DeviceInv
<1>7. \A l \in MapCopies : durable'[l] = durable[l] /\ cache'[l] = durable[l]
  BY <1>1, <1>2, <1>3, MapWritten, Locations
<1>8. \A p \in pending' : p[1] \notin MapCopies
  BY <1>1, <1>5, MapWritten
<1> QED BY <1>6, <1>7, <1>8 DEF LeavesMap

(* The superblocks (open heals them). *)
LEMMA SuperblockWrite ==
  ASSUME DeviceInv, MapInv, pc # "mapSync",
         NEW s \in SbSet, Pwrite(SuperblockWrites(s))
  PROVE  DeviceInv' /\ LeavesMap
<1> DEFINE ws == SuperblockWrites(s)
<1>1. DOMAIN ws = SbCopies /\ \A l \in SbCopies : ws[l] = s
  BY DEF SuperblockWrites, SbCopies
<1>2. cache' = Overlay(cache, ws) /\ durable' = durable
      /\ pending' = pending \cup {<<l, ws[l]>> : l \in SbCopies}
  BY <1>1 DEF Pwrite
<1> HIDE DEF ws
<1>3. \A l \in Loc : l \notin SbCopies => cache'[l] = cache[l]
  BY <1>1, <1>2, OverlayFacts DEF DeviceInv
<1>4. DOMAIN cache' = Loc /\ \A l \in SbCopies : cache'[l] = s
  BY <1>1, <1>2, OverlayFacts, Locations DEF DeviceInv
<1>5. \A p \in pending' : p \in pending \/ (p[1] \in SbCopies /\ p[2] = s)
  BY <1>1, <1>2
<1>6. DeviceInv'
  BY <1>2, <1>4, <1>5, Locations DEF DeviceInv
<1>7. \A l \in MapCopies : durable'[l] = durable[l] /\ cache'[l] = durable[l]
  BY <1>2, <1>3, MapWritten, Locations
<1>8. \A p \in pending' : p[1] \notin MapCopies
  BY <1>5, MapWritten, Locations
<1> QED BY <1>6, <1>7, <1>8 DEF LeavesMap

(* commit and replay: the blocks of a group and the log, then the          *)
(* superblocks.                                                            *)
LEMMA CheckpointedKept ==
  ASSUME DeviceInv, MapInv, pc # "mapSync",
         NEW ws, DOMAIN ws \cap (MapCopies \cup SbCopies) = {},
         NEW s \in SbSet, Checkpointed(ws, s)
  PROVE  DeviceInv' /\ LeavesMap
<1> DEFINE us == SuperblockWrites(s)
<1>1. DOMAIN us = SbCopies /\ \A l \in SbCopies : us[l] = s
  BY DEF SuperblockWrites, SbCopies
<1>2. /\ durable' = Overlay(cache, ws)
      /\ cache' = Overlay(durable', us)
      /\ pending' = {<<l, s>> : l \in SbCopies}
  BY DEF Checkpointed, SbCopies
<1> HIDE DEF us
<1>3. DOMAIN durable' = Loc /\ \A l \in MapCopies \cup SbCopies : durable'[l] = cache[l]
  BY <1>2, OverlayFacts, Locations DEF DeviceInv
<1>4. /\ DOMAIN cache' = Loc
      /\ \A l \in SbCopies : cache'[l] = s
      /\ \A l \in MapCopies : cache'[l] = durable'[l]
  BY <1>1, <1>2, <1>3, OverlayFacts, Locations
<1>5. \A p \in pending' : p[1] \in SbCopies /\ p[2] = s
  BY <1>2
<1>6. DeviceInv'
  BY <1>3, <1>4, <1>5, Locations DEF DeviceInv
<1>7. \A l \in MapCopies : durable'[l] = durable[l] /\ cache'[l] = durable[l]
  BY <1>3, <1>4, MapWritten
<1>8. \A p \in pending' : p[1] \notin MapCopies
  BY <1>5, Locations
<1> QED BY <1>6, <1>7, <1>8 DEF LeavesMap

LEMMA SyncKept ==
  ASSUME DeviceInv, Sync
  PROVE  DeviceInv' /\ (MapInv /\ pc # "mapSync" => LeavesMap)
<1>1. durable' = cache /\ pending' = {} /\ cache' = cache
  BY DEF Sync
<1>2. DeviceInv'
  BY <1>1 DEF DeviceInv
<1> QED BY <1>1, <1>2, MapWritten DEF LeavesMap

(* A step that leaves the copies alone and the map on the medium in memory *)
(* keeps what is known of the map.                                         *)
LEMMA MapStays ==
  ASSUME MapInv, LeavesMap, map' = Recorded, pc' \in Stable,
         ApartOn(Recorded.entries, size')
  PROVE  MapInv'
<1>1. \A l \in MapCopies : durable'[l] = durable[l]
  BY DEF LeavesMap
<1>2. Recorded' = Recorded /\ CopiesSound(durable)'
  BY <1>1, LoadSame DEF Recorded, MapInv
<1>3. \A l \in MapCopies : cache'[l] = durable'[l]
  BY DEF LeavesMap
<1>4. \A p \in pending' : p[1] \notin MapCopies
  BY DEF LeavesMap
<1>5. pc' \notin {"down", "writeMap", "mapSync"}
  BY DEF Stable
<1> QED BY <1>2, <1>3, <1>4, <1>5 DEF MapInv

-----------------------------------------------------------------------------
(* The steps                                                               *)

LEMMA InMemory ==
  ASSUME IInv
  PROVE  /\ MaxSize \in Nat /\ BootLength \in Nat \ {0}
         /\ size \in Nat /\ BootLength <= size /\ size <= MaxSize
         /\ map \in MapSet /\ sb \in SbSet /\ op \in OpSet
         /\ sb.gen \in Nat /\ sb.nextAg \in Nat /\ sb.seq \in Nat /\ sb.kind = "sb"
         /\ NextSuperblock \in SbSet
         /\ [NextSuperblock EXCEPT !.seq = @ + 1] \in SbSet
         /\ NoOp \in OpSet
         /\ pc \in Stable => map = Recorded /\ ApartOn(map.entries, size)
<1>1. MemoryInv
  BY DEF IInv
<1>2. MaxSize \in Nat /\ BootLength \in Nat \ {0} /\ size \in BootLength .. MaxSize
  BY <1>1, SizeAssumption DEF MemoryInv
<1>3. map \in MapSet /\ sb \in SbSet /\ op \in OpSet
  BY <1>1 DEF MemoryInv
<1>4. sb.gen \in Nat /\ sb.nextAg \in Nat /\ sb.seq \in Nat /\ sb.kind = "sb"
  BY <1>3 DEF SbSet
<1>5. NextSuperblock \in SbSet /\ [NextSuperblock EXCEPT !.seq = @ + 1] \in SbSet
  <2>1. \A s \in SbSet : [s EXCEPT !.gen = @ + 1] \in SbSet
    BY DEF SbSet
  <2>2. \A s \in SbSet : [s EXCEPT !.seq = @ + 1] \in SbSet
    BY DEF SbSet
  <2>3. NextSuperblock \in SbSet
    BY <1>3, <2>1 DEF NextSuperblock
  <2> QED BY <2>2, <2>3
<1>6. NoOp \in OpSet
  BY DEF OpSet, NoOp
<1>7. pc \in Stable => map = Recorded /\ ApartOn(map.entries, size)
  BY DEF IInv, MapInv
<1> QED BY <1>2, <1>3, <1>4, <1>5, <1>6, <1>7

LEMMA OpenStep == ASSUME IInv, Open PROVE IInv'
<1>1. pc = "down" /\ pc' = "replay" /\ SuperblockFound(cache)
      /\ map' = LoadAgmap(cache) /\ UNCHANGED <<size, op, limit, intent, ops, faultVars>>
  BY DEF Open
<1>2. map' = Recorded
  BY <1>1, LoadSame DEF IInv, MapInv, Recorded
<1> DEFINE s == LoadSuperblock(cache)
           healed == [s EXCEPT !.gen = @ + 1]
<1>3. s \in SbSet
  <2>1. \A l \in SbCopies : cache[l].kind = "sb" => cache[l] \in SbSet
    BY TornFacts DEF IInv, DeviceInv
  <2> QED BY <1>1, <2>1 DEF SuperblockFound, LoadSuperblock, SbCopies
<1>4. healed \in SbSet
  BY <1>3 DEF SbSet
<1>5. \/ sb' = s /\ UNCHANGED deviceVars
      \/ sb' = healed /\ Pwrite(SuperblockWrites(healed))
  BY DEF Open
<1> HIDE DEF s, healed
<1>6. sb' \in SbSet
  BY <1>3, <1>4, <1>5
<1>7. DeviceInv' /\ LeavesMap
  BY <1>1, <1>4, <1>5, DeviceSame, SuperblockWrite DEF IInv
<1>8. ApartOn(Recorded.entries, size')
  BY <1>1 DEF IInv, MapInv
<1>9. MapInv'
  BY <1>1, <1>2, <1>7, <1>8, MapStays DEF IInv, Stable
<1>10. map' \in MapSet
  BY <1>2, LoadFacts DEF IInv, MapInv, Recorded
<1>11. MemoryInv'
  BY <1>1, <1>6, <1>10 DEF IInv, MemoryInv, Phases, faultVars
<1> QED BY <1>1, <1>7, <1>9, <1>11 DEF IInv, OpInv

LEMMA ReplayStep == ASSUME IInv, Replay PROVE IInv'
<1>1. pc = "replay" /\ pc' = "idle" /\ op' = NoOp /\ UNCHANGED <<size, map, limit, ops, faultVars>>
  BY DEF Replay
<1> DEFINE t == cache[Log]
           s == [NextSuperblock EXCEPT !.seq = @ + 1]
           ws == HeaderWrite(t.ag, t.full)
<1>2. DOMAIN ws \cap (MapCopies \cup SbCopies) = {}
  BY Locations DEF HeaderWrite
<1>3. \/ Checkpointed(ws, s)
      \/ UNCHANGED <<deviceVars, sb>>
  BY DEF Replay
<1>4. s \in SbSet
  BY InMemory
<1> HIDE DEF t, s, ws
<1>5. sb' \in SbSet
  BY <1>3, <1>4, InMemory DEF Checkpointed
<1>6. DeviceInv' /\ LeavesMap
  BY <1>1, <1>2, <1>3, <1>4, DeviceSame, CheckpointedKept DEF IInv
<1>7. map' = Recorded /\ ApartOn(Recorded.entries, size')
  BY <1>1, InMemory DEF Stable
<1>8. MapInv'
  BY <1>1, <1>6, <1>7, MapStays DEF IInv, Stable
<1>9. MemoryInv'
  BY <1>1, <1>5, InMemory DEF IInv, MemoryInv, Phases, faultVars
<1> QED BY <1>1, <1>6, <1>8, <1>9 DEF IInv, OpInv

LEMMA CommitStep == ASSUME IInv, NEW ag, Commit(ag) PROVE IInv'
<1>1. pc = "idle" /\ ops < MaxOps /\ ops' = ops + 1
      /\ UNCHANGED <<pc, map, op, limit, intent, size, faultVars>>
  BY DEF Commit
<1> DEFINE s == [NextSuperblock EXCEPT !.seq = @ + 1]
<1>2. PICK ws : DOMAIN ws \cap (MapCopies \cup SbCopies) = {} /\ Checkpointed(ws, s)
  <2> DEFINE e == map.entries[ag]
             full == ~Header0(ag).full
             units == IF full THEN {P(e.at + k) : k \in 1 .. e.length - 1} ELSE {}
             data == [l \in units |-> Data(ag, l[2] - e.at)]
             record == [l \in {Log} |-> Txn(sb.seq, ag, full)]
             ws == [l \in units \cup {Log, P(e.at)} |->
                      IF l \in units THEN data[l]
                      ELSE IF l = Log THEN record[l]
                      ELSE HeaderWrite(ag, full)[l]]
  <2>1. Checkpointed(ws, s)
    BY DEF Commit
  <2>2. \A l \in units : \E i : l = P(i)
    OBVIOUS
  <2>3. DOMAIN ws = units \cup {Log, P(e.at)}
    OBVIOUS
  <2> HIDE DEF ws, units
  <2>4. DOMAIN ws \cap (MapCopies \cup SbCopies) = {}
    BY <2>2, <2>3, Locations
  <2> QED BY <2>1, <2>4
<1>3. s \in SbSet
  BY InMemory
<1> HIDE DEF s
<1>4. sb' \in SbSet
  BY <1>2, <1>3 DEF Checkpointed
<1>5. DeviceInv' /\ LeavesMap
  BY <1>1, <1>2, <1>3, CheckpointedKept DEF IInv
<1>6. map' = Recorded /\ ApartOn(Recorded.entries, size')
  BY <1>1, InMemory DEF Stable
<1>7. MapInv'
  BY <1>1, <1>5, <1>6, MapStays DEF IInv, Stable
<1>8. MemoryInv'
  BY <1>1, <1>4, BoundAssumption DEF IInv, MemoryInv, Phases, faultVars
<1> QED BY <1>1, <1>5, <1>7, <1>8 DEF IInv, OpInv

(* The checks of add_ag, and of grow, name a free place for the new group. *)
LEMMA StartAddStep ==
  ASSUME IInv, pc = "idle", ops < MaxOps, ops' = ops + 1,
         NEW at \in Nat, NEW length \in Nat, StartAdd(at, length),
         at + length <= size',
         FreePlace(map.entries, at, length, 0 - 1, size'),
         size' \in Nat, size <= size', size' <= MaxSize,
         UNCHANGED <<sb, map, limit, faultVars>>
  PROVE  IInv'
<1>1. pc' = "addSync" /\ op' = [NoOp EXCEPT !.kind = "add", !.ag = sb.nextAg, !.at = at, !.length = length]
  BY DEF StartAdd
<1>2. at \in Units
  BY SizeAssumption DEF FreePlace, Units
<1> DEFINE ws == [l \in {P(at)} |-> Header(sb.nextAg, length, FALSE)]
<1>3. DOMAIN ws = {P(at)} /\ Pwrite(ws)
  BY DEF StartAdd
<1> HIDE DEF ws
<1>4. DeviceInv' /\ LeavesMap
  BY <1>2, <1>3, UnitWrite DEF IInv
<1>5. map' = Recorded /\ ApartOn(map.entries, size)
  BY InMemory DEF Stable
<1>6. ApartOn(Recorded.entries, size')
  <2>1. \A i \in Ids(map.entries) : End(map.entries[i]) \in Nat
    BY EntryFacts, InMemory
  <2>2. ApartOn(map.entries, size')
    BY <1>5, <2>1, InMemory DEF ApartOn
  <2> QED BY <1>5, <2>2
<1>7. MapInv'
  BY <1>1, <1>4, <1>5, <1>6, MapStays DEF IInv, Stable
<1>8. op' \in OpSet
  BY <1>1, InMemory DEF OpSet, NoOp
<1>9. MemoryInv'
  <2>1. size' \in BootLength .. MaxSize
    BY InMemory
  <2> QED BY <1>1, <1>8, <2>1, InMemory, BoundAssumption DEF IInv, MemoryInv, Phases, faultVars
<1>10. op'.at = at /\ op'.length = length
  BY <1>1 DEF NoOp
<1>11. OpInv'
  BY <1>1, <1>10 DEF OpInv
<1> QED BY <1>4, <1>7, <1>9, <1>11 DEF IInv

LEMMA AddAgStep ==
  ASSUME IInv, NEW at \in Units, NEW length \in Lengths, AddAg(at, length)
  PROVE  IInv'
<1>1. pc = "idle" /\ ops < MaxOps /\ ops' = ops + 1 /\ at + length <= size
      /\ ~Overlaps(map.entries, at, length, 0 - 1) /\ StartAdd(at, length)
      /\ size' = size /\ UNCHANGED <<sb, map, limit, faultVars>>
  BY DEF AddAg
<1>2. at \in Nat /\ length \in Nat \ {0}
  BY <1>1, SizeAssumption DEF Units, StartAdd
<1>3. FreePlace(map.entries, at, length, 0 - 1, size)
  BY <1>1, <1>2, InMemory, OverlapsFacts
<1> QED BY <1>1, <1>2, <1>3, InMemory, StartAddStep

LEMMA GrowStep ==
  ASSUME IInv, NEW n \in 0 .. MaxSize, Grow(n)
  PROVE  IInv'
<1> DEFINE end == MappedEnd(map.entries)
<1>1. pc = "idle" /\ ops < MaxOps /\ ops' = ops + 1 /\ n > end
      /\ size' = MaxOf({size, n}) /\ UNCHANGED <<sb, map, limit, faultVars>>
  BY DEF Grow
<1>2. map = Recorded /\ ApartOn(map.entries, size)
  BY <1>1, InMemory DEF Stable
<1>3. end \in BootLength .. size /\ \A i \in Ids(map.entries) : End(map.entries[i]) <= end
  BY <1>2, InMemory, MappedEndFacts
<1>4. IF n - end >= MinLength THEN StartAdd(end, n - end) ELSE UNCHANGED <<deviceVars, op, intent, pc>>
  BY DEF Grow
<1> HIDE DEF end
<1>5. n \in Nat /\ end \in Nat /\ BootLength <= end /\ n - end \in Nat \ {0} /\ end + (n - end) = n
  BY <1>1, <1>3, InMemory
<1>6. size' \in Nat /\ size <= size' /\ n <= size' /\ size' <= MaxSize
  BY <1>1, <1>5, InMemory, MaxOfTwo
<1>7. CASE n - end >= MinLength
  <2>1. FreePlace(map.entries, end, n - end, 0 - 1, size')
    BY <1>3, <1>5, <1>6 DEF FreePlace
  <2> QED BY <1>1, <1>4, <1>5, <1>6, <1>7, <2>1, StartAddStep
<1>8. CASE ~(n - end >= MinLength)
  <2>1. UNCHANGED <<deviceVars, op, intent, pc>>
    BY <1>4, <1>8
  <2>2. DeviceInv' /\ LeavesMap
    BY <1>1, <2>1, DeviceSame DEF IInv
  <2>3. ApartOn(map.entries, size')
    <3>1. \A i \in Ids(map.entries) : End(map.entries[i]) \in Nat
      BY EntryFacts, InMemory
    <3> QED BY <1>2, <1>6, <3>1, InMemory DEF ApartOn
  <2>4. MapInv'
    BY <1>1, <1>2, <2>1, <2>2, <2>3, MapStays DEF IInv, Stable
  <2>5. MemoryInv'
    <3>1. size' \in BootLength .. MaxSize
      BY <1>6, InMemory
    <3> QED BY <1>1, <2>1, <3>1, BoundAssumption DEF IInv, MemoryInv, faultVars
  <2> QED BY <1>1, <2>1, <2>2, <2>4, <2>5 DEF IInv, OpInv
<1> QED BY <1>7, <1>8

(* Once made durable, the new group is entered where it was checked. *)
LEMMA AddSyncStep == ASSUME IInv, AddSync PROVE IInv'
<1>1. pc = "addSync" /\ pc' = "writeMap" /\ Sync
      /\ map' = [map EXCEPT !.entries = Append(@, Entry(op.at, op.length))]
      /\ sb' = [sb EXCEPT !.nextAg = op.ag + 1]
      /\ UNCHANGED <<size, op, limit, intent, ops, faultVars>>
  BY DEF AddSync
<1>2. DeviceInv' /\ LeavesMap
  BY <1>1, SyncKept DEF IInv
<1>3. map = Recorded /\ ApartOn(map.entries, size)
      /\ FreePlace(map.entries, op.at, op.length, 0 - 1, size)
  BY <1>1, InMemory DEF Stable, IInv, OpInv
<1> DEFINE es == map.entries
           new == Entry(op.at, op.length)
           k == Len(es) + 1
<1>4. es \in Seq(EntrySet) /\ Len(es) \in Nat /\ DOMAIN es = 1 .. Len(es)
  BY InMemory, EntryFacts
<1>5. new \in EntrySet /\ new.present /\ new.at = op.at /\ new.length = op.length
      /\ op.at \in Nat /\ op.length \in Nat \ {0} /\ End(new) = op.at + op.length
  BY <1>3, InMemory DEF FreePlace, Entry, EntrySet, End
<1>6. map'.kind = "map" /\ map'.gen = map.gen /\ map'.entries = Append(es, new)
      /\ map' \in [kind : {"map"}, gen : Nat, entries : Seq(EntrySet)]
  <2>1. Append(es, new) \in Seq(EntrySet)
    BY <1>4, <1>5
  <2>2. map \in [kind : {"map"}, gen : Nat, entries : Seq(EntrySet)]
    BY InMemory DEF MapSet
  <2> QED BY <1>1, <2>1, <2>2
<1> HIDE DEF new
<1>7. /\ DOMAIN map'.entries = 1 .. k
      /\ \A i \in 1 .. Len(es) : map'.entries[i] = es[i]
      /\ map'.entries[k] = new
  BY <1>4, <1>5, <1>6, AppendProperties
<1>8. map' \in MapSet
  <2>1. \A i \in 1 .. k : map'.entries[i].length >= 1
    <3>1. \A i \in 1 .. Len(es) : es[i].length >= 1
      BY <1>4, InMemory, EntryFacts
    <3>2. new.length >= 1
      BY <1>5
    <3> QED BY <1>4, <1>7, <3>1, <3>2
  <2> QED BY <1>6, <1>7, <2>1 DEF MapSet
<1>9. Ids(map'.entries) = Ids(es) \cup {k}
  BY <1>4, <1>5, <1>7 DEF Ids
<1>10. ApartOn(map'.entries, size)
  <2> DEFINE fs == map'.entries
  <2>1. \A i \in Ids(es) : fs[i] = es[i] /\ i # k
    BY <1>4, <1>7 DEF Ids
  <2>2. fs[k] = new /\ k \notin Ids(es) /\ 0 - 1 \notin Ids(es)
    BY <1>4, <1>7 DEF Ids
  <2> HIDE DEF fs, k, es
  <2>3. BootLength <= new.at /\ End(new) <= size
    BY <1>3, <1>5 DEF FreePlace
  <2>4. \A i \in Ids(es) : End(es[i]) <= new.at \/ End(new) <= es[i].at
    BY <1>3, <1>5, <2>2 DEF FreePlace, es
  <2>5. ApartOn(es, size)
    BY <1>3 DEF es
  <2>6. Ids(fs) = Ids(es) \cup {k}
    BY <1>9 DEF fs
  <2>7. ApartOn(fs, size)
    BY <2>1, <2>2, <2>3, <2>4, <2>5, <2>6 DEF ApartOn
  <2> QED BY <2>7 DEF fs
<1>11. MapInv'
  <2>1. Recorded' = Recorded /\ CopiesSound(durable)'
    BY <1>2, LoadSame DEF LeavesMap, Recorded, IInv, MapInv
  <2> QED BY <1>1, <1>2, <1>3, <1>6, <1>10, <2>1 DEF MapInv, LeavesMap, Stable
<1>12. sb' \in SbSet
  <2>1. op.ag + 1 \in Nat
    BY InMemory DEF OpSet
  <2>2. \A n \in Nat : [sb EXCEPT !.nextAg = n] \in SbSet
    BY InMemory DEF SbSet
  <2> QED BY <1>1, <2>1, <2>2
<1>13. MemoryInv'
  BY <1>1, <1>8, <1>12 DEF IInv, MemoryInv, Phases, faultVars
<1> QED BY <1>1, <1>2, <1>11, <1>13 DEF IInv, OpInv

(* The checks of relocate, and of shrink, name a free place to move to. *)
LEMMA StartMoveStep ==
  ASSUME IInv, pc \in {"idle", "shrink"}, ops' \in 0 .. MaxOps, limit' = limit,
         NEW ag, NEW dest \in Nat, Movable(ag, dest), StartMove(ag, dest)
  PROVE  IInv'
<1>1. pc' = "copy" /\ UNCHANGED <<deviceVars, size, sb, map, intent, faultVars>>
      /\ op' = [NoOp EXCEPT !.kind = "relocate", !.ag = ag, !.at = dest, !.length = map.entries[ag].length]
  BY DEF StartMove
<1> DEFINE length == map.entries[ag].length
<1>2. ag \in Ids(map.entries) /\ dest + length <= size /\ ~Overlaps(map.entries, dest, length, ag)
  BY DEF Movable
<1>3. length \in Nat \ {0} /\ ag \in Nat
  BY <1>2, InMemory, EntryFacts
<1> HIDE DEF length
<1>4. FreePlace(map.entries, dest, length, ag, size)
  BY <1>2, <1>3, InMemory, OverlapsFacts
<1>5. op' = [NoOp EXCEPT !.kind = "relocate", !.ag = ag, !.at = dest, !.length = length]
  BY <1>1 DEF length
<1>6. op' \in OpSet
  BY <1>3, <1>5 DEF OpSet, NoOp
<1>7. op'.ag = ag /\ op'.at = dest /\ op'.length = length /\ op'.done = 0
  BY <1>5 DEF NoOp
<1>8. DeviceInv' /\ LeavesMap
  BY <1>1, DeviceSame DEF IInv
<1>9. map' = Recorded /\ ApartOn(Recorded.entries, size')
  BY <1>1, InMemory DEF Stable
<1>10. MapInv'
  BY <1>1, <1>8, <1>9, MapStays DEF IInv, Stable
<1>11. MemoryInv'
  BY <1>1, <1>6 DEF IInv, MemoryInv, Phases, faultVars
<1>12. OpInv'
  BY <1>1, <1>2, <1>3, <1>4, <1>7 DEF OpInv, length
<1> QED BY <1>8, <1>10, <1>11, <1>12 DEF IInv

LEMMA RelocateStep ==
  ASSUME IInv, NEW ag, NEW dest \in Units, Relocate(ag, dest)
  PROVE  IInv'
<1>1. dest \in Nat
  BY DEF Units
<1>2. pc = "idle" /\ ops < MaxOps /\ ops' = ops + 1 /\ limit' = limit
      /\ Movable(ag, dest) /\ StartMove(ag, dest)
  BY DEF Relocate
<1>3. ops' \in 0 .. MaxOps
  BY <1>2, BoundAssumption DEF IInv, MemoryInv
<1> QED BY <1>1, <1>2, <1>3, StartMoveStep

LEMMA ShrinkMoveStep == ASSUME IInv, ShrinkMove PROVE IInv'
<1>1. pc = "shrink" /\ Movable(FirstBeyond, Gap) /\ StartMove(FirstBeyond, Gap)
      /\ limit' = limit /\ ops' = ops
  BY DEF ShrinkMove
<1>2. Gap \in Nat
  BY <1>1, InMemory, FindGapNumber DEF Gap, Stable
<1>3. ops' \in 0 .. MaxOps
  BY <1>1 DEF IInv, MemoryInv
<1> QED BY <1>1, <1>2, <1>3, StartMoveStep

LEMMA CopyStep == ASSUME IInv, Copy PROVE IInv'
<1>1. pc = "copy" /\ op' = [op EXCEPT !.done = @ + 1]
      /\ pc' = (IF op.done + 1 = op.length THEN "copySync" ELSE "copy")
      /\ UNCHANGED <<size, sb, map, limit, intent, ops, faultVars>>
  BY DEF Copy
<1>2. /\ map = Recorded /\ ApartOn(map.entries, size)
      /\ op.ag \in Ids(map.entries)
      /\ op.length = map.entries[op.ag].length
      /\ FreePlace(map.entries, op.at, op.length, op.ag, size)
      /\ op.done < op.length
  BY <1>1, InMemory DEF Stable, IInv, OpInv
<1>3. op.at \in Nat /\ op.length \in Nat /\ op.done \in Nat /\ op.at + op.length <= size
  BY <1>2, InMemory DEF FreePlace, OpSet
<1> DEFINE u == op.at + op.done
           ws == [l \in {P(u)} |-> cache[P(map.entries[op.ag].at + op.done)]]
<1>4. u \in Units
  BY <1>2, <1>3, InMemory DEF Units
<1>5. DOMAIN ws = {P(u)} /\ Pwrite(ws)
  BY DEF Copy
<1> HIDE DEF ws, u
<1>6. DeviceInv' /\ LeavesMap
  BY <1>1, <1>4, <1>5, UnitWrite DEF IInv
<1>7. MapInv'
  BY <1>1, <1>2, <1>6, MapStays DEF IInv, Stable
<1>8. op' \in OpSet
  BY <1>1, <1>3, InMemory DEF OpSet
<1>9. op'.ag = op.ag /\ op'.at = op.at /\ op'.length = op.length /\ op'.done = op.done + 1
  BY <1>1, InMemory DEF OpSet
<1>10. MemoryInv'
  BY <1>1, <1>8 DEF IInv, MemoryInv, Phases, faultVars
<1>11. OpInv'
  <2>1. pc' = "copy" => op'.done < op'.length
    BY <1>1, <1>2, <1>3, <1>9
  <2> QED BY <1>1, <1>2, <1>9, <2>1 DEF OpInv
<1> QED BY <1>6, <1>7, <1>10, <1>11 DEF IInv

(* One entry of the map is replaced. *)
LEMMA ReplacedFacts ==
  ASSUME NEW m \in MapSet, NEW k \in DOMAIN m.entries,
         NEW e \in EntrySet, e.length >= 1
  PROVE  LET r == [m EXCEPT !.entries[k] = e] IN
         /\ r \in MapSet /\ r.gen = m.gen
         /\ DOMAIN r.entries = DOMAIN m.entries
         /\ r.entries[k] = e
         /\ \A i \in DOMAIN m.entries : i # k => r.entries[i] = m.entries[i]
<1> DEFINE es == m.entries
           fs == [es EXCEPT ![k] = e]
           r == [m EXCEPT !.entries[k] = e]
<1>1. es \in Seq(EntrySet) /\ m \in [kind : {"map"}, gen : Nat, entries : Seq(EntrySet)]
  BY EntryFacts DEF MapSet
<1>2. fs \in Seq(EntrySet)
  BY <1>1, ExceptSeq
<1>3. r = [m EXCEPT !.entries = fs]
  OBVIOUS
<1>4. r.entries = fs /\ r.gen = m.gen /\ r \in [kind : {"map"}, gen : Nat, entries : Seq(EntrySet)]
  <2> HIDE DEF fs, r
  <2> QED BY <1>1, <1>2, <1>3
<1>5. DOMAIN fs = DOMAIN es /\ fs[k] = e /\ \A i \in DOMAIN es : i # k => fs[i] = es[i]
  OBVIOUS
<1>6. \A i \in DOMAIN es : es[i].length >= 1
  BY DEF MapSet
<1> HIDE DEF fs, r, es
<1>7. r \in MapSet
  BY <1>4, <1>5, <1>6 DEF MapSet
<1> QED BY <1>4, <1>5, <1>7 DEF r, es

(* The copy is durable, and the entry now points to it. *)
LEMMA CopySyncStep == ASSUME IInv, CopySync PROVE IInv'
<1>1. pc = "copySync" /\ pc' = "writeMap" /\ Sync
      /\ map' = [map EXCEPT !.entries[op.ag].at = op.at]
      /\ UNCHANGED <<size, sb, op, limit, intent, ops, faultVars>>
  BY DEF CopySync
<1>2. DeviceInv' /\ LeavesMap
  BY <1>1, SyncKept DEF IInv
<1>3. /\ map = Recorded /\ ApartOn(map.entries, size)
      /\ op.ag \in Ids(map.entries)
      /\ op.length = map.entries[op.ag].length
      /\ FreePlace(map.entries, op.at, op.length, op.ag, size)
  BY <1>1, InMemory DEF Stable, IInv, OpInv
<1> DEFINE es == map.entries
           fs == map'.entries
           k == op.ag
           e == [es[k] EXCEPT !.at = op.at]
<1>4. k \in DOMAIN es /\ es[k] \in EntrySet /\ es[k].present /\ es[k].length \in Nat \ {0}
  BY <1>3, InMemory, EntryFacts DEF Ids
<1>5. op.at \in Nat /\ BootLength <= op.at /\ op.at + op.length <= size /\ op.at \in 0 .. MaxSize
  BY <1>3, <1>4, InMemory DEF FreePlace
<1>6. e \in EntrySet /\ e.present /\ e.at = op.at /\ e.length = op.length /\ End(e) = op.at + op.length
  BY <1>3, <1>4, <1>5 DEF EntrySet, End
<1>7. map' = [map EXCEPT !.entries[k] = e]
  BY <1>1
<1> HIDE DEF e
<1>8. map' \in MapSet /\ map'.gen = map.gen /\ DOMAIN fs = DOMAIN es /\ fs[k] = e
      /\ \A i \in DOMAIN es : i # k => fs[i] = es[i]
  BY <1>3, <1>4, <1>6, <1>7, InMemory, ReplacedFacts
<1>9. Ids(fs) = Ids(es)
  BY <1>4, <1>6, <1>8 DEF Ids
<1>10. ApartOn(fs, size)
  <2>1. \A i \in Ids(es) : i # k => fs[i] = es[i]
    BY <1>8 DEF Ids
  <2> HIDE DEF fs, es, k
  <2>2. BootLength <= e.at /\ End(e) <= size
    BY <1>5, <1>6
  <2>3. \A i \in Ids(es) : i # k => End(es[i]) <= e.at \/ End(e) <= es[i].at
    BY <1>3, <1>6 DEF FreePlace, es, k
  <2>4. ApartOn(es, size)
    BY <1>3 DEF es
  <2>5. fs[k] = e
    BY <1>8
  <2> QED BY <1>9, <2>1, <2>2, <2>3, <2>4, <2>5 DEF ApartOn
<1>11. MapInv'
  <2>1. Recorded' = Recorded /\ CopiesSound(durable)'
    BY <1>2, LoadSame DEF LeavesMap, Recorded, IInv, MapInv
  <2> QED BY <1>1, <1>2, <1>3, <1>8, <1>10, <2>1 DEF MapInv, LeavesMap, Stable
<1>12. MemoryInv'
  BY <1>1, <1>8 DEF IInv, MemoryInv, Phases, faultVars
<1> QED BY <1>1, <1>2, <1>11, <1>12 DEF IInv, OpInv

(* The entry of a retired group says so; no other changes. *)
LEMMA StartRetireStep ==
  ASSUME IInv, pc \in {"idle", "shrink"}, ops' \in 0 .. MaxOps, limit' = limit,
         NEW ag \in Ids(map.entries), StartRetire(ag)
  PROVE  IInv'
<1>1. pc' = "writeMap" /\ UNCHANGED <<deviceVars, size, sb, faultVars>>
      /\ map' = [map EXCEPT !.entries[ag] = Retired(@)]
      /\ op' = [NoOp EXCEPT !.kind = "retire", !.ag = ag]
  BY DEF StartRetire
<1>2. map = Recorded /\ ApartOn(map.entries, size)
  BY InMemory DEF Stable
<1> DEFINE es == map.entries
           fs == map'.entries
           e == Retired(es[ag])
<1>3. ag \in DOMAIN es /\ ag \in Nat /\ es[ag] \in EntrySet /\ es[ag].length \in Nat \ {0}
  BY InMemory, EntryFacts
<1>4. e \in EntrySet /\ e.present = FALSE /\ e.length >= 1
  <2>1. \A r \in EntrySet : Retired(r) = [present |-> FALSE, at |-> 0, length |-> r.length]
    <3> TAKE r \in EntrySet
    <3> DEFINE q == [r EXCEPT !.present = FALSE]
    <3>1. q \in EntrySet /\ q.present = FALSE /\ q.length = r.length
      BY DEF EntrySet
    <3>2. Retired(r) = [q EXCEPT !.at = 0]
      BY DEF Retired
    <3> HIDE DEF q
    <3> QED BY <3>1, <3>2 DEF EntrySet
  <2>2. e = [present |-> FALSE, at |-> 0, length |-> es[ag].length]
    BY <1>3, <2>1
  <2> HIDE DEF e
  <2> QED BY <1>3, <2>2, SizeAssumption DEF EntrySet
<1>5. map' = [map EXCEPT !.entries[ag] = e]
  BY <1>1
<1> HIDE DEF e
<1>6. map' \in MapSet /\ map'.gen = map.gen /\ DOMAIN fs = DOMAIN es /\ fs[ag] = e
      /\ \A i \in DOMAIN es : i # ag => fs[i] = es[i]
  BY <1>3, <1>4, <1>5, InMemory, ReplacedFacts
<1>7. \A i \in Ids(fs) : i \in Ids(es) /\ fs[i] = es[i]
  <2> TAKE i \in Ids(fs)
  <2>1. i \in DOMAIN fs /\ fs[i].present
    BY DEF Ids
  <2>2. i # ag
    BY <1>4, <1>6, <2>1
  <2> QED BY <1>6, <2>1, <2>2 DEF Ids
<1>8. ApartOn(fs, size)
  <2> HIDE DEF fs, es
  <2>1. ApartOn(es, size)
    BY <1>2 DEF es
  <2> QED BY <1>7, <2>1 DEF ApartOn
<1>9. op' \in OpSet
  BY <1>1, <1>3 DEF OpSet, NoOp
<1>10. DeviceInv' /\ LeavesMap
  BY <1>1, DeviceSame DEF IInv
<1>11. MapInv'
  <2>1. Recorded' = Recorded /\ CopiesSound(durable)'
    BY <1>10, LoadSame DEF LeavesMap, Recorded, IInv, MapInv
  <2> QED BY <1>1, <1>2, <1>6, <1>8, <1>10, <2>1 DEF IInv, MapInv, LeavesMap, Stable
<1>12. MemoryInv'
  BY <1>1, <1>6, <1>9 DEF IInv, MemoryInv, Phases, faultVars
<1> QED BY <1>1, <1>10, <1>11, <1>12 DEF IInv, OpInv

LEMMA RetireStep == ASSUME IInv, NEW ag, Retire(ag) PROVE IInv'
<1>1. pc = "idle" /\ ops < MaxOps /\ ops' = ops + 1 /\ limit' = limit
      /\ ag \in Ids(map.entries) /\ StartRetire(ag)
  BY DEF Retire
<1>2. ops' \in 0 .. MaxOps
  BY <1>1, BoundAssumption DEF IInv, MemoryInv
<1> QED BY <1>1, <1>2, StartRetireStep

LEMMA ShrinkRetireStep == ASSUME IInv, ShrinkRetire PROVE IInv'
<1>1. pc = "shrink" /\ Beyond # {} /\ StartRetire(FirstBeyond) /\ limit' = limit /\ ops' = ops
  BY DEF ShrinkRetire
<1>2. ops' \in 0 .. MaxOps
  BY <1>1 DEF IInv, MemoryInv
<1>3. Beyond \subseteq Ids(map.entries)
  BY DEF Beyond
<1>4. Ids(map.entries) \subseteq Nat
  <2>1. map \in MapSet
    BY InMemory
  <2>2. Ids(map.entries) \subseteq 1 .. Len(map.entries) /\ Len(map.entries) \in Nat
    BY <2>1, EntryFacts
  <2> QED BY <2>2
<1>5. PICK i \in Beyond : \A j \in Beyond : i <= j
  <2>1. PICK n \in Beyond : TRUE
    BY <1>1
  <2>2. Beyond \in SUBSET Nat
    BY <1>3, <1>4
  <2> QED BY <2>1, <2>2, LeastNumber
<1>6. FirstBeyond \in Beyond
  BY <1>5 DEF FirstBeyond
<1> QED BY <1>1, <1>2, <1>3, <1>6, StartRetireStep

(* The map goes to both copies, one generation newer. *)
LEMMA WriteMapStep == ASSUME IInv, WriteMap PROVE IInv'
<1>1. pc = "writeMap" /\ pc' = "mapSync"
      /\ map' = [map EXCEPT !.gen = @ + 1]
      /\ sb' = NextSuperblock
      /\ UNCHANGED <<size, op, limit, intent, ops, faultVars>>
  BY DEF WriteMap
<1> DEFINE s == NextSuperblock
           ws == MapWrites(map', s)
<1>2. /\ DOMAIN ws = MapCopies \cup SbCopies
      /\ \A l \in SbCopies : ws[l] = s
      /\ \A l \in MapCopies : ws[l] = map'
  <2>1. DOMAIN ws = MapCopies \cup SbCopies
    BY DEF MapWrites, MapCopies, SbCopies
  <2>2. \A l \in DOMAIN ws : ws[l] = IF l \in SbCopies THEN s ELSE map'
    BY DEF MapWrites, SbCopies
  <2> HIDE DEF ws
  <2> QED BY <2>1, <2>2, Locations
<1>3. Pwrite(ws)
  BY DEF WriteMap
<1> HIDE DEF ws
<1>4. /\ durable' = durable /\ cache' = Overlay(cache, ws)
      /\ pending' = pending \cup {<<l, ws[l]>> : l \in MapCopies \cup SbCopies}
  BY <1>2, <1>3 DEF Pwrite
<1>5. /\ DOMAIN cache' = Loc
      /\ \A l \in SbCopies : cache'[l] = s
      /\ \A l \in MapCopies : cache'[l] = map'
  BY <1>2, <1>4, OverlayFacts, Locations DEF IInv, DeviceInv
<1>6. \A p \in pending' :
        \/ p \in pending
        \/ p[1] \in SbCopies /\ p[2] = s
        \/ p[1] \in MapCopies /\ p[2] = map'
  BY <1>2, <1>4
<1>7. s \in SbSet
  BY InMemory
<1> HIDE DEF s
<1>8. DeviceInv'
  BY <1>4, <1>5, <1>6, <1>7, Locations DEF IInv, DeviceInv
<1>9. map' \in MapSet /\ map'.gen = map.gen + 1 /\ map'.entries = map.entries
  BY <1>1, InMemory DEF MapSet
<1>10. MapInv'
  <2>1. \A p \in pending' : p[1] \in MapCopies => p[2] = map'
    BY <1>1, <1>6, MapWritten, Locations DEF IInv
  <2>2. Recorded' = Recorded
    BY <1>4 DEF Recorded
  <2>3. map.gen = Recorded.gen /\ ApartOn(map.entries, size)
    BY <1>1 DEF IInv, MapInv
  <2> QED BY <1>1, <1>4, <1>5, <1>9, <2>1, <2>2, <2>3 DEF IInv, MapInv, Stable
<1>11. MemoryInv'
  BY <1>1, <1>7, <1>9 DEF IInv, MemoryInv, Phases, faultVars, s
<1> QED BY <1>1, <1>8, <1>10, <1>11 DEF IInv, OpInv

(* Both copies are durable: recovery loads what is in memory. *)
LEMMA MapSyncStep == ASSUME IInv, MapSync PROVE IInv'
<1>1. pc = "mapSync" /\ Sync /\ op' = NoOp
      /\ pc' = (IF limit = NoLimit THEN "idle" ELSE "shrink")
      /\ UNCHANGED <<size, sb, map, limit, ops, faultVars>>
  BY DEF MapSync
<1>2. DeviceInv'
  BY <1>1, SyncKept DEF IInv
<1>3. \A l \in MapCopies : durable'[l] = map /\ cache'[l] = map
  BY <1>1 DEF IInv, MapInv, Sync
<1>4. pending' = {}
  BY <1>1 DEF Sync
<1>5. CopiesSound(durable')
  BY <1>3, InMemory, EntryFacts DEF CopiesSound, MapFound, MapCopies
<1>6. Recorded' = map
  <2>1. PICK l \in MapCopies : LoadAgmap(durable') = durable'[l]
    BY <1>5, LoadFacts
  <2> QED BY <1>3, <2>1 DEF Recorded
<1>7. ApartOn(map.entries, size)
  BY <1>1 DEF IInv, MapInv
<1>8. MapInv'
  BY <1>1, <1>3, <1>4, <1>5, <1>6, <1>7 DEF MapInv
<1>9. MemoryInv'
  BY <1>1, InMemory DEF IInv, MemoryInv, Phases, faultVars
<1> QED BY <1>1, <1>2, <1>8, <1>9 DEF IInv, OpInv

LEMMA ShrinkStep ==
  ASSUME IInv, NEW n \in 0 .. MaxSize, Shrink(n)
  PROVE  IInv'
<1>1. pc = "idle" /\ pc' = "shrink" /\ ops < MaxOps /\ ops' = ops + 1
      /\ n >= BootLength /\ limit' = n
      /\ UNCHANGED <<deviceVars, size, sb, map, op, intent, faultVars>>
  BY DEF Shrink
<1>2. DeviceInv' /\ LeavesMap
  BY <1>1, DeviceSame DEF IInv
<1>3. map' = Recorded /\ ApartOn(Recorded.entries, size')
  BY <1>1, InMemory DEF Stable
<1>4. MapInv'
  BY <1>1, <1>2, <1>3, MapStays DEF IInv, Stable
<1>5. limit' \in BootLength .. NoLimit /\ limit' # NoLimit
  BY <1>1, SizeAssumption DEF NoLimit
<1>6. MemoryInv'
  BY <1>1, <1>5, BoundAssumption DEF IInv, MemoryInv, Phases, faultVars
<1> QED BY <1>1, <1>2, <1>4, <1>5, <1>6 DEF IInv, OpInv

LEMMA ShrinkFailStep == ASSUME IInv, ShrinkFail PROVE IInv'
<1>1. pc = "shrink" /\ pc' = "idle" /\ limit' = NoLimit
      /\ UNCHANGED <<deviceVars, size, sb, map, op, intent, ops, faultVars>>
  BY DEF ShrinkFail
<1>2. DeviceInv' /\ LeavesMap
  BY <1>1, DeviceSame DEF IInv
<1>3. map' = Recorded /\ ApartOn(Recorded.entries, size')
  BY <1>1, InMemory DEF Stable
<1>4. MapInv'
  BY <1>1, <1>2, <1>3, MapStays DEF IInv, Stable
<1>5. limit' \in BootLength .. NoLimit
  BY <1>1, InMemory DEF NoLimit
<1>6. MemoryInv'
  BY <1>1, <1>5 DEF IInv, MemoryInv, Phases, faultVars
<1> QED BY <1>1, <1>2, <1>4, <1>6 DEF IInv, OpInv

(* The device ends where no group lies any more; no copy is cut off. *)
LEMMA ShrinkEndStep == ASSUME IInv, ShrinkEnd PROVE IInv'
<1>1. pc = "shrink" /\ pc' = "idle" /\ Beyond = {} /\ size' = limit /\ limit' = NoLimit
      /\ durable' = Truncated(durable) /\ cache' = Truncated(cache)
      /\ pending' \subseteq pending
      /\ UNCHANGED <<sb, map, op, intent, ops, faultVars>>
  BY DEF ShrinkEnd
<1>2. \A img : /\ DOMAIN Truncated(img) = Loc
               /\ \A l \in MapCopies \cup SbCopies : Truncated(img)[l] = img[l]
  BY Locations DEF Truncated
<1>3. DOMAIN durable' = Loc /\ DOMAIN cache' = Loc
      /\ \A l \in MapCopies \cup SbCopies : durable'[l] = durable[l] /\ cache'[l] = cache[l]
  BY <1>1, <1>2
<1>4. DeviceInv'
  BY <1>1, <1>3 DEF IInv, DeviceInv
<1>5. LeavesMap
  BY <1>1, <1>3, MapWritten DEF IInv, LeavesMap
<1>6. map = Recorded /\ ApartOn(map.entries, size)
  BY <1>1, InMemory DEF Stable
<1>7. limit \in Nat /\ BootLength <= limit /\ limit <= MaxSize
  BY <1>1, InMemory DEF IInv, MemoryInv, OpInv, NoLimit
<1>8. ApartOn(map.entries, limit)
  <2>1. \A i \in Ids(map.entries) : End(map.entries[i]) \in Nat
    BY EntryFacts, InMemory
  <2>2. \A i \in Ids(map.entries) : End(map.entries[i]) <= limit
    BY <1>1, <1>7, <2>1 DEF Beyond
  <2> QED BY <1>6, <2>2 DEF ApartOn
<1>9. MapInv'
  BY <1>1, <1>5, <1>6, <1>8, MapStays DEF IInv, Stable
<1>10. MemoryInv'
  <2>1. size' \in BootLength .. MaxSize
    BY <1>1, <1>7, InMemory
  <2>2. limit' \in BootLength .. NoLimit
    BY <1>1, InMemory DEF NoLimit
  <2> QED BY <1>1, <2>1, <2>2 DEF IInv, MemoryInv, Phases, faultVars
<1> QED BY <1>1, <1>4, <1>9, <1>10 DEF IInv, OpInv

-----------------------------------------------------------------------------
(* Power cuts                                                              *)

(* What a location holds after a cut: garbage if a write to it was under   *)
(* way, the content of a pending write, or what it held.                   *)
LEMMA CutFacts ==
  ASSUME NEW S \in Landings, NEW T, \A l \in T : \E p \in S : p[1] = l
  PROVE  /\ DOMAIN AfterCut(S, T) = DOMAIN durable
         /\ \A l \in DOMAIN durable :
              \/ \E p \in pending : p[1] = l /\ AfterCut(S, T)[l] \in {Torn, p[2]}
              \/ AfterCut(S, T)[l] = durable[l]
<1>1. S \subseteq pending
  BY DEF Landings
<1>2. DOMAIN AfterCut(S, T) = DOMAIN durable
  BY DEF AfterCut
<1>3. ASSUME NEW l \in DOMAIN durable
      PROVE  \/ \E p \in pending : p[1] = l /\ AfterCut(S, T)[l] \in {Torn, p[2]}
             \/ AfterCut(S, T)[l] = durable[l]
  <2>1. CASE l \in T
    BY <1>1, <2>1 DEF AfterCut
  <2>2. CASE l \notin T /\ \E p \in S : p[1] = l
    <3>1. PICK p \in S : p[1] = l /\ p = CHOOSE q \in S : q[1] = l
      BY <2>2
    <3>2. AfterCut(S, T)[l] = p[2]
      BY <2>2, <3>1 DEF AfterCut
    <3> QED BY <1>1, <3>1, <3>2
  <2>3. CASE l \notin T /\ ~\E p \in S : p[1] = l
    BY <2>3 DEF AfterCut
  <2> QED BY <2>1, <2>2, <2>3
<1> QED BY <1>2, <1>3

(* A cut that does not go back to an older map leaves one that keeps the   *)
(* groups apart: the recorded one, or the one that was being written.      *)
LEMMA CutKept ==
  ASSUME IInv, NEW S \in Landings, NEW T, \A l \in T : \E p \in S : p[1] = l,
         CutTo(AfterCut(S, T)), ~GoesBack(AfterCut(S, T)),
         pc' = "down", map' = NoMap, size' = size
  PROVE  /\ DeviceInv' /\ MapInv'
         /\ Recorded' = Recorded \/ (pc = "mapSync" /\ Recorded' = map)
<1> DEFINE img == AfterCut(S, T)
<1>1. durable' = img /\ cache' = img /\ pending' = {}
  BY DEF CutTo
<1>2. /\ DOMAIN img = Loc
      /\ \A l \in Loc :
           \/ \E p \in pending : p[1] = l /\ img[l] \in {Torn, p[2]}
           \/ img[l] = durable[l]
  BY CutFacts DEF IInv, DeviceInv
<1>3. MapFound(img) /\ ~(LoadAgmap(img).gen < Recorded.gen)
  BY DEF GoesBack, Recorded
<1> HIDE DEF img
<1>4. \A l \in SbCopies : img[l] \in SbSet \cup {Torn}
  BY <1>2, Locations DEF IInv, DeviceInv
<1>5. DeviceInv'
  BY <1>1, <1>2, <1>4 DEF DeviceInv
<1>6. CopiesSound(durable) /\ ApartOn(Recorded.entries, size)
  BY DEF IInv, MapInv
<1>7. /\ CopiesSound(img) /\ ApartOn(LoadAgmap(img).entries, size)
      /\ LoadAgmap(img) = Recorded \/ (pc = "mapSync" /\ LoadAgmap(img) = map)
  <2>1. CASE pc # "mapSync"
    <3>1. \A l \in MapCopies : img[l] = durable[l]
      BY <1>2, <2>1, Locations DEF IInv, MapInv
    <3> QED BY <1>6, <3>1, LoadSame DEF Recorded
  <2>2. CASE pc = "mapSync"
    <3>1. map \in MapSet /\ map.kind = "map" /\ map.gen \in Nat
          /\ map.gen = Recorded.gen + 1 /\ ApartOn(map.entries, size)
      BY <2>2, InMemory, EntryFacts DEF IInv, MapInv
    <3>2. Recorded \in MapSet /\ Recorded.gen \in Nat
      BY <1>6, LoadFacts, EntryFacts DEF Recorded
    <3>3. \A l \in MapCopies : img[l] \in {Torn, map, durable[l]}
      BY <1>2, <2>2, Locations DEF IInv, MapInv
    <3>4. \A l \in MapCopies : durable[l].kind = "map" =>
            /\ durable[l] \in MapSet /\ durable[l].gen \in Nat
            /\ durable[l].gen <= Recorded.gen
            /\ durable[l].gen = Recorded.gen => durable[l] = Recorded
      BY <1>6, LoadFacts, EntryFacts DEF Recorded
    <3>5. \A l \in MapCopies : durable[l] \in MapSet \cup {Torn}
      BY <1>6 DEF CopiesSound
    <3>6. \A l \in MapCopies : img[l] \in MapSet \cup {Torn}
      BY <3>1, <3>3, <3>5
    <3>7. ASSUME NEW k \in MapCopies, NEW l \in MapCopies,
                 img[k].kind = "map", img[l].kind = "map", img[k].gen = img[l].gen
          PROVE  img[k] = img[l]
      <4>1. img[k] \in {map, durable[k]} /\ img[l] \in {map, durable[l]}
        BY <3>3, <3>7, TornFacts
      <4>2. CASE img[k] = durable[k] /\ img[l] = durable[l]
        BY <1>6, <3>7, <4>2 DEF CopiesSound
      <4>3. CASE img[k] = map /\ img[l] = durable[l]
        <5>1. durable[l].gen \in Nat /\ durable[l].gen <= Recorded.gen
          BY <3>4, <3>7, <4>3
        <5>2. durable[l].gen = Recorded.gen + 1
          BY <3>1, <3>7, <4>3
        <5> QED BY <3>2, <5>1, <5>2
      <4>4. CASE img[k] = durable[k] /\ img[l] = map
        <5>1. durable[k].gen \in Nat /\ durable[k].gen <= Recorded.gen
          BY <3>4, <3>7, <4>4
        <5>2. durable[k].gen = Recorded.gen + 1
          BY <3>1, <3>7, <4>4
        <5> QED BY <3>2, <5>1, <5>2
      <4> QED BY <4>1, <4>2, <4>3, <4>4
    <3>8. CopiesSound(img)
      BY <1>3, <3>6, <3>7 DEF CopiesSound
    <3>9. PICK l \in MapCopies : img[l].kind = "map" /\ LoadAgmap(img) = img[l]
      BY <3>8, LoadFacts
    <3>10. img[l] = map \/ img[l] = durable[l]
      BY <3>3, <3>9, TornFacts
    <3>11. CASE img[l] = durable[l]
      <4>1. durable[l].gen \in Nat /\ durable[l].gen <= Recorded.gen
            /\ (durable[l].gen = Recorded.gen => durable[l] = Recorded)
        BY <3>4, <3>9, <3>11
      <4>2. ~(durable[l].gen < Recorded.gen)
        BY <1>3, <3>9, <3>11
      <4>3. LoadAgmap(img) = Recorded
        BY <3>2, <3>9, <3>11, <4>1, <4>2
      <4> QED BY <1>6, <3>8, <4>3
    <3> QED BY <2>2, <3>1, <3>8, <3>9, <3>10, <3>11
  <2> QED BY <2>1, <2>2
<1>8. MapInv'
  BY <1>1, <1>7 DEF MapInv, Recorded, Stable
<1>9. Recorded' = LoadAgmap(img)
  BY <1>1 DEF Recorded
<1> QED BY <1>5, <1>7, <1>8, <1>9

LEMMA PowerCutStep ==
  ASSUME "staleCopy" \notin Risks, IInv, PowerCut
  PROVE  IInv'
<1>1. pc' = "down" /\ sb' = NoSuperblock /\ map' = NoMap /\ limit' = NoLimit
      /\ cuts < MaxCuts /\ cuts' = cuts + 1 /\ UNCHANGED <<size, op, intent, ops>>
  BY DEF PowerCut
<1>2. PICK S \in Landings :
        \/ Lands(AfterCut(S, {})) /\ torn' = torn
        \/ /\ torn < MaxTorn /\ torn' = torn + 1
           /\ \E p \in S : Lands(AfterCut(S, {p[1]}))
  BY DEF PowerCut
<1>3. PICK T : (\A l \in T : \E p \in S : p[1] = l) /\ Lands(AfterCut(S, T))
  <2>1. CASE Lands(AfterCut(S, {}))
    BY <2>1
  <2>2. ASSUME NEW p \in S, Lands(AfterCut(S, {p[1]}))
        PROVE  \E T : (\A l \in T : \E q \in S : q[1] = l) /\ Lands(AfterCut(S, T))
    <3>1. \A l \in {p[1]} : \E q \in S : q[1] = l
      OBVIOUS
    <3> QED BY <2>2, <3>1
  <2> QED BY <1>2, <2>1, <2>2
<1>4. CutTo(AfterCut(S, T)) /\ ~GoesBack(AfterCut(S, T))
  BY <1>3 DEF Lands
<1>5. DeviceInv' /\ MapInv'
  BY <1>1, <1>3, <1>4, CutKept
<1>6. sb' \in SbSet /\ map' \in MapSet
  <2>1. <<>> \in Seq(EntrySet)
    OBVIOUS
  <2> QED BY <1>1, <2>1 DEF NoSuperblock, Superblock, SbSet, NoMap, AgMap, MapSet
<1>7. torn' \in 0 .. MaxTorn /\ cuts' \in 0 .. MaxCuts
  BY <1>1, <1>2, BoundAssumption DEF IInv, MemoryInv
<1>8. limit' \in BootLength .. NoLimit
  BY <1>1, InMemory DEF NoLimit
<1>9. MemoryInv'
  BY <1>1, <1>6, <1>7, <1>8 DEF IInv, MemoryInv, Phases
<1> QED BY <1>1, <1>5, <1>9 DEF IInv, OpInv

-----------------------------------------------------------------------------
(* The theorems                                                            *)

(* mkfs: the groups follow AG 0 one after the other. *)
LEMMA InitialPlaces ==
  \A i, j \in 1 .. InitialGroups + 1 :
    /\ InitialAt(i) \in Nat /\ BootLength <= InitialAt(i)
    /\ i < j => InitialAt(i) + InitialLength <= InitialAt(j)
<1> SUFFICES ASSUME NEW i \in 1 .. InitialGroups + 1, NEW j \in 1 .. InitialGroups + 1
             PROVE  /\ InitialAt(i) \in Nat /\ BootLength <= InitialAt(i)
                    /\ i < j => InitialAt(i) + InitialLength <= InitialAt(j)
  OBVIOUS
<1>1. InitialLength \in Nat /\ BootLength \in Nat
  BY SizeAssumption
<1>2. i - 1 \in Nat /\ (i - 1) * InitialLength \in Nat
  BY <1>1
<1>3. InitialAt(i) \in Nat /\ BootLength <= InitialAt(i)
  BY <1>1, <1>2 DEF InitialAt
<1>4. ASSUME i < j PROVE InitialAt(i) + InitialLength <= InitialAt(j)
  <2>1. j - i - 1 \in Nat
    BY <1>4
  <2>2. (j - i - 1) * InitialLength \in Nat
    BY <1>1, <2>1
  <2>3. (j - 1) * InitialLength = (i - 1) * InitialLength + InitialLength + (j - i - 1) * InitialLength
    BY <1>1
  <2> QED BY <1>1, <1>2, <2>2, <2>3 DEF InitialAt
<1> QED BY <1>3, <1>4

LEMMA InitSound == Init => IInv
<1> SUFFICES ASSUME Init PROVE IInv
  OBVIOUS
<1> DEFINE es == [i \in 1 .. InitialGroups |-> Entry(InitialAt(i), InitialLength)]
           m == AgMap(1, es)
           s == Superblock(1, InitialGroups + 1, 1)
<1>1. /\ DOMAIN durable = Loc /\ cache = durable /\ pending = {}
      /\ \A l \in MapCopies : durable[l] = m
      /\ \A l \in SbCopies : durable[l] = s
  <2>1. DOMAIN durable = Loc /\ cache = durable /\ pending = {}
    BY DEF Init
  <2>2. \A l \in Loc : /\ l \in MapCopies => durable[l] = m
                       /\ l \in SbCopies => durable[l] = s
    <3>1. \A l \in Loc :
            /\ l \in MapCopies => durable[l] = m
            /\ l \notin MapCopies /\ l \in SbCopies => durable[l] = s
      BY DEF Init, MapCopies, SbCopies
    <3> QED BY <3>1, Locations
  <2> QED BY <2>1, <2>2, Locations
<1>2. /\ pc = "down" /\ size = InitialAt(InitialGroups + 1)
      /\ sb = NoSuperblock /\ map = NoMap /\ op = NoOp /\ limit = NoLimit
      /\ ops = 0 /\ cuts = 0 /\ torn = 0
  BY DEF Init
<1>3. \A i, j \in 1 .. InitialGroups + 1 :
        /\ InitialAt(i) \in Nat /\ BootLength <= InitialAt(i)
        /\ i < j => InitialAt(i) + InitialLength <= InitialAt(j)
  BY InitialPlaces
<1>4. size \in BootLength .. MaxSize
  <2>1. size = BootLength + InitialGroups * InitialLength
    BY <1>2, SizeAssumption DEF InitialAt
  <2>2. InitialGroups * InitialLength \in Nat
    BY SizeAssumption
  <2> QED BY <2>1, <2>2, SizeAssumption
<1>5. \A i \in 1 .. InitialGroups :
        /\ es[i] \in EntrySet /\ es[i].at = InitialAt(i) /\ es[i].length = InitialLength
        /\ es[i].length >= 1 /\ End(es[i]) = InitialAt(i) + InitialLength
        /\ End(es[i]) <= size
  <2> TAKE i \in 1 .. InitialGroups
  <2>1. InitialAt(i) \in Nat /\ InitialLength \in Nat /\ InitialLength >= 1
    BY <1>3, SizeAssumption
  <2>2. i \in 1 .. InitialGroups + 1 /\ InitialGroups + 1 \in 1 .. InitialGroups + 1 /\ i < InitialGroups + 1
    BY SizeAssumption
  <2>3. InitialAt(i) + InitialLength <= size
    BY <1>2, <1>3, <2>2
  <2>4. InitialAt(i) \in 0 .. MaxSize
    BY <1>4, <2>1, <2>3, SizeAssumption
  <2> QED BY <2>1, <2>3, <2>4 DEF Entry, EntrySet, End
<1>6. m \in MapSet /\ m.kind = "map" /\ m.entries = es
  <2>1. es \in Seq(EntrySet) /\ DOMAIN es = 1 .. InitialGroups
    <3>1. es \in [1 .. InitialGroups -> EntrySet]
      BY <1>5
    <3> QED BY <3>1, SizeAssumption, IsASeq
  <2> HIDE DEF es
  <2> QED BY <1>5, <2>1 DEF AgMap, MapSet
<1>7. ApartOn(es, size)
  <2>1. Ids(es) \subseteq 1 .. InitialGroups
    BY DEF Ids
  <2> HIDE DEF es
  <2>2. \A i \in 1 .. InitialGroups : BootLength <= es[i].at /\ End(es[i]) <= size
    <3> TAKE i \in 1 .. InitialGroups
    <3>1. i \in 1 .. InitialGroups + 1
      BY SizeAssumption
    <3>2. BootLength <= InitialAt(i) /\ es[i].at = InitialAt(i) /\ End(es[i]) <= size
      BY <1>3, <1>5, <3>1
    <3> QED BY <3>2
  <2>3. \A i, j \in 1 .. InitialGroups :
          i # j => End(es[i]) <= es[j].at \/ End(es[j]) <= es[i].at
    <3> TAKE i, j \in 1 .. InitialGroups
    <3>1. i \in 1 .. InitialGroups + 1 /\ j \in 1 .. InitialGroups + 1
      BY SizeAssumption
    <3>2. i # j => i < j \/ j < i
      OBVIOUS
    <3>3. End(es[i]) = InitialAt(i) + InitialLength /\ End(es[j]) = InitialAt(j) + InitialLength
          /\ es[i].at = InitialAt(i) /\ es[j].at = InitialAt(j)
      BY <1>5
    <3>4. i < j => InitialAt(i) + InitialLength <= InitialAt(j)
      BY <1>3, <3>1
    <3>5. j < i => InitialAt(j) + InitialLength <= InitialAt(i)
      BY <1>3, <3>1
    <3> QED BY <3>2, <3>3, <3>4, <3>5
  <2> QED BY <2>1, <2>2, <2>3 DEF ApartOn
<1> HIDE DEF m, es
<1>8. CopiesSound(durable)
  BY <1>1, <1>6 DEF CopiesSound, MapFound, MapCopies
<1>9. Recorded = m
  <2>1. PICK l \in MapCopies : LoadAgmap(durable) = durable[l]
    BY <1>8, LoadFacts
  <2> QED BY <1>1, <2>1 DEF Recorded
<1>10. MapInv
  BY <1>1, <1>2, <1>6, <1>7, <1>8, <1>9 DEF MapInv, Stable
<1>11. s \in SbSet /\ sb \in SbSet
  BY <1>2, SizeAssumption DEF SbSet, Superblock, NoSuperblock
<1> HIDE DEF s
<1>12. DeviceInv
  BY <1>1, <1>11 DEF DeviceInv
<1>13. map \in MapSet /\ op \in OpSet
  <2>1. <<>> \in Seq(EntrySet)
    OBVIOUS
  <2> QED BY <1>2, <2>1 DEF NoMap, AgMap, MapSet, NoOp, OpSet
<1>14. MemoryInv
  <2>1. NoLimit \in BootLength .. NoLimit
    BY <1>4, SizeAssumption DEF NoLimit
  <2> QED BY <1>2, <1>4, <1>11, <1>13, <2>1, BoundAssumption DEF MemoryInv, Phases
<1> QED BY <1>2, <1>10, <1>12, <1>14 DEF IInv, OpInv

LEMMA NextSound ==
  ASSUME "staleCopy" \notin Risks, IInv, [Next]_vars
  PROVE  IInv'
<1>1. CASE Open
  BY <1>1, OpenStep
<1>2. CASE Replay
  BY <1>2, ReplayStep
<1>3. ASSUME NEW ag \in 1 .. MaxGroups, Commit(ag) PROVE IInv'
  BY <1>3, CommitStep
<1>4. ASSUME NEW ag \in 1 .. MaxGroups, Retire(ag) PROVE IInv'
  BY <1>4, RetireStep
<1>5. ASSUME NEW at \in Units, NEW length \in Lengths, AddAg(at, length) PROVE IInv'
  BY <1>5, AddAgStep
<1>6. ASSUME NEW n \in 0 .. MaxSize, Grow(n) PROVE IInv'
  BY <1>6, GrowStep
<1>7. ASSUME NEW n \in 0 .. MaxSize, Shrink(n) PROVE IInv'
  BY <1>7, ShrinkStep
<1>8. ASSUME NEW ag \in 1 .. MaxGroups, NEW dest \in Units, Relocate(ag, dest) PROVE IInv'
  BY <1>8, RelocateStep
<1>9. CASE AddSync
  BY <1>9, AddSyncStep
<1>10. CASE Copy
  BY <1>10, CopyStep
<1>11. CASE CopySync
  BY <1>11, CopySyncStep
<1>12. CASE WriteMap
  BY <1>12, WriteMapStep
<1>13. CASE MapSync
  BY <1>13, MapSyncStep
<1>14. CASE ShrinkRetire
  BY <1>14, ShrinkRetireStep
<1>15. CASE ShrinkMove
  BY <1>15, ShrinkMoveStep
<1>16. CASE ShrinkFail
  BY <1>16, ShrinkFailStep
<1>17. CASE ShrinkEnd
  BY <1>17, ShrinkEndStep
<1>18. CASE PowerCut
  BY <1>18, PowerCutStep
<1>19. CASE UNCHANGED vars
  <2>1. UNCHANGED <<durable, cache, pending, pc, size, sb, map, op, limit, ops, cuts, torn>>
    BY <1>19 DEF vars, deviceVars, memVars, faultVars
  <2>2. DeviceInv'
    BY <2>1 DEF IInv, DeviceInv
  <2>3. MemoryInv'
    BY <2>1 DEF IInv, MemoryInv
  <2>4. MapInv'
    BY <2>1 DEF IInv, MapInv, Recorded
  <2>5. OpInv'
    BY <2>1 DEF IInv, OpInv
  <2> QED BY <2>2, <2>3, <2>4, <2>5 DEF IInv
<1> QED
  BY <1>1, <1>2, <1>3, <1>4, <1>5, <1>6, <1>7, <1>8, <1>9, <1>10, <1>11, <1>12, <1>13,
     <1>14, <1>15, <1>16, <1>17, <1>18, <1>19 DEF Next, Recover, Call, Step

LEMMA Invariance ==
  ASSUME "staleCopy" \notin Risks
  PROVE  Spec => []IInv
<1>1. Init => IInv
  BY InitSound
<1>2. IInv /\ [Next]_vars => IInv'
  BY NextSound
<1> QED BY <1>1, <1>2, PTL DEF Spec

(* Every variable stays in its set, through calls, cuts and recoveries, if *)
(* a cut does not make recovery go back further than the last operation    *)
(* (fields of Gofs, locals of add_ag, relocate, retire and shrink).        *)
THEOREM TypeCorrect ==
  ASSUME "staleCopy" \notin Risks
  PROVE  Spec => []TypeOK
<1>1. IInv => TypeOK
  BY EntryFacts DEF IInv, DeviceInv, MemoryInv, SbSet, OpSet, TypeOK
<1> QED BY <1>1, Invariance, PTL

(* No two groups share a byte, none reaches past the end of the device or  *)
(* into AG 0, in memory and in the map a recovery would load: on devices   *)
(* of every size, with groups of every length and number, in whatever      *)
(* order groups are added, moved and retired, the device grows and         *)
(* shrinks, and power is cut (overlaps_excluding, mapped_end, find_gap,    *)
(* load_agmap).  Nothing is assumed of the other calls the code does not   *)
(* survive: they break other promises, not this one.                       *)
THEOREM NoOverlap ==
  ASSUME "staleCopy" \notin Risks
  PROVE  Spec => []SegmentsApart
<1>1. IInv => SegmentsApart
  <2> SUFFICES ASSUME IInv PROVE SegmentsApart
    OBVIOUS
  <2>1. ApartOn(Recorded.entries, size)
    BY DEF IInv, MapInv
  <2>2. ApartOn(map.entries, size)
    <3>1. CASE pc = "down"
      <4>1. Ids(map.entries) = {}
        BY <3>1 DEF IInv, MapInv, NoMap, AgMap, Ids
      <4> QED BY <4>1 DEF ApartOn
    <3>2. CASE pc \in Stable
      BY <3>2, <2>1 DEF IInv, MapInv
    <3>3. CASE pc \in {"writeMap", "mapSync"}
      BY <3>3 DEF IInv, MapInv
    <3> QED BY <3>1, <3>2, <3>3 DEF IInv, MemoryInv, Phases, Stable
  <2> QED BY <2>1, <2>2, ApartSame DEF SegmentsApart, Recorded
<1> QED BY <1>1, Invariance, PTL

(* shrink finds a gap whenever there is one, and what it finds is one: for *)
(* maps of every kind the calls can make.  A length of 0, which add_ag     *)
(* refuses and no group has, would fit where two groups touch.             *)
THEOREM GapCorrect ==
  ASSUME "staleCopy" \notin Risks, 0 \notin Lengths
  PROVE  Spec => []GapSound
<1>1. IInv /\ SegmentsApart => GapSound
  <2> SUFFICES ASSUME IInv, SegmentsApart, NEW length \in Lengths, NEW below \in 0 .. size
               PROVE  LET g == FindGap(map.entries, length, below)
                          fits(p) == p + length <= below /\ ~Overlaps(map.entries, p, length, 0 - 1)
                      IN IF g = NoGap THEN \A p \in 0 .. size : ~fits(p) ELSE fits(g)
    BY DEF GapSound
  <2>1. length \in Nat \ {0}
    BY SizeAssumption
  <2>2. ApartOn(map.entries, size)
    BY ApartSame DEF SegmentsApart
  <2>3. FindGap(map.entries, length, below) # NoGap =>
          LET g == FindGap(map.entries, length, below) IN
          g + length <= below /\ ~Overlaps(map.entries, g, length, 0 - 1)
    BY <2>1, <2>2, InMemory, GapFits
  <2>4. \A p \in 0 .. size :
          p + length <= below /\ ~Overlaps(map.entries, p, length, 0 - 1)
            => FindGap(map.entries, length, below) # NoGap
    BY <2>1, <2>2, InMemory, GapFound
  <2> QED BY <2>3, <2>4
<1> QED BY <1>1, Invariance, NoOverlap, PTL

=============================================================================
