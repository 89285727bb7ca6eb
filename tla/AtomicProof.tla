----------------------------- MODULE AtomicProof -----------------------------
(***************************************************************************)
(* Recovery is atomic: whatever power cuts fall on commits and on earlier  *)
(* recoveries, or whatever kills, the next open finds every completed      *)
(* operation, and the one in flight wholly or not at all.                  *)
(*                                                                         *)
(* The invariant says of every phase what a recovery would do if a fault   *)
(* fell now: from the superblock it finds, replay follows a chain of       *)
(* transactions, ends, and leaves the operations s in the blocks.  After a *)
(* power cut it reads the medium (CutInv), after a kill the page cache     *)
(* (KillInv).                                                              *)
(*                                                                         *)
(* Not both in one behaviour (MixedFaults): a recovery after a kill may    *)
(* put in place what was never synced, and a cut then finds blocks without *)
(* their record.  Nor cuts that find the superblock on the medium behind   *)
(* in the ways of LaggingCut: those lose or undo operations, as the run    *)
(* LaggingCheckpoint shows.                                                *)
(*                                                                         *)
(* From the same invariant follow that fsck finds nothing to report after  *)
(* an operation or a recovery, and that the journal implements the atomic  *)
(* store of MetadataStore.  The last part is about ordered mode.           *)
(***************************************************************************)
EXTENDS JournalProof, JournalRefinement, FiniteSetTheorems, WellFoundedInduction

USE DEF deviceVars, memVars, histVars, faultVars

-----------------------------------------------------------------------------
(* What a recovery of an image does                                        *)

HeadTables == [Nat -> Heads]
States == [Blocks -> Nat]
Images == [Loc -> Contents]

(* Where replay, with its head at f[q], finds the transaction of sequence  *)
(* q, the batch that it then writes in place, and the head it moves on to. *)
At(img, f, q) == FoundAt(img, f[q], q)
ReplayBatch(img, f, q) == ReplayWrites(img, At(img, f, q))
NextHead(img, f, q) == Advance(At(img, f, q), Needed(img[J(At(img, f, q))].targets))

(* From head f[seq] and sequence seq on, img holds whole transactions up   *)
(* to e; the heads that replay passes are f[seq] ... f[e].                 *)
ChainFrom(img, f, seq, e) ==
  \A q \in Nat : seq <= q /\ q < e => Found(img, f[q], q) /\ f[q + 1] = NextHead(img, f, q)

(* The transactions of the chain that write block b. *)
Writers(img, f, seq, e, b) ==
  {q \in Nat : seq <= q /\ q < e /\ M(b) \in DOMAIN ReplayBatch(img, f, q)}

(* Replaying them leaves the operations s in the blocks, whatever the      *)
(* blocks they write hold before.                                          *)
Settles(img, f, seq, e, s) ==
  \A b \in Blocks :
    LET W == Writers(img, f, seq, e, b) IN
    /\ W = {} => img[M(b)] = Image(b, s[b])
    /\ \A q \in W : (\A r \in W : r <= q) => ReplayBatch(img, f, q)[M(b)] = Image(b, s[b])

(* What the commit record of t's transaction says. *)
Sum(seq, t) ==
  <<Desc(seq, t.targets), [i \in 1 .. Len(t.targets) |-> Image(t.targets[i], t.id)]>>

(* The blocks with operation t done, from those that hold from. *)
Done(from, t) ==
  [b \in Blocks |-> IF \E i \in DOMAIN t.targets : t.targets[i] = b THEN t.id ELSE from[b]]

(* A recovery that ends before sequence e leaves s: from, or that with one *)
(* of the operations ops done.  No commit record is newer than the chain,  *)
(* except for those of operations not found done.                          *)
CommitsBelow(img, e) ==
  \A l \in JournalArea : img[l].kind = "commit" => img[l].seq < e
CommitsUpTo(img, e, ops) ==
  \A l \in JournalArea : img[l].kind = "commit" =>
    /\ img[l].seq <= e
    /\ img[l].seq = e => \E t \in ops : img[l].sum = Sum(e, t)
Outcome(img, e, s, from, ops) ==
  \/ s = from /\ CommitsUpTo(img, e, ops)
  \/ (\E t \in ops : s = Done(from, t)) /\ CommitsBelow(img, e)

(* A recovery of img replays the transactions up to sequence e and leaves s. *)
Recoverable(img, f, e, s, from, ops) ==
  LET R == RecoverySuperblock(img) IN
  /\ R.kind = "sb" /\ f[R.seq] = R.head /\ R.seq <= e
  /\ ChainFrom(img, f, R.seq, e)
  /\ ~Found(img, f[e], e)
  /\ Settles(img, f, R.seq, e, s)
  /\ Outcome(img, e, s, from, ops)

Holds(img, s) == \A b \in Blocks : img[M(b)] = Image(b, s[b])

-----------------------------------------------------------------------------
(* Records of the journal *)

LEMMA HeadFacts ==
  /\ Heads \subseteq Nat /\ 0 \in Heads
  /\ \A f \in HeadTables, q \in Nat : f[q] \in Heads
  /\ \A h \in Heads : J(h) \in JournalArea
  /\ JournalArea \subseteq Loc /\ MetaArea \subseteq Loc
  /\ \A b \in Blocks : M(b) \in MetaArea
  /\ Primary \in Loc /\ Backup \in Loc
  BY LengthAssumption DEF Heads, HeadTables, JournalArea, Loc, MetaArea

(* A record of n blocks: its descriptor, the blocks, its commit record. *)
IsRecord(img, p, q, n) ==
  /\ n \in Nat /\ n >= 1 /\ n <= MaxTargets /\ p + n + 2 <= JournalLength /\ p \in Nat
  /\ n + 1 \in 0 .. n + 1 /\ p + (n + 1) = p + n + 1 /\ p + 0 = p
  /\ \A i \in 0 .. n + 1 : p + i \in Heads
  /\ img[J(p)] \in DescSet /\ img[J(p)].kind = "desc" /\ img[J(p)].seq = q
  /\ img[J(p)].targets \in TargetLists /\ DOMAIN img[J(p)].targets = 1 .. n
  /\ img[J(p + n + 1)].kind = "commit" /\ img[J(p + n + 1)].seq = q
  /\ img[J(p + n + 1)].sum = <<img[J(p)], [i \in 1 .. n |-> img[J(p + i)]]>>

(* The blocks of a valid record are in the journal. *)
LEMMA RecordFacts ==
  ASSUME NEW img \in Images, NEW p \in Heads, NEW q, ValidTxn(img, p, q)
  PROVE  IsRecord(img, p, q, Len(img[J(p)].targets))
  <1> DEFINE n == Len(img[J(p)].targets)
  <1>0. p \in Nat
    BY HeadFacts
  <1>1. /\ img[J(p)] \in DescSet /\ img[J(p)].seq = q
        /\ n \in 1 .. MaxTargets /\ p + n + 2 <= JournalLength
        /\ img[J(p)].targets \in TargetLists
    BY ValidTxnFacts DEF Images
  <1>2. DOMAIN img[J(p)].targets = 1 .. n
    BY <1>1, TargetListFacts
  <1>3. /\ img[J(p + n + 1)].kind = "commit" /\ img[J(p + n + 1)].seq = q
        /\ img[J(p + n + 1)].sum = <<img[J(p)], [i \in 1 .. n |-> img[J(p + i)]]>>
    BY DEF ValidTxn
  <1> HIDE DEF n
  <1>4. n \in Nat /\ n >= 1 /\ n <= MaxTargets
    BY <1>1, LengthAssumption
  <1>5. \A i \in 0 .. n + 1 : p + i \in Heads
    BY <1>1, <1>4, LengthAssumption DEF Heads
  <1>6. n + 1 \in 0 .. n + 1 /\ p + (n + 1) = p + n + 1 /\ p + 0 = p
    BY <1>0, <1>4
  <1>7. img[J(p)].kind = "desc"
    BY <1>1 DEF DescSet
  <1> QED
    BY <1>0, <1>1, <1>2, <1>3, <1>4, <1>5, <1>6, <1>7 DEF n, IsRecord

(* The fields of a commit record. *)
LEMMA CommitFacts ==
  ASSUME NEW c \in Contents, c.kind = "commit"
  PROVE  /\ c \in [kind : {"commit"}, seq : Nat, sum : DescSet \X Seq(ImageSet)]
         /\ c.seq \in Nat /\ c.sum[2] \in Seq(ImageSet) /\ c = Commit(c.seq, c.sum)
  <1>1. c \in [kind : {"commit"}, seq : Nat, sum : DescSet \X Seq(ImageSet)]
    BY DEF Contents, SuperblockSet, ImageSet, DescSet, Torn, Zero
  <1> QED
    BY <1>1 DEF Commit

(* A record is one wherever its blocks are. *)
LEMMA SameRecord ==
  ASSUME NEW img \in Images, NEW other \in Images, NEW p \in Heads, NEW q,
         ValidTxn(img, p, q),
         \A i \in 0 .. Len(img[J(p)].targets) + 1 : other[J(p + i)] = img[J(p + i)]
  PROVE  /\ ValidTxn(other, p, q)
         /\ ReplayWrites(other, p) = ReplayWrites(img, p)
         /\ other[J(p)] = img[J(p)]
  <1> DEFINE targets == img[J(p)].targets
             n == Len(targets)
  <1>0. IsRecord(img, p, q, n)
    BY RecordFacts
  <1>1. n \in Nat /\ n >= 1 /\ DOMAIN targets = 1 .. n /\ p \in Nat
    BY <1>0 DEF IsRecord
  <1>2. other[J(p)] = img[J(p)]
    <2>1. 0 \in 0 .. n + 1 /\ p + 0 = p
      BY <1>1
    <2> QED
      BY <2>1
  <1>3. other[J(p + n + 1)] = img[J(p + n + 1)]
    <2>1. n + 1 \in 0 .. n + 1 /\ p + (n + 1) = p + n + 1
      BY <1>1
    <2> QED
      BY <2>1
  <1>4. \A i \in 1 .. n : other[J(p + i)] = img[J(p + i)]
    BY <1>1
  <1>5. [i \in 1 .. n |-> other[J(p + i)]] = [i \in 1 .. n |-> img[J(p + i)]]
    BY <1>4
  <1>6. ReplayWrites(other, p) = ReplayWrites(img, p)
    <2> DEFINE at(l) == CHOOSE i \in DOMAIN targets : M(targets[i]) = l
    <2>1. \A l \in {M(targets[i]) : i \in DOMAIN targets} :
             other[J(p + at(l))] = img[J(p + at(l))]
      <3> SUFFICES ASSUME NEW l \in {M(targets[i]) : i \in DOMAIN targets}
                   PROVE  other[J(p + at(l))] = img[J(p + at(l))]
        OBVIOUS
      <3>1. at(l) \in 1 .. n
        BY <1>1
      <3> QED
        BY <3>1, <1>4
    <2>2. ReplayWrites(img, p) = [l \in {M(targets[i]) : i \in DOMAIN targets} |-> img[J(p + at(l))]]
      BY DEF ReplayWrites
    <2>3. ReplayWrites(other, p) = [l \in {M(targets[i]) : i \in DOMAIN targets} |-> other[J(p + at(l))]]
      BY <1>2 DEF ReplayWrites
    <2> HIDE DEF at
    <2> QED
      BY <2>1, <2>2, <2>3
  <1> QED
    BY <1>2, <1>3, <1>5, <1>6 DEF ValidTxn

(* replay finds records where records are. *)
LEMMA FoundRecord ==
  ASSUME NEW img \in Images, NEW f \in HeadTables, NEW q \in Nat, Found(img, f[q], q)
  PROVE  At(img, f, q) \in {f[q], 0} /\ At(img, f, q) \in Heads /\ ValidTxn(img, At(img, f, q), q)
  BY HeadFacts DEF Found, FoundAt, At

(* The transaction of sequence q is found in other as in img. *)
SameFind(img, other, f, q) ==
  /\ Found(other, f[q], q)
  /\ ReplayBatch(other, f, q) = ReplayBatch(img, f, q)
  /\ NextHead(other, f, q) = NextHead(img, f, q)

(* It is, if its record is the same and none appeared at the head.         *)
LEMMA FindKept ==
  ASSUME NEW img \in Images, NEW other \in Images, NEW f \in HeadTables, NEW q \in Nat,
         Found(img, f[q], q),
         \A i \in 0 .. Len(img[J(At(img, f, q))].targets) + 1 :
            other[J(At(img, f, q) + i)] = img[J(At(img, f, q) + i)],
         ValidTxn(other, f[q], q) => ValidTxn(img, f[q], q)
  PROVE  SameFind(img, other, f, q) /\ At(other, f, q) = At(img, f, q)
  <1> DEFINE p == At(img, f, q)
  <1>1. p \in {f[q], 0} /\ p \in Heads /\ ValidTxn(img, p, q)
    BY FoundRecord
  <1>2. ValidTxn(other, p, q) /\ ReplayWrites(other, p) = ReplayWrites(img, p) /\ other[J(p)] = img[J(p)]
    <2> HIDE DEF p
    <2> QED
      BY <1>1, SameRecord DEF p
  <1>3. Found(other, f[q], q)
    BY <1>1, <1>2 DEF Found
  <1>4. At(other, f, q) = p
    BY <1>2 DEF At, FoundAt
  <1> QED
    BY <1>2, <1>3, <1>4 DEF SameFind, ReplayBatch, NextHead

(* Images with the same journal have the same transactions. *)
LEMMA JournalKept ==
  ASSUME NEW img \in Images, NEW other \in Images, \A l \in JournalArea : other[l] = img[l],
         NEW f \in HeadTables, NEW q \in Nat
  PROVE  /\ Found(other, f[q], q) <=> Found(img, f[q], q)
         /\ Found(img, f[q], q) => SameFind(img, other, f, q) /\ At(other, f, q) = At(img, f, q)
  <1>1. \A h \in Heads : ValidTxn(other, h, q) <=> ValidTxn(img, h, q)
    <2> TAKE h \in Heads
    <2>1. ASSUME ValidTxn(img, h, q) PROVE ValidTxn(other, h, q)
      <3>1. \A i \in 0 .. Len(img[J(h)].targets) + 1 : h + i \in Heads
        BY <2>1, RecordFacts DEF IsRecord
      <3>2. \A i \in 0 .. Len(img[J(h)].targets) + 1 : other[J(h + i)] = img[J(h + i)]
        BY <3>1, HeadFacts
      <3> QED
        BY <2>1, <3>2, SameRecord
    <2>2. ASSUME ValidTxn(other, h, q) PROVE ValidTxn(img, h, q)
      <3>1. \A i \in 0 .. Len(other[J(h)].targets) + 1 : h + i \in Heads
        BY <2>2, RecordFacts DEF IsRecord
      <3>2. \A i \in 0 .. Len(other[J(h)].targets) + 1 : img[J(h + i)] = other[J(h + i)]
        BY <3>1, HeadFacts
      <3> QED
        BY <2>2, <3>2, SameRecord
    <2> QED
      BY <2>1, <2>2
  <1>2. Found(other, f[q], q) <=> Found(img, f[q], q)
    BY <1>1, HeadFacts DEF Found
  <1>3. ASSUME Found(img, f[q], q)
        PROVE  SameFind(img, other, f, q) /\ At(other, f, q) = At(img, f, q)
    <2> DEFINE p == At(img, f, q)
    <2>1. p \in Heads /\ ValidTxn(img, p, q)
      BY <1>3, FoundRecord
    <2> HIDE DEF p
    <2>2. \A i \in 0 .. Len(img[J(p)].targets) + 1 : p + i \in Heads
      BY <2>1, RecordFacts DEF IsRecord
    <2>3. \A i \in 0 .. Len(img[J(p)].targets) + 1 : other[J(p + i)] = img[J(p + i)]
      BY <2>2, HeadFacts
    <2>4. ValidTxn(other, f[q], q) => ValidTxn(img, f[q], q)
      BY <1>1, HeadFacts
    <2> QED
      BY <1>3, <2>3, <2>4, FindKept DEF p
  <1> QED
    BY <1>2, <1>3

-----------------------------------------------------------------------------
(* What a recovery finds is kept                                           *)

LEMMA ChainKept ==
  ASSUME NEW img, NEW other, NEW f, NEW seq \in Nat, NEW e \in Nat,
         ChainFrom(img, f, seq, e),
         \A q \in Nat : seq <= q /\ q < e => SameFind(img, other, f, q)
  PROVE  /\ ChainFrom(other, f, seq, e)
         /\ \A b : Writers(other, f, seq, e, b) = Writers(img, f, seq, e, b)
  <1>1. ChainFrom(other, f, seq, e)
    BY DEF ChainFrom, SameFind
  <1>2. \A b : Writers(other, f, seq, e, b) = Writers(img, f, seq, e, b)
    BY DEF Writers, SameFind
  <1> QED
    BY <1>1, <1>2

(* A block that the chain writes may hold anything before.                 *)
LEMMA SettlesKept ==
  ASSUME NEW img, NEW other, NEW f, NEW seq \in Nat, NEW e \in Nat, NEW s,
         Settles(img, f, seq, e, s),
         \A q \in Nat : seq <= q /\ q < e => SameFind(img, other, f, q),
         \A b \in Blocks : other[M(b)] = img[M(b)] \/ Writers(img, f, seq, e, b) # {}
  PROVE  Settles(other, f, seq, e, s)
  <1>1. \A b : Writers(other, f, seq, e, b) = Writers(img, f, seq, e, b)
    BY DEF Writers, SameFind
  <1> SUFFICES ASSUME NEW b \in Blocks
               PROVE  LET W == Writers(other, f, seq, e, b) IN
                      /\ W = {} => other[M(b)] = Image(b, s[b])
                      /\ \A q \in W : (\A r \in W : r <= q) =>
                           ReplayBatch(other, f, q)[M(b)] = Image(b, s[b])
    BY DEF Settles
  <1> DEFINE W == Writers(img, f, seq, e, b)
  <1>2. /\ W = {} => img[M(b)] = Image(b, s[b])
        /\ \A q \in W : (\A r \in W : r <= q) => ReplayBatch(img, f, q)[M(b)] = Image(b, s[b])
    BY DEF Settles
  <1>3. \A q \in W : ReplayBatch(other, f, q) = ReplayBatch(img, f, q)
    BY DEF Writers, SameFind
  <1> HIDE DEF W
  <1>4. W = {} => other[M(b)] = Image(b, s[b])
    BY <1>2 DEF W
  <1> QED
    BY <1>1, <1>2, <1>3, <1>4 DEF W

(* Once the first transaction of the chain is in place, the rest of it     *)
(* leaves the same.                                                        *)
LEMMA OneFewer ==
  ASSUME NEW img \in Images, NEW other \in Images, \A l \in JournalArea : other[l] = img[l],
         NEW f \in HeadTables, NEW q \in Nat, NEW e \in Nat, NEW s,
         q < e, ChainFrom(img, f, q, e), Settles(img, f, q, e, s),
         \A b \in Blocks :
           other[M(b)] = IF M(b) \in DOMAIN ReplayBatch(img, f, q)
                         THEN ReplayBatch(img, f, q)[M(b)] ELSE img[M(b)]
  PROVE  Settles(other, f, q + 1, e, s)
  <1> DEFINE batch == ReplayBatch(img, f, q)
  <1>1. ASSUME NEW k \in Nat, q <= k, k < e
        PROVE  ReplayBatch(other, f, k) = ReplayBatch(img, f, k)
    <2>1. Found(img, f[k], k)
      BY <1>1 DEF ChainFrom
    <2> QED
      BY <2>1, JournalKept DEF SameFind
  <1> SUFFICES ASSUME NEW b \in Blocks
               PROVE  LET V == Writers(other, f, q + 1, e, b) IN
                      /\ V = {} => other[M(b)] = Image(b, s[b])
                      /\ \A k \in V : (\A r \in V : r <= k) =>
                           ReplayBatch(other, f, k)[M(b)] = Image(b, s[b])
    BY DEF Settles
  <1> DEFINE W == Writers(img, f, q, e, b)
             V == Writers(other, f, q + 1, e, b)
  <1>2. /\ W = {} => img[M(b)] = Image(b, s[b])
        /\ \A k \in W : (\A r \in W : r <= k) => ReplayBatch(img, f, k)[M(b)] = Image(b, s[b])
    BY DEF Settles
  <1>3. V \subseteq Nat /\ W \subseteq Nat
    BY DEF Writers
  <1>4. \A k \in Nat : k \in W <=> q <= k /\ k < e /\ M(b) \in DOMAIN ReplayBatch(img, f, k)
    BY DEF Writers
  <1>5. ASSUME NEW k \in Nat PROVE k \in V <=> k \in W /\ k # q
    <2>1. k \in V <=> q + 1 <= k /\ k < e /\ M(b) \in DOMAIN ReplayBatch(other, f, k)
      BY DEF Writers
    <2> HIDE DEF V, W
    <2>2. q + 1 <= k <=> q <= k /\ k # q
      OBVIOUS
    <2> QED
      BY <2>1, <2>2, <1>1, <1>4
  <1> HIDE DEF V, W
  <1>6. \A k \in V : k \in Nat /\ q <= k /\ k < e /\ k \in W
    BY <1>3, <1>4, <1>5
  <1>7. CASE M(b) \in DOMAIN batch
    <2>1. q \in W /\ other[M(b)] = batch[M(b)]
      BY <1>4, <1>7
    <2>2. ASSUME V = {} PROVE other[M(b)] = Image(b, s[b])
      <3>1. \A r \in W : r = q
        BY <2>2, <1>3, <1>5
      <3>2. \A r \in W : r <= q
        BY <3>1
      <3> QED
        BY <2>1, <3>2, <1>2
    <2>3. ASSUME NEW k \in V, \A r \in V : r <= k
          PROVE  ReplayBatch(other, f, k)[M(b)] = Image(b, s[b])
      <3>1. \A r \in W : r <= k
        BY <2>3, <1>3, <1>5, <1>6
      <3> QED
        BY <3>1, <1>1, <1>2, <1>6
    <2> QED
      BY <2>2, <2>3 DEF V
  <1>8. CASE M(b) \notin DOMAIN batch
    <2>1. q \notin W
      BY <1>4, <1>8
    <2>2. V = W
      BY <2>1, <1>3, <1>5
    <2>3. other[M(b)] = img[M(b)]
      BY <1>8
    <2> QED
      BY <2>2, <2>3, <1>1, <1>2, <1>6 DEF V
  <1> QED
    BY <1>7, <1>8

LEMMA OutcomeKept ==
  ASSUME NEW img, NEW other, \A l \in JournalArea : other[l] = img[l],
         NEW e, NEW s, NEW from, NEW ops, Outcome(img, e, s, from, ops)
  PROVE  Outcome(other, e, s, from, ops)
  BY DEF Outcome, CommitsBelow, CommitsUpTo

LEMMA SuperblockType ==
  ASSUME NEW img \in Images, RecoverySuperblock(img).kind = "sb"
  PROVE  RecoverySuperblock(img).head \in Heads /\ RecoverySuperblock(img).seq \in Nat
  BY RecoverySuperblockType DEF SuperblockSet, Images

(* A recovery from the same place does the same, if the images differ only *)
(* in blocks that it writes.                                               *)
LEMMA RecoverableKept ==
  ASSUME NEW img \in Images, NEW other \in Images, \A l \in JournalArea : other[l] = img[l],
         NEW f \in HeadTables, NEW e \in Nat, NEW s, NEW from, NEW ops,
         Recoverable(img, f, e, s, from, ops),
         RecoverySuperblock(other).kind = "sb",
         RecoverySuperblock(other).seq = RecoverySuperblock(img).seq,
         RecoverySuperblock(other).head = RecoverySuperblock(img).head,
         \A b \in Blocks :
           other[M(b)] = img[M(b)] \/ Writers(img, f, RecoverySuperblock(img).seq, e, b) # {}
  PROVE  Recoverable(other, f, e, s, from, ops)
  <1> DEFINE seq == RecoverySuperblock(img).seq
  <1>1. /\ RecoverySuperblock(img).kind = "sb" /\ f[seq] = RecoverySuperblock(img).head /\ seq <= e
        /\ ChainFrom(img, f, seq, e) /\ ~Found(img, f[e], e)
        /\ Settles(img, f, seq, e, s) /\ Outcome(img, e, s, from, ops)
    BY DEF Recoverable
  <1>2. seq \in Nat
    BY <1>1, SuperblockType
  <1> HIDE DEF seq
  <1>3. \A q \in Nat : seq <= q /\ q < e => SameFind(img, other, f, q)
    BY <1>1, JournalKept DEF ChainFrom
  <1>4. ChainFrom(other, f, seq, e)
    BY <1>1, <1>2, <1>3, ChainKept
  <1>5. Settles(other, f, seq, e, s)
    BY <1>1, <1>2, <1>3, SettlesKept DEF seq
  <1>6. ~Found(other, f[e], e)
    BY <1>1, JournalKept
  <1>7. Outcome(other, e, s, from, ops)
    BY <1>1, OutcomeKept
  <1> QED
    BY <1>1, <1>4, <1>5, <1>6, <1>7 DEF Recoverable, seq

(* It stays one when more operations may be found done. *)
LEMMA RecoverableGrows ==
  ASSUME NEW img, NEW f, NEW e, NEW s, NEW from, NEW ops, NEW more, ops \subseteq more,
         Recoverable(img, f, e, s, from, ops)
  PROVE  Recoverable(img, f, e, s, from, more)
  BY DEF Recoverable, Outcome, CommitsUpTo

(* A recovery that starts where the chain ends replays nothing.            *)
LEMMA NothingToReplay ==
  ASSUME NEW img \in Images, NEW f \in HeadTables, NEW e \in Nat, NEW s, NEW from, NEW ops,
         RecoverySuperblock(img).kind = "sb",
         RecoverySuperblock(img).seq = e, RecoverySuperblock(img).head = f[e],
         ~Found(img, f[e], e), Outcome(img, e, s, from, ops), Holds(img, s)
  PROVE  Recoverable(img, f, e, s, from, ops)
  <1>1. ChainFrom(img, f, e, e)
    BY DEF ChainFrom
  <1>2. \A b : Writers(img, f, e, e, b) = {}
    BY DEF Writers
  <1>3. Settles(img, f, e, e, s)
    BY <1>2 DEF Settles, Holds
  <1> QED
    BY <1>1, <1>3 DEF Recoverable

(* Then the blocks hold what it leaves.                                    *)
LEMMA NothingReplayed ==
  ASSUME NEW img, NEW f, NEW e \in Nat, NEW s, Settles(img, f, e, e, s)
  PROVE  Holds(img, s)
  <1>1. \A b : Writers(img, f, e, e, b) = {}
    BY DEF Writers
  <1> QED
    BY <1>1 DEF Settles, Holds

-----------------------------------------------------------------------------
(* A transaction on its way into the journal                               *)

(* A record in the journal of img made by an operation numbered below n. *)
OlderThan(img, n) ==
  \A l \in JournalArea : img[l].kind = "commit" =>
    \A i \in DOMAIN img[l].sum[2] : img[l].sum[2][i].id < n

(* img has the journal of old, on which part of a transaction landed, some *)
(* of it torn.                                                             *)
PartlyLogged(old, img, pos, q, t) ==
  LET ws == JournalWrites(pos, q, t) IN
  \A l \in JournalArea : img[l] = old[l] \/ (l \in DOMAIN ws /\ img[l] \in {ws[l], Torn})

LEMMA LogFacts ==
  ASSUME NEW pos \in Heads, NEW q \in Nat, NEW t \in TxnSet,
         pos + Needed(t.targets) <= JournalLength
  PROVE  LET ws == JournalWrites(pos, q, t)
             n == Len(t.targets) IN
         /\ n \in Nat /\ n >= 1 /\ n <= MaxTargets /\ Needed(t.targets) = n + 2
         /\ DOMAIN ws = {J(pos + i) : i \in 0 .. n + 1} /\ DOMAIN ws \subseteq JournalArea
         /\ ws[J(pos)] = Desc(q, t.targets)
         /\ \A i \in 1 .. n : ws[J(pos + i)] = Image(t.targets[i], t.id)
         /\ ws[J(pos + n + 1)] = Commit(q, Sum(q, t))
         /\ \A l \in DOMAIN ws : /\ ws[l].kind = "desc" => l = J(pos)
                                 /\ ws[l].kind = "commit" => l = J(pos + n + 1)
                                 /\ ws[l].kind = "block" => ws[l].id = t.id
  <1> DEFINE ws == JournalWrites(pos, q, t)
             n == Len(t.targets)
             desc == Desc(q, t.targets)
             blocks == [i \in 1 .. n |-> Image(t.targets[i], t.id)]
  <1>1. n \in Nat /\ n >= 1 /\ n <= MaxTargets /\ Needed(t.targets) = n + 2 /\ pos \in Nat
    BY TargetListFacts, LengthAssumption, HeadFacts DEF TxnSet, Needed
  <1>2. DOMAIN ws = {J(pos + i) : i \in 0 .. n + 1} /\ DOMAIN ws \subseteq JournalArea
    BY JournalWritesType DEF JournalWrites
  <1>3. \A l \in DOMAIN ws : ws[l] = IF l = J(pos) THEN desc
                                     ELSE IF l = J(pos + n + 1) THEN Commit(q, <<desc, blocks>>)
                                     ELSE blocks[l[2] - pos]
    BY <1>2 DEF JournalWrites
  <1>4. Commit(q, <<desc, blocks>>) = Commit(q, Sum(q, t))
    BY DEF Sum
  <1> HIDE DEF ws, desc, n
  <1>5. ws[J(pos)] = desc
    <2>1. J(pos) \in DOMAIN ws
      <3>1. 0 \in 0 .. n + 1 /\ pos + 0 = pos
        BY <1>1
      <3> QED
        BY <3>1, <1>2
    <2> QED
      BY <2>1, <1>3
  <1>6. ws[J(pos + n + 1)] = Commit(q, Sum(q, t))
    <2>1. n + 1 \in 0 .. n + 1 /\ pos + (n + 1) = pos + n + 1
      BY <1>1
    <2>2. J(pos + n + 1) \in DOMAIN ws /\ J(pos + n + 1) # J(pos)
      BY <2>1, <1>1, <1>2 DEF J
    <2> QED
      BY <2>2, <1>3, <1>4
  <1>7. ASSUME NEW i \in 1 .. n PROVE ws[J(pos + i)] = Image(t.targets[i], t.id)
    <2>1. J(pos + i) \in DOMAIN ws
      BY <1>1, <1>2
    <2>2. J(pos + i) # J(pos) /\ J(pos + i) # J(pos + n + 1) /\ J(pos + i)[2] - pos = i
      BY <1>1 DEF J
    <2>3. ws[J(pos + i)] = blocks[i]
      BY <2>1, <2>2, <1>3
    <2> QED
      BY <2>3
  <1>8. ASSUME NEW l \in DOMAIN ws
        PROVE  /\ ws[l].kind = "desc" => l = J(pos)
               /\ ws[l].kind = "commit" => l = J(pos + n + 1)
               /\ ws[l].kind = "block" => ws[l].id = t.id
    <2>1. PICK i \in 0 .. n + 1 : l = J(pos + i)
      BY <1>2
    <2>2. CASE i = 0
      BY <2>1, <2>2, <1>1, <1>5 DEF desc, Desc
    <2>3. CASE i = n + 1
      <3>1. l = J(pos + n + 1)
        BY <2>1, <2>3, <1>1
      <3> QED
        BY <3>1, <1>6 DEF Commit
    <2>4. CASE i \in 1 .. n
      <3>1. ws[l] = Image(t.targets[i], t.id)
        BY <2>1, <2>4, <1>7
      <3>2. ws[l].kind = "block" /\ ws[l].id = t.id
        BY <3>1 DEF Image
      <3> QED
        BY <3>2
    <2> QED
      BY <2>2, <2>3, <2>4, <1>1
  <1> QED
    BY <1>1, <1>2, <1>5, <1>6, <1>7, <1>8 DEF ws, desc, n

(* Any record but the new one was there before, whole: an old commit       *)
(* record does not sum up new blocks.                                      *)
LEMMA OldRecord ==
  ASSUME NEW old \in Images, NEW img \in Images,
         NEW pos \in Heads, NEW q \in Nat, NEW t \in TxnSet,
         pos + Needed(t.targets) <= JournalLength,
         PartlyLogged(old, img, pos, q, t), OlderThan(old, t.id),
         NEW p \in Heads, NEW k, ValidTxn(img, p, k), p # pos \/ k # q
  PROVE  /\ \A i \in 0 .. Len(img[J(p)].targets) + 1 : old[J(p + i)] = img[J(p + i)]
         /\ ValidTxn(old, p, k)
  <1> DEFINE ws == JournalWrites(pos, q, t)
             m == Len(t.targets)
             n == Len(img[J(p)].targets)
  <1>0. IsRecord(img, p, k, n)
    BY RecordFacts
  <1>1. /\ n \in Nat /\ n >= 1 /\ p \in Nat
        /\ n + 1 \in 0 .. n + 1 /\ p + (n + 1) = p + n + 1 /\ p + 0 = p
        /\ img[J(p)].kind = "desc" /\ img[J(p)].seq = k
        /\ \A i \in 0 .. n + 1 : p + i \in Heads
        /\ img[J(p + n + 1)].kind = "commit" /\ img[J(p + n + 1)].seq = k
        /\ img[J(p + n + 1)].sum = <<img[J(p)], [i \in 1 .. n |-> img[J(p + i)]]>>
    BY <1>0 DEF IsRecord
  <1>2. /\ m \in Nat /\ m >= 1 /\ pos \in Nat
        /\ ws[J(pos)] = Desc(q, t.targets) /\ ws[J(pos + m + 1)] = Commit(q, Sum(q, t))
        /\ \A l \in DOMAIN ws : /\ ws[l].kind = "desc" => l = J(pos)
                                /\ ws[l].kind = "commit" => l = J(pos + m + 1)
                                /\ ws[l].kind = "block" => ws[l].id = t.id
    BY LogFacts, HeadFacts
  <1>3. \A l \in JournalArea : img[l] = old[l] \/ (l \in DOMAIN ws /\ img[l] \in {ws[l], Torn})
    BY DEF PartlyLogged
  <1>4. Torn.kind = "torn"
    BY DEF Torn
  <1> HIDE DEF ws, m, n
  <1>5. J(p) \in JournalArea /\ J(p + n + 1) \in JournalArea
    BY <1>1, HeadFacts
  <1>6. old[J(p)] = img[J(p)]
    <2> SUFFICES ASSUME old[J(p)] # img[J(p)] PROVE FALSE
      OBVIOUS
    <2>1. J(p) \in DOMAIN ws /\ img[J(p)] = ws[J(p)]
      BY <1>1, <1>3, <1>4, <1>5
    <2>2. p = pos
      BY <2>1, <1>1, <1>2 DEF J
    <2>3. k = q
      BY <2>1, <2>2, <1>1, <1>2 DEF Desc
    <2> QED
      BY <2>2, <2>3
  <1>7. old[J(p + n + 1)] = img[J(p + n + 1)]
    <2> SUFFICES ASSUME old[J(p + n + 1)] # img[J(p + n + 1)] PROVE FALSE
      OBVIOUS
    <2>1. J(p + n + 1) \in DOMAIN ws /\ img[J(p + n + 1)] = ws[J(p + n + 1)]
      BY <1>1, <1>3, <1>4, <1>5
    <2>2. J(p + n + 1) = J(pos + m + 1)
      BY <2>1, <1>1, <1>2
    <2>3. p + n + 1 = pos + m + 1
      BY <2>2 DEF J
    <2>4. img[J(p + n + 1)] = Commit(q, Sum(q, t))
      BY <2>1, <2>2, <1>2
    <2>5. k = q /\ img[J(p)] = Desc(q, t.targets)
      BY <2>4, <1>1 DEF Commit, Sum
    <2>6. n = m
      BY <2>5 DEF n, m, Desc
    <2> QED
      BY <2>3, <2>5, <2>6, <1>1, <1>2
  <1>8. ASSUME NEW i \in 1 .. n PROVE old[J(p + i)] = img[J(p + i)]
    <2> SUFFICES ASSUME old[J(p + i)] # img[J(p + i)] PROVE FALSE
      OBVIOUS
    <2>1. J(p + i) \in JournalArea
      BY <1>1, HeadFacts
    <2> DEFINE sum == old[J(p + n + 1)].sum
    <2>2. sum = <<img[J(p)], [j \in 1 .. n |-> img[J(p + j)]]>> /\ old[J(p + n + 1)].kind = "commit"
      BY <1>1, <1>7
    <2>3. sum[2][i] = img[J(p + i)] /\ i \in DOMAIN sum[2]
      BY <2>2
    <2>4. img[J(p + i)].id < t.id
      BY <2>2, <2>3, <1>5 DEF OlderThan
    <2>5. img[J(p + i)].kind = "block"
      <3>1. img[J(p + n + 1)] \in Contents
        BY <1>5, HeadFacts DEF Images
      <3>3. sum[2] \in Seq(ImageSet)
        BY <3>1, <1>1, <1>7, CommitFacts
      <3>4. sum[2][i] \in ImageSet
        BY <3>3, <2>3
      <3> QED
        BY <3>4, <2>3 DEF ImageSet
    <2>6. J(p + i) \in DOMAIN ws /\ img[J(p + i)] = ws[J(p + i)]
      BY <2>1, <2>5, <1>3, <1>4
    <2>7. img[J(p + i)].id = t.id
      BY <2>5, <2>6, <1>2
    <2>8. t.id \in Nat
      BY DEF TxnSet
    <2> QED
      BY <2>4, <2>7, <2>8
  <1>9. \A i \in 0 .. n + 1 : old[J(p + i)] = img[J(p + i)]
    <2> TAKE i \in 0 .. n + 1
    <2>1. CASE i = 0
      <3>1. p + i = p
        BY <2>1, <1>1
      <3> QED
        BY <3>1, <1>6
    <2>2. CASE i = n + 1
      <3>1. p + i = p + n + 1
        BY <2>2, <1>1
      <3> QED
        BY <3>1, <1>7
    <2> QED
      BY <2>1, <2>2, <1>1, <1>8
  <1>10. ValidTxn(old, p, k)
    BY <1>9, SameRecord DEF n
  <1> QED
    BY <1>9, <1>10 DEF n

(* A record that sums up the transaction of t replays it.                  *)
LEMMA RecordOf ==
  ASSUME NEW img \in Images, NEW p \in Heads, NEW q \in Nat, ValidTxn(img, p, q),
         NEW t \in TxnSet, img[J(p + Len(img[J(p)].targets) + 1)].sum = Sum(q, t)
  PROVE  ReplayWrites(img, p) = ApplyWrites(t) /\ img[J(p)].targets = t.targets
  <1> DEFINE n == Len(img[J(p)].targets)
             m == Len(t.targets)
             ws == JournalWrites(p, q, t)
  <1>0. IsRecord(img, p, q, n)
    BY RecordFacts
  <1>1. /\ n \in Nat /\ n >= 1 /\ p + n + 2 <= JournalLength /\ p \in Nat
        /\ n + 1 \in 0 .. n + 1 /\ p + (n + 1) = p + n + 1
        /\ \A i \in 0 .. n + 1 : p + i \in Heads
        /\ img[J(p + n + 1)].kind = "commit" /\ img[J(p + n + 1)].seq = q
        /\ img[J(p + n + 1)].sum = <<img[J(p)], [i \in 1 .. n |-> img[J(p + i)]]>>
    BY <1>0 DEF IsRecord
  <1>2. <<img[J(p)], [i \in 1 .. n |-> img[J(p + i)]]>> = Sum(q, t)
    BY <1>1
  <1>3. img[J(p)] = Desc(q, t.targets) /\ [i \in 1 .. n |-> img[J(p + i)]] = [i \in 1 .. m |-> Image(t.targets[i], t.id)]
    BY <1>2 DEF Sum
  <1>4. img[J(p)].targets = t.targets /\ n = m
    BY <1>3 DEF Desc
  <1>5. \A i \in 1 .. n : img[J(p + i)] = Image(t.targets[i], t.id)
    BY <1>3, <1>4
  <1>6. img[J(p + n + 1)] = Commit(q, Sum(q, t))
    <2>1. img[J(p + n + 1)] \in Contents
      BY <1>1, HeadFacts DEF Images
    <2> HIDE DEF n
    <2> QED
      BY <2>1, <1>1, <1>2, CommitFacts
  <1>7. p + Needed(t.targets) <= JournalLength
    BY <1>1, <1>4 DEF Needed
  <1>8. /\ DOMAIN ws = {J(p + i) : i \in 0 .. m + 1}
        /\ ws[J(p)] = Desc(q, t.targets)
        /\ \A i \in 1 .. m : ws[J(p + i)] = Image(t.targets[i], t.id)
        /\ ws[J(p + m + 1)] = Commit(q, Sum(q, t))
    BY <1>7, LogFacts
  <1> HIDE DEF n, m, ws
  <1>9. \A l \in DOMAIN ws : img[l] = ws[l]
    <2> SUFFICES ASSUME NEW i \in 0 .. m + 1 PROVE img[J(p + i)] = ws[J(p + i)]
      BY <1>8
    <2>1. CASE i = 0
      <3>1. p + i = p
        BY <2>1, <1>1
      <3> QED
        BY <3>1, <1>3, <1>8
    <2>2. CASE i = m + 1
      <3>1. p + i = p + m + 1
        BY <2>2, <1>1, <1>4
      <3> QED
        BY <3>1, <1>4, <1>6, <1>8
    <2>3. CASE i \in 1 .. m
      BY <2>3, <1>4, <1>5, <1>8
    <2> QED
      BY <2>1, <2>2, <2>3, <1>1, <1>4
  <1>10. ReplayWrites(img, p) = ApplyWrites(t)
    BY <1>7, <1>9, LoggedTxn DEF ws, Images
  <1> QED
    BY <1>4, <1>10

(* The head of a chain, once one more transaction is found.                *)
WithHead(img, f, q) == [f EXCEPT ![q + 1] = NextHead(img, f, q)]

LEMMA ApplyFacts ==
  ASSUME NEW t \in TxnSet, NEW from
  PROVE  /\ DOMAIN ApplyWrites(t) \subseteq MetaArea
         /\ \A b : M(b) \in DOMAIN ApplyWrites(t) <=> \E i \in DOMAIN t.targets : t.targets[i] = b
         /\ \A b : M(b) \in DOMAIN ApplyWrites(t) => ApplyWrites(t)[M(b)] = Image(b, t.id)
         /\ \A b \in Blocks : M(b) \in DOMAIN ApplyWrites(t) => Done(from, t)[b] = t.id
         /\ \A b \in Blocks : M(b) \notin DOMAIN ApplyWrites(t) => Done(from, t)[b] = from[b]
         /\ \E b \in Blocks : M(b) \in DOMAIN ApplyWrites(t)
  <1>1. DOMAIN ApplyWrites(t) \subseteq MetaArea
    BY ApplyWritesType
  <1>2. \A b : M(b) \in DOMAIN ApplyWrites(t) <=> \E i \in DOMAIN t.targets : t.targets[i] = b
    BY DEF ApplyWrites, M
  <1>3. \A b : M(b) \in DOMAIN ApplyWrites(t) => ApplyWrites(t)[M(b)] = Image(b, t.id)
    BY DEF ApplyWrites, M
  <1>4. 1 \in DOMAIN t.targets /\ t.targets[1] \in Blocks
    BY TargetListFacts, LengthAssumption DEF TxnSet
  <1> QED
    BY <1>1, <1>2, <1>3, <1>4 DEF Done

(* If a transaction of a candidate follows the chain, a recovery replays   *)
(* it as well, and leaves that candidate done.                             *)
LEMMA OneMore ==
  ASSUME NEW img \in Images, NEW f \in HeadTables, NEW q \in Nat, NEW from, NEW ops,
         RecoverySuperblock(img).kind = "sb",
         f[RecoverySuperblock(img).seq] = RecoverySuperblock(img).head,
         RecoverySuperblock(img).seq <= q,
         ChainFrom(img, f, RecoverySuperblock(img).seq, q),
         Settles(img, f, RecoverySuperblock(img).seq, q, from),
         CommitsUpTo(img, q, ops),
         Found(img, f[q], q),
         NEW t \in ops, t \in TxnSet, ReplayBatch(img, f, q) = ApplyWrites(t)
  PROVE  /\ WithHead(img, f, q) \in HeadTables
         /\ WithHead(img, f, q)[q] = f[q]
         /\ WithHead(img, f, q)[q + 1] = NextHead(img, f, q)
         /\ Recoverable(img, WithHead(img, f, q), q + 1, Done(from, t), from, ops)
         /\ CommitsBelow(img, q + 1)
  <1> DEFINE g == WithHead(img, f, q)
             R == RecoverySuperblock(img)
             seq == R.seq
             batch == ReplayBatch(img, f, q)
  <1>1. seq \in Nat /\ R.head \in Heads
    BY SuperblockType
  <1>2. NextHead(img, f, q) \in Heads
    <2>1. At(img, f, q) \in Heads /\ ValidTxn(img, At(img, f, q), q)
      BY FoundRecord
    <2>2. Needed(img[J(At(img, f, q))].targets) \in Nat
      BY <2>1, RecordFacts DEF IsRecord, Needed
    <2> QED
      BY <2>1, <2>2, AdvanceType, HeadFacts DEF NextHead
  <1>3. g \in HeadTables /\ g[q + 1] = NextHead(img, f, q) /\ \A k \in Nat : k # q + 1 => g[k] = f[k]
    BY <1>2 DEF HeadTables, WithHead
  <1>4. \A k \in Nat : k <= q => g[k] = f[k]
    BY <1>3
  <1>5. g[q] = f[q]
    BY <1>4
  <1>6. \A k \in Nat : k <= q =>
          /\ ReplayBatch(img, g, k) = ReplayBatch(img, f, k)
          /\ NextHead(img, g, k) = NextHead(img, f, k)
    BY <1>4 DEF ReplayBatch, NextHead, At
  <1> HIDE DEF g, R, seq
  <1>7. ChainFrom(img, g, seq, q + 1)
    <2> SUFFICES ASSUME NEW k \in Nat, seq <= k, k < q + 1
                 PROVE  Found(img, g[k], k) /\ g[k + 1] = NextHead(img, g, k)
      BY DEF ChainFrom
    <2>1. CASE k = q
      BY <2>1, <1>3, <1>5, <1>6
    <2>2. CASE k # q
      <3>1. k < q /\ k + 1 \in Nat /\ k + 1 <= q
        BY <2>2
      <3>2. Found(img, f[k], k) /\ f[k + 1] = NextHead(img, f, k)
        BY <3>1 DEF ChainFrom, seq, R
      <3> QED
        BY <3>1, <3>2, <1>4, <1>6
    <2> QED
      BY <2>1, <2>2
  <1>8. CommitsBelow(img, q + 1)
    <2> SUFFICES ASSUME NEW l \in JournalArea, img[l].kind = "commit" PROVE img[l].seq < q + 1
      BY DEF CommitsBelow
    <2>1. img[l].seq \in Nat
      BY CommitFacts, HeadFacts DEF Images
    <2>2. img[l].seq <= q
      BY DEF CommitsUpTo
    <2> QED
      BY <2>1, <2>2
  <1>9. ~Found(img, g[q + 1], q + 1)
    <2> SUFFICES ASSUME Found(img, g[q + 1], q + 1) PROVE FALSE
      OBVIOUS
    <2> DEFINE p == At(img, g, q + 1)
               n == Len(img[J(p)].targets)
    <2>1. p \in Heads /\ ValidTxn(img, p, q + 1)
      BY <1>3, FoundRecord
    <2>2. IsRecord(img, p, q + 1, n)
      BY <2>1, RecordFacts
    <2> HIDE DEF p, n
    <2>3. J(p + n + 1) \in JournalArea /\ img[J(p + n + 1)].kind = "commit" /\ img[J(p + n + 1)].seq = q + 1
      BY <2>2, HeadFacts DEF IsRecord
    <2>4. img[J(p + n + 1)].seq < q + 1
      BY <2>3, <1>8 DEF CommitsBelow
    <2> QED
      BY <2>3, <2>4
  <1>10. Settles(img, g, seq, q + 1, Done(from, t))
    <2> SUFFICES ASSUME NEW b \in Blocks
                 PROVE  LET W == Writers(img, g, seq, q + 1, b) IN
                        /\ W = {} => img[M(b)] = Image(b, Done(from, t)[b])
                        /\ \A k \in W : (\A r \in W : r <= k) =>
                             ReplayBatch(img, g, k)[M(b)] = Image(b, Done(from, t)[b])
      BY DEF Settles
    <2> DEFINE W == Writers(img, f, seq, q, b)
               V == Writers(img, g, seq, q + 1, b)
    <2>1. \A k \in Nat : k \in V <=>
            seq <= k /\ k < q + 1 /\ M(b) \in DOMAIN ReplayBatch(img, f, k)
      BY <1>6 DEF Writers
    <2>2. \A k \in Nat : k \in W <=>
            seq <= k /\ k < q /\ M(b) \in DOMAIN ReplayBatch(img, f, k)
      BY DEF Writers
    <2>3. V \subseteq Nat /\ W \subseteq Nat
      BY DEF Writers
    <2>4. /\ W = {} => img[M(b)] = Image(b, from[b])
          /\ \A k \in W : (\A r \in W : r <= k) => ReplayBatch(img, f, k)[M(b)] = Image(b, from[b])
      BY DEF Settles, seq, R
    <2>5. seq <= q
      BY DEF seq, R
    <2> HIDE DEF W, V
    <2>6. CASE M(b) \in DOMAIN batch
      <3>1. q \in V
        BY <2>1, <2>5, <2>6
      <3>2. Done(from, t)[b] = t.id /\ batch[M(b)] = Image(b, t.id)
        BY <2>6, ApplyFacts
      <3>3. ASSUME NEW k \in V, \A r \in V : r <= k
            PROVE  ReplayBatch(img, g, k)[M(b)] = Image(b, Done(from, t)[b])
        <4>1. k \in Nat /\ q <= k /\ k < q + 1
          BY <2>1, <2>3, <3>1, <3>3
        <4>2. k = q
          BY <4>1
        <4> QED
          BY <4>2, <3>2, <1>6
      <3> QED
        BY <3>1, <3>3 DEF V
    <2>7. CASE M(b) \notin DOMAIN batch
      <3>1. V = W
        <4>1. \A k \in Nat : k \in V <=> k \in W
          BY <1>1, <2>1, <2>2, <2>7
        <4> QED
          BY <4>1, <2>3
      <3>2. Done(from, t)[b] = from[b]
        BY <2>7, ApplyFacts
      <3>3. ASSUME NEW k \in W PROVE k \in Nat /\ k <= q
        <4>1. k \in Nat
          BY <2>3
        <4>2. k < q
          BY <4>1, <2>2
        <4> QED
          BY <4>1, <4>2
      <3>4. \A k \in W : ReplayBatch(img, g, k) = ReplayBatch(img, f, k)
        BY <3>3, <1>6
      <3> QED
        BY <3>1, <3>2, <3>4, <2>4 DEF V
    <2> QED
      BY <2>6, <2>7
  <1>11. Outcome(img, q + 1, Done(from, t), from, ops)
    BY <1>8 DEF Outcome
  <1>12. g[seq] = R.head /\ seq <= q + 1 /\ R.kind = "sb"
    <2>1. seq <= q /\ f[seq] = R.head /\ R.kind = "sb"
      BY DEF seq, R
    <2> QED
      BY <2>1, <1>1, <1>4
  <1>13. Recoverable(img, g, q + 1, Done(from, t), from, ops)
    BY <1>7, <1>9, <1>10, <1>11, <1>12 DEF Recoverable, seq, R
  <1> QED
    BY <1>3, <1>5, <1>8, <1>13 DEF g

(* Its commit records are of the chain, or of a candidate that follows it. *)
LEMMA LoggedCommits ==
  ASSUME NEW old \in Images, NEW img \in Images, NEW q \in Nat,
         NEW from, NEW s, NEW ops, NEW u \in ops, u \in TxnSet,
         Outcome(old, q, s, from, ops),
         NEW pos \in Heads, pos + Needed(u.targets) <= JournalLength,
         PartlyLogged(old, img, pos, q, u)
  PROVE  CommitsUpTo(img, q, ops)
  <1> SUFFICES ASSUME NEW l \in JournalArea, img[l].kind = "commit"
               PROVE  /\ img[l].seq <= q
                      /\ img[l].seq = q => \E t \in ops : img[l].sum = Sum(q, t)
    BY DEF CommitsUpTo
  <1>1. CASE img[l] = old[l]
    <2>1. CASE CommitsUpTo(old, q, ops)
      BY <1>1, <2>1 DEF CommitsUpTo
    <2>2. CASE CommitsBelow(old, q)
      <3>1. img[l].seq \in Nat
        BY CommitFacts, HeadFacts DEF Images
      <3>2. img[l].seq < q
        BY <1>1, <2>2 DEF CommitsBelow
      <3> QED
        BY <3>1, <3>2
    <2> QED
      BY <2>1, <2>2 DEF Outcome
  <1>2. CASE img[l] # old[l]
    <2> DEFINE ws == JournalWrites(pos, q, u)
    <2>1. l \in DOMAIN ws /\ img[l] \in {ws[l], Torn}
      BY <1>2 DEF PartlyLogged
    <2>2. img[l] = ws[l]
      BY <2>1 DEF Torn
    <2>3. /\ ws[J(pos + Len(u.targets) + 1)] = Commit(q, Sum(q, u))
          /\ \A k \in DOMAIN ws : ws[k].kind = "commit" => k = J(pos + Len(u.targets) + 1)
      BY LogFacts
    <2> HIDE DEF ws
    <2>4. img[l] = Commit(q, Sum(q, u))
      BY <2>1, <2>2, <2>3
    <2> QED
      BY <2>4 DEF Commit
  <1> QED
    BY <1>1, <1>2

(* The image of old after part of the transaction in flight landed in the  *)
(* journal, some of it torn, and perhaps a superblock that says where it   *)
(* goes, is one a recovery makes whole: it finds that transaction, or that *)
(* of a candidate whose record the new blocks completed, or nothing new.   *)
LEMMA LogLanded ==
  ASSUME NEW old \in Images, NEW img \in Images, NEW f \in HeadTables, NEW q \in Nat,
         NEW from \in States, NEW ops \in SUBSET TxnSet, NEW u \in ops,
         Recoverable(old, f, q, from, from, ops), Holds(old, from),
         NEW pos \in Heads, pos + Needed(u.targets) <= JournalLength,
         PartlyLogged(old, img, pos, q, u), OlderThan(old, u.id),
         \A b \in Blocks : img[M(b)] = old[M(b)],
         RecoverySuperblock(img).kind = "sb",
         \/ /\ RecoverySuperblock(img).seq = RecoverySuperblock(old).seq
            /\ RecoverySuperblock(img).head = RecoverySuperblock(old).head
            /\ \A k \in Nat : RecoverySuperblock(old).seq <= k /\ k < q =>
                 \A i \in 0 .. Len(old[J(At(old, f, k))].targets) + 1 :
                   img[J(At(old, f, k) + i)] = old[J(At(old, f, k) + i)]
         \/ RecoverySuperblock(img).seq = q /\ RecoverySuperblock(img).head = f[q]
  PROVE  \E g \in HeadTables, e \in {q, q + 1}, s \in States : Recoverable(img, g, e, s, from, ops)
  <1> DEFINE seq == RecoverySuperblock(img).seq
             head == RecoverySuperblock(img).head
  <1>1. /\ f[RecoverySuperblock(old).seq] = RecoverySuperblock(old).head
        /\ RecoverySuperblock(old).seq <= q
        /\ ChainFrom(old, f, RecoverySuperblock(old).seq, q)
        /\ Settles(old, f, RecoverySuperblock(old).seq, q, from)
        /\ Outcome(old, q, from, from, ops)
    BY DEF Recoverable
  <1>2. seq \in Nat /\ f[seq] = head /\ seq <= q
    BY <1>1, SuperblockType
  <1>3. seq = q \/ /\ seq = RecoverySuperblock(old).seq
                   /\ \A k \in Nat : seq <= k /\ k < q =>
                        \A i \in 0 .. Len(old[J(At(old, f, k))].targets) + 1 :
                          img[J(At(old, f, k) + i)] = old[J(At(old, f, k) + i)]
    OBVIOUS
  <1>4. ChainFrom(old, f, seq, q) /\ Settles(old, f, seq, q, from)
    <2>1. CASE seq = q
      <3>1. ChainFrom(old, f, q, q) /\ \A b : Writers(old, f, q, q, b) = {}
        BY DEF ChainFrom, Writers
      <3>2. Settles(old, f, q, q, from)
        BY <3>1 DEF Settles, Holds
      <3> QED
        BY <2>1, <3>1, <3>2
    <2>2. CASE seq = RecoverySuperblock(old).seq
      BY <2>2, <1>1
    <2> QED
      BY <1>3, <2>1, <2>2
  <1> HIDE DEF seq, head
  <1>5. ASSUME NEW k \in Nat, seq <= k, k < q PROVE SameFind(old, img, f, k)
    <2>1. Found(old, f[k], k)
      BY <1>4, <1>5 DEF ChainFrom
    <2>2. \A i \in 0 .. Len(old[J(At(old, f, k))].targets) + 1 :
            img[J(At(old, f, k) + i)] = old[J(At(old, f, k) + i)]
      BY <1>2, <1>3, <1>5
    <2>3. ASSUME ValidTxn(img, f[k], k) PROVE ValidTxn(old, f[k], k)
      <3>1. f[k] \in Heads /\ k # q
        BY <1>5, HeadFacts
      <3> QED
        BY <2>3, <3>1, OldRecord
    <2> QED
      BY <2>1, <2>2, <2>3, FindKept
  <1>6. ChainFrom(img, f, seq, q)
    BY <1>2, <1>4, <1>5, ChainKept
  <1>7. Settles(img, f, seq, q, from)
    BY <1>2, <1>4, <1>5, SettlesKept
  <1>9. CommitsUpTo(img, q, ops)
    BY <1>1, LoggedCommits
  <1>11. CASE ~Found(img, f[q], q)
    <2>1. Outcome(img, q, from, from, ops)
      BY <1>9 DEF Outcome
    <2>2. Recoverable(img, f, q, from, from, ops)
      BY <1>2, <1>6, <1>7, <1>11, <2>1 DEF Recoverable, seq, head
    <2> QED
      BY <2>2
  <1>12. CASE Found(img, f[q], q)
    <2> DEFINE p == At(img, f, q)
               n == Len(img[J(p)].targets)
    <2>1. p \in Heads /\ ValidTxn(img, p, q)
      BY <1>12, FoundRecord
    <2>2. IsRecord(img, p, q, n)
      BY <2>1, RecordFacts
    <2>3. PICK t \in ops : img[J(p + n + 1)].sum = Sum(q, t)
      <3> HIDE DEF p, n
      <3>1. J(p + n + 1) \in JournalArea /\ img[J(p + n + 1)].kind = "commit" /\ img[J(p + n + 1)].seq = q
        BY <2>2, HeadFacts DEF IsRecord
      <3> QED
        BY <3>1, <1>9 DEF CommitsUpTo
    <2>4. t \in TxnSet
      OBVIOUS
    <2>5. ReplayBatch(img, f, q) = ApplyWrites(t)
      <3> HIDE DEF p
      <3>1. ReplayWrites(img, p) = ApplyWrites(t)
        BY <2>1, <2>3, <2>4, RecordOf
      <3> QED
        BY <3>1 DEF ReplayBatch, p
    <2>6. /\ WithHead(img, f, q) \in HeadTables
          /\ Recoverable(img, WithHead(img, f, q), q + 1, Done(from, t), from, ops)
      <3>1. f[RecoverySuperblock(img).seq] = RecoverySuperblock(img).head
        BY <1>2 DEF seq, head
      <3> QED
        BY <1>2, <1>6, <1>7, <1>9, <1>12, <2>4, <2>5, <3>1, OneMore DEF seq
    <2>7. Done(from, t) \in States
      BY <2>4 DEF Done, TxnSet, States
    <2> QED
      BY <2>6, <2>7
  <1> QED
    BY <1>11, <1>12

(* All of it landed: a recovery that starts where it belongs replays it.   *)
LEMMA LoggedWhole ==
  ASSUME NEW old \in Images, NEW img \in Images, NEW f \in HeadTables, NEW q \in Nat,
         NEW from \in States, NEW ops \in SUBSET TxnSet, NEW t \in ops,
         Recoverable(old, f, q, from, from, ops), Holds(old, from),
         NEW pos \in Heads, pos + Needed(t.targets) <= JournalLength, pos \in {f[q], 0},
         PartlyLogged(old, img, pos, q, t), OlderThan(old, t.id),
         \A l \in DOMAIN JournalWrites(pos, q, t) : img[l] = JournalWrites(pos, q, t)[l],
         \A b \in Blocks : img[M(b)] = old[M(b)],
         RecoverySuperblock(img).kind = "sb",
         RecoverySuperblock(img).seq = q, RecoverySuperblock(img).head = f[q]
  PROVE  \E g \in HeadTables :
           /\ Recoverable(img, g, q + 1, Done(from, t), from, ops)
           /\ CommitsBelow(img, q + 1)
           /\ g[q + 1] = Advance(pos, Needed(t.targets))
           /\ ReplayBatch(img, g, q) = ApplyWrites(t)
  <1>1. ValidTxn(img, pos, q) /\ img[J(pos)].targets = t.targets /\ ReplayWrites(img, pos) = ApplyWrites(t)
    <2>1. ValidTxn(img, pos, q) /\ img[J(pos)] = Desc(q, t.targets) /\ ReplayWrites(img, pos) = ApplyWrites(t)
      BY LoggedTxn DEF Images
    <2> QED
      BY <2>1 DEF Desc
  <1>2. Found(img, f[q], q) /\ At(img, f, q) = pos
    <2>1. CASE pos = f[q]
      BY <1>1, <2>1 DEF Found, FoundAt, At
    <2>2. CASE pos # f[q]
      <3>1. pos = 0 /\ f[q] \in Heads
        BY <2>2, HeadFacts
      <3>2. ~ValidTxn(img, f[q], q)
        <4> SUFFICES ASSUME ValidTxn(img, f[q], q) PROVE FALSE
          OBVIOUS
        <4>1. f[q] \in Heads /\ f[q] # pos /\ t \in TxnSet
          BY <2>2, <3>1
        <4>2. ValidTxn(old, f[q], q)
          BY <4>1, OldRecord
        <4> QED
          BY <4>2 DEF Recoverable, Found
      <3> QED
        BY <1>1, <3>1, <3>2 DEF Found, FoundAt, At
    <2> QED
      BY <2>1, <2>2
  <1>3. ReplayBatch(img, f, q) = ApplyWrites(t) /\ NextHead(img, f, q) = Advance(pos, Needed(t.targets))
    BY <1>1, <1>2 DEF ReplayBatch, NextHead
  <1>4. ChainFrom(img, f, q, q) /\ Settles(img, f, q, q, from)
    <2>1. Holds(img, from)
      BY DEF Holds
    <2>2. ChainFrom(img, f, q, q) /\ \A b : Writers(img, f, q, q, b) = {}
      BY DEF ChainFrom, Writers
    <2> QED
      BY <2>1, <2>2 DEF Settles, Holds
  <1>5. CommitsUpTo(img, q, ops)
    <2>1. Outcome(old, q, from, from, ops)
      BY DEF Recoverable
    <2> QED
      BY <2>1, LoggedCommits
  <1>6. PICK g \in HeadTables : g[q] = f[q] /\ g[q + 1] = NextHead(img, f, q)
           /\ Recoverable(img, g, q + 1, Done(from, t), from, ops)
           /\ CommitsBelow(img, q + 1)
    BY <1>2, <1>3, <1>4, <1>5, OneMore
  <1>7. ReplayBatch(img, g, q) = ReplayBatch(img, f, q)
    BY <1>6 DEF ReplayBatch, At
  <1> QED
    BY <1>3, <1>6, <1>7

-----------------------------------------------------------------------------
(* Operations and their numbers, with any faults                           *)

(* The operations that a recovery may find done. *)
Candidates == {t \in lost \cup {txn} : t # NoTxn}

(* Until one of them is found done, no candidate is known to the callers,  *)
(* and each has a number of its own.                                       *)
IdInv ==
  /\ \A t \in Candidates : t.id < nextId /\ \A b \in Blocks : acked[b] # t.id
  /\ \A t, u \in Candidates : t.id = u.id => t = u
  /\ \A b \in Blocks : acked[b] < nextId
  /\ pc = "idle" => txn = NoTxn

(* Commit records are made by operations that have begun; when one is to   *)
(* be logged, by earlier ones.                                             *)
Older(c, n) == c.kind = "commit" => \A i \in DOMAIN c.sum[2] : c.sum[2][i].id < n
AgeInv ==
  /\ \A l \in Loc : Older(durable[l], nextId) /\ Older(cache[l], nextId)
  /\ \A p \in pending : Older(p[2], nextId)
  /\ pc \in {"dataSync", "log", "logSync"} => OlderThan(durable, txn.id)
  /\ pc \in {"dataSync", "log"} => OlderThan(cache, txn.id)

(* Where no write is under way, what is read is what the medium holds.     *)
Quiet(l) == \A p \in pending : p[1] # l
QuietInv == \A l \in Loc : Quiet(l) => cache[l] = durable[l]

Base == TypeOK /\ Committing /\ IdInv /\ AgeInv /\ QuietInv

LEMMA CandidateFacts ==
  ASSUME TypeOK
  PROVE  /\ Candidates \subseteq TxnSet
         /\ txn \in TxnSet => txn \in Candidates
  BY DEF TypeOK, Candidates, TxnSet, NoTxn

LEMMA PwriteQuiet ==
  ASSUME TypeOK, QuietInv, NEW ws, Pwrite(ws)
  PROVE  /\ QuietInv'
         /\ \A l : Quiet(l)' <=> Quiet(l) /\ l \notin DOMAIN ws
  <1>1. \A l : Quiet(l)' <=> Quiet(l) /\ l \notin DOMAIN ws
    <2> TAKE l
    <2>1. pending' = pending \cup {<<k, ws[k]>> : k \in DOMAIN ws}
      BY DEF Pwrite
    <2>2. ASSUME Quiet(l)' PROVE Quiet(l) /\ l \notin DOMAIN ws
      <3>1. Quiet(l)
        BY <2>1, <2>2 DEF Quiet
      <3>2. ASSUME l \in DOMAIN ws PROVE FALSE
        <4>1. <<l, ws[l]>> \in pending'
          BY <2>1, <3>2
        <4> QED
          BY <2>2, <4>1 DEF Quiet
      <3> QED
        BY <3>1, <3>2
    <2>3. ASSUME Quiet(l), l \notin DOMAIN ws PROVE Quiet(l)'
      BY <2>3, PwriteFacts DEF Quiet
    <2> QED
      BY <2>2, <2>3
  <1>2. ASSUME NEW l \in Loc, Quiet(l)' PROVE cache'[l] = durable'[l]
    <2>1. Quiet(l) /\ l \notin DOMAIN ws
      BY <1>1, <1>2
    <2>2. cache'[l] = cache[l] /\ durable' = durable
      BY <2>1, PwriteFacts DEF TypeOK
    <2> QED
      BY <2>1, <2>2 DEF QuietInv
  <1> QED
    BY <1>1, <1>2 DEF QuietInv

LEMMA SyncQuiet ==
  ASSUME Sync
  PROVE  QuietInv' /\ \A l : Quiet(l)'
  BY DEF Sync, QuietInv, Quiet

(* The numbers through open, whatever it finds done.                       *)
LEMMA OpenedIds ==
  ASSUME TypeOK, IdInv, Opened, UNCHANGED nextId
  PROVE  /\ IdInv'
         /\ \/ Candidates' = Candidates /\ acked' = acked
            \/ Candidates' = {}
  <1> DEFINE done == {t \in lost \cup {txn} : t # NoTxn /\ Present(t)}
  <1>0. txn' = NoTxn
    BY DEF Opened
  <1>1. CASE done # {}
    <2>1. PICK t \in done : acked' = AfterOp(t) /\ lost' = {}
      BY <1>1 DEF Opened
    <2>2. Candidates' = {}
      BY <1>0, <2>1 DEF Candidates
    <2>3. t \in Candidates
      BY DEF Candidates
    <2>4. t.id < nextId
      BY <2>3 DEF IdInv
    <2>5. \A b \in Blocks : acked'[b] < nextId'
      BY <2>1, <2>4 DEF AfterOp, IdInv
    <2> QED
      BY <1>0, <2>2, <2>5 DEF IdInv
  <1>2. CASE done = {}
    <2>1. lost' = (lost \cup {txn}) \ {NoTxn} /\ acked' = acked
      BY <1>2 DEF Opened
    <2>2. Candidates' = Candidates
      BY <1>0, <2>1 DEF Candidates
    <2> QED
      BY <1>0, <2>1, <2>2 DEF IdInv
  <1> QED
    BY <1>1, <1>2

LEMMA StepIds ==
  ASSUME TypeOK, Committing, IdInv, [Next]_vars
  PROVE  IdInv'
  <1>a. ASSUME UNCHANGED <<txn, lost, acked, nextId>>, pc' = "idle" => pc = "idle"
        PROVE  IdInv'
    BY <1>a DEF IdInv, Candidates
  <1>1. CASE \/ Open \/ Heal \/ ReplayTxn \/ ReplaySync \/ DataSync \/ Log \/ LogSync
             \/ Apply \/ ApplySync \/ Fsync \/ PowerCut \/ Kill \/ UNCHANGED vars
    <2>1. UNCHANGED <<txn, lost, acked, nextId>>
      BY <1>1 DEF Open, Heal, ReplayTxn, ReplaySync, DataSync, Log, LogSync, Apply, ApplySync, Fsync,
         PowerCut, Kill, vars
    <2>2. pc' = "idle" => pc = "idle"
      BY <1>1 DEF Open, Heal, ReplayTxn, ReplaySync, DataSync, Log, LogSync, Apply, ApplySync, Fsync,
         PowerCut, Kill, Down, vars
    <2> QED
      BY <1>a, <2>1, <2>2
  <1>2. CASE ReplayEnd
    <2>1. CASE Opened
      BY <1>2, <2>1, OpenedIds DEF ReplayEnd
    <2>2. CASE ~Opened
      BY <1>2, <2>2, <1>a DEF ReplayEnd
    <2> QED
      BY <2>1, <2>2
  <1>3. CASE ReplayCheckpoint
    BY <1>3, OpenedIds DEF ReplayCheckpoint
  <1>4. CASE Checkpoint
    <2>1. txn \in TxnSet /\ acked' = AfterOp(txn) /\ lost' = {} /\ txn' = NoTxn /\ nextId' = nextId
      BY <1>4 DEF Checkpoint, Committing
    <2>2. txn \in Candidates
      BY <2>1 DEF Candidates, TxnSet, NoTxn
    <2>3. \A b \in Blocks : acked'[b] < nextId'
      BY <2>1, <2>2 DEF IdInv, AfterOp
    <2>4. Candidates' = {}
      BY <2>1 DEF Candidates
    <2> QED
      BY <2>1, <2>3, <2>4 DEF IdInv
  <1>5. CASE Operation
    <2>1. PICK kind \in OpKinds, targets \in TargetLists : Begin(kind, targets)
      BY <1>5 DEF Operation
    <2>2. /\ txn = NoTxn /\ txn'.id = nextId /\ lost' = lost /\ acked' = acked
          /\ nextId \in Nat /\ nextId' = nextId + 1 /\ pc' # "idle"
      BY <2>1 DEF Begin, IdInv, TypeOK
    <2>3. Candidates' \subseteq Candidates \cup {txn'}
      BY <2>2 DEF Candidates
    <2>4. \A t \in Candidates : t.id < nextId /\ t.id \in Nat /\ \A b \in Blocks : acked[b] # t.id
      BY <2>2 DEF Candidates, TypeOK, IdInv, TxnSet
    <2>5. \A b \in Blocks : acked[b] < nextId /\ acked[b] \in Nat
      BY DEF IdInv, TypeOK
    <2>6. \A t \in Candidates' : t.id < nextId' /\ \A b \in Blocks : acked'[b] # t.id
      BY <2>2, <2>3, <2>4, <2>5
    <2>7. \A t, u \in Candidates' : t.id = u.id => t = u
      BY <2>2, <2>3, <2>4 DEF IdInv
    <2>8. \A b \in Blocks : acked'[b] < nextId'
      BY <2>2, <2>5
    <2> QED
      BY <2>2, <2>6, <2>7, <2>8 DEF IdInv
  <1> QED
    BY <1>1, <1>2, <1>3, <1>4, <1>5 DEF Next, Recover, CommitStep

LEMMA OlderFacts ==
  /\ \A c, n : c.kind # "commit" => Older(c, n)
  /\ \A c \in Contents, m, n \in Nat : Older(c, m) /\ m <= n => Older(c, n)
  /\ \A img, n : (\A l \in JournalArea : Older(img[l], n)) <=> OlderThan(img, n)
  /\ \A n : Older(Torn, n)
  <1>1. ASSUME NEW c \in Contents, NEW m \in Nat, NEW n \in Nat, Older(c, m), m <= n
        PROVE  Older(c, n)
    <2> SUFFICES ASSUME c.kind = "commit", NEW i \in DOMAIN c.sum[2] PROVE c.sum[2][i].id < n
      BY DEF Older
    <2>1. c.sum[2] \in Seq(ImageSet)
      BY CommitFacts
    <2>2. c.sum[2][i] \in ImageSet
      BY <2>1
    <2>3. c.sum[2][i].id \in Nat
      BY <2>2 DEF ImageSet
    <2>4. c.sum[2][i].id < m
      BY <1>1 DEF Older
    <2> QED
      BY <2>3, <2>4, <1>1
  <1>2. \A img, n : (\A l \in JournalArea : Older(img[l], n)) <=> OlderThan(img, n)
    BY DEF Older, OlderThan
  <1>3. \A n : Older(Torn, n)
    BY DEF Older, Torn
  <1> QED
    BY <1>1, <1>2, <1>3 DEF Older

(* What the program is about to write.                                     *)
LEMMA BatchAged ==
  ASSUME TypeOK, Committing, IdInv, AgeInv
  PROVE  /\ \A l \in DOMAIN SuperblockWrites(NextSuperblock) : Older(SuperblockWrites(NextSuperblock)[l], nextId)
         /\ Found(cache, scan.head, scan.seq) =>
              LET ws == ReplayWrites(cache, FoundAt(cache, scan.head, scan.seq)) IN
              \A l \in DOMAIN ws : Older(ws[l], nextId)
         /\ pc = "log" =>
              \A l \in DOMAIN JournalWrites(Position, sb.seq, txn) :
                Older(JournalWrites(Position, sb.seq, txn)[l], nextId)
         /\ pc = "apply" => \A l \in DOMAIN ApplyWrites(txn) : Older(ApplyWrites(txn)[l], nextId)
         /\ \A l \in DOMAIN Batch : Older(Batch[l], nextId)
  <1>1. \A l \in DOMAIN SuperblockWrites(NextSuperblock) : Older(SuperblockWrites(NextSuperblock)[l], nextId)
    <2>1. NextSuperblock.kind # "commit"
      BY NextSuperblockType DEF SuperblockSet
    <2> QED
      BY <2>1, OlderFacts DEF SuperblockWrites
  <1>2. ASSUME Found(cache, scan.head, scan.seq)
        PROVE  \A l \in DOMAIN ReplayWrites(cache, FoundAt(cache, scan.head, scan.seq)) :
                 Older(ReplayWrites(cache, FoundAt(cache, scan.head, scan.seq))[l], nextId)
    <2> DEFINE pos == FoundAt(cache, scan.head, scan.seq)
               ws == ReplayWrites(cache, pos)
               n == Len(cache[J(pos)].targets)
    <2>1. pos \in Heads /\ ValidTxn(cache, pos, scan.seq) /\ cache \in Images
      BY <1>2, FoundAtType DEF TypeOK, Images
    <2>2. \A l \in DOMAIN ws : \E i \in 1 .. n : ws[l] = cache[J(pos + i)]
      BY <2>1, ReplayWritesType DEF Images
    <2>3. IsRecord(cache, pos, scan.seq, n)
      BY <2>1, RecordFacts
    <2> HIDE DEF ws, n, pos
    <2>4. ASSUME NEW i \in 1 .. n PROVE J(pos + i) \in Loc
      <3>1. i \in 0 .. n + 1
        BY <2>3 DEF IsRecord
      <3>2. pos + i \in Heads
        BY <2>3, <3>1 DEF IsRecord
      <3> QED
        BY <3>2, HeadFacts
    <2>5. \A l \in DOMAIN ws : Older(ws[l], nextId)
      BY <2>2, <2>4 DEF AgeInv
    <2> QED
      BY <2>5 DEF ws, pos
  <1>3. ASSUME pc = "log"
        PROVE  \A l \in DOMAIN JournalWrites(Position, sb.seq, txn) :
                 Older(JournalWrites(Position, sb.seq, txn)[l], nextId)
    <2>1. /\ txn \in TxnSet /\ Needed(txn.targets) <= JournalLength /\ sb.seq \in Nat
      BY <1>3 DEF Committing, TypeOK, SuperblockSet
    <2>2. Position \in Heads /\ Position + Needed(txn.targets) <= JournalLength
      BY <2>1, PositionType
    <2>3. txn.id < nextId
      BY <2>1 DEF IdInv, Candidates, TxnSet, NoTxn
    <2> DEFINE ws == JournalWrites(Position, sb.seq, txn)
    <2>4. /\ ws[J(Position + Len(txn.targets) + 1)] = Commit(sb.seq, Sum(sb.seq, txn))
          /\ \A l \in DOMAIN ws : ws[l].kind = "commit" => l = J(Position + Len(txn.targets) + 1)
      BY <2>1, <2>2, LogFacts
    <2> HIDE DEF ws
    <2>5. Older(Commit(sb.seq, Sum(sb.seq, txn)), nextId)
      BY <2>3 DEF Older, Commit, Sum, Image
    <2>6. \A l \in DOMAIN ws : Older(ws[l], nextId)
      BY <2>4, <2>5, OlderFacts
    <2> QED
      BY <2>6 DEF ws
  <1>4. ASSUME pc = "apply"
        PROVE  \A l \in DOMAIN ApplyWrites(txn) : Older(ApplyWrites(txn)[l], nextId)
    BY DEF ApplyWrites, Older, Image
  <1>5. \A l \in DOMAIN Batch : Older(Batch[l], nextId)
    <2>1. CASE pc \in {"heal", "checkpoint", "replayCheckpoint"}
      <3>1. Batch = SuperblockWrites(NextSuperblock)
        BY <2>1 DEF Batch
      <3> QED
        BY <3>1, <1>1
    <2>2. CASE pc = "log"
      <3>1. Batch = JournalWrites(Position, sb.seq, txn)
        BY <2>2 DEF Batch
      <3> QED
        BY <3>1, <2>2, <1>3
    <2>3. CASE pc = "apply"
      <3>1. Batch = ApplyWrites(txn)
        BY <2>3 DEF Batch
      <3> QED
        BY <3>1, <2>3, <1>4
    <2>4. CASE pc = "replay" /\ Found(cache, scan.head, scan.seq)
      <3>1. Batch = ReplayWrites(cache, FoundAt(cache, scan.head, scan.seq))
        BY <2>4 DEF Batch
      <3> QED
        BY <3>1, <2>4, <1>2
    <2>5. CASE /\ pc \notin {"heal", "checkpoint", "replayCheckpoint", "log", "apply"}
               /\ ~(pc = "replay" /\ Found(cache, scan.head, scan.seq))
      <3>1. Batch = <<>>
        BY <2>5 DEF Batch
      <3> QED
        BY <3>1
    <2> QED
      BY <2>1, <2>2, <2>3, <2>4, <2>5
  <1> QED
    BY <1>1, <1>2, <1>3, <1>4, <1>5

(* Contents of an age anywhere. *)
Aged == /\ \A l \in Loc : Older(durable[l], nextId) /\ Older(cache[l], nextId)
        /\ \A p \in pending : Older(p[2], nextId)

LEMMA PwriteAged ==
  ASSUME TypeOK, Aged, NEW ws, Pwrite(ws), \A l \in DOMAIN ws : Older(ws[l], nextId),
         UNCHANGED nextId
  PROVE  Aged'
  <1>1. ASSUME NEW l \in Loc PROVE Older(durable'[l], nextId') /\ Older(cache'[l], nextId')
    <2>1. durable' = durable /\ (cache'[l] = cache[l] \/ (l \in DOMAIN ws /\ cache'[l] = ws[l]))
      BY PwriteFacts DEF TypeOK
    <2> QED
      BY <2>1 DEF Aged
  <1>2. \A p \in pending' : Older(p[2], nextId')
    BY PwriteFacts DEF Aged
  <1> QED
    BY <1>1, <1>2 DEF Aged

LEMMA StepAge ==
  ASSUME TypeOK, Committing, IdInv, AgeInv, TypeOK', [Next]_vars
  PROVE  AgeInv'
  <1>0. Aged /\ nextId \in Nat
    BY DEF AgeInv, Aged, TypeOK
  <1>a. ASSUME Aged', pc' \notin {"dataSync", "log", "logSync"} PROVE AgeInv'
    BY <1>a DEF AgeInv, Aged
  <1>b. ASSUME NEW ws, Pwrite(ws), \A l \in DOMAIN ws : Older(ws[l], nextId), UNCHANGED nextId
        PROVE  Aged'
    BY <1>0, <1>b, PwriteAged
  <1>1. CASE Open \/ ReplayEnd
    <2>1. UNCHANGED <<deviceVars, nextId>> /\ pc' \notin {"dataSync", "log", "logSync"}
      BY <1>1 DEF Open, ReplayEnd, Opened
    <2> QED
      BY <1>0, <1>a, <2>1 DEF Aged
  <1>2. CASE Heal \/ ReplayCheckpoint \/ Checkpoint
    <2>1. Pwrite(SuperblockWrites(NextSuperblock)) /\ nextId' = nextId /\ pc' \in {"replay", "idle"}
      BY <1>2 DEF Heal, ReplayCheckpoint, Checkpoint, Opened
    <2> QED
      BY <1>a, <1>b, <2>1, BatchAged
  <1>3. CASE ReplayTxn
    <2>1. /\ Pwrite(ReplayWrites(cache, FoundAt(cache, scan.head, scan.seq)))
          /\ Found(cache, scan.head, scan.seq) /\ nextId' = nextId /\ pc' = "replay"
      BY <1>3 DEF ReplayTxn
    <2> QED
      BY <1>a, <1>b, <2>1, BatchAged
  <1>4. CASE ReplaySync \/ LogSync \/ ApplySync \/ Fsync
    <2>1. Sync /\ nextId' = nextId /\ pc' \notin {"dataSync", "log", "logSync"}
      BY <1>4 DEF ReplaySync, LogSync, ApplySync, Fsync
    <2> QED
      BY <1>0, <1>a, <2>1 DEF Aged, Sync
  <1>5. CASE Apply
    <2>1. Pwrite(ApplyWrites(txn)) /\ nextId' = nextId /\ pc = "apply" /\ pc' = "applySync"
      BY <1>5 DEF Apply
    <2> QED
      BY <1>a, <1>b, <2>1, BatchAged
  <1>6. CASE PowerCut
    <2>1. /\ cache' = durable' /\ pending' = {} /\ pc' = "down" /\ nextId' = nextId
          /\ \A l \in Loc : \/ durable'[l] = durable[l]
                            \/ \E p \in pending : p[1] = l /\ durable'[l] \in {p[2], Torn}
      BY <1>6, PowerCutFacts
    <2>2. ASSUME NEW l \in Loc PROVE Older(durable'[l], nextId)
      BY <1>0, <2>1, OlderFacts DEF Aged
    <2> QED
      BY <1>a, <2>1, <2>2 DEF Aged
  <1>7. CASE Kill
    <2>1. PICK done \in SUBSET DOMAIN Batch : Pwrite([l \in done |-> Batch[l]])
      BY <1>7 DEF Kill
    <2> DEFINE ws == [l \in done |-> Batch[l]]
    <2>2. \A l \in DOMAIN ws : Older(ws[l], nextId)
      BY BatchAged
    <2>3. nextId' = nextId /\ pc' = "down"
      BY <1>7 DEF Kill, Down
    <2> HIDE DEF ws
    <2> QED
      BY <1>a, <1>b, <2>1, <2>2, <2>3 DEF ws
  <1>8. CASE Operation
    <2>1. PICK kind \in OpKinds, targets \in TargetLists : Begin(kind, targets)
      BY <1>8 DEF Operation
    <2>2. nextId' = nextId + 1 /\ txn'.id = nextId /\ pc' \in {"dataSync", "log"} /\ durable' = durable
      BY <2>1, PwriteFacts DEF Begin
    <2>3. /\ \A l \in Loc : cache'[l] = cache[l] \/ cache'[l] = FileData(nextId)
          /\ \A p \in pending' : p \in pending \/ p[2] = FileData(nextId)
      <3>1. CASE kind = "metadata"
        BY <2>1, <3>1 DEF Begin
      <3>2. CASE kind # "metadata"
        <4> DEFINE ws == [l \in {D(nextId)} |-> FileData(nextId)]
        <4>1. Pwrite(ws)
          BY <2>1, <3>2 DEF Begin
        <4>2. \A l \in DOMAIN ws : ws[l] = FileData(nextId)
          OBVIOUS
        <4> HIDE DEF ws
        <4> QED
          BY <4>1, <4>2, PwriteFacts DEF TypeOK
      <3> QED
        BY <3>1, <3>2
    <2>4. \A n : Older(FileData(nextId), n)
      BY DEF Older, FileData
    <2>5. \A c \in Contents : Older(c, nextId) => Older(c, nextId')
      BY <1>0, <2>2, OlderFacts
    <2>6. ASSUME NEW l \in Loc
          PROVE  Older(cache'[l], nextId) /\ Older(durable'[l], nextId)
      BY <1>0, <2>2, <2>3, <2>4 DEF Aged
    <2>7. ASSUME NEW l \in Loc
          PROVE  Older(cache'[l], nextId') /\ Older(durable'[l], nextId')
      <3>1. cache'[l] \in Contents /\ durable'[l] \in Contents
        BY DEF TypeOK
      <3> QED
        BY <3>1, <2>5, <2>6
    <2>8. ASSUME NEW p \in pending' PROVE Older(p[2], nextId')
      <3>1. CASE p \in pending
        BY <3>1, <1>0, <2>5 DEF Aged, TypeOK
      <3>2. CASE p \notin pending
        BY <3>2, <2>3, <2>4
      <3> QED
        BY <3>1, <3>2
    <2>9. OlderThan(durable', txn'.id) /\ OlderThan(cache', txn'.id)
      BY <2>2, <2>6, OlderFacts, HeadFacts
    <2> QED
      BY <2>7, <2>8, <2>9 DEF AgeInv
  <1>9. CASE DataSync
    <2>1. Sync /\ nextId' = nextId /\ txn' = txn /\ pc = "dataSync" /\ pc' = "log"
      BY <1>9 DEF DataSync
    <2>2. Aged'
      BY <1>0, <2>1 DEF Aged, Sync
    <2>3. OlderThan(durable', txn'.id) /\ OlderThan(cache', txn'.id)
      BY <2>1 DEF AgeInv, Sync
    <2> QED
      BY <2>2, <2>3 DEF AgeInv, Aged
  <1>10. CASE Log
    <2>1. /\ Pwrite(JournalWrites(Position, sb.seq, txn)) /\ nextId' = nextId /\ txn' = txn
          /\ pc = "log" /\ pc' = "logSync"
      BY <1>10 DEF Log
    <2>2. Aged'
      BY <1>b, <2>1, BatchAged
    <2>3. OlderThan(durable', txn'.id)
      BY <2>1, PwriteFacts DEF AgeInv
    <2> QED
      BY <2>1, <2>2, <2>3 DEF AgeInv, Aged
  <1>11. CASE UNCHANGED vars
    BY <1>11 DEF vars, AgeInv, OlderThan
  <1> QED
    BY <1>1, <1>2, <1>3, <1>4, <1>5, <1>6, <1>7, <1>8, <1>9, <1>10, <1>11
    DEF Next, Recover, CommitStep

LEMMA StepQuiet ==
  ASSUME TypeOK, QuietInv, [Next]_vars
  PROVE  QuietInv'
  <1>1. ASSUME NEW ws, Pwrite(ws) PROVE QuietInv'
    BY <1>1, PwriteQuiet
  <1>2. ASSUME Sync PROVE QuietInv'
    BY <1>2, SyncQuiet
  <1>3. ASSUME UNCHANGED deviceVars PROVE QuietInv'
    BY <1>3 DEF QuietInv, Quiet
  <1>4. CASE Heal \/ ReplayTxn \/ ReplayCheckpoint \/ Log \/ Apply \/ Checkpoint \/ Kill
    BY <1>4, <1>1 DEF Heal, ReplayTxn, ReplayCheckpoint, Log, Apply, Checkpoint, Kill
  <1>5. CASE Operation
    <2>1. PICK kind \in OpKinds, targets \in TargetLists : Begin(kind, targets)
      BY <1>5 DEF Operation
    <2>2. UNCHANGED deviceVars \/ \E ws : Pwrite(ws)
      BY <2>1 DEF Begin
    <2> QED
      BY <2>2, <1>1, <1>3
  <1>6. CASE ReplaySync \/ DataSync \/ LogSync \/ ApplySync \/ Fsync
    BY <1>6, <1>2 DEF ReplaySync, DataSync, LogSync, ApplySync, Fsync
  <1>7. CASE Open \/ ReplayEnd \/ UNCHANGED vars
    BY <1>7, <1>3 DEF Open, ReplayEnd, vars
  <1>8. CASE PowerCut
    <2>1. cache' = durable'
      BY <1>8, PowerCutFacts
    <2> QED
      BY <2>1 DEF QuietInv
  <1> QED
    BY <1>4, <1>5, <1>6, <1>7, <1>8 DEF Next, Recover, CommitStep

LEMMA StepBase ==
  ASSUME Base, [Next]_vars
  PROVE  Base'
  BY StepTyped, StepIds, StepAge, StepQuiet DEF Base

LEMMA InitBase == Init => Base
  <1> SUFFICES ASSUME Init PROVE Base
    OBVIOUS
  <1>1. TypeOK /\ Committing
    BY InitTyped
  <1>2. Candidates = {} /\ nextId = 1 /\ pc = "down" /\ \A b \in Blocks : acked[b] = 0
    BY DEF Init, Candidates
  <1>3. IdInv
    BY <1>2 DEF IdInv
  <1>4. AgeInv
    BY DEF Init, AgeInv, Older, Superblock, Image, Zero
  <1>5. QuietInv
    BY DEF Init, QuietInv
  <1> QED
    BY <1>1, <1>3, <1>4, <1>5 DEF Base

-----------------------------------------------------------------------------
(* Power cuts, as long as no process was killed                            *)

(* The copies of the superblock under way are of the one in memory. *)
SuperblockWritten == \A p \in pending : p[1] \in {Primary, Backup} => p[2] = sb

(* The superblock that img would be recovered from starts replay here. *)
StartsAt(img, head, seq) ==
  LET R == RecoverySuperblock(img) IN R.kind = "sb" /\ R.head = head /\ R.seq = seq

(* The superblock of img, and of every operation's cache, is the one that  *)
(* replay would start from.                                                *)
Current(img) == img[Primary].kind = "sb" /\ img[Primary].seq = sb.seq /\ img[Primary].head = sb.head

Behind(img, e, n) == e <= RecoverySuperblock(img).seq + n

(* A recovery of the medium would leave s, up to sequence e. *)
DownCut(f, e, s) ==
  Recoverable(durable, f, e, s, acked, Candidates) /\ Behind(durable, e, cuts + 1)

(* Replay: what the rest of the chain leaves in the page cache is what all *)
(* of it leaves on the medium, and only blocks that it writes are written. *)
Recovering == {"heal", "replay", "replaySync"}
RecoveringCut(f, e, s) ==
  /\ DownCut(f, e, s)
  /\ StartsAt(durable, sb.head, sb.seq)
  /\ \A l \in JournalArea : Quiet(l)
  /\ \A b \in Blocks :
       Writers(durable, f, sb.seq, e, b) = {} \/ scan.applied = 0 => Quiet(M(b))
  /\ sb.seq + scan.applied = scan.seq /\ scan.seq <= e /\ scan.head = f[scan.seq]
  /\ Settles(cache, f, scan.seq, e, s)
  /\ IF pc = "heal" THEN pending = {} ELSE Current(cache)
  /\ pc = "replaySync" => scan.seq = e

(* After the sync that ends a replay or a commit. *)
SettledCut(f, e, s) ==
  /\ DownCut(f, e, s)
  /\ pending = {}
  /\ Holds(cache, s)
  /\ sb.seq = e /\ sb.head = f[e]

(* Between recoveries: only a superblock is under way and, once it is      *)
(* logged, the transaction.                                                *)
Working == {"idle", "dataSync", "log", "logSync"}
Logging ==
  LET ws == JournalWrites(Position, sb.seq, txn) IN
  /\ \A l \in DOMAIN ws : cache[l] = ws[l]
  /\ \A l \in JournalArea \ DOMAIN ws : Quiet(l)
  /\ \A p \in pending : p[1] \in DOMAIN ws => p[2] = ws[p[1]]
WorkingCut(f) ==
  /\ DownCut(f, sb.seq, acked)
  /\ Holds(durable, acked)
  /\ f[sb.seq] = sb.head
  /\ \A b \in Blocks : Quiet(M(b))
  /\ IF pc = "logSync" THEN Logging ELSE \A l \in JournalArea : Quiet(l)
  /\ Current(cache)

(* While the transaction in flight, whole in the journal, is applied. *)
ApplyCut(f) ==
  /\ DownCut(f, sb.seq + 1, Done(acked, txn))
  /\ StartsAt(durable, sb.head, sb.seq)
  /\ CommitsBelow(durable, sb.seq + 1)
  /\ f[sb.seq + 1] = Advance(Position, Needed(txn.targets))
  /\ ReplayBatch(durable, f, sb.seq) = ApplyWrites(txn)
  /\ \A l \in Loc : l \notin DOMAIN ApplyWrites(txn) => Quiet(l)
  /\ pc = "apply" => pending = {} /\ Holds(cache, acked)
  /\ pc = "applySync" => Holds(cache, Done(acked, txn))

DownPart ==
  pc = "down" =>
    /\ pending = {}
    /\ SuperblockFound(durable) => \E f \in HeadTables, e \in Nat, s \in States : DownCut(f, e, s)
RecoveringPart ==
  pc \in Recovering => \E f \in HeadTables, e \in Nat, s \in States : RecoveringCut(f, e, s)
ReplayedPart ==
  pc = "replayCheckpoint" => \E f \in HeadTables, e \in Nat, s \in States : SettledCut(f, e, s)
WorkingPart == pc \in Working => \E f \in HeadTables : WorkingCut(f)
ApplyPart == pc \in {"apply", "applySync"} => \E f \in HeadTables : ApplyCut(f)
AppliedPart ==
  pc = "checkpoint" =>
    CommitsBelow(durable, sb.seq) /\ \E f \in HeadTables : SettledCut(f, sb.seq, Done(acked, txn))

CutInv ==
  /\ LagBounded /\ SuperblockWritten
  /\ DownPart /\ RecoveringPart /\ ReplayedPart /\ WorkingPart /\ ApplyPart /\ AppliedPart

-----------------------------------------------------------------------------
(* What the medium is after a power cut                                    *)

(* The superblock that recovery finds is the one before or the new one. A  *)
(* torn primary leaves the backup, which is older only when LaggingCut.    *)
LEMMA SuperblockAfterCut ==
  ASSUME NEW old, NEW img, NEW s, s.kind = "sb",
         img[Primary] \in {old[Primary], s, Torn}, img[Backup] \in {old[Backup], s, Torn},
         SuperblockFound(img),
         ~( /\ old[Primary].kind = "sb" /\ old[Backup] # old[Primary]
            /\ img[Primary].kind # "sb" /\ img[Backup] = old[Backup] )
  PROVE  /\ RecoverySuperblock(img).kind = "sb"
         /\ RecoverySuperblock(img) \in {RecoverySuperblock(old), s}
  <1>1. Torn.kind = "torn"
    BY DEF Torn
  <1>2. CASE img[Primary].kind = "sb"
    BY <1>1, <1>2 DEF RecoverySuperblock
  <1>3. CASE img[Primary].kind # "sb"
    <2>1. img[Backup].kind = "sb" /\ RecoverySuperblock(img) = img[Backup]
      BY <1>3 DEF SuperblockFound, BackupReadable, RecoverySuperblock
    <2>2. img[Backup] = s \/ img[Backup] = old[Backup]
      BY <1>1, <2>1
    <2>3. img[Backup] = old[Backup] => old[Backup] = RecoverySuperblock(old)
      BY <1>3 DEF RecoverySuperblock
    <2> QED
      BY <2>1, <2>2, <2>3
  <1> QED
    BY <1>2, <1>3

LEMMA QuietCut ==
  ASSUME Base, Base', SuperblockWritten, PowerCut, ~LaggingCuts
  PROVE  /\ pc' = "down" /\ pending' = {} /\ cuts' = cuts + 1 /\ LagBounded' /\ SuperblockWritten'
         /\ acked' = acked /\ Candidates' = Candidates
         /\ durable \in Images /\ durable' \in Images /\ ~Overtaken
         /\ \A l \in Loc : Quiet(l) => durable'[l] = durable[l]
         /\ \A l \in Loc : durable'[l] = durable[l] \/
              \E p \in pending : p[1] = l /\ durable'[l] \in {p[2], Torn}
         /\ SuperblockFound(durable') =>
              /\ RecoverySuperblock(durable').kind = "sb"
              /\ RecoverySuperblock(durable') \in {RecoverySuperblock(durable), sb}
  <1>1. /\ pc' = "down" /\ pending' = {} /\ UNCHANGED <<txn, histVars>>
        /\ \A l \in Loc : durable'[l] = durable[l] \/
              \E p \in pending : p[1] = l /\ durable'[l] \in {p[2], Torn}
    BY PowerCutFacts DEF Base
  <1>2. cuts' = cuts + 1 /\ scan' = NoScan /\ ~LaggingCut(durable')
    BY DEF PowerCut, Down
  <1>3. LagBounded' /\ SuperblockWritten'
    <2>1. cuts' \in Nat
      BY BoundAssumption DEF Base, TypeOK
    <2> QED
      BY <1>1, <1>2, <2>1 DEF LagBounded, SuperblockWritten, NoScan
  <1>4. durable \in Images /\ durable' \in Images /\ sb.kind = "sb" /\ Primary \in Loc /\ Backup \in Loc
    BY HeadFacts DEF Base, TypeOK, Images, SuperblockSet
  <1>5. \A l \in Loc : Quiet(l) => durable'[l] = durable[l]
    BY <1>1 DEF Quiet
  <1>6. ~Overtaken
    BY <1>2 DEF LaggingCut
  <1>7. \A l \in {Primary, Backup} : durable'[l] \in {durable[l], sb, Torn}
    BY <1>1, <1>4 DEF SuperblockWritten
  <1>8. SuperblockFound(durable') =>
              /\ RecoverySuperblock(durable').kind = "sb"
              /\ RecoverySuperblock(durable') \in {RecoverySuperblock(durable), sb}
    BY <1>2, <1>4, <1>7, SuperblockAfterCut DEF LaggingCut
  <1>9. acked' = acked /\ Candidates' = Candidates
    BY <1>1 DEF Candidates
  <1> QED
    BY <1>1, <1>2, <1>3, <1>4, <1>5, <1>6, <1>8, <1>9

(* The volume is down, and a recovery leaves what it would have left.      *)
LEMMA CutKeeps ==
  ASSUME Base, Base', SuperblockWritten, PowerCut, ~LaggingCuts,
         NEW f \in HeadTables, NEW e \in Nat, NEW s \in States, DownCut(f, e, s),
         StartsAt(durable, sb.head, sb.seq) \/ \A l \in {Primary, Backup} : Quiet(l),
         \A l \in JournalArea : Quiet(l),
         \A b \in Blocks : Quiet(M(b)) \/ Writers(durable, f, RecoverySuperblock(durable).seq, e, b) # {}
  PROVE  SuperblockFound(durable') => DownCut(f, e, s)'
  <1> SUFFICES ASSUME SuperblockFound(durable') PROVE DownCut(f, e, s)'
    OBVIOUS
  <1>1. /\ cuts' = cuts + 1 /\ acked' = acked /\ Candidates' = Candidates
        /\ durable \in Images /\ durable' \in Images
        /\ \A l \in Loc : Quiet(l) => durable'[l] = durable[l]
        /\ RecoverySuperblock(durable').kind = "sb"
        /\ RecoverySuperblock(durable') \in {RecoverySuperblock(durable), sb}
    BY QuietCut
  <1>2. Recoverable(durable, f, e, s, acked, Candidates) /\ Behind(durable, e, cuts + 1)
    BY DEF DownCut
  <1>3. /\ RecoverySuperblock(durable').seq = RecoverySuperblock(durable).seq
        /\ RecoverySuperblock(durable').head = RecoverySuperblock(durable).head
    <2>1. CASE StartsAt(durable, sb.head, sb.seq)
      BY <1>1, <2>1 DEF StartsAt
    <2>2. CASE \A l \in {Primary, Backup} : Quiet(l)
      BY <1>1, <2>2, HeadFacts DEF RecoverySuperblock
    <2> QED
      BY <2>1, <2>2
  <1>4. Recoverable(durable', f, e, s, acked, Candidates)
    <2>1. \A l \in JournalArea : durable'[l] = durable[l]
      BY <1>1, HeadFacts
    <2>2. \A b \in Blocks : durable'[M(b)] = durable[M(b)] \/
             Writers(durable, f, RecoverySuperblock(durable).seq, e, b) # {}
      BY <1>1, HeadFacts
    <2> QED
      BY <1>1, <1>2, <1>3, <2>1, <2>2, RecoverableKept
  <1>5. Behind(durable', e, cuts' + 1)
    <2>1. RecoverySuperblock(durable).seq \in Nat /\ cuts \in Nat
      BY <1>1, <1>2, SuperblockType, BoundAssumption DEF Recoverable, Base, TypeOK
    <2> QED
      BY <1>1, <1>2, <1>3, <2>1 DEF Behind
  <1> QED
    BY <1>1, <1>4, <1>5 DEF DownCut

(* A cut before the transaction is logged.                                 *)
LEMMA CutWorking ==
  ASSUME Base, Base', SuperblockWritten, PowerCut, ~LaggingCuts, SuperblockFound(durable'),
         pc \in Working \ {"logSync"}, NEW f \in HeadTables, WorkingCut(f),
         NEW e \in Nat, e = sb.seq, NEW s \in States, s = acked
  PROVE  DownCut(f, e, s)'
  <1>1. /\ cuts' = cuts + 1 /\ acked' = acked /\ Candidates' = Candidates
        /\ durable \in Images /\ durable' \in Images
        /\ \A l \in Loc : Quiet(l) => durable'[l] = durable[l]
        /\ RecoverySuperblock(durable').kind = "sb"
        /\ RecoverySuperblock(durable') \in {RecoverySuperblock(durable), sb}
    BY QuietCut
  <1>2. /\ Recoverable(durable, f, e, s, acked, Candidates) /\ Behind(durable, e, cuts + 1)
        /\ Holds(durable, s) /\ f[e] = sb.head
        /\ \A l \in JournalArea : durable'[l] = durable[l]
        /\ \A b \in Blocks : durable'[M(b)] = durable[M(b)]
    BY <1>1, HeadFacts DEF WorkingCut, DownCut, Working
  <1>3. cuts \in Nat
    BY BoundAssumption DEF Base, TypeOK
  <1>4. Recoverable(durable', f, e, s, acked, Candidates)
    <2>1. CASE RecoverySuperblock(durable') = RecoverySuperblock(durable)
      BY <1>1, <1>2, <2>1, RecoverableKept
    <2>2. CASE RecoverySuperblock(durable') = sb
      <3>1. ~Found(durable', f[e], e)
        BY <1>1, <1>2, JournalKept DEF Recoverable
      <3>2. Outcome(durable', e, s, acked, Candidates)
        BY <1>2, OutcomeKept DEF Recoverable
      <3>3. Holds(durable', s)
        BY <1>2 DEF Holds
      <3> QED
        BY <1>1, <1>2, <2>2, <3>1, <3>2, <3>3, NothingToReplay
    <2> QED
      BY <1>1, <2>1, <2>2
  <1>5. Behind(durable', e, cuts' + 1)
    <2>1. RecoverySuperblock(durable).seq \in Nat
      BY <1>1, <1>2, SuperblockType DEF Recoverable
    <2> QED
      BY <1>1, <1>2, <1>3, <2>1 DEF Behind
  <1> QED
    BY <1>1, <1>4, <1>5 DEF DownCut

(* A cut while it is: all of it landed, or some.                           *)
LEMMA CutLogging ==
  ASSUME Base, Base', SuperblockWritten, PowerCut, ~LaggingCuts, SuperblockFound(durable'),
         pc = "logSync", NEW f \in HeadTables, WorkingCut(f),
         NEW q \in Nat, q = sb.seq, NEW from \in States, from = acked
  PROVE  \E g \in HeadTables, e \in Nat, s \in States : DownCut(g, e, s)'
  <1> DEFINE ws == JournalWrites(Position, q, txn)
  <1>1. /\ cuts' = cuts + 1 /\ acked' = acked /\ Candidates' = Candidates
        /\ durable \in Images /\ durable' \in Images /\ ~Overtaken
        /\ \A l \in Loc : Quiet(l) => durable'[l] = durable[l]
        /\ \A l \in Loc : durable'[l] = durable[l] \/
              \E p \in pending : p[1] = l /\ durable'[l] \in {p[2], Torn}
        /\ RecoverySuperblock(durable').kind = "sb"
        /\ RecoverySuperblock(durable') \in {RecoverySuperblock(durable), sb}
    BY QuietCut
  <1>2. /\ Recoverable(durable, f, q, from, from, Candidates) /\ Behind(durable, q, cuts + 1)
        /\ Holds(durable, from) /\ f[q] = sb.head
        /\ \A b \in Blocks : durable'[M(b)] = durable[M(b)]
        /\ \A l \in JournalArea \ DOMAIN ws : Quiet(l)
        /\ \A p \in pending : p[1] \in DOMAIN ws => p[2] = ws[p[1]]
    BY <1>1, HeadFacts DEF WorkingCut, Logging, DownCut
  <1>3. /\ txn \in TxnSet /\ txn \in Candidates /\ Candidates \subseteq TxnSet
        /\ Position \in Heads /\ Position + Needed(txn.targets) <= JournalLength
        /\ OlderThan(durable, txn.id)
    BY CandidateFacts, PositionType DEF Base, Committing, AgeInv
  <1>4. PartlyLogged(durable, durable', Position, q, txn)
    <2> SUFFICES ASSUME NEW l \in JournalArea, durable'[l] # durable[l]
                 PROVE  l \in DOMAIN ws /\ durable'[l] \in {ws[l], Torn}
      BY DEF PartlyLogged
    <2>1. PICK p \in pending : p[1] = l /\ durable'[l] \in {p[2], Torn}
      BY <1>1, HeadFacts
    <2>2. l \in DOMAIN ws
      BY <1>2, <2>1 DEF Quiet
    <2> QED
      BY <1>2, <2>1, <2>2
  <1> HIDE DEF ws
  <1>5. \/ /\ RecoverySuperblock(durable').seq = RecoverySuperblock(durable).seq
           /\ RecoverySuperblock(durable').head = RecoverySuperblock(durable).head
           /\ \A k \in Nat : RecoverySuperblock(durable).seq <= k /\ k < q =>
                \A i \in 0 .. Len(durable[J(At(durable, f, k))].targets) + 1 :
                  durable'[J(At(durable, f, k) + i)] = durable[J(At(durable, f, k) + i)]
        \/ RecoverySuperblock(durable').seq = q /\ RecoverySuperblock(durable').head = f[q]
    <2>1. CASE RecoverySuperblock(durable') = sb
      BY <1>2, <2>1
    <2>2. CASE RecoverySuperblock(durable') = RecoverySuperblock(durable)
      <3> SUFFICES ASSUME NEW k \in Nat, RecoverySuperblock(durable).seq <= k, k < q,
                          NEW i \in 0 .. Len(durable[J(At(durable, f, k))].targets) + 1
                   PROVE  durable'[J(At(durable, f, k) + i)] = durable[J(At(durable, f, k) + i)]
        BY <2>2
      <3> DEFINE P == At(durable, f, k)
                 n == Len(durable[J(P)].targets)
      <3>1. Found(durable, f[k], k)
        BY <1>2 DEF Recoverable, ChainFrom
      <3>2. P \in Heads /\ ValidTxn(durable, P, k)
        BY <1>1, <3>1, FoundRecord
      <3>3. IsRecord(durable, P, k, n)
        BY <1>1, <3>2, RecordFacts
      <3>4. i \in 0 .. Needed(durable[J(P)].targets) - 1
        BY <3>3 DEF IsRecord, Needed
      <3>5. P + i \in Heads
        BY <3>3 DEF IsRecord
      <3> HIDE DEF P, n
      <3>6. durable[J(P)].kind = "desc" /\ durable[J(P)].seq = k /\ P \in 0 .. JournalLength - 1
        BY <3>2, <3>3 DEF IsRecord, Heads
      <3>7. durable[J(P)].seq >= RecoverySuperblock(durable).seq
        <4>1. RecoverySuperblock(durable).seq \in Nat
          BY <1>1, <1>2, SuperblockType DEF Recoverable
        <4> QED
          BY <3>6, <4>1
      <3>8. Quiet(J(P + i))
        BY <1>1, <3>2, <3>4, <3>6, <3>7 DEF Overtaken, Quiet
      <3> QED
        BY <1>1, <3>5, <3>8, HeadFacts DEF P
    <2> QED
      BY <1>1, <2>1, <2>2
  <1>6. PICK g \in HeadTables, e \in {q, q + 1}, s \in States :
          Recoverable(durable', g, e, s, from, Candidates)
    BY <1>1, <1>2, <1>3, <1>4, <1>5, LogLanded
  <1>7. Behind(durable', e, cuts' + 1)
    <2>1. RecoverySuperblock(durable).seq \in Nat /\ cuts \in Nat
      BY <1>1, <1>2, SuperblockType, BoundAssumption DEF Recoverable, Base, TypeOK
    <2>2. RecoverySuperblock(durable').seq \in {RecoverySuperblock(durable).seq, q}
      BY <1>5
    <2>3. q <= RecoverySuperblock(durable).seq + (cuts + 1)
      BY <1>2 DEF Behind
    <2>4. e <= RecoverySuperblock(durable').seq + (cuts + 1 + 1)
      BY <2>1, <2>2, <2>3
    <2> QED
      BY <1>1, <2>4 DEF Behind
  <1>8. DownCut(g, e, s)'
    BY <1>1, <1>6, <1>7 DEF DownCut
  <1> QED
    BY <1>8

(* Except while the transaction in flight is not yet, or not yet durably,  *)
(* in the journal, a cut does not change what the next open recovers.      *)
LEMMA CutKept ==
  ASSUME Base, Base', CutInv, PowerCut, ~LaggingCuts, SuperblockFound(durable'), pc \notin Working
  PROVE  \E f \in HeadTables, e \in Nat, s \in States : DownCut(f, e, s) /\ DownCut(f, e, s)'
  <1>1. /\ durable \in Images /\ durable' \in Images
        /\ \A l \in Loc : Quiet(l) => durable'[l] = durable[l]
    BY QuietCut DEF CutInv
  <1>2. SuperblockWritten /\ sb.seq \in Nat /\ acked \in States /\ pc \in Phases
    BY DEF CutInv, Base, TypeOK, SuperblockSet, States
  <1>3. ASSUME pending = {}, NEW f \in HeadTables, NEW e \in Nat, NEW s \in States, DownCut(f, e, s)
        PROVE  DownCut(f, e, s) /\ DownCut(f, e, s)'
    <2>1. \A l : Quiet(l)
      BY <1>3 DEF Quiet
    <2> QED
      BY <1>2, <1>3, <2>1, CutKeeps
  <1>4. CASE pc = "down"
    <2>1. durable' = durable
      BY <1>1, <1>4 DEF CutInv, DownPart, Quiet, Images
    <2> QED
      BY <1>3, <1>4, <2>1 DEF CutInv, DownPart
  <1>5. CASE pc \in Recovering
    <2>1. PICK f \in HeadTables, e \in Nat, s \in States : RecoveringCut(f, e, s)
      BY <1>5 DEF CutInv, RecoveringPart
    <2>2. \A b \in Blocks : Quiet(M(b)) \/ Writers(durable, f, RecoverySuperblock(durable).seq, e, b) # {}
      BY <2>1 DEF RecoveringCut, StartsAt
    <2>3. DownCut(f, e, s) /\ DownCut(f, e, s)'
      BY <1>2, <2>1, <2>2, CutKeeps DEF RecoveringCut
    <2> QED
      BY <2>3
  <1>6. CASE pc = "replayCheckpoint"
    BY <1>3, <1>6 DEF CutInv, ReplayedPart, SettledCut
  <1>7. CASE pc \in {"apply", "applySync"}
    <2>1. PICK f \in HeadTables : ApplyCut(f)
      BY <1>7 DEF CutInv, ApplyPart
    <2>2. txn \in TxnSet
      BY <1>7 DEF Base, Committing
    <2>3. PICK q \in Nat : q = sb.seq
      BY <1>2
    <2>4. PICK s \in States : s = Done(acked, txn)
      BY <1>2, <2>2 DEF Done, States, TxnSet
    <2>5. DownCut(f, q + 1, s) /\ StartsAt(durable, sb.head, sb.seq)
      BY <2>1, <2>3, <2>4 DEF ApplyCut
    <2>6. \A l \in JournalArea : Quiet(l)
      BY <2>1, <2>2, ApplyFacts, Disjoint, HeadFacts DEF ApplyCut
    <2>7. ASSUME NEW b \in Blocks, ~Quiet(M(b))
          PROVE  Writers(durable, f, RecoverySuperblock(durable).seq, q + 1, b) # {}
      <3>1. M(b) \in DOMAIN ReplayBatch(durable, f, q)
        BY <2>1, <2>3, <2>7, HeadFacts DEF ApplyCut
      <3>2. q \in Writers(durable, f, RecoverySuperblock(durable).seq, q + 1, b)
        BY <2>3, <2>5, <3>1 DEF Writers, StartsAt
      <3> QED
        BY <3>2
    <2>8. DownCut(f, q + 1, s)'
      BY <1>2, <2>5, <2>6, <2>7, CutKeeps
    <2> QED
      BY <2>5, <2>8
  <1>8. CASE pc = "checkpoint"
    <2>1. PICK f \in HeadTables : SettledCut(f, sb.seq, Done(acked, txn))
      BY <1>8 DEF CutInv, AppliedPart
    <2>2. Done(acked, txn) \in States
      BY <1>2, <1>8 DEF Base, Committing, Done, States, TxnSet
    <2>3. PICK e \in Nat, s \in States : e = sb.seq /\ s = Done(acked, txn)
      BY <1>2, <2>2
    <2>4. DownCut(f, e, s) /\ pending = {}
      BY <2>1, <2>3 DEF SettledCut
    <2>5. DownCut(f, e, s)'
      BY <1>3, <2>4
    <2> QED
      BY <2>4, <2>5
  <1> QED
    BY <1>2, <1>4, <1>5, <1>6, <1>7, <1>8 DEF Phases, Recovering, Working

(* Whenever power is cut, the next open recovers the operations that the   *)
(* callers know, or one of the candidates with them.                       *)
LEMMA PowerCutStep ==
  ASSUME Base, Base', CutInv, PowerCut, ~LaggingCuts
  PROVE  CutInv'
  <1>1. /\ pc' = "down" /\ pending' = {} /\ cuts' = cuts + 1 /\ LagBounded' /\ SuperblockWritten'
        /\ acked' = acked /\ Candidates' = Candidates
        /\ durable \in Images /\ durable' \in Images
        /\ \A l \in Loc : Quiet(l) => durable'[l] = durable[l]
    BY QuietCut DEF CutInv
  <1> SUFFICES ASSUME SuperblockFound(durable')
               PROVE  \E f \in HeadTables, e \in Nat, s \in States : DownCut(f, e, s)'
    BY <1>1 DEF CutInv, DownPart, RecoveringPart, ReplayedPart, WorkingPart, ApplyPart, AppliedPart,
       Recovering, Working
  <1>2. SuperblockWritten /\ sb.seq \in Nat /\ acked \in States
    BY DEF CutInv, Base, TypeOK, SuperblockSet, States
  <1>3. CASE pc \in Working
    <2>1. PICK f \in HeadTables : WorkingCut(f)
      BY <1>3 DEF CutInv, WorkingPart
    <2>2. PICK q \in Nat : q = sb.seq
      BY <1>2
    <2>3. PICK from \in States : from = acked
      BY <1>2
    <2>4. CASE pc = "logSync"
      BY <1>2, <2>1, <2>2, <2>3, <2>4, CutLogging
    <2>5. CASE pc # "logSync"
      BY <1>2, <1>3, <2>1, <2>2, <2>3, <2>5, CutWorking
    <2> QED
      BY <2>4, <2>5
  <1>4. CASE pc \notin Working
    BY <1>4, CutKept
  <1> QED
    BY <1>3, <1>4

-----------------------------------------------------------------------------
(* The steps of the program                                                *)

(* Where the program is decides which part of the invariant speaks.        *)
PartsAt ==
  /\ DownPart /\ RecoveringPart /\ ReplayedPart /\ WorkingPart /\ ApplyPart /\ AppliedPart

LEMMA OnePart ==
  ASSUME \/ pc' \in Recovering /\ RecoveringPart'
         \/ pc' = "replayCheckpoint" /\ ReplayedPart'
         \/ pc' \in Working /\ WorkingPart'
         \/ pc' \in {"apply", "applySync"} /\ ApplyPart'
         \/ pc' = "checkpoint" /\ AppliedPart'
  PROVE  PartsAt'
  BY DEF PartsAt, DownPart, RecoveringPart, ReplayedPart, WorkingPart, ApplyPart, AppliedPart,
     Recovering, Working

(* open finds done what the blocks hold, and the callers learn it.         *)
LEMMA OpenedOutcome ==
  ASSUME TypeOK, IdInv, Opened,
         NEW img \in Images, NEW f, NEW e \in Nat, NEW s \in States,
         Recoverable(img, f, e, s, acked, Candidates), Holds(cache, s)
  PROVE  acked' = s /\ Recoverable(img, f, e, s, s, Candidates')
  <1> DEFINE done == {t \in lost \cup {txn} : t # NoTxn /\ Present(t)}
  <1>1. \A t : t \in done <=> t \in Candidates /\ Present(t)
    BY DEF Candidates
  <1>2. /\ txn' = NoTxn
        /\ done # {} => \E t \in done : acked' = AfterOp(t) /\ lost' = {}
        /\ done = {} => lost' = Candidates /\ acked' = acked
    BY DEF Opened, Candidates
  <1> HIDE DEF done
  <1>3. Outcome(img, e, s, acked, Candidates)
    BY DEF Recoverable
  <1>4. ASSUME NEW t \in Candidates
        PROVE  /\ t \in TxnSet /\ \A b \in Blocks : acked[b] # t.id
               /\ \E i \in DOMAIN t.targets : t.targets[i] \in Blocks
               /\ \A i \in DOMAIN t.targets : t.targets[i] \in Blocks
    <2>1. t \in TxnSet
      BY CandidateFacts
    <2>2. t.targets \in TargetLists
      BY <2>1 DEF TxnSet
    <2>3. /\ 1 \in DOMAIN t.targets
          /\ \A i \in DOMAIN t.targets : t.targets[i] \in Blocks
      BY <2>2, TargetListFacts, LengthAssumption
    <2> QED
      BY <2>1, <2>3 DEF IdInv
  <1>5. ASSUME NEW t \in Candidates, Present(t), NEW i \in DOMAIN t.targets
        PROVE  s[t.targets[i]] = t.id
    <2>1. PICK b \in Blocks : b = t.targets[i]
      BY <1>4, <1>5
    <2>2. cache[M(b)] = Image(b, t.id)
      BY <1>5, <2>1 DEF Present
    <2>3. cache[M(b)] = Image(b, s[b])
      BY DEF Holds
    <2>4. Image(b, t.id) = Image(b, s[b])
      BY <2>2, <2>3
    <2> QED
      BY <2>1, <2>4 DEF Image
  <1>6. CASE s = acked /\ CommitsUpTo(img, e, Candidates)
    <2>1. done = {}
      BY <1>1, <1>4, <1>5, <1>6
    <2>2. acked' = acked /\ Candidates' = Candidates
      BY <1>2, <2>1 DEF Candidates
    <2> QED
      BY <1>6, <2>2
  <1>7. CASE (\E t \in Candidates : s = Done(acked, t)) /\ CommitsBelow(img, e)
    <2>1. PICK t \in Candidates : s = Done(acked, t)
      BY <1>7
    <2>2. \A i \in DOMAIN t.targets : s[t.targets[i]] = t.id
      BY <1>4, <2>1 DEF Done
    <2>3. t \in done
      BY <1>1, <1>4, <2>2 DEF Present, Holds
    <2>4. PICK u \in done : acked' = AfterOp(u) /\ lost' = {}
      BY <1>2, <2>3
    <2>5. u \in Candidates /\ Present(u)
      BY <1>1
    <2>6. PICK i \in DOMAIN u.targets : u.targets[i] \in Blocks
      BY <1>4, <2>5
    <2>7. s[u.targets[i]] = u.id /\ acked[u.targets[i]] # u.id
      BY <1>4, <1>5, <2>5, <2>6
    <2>8. u.id = t.id
      BY <2>1, <2>6, <2>7 DEF Done
    <2>9. u = t
      BY <2>5, <2>8 DEF IdInv
    <2>10. acked' = s
      BY <2>1, <2>4, <2>9 DEF AfterOp, Done
    <2>11. Candidates' = {}
      BY <1>2, <2>4 DEF Candidates
    <2>12. CommitsUpTo(img, e, {})
      <3>1. ASSUME NEW l \in JournalArea, img[l].kind = "commit"
            PROVE  img[l].seq <= e /\ img[l].seq # e
        <4>1. img[l].seq \in Nat
          BY <3>1, CommitFacts, HeadFacts DEF Images
        <4>2. img[l].seq < e
          BY <1>7, <3>1 DEF CommitsBelow
        <4> QED
          BY <4>1, <4>2
      <3> QED
        BY <3>1 DEF CommitsUpTo
    <2> QED
      BY <2>10, <2>11, <2>12 DEF Recoverable, Outcome
  <1> QED
    BY <1>3, <1>6, <1>7 DEF Outcome

(* The image a process starts from. *)
LEMMA OpenStep ==
  ASSUME Base, CutInv, Open
  PROVE  CutInv'
  <1>1. /\ pc = "down" /\ SuperblockFound(cache) /\ pending = {} /\ pc' \in {"heal", "replay"}
        /\ UNCHANGED <<deviceVars, txn, lost, acked, cuts>>
        /\ pc' = "replay" => cache[Primary].kind = "sb"
    BY DEF Open, CutInv, DownPart
  <1>2. durable = cache /\ durable \in Images
    <2>1. \A l \in Loc : cache[l] = durable[l]
      BY <1>1 DEF Base, QuietInv, Quiet
    <2> QED
      BY <2>1 DEF Base, TypeOK, Images
  <1>3. /\ sb' = RecoverySuperblock(durable)
        /\ scan' = [head |-> sb'.head, seq |-> sb'.seq, applied |-> 0]
    BY <1>2 DEF Open, RecoverySuperblock
  <1>4. PICK f \in HeadTables, e \in Nat, s \in States : DownCut(f, e, s)
    BY <1>1, <1>2 DEF CutInv, DownPart
  <1> DEFINE R == RecoverySuperblock(durable)
  <1>5. /\ R.kind = "sb" /\ f[R.seq] = R.head /\ R.seq <= e /\ R.seq \in Nat
        /\ Settles(durable, f, R.seq, e, s)
    BY <1>2, <1>4, SuperblockType DEF DownCut, Recoverable
  <1>6. DownCut(f, e, s)' /\ StartsAt(durable, sb.head, sb.seq)'
    <2>1. Candidates' = Candidates
      BY <1>1 DEF Candidates
    <2> QED
      BY <1>1, <1>3, <1>4, <1>5, <2>1 DEF DownCut, Behind, StartsAt
  <1>7. \A l : Quiet(l)'
    BY <1>1 DEF Quiet
  <1>8. (IF pc = "heal" THEN pending = {} ELSE Current(cache))'
    BY <1>1, <1>2, <1>3 DEF Current, RecoverySuperblock
  <1>9. RecoveringCut(f, e, s)'
    BY <1>1, <1>2, <1>3, <1>5, <1>6, <1>7, <1>8 DEF RecoveringCut
  <1>10. pc' \in Recovering /\ RecoveringPart'
    BY <1>1, <1>9 DEF RecoveringPart, Recovering
  <1>11. LagBounded' /\ SuperblockWritten'
    <2>1. cuts \in Nat
      BY BoundAssumption DEF Base, TypeOK
    <2> QED
      BY <1>1, <1>3, <2>1 DEF LagBounded, SuperblockWritten
  <1>12. PartsAt'
    BY <1>10, OnePart
  <1> QED
    BY <1>11, <1>12 DEF CutInv, PartsAt

(* Writing the superblock moves nothing else. *)
LEMMA SuperblockStep ==
  ASSUME Base, pending = {}, Pwrite(SuperblockWrites(NextSuperblock)), sb' = NextSuperblock
  PROVE  /\ SuperblockWritten' /\ Current(cache)' /\ durable' = durable
         /\ sb'.seq = sb.seq /\ sb'.head = sb.head
         /\ \A l \in JournalArea \cup MetaArea : cache'[l] = cache[l] /\ (Quiet(l)' <=> Quiet(l))
  <1> DEFINE ws == SuperblockWrites(NextSuperblock)
  <1>1. /\ DOMAIN ws = {Primary, Backup} /\ \A l \in DOMAIN ws : ws[l] = NextSuperblock
        /\ DOMAIN ws \cap (MetaArea \cup JournalArea) = {}
    BY SuperblockOutside DEF SuperblockWrites
  <1>2. sb'.seq = sb.seq /\ sb'.head = sb.head /\ sb'.kind = "sb"
    BY DEF NextSuperblock, Base, TypeOK, SuperblockSet
  <1> HIDE DEF ws
  <1>3. /\ durable' = durable
        /\ \A p \in pending' : p \in pending \/ (p[1] \in DOMAIN ws /\ p[2] = ws[p[1]])
        /\ \A l \in Loc : l \notin DOMAIN ws => cache'[l] = cache[l]
        /\ \A l \in Loc : l \in DOMAIN ws => cache'[l] = ws[l]
    BY PwriteFacts DEF ws, Base, TypeOK
  <1>4. \A l : Quiet(l)' <=> Quiet(l) /\ l \notin DOMAIN ws
    BY PwriteQuiet DEF ws, Base
  <1>5. SuperblockWritten'
    <2> SUFFICES ASSUME NEW p \in pending', p[1] \in {Primary, Backup} PROVE p[2] = sb'
      BY DEF SuperblockWritten
    <2>1. p[1] \in DOMAIN ws /\ p[2] = ws[p[1]]
      BY <1>3
    <2> QED
      BY <1>1, <2>1
  <1>6. Current(cache)'
    BY <1>1, <1>2, <1>3, HeadFacts DEF Current
  <1>7. ASSUME NEW l \in JournalArea \cup MetaArea PROVE cache'[l] = cache[l] /\ (Quiet(l)' <=> Quiet(l))
    BY <1>1, <1>3, <1>4, HeadFacts
  <1> QED
    BY <1>2, <1>3, <1>5, <1>6, <1>7

LEMMA HealStep ==
  ASSUME Base, CutInv, Heal
  PROVE  CutInv'
  <1>1. /\ pc = "heal" /\ pc' = "replay" /\ sb' = NextSuperblock
        /\ Pwrite(SuperblockWrites(NextSuperblock))
        /\ UNCHANGED <<scan, txn, lost, acked, cuts>>
    BY DEF Heal
  <1>2. PICK f \in HeadTables, e \in Nat, s \in States : RecoveringCut(f, e, s)
    BY <1>1 DEF CutInv, RecoveringPart, Recovering
  <1>3. pending = {}
    BY <1>1, <1>2 DEF RecoveringCut
  <1>4. /\ SuperblockWritten' /\ Current(cache)' /\ durable' = durable
        /\ sb'.seq = sb.seq /\ sb'.head = sb.head
        /\ \A l \in JournalArea \cup MetaArea : cache'[l] = cache[l] /\ (Quiet(l)' <=> Quiet(l))
    BY <1>1, <1>3, SuperblockStep
  <1>5. DownCut(f, e, s)' /\ StartsAt(durable, sb.head, sb.seq)'
    <2>1. Candidates' = Candidates
      BY <1>1 DEF Candidates
    <2> QED
      BY <1>1, <1>2, <1>4, <2>1 DEF RecoveringCut, DownCut, StartsAt
  <1>6. Settles(cache', f, scan.seq, e, s)
    <2>1. cache \in Images /\ cache' = Overlay(cache, SuperblockWrites(NextSuperblock))
      BY <1>1 DEF Base, TypeOK, Images, Pwrite
    <2>2. cache' \in Images
      BY <2>1, OverlayType, NextSuperblockType, SuperblockWritesType DEF Base, Images
    <2>3. ASSUME NEW q \in Nat, scan.seq <= q, q < e PROVE SameFind(cache, cache', f, q)
      <3>1. Found(durable, f[q], q)
        <4>1. RecoverySuperblock(durable).seq <= q
          BY <1>2, <2>3 DEF RecoveringCut, StartsAt, Base, TypeOK, SuperblockSet
        <4> QED
          BY <1>2, <2>3, <4>1 DEF RecoveringCut, DownCut, Recoverable, ChainFrom
      <3>2. \A l \in JournalArea : cache[l] = durable[l]
        BY <1>2, HeadFacts DEF RecoveringCut, Base, QuietInv
      <3>3. durable \in Images
        BY DEF Base, TypeOK, Images
      <3>4. Found(cache, f[q], q)
        BY <2>1, <3>1, <3>2, <3>3, JournalKept
      <3> QED
        BY <1>4, <2>1, <2>2, <3>4, JournalKept
    <2>4. \A b \in Blocks : cache'[M(b)] = cache[M(b)]
      BY <1>4, HeadFacts
    <2>5. scan.seq \in Nat /\ Settles(cache, f, scan.seq, e, s)
      BY <1>2 DEF RecoveringCut, Base, TypeOK
    <2> QED
      BY <2>3, <2>4, <2>5, SettlesKept
  <1>7. RecoveringCut(f, e, s)'
    <2>1. /\ \A l \in JournalArea : Quiet(l)'
          /\ \A b \in Blocks :
               Writers(durable', f, sb'.seq, e, b) = {} \/ scan'.applied = 0 => Quiet(M(b))'
      BY <1>1, <1>2, <1>4, HeadFacts DEF RecoveringCut
    <2>2. sb'.seq + scan'.applied = scan'.seq /\ scan'.seq <= e /\ scan'.head = f[scan'.seq]
      BY <1>1, <1>2, <1>4 DEF RecoveringCut
    <2> QED
      BY <1>1, <1>4, <1>5, <1>6, <2>1, <2>2 DEF RecoveringCut
  <1>8. pc' \in Recovering /\ RecoveringPart'
    BY <1>1, <1>7 DEF RecoveringPart, Recovering
  <1>9. PartsAt'
    BY <1>8, OnePart
  <1> QED
    BY <1>1, <1>4, <1>9 DEF CutInv, PartsAt, LagBounded

(* What replay reads of the journal is what the medium holds. *)
LEMMA ReplayReads ==
  ASSUME Base, NEW f \in HeadTables, NEW e \in Nat, NEW s \in States, RecoveringCut(f, e, s)
  PROVE  /\ durable \in Images /\ cache \in Images
         /\ \A l \in JournalArea : cache[l] = durable[l]
         /\ ChainFrom(durable, f, sb.seq, e) /\ ChainFrom(cache, f, scan.seq, e)
         /\ scan.seq \in Nat /\ sb.seq \in Nat /\ scan.applied \in Nat /\ sb.seq <= scan.seq
         /\ Found(cache, scan.head, scan.seq) <=> scan.seq # e
  <1>1. durable \in Images /\ cache \in Images
    BY DEF Base, TypeOK, Images
  <1>2. \A l \in JournalArea : cache[l] = durable[l]
    BY HeadFacts DEF RecoveringCut, Base, QuietInv
  <1>3. ChainFrom(durable, f, sb.seq, e) /\ ~Found(durable, f[e], e)
    BY DEF RecoveringCut, DownCut, Recoverable, StartsAt
  <1>4. scan.seq \in Nat /\ sb.seq \in Nat /\ scan.applied \in Nat
    BY DEF Base, TypeOK, SuperblockSet
  <1>5. sb.seq <= scan.seq /\ scan.seq <= e /\ scan.head = f[scan.seq]
    BY <1>4 DEF RecoveringCut
  <1>6. \A q \in Nat : scan.seq <= q /\ q < e => sb.seq <= q
    BY <1>4, <1>5
  <1>7. ChainFrom(durable, f, scan.seq, e)
    BY <1>3, <1>6 DEF ChainFrom
  <1>8. ChainFrom(cache, f, scan.seq, e)
    <2>1. \A q \in Nat : scan.seq <= q /\ q < e => SameFind(durable, cache, f, q)
      BY <1>1, <1>2, <1>7, JournalKept DEF ChainFrom
    <2> QED
      BY <1>4, <1>7, <2>1, ChainKept
  <1>9. Found(cache, scan.head, scan.seq) <=> scan.seq # e
    <2>1. ~Found(cache, f[e], e)
      BY <1>1, <1>2, <1>3, JournalKept
    <2>2. scan.seq # e => scan.seq < e
      BY <1>4, <1>5
    <2>3. scan.seq < e => Found(cache, f[scan.seq], scan.seq)
      BY <1>4, <1>8 DEF ChainFrom
    <2> QED
      BY <1>5, <2>1, <2>2, <2>3
  <1> QED
    BY <1>1, <1>2, <1>3, <1>4, <1>5, <1>8, <1>9

LEMMA ReplayTxnStep ==
  ASSUME Base, Base', CutInv, ReplayTxn
  PROVE  CutInv'
  <1> DEFINE pos == FoundAt(cache, scan.head, scan.seq)
             ws == ReplayWrites(cache, pos)
  <1>1. /\ pc = "replay" /\ pc' = "replay" /\ Found(cache, scan.head, scan.seq)
        /\ Pwrite(ws)
        /\ scan' = [head |-> Advance(pos, Needed(cache[J(pos)].targets)),
                    seq |-> scan.seq + 1, applied |-> scan.applied + 1]
        /\ UNCHANGED <<sb, txn, lost, acked, cuts>>
    BY DEF ReplayTxn
  <1>2. PICK f \in HeadTables, e \in Nat, s \in States : RecoveringCut(f, e, s)
    BY <1>1 DEF CutInv, RecoveringPart, Recovering
  <1>3. PICK q \in Nat : q = scan.seq
    BY DEF Base, TypeOK
  <1>4. /\ durable \in Images /\ cache \in Images /\ cache' \in Images
        /\ \A l \in JournalArea : cache[l] = durable[l]
        /\ ChainFrom(durable, f, sb.seq, e) /\ ChainFrom(cache, f, q, e)
        /\ sb.seq \in Nat /\ scan.applied \in Nat /\ sb.seq <= q /\ q < e
        /\ sb.seq + scan.applied = q
    <2>1. q <= e /\ q # e /\ sb.seq + scan.applied = q
      BY <1>1, <1>2, <1>3, ReplayReads DEF RecoveringCut
    <2>2. cache' \in Images
      BY DEF Base, TypeOK, Images
    <2>3. q < e
      BY <2>1
    <2> QED
      BY <1>2, <1>3, <2>1, <2>2, <2>3, ReplayReads
  <1>5. scan.head = f[q] /\ pos = At(cache, f, q) /\ ws = ReplayBatch(cache, f, q)
    BY <1>2, <1>3 DEF RecoveringCut, At, ReplayBatch
  <1>6. pos \in Heads /\ ValidTxn(cache, pos, scan.seq) /\ DOMAIN ws \subseteq MetaArea
    BY <1>1, <1>4, FoundAtType, ReplayWritesType DEF Base, Images
  <1>7. scan'.seq = q + 1 /\ scan'.applied = scan.applied + 1 /\ scan'.head = f[q + 1]
    <2>1. f[q + 1] = NextHead(cache, f, q)
      BY <1>4 DEF ChainFrom
    <2> QED
      BY <1>1, <1>3, <1>5, <2>1 DEF NextHead
  <1> HIDE DEF ws, pos
  <1>8. /\ durable' = durable
        /\ \A p \in pending' : p \in pending \/ (p[1] \in DOMAIN ws /\ p[2] = ws[p[1]])
        /\ \A l \in Loc : l \notin DOMAIN ws => cache'[l] = cache[l]
        /\ \A l \in Loc : l \in DOMAIN ws => cache'[l] = ws[l]
        /\ \A l : Quiet(l)' <=> Quiet(l) /\ l \notin DOMAIN ws
    BY <1>1, PwriteFacts, PwriteQuiet DEF Base, TypeOK
  <1>9. \A l \in JournalArea \cup {Primary, Backup} : l \notin DOMAIN ws /\ cache'[l] = cache[l]
    BY <1>6, <1>8, Disjoint, HeadFacts
  <1>10. DownCut(f, e, s)' /\ StartsAt(durable, sb.head, sb.seq)'
    <2>1. Candidates' = Candidates
      BY <1>1 DEF Candidates
    <2> QED
      BY <1>1, <1>2, <1>8, <2>1 DEF RecoveringCut, DownCut, StartsAt
  <1>11. Settles(cache', f, q + 1, e, s)
    <2>1. Settles(cache, f, q, e, s)
      BY <1>2, <1>3 DEF RecoveringCut
    <2>2. \A b \in Blocks : cache'[M(b)] = IF M(b) \in DOMAIN ReplayBatch(cache, f, q)
                                          THEN ReplayBatch(cache, f, q)[M(b)] ELSE cache[M(b)]
      BY <1>5, <1>8, HeadFacts
    <2>3. \A l \in JournalArea : cache'[l] = cache[l]
      BY <1>9
    <2> QED
      BY <1>4, <2>1, <2>2, <2>3, OneFewer
  <1>12. ASSUME NEW b \in Blocks,
                Writers(durable', f, sb'.seq, e, b) = {} \/ scan'.applied = 0
         PROVE  Quiet(M(b))'
    <2>1. Writers(durable, f, sb.seq, e, b) = {}
      BY <1>1, <1>4, <1>7, <1>8, <1>12
    <2>2. Quiet(M(b))
      BY <1>2, <2>1 DEF RecoveringCut
    <2>3. Found(durable, f[q], q)
      BY <1>4 DEF ChainFrom
    <2>4. ReplayBatch(durable, f, q) = ws
      BY <1>4, <1>5, <2>3, JournalKept DEF SameFind
    <2>5. q \notin Writers(durable, f, sb.seq, e, b)
      BY <2>1
    <2>6. M(b) \notin DOMAIN ws
      BY <1>4, <2>4, <2>5 DEF Writers
    <2> QED
      BY <1>8, <2>2, <2>6
  <1>13. RecoveringCut(f, e, s)'
    <2>1. \A l \in JournalArea : Quiet(l)'
      BY <1>2, <1>8, <1>9 DEF RecoveringCut
    <2>2. Current(cache)'
      BY <1>1, <1>2, <1>9 DEF RecoveringCut, Current
    <2>3. sb'.seq + scan'.applied = scan'.seq /\ scan'.seq <= e
      BY <1>1, <1>4, <1>7
    <2> QED
      BY <1>1, <1>7, <1>10, <1>11, <1>12, <2>1, <2>2, <2>3 DEF RecoveringCut
  <1>14. SuperblockWritten'
    BY <1>1, <1>8, <1>9 DEF SuperblockWritten, CutInv
  <1>15. LagBounded'
    <2>1. /\ sb'.seq + scan'.applied = scan'.seq /\ scan'.seq <= e /\ e <= sb'.seq + (cuts' + 1)
      BY <1>13 DEF RecoveringCut, DownCut, Behind, StartsAt
    <2>2. sb'.seq \in Nat /\ scan'.applied \in Nat /\ scan'.seq \in Nat /\ cuts' \in Nat
      BY BoundAssumption DEF Base, TypeOK, SuperblockSet
    <2> QED
      BY <2>1, <2>2 DEF LagBounded
  <1>16. pc' \in Recovering /\ RecoveringPart'
    BY <1>1, <1>13 DEF RecoveringPart, Recovering
  <1>17. PartsAt'
    BY <1>16, OnePart
  <1> QED
    BY <1>14, <1>15, <1>17 DEF CutInv, PartsAt

LEMMA NoLag ==
  ASSUME TypeOK', scan' = NoScan
  PROVE  LagBounded'
  <1>1. PICK n \in Nat : n = cuts'
    BY BoundAssumption DEF TypeOK
  <1>2. 0 <= n + 1
    OBVIOUS
  <1>3. scan'.applied = 0
    BY DEF NoScan
  <1> QED
    BY <1>1, <1>2, <1>3 DEF LagBounded

LEMMA ReplayEndStep ==
  ASSUME Base, Base', CutInv, ReplayEnd
  PROVE  CutInv'
  <1>1. /\ pc = "replay" /\ ~Found(cache, scan.head, scan.seq)
        /\ UNCHANGED <<deviceVars, sb, cuts>>
    BY DEF ReplayEnd
  <1>2. PICK f \in HeadTables, e \in Nat, s \in States : RecoveringCut(f, e, s)
    BY <1>1 DEF CutInv, RecoveringPart, Recovering
  <1>3. /\ scan.seq = e /\ sb.seq \in Nat /\ scan.applied \in Nat /\ durable \in Images
    BY <1>1, <1>2, ReplayReads
  <1>4. SuperblockWritten'
    BY <1>1 DEF SuperblockWritten, CutInv
  <1>5. \A l : Quiet(l)' <=> Quiet(l)
    BY <1>1 DEF Quiet
  <1>6. CASE scan.applied > 0
    <2>1. pc' = "replaySync" /\ UNCHANGED <<acked, lost, txn, scan>>
      BY <1>6 DEF ReplayEnd
    <2>2. DownCut(f, e, s)' /\ StartsAt(durable, sb.head, sb.seq)' /\ Current(cache)'
      <3>1. Candidates' = Candidates
        BY <2>1 DEF Candidates
      <3> QED
        BY <1>1, <1>2, <2>1, <3>1 DEF RecoveringCut, DownCut, StartsAt, Current
    <2>3. RecoveringCut(f, e, s)'
      BY <1>1, <1>2, <1>3, <1>5, <2>1, <2>2 DEF RecoveringCut
    <2>4. pc' \in Recovering /\ RecoveringPart'
      BY <2>1, <2>3 DEF RecoveringPart, Recovering
    <2>5. PartsAt' /\ LagBounded'
      BY <1>1, <2>1, <2>4, OnePart DEF CutInv, LagBounded
    <2> QED
      BY <1>4, <2>5 DEF CutInv, PartsAt
  <1>7. CASE ~(scan.applied > 0)
    <2>1. Opened /\ scan.applied = 0 /\ pc' = "idle" /\ scan' = NoScan
      BY <1>3, <1>7 DEF ReplayEnd, Opened
    <2>2. sb.seq = e /\ f[e] = sb.head
      <3>1. sb.seq + scan.applied = scan.seq /\ scan.head = f[scan.seq] /\ Current(cache)
            /\ StartsAt(durable, sb.head, sb.seq)
            /\ f[RecoverySuperblock(durable).seq] = RecoverySuperblock(durable).head
        BY <1>1, <1>2 DEF RecoveringCut, DownCut, Recoverable
      <3>2. sb.seq = e
        BY <1>3, <2>1, <3>1
      <3> QED
        BY <3>1, <3>2 DEF StartsAt
    <2>3. Holds(cache, s)
      BY <1>2, <1>3, NothingReplayed DEF RecoveringCut
    <2>4. Recoverable(durable, f, e, s, acked, Candidates)
      BY <1>2 DEF RecoveringCut, DownCut
    <2>5. acked' = s /\ Recoverable(durable, f, e, s, s, Candidates')
      BY <1>3, <2>1, <2>3, <2>4, OpenedOutcome DEF Base
    <2>6. \A b \in Blocks : Quiet(M(b)) /\ cache[M(b)] = durable[M(b)]
      BY <1>2, <2>1, HeadFacts DEF RecoveringCut, Base, QuietInv
    <2>7. Holds(durable, s)
      BY <2>3, <2>6 DEF Holds
    <2>8. WorkingCut(f)'
      <3>1. DownCut(f, sb.seq, acked)'
        BY <1>1, <1>2, <2>2, <2>5 DEF DownCut, RecoveringCut
      <3>2. Holds(durable, acked)' /\ f[sb'.seq] = sb'.head /\ Current(cache)'
        BY <1>1, <1>2, <2>2, <2>5, <2>7 DEF RecoveringCut, Current
      <3>3. /\ \A l \in JournalArea : Quiet(l)'
            /\ \A b \in Blocks : Quiet(M(b))'
        BY <1>2, <1>5, <2>6 DEF RecoveringCut
      <3> QED
        BY <2>1, <3>1, <3>2, <3>3 DEF WorkingCut
    <2>9. pc' \in Working /\ WorkingPart'
      BY <2>1, <2>8 DEF Working, WorkingPart
    <2>10. LagBounded'
      BY <2>1, NoLag DEF Base
    <2>11. PartsAt'
      BY <2>9, OnePart
    <2> QED
      BY <1>4, <2>10, <2>11 DEF CutInv, PartsAt
  <1> QED
    BY <1>6, <1>7

LEMMA ReplaySyncStep ==
  ASSUME Base, Base', CutInv, ReplaySync
  PROVE  CutInv'
  <1>1. /\ pc = "replaySync" /\ pc' = "replayCheckpoint"
        /\ durable' = cache /\ cache' = cache /\ pending' = {}
        /\ sb' = [sb EXCEPT !.head = scan.head, !.seq = scan.seq]
        /\ UNCHANGED <<scan, txn, lost, acked, cuts>>
    BY DEF ReplaySync, Sync
  <1>2. PICK f \in HeadTables, e \in Nat, s \in States : RecoveringCut(f, e, s)
    BY <1>1 DEF CutInv, RecoveringPart, Recovering
  <1>3. /\ scan.seq = e /\ scan.head = f[e] /\ Current(cache) /\ StartsAt(durable, sb.head, sb.seq)
        /\ Holds(cache, s)
    <2>1. scan.seq = e /\ scan.head = f[e] /\ Current(cache) /\ StartsAt(durable, sb.head, sb.seq)
      BY <1>1, <1>2 DEF RecoveringCut
    <2>2. Settles(cache, f, e, e, s)
      BY <1>2, <2>1 DEF RecoveringCut
    <2> QED
      BY <2>1, <2>2, NothingReplayed
  <1>4. sb'.seq = e /\ sb'.head = f[e]
    BY <1>1, <1>3 DEF Base, TypeOK, SuperblockSet
  <1>5. /\ RecoverySuperblock(cache).kind = "sb"
        /\ RecoverySuperblock(cache).seq = RecoverySuperblock(durable).seq
        /\ RecoverySuperblock(cache).head = RecoverySuperblock(durable).head
    BY <1>3 DEF Current, StartsAt, RecoverySuperblock
  <1>6. Recoverable(cache, f, e, s, acked, Candidates)
    <2>1. durable \in Images /\ cache \in Images /\ \A l \in JournalArea : cache[l] = durable[l]
      BY <1>2, ReplayReads
    <2>2. Recoverable(durable, f, e, s, acked, Candidates)
      BY <1>2 DEF RecoveringCut, DownCut
    <2>3. ASSUME NEW b \in Blocks
          PROVE  cache[M(b)] = durable[M(b)] \/
                   Writers(durable, f, RecoverySuperblock(durable).seq, e, b) # {}
      <3>1. Writers(durable, f, sb.seq, e, b) = {} => Quiet(M(b))
        BY <1>2 DEF RecoveringCut
      <3>2. Quiet(M(b)) => cache[M(b)] = durable[M(b)]
        BY HeadFacts DEF Base, QuietInv
      <3> QED
        BY <1>3, <3>1, <3>2 DEF StartsAt
    <2> QED
      BY <1>5, <2>1, <2>2, <2>3, RecoverableKept
  <1>7. SettledCut(f, e, s)'
    <2>1. Candidates' = Candidates
      BY <1>1 DEF Candidates
    <2>2. Behind(durable', e, cuts' + 1)
      BY <1>1, <1>2, <1>5 DEF RecoveringCut, DownCut, Behind
    <2> QED
      BY <1>1, <1>3, <1>4, <1>6, <2>1, <2>2 DEF SettledCut, DownCut
  <1>8. ReplayedPart'
    BY <1>1, <1>7 DEF ReplayedPart
  <1>9. PartsAt'
    BY <1>1, <1>8, OnePart
  <1> QED
    BY <1>1, <1>9 DEF CutInv, PartsAt, LagBounded, SuperblockWritten

(* Once done, an operation is one of those that a recovery starts from. *)
LEMMA NowDone ==
  ASSUME NEW img \in Images, NEW f, NEW e \in Nat, NEW s, NEW from, NEW ops, NEW left,
         Recoverable(img, f, e, s, from, ops), CommitsBelow(img, e)
  PROVE  Recoverable(img, f, e, s, s, left)
  <1>1. ASSUME NEW l \in JournalArea, img[l].kind = "commit"
        PROVE  img[l].seq <= e /\ img[l].seq # e
    <2>1. img[l].seq \in Nat
      BY <1>1, CommitFacts, HeadFacts DEF Images
    <2>2. img[l].seq < e
      BY <1>1 DEF CommitsBelow
    <2> QED
      BY <2>1, <2>2
  <1>2. CommitsUpTo(img, e, left)
    BY <1>1 DEF CommitsUpTo
  <1> QED
    BY <1>2 DEF Recoverable, Outcome

(* The superblock that ends a replay or a commit: what the operations left *)
(* is on the medium, and no record in the journal is as new.               *)
LEMMA BackToWork ==
  ASSUME Base, Base', pending = {}, NEW f \in HeadTables, NEW e \in Nat, NEW s \in States,
         Recoverable(durable, f, e, s, s, Candidates'), Behind(durable, e, cuts + 1),
         Holds(cache, s), sb.seq = e, sb.head = f[e],
         Pwrite(SuperblockWrites(NextSuperblock)), sb' = NextSuperblock,
         acked' = s, pc' = "idle", cuts' = cuts, LagBounded'
  PROVE  CutInv'
  <1>1. /\ SuperblockWritten' /\ Current(cache)' /\ durable' = durable
        /\ sb'.seq = sb.seq /\ sb'.head = sb.head
        /\ \A l \in JournalArea \cup MetaArea : cache'[l] = cache[l] /\ (Quiet(l)' <=> Quiet(l))
    BY SuperblockStep
  <1>2. \A l : Quiet(l)
    BY DEF Quiet
  <1>3. Holds(durable, s)
    <2>1. \A b \in Blocks : cache[M(b)] = durable[M(b)]
      BY <1>2, HeadFacts DEF Base, QuietInv
    <2> QED
      BY <2>1 DEF Holds
  <1>4. DownCut(f, sb.seq, acked)'
    BY <1>1 DEF DownCut
  <1>5. /\ \A l \in JournalArea : Quiet(l)'
        /\ \A b \in Blocks : Quiet(M(b))'
    BY <1>1, <1>2, HeadFacts
  <1>6. WorkingCut(f)'
    BY <1>1, <1>3, <1>4, <1>5 DEF WorkingCut
  <1>7. pc' \in Working /\ WorkingPart'
    BY <1>6 DEF Working, WorkingPart
  <1>8. PartsAt'
    BY <1>7, OnePart
  <1> QED
    BY <1>1, <1>8 DEF CutInv, PartsAt

LEMMA ReplayCheckpointStep ==
  ASSUME Base, Base', CutInv, ReplayCheckpoint
  PROVE  CutInv'
  <1>1. /\ pc = "replayCheckpoint" /\ Pwrite(SuperblockWrites(NextSuperblock)) /\ sb' = NextSuperblock
        /\ Opened /\ pc' = "idle" /\ cuts' = cuts /\ scan' = NoScan
    BY DEF ReplayCheckpoint, Opened
  <1>2. PICK f \in HeadTables, e \in Nat, s \in States : SettledCut(f, e, s)
    BY <1>1 DEF CutInv, ReplayedPart
  <1>3. /\ Recoverable(durable, f, e, s, acked, Candidates) /\ Behind(durable, e, cuts + 1)
        /\ pending = {} /\ Holds(cache, s) /\ sb.seq = e /\ sb.head = f[e]
    BY <1>2 DEF SettledCut, DownCut
  <1>4. durable \in Images
    BY DEF Base, TypeOK, Images
  <1>5. acked' = s /\ Recoverable(durable, f, e, s, s, Candidates')
    BY <1>1, <1>3, <1>4, OpenedOutcome DEF Base
  <1>6. LagBounded'
    BY <1>1, NoLag DEF Base
  <1> QED
    BY <1>1, <1>3, <1>5, <1>6, BackToWork

LEMMA CheckpointStep ==
  ASSUME Base, Base', CutInv, Checkpoint
  PROVE  CutInv'
  <1>1. /\ pc = "checkpoint" /\ Pwrite(SuperblockWrites(NextSuperblock)) /\ sb' = NextSuperblock
        /\ pc' = "idle" /\ cuts' = cuts /\ acked' = Done(acked, txn) /\ lost' = {} /\ txn' = NoTxn
        /\ scan' = scan
    BY DEF Checkpoint, AfterOp, Done
  <1>2. CommitsBelow(durable, sb.seq)
    BY <1>1 DEF CutInv, AppliedPart
  <1>3. PICK f \in HeadTables : SettledCut(f, sb.seq, Done(acked, txn))
    BY <1>1 DEF CutInv, AppliedPart
  <1>4. PICK e \in Nat : e = sb.seq
    BY DEF Base, TypeOK, SuperblockSet
  <1>5. PICK s \in States : s = Done(acked, txn)
    BY <1>1 DEF Base, TypeOK, States
  <1>6. /\ Recoverable(durable, f, e, s, acked, Candidates) /\ Behind(durable, e, cuts + 1)
        /\ pending = {} /\ Holds(cache, s) /\ sb.head = f[e]
    BY <1>3, <1>4, <1>5 DEF SettledCut, DownCut
  <1>7. Recoverable(durable, f, e, s, s, Candidates')
    <2>1. durable \in Images /\ CommitsBelow(durable, e)
      BY <1>2, <1>4 DEF Base, TypeOK, Images
    <2> QED
      BY <1>6, <2>1, NowDone
  <1>8. LagBounded'
    BY <1>1 DEF CutInv, LagBounded
  <1> QED
    BY <1>1, <1>4, <1>5, <1>6, <1>7, <1>8, BackToWork

(* An operation begins: one more that a recovery may find done. *)
LEMMA OperationStep ==
  ASSUME Base, Base', CutInv, Operation
  PROVE  CutInv'
  <1>1. PICK kind \in OpKinds, targets \in TargetLists : Begin(kind, targets)
    BY DEF Operation
  <1>2. /\ pc = "idle" /\ pc' \in {"dataSync", "log"}
        /\ UNCHANGED <<sb, scan, lost, acked, cuts>>
        /\ txn' # NoTxn
    BY <1>1 DEF Begin, NoTxn, Base, TypeOK
  <1>3. /\ durable' = durable
        /\ \A l \in Loc \ DataArea : cache'[l] = cache[l] /\ (Quiet(l)' <=> Quiet(l))
        /\ \A p \in pending' : p \in pending \/ p[1] \in DataArea
    <2>1. CASE kind = "metadata"
      BY <1>1, <2>1 DEF Begin, Quiet
    <2>2. CASE kind # "metadata"
      <3> DEFINE ws == [l \in {D(nextId)} |-> FileData(nextId)]
      <3>1. Pwrite(ws) /\ DOMAIN ws = {D(nextId)} /\ D(nextId) \in DataArea
        BY <1>1, <2>2, BoundAssumption DEF Begin, DataArea, Ids, Base, TypeOK
      <3> HIDE DEF ws
      <3> QED
        BY <3>1, PwriteFacts, PwriteQuiet DEF Base, TypeOK
    <2> QED
      BY <2>1, <2>2
  <1>4. PICK f \in HeadTables : WorkingCut(f)
    BY <1>2 DEF CutInv, WorkingPart, Working
  <1>5. /\ DownCut(f, sb.seq, acked) /\ Holds(durable, acked) /\ f[sb.seq] = sb.head
        /\ \A b \in Blocks : Quiet(M(b))
        /\ \A l \in JournalArea : Quiet(l)
        /\ Current(cache)
    BY <1>2, <1>4 DEF WorkingCut
  <1>6. DownCut(f, sb.seq, acked)'
    <2>1. Candidates \subseteq Candidates'
      <3>1. txn = NoTxn /\ lost' = lost
        BY <1>2 DEF Base, IdInv
      <3> QED
        BY <3>1 DEF Candidates
    <2>2. Recoverable(durable, f, sb.seq, acked, acked, Candidates')
      BY <1>5, <2>1, RecoverableGrows DEF DownCut
    <2> QED
      BY <1>2, <1>3, <1>5, <2>2 DEF DownCut
  <1>7. \A l \in JournalArea \cup MetaArea \cup {Primary, Backup} : l \in Loc \ DataArea
    BY Disjoint, HeadFacts
  <1>8. /\ \A l \in JournalArea : Quiet(l)'
        /\ \A b \in Blocks : Quiet(M(b))'
    BY <1>3, <1>5, <1>7, HeadFacts
  <1>9. Current(cache)'
    BY <1>2, <1>3, <1>5, <1>7 DEF Current
  <1>10. WorkingCut(f)'
    BY <1>2, <1>3, <1>5, <1>6, <1>8, <1>9 DEF WorkingCut
  <1>11. pc' \in Working /\ WorkingPart'
    BY <1>2, <1>10 DEF Working, WorkingPart
  <1>12. SuperblockWritten' /\ LagBounded'
    BY <1>2, <1>3, <1>7 DEF SuperblockWritten, LagBounded, CutInv
  <1>13. PartsAt'
    BY <1>11, OnePart
  <1> QED
    BY <1>12, <1>13 DEF CutInv, PartsAt

(* Between operations a sync makes the superblock durable, and recovery    *)
(* has nothing to replay.                                                  *)
LEMMA SyncStep ==
  ASSUME Base, Base', CutInv, DataSync \/ Fsync
  PROVE  CutInv'
  <1>1. /\ pc \in {"idle", "dataSync"} /\ pc' \in {"idle", "log"}
        /\ durable' = cache /\ cache' = cache /\ pending' = {}
        /\ sb'.seq = sb.seq /\ sb'.head = sb.head
        /\ UNCHANGED <<scan, txn, lost, acked, cuts>>
    BY DEF DataSync, Fsync, Sync, Base, TypeOK, SuperblockSet
  <1>2. PICK f \in HeadTables : WorkingCut(f)
    BY <1>1 DEF CutInv, WorkingPart, Working
  <1>3. PICK e \in Nat : e = sb.seq
    BY DEF Base, TypeOK, SuperblockSet
  <1>4. /\ Recoverable(durable, f, e, acked, acked, Candidates) /\ f[e] = sb.head
        /\ \A b \in Blocks : Quiet(M(b))
        /\ \A l \in JournalArea : Quiet(l)
        /\ Holds(durable, acked) /\ Current(cache)
    BY <1>1, <1>2, <1>3 DEF WorkingCut, DownCut
  <1>5. /\ \A l \in JournalArea : cache[l] = durable[l]
        /\ \A b \in Blocks : cache[M(b)] = durable[M(b)]
        /\ durable \in Images /\ cache \in Images
    BY <1>4, HeadFacts DEF Base, QuietInv, TypeOK, Images
  <1>6. /\ RecoverySuperblock(cache).kind = "sb" /\ RecoverySuperblock(cache).seq = e
        /\ RecoverySuperblock(cache).head = f[e]
    BY <1>3, <1>4 DEF Current, RecoverySuperblock
  <1>7. Recoverable(cache, f, e, acked, acked, Candidates) /\ Holds(cache, acked)
    <2>1. ~Found(cache, f[e], e)
      BY <1>4, <1>5, JournalKept DEF Recoverable
    <2>2. Outcome(cache, e, acked, acked, Candidates)
      BY <1>4, <1>5, OutcomeKept DEF Recoverable
    <2>3. Holds(cache, acked)
      BY <1>4, <1>5 DEF Holds
    <2> QED
      BY <1>5, <1>6, <2>1, <2>2, <2>3, NothingToReplay
  <1>8. Behind(cache, e, cuts + 1)
    <2>1. PICK n \in Nat : n = cuts
      BY BoundAssumption DEF Base, TypeOK
    <2> QED
      BY <1>6, <2>1 DEF Behind
  <1>9. WorkingCut(f)'
    <2>1. Candidates' = Candidates
      BY <1>1 DEF Candidates
    <2>2. DownCut(f, sb.seq, acked)'
      BY <1>1, <1>3, <1>7, <1>8, <2>1 DEF DownCut
    <2>3. \A l : Quiet(l)'
      BY <1>1 DEF Quiet
    <2>4. Current(cache)'
      BY <1>1, <1>4 DEF Current
    <2> QED
      BY <1>1, <1>3, <1>4, <1>7, <2>2, <2>3, <2>4 DEF WorkingCut
  <1>10. pc' \in Working /\ WorkingPart'
    BY <1>1, <1>9 DEF Working, WorkingPart
  <1>11. PartsAt'
    BY <1>10, OnePart
  <1> QED
    BY <1>1, <1>11 DEF CutInv, PartsAt, SuperblockWritten, LagBounded

LEMMA LogStep ==
  ASSUME Base, Base', CutInv, Log
  PROVE  CutInv'
  <1> DEFINE ws == JournalWrites(Position, sb.seq, txn)
  <1>1. /\ pc = "log" /\ pc' = "logSync" /\ Pwrite(ws)
        /\ UNCHANGED <<sb, scan, txn, lost, acked, cuts>>
    BY DEF Log
  <1>2. PICK f \in HeadTables : WorkingCut(f)
    BY <1>1 DEF CutInv, WorkingPart, Working
  <1>3. /\ DownCut(f, sb.seq, acked) /\ Holds(durable, acked) /\ f[sb.seq] = sb.head
        /\ \A b \in Blocks : Quiet(M(b))
        /\ \A l \in JournalArea : Quiet(l)
        /\ Current(cache)
    BY <1>1, <1>2 DEF WorkingCut
  <1>4. DOMAIN ws \subseteq JournalArea
    <2>1. /\ txn \in TxnSet /\ Needed(txn.targets) <= JournalLength /\ sb.seq \in Nat
      BY <1>1 DEF Base, Committing, TypeOK, SuperblockSet
    <2> QED
      BY <2>1, PositionType, JournalWritesType DEF Base
  <1>5. ws' = ws
    BY <1>1 DEF Position
  <1> HIDE DEF ws
  <1>6. /\ durable' = durable
        /\ \A p \in pending' : p \in pending \/ (p[1] \in DOMAIN ws /\ p[2] = ws[p[1]])
        /\ \A l \in Loc : l \notin DOMAIN ws => cache'[l] = cache[l]
        /\ \A l \in Loc : l \in DOMAIN ws => cache'[l] = ws[l]
        /\ \A l : Quiet(l)' <=> Quiet(l) /\ l \notin DOMAIN ws
    BY <1>1, PwriteFacts, PwriteQuiet DEF Base, TypeOK
  <1>7. Logging'
    <2>1. \A l \in DOMAIN ws : cache'[l] = ws[l]
      BY <1>4, <1>6, HeadFacts
    <2>2. \A l \in JournalArea \ DOMAIN ws : Quiet(l)'
      BY <1>3, <1>6
    <2>3. ASSUME NEW p \in pending', p[1] \in DOMAIN ws PROVE p[2] = ws[p[1]]
      BY <1>3, <1>4, <1>6, <2>3 DEF Quiet
    <2> QED
      BY <1>5, <2>1, <2>2, <2>3 DEF Logging, ws
  <1>8. WorkingCut(f)'
    <2>1. Candidates' = Candidates
      BY <1>1 DEF Candidates
    <2>2. DownCut(f, sb.seq, acked)'
      BY <1>1, <1>3, <1>6, <2>1 DEF DownCut
    <2>3. \A b \in Blocks : Quiet(M(b))'
      BY <1>3, <1>4, <1>6, Disjoint, HeadFacts
    <2>4. Current(cache)'
      BY <1>1, <1>3, <1>4, <1>6, Disjoint, HeadFacts DEF Current
    <2> QED
      BY <1>1, <1>3, <1>6, <1>7, <2>2, <2>3, <2>4 DEF WorkingCut
  <1>9. pc' \in Working /\ WorkingPart'
    BY <1>1, <1>8 DEF Working, WorkingPart
  <1>10. SuperblockWritten' /\ LagBounded'
    BY <1>1, <1>4, <1>6, Disjoint DEF SuperblockWritten, LagBounded, CutInv
  <1>11. PartsAt'
    BY <1>9, OnePart
  <1> QED
    BY <1>10, <1>11 DEF CutInv, PartsAt

(* Once the record is on the medium, a recovery replays it and leaves the  *)
(* operation done.                                                         *)
LEMMA LogSyncStep ==
  ASSUME Base, Base', CutInv, LogSync
  PROVE  CutInv'
  <1>1. /\ pc = "logSync" /\ pc' = "apply"
        /\ durable' = cache /\ cache' = cache /\ pending' = {}
        /\ UNCHANGED <<sb, scan, txn, lost, acked, cuts>>
    BY DEF LogSync, Sync
  <1>2. PICK f \in HeadTables : WorkingCut(f)
    BY <1>1 DEF CutInv, WorkingPart, Working
  <1>3. PICK q \in Nat : q = sb.seq
    BY DEF Base, TypeOK, SuperblockSet
  <1>4. PICK from \in States : from = acked
    BY DEF Base, TypeOK, States
  <1>5. PICK t \in TxnSet : t = txn
    BY <1>1 DEF Base, Committing
  <1>6. PICK pos \in Heads : pos = Position
    BY <1>1, PositionType DEF Base, Committing
  <1> DEFINE ws == JournalWrites(pos, q, t)
  <1>7. /\ Recoverable(durable, f, q, from, from, Candidates) /\ f[q] = sb.head
        /\ Holds(durable, from) /\ Current(cache)
        /\ \A b \in Blocks : Quiet(M(b))
        /\ \A l \in DOMAIN ws : cache[l] = ws[l]
        /\ \A l \in JournalArea \ DOMAIN ws : Quiet(l)
    BY <1>1, <1>2, <1>3, <1>4, <1>5, <1>6 DEF WorkingCut, DownCut, Logging
  <1>8. /\ durable \in Images /\ cache \in Images /\ t \in Candidates
        /\ pos + Needed(t.targets) <= JournalLength
        /\ OlderThan(durable, t.id)
        /\ pos \in {f[q], 0}
    <2>1. durable \in Images /\ cache \in Images /\ t \in Candidates
      BY <1>5, CandidateFacts DEF Base, TypeOK, Images
    <2>2. pos + Needed(t.targets) <= JournalLength
      BY <1>1, <1>5, <1>6, PositionType DEF Base, Committing
    <2>3. OlderThan(durable, t.id)
      BY <1>1, <1>5 DEF Base, AgeInv
    <2>4. pos \in {f[q], 0}
      BY <1>6, <1>7 DEF Position, LogPosition
    <2> QED
      BY <2>1, <2>2, <2>3, <2>4
  <1>9. /\ \A b \in Blocks : cache[M(b)] = durable[M(b)]
        /\ \A l \in JournalArea \ DOMAIN ws : cache[l] = durable[l]
    BY <1>7, HeadFacts DEF Base, QuietInv
  <1>10. PartlyLogged(durable, cache, pos, q, t)
    BY <1>7, <1>9 DEF PartlyLogged
  <1>11. /\ RecoverySuperblock(cache).kind = "sb" /\ RecoverySuperblock(cache).seq = q
         /\ RecoverySuperblock(cache).head = f[q]
    BY <1>3, <1>7 DEF Current, RecoverySuperblock
  <1>12. Candidates \in SUBSET TxnSet
    BY CandidateFacts DEF Base
  <1>13. PICK g \in HeadTables :
           /\ Recoverable(cache, g, q + 1, Done(from, t), from, Candidates)
           /\ CommitsBelow(cache, q + 1)
           /\ g[q + 1] = Advance(pos, Needed(t.targets))
           /\ ReplayBatch(cache, g, q) = ApplyWrites(t)
    BY <1>7, <1>8, <1>9, <1>10, <1>11, <1>12, LoggedWhole
  <1> HIDE DEF ws
  <1>14. ApplyCut(g)'
    <2>1. Candidates' = Candidates
      BY <1>1 DEF Candidates
    <2>2. Behind(cache, q + 1, cuts + 1)
      <3>1. PICK n \in Nat : n = cuts
        BY BoundAssumption DEF Base, TypeOK
      <3> QED
        BY <1>11, <3>1 DEF Behind
    <2>3. DownCut(g, sb.seq + 1, Done(acked, txn))'
      BY <1>1, <1>3, <1>4, <1>5, <1>13, <2>1, <2>2 DEF DownCut
    <2>4. StartsAt(durable, sb.head, sb.seq)' /\ CommitsBelow(durable', sb'.seq + 1)
      BY <1>1, <1>3, <1>7, <1>11, <1>13 DEF StartsAt
    <2>5. g[sb'.seq + 1] = Advance(Position, Needed(txn.targets))'
      <3>1. Position' = Position
        BY <1>1 DEF Position
      <3> QED
        BY <1>1, <1>3, <1>5, <1>6, <1>13, <3>1
    <2>6. ReplayBatch(durable', g, sb'.seq) = ApplyWrites(txn')
      BY <1>1, <1>3, <1>5, <1>13
    <2>7. \A l : Quiet(l)'
      BY <1>1 DEF Quiet
    <2>8. Holds(cache, acked)'
      BY <1>1, <1>4, <1>7, <1>9 DEF Holds
    <2> QED
      BY <1>1, <2>3, <2>4, <2>5, <2>6, <2>7, <2>8 DEF ApplyCut
  <1>15. pc' \in {"apply", "applySync"} /\ ApplyPart'
    BY <1>1, <1>14 DEF ApplyPart
  <1>16. PartsAt'
    BY <1>15, OnePart
  <1> QED
    BY <1>1, <1>16 DEF CutInv, PartsAt, SuperblockWritten, LagBounded

LEMMA ApplyStep ==
  ASSUME Base, Base', CutInv, Apply
  PROVE  CutInv'
  <1> DEFINE ws == ApplyWrites(txn)
  <1>1. /\ pc = "apply" /\ pc' = "applySync" /\ Pwrite(ws) /\ txn \in TxnSet
        /\ UNCHANGED <<sb, scan, txn, lost, acked, cuts>>
    BY DEF Apply, Base, Committing
  <1>2. PICK f \in HeadTables : ApplyCut(f)
    BY <1>1 DEF CutInv, ApplyPart
  <1>3. ws' = ws /\ DOMAIN ws \subseteq MetaArea
    BY <1>1, ApplyWritesType
  <1>4. /\ \A b : M(b) \in DOMAIN ws => ws[M(b)] = Image(b, txn.id)
        /\ \A b \in Blocks : M(b) \in DOMAIN ws => Done(acked, txn)[b] = txn.id
        /\ \A b \in Blocks : M(b) \notin DOMAIN ws => Done(acked, txn)[b] = acked[b]
    BY <1>1, ApplyFacts
  <1> HIDE DEF ws
  <1>5. /\ durable' = durable
        /\ \A p \in pending' : p \in pending \/ (p[1] \in DOMAIN ws /\ p[2] = ws[p[1]])
        /\ \A l \in Loc : l \notin DOMAIN ws => cache'[l] = cache[l]
        /\ \A l \in Loc : l \in DOMAIN ws => cache'[l] = ws[l]
        /\ \A l : Quiet(l)' <=> Quiet(l) /\ l \notin DOMAIN ws
    BY <1>1, PwriteFacts, PwriteQuiet DEF Base, TypeOK
  <1>6. Holds(cache', Done(acked, txn))
    <2> SUFFICES ASSUME NEW b \in Blocks PROVE cache'[M(b)] = Image(b, Done(acked, txn)[b])
      BY DEF Holds
    <2>1. M(b) \in Loc /\ cache[M(b)] = Image(b, acked[b])
      BY <1>1, <1>2, HeadFacts DEF ApplyCut, Holds
    <2>2. CASE M(b) \in DOMAIN ws
      BY <1>4, <1>5, <2>1, <2>2
    <2>3. CASE M(b) \notin DOMAIN ws
      BY <1>4, <1>5, <2>1, <2>3
    <2> QED
      BY <2>2, <2>3
  <1>7. ApplyCut(f)'
    <2>1. Candidates' = Candidates
      BY <1>1 DEF Candidates
    <2>2. /\ DownCut(f, sb.seq + 1, Done(acked, txn))' /\ StartsAt(durable, sb.head, sb.seq)'
          /\ CommitsBelow(durable', sb'.seq + 1)
      BY <1>1, <1>2, <1>5, <2>1 DEF ApplyCut, DownCut
    <2>3. f[sb'.seq + 1] = Advance(Position, Needed(txn.targets))'
      BY <1>1, <1>2 DEF ApplyCut, Position
    <2>4. ReplayBatch(durable', f, sb'.seq) = ApplyWrites(txn')
      BY <1>1, <1>2, <1>5 DEF ApplyCut
    <2>5. \A l \in Loc : l \notin DOMAIN ApplyWrites(txn') => Quiet(l)'
      BY <1>1, <1>2, <1>3, <1>5 DEF ApplyCut, ws
    <2> QED
      BY <1>1, <1>6, <2>2, <2>3, <2>4, <2>5 DEF ApplyCut
  <1>8. pc' \in {"apply", "applySync"} /\ ApplyPart'
    BY <1>1, <1>7 DEF ApplyPart
  <1>9. SuperblockWritten' /\ LagBounded'
    BY <1>1, <1>3, <1>5, Disjoint DEF SuperblockWritten, LagBounded, CutInv
  <1>10. PartsAt'
    BY <1>8, OnePart
  <1> QED
    BY <1>9, <1>10 DEF CutInv, PartsAt

LEMMA ApplySyncStep ==
  ASSUME Base, Base', CutInv, ApplySync
  PROVE  CutInv'
  <1>1. /\ pc = "applySync" /\ pc' = "checkpoint" /\ txn \in TxnSet
        /\ durable' = cache /\ cache' = cache /\ pending' = {}
        /\ sb' = [sb EXCEPT !.head = Advance(Position, Needed(txn.targets)), !.seq = @ + 1]
        /\ UNCHANGED <<scan, txn, lost, acked, cuts>>
    BY DEF ApplySync, Sync, Base, Committing
  <1>2. PICK f \in HeadTables : ApplyCut(f)
    BY <1>1 DEF CutInv, ApplyPart
  <1>3. PICK q \in Nat : q = sb.seq
    BY DEF Base, TypeOK, SuperblockSet
  <1>4. PICK s \in States : s = Done(acked, txn)
    BY <1>1 DEF Base, TypeOK, Done, States, TxnSet
  <1>5. /\ Recoverable(durable, f, q + 1, s, acked, Candidates) /\ Behind(durable, q + 1, cuts + 1)
        /\ StartsAt(durable, sb.head, sb.seq) /\ CommitsBelow(durable, q + 1)
        /\ ReplayBatch(durable, f, q) = ApplyWrites(txn)
        /\ \A l \in Loc : l \notin DOMAIN ApplyWrites(txn) => cache[l] = durable[l]
        /\ Holds(cache, s)
    BY <1>1, <1>2, <1>3, <1>4 DEF ApplyCut, DownCut, Base, QuietInv
  <1>6. sb'.seq = q + 1 /\ sb'.head = f[q + 1]
    BY <1>1, <1>2, <1>3 DEF ApplyCut, Base, TypeOK, SuperblockSet
  <1>7. /\ durable \in Images /\ cache \in Images
        /\ \A l \in JournalArea \cup {Primary, Backup} : cache[l] = durable[l]
    BY <1>1, <1>5, ApplyFacts, Disjoint, HeadFacts DEF Base, TypeOK, Images
  <1>8. RecoverySuperblock(cache) = RecoverySuperblock(durable) /\ RecoverySuperblock(cache).kind = "sb"
    BY <1>5, <1>7 DEF RecoverySuperblock, StartsAt
  <1>9. Recoverable(cache, f, q + 1, s, acked, Candidates)
    <2>1. ASSUME NEW b \in Blocks
          PROVE  cache[M(b)] = durable[M(b)] \/
                   Writers(durable, f, RecoverySuperblock(durable).seq, q + 1, b) # {}
      <3>1. CASE M(b) \notin DOMAIN ApplyWrites(txn)
        BY <1>5, <3>1, HeadFacts
      <3>2. CASE M(b) \in DOMAIN ApplyWrites(txn)
        <4>1. q \in Writers(durable, f, RecoverySuperblock(durable).seq, q + 1, b)
          BY <1>3, <1>5, <3>2 DEF Writers, StartsAt
        <4> QED
          BY <4>1
      <3> QED
        BY <3>1, <3>2
    <2> QED
      BY <1>5, <1>7, <1>8, <2>1, RecoverableKept
  <1>10. SettledCut(f, sb.seq, Done(acked, txn))'
    <2>1. Candidates' = Candidates
      BY <1>1 DEF Candidates
    <2>2. Behind(cache, q + 1, cuts + 1)
      BY <1>5, <1>8 DEF Behind
    <2> QED
      BY <1>1, <1>4, <1>5, <1>6, <1>9, <2>1, <2>2 DEF SettledCut, DownCut
  <1>11. CommitsBelow(durable', sb'.seq)
    BY <1>1, <1>5, <1>6, <1>7 DEF CommitsBelow
  <1>12. AppliedPart'
    BY <1>10, <1>11 DEF AppliedPart
  <1>13. PartsAt'
    BY <1>1, <1>12, OnePart
  <1> QED
    BY <1>1, <1>13 DEF CutInv, PartsAt, SuperblockWritten, LagBounded

-----------------------------------------------------------------------------
(* Every step, as long as no process was killed                             *)

(* mkfs leaves a journal with nothing to replay. *)
LEMMA InitRecovers ==
  ASSUME Init
  PROVE  /\ durable = cache /\ pc = "down" /\ pending = {} /\ scan.applied = 0 /\ cuts = 0
         /\ acked \in States /\ cache[Primary].kind = "sb" /\ RecoverySuperblock(durable).seq = 1
         /\ \E f \in HeadTables : Recoverable(durable, f, 1, acked, acked, Candidates)
  <1>1. /\ pc = "down" /\ pending = {} /\ scan.applied = 0 /\ cuts = 0 /\ durable = cache
        /\ \A b \in Blocks : acked[b] = 0
    BY DEF Init, NoScan
  <1>2. durable \in Images /\ acked \in States
    BY InitTyped DEF TypeOK, Images, States
  <1> DEFINE f == [q \in Nat |-> 0]
  <1>3. f \in HeadTables /\ f[1] = 0
    BY HeadFacts DEF HeadTables
  <1> HIDE DEF f
  <1>4. /\ RecoverySuperblock(durable).kind = "sb" /\ RecoverySuperblock(durable).seq = 1
        /\ RecoverySuperblock(durable).head = f[1] /\ cache[Primary].kind = "sb"
    BY <1>1, <1>3, HeadFacts DEF Init, RecoverySuperblock, Superblock
  <1>5. \A l \in JournalArea : durable[l] = Zero
    BY HeadFacts, Disjoint DEF Init
  <1>6. ~Found(durable, f[1], 1)
    <2>1. f[1] \in Heads /\ 0 \in Heads
      BY <1>3, HeadFacts
    <2>2. \A h \in Heads : ~ValidTxn(durable, h, 1)
      BY <1>5, HeadFacts DEF ValidTxn, Zero
    <2> QED
      BY <2>1, <2>2 DEF Found
  <1>7. Holds(durable, acked)
    BY <1>1, HeadFacts, Disjoint DEF Init, Holds, MetaArea, M
  <1>8. Outcome(durable, 1, acked, acked, Candidates)
    BY <1>5 DEF Outcome, CommitsUpTo, Zero
  <1>9. Recoverable(durable, f, 1, acked, acked, Candidates)
    BY <1>2, <1>3, <1>4, <1>6, <1>7, <1>8, NothingToReplay
  <1> QED
    BY <1>1, <1>2, <1>3, <1>4, <1>9

LEMMA InitCut == Init => CutInv
  <1> SUFFICES ASSUME Init PROVE CutInv
    OBVIOUS
  <1>1. /\ pc = "down" /\ pending = {} /\ scan.applied = 0 /\ cuts = 0
        /\ acked \in States /\ RecoverySuperblock(durable).seq = 1
    BY InitRecovers
  <1>2. PICK f \in HeadTables : Recoverable(durable, f, 1, acked, acked, Candidates)
    BY InitRecovers
  <1>3. DownCut(f, 1, acked)
    BY <1>1, <1>2 DEF DownCut, Behind
  <1>4. DownPart
    BY <1>1, <1>3 DEF DownPart
  <1>5. RecoveringPart /\ ReplayedPart /\ WorkingPart /\ ApplyPart /\ AppliedPart
    BY <1>1 DEF RecoveringPart, ReplayedPart, WorkingPart, ApplyPart, AppliedPart, Recovering, Working
  <1> QED
    BY <1>1, <1>4, <1>5 DEF CutInv, LagBounded, SuperblockWritten

LEMMA IdleCut ==
  ASSUME UNCHANGED vars, CutInv
  PROVE  CutInv'
  <1>1. UNCHANGED <<durable, cache, pending, pc, sb, scan, txn, lost, acked, cuts>>
    BY DEF vars
  <1>2. Candidates' = Candidates
    BY <1>1 DEF Candidates
  <1>3. LagBounded' /\ SuperblockWritten'
    BY <1>1 DEF CutInv, LagBounded, SuperblockWritten
  <1>4. \A l : Quiet(l)' <=> Quiet(l)
    BY <1>1 DEF Quiet
  <1>5. \A f, e, s : DownCut(f, e, s)' <=> DownCut(f, e, s)
    BY <1>1, <1>2 DEF DownCut
  <1>6. DownPart'
    BY <1>1, <1>5 DEF CutInv, DownPart
  <1>7. RecoveringPart'
    <2>1. \A f, e, s : RecoveringCut(f, e, s)' <=> RecoveringCut(f, e, s)
      BY <1>1, <1>4, <1>5 DEF RecoveringCut, Current
    <2> QED
      BY <1>1, <2>1 DEF CutInv, RecoveringPart
  <1>8. ReplayedPart'
    BY <1>1, <1>5 DEF CutInv, ReplayedPart, SettledCut
  <1>9. WorkingPart'
    <2>1. /\ (\A f : DownCut(f, sb.seq, acked)' <=> DownCut(f, sb.seq, acked))
          /\ Position' = Position /\ (Current(cache)' <=> Current(cache))
      BY <1>1, <1>2 DEF DownCut, Position, Current
    <2>2. Logging' <=> Logging
      BY <1>1, <1>4, <2>1 DEF Logging
    <2>3. \A f : WorkingCut(f)' <=> WorkingCut(f)
      BY <1>1, <1>4, <2>1, <2>2 DEF WorkingCut
    <2> QED
      BY <1>1, <2>3 DEF CutInv, WorkingPart
  <1>10. ApplyPart'
    <2>1. /\ \A f : DownCut(f, sb.seq + 1, Done(acked, txn))' <=> DownCut(f, sb.seq + 1, Done(acked, txn))
          /\ Position' = Position
      BY <1>1, <1>2 DEF DownCut, Position
    <2>2. \A f : ApplyCut(f)' <=> ApplyCut(f)
      BY <1>1, <1>4, <2>1 DEF ApplyCut
    <2> QED
      BY <1>1, <2>2 DEF CutInv, ApplyPart
  <1>11. AppliedPart'
    <2>1. \A f : SettledCut(f, sb.seq, Done(acked, txn))' <=> SettledCut(f, sb.seq, Done(acked, txn))
      BY <1>1, <1>2 DEF SettledCut, DownCut
    <2> QED
      BY <1>1, <2>1 DEF CutInv, AppliedPart
  <1> QED
    BY <1>3, <1>6, <1>7, <1>8, <1>9, <1>10, <1>11 DEF CutInv

(* As long as no process was killed, every step keeps the invariant. *)
LEMMA StepCut ==
  ASSUME Base, kills = 0 => CutInv, ~LaggingCuts, [Next]_vars
  PROVE  kills' = 0 => CutInv'
  <1> SUFFICES ASSUME kills' = 0 PROVE CutInv'
    OBVIOUS
  <1>1. CutInv /\ ~Kill /\ Base'
    BY KillsCounted, StepBase DEF Base
  <1>2. CASE Open
    BY <1>1, <1>2, OpenStep
  <1>3. CASE Heal
    BY <1>1, <1>3, HealStep
  <1>4. CASE ReplayTxn
    BY <1>1, <1>4, ReplayTxnStep
  <1>5. CASE ReplayEnd
    BY <1>1, <1>5, ReplayEndStep
  <1>6. CASE ReplaySync
    BY <1>1, <1>6, ReplaySyncStep
  <1>7. CASE ReplayCheckpoint
    BY <1>1, <1>7, ReplayCheckpointStep
  <1>8. CASE Operation
    BY <1>1, <1>8, OperationStep
  <1>9. CASE DataSync \/ Fsync
    BY <1>1, <1>9, SyncStep
  <1>10. CASE Log
    BY <1>1, <1>10, LogStep
  <1>11. CASE LogSync
    BY <1>1, <1>11, LogSyncStep
  <1>12. CASE Apply
    BY <1>1, <1>12, ApplyStep
  <1>13. CASE ApplySync
    BY <1>1, <1>13, ApplySyncStep
  <1>14. CASE Checkpoint
    BY <1>1, <1>14, CheckpointStep
  <1>15. CASE PowerCut
    BY <1>1, <1>15, PowerCutStep
  <1>16. CASE UNCHANGED vars
    BY <1>1, <1>16, IdleCut
  <1> QED
    BY <1>1, <1>2, <1>3, <1>4, <1>5, <1>6, <1>7, <1>8, <1>9, <1>10, <1>11, <1>12, <1>13, <1>14,
       <1>15, <1>16
    DEF Next, Recover, CommitStep

(* What the volume shows between recoveries. *)
LEMMA CutAtomic ==
  ASSUME Base, CutInv
  PROVE  Atomic /\ LagBounded
  <1>1. ASSUME pc \in {"idle", "dataSync", "log", "logSync"}, NEW b \in Blocks
        PROVE  cache[M(b)] = Image(b, acked[b])
    <2>1. PICK f \in HeadTables : WorkingCut(f)
      BY <1>1 DEF CutInv, WorkingPart, Working
    <2>2. durable[M(b)] = Image(b, acked[b]) /\ Quiet(M(b))
      BY <2>1 DEF WorkingCut, Holds
    <2> QED
      BY <2>2, HeadFacts DEF Base, QuietInv
  <1> QED
    BY <1>1 DEF Atomic, CutInv

-----------------------------------------------------------------------------
(* Kills, as long as the power was not cut                                 *)

(* The page cache outlives the process: a recovery reads what the cache    *)
(* holds, and would leave s, up to sequence e.                             *)
DownKill(f, e, s) ==
  /\ Recoverable(cache, f, e, s, acked, Candidates)
  /\ cache[Primary].kind = "sb" /\ Behind(cache, e, 1)

RecoveringKill(f, e, s) ==
  /\ DownKill(f, e, s)
  /\ Current(cache)
  /\ sb.seq + scan.applied = scan.seq /\ scan.seq <= e /\ scan.head = f[scan.seq]
  /\ Settles(cache, f, scan.seq, e, s)
  /\ pc = "replaySync" => scan.seq = e

SettledKill(f, e, s) == DownKill(f, e, s) /\ Holds(cache, s) /\ sb.seq = e /\ sb.head = f[e]

WorkingKill(f) == DownKill(f, sb.seq, acked) /\ Holds(cache, acked) /\ Current(cache)

(* From the moment the record is written until the superblock counts it,   *)
(* a recovery replays it.                                                  *)
LoggedKill(f) ==
  /\ DownKill(f, sb.seq + 1, Done(acked, txn))
  /\ Current(cache)
  /\ CommitsBelow(cache, sb.seq + 1)
  /\ f[sb.seq + 1] = Advance(Position, Needed(txn.targets))
  /\ ReplayBatch(cache, f, sb.seq) = ApplyWrites(txn)
  /\ Holds(cache, IF pc = "applySync" THEN Done(acked, txn) ELSE acked)

KillPart ==
  /\ pc = "down" => \E f \in HeadTables, e \in Nat, s \in States : DownKill(f, e, s)
  /\ pc \in Recovering => \E f \in HeadTables, e \in Nat, s \in States : RecoveringKill(f, e, s)
  /\ pc = "replayCheckpoint" => \E f \in HeadTables, e \in Nat, s \in States : SettledKill(f, e, s)
  /\ pc \in {"idle", "dataSync", "log"} => \E f \in HeadTables : WorkingKill(f)
  /\ pc \in {"logSync", "apply", "applySync"} => \E f \in HeadTables : LoggedKill(f)
  /\ pc = "checkpoint" =>
       CommitsBelow(cache, sb.seq) /\ \E f \in HeadTables : SettledKill(f, sb.seq, Done(acked, txn))

KillInv == LagBounded /\ KillPart

(* The superblock changes hands: recovery starts where it did, or where it *)
(* ended, with what it would have left in place.                           *)
LEMMA SuperblockLanded ==
  ASSUME NEW img \in Images, NEW other \in Images,
         \A l \in JournalArea \cup MetaArea : other[l] = img[l],
         NEW f \in HeadTables, NEW e \in Nat, NEW s, NEW from, NEW ops,
         Recoverable(img, f, e, s, from, ops), Behind(img, e, 1), img[Primary].kind = "sb",
         NEW new, new.kind = "sb", other[Primary] \in {img[Primary], new},
         \/ new.seq = img[Primary].seq /\ new.head = img[Primary].head
         \/ new.seq = e /\ new.head = f[e] /\ Holds(img, s)
  PROVE  /\ Recoverable(other, f, e, s, from, ops)
         /\ Behind(other, e, 1) /\ other[Primary].kind = "sb"
  <1>1. other[Primary].kind = "sb" /\ RecoverySuperblock(other) = other[Primary]
        /\ RecoverySuperblock(img) = img[Primary]
    BY DEF RecoverySuperblock
  <1>2. \A l \in JournalArea : other[l] = img[l]
    OBVIOUS
  <1>3. \A b \in Blocks : other[M(b)] = img[M(b)]
    BY HeadFacts
  <1>4. CASE other[Primary].seq = img[Primary].seq /\ other[Primary].head = img[Primary].head
    <2>1. Recoverable(other, f, e, s, from, ops)
      BY <1>1, <1>2, <1>3, <1>4, RecoverableKept
    <2> QED
      BY <1>1, <1>4, <2>1 DEF Behind
  <1>5. CASE other[Primary].seq = e /\ other[Primary].head = f[e] /\ Holds(img, s)
    <2>1. ~Found(other, f[e], e)
      BY <1>2, JournalKept DEF Recoverable
    <2>2. Outcome(other, e, s, from, ops)
      BY <1>2, OutcomeKept DEF Recoverable
    <2>3. Holds(other, s)
      BY <1>3, <1>5 DEF Holds
    <2>4. Recoverable(other, f, e, s, from, ops)
      BY <1>1, <1>5, <2>1, <2>2, <2>3, NothingToReplay
    <2> QED
      BY <1>1, <1>5, <2>4 DEF Behind
  <1> QED
    BY <1>4, <1>5

(* Blocks land that the recovery writes anyway. *)
LEMMA BlocksLanded ==
  ASSUME NEW img \in Images, NEW other \in Images,
         \A l \in JournalArea \cup {Primary, Backup} : other[l] = img[l],
         NEW f \in HeadTables, NEW e \in Nat, NEW s, NEW from, NEW ops,
         Recoverable(img, f, e, s, from, ops), Behind(img, e, 1), img[Primary].kind = "sb",
         \A b \in Blocks :
           other[M(b)] = img[M(b)] \/ Writers(img, f, img[Primary].seq, e, b) # {}
  PROVE  /\ Recoverable(other, f, e, s, from, ops)
         /\ Behind(other, e, 1) /\ other[Primary].kind = "sb"
  <1>1. other[Primary].kind = "sb" /\ RecoverySuperblock(other) = img[Primary]
        /\ RecoverySuperblock(img) = img[Primary]
    BY DEF RecoverySuperblock
  <1>2. Recoverable(other, f, e, s, from, ops)
    BY <1>1, RecoverableKept
  <1> QED
    BY <1>1, <1>2 DEF Behind

(* What a kill leaves. *)
LEMMA KillFacts ==
  ASSUME TypeOK, TypeOK', Kill
  PROVE  /\ pc' = "down" /\ LagBounded' /\ acked' = acked /\ Candidates' = Candidates
         /\ cache \in Images /\ cache' \in Images
         /\ \A l \in Loc : cache'[l] = cache[l] \/ (l \in DOMAIN Batch /\ cache'[l] = Batch[l])
  <1>1. PICK done \in SUBSET DOMAIN Batch : Pwrite([l \in done |-> Batch[l]])
    BY DEF Kill
  <1>2. pc' = "down" /\ scan' = NoScan /\ acked' = acked /\ Candidates' = Candidates
    BY DEF Kill, Down, Candidates
  <1> DEFINE ws == [l \in done |-> Batch[l]]
  <1>3. DOMAIN ws \subseteq DOMAIN Batch /\ \A l \in DOMAIN ws : ws[l] = Batch[l]
    OBVIOUS
  <1> HIDE DEF ws
  <1>4. \A l \in Loc : cache'[l] = cache[l] \/ (l \in DOMAIN ws /\ cache'[l] = ws[l])
    BY <1>1, PwriteFacts DEF ws, TypeOK
  <1>5. cache \in Images /\ cache' \in Images
    BY DEF TypeOK, Images
  <1> QED
    BY <1>2, <1>3, <1>4, <1>5, NoLag

(* A kill in the middle of a superblock: when open heals it or a replay or *)
(* a commit ends.                                                          *)
LEMMA KillSuperblock ==
  ASSUME Base, Base', Kill, pc \in {"heal", "checkpoint", "replayCheckpoint"},
         NEW f \in HeadTables, NEW e \in Nat, NEW s \in States, DownKill(f, e, s),
         \/ Current(cache)
         \/ sb.seq = e /\ sb.head = f[e] /\ Holds(cache, s)
  PROVE  DownKill(f, e, s)'
  <1>1. /\ acked' = acked /\ Candidates' = Candidates /\ cache \in Images /\ cache' \in Images
        /\ \A l \in Loc : cache'[l] = cache[l] \/ (l \in DOMAIN Batch /\ cache'[l] = Batch[l])
    BY KillFacts DEF Base
  <1> DEFINE new == NextSuperblock
  <1>2. Batch = SuperblockWrites(new)
    BY DEF Batch
  <1>3. new.kind = "sb" /\ new.seq = sb.seq /\ new.head = sb.head
    BY DEF NextSuperblock, Base, TypeOK, SuperblockSet
  <1> HIDE DEF new
  <1>4. \A l \in JournalArea \cup MetaArea : cache'[l] = cache[l]
    BY <1>1, <1>2, SuperblockOutside, HeadFacts
  <1>5. cache'[Primary] \in {cache[Primary], new}
    BY <1>1, <1>2, SuperblockOutside, HeadFacts
  <1>6. \/ new.seq = cache[Primary].seq /\ new.head = cache[Primary].head
        \/ new.seq = e /\ new.head = f[e] /\ Holds(cache, s)
    BY <1>3 DEF Current
  <1>7. Recoverable(cache, f, e, s, acked, Candidates) /\ Behind(cache, e, 1) /\ cache[Primary].kind = "sb"
    BY DEF DownKill
  <1>8. /\ Recoverable(cache', f, e, s, acked, Candidates)
        /\ Behind(cache', e, 1) /\ cache'[Primary].kind = "sb"
    BY <1>1, <1>3, <1>4, <1>5, <1>6, <1>7, SuperblockLanded
  <1> QED
    BY <1>1, <1>8 DEF DownKill

(* A kill in the middle of blocks that the recovery writes. *)
LEMMA KillBlocks ==
  ASSUME Base, Base', Kill,
         NEW f \in HeadTables, NEW e \in Nat, NEW s \in States, DownKill(f, e, s), Current(cache),
         DOMAIN Batch \subseteq MetaArea,
         \A b \in Blocks : M(b) \in DOMAIN Batch => Writers(cache, f, sb.seq, e, b) # {}
  PROVE  DownKill(f, e, s)'
  <1>1. /\ acked' = acked /\ Candidates' = Candidates /\ cache \in Images /\ cache' \in Images
        /\ \A l \in Loc : cache'[l] = cache[l] \/ l \in DOMAIN Batch
    BY KillFacts DEF Base
  <1>2. \A l \in JournalArea \cup {Primary, Backup} : cache'[l] = cache[l]
    BY <1>1, Disjoint, HeadFacts
  <1>3. \A b \in Blocks : cache'[M(b)] = cache[M(b)] \/ Writers(cache, f, cache[Primary].seq, e, b) # {}
    BY <1>1, HeadFacts DEF Current
  <1>4. Recoverable(cache, f, e, s, acked, Candidates) /\ Behind(cache, e, 1) /\ cache[Primary].kind = "sb"
    BY DEF DownKill
  <1>5. /\ Recoverable(cache', f, e, s, acked, Candidates)
        /\ Behind(cache', e, 1) /\ cache'[Primary].kind = "sb"
    BY <1>1, <1>2, <1>3, <1>4, BlocksLanded
  <1> QED
    BY <1>1, <1>5 DEF DownKill

(* A kill in the middle of the record of the transaction in flight. *)
LEMMA KillLog ==
  ASSUME Base, Base', Kill, pc = "log", NEW f \in HeadTables, WorkingKill(f)
  PROVE  \E g \in HeadTables, e \in Nat, s \in States : DownKill(g, e, s)'
  <1>1. /\ acked' = acked /\ Candidates' = Candidates /\ cache \in Images /\ cache' \in Images
        /\ \A l \in Loc : cache'[l] = cache[l] \/ (l \in DOMAIN Batch /\ cache'[l] = Batch[l])
    BY KillFacts DEF Base
  <1>2. PICK q \in Nat : q = sb.seq
    BY DEF Base, TypeOK, SuperblockSet
  <1>3. PICK from \in States : from = acked
    BY DEF Base, TypeOK, States
  <1>4. PICK t \in TxnSet : t = txn
    BY DEF Base, Committing
  <1>5. PICK pos \in Heads : pos = Position
    BY PositionType DEF Base, Committing
  <1> DEFINE ws == JournalWrites(pos, q, t)
  <1>6. Batch = ws
    BY <1>2, <1>4, <1>5 DEF Batch
  <1>7. pos + Needed(t.targets) <= JournalLength
    BY <1>4, <1>5, PositionType DEF Base, Committing
  <1>8. DOMAIN ws \subseteq JournalArea
    BY <1>7, JournalWritesType
  <1>9. PartlyLogged(cache, cache', pos, q, t)
    BY <1>1, <1>6, HeadFacts DEF PartlyLogged
  <1> HIDE DEF ws
  <1>10. /\ \A b \in Blocks : cache'[M(b)] = cache[M(b)]
         /\ cache'[Primary] = cache[Primary]
    BY <1>1, <1>6, <1>8, Disjoint, HeadFacts
  <1>11. /\ Recoverable(cache, f, q, from, from, Candidates) /\ Holds(cache, from)
         /\ cache[Primary].kind = "sb" /\ cache[Primary].seq = q /\ cache[Primary].head = sb.head
    BY <1>2, <1>3 DEF WorkingKill, DownKill, Current
  <1>12. f[q] = sb.head
    BY <1>11 DEF Recoverable, RecoverySuperblock
  <1>13. /\ RecoverySuperblock(cache').kind = "sb"
         /\ RecoverySuperblock(cache').seq = q /\ RecoverySuperblock(cache').head = f[q]
    BY <1>10, <1>11, <1>12 DEF RecoverySuperblock
  <1>14. Candidates \in SUBSET TxnSet /\ t \in Candidates
    BY <1>4, CandidateFacts DEF Base
  <1>15. OlderThan(cache, t.id)
    BY <1>4 DEF Base, AgeInv
  <1>16. PICK g \in HeadTables, e \in {q, q + 1}, s \in States :
           Recoverable(cache', g, e, s, from, Candidates)
    BY <1>1, <1>7, <1>9, <1>10, <1>11, <1>13, <1>14, <1>15, LogLanded
  <1>17. Behind(cache', e, 1) /\ cache'[Primary].kind = "sb"
    BY <1>10, <1>11, <1>13 DEF Behind
  <1>18. DownKill(g, e, s)'
    BY <1>1, <1>3, <1>16, <1>17 DEF DownKill
  <1> QED
    BY <1>18

(* What replay finds in the page cache. *)
LEMMA KillReads ==
  ASSUME Base, NEW f \in HeadTables, NEW e \in Nat, NEW s \in States, RecoveringKill(f, e, s)
  PROVE  /\ cache \in Images /\ ChainFrom(cache, f, sb.seq, e) /\ ChainFrom(cache, f, scan.seq, e)
         /\ scan.seq \in Nat /\ sb.seq \in Nat /\ scan.applied \in Nat
         /\ sb.seq <= scan.seq /\ e <= sb.seq + 1
         /\ Found(cache, scan.head, scan.seq) <=> scan.seq # e
  <1>1. cache \in Images /\ scan.seq \in Nat /\ sb.seq \in Nat /\ scan.applied \in Nat
    BY DEF Base, TypeOK, Images, SuperblockSet
  <1>2. RecoverySuperblock(cache).seq = sb.seq
    BY DEF RecoveringKill, Current, RecoverySuperblock
  <1>3. ChainFrom(cache, f, sb.seq, e) /\ ~Found(cache, f[e], e) /\ e <= sb.seq + 1
    BY <1>2 DEF RecoveringKill, DownKill, Recoverable, Behind
  <1>4. sb.seq <= scan.seq /\ scan.seq <= e /\ scan.head = f[scan.seq]
    BY <1>1 DEF RecoveringKill
  <1>5. \A q \in Nat : scan.seq <= q /\ q < e => sb.seq <= q
    BY <1>1, <1>4
  <1>6. ChainFrom(cache, f, scan.seq, e)
    BY <1>3, <1>5 DEF ChainFrom
  <1>7. scan.seq # e => scan.seq < e
    BY <1>1, <1>4
  <1>8. Found(cache, scan.head, scan.seq) <=> scan.seq # e
    BY <1>1, <1>3, <1>4, <1>6, <1>7 DEF ChainFrom
  <1> QED
    BY <1>1, <1>3, <1>4, <1>6, <1>8

(* The round that replay is in writes blocks of the chain. *)
LEMMA ReplayWriters ==
  ASSUME Base, pc = "replay", Found(cache, scan.head, scan.seq),
         NEW f \in HeadTables, NEW e \in Nat, NEW s \in States, RecoveringKill(f, e, s),
         NEW q \in Nat, q = scan.seq
  PROVE  LET pos == FoundAt(cache, scan.head, scan.seq)
             ws == ReplayWrites(cache, pos) IN
         /\ pos = At(cache, f, q) /\ ws = ReplayBatch(cache, f, q)
         /\ q < e /\ DOMAIN ws \subseteq MetaArea
         /\ \A b \in Blocks : M(b) \in DOMAIN ws => Writers(cache, f, sb.seq, e, b) # {}
  <1> DEFINE pos == FoundAt(cache, scan.head, scan.seq)
             ws == ReplayWrites(cache, pos)
  <1>1. pos = At(cache, f, q) /\ ws = ReplayBatch(cache, f, q)
    BY DEF RecoveringKill, At, ReplayBatch
  <1>2. q # e /\ sb.seq <= q /\ cache \in Images
    BY KillReads
  <1>3. q < e
    BY <1>2 DEF RecoveringKill
  <1>4. DOMAIN ws \subseteq MetaArea
    BY <1>2, FoundAtType, ReplayWritesType DEF Base, Images
  <1> HIDE DEF pos, ws
  <1>5. ASSUME NEW b \in Blocks, M(b) \in DOMAIN ws PROVE Writers(cache, f, sb.seq, e, b) # {}
    <2>1. q \in Writers(cache, f, sb.seq, e, b)
      BY <1>1, <1>2, <1>3, <1>5 DEF Writers
    <2> QED
      BY <2>1
  <1> QED
    BY <1>1, <1>3, <1>4, <1>5 DEF pos, ws

(* So does the transaction that is being applied. *)
LEMMA ApplyWriters ==
  ASSUME Base, txn \in TxnSet, NEW f \in HeadTables, LoggedKill(f), NEW q \in Nat, q = sb.seq
  PROVE  /\ DOMAIN ApplyWrites(txn) \subseteq MetaArea
         /\ \A b \in Blocks : M(b) \in DOMAIN ApplyWrites(txn) => Writers(cache, f, sb.seq, q + 1, b) # {}
  <1>1. DOMAIN ApplyWrites(txn) \subseteq MetaArea
    BY ApplyWritesType
  <1>2. ASSUME NEW b \in Blocks, M(b) \in DOMAIN ApplyWrites(txn)
        PROVE  Writers(cache, f, sb.seq, q + 1, b) # {}
    <2>1. q \in Writers(cache, f, sb.seq, q + 1, b)
      BY <1>2 DEF Writers, LoggedKill
    <2> QED
      BY <2>1
  <1> QED
    BY <1>1, <1>2

(* Except while the transaction in flight is being logged, a kill does not *)
(* change what the next open recovers.                                     *)
LEMMA KillKept ==
  ASSUME Base, Base', KillInv, Kill, pc # "log"
  PROVE  \E f \in HeadTables, e \in Nat, s \in States : DownKill(f, e, s) /\ DownKill(f, e, s)'
  <1>1. /\ acked' = acked /\ Candidates' = Candidates
        /\ cache \in Images /\ cache' \in Images
        /\ \A l \in Loc : cache'[l] = cache[l] \/ (l \in DOMAIN Batch /\ cache'[l] = Batch[l])
    BY KillFacts DEF Base
  <1>2. sb.seq \in Nat /\ acked \in States /\ pc \in Phases /\ pc # "down"
    BY DEF Base, TypeOK, SuperblockSet, States, Kill
  <1>3. PICK q \in Nat : q = sb.seq
    BY <1>2
  <1>4. ASSUME Batch = <<>>, NEW f \in HeadTables, NEW e \in Nat, NEW s \in States, DownKill(f, e, s)
        PROVE  DownKill(f, e, s) /\ DownKill(f, e, s)'
    <2>1. \A l \in Loc : cache'[l] = cache[l]
      BY <1>1, <1>4
    <2>2. cache' = cache
      BY <1>1, <2>1 DEF Images
    <2> QED
      BY <1>1, <1>4, <2>2 DEF DownKill
  <1>5. CASE pc \in Recovering
    <2>1. PICK f \in HeadTables, e \in Nat, s \in States : RecoveringKill(f, e, s)
      BY <1>5 DEF KillInv, KillPart
    <2>2. DownKill(f, e, s) /\ Current(cache)
      BY <2>1 DEF RecoveringKill
    <2>3. CASE pc = "heal"
      BY <2>2, <2>3, KillSuperblock
    <2>4. CASE pc = "replay" /\ Found(cache, scan.head, scan.seq)
      <3>1. Batch = ReplayWrites(cache, FoundAt(cache, scan.head, scan.seq))
        BY <2>4 DEF Batch
      <3>2. PICK k \in Nat : k = scan.seq
        BY DEF Base, TypeOK
      <3>3. /\ DOMAIN Batch \subseteq MetaArea
            /\ \A b \in Blocks : M(b) \in DOMAIN Batch => Writers(cache, f, sb.seq, e, b) # {}
        BY <2>1, <2>4, <3>1, <3>2, ReplayWriters
      <3>4. DownKill(f, e, s)'
        BY <2>2, <3>3, KillBlocks
      <3> QED
        BY <2>2, <3>4
    <2>5. CASE pc # "heal" /\ ~(pc = "replay" /\ Found(cache, scan.head, scan.seq))
      <3>1. Batch = <<>>
        BY <1>5, <2>5 DEF Batch, Recovering
      <3> QED
        BY <1>4, <2>2, <3>1
    <2> QED
      BY <2>3, <2>4, <2>5
  <1>6. CASE pc = "replayCheckpoint"
    <2>1. PICK f \in HeadTables, e \in Nat, s \in States : SettledKill(f, e, s)
      BY <1>6 DEF KillInv, KillPart
    <2>2. DownKill(f, e, s)'
      BY <1>6, <2>1, KillSuperblock DEF SettledKill
    <2> QED
      BY <2>1, <2>2 DEF SettledKill
  <1>7. CASE pc \in {"idle", "dataSync"}
    <2>1. PICK f \in HeadTables : WorkingKill(f)
      BY <1>7 DEF KillInv, KillPart
    <2>2. Batch = <<>>
      BY <1>7 DEF Batch
    <2>3. PICK s \in States : s = acked
      BY <1>2
    <2>4. DownKill(f, q, s)
      BY <1>3, <2>1, <2>3 DEF WorkingKill
    <2>5. DownKill(f, q, s)'
      BY <1>4, <2>2, <2>4
    <2> QED
      BY <2>4, <2>5
  <1>8. CASE pc \in {"logSync", "apply", "applySync"}
    <2>1. PICK f \in HeadTables : LoggedKill(f)
      BY <1>8 DEF KillInv, KillPart
    <2>2. txn \in TxnSet
      BY <1>8 DEF Base, Committing
    <2>3. PICK s \in States : s = Done(acked, txn)
      BY <1>2, <2>2 DEF Done, States, TxnSet
    <2>4. DownKill(f, q + 1, s) /\ Current(cache)
      BY <1>3, <2>1, <2>3 DEF LoggedKill
    <2>5. CASE pc = "apply"
      <3>1. Batch = ApplyWrites(txn)
        BY <2>5 DEF Batch
      <3>2. /\ DOMAIN Batch \subseteq MetaArea
            /\ \A b \in Blocks : M(b) \in DOMAIN Batch => Writers(cache, f, sb.seq, q + 1, b) # {}
        BY <1>3, <2>1, <2>2, <3>1, ApplyWriters
      <3>3. DownKill(f, q + 1, s)'
        BY <2>4, <3>2, KillBlocks
      <3> QED
        BY <2>4, <3>3
    <2>6. CASE pc # "apply"
      <3>1. Batch = <<>>
        BY <1>8, <2>6 DEF Batch
      <3>2. DownKill(f, q + 1, s)'
        BY <1>4, <2>4, <3>1
      <3> QED
        BY <2>4, <3>2
    <2> QED
      BY <2>5, <2>6
  <1>9. CASE pc = "checkpoint"
    <2>1. PICK f \in HeadTables : SettledKill(f, sb.seq, Done(acked, txn))
      BY <1>9 DEF KillInv, KillPart
    <2>2. txn \in TxnSet
      BY <1>9 DEF Base, Committing
    <2>3. PICK s \in States : s = Done(acked, txn)
      BY <1>2, <2>2 DEF Done, States, TxnSet
    <2>4. DownKill(f, q, s) /\ DownKill(f, q, s)'
      BY <1>3, <1>9, <2>1, <2>3, KillSuperblock DEF SettledKill
    <2> QED
      BY <2>4
  <1> QED
    BY <1>2, <1>5, <1>6, <1>7, <1>8, <1>9 DEF Phases, Recovering

LEMMA KillStep ==
  ASSUME Base, Base', KillInv, Kill
  PROVE  KillInv'
  <1>1. pc' = "down" /\ LagBounded'
    BY KillFacts DEF Base
  <1>2. \E f \in HeadTables, e \in Nat, s \in States : DownKill(f, e, s)'
    <2>1. CASE pc = "log"
      <3>1. PICK f \in HeadTables : WorkingKill(f)
        BY <2>1 DEF KillInv, KillPart
      <3> QED
        BY <2>1, <3>1, KillLog
    <2>2. CASE pc # "log"
      BY <2>2, KillKept
    <2> QED
      BY <2>1, <2>2
  <1> QED
    BY <1>1, <1>2 DEF KillInv, KillPart, Recovering

LEMMA OneKillPart ==
  ASSUME \/ pc' \in Recovering /\ \E f \in HeadTables, e \in Nat, s \in States : RecoveringKill(f, e, s)'
         \/ pc' = "replayCheckpoint" /\ \E f \in HeadTables, e \in Nat, s \in States : SettledKill(f, e, s)'
         \/ pc' \in {"idle", "dataSync", "log"} /\ \E f \in HeadTables : WorkingKill(f)'
         \/ pc' \in {"logSync", "apply", "applySync"} /\ \E f \in HeadTables : LoggedKill(f)'
         \/ pc' = "checkpoint" /\ CommitsBelow(cache, sb.seq)'
            /\ \E f \in HeadTables : SettledKill(f, sb.seq, Done(acked, txn))'
  PROVE  KillPart'
  BY DEF KillPart, Recovering

LEMMA OpenKill ==
  ASSUME Base, KillInv, Open, cuts = 0
  PROVE  KillInv'
  <1>1. /\ pc = "down" /\ pc' \in {"heal", "replay"} /\ cache' = cache
        /\ UNCHANGED <<txn, lost, acked, cuts>>
    BY DEF Open
  <1>2. PICK f \in HeadTables, e \in Nat, s \in States : DownKill(f, e, s)
    BY <1>1 DEF KillInv, KillPart
  <1>3. sb' = cache[Primary] /\ scan' = [head |-> sb'.head, seq |-> sb'.seq, applied |-> 0]
    BY <1>2 DEF Open, DownKill
  <1>4. cache \in Images /\ RecoverySuperblock(cache) = cache[Primary]
    BY <1>2 DEF Base, TypeOK, Images, DownKill, RecoverySuperblock
  <1>5. /\ sb'.kind = "sb" /\ f[sb'.seq] = sb'.head /\ sb'.seq <= e /\ sb'.seq \in Nat
        /\ Settles(cache, f, sb'.seq, e, s)
    BY <1>2, <1>3, <1>4, SuperblockType DEF DownKill, Recoverable
  <1>6. DownKill(f, e, s)' /\ Current(cache)'
    <2>1. Candidates' = Candidates
      BY <1>1 DEF Candidates
    <2> QED
      BY <1>1, <1>2, <1>3, <1>5, <2>1 DEF DownKill, Behind, Current
  <1>7. RecoveringKill(f, e, s)'
    BY <1>1, <1>3, <1>5, <1>6 DEF RecoveringKill
  <1>8. KillPart'
    BY <1>1, <1>7, OneKillPart DEF Recovering
  <1> QED
    BY <1>1, <1>3, <1>8 DEF KillInv, LagBounded

(* The superblock after heal, replay or commit, written over the other. *)
LEMMA SuperblockKill ==
  ASSUME Base, Base', Pwrite(SuperblockWrites(NextSuperblock)), sb' = NextSuperblock,
         NEW f \in HeadTables, NEW e \in Nat, NEW s \in States, NEW from, NEW ops,
         Recoverable(cache, f, e, s, from, ops), Behind(cache, e, 1), cache[Primary].kind = "sb",
         \/ Current(cache)
         \/ sb.seq = e /\ sb.head = f[e] /\ Holds(cache, s)
  PROVE  /\ Recoverable(cache', f, e, s, from, ops)
         /\ cache'[Primary].kind = "sb" /\ Behind(cache', e, 1)
         /\ Current(cache)' /\ sb'.seq = sb.seq /\ sb'.head = sb.head
         /\ cache \in Images /\ cache' \in Images
         /\ \A l \in JournalArea \cup MetaArea : cache'[l] = cache[l]
  <1> DEFINE ws == SuperblockWrites(NextSuperblock)
  <1>1. /\ Primary \in DOMAIN ws /\ ws[Primary] = NextSuperblock
        /\ DOMAIN ws \cap (MetaArea \cup JournalArea) = {}
    BY SuperblockOutside
  <1>2. sb'.seq = sb.seq /\ sb'.head = sb.head /\ sb'.kind = "sb"
    BY DEF NextSuperblock, Base, TypeOK, SuperblockSet
  <1> HIDE DEF ws
  <1>3. /\ \A l \in Loc : l \notin DOMAIN ws => cache'[l] = cache[l]
        /\ \A l \in Loc : l \in DOMAIN ws => cache'[l] = ws[l]
    BY PwriteFacts DEF ws, Base, TypeOK
  <1>4. cache \in Images /\ cache' \in Images
    BY DEF Base, TypeOK, Images
  <1>5. \A l \in JournalArea \cup MetaArea : cache'[l] = cache[l]
    BY <1>1, <1>3, HeadFacts
  <1>6. cache'[Primary] = sb'
    BY <1>1, <1>3, HeadFacts
  <1>7. \/ sb'.seq = cache[Primary].seq /\ sb'.head = cache[Primary].head
        \/ sb'.seq = e /\ sb'.head = f[e] /\ Holds(cache, s)
    BY <1>2 DEF Current
  <1>8. /\ Recoverable(cache', f, e, s, from, ops)
        /\ Behind(cache', e, 1) /\ cache'[Primary].kind = "sb"
    BY <1>2, <1>4, <1>5, <1>6, <1>7, SuperblockLanded
  <1>9. Current(cache)'
    BY <1>2, <1>6 DEF Current
  <1> QED
    BY <1>2, <1>4, <1>5, <1>8, <1>9

LEMMA HealKill ==
  ASSUME Base, Base', KillInv, Heal
  PROVE  KillInv'
  <1>1. /\ pc = "heal" /\ pc' = "replay" /\ sb' = NextSuperblock
        /\ Pwrite(SuperblockWrites(NextSuperblock))
        /\ UNCHANGED <<scan, txn, lost, acked, cuts>>
    BY DEF Heal
  <1>2. PICK f \in HeadTables, e \in Nat, s \in States : RecoveringKill(f, e, s)
    BY <1>1 DEF KillInv, KillPart, Recovering
  <1>3. /\ Recoverable(cache, f, e, s, acked, Candidates) /\ Behind(cache, e, 1)
        /\ cache[Primary].kind = "sb" /\ Current(cache)
    BY <1>2 DEF RecoveringKill, DownKill
  <1>4. /\ Recoverable(cache', f, e, s, acked, Candidates)
        /\ cache'[Primary].kind = "sb" /\ Behind(cache', e, 1)
        /\ Current(cache)' /\ sb'.seq = sb.seq
        /\ cache \in Images /\ cache' \in Images
        /\ \A l \in JournalArea \cup MetaArea : cache'[l] = cache[l]
    BY <1>1, <1>3, SuperblockKill
  <1>5. Settles(cache', f, scan.seq, e, s)
    <2>1. ChainFrom(cache, f, scan.seq, e) /\ scan.seq \in Nat
      BY <1>2, KillReads
    <2>2. \A q \in Nat : scan.seq <= q /\ q < e => SameFind(cache, cache', f, q)
      BY <1>4, <2>1, JournalKept DEF ChainFrom
    <2>3. \A b \in Blocks : cache'[M(b)] = cache[M(b)]
      BY <1>4, HeadFacts
    <2>4. Settles(cache, f, scan.seq, e, s)
      BY <1>2 DEF RecoveringKill
    <2> QED
      BY <2>1, <2>2, <2>3, <2>4, SettlesKept
  <1>6. DownKill(f, e, s)'
    <2>1. Candidates' = Candidates
      BY <1>1 DEF Candidates
    <2> QED
      BY <1>1, <1>4, <2>1 DEF DownKill
  <1>7. RecoveringKill(f, e, s)'
    BY <1>1, <1>2, <1>4, <1>5, <1>6 DEF RecoveringKill
  <1>8. KillPart'
    BY <1>1, <1>7, OneKillPart DEF Recovering
  <1> QED
    BY <1>1, <1>8 DEF KillInv, LagBounded

LEMMA ReplayTxnKill ==
  ASSUME Base, Base', KillInv, ReplayTxn, cuts = 0
  PROVE  KillInv'
  <1> DEFINE pos == FoundAt(cache, scan.head, scan.seq)
             ws == ReplayWrites(cache, pos)
  <1>1. /\ pc = "replay" /\ pc' = "replay" /\ Found(cache, scan.head, scan.seq)
        /\ Pwrite(ws)
        /\ scan' = [head |-> Advance(pos, Needed(cache[J(pos)].targets)),
                    seq |-> scan.seq + 1, applied |-> scan.applied + 1]
        /\ UNCHANGED <<sb, txn, lost, acked, cuts>>
    BY DEF ReplayTxn
  <1>2. PICK f \in HeadTables, e \in Nat, s \in States : RecoveringKill(f, e, s)
    BY <1>1 DEF KillInv, KillPart, Recovering
  <1>3. PICK q \in Nat : q = scan.seq
    BY DEF Base, TypeOK
  <1>4. /\ pos = At(cache, f, q) /\ ws = ReplayBatch(cache, f, q)
        /\ q < e /\ DOMAIN ws \subseteq MetaArea
        /\ \A b \in Blocks : M(b) \in DOMAIN ws => Writers(cache, f, sb.seq, e, b) # {}
    BY <1>1, <1>2, <1>3, ReplayWriters
  <1>5. /\ cache \in Images /\ cache' \in Images /\ ChainFrom(cache, f, q, e)
        /\ sb.seq \in Nat /\ scan.applied \in Nat /\ e <= sb.seq + 1
        /\ sb.seq + scan.applied = q
    BY <1>2, <1>3, KillReads DEF RecoveringKill, Base, TypeOK, Images
  <1>6. scan'.seq = q + 1 /\ scan'.applied = scan.applied + 1 /\ scan'.head = f[q + 1]
    <2>1. f[q + 1] = NextHead(cache, f, q)
      BY <1>4, <1>5 DEF ChainFrom
    <2> QED
      BY <1>1, <1>3, <1>4, <2>1 DEF NextHead
  <1> HIDE DEF ws, pos
  <1>7. /\ \A l \in Loc : l \notin DOMAIN ws => cache'[l] = cache[l]
        /\ \A l \in Loc : l \in DOMAIN ws => cache'[l] = ws[l]
    BY <1>1, PwriteFacts DEF Base, TypeOK
  <1>8. \A l \in JournalArea \cup {Primary, Backup} : cache'[l] = cache[l]
    BY <1>4, <1>7, Disjoint, HeadFacts
  <1>9. DownKill(f, e, s) /\ Current(cache)
    BY <1>2 DEF RecoveringKill
  <1>10. DownKill(f, e, s)'
    <2>1. \A b \in Blocks : cache'[M(b)] = cache[M(b)] \/ Writers(cache, f, cache[Primary].seq, e, b) # {}
      BY <1>4, <1>7, <1>9, HeadFacts DEF Current
    <2>2. /\ Recoverable(cache', f, e, s, acked, Candidates)
          /\ Behind(cache', e, 1) /\ cache'[Primary].kind = "sb"
      BY <1>5, <1>8, <1>9, <2>1, BlocksLanded DEF DownKill
    <2>3. Candidates' = Candidates
      BY <1>1 DEF Candidates
    <2> QED
      BY <1>1, <2>2, <2>3 DEF DownKill
  <1>11. Settles(cache', f, q + 1, e, s)
    <2>1. Settles(cache, f, q, e, s)
      BY <1>2, <1>3 DEF RecoveringKill
    <2>2. \A b \in Blocks : cache'[M(b)] = IF M(b) \in DOMAIN ReplayBatch(cache, f, q)
                                          THEN ReplayBatch(cache, f, q)[M(b)] ELSE cache[M(b)]
      BY <1>4, <1>7, HeadFacts
    <2>3. \A l \in JournalArea : cache'[l] = cache[l]
      BY <1>8
    <2> QED
      BY <1>4, <1>5, <2>1, <2>2, <2>3, OneFewer
  <1>12. RecoveringKill(f, e, s)'
    <2>1. Current(cache)'
      BY <1>1, <1>8, <1>9 DEF Current
    <2>2. sb'.seq + scan'.applied = scan'.seq /\ scan'.seq <= e
      BY <1>1, <1>4, <1>5, <1>6
    <2> QED
      BY <1>1, <1>6, <1>10, <1>11, <2>1, <2>2 DEF RecoveringKill
  <1>13. LagBounded'
    <2>1. scan'.applied <= 1
      BY <1>4, <1>5, <1>6
    <2> QED
      BY <1>1, <2>1 DEF LagBounded
  <1>14. KillPart'
    BY <1>1, <1>12, OneKillPart DEF Recovering
  <1> QED
    BY <1>13, <1>14 DEF KillInv

LEMMA ReplayEndKill ==
  ASSUME Base, Base', KillInv, ReplayEnd
  PROVE  KillInv'
  <1>1. /\ pc = "replay" /\ ~Found(cache, scan.head, scan.seq)
        /\ cache' = cache /\ UNCHANGED <<sb, cuts>>
    BY DEF ReplayEnd
  <1>2. PICK f \in HeadTables, e \in Nat, s \in States : RecoveringKill(f, e, s)
    BY <1>1 DEF KillInv, KillPart, Recovering
  <1>3. scan.seq = e /\ scan.applied \in Nat /\ sb.seq \in Nat /\ cache \in Images
    BY <1>1, <1>2, KillReads
  <1>4. CASE scan.applied > 0
    <2>1. pc' = "replaySync" /\ UNCHANGED <<acked, lost, txn, scan>>
      BY <1>4 DEF ReplayEnd
    <2>2. DownKill(f, e, s)' /\ Current(cache)'
      <3>1. Candidates' = Candidates
        BY <2>1 DEF Candidates
      <3> QED
        BY <1>1, <1>2, <2>1, <3>1 DEF RecoveringKill, DownKill, Current
    <2>3. RecoveringKill(f, e, s)'
      BY <1>1, <1>2, <1>3, <2>1, <2>2 DEF RecoveringKill
    <2>4. KillPart'
      BY <2>1, <2>3, OneKillPart DEF Recovering
    <2> QED
      BY <1>1, <2>1, <2>4 DEF KillInv, LagBounded
  <1>5. CASE ~(scan.applied > 0)
    <2>1. Opened /\ scan.applied = 0 /\ pc' = "idle" /\ scan' = NoScan
      BY <1>3, <1>5 DEF ReplayEnd, Opened
    <2>2. sb.seq = e
      <3>1. sb.seq + scan.applied = scan.seq
        BY <1>2 DEF RecoveringKill
      <3> QED
        BY <1>3, <2>1, <3>1
    <2>3. Holds(cache, s)
      BY <1>2, <1>3, NothingReplayed DEF RecoveringKill
    <2>4. /\ Recoverable(cache, f, e, s, acked, Candidates) /\ Behind(cache, e, 1)
          /\ cache[Primary].kind = "sb" /\ Current(cache)
      BY <1>2 DEF RecoveringKill, DownKill
    <2>5. acked' = s /\ Recoverable(cache, f, e, s, s, Candidates')
      BY <1>3, <2>1, <2>3, <2>4, OpenedOutcome DEF Base
    <2>6. WorkingKill(f)'
      <3>1. DownKill(f, sb.seq, acked)'
        BY <1>1, <2>2, <2>4, <2>5 DEF DownKill
      <3>2. Holds(cache, acked)' /\ Current(cache)'
        BY <1>1, <2>3, <2>4, <2>5 DEF Current
      <3> QED
        BY <3>1, <3>2 DEF WorkingKill
    <2>7. KillPart'
      BY <2>1, <2>6, OneKillPart
    <2>8. LagBounded'
      BY <2>1, NoLag DEF Base
    <2> QED
      BY <2>7, <2>8 DEF KillInv
  <1> QED
    BY <1>4, <1>5

LEMMA ReplaySyncKill ==
  ASSUME Base, KillInv, ReplaySync
  PROVE  KillInv'
  <1>1. /\ pc = "replaySync" /\ pc' = "replayCheckpoint" /\ cache' = cache
        /\ sb' = [sb EXCEPT !.head = scan.head, !.seq = scan.seq]
        /\ UNCHANGED <<scan, txn, lost, acked, cuts>>
    BY DEF ReplaySync, Sync
  <1>2. PICK f \in HeadTables, e \in Nat, s \in States : RecoveringKill(f, e, s)
    BY <1>1 DEF KillInv, KillPart, Recovering
  <1>3. scan.seq = e /\ scan.head = f[e] /\ DownKill(f, e, s)
    BY <1>1, <1>2 DEF RecoveringKill
  <1>4. Holds(cache, s)
    <2>1. Settles(cache, f, e, e, s)
      BY <1>2, <1>3 DEF RecoveringKill
    <2> QED
      BY <2>1, NothingReplayed
  <1>5. sb'.seq = e /\ sb'.head = f[e]
    BY <1>1, <1>3 DEF Base, TypeOK, SuperblockSet
  <1>6. SettledKill(f, e, s)'
    <2>1. Candidates' = Candidates
      BY <1>1 DEF Candidates
    <2> QED
      BY <1>1, <1>3, <1>4, <1>5, <2>1 DEF SettledKill, DownKill
  <1>7. KillPart'
    BY <1>1, <1>6, OneKillPart
  <1> QED
    BY <1>1, <1>7 DEF KillInv, LagBounded

(* The superblock that ends a replay or a commit. *)
LEMMA BackToWorkKill ==
  ASSUME Base, Base', NEW f \in HeadTables, NEW e \in Nat, NEW s \in States,
         Recoverable(cache, f, e, s, s, Candidates'), Behind(cache, e, 1),
         cache[Primary].kind = "sb", Holds(cache, s), sb.seq = e, sb.head = f[e],
         Pwrite(SuperblockWrites(NextSuperblock)), sb' = NextSuperblock,
         acked' = s, pc' = "idle", LagBounded'
  PROVE  KillInv'
  <1>1. /\ Recoverable(cache', f, e, s, s, Candidates')
        /\ cache'[Primary].kind = "sb" /\ Behind(cache', e, 1)
        /\ Current(cache)' /\ sb'.seq = sb.seq
        /\ \A l \in JournalArea \cup MetaArea : cache'[l] = cache[l]
    BY SuperblockKill
  <1>2. Holds(cache', s)
    BY <1>1, HeadFacts DEF Holds
  <1>3. WorkingKill(f)'
    BY <1>1, <1>2 DEF WorkingKill, DownKill
  <1>4. KillPart'
    BY <1>3, OneKillPart
  <1> QED
    BY <1>4 DEF KillInv

LEMMA ReplayCheckpointKill ==
  ASSUME Base, Base', KillInv, ReplayCheckpoint
  PROVE  KillInv'
  <1>1. /\ pc = "replayCheckpoint" /\ Pwrite(SuperblockWrites(NextSuperblock)) /\ sb' = NextSuperblock
        /\ Opened /\ pc' = "idle" /\ scan' = NoScan
    BY DEF ReplayCheckpoint, Opened
  <1>2. PICK f \in HeadTables, e \in Nat, s \in States : SettledKill(f, e, s)
    BY <1>1 DEF KillInv, KillPart
  <1>3. /\ Recoverable(cache, f, e, s, acked, Candidates) /\ Behind(cache, e, 1)
        /\ cache[Primary].kind = "sb" /\ Holds(cache, s) /\ sb.seq = e /\ sb.head = f[e]
    BY <1>2 DEF SettledKill, DownKill
  <1>4. cache \in Images
    BY DEF Base, TypeOK, Images
  <1>5. acked' = s /\ Recoverable(cache, f, e, s, s, Candidates')
    BY <1>1, <1>3, <1>4, OpenedOutcome DEF Base
  <1>6. LagBounded'
    BY <1>1, NoLag DEF Base
  <1> QED
    BY <1>1, <1>3, <1>5, <1>6, BackToWorkKill

LEMMA CheckpointKill ==
  ASSUME Base, Base', KillInv, Checkpoint
  PROVE  KillInv'
  <1>1. /\ pc = "checkpoint" /\ Pwrite(SuperblockWrites(NextSuperblock)) /\ sb' = NextSuperblock
        /\ pc' = "idle" /\ cuts' = cuts /\ acked' = Done(acked, txn) /\ scan' = scan
    BY DEF Checkpoint, AfterOp, Done
  <1>2. CommitsBelow(cache, sb.seq)
    BY <1>1 DEF KillInv, KillPart
  <1>3. PICK f \in HeadTables : SettledKill(f, sb.seq, Done(acked, txn))
    BY <1>1 DEF KillInv, KillPart
  <1>4. PICK e \in Nat : e = sb.seq
    BY DEF Base, TypeOK, SuperblockSet
  <1>5. PICK s \in States : s = Done(acked, txn)
    BY <1>1 DEF Base, TypeOK, States
  <1>6. /\ Recoverable(cache, f, e, s, acked, Candidates) /\ Behind(cache, e, 1)
        /\ cache[Primary].kind = "sb" /\ Holds(cache, s) /\ sb.head = f[e]
    BY <1>3, <1>4, <1>5 DEF SettledKill, DownKill
  <1>7. Recoverable(cache, f, e, s, s, Candidates')
    <2>1. cache \in Images /\ CommitsBelow(cache, e)
      BY <1>2, <1>4 DEF Base, TypeOK, Images
    <2> QED
      BY <1>6, <2>1, NowDone
  <1>8. LagBounded'
    BY <1>1 DEF KillInv, LagBounded
  <1> QED
    BY <1>1, <1>4, <1>5, <1>6, <1>7, <1>8, BackToWorkKill

LEMMA OperationKill ==
  ASSUME Base, Base', KillInv, Operation
  PROVE  KillInv'
  <1>1. PICK kind \in OpKinds, targets \in TargetLists : Begin(kind, targets)
    BY DEF Operation
  <1>2. /\ pc = "idle" /\ pc' \in {"dataSync", "log"}
        /\ UNCHANGED <<sb, scan, lost, acked, cuts>>
    BY <1>1 DEF Begin
  <1>3. \A l \in Loc \ DataArea : cache'[l] = cache[l]
    <2>1. CASE kind = "metadata"
      BY <1>1, <2>1 DEF Begin
    <2>2. CASE kind # "metadata"
      <3> DEFINE ws == [l \in {D(nextId)} |-> FileData(nextId)]
      <3>1. Pwrite(ws) /\ DOMAIN ws = {D(nextId)} /\ D(nextId) \in DataArea
        BY <1>1, <2>2, BoundAssumption DEF Begin, DataArea, Ids, Base, TypeOK
      <3> HIDE DEF ws
      <3> QED
        BY <3>1, PwriteFacts DEF Base, TypeOK
    <2> QED
      BY <2>1, <2>2
  <1>4. PICK f \in HeadTables : WorkingKill(f)
    BY <1>2 DEF KillInv, KillPart
  <1>5. PICK e \in Nat : e = sb.seq
    BY DEF Base, TypeOK, SuperblockSet
  <1>6. /\ Recoverable(cache, f, e, acked, acked, Candidates) /\ Behind(cache, e, 1)
        /\ cache[Primary].kind = "sb" /\ Holds(cache, acked) /\ Current(cache)
    BY <1>4, <1>5 DEF WorkingKill, DownKill
  <1>7. /\ \A l \in JournalArea \cup {Primary, Backup} : cache'[l] = cache[l]
        /\ \A b \in Blocks : cache'[M(b)] = cache[M(b)]
    <2>1. \A l \in JournalArea \cup MetaArea \cup {Primary, Backup} : l \in Loc \ DataArea
      BY Disjoint, HeadFacts
    <2> QED
      BY <1>3, <2>1, HeadFacts
  <1>8. cache \in Images /\ cache' \in Images
    BY DEF Base, TypeOK, Images
  <1>9. /\ Recoverable(cache', f, e, acked, acked, Candidates)
        /\ Behind(cache', e, 1) /\ cache'[Primary].kind = "sb"
    BY <1>6, <1>7, <1>8, BlocksLanded
  <1>10. Candidates \subseteq Candidates'
    <2>1. txn = NoTxn /\ lost' = lost
      BY <1>2 DEF Base, IdInv
    <2> QED
      BY <2>1 DEF Candidates
  <1>11. Recoverable(cache', f, e, acked, acked, Candidates')
    BY <1>9, <1>10, RecoverableGrows
  <1>12. WorkingKill(f)'
    BY <1>2, <1>5, <1>6, <1>7, <1>9, <1>11 DEF WorkingKill, DownKill, Holds, Current
  <1>13. KillPart'
    BY <1>2, <1>12, OneKillPart
  <1> QED
    BY <1>2, <1>13 DEF KillInv, LagBounded

LEMMA SyncKill ==
  ASSUME Base, KillInv, DataSync \/ Fsync
  PROVE  KillInv'
  <1>1. /\ pc \in {"idle", "dataSync"} /\ pc' \in {"idle", "log"} /\ cache' = cache
        /\ sb'.seq = sb.seq /\ sb'.head = sb.head
        /\ UNCHANGED <<scan, txn, lost, acked, cuts>>
    BY DEF DataSync, Fsync, Sync, Base, TypeOK, SuperblockSet
  <1>2. PICK f \in HeadTables : WorkingKill(f)
    BY <1>1 DEF KillInv, KillPart
  <1>3. WorkingKill(f)'
    <2>1. Candidates' = Candidates
      BY <1>1 DEF Candidates
    <2> QED
      BY <1>1, <1>2, <2>1 DEF WorkingKill, DownKill, Current
  <1>4. KillPart'
    BY <1>1, <1>3, OneKillPart
  <1> QED
    BY <1>1, <1>4 DEF KillInv, LagBounded

LEMMA LogKill ==
  ASSUME Base, Base', KillInv, Log
  PROVE  KillInv'
  <1>1. /\ pc = "log" /\ pc' = "logSync" /\ Pwrite(JournalWrites(Position, sb.seq, txn))
        /\ UNCHANGED <<sb, scan, txn, lost, acked, cuts>>
    BY DEF Log
  <1>2. PICK f \in HeadTables : WorkingKill(f)
    BY <1>1 DEF KillInv, KillPart
  <1>3. PICK q \in Nat : q = sb.seq
    BY DEF Base, TypeOK, SuperblockSet
  <1>4. PICK from \in States : from = acked
    BY DEF Base, TypeOK, States
  <1>5. PICK t \in TxnSet : t = txn
    BY <1>1 DEF Base, Committing
  <1>6. PICK pos \in Heads : pos = Position
    BY <1>1, PositionType DEF Base, Committing
  <1> DEFINE ws == JournalWrites(pos, q, t)
  <1>7. /\ Recoverable(cache, f, q, from, from, Candidates) /\ Holds(cache, from)
        /\ cache[Primary].kind = "sb" /\ cache[Primary].seq = q /\ cache[Primary].head = sb.head
    BY <1>2, <1>3, <1>4 DEF WorkingKill, DownKill, Current
  <1>8. f[q] = sb.head
    BY <1>7 DEF Recoverable, RecoverySuperblock
  <1>9. /\ cache \in Images /\ cache' \in Images /\ t \in Candidates
        /\ Candidates \in SUBSET TxnSet /\ OlderThan(cache, t.id)
    BY <1>1, <1>5, CandidateFacts DEF Base, TypeOK, Images, AgeInv
  <1>10. pos + Needed(t.targets) <= JournalLength
    BY <1>1, <1>5, <1>6, PositionType DEF Base, Committing
  <1>11. pos \in {f[q], 0}
    BY <1>6, <1>8 DEF Position, LogPosition
  <1>12. DOMAIN ws \subseteq JournalArea
    BY <1>10, JournalWritesType
  <1>13. /\ \A l \in Loc : l \notin DOMAIN ws => cache'[l] = cache[l]
         /\ \A l \in Loc : l \in DOMAIN ws => cache'[l] = ws[l]
    <2>1. Pwrite(ws)
      BY <1>1, <1>3, <1>5, <1>6
    <2> HIDE DEF ws
    <2> QED
      BY <2>1, PwriteFacts DEF Base, TypeOK
  <1>14. PartlyLogged(cache, cache', pos, q, t) /\ \A l \in DOMAIN ws : cache'[l] = ws[l]
    BY <1>12, <1>13, HeadFacts DEF PartlyLogged
  <1> HIDE DEF ws
  <1>15. (\A b \in Blocks : cache'[M(b)] = cache[M(b)]) /\ cache'[Primary] = cache[Primary]
    BY <1>12, <1>13, Disjoint, HeadFacts
  <1>16. /\ RecoverySuperblock(cache').kind = "sb" /\ RecoverySuperblock(cache').seq = q
         /\ RecoverySuperblock(cache').head = f[q]
    BY <1>7, <1>8, <1>15 DEF RecoverySuperblock
  <1>17. PICK g \in HeadTables :
           /\ Recoverable(cache', g, q + 1, Done(from, t), from, Candidates)
           /\ CommitsBelow(cache', q + 1)
           /\ g[q + 1] = Advance(pos, Needed(t.targets))
           /\ ReplayBatch(cache', g, q) = ApplyWrites(t)
    BY <1>7, <1>9, <1>10, <1>11, <1>14, <1>15, <1>16, LoggedWhole DEF ws
  <1>18. LoggedKill(g)'
    <2>1. Candidates' = Candidates /\ Position' = Position
      BY <1>1 DEF Candidates, Position
    <2>2. Behind(cache', q + 1, 1)
      BY <1>16 DEF Behind
    <2>3. DownKill(g, sb.seq + 1, Done(acked, txn))'
      BY <1>1, <1>3, <1>4, <1>5, <1>7, <1>15, <1>17, <2>1, <2>2 DEF DownKill
    <2>4. Current(cache)'
      BY <1>1, <1>3, <1>7, <1>15 DEF Current
    <2>5. CommitsBelow(cache', sb'.seq + 1) /\ ReplayBatch(cache', g, sb'.seq) = ApplyWrites(txn')
      BY <1>1, <1>3, <1>5, <1>17
    <2>6. g[sb'.seq + 1] = Advance(Position, Needed(txn.targets))'
      BY <1>1, <1>3, <1>5, <1>6, <1>17, <2>1
    <2>7. Holds(cache', acked')
      BY <1>1, <1>4, <1>7, <1>15 DEF Holds
    <2> QED
      BY <1>1, <2>3, <2>4, <2>5, <2>6, <2>7 DEF LoggedKill
  <1>19. KillPart'
    BY <1>1, <1>18, OneKillPart
  <1> QED
    BY <1>1, <1>19 DEF KillInv, LagBounded

LEMMA LogSyncKill ==
  ASSUME Base, KillInv, LogSync
  PROVE  KillInv'
  <1>1. /\ pc = "logSync" /\ pc' = "apply" /\ cache' = cache
        /\ UNCHANGED <<sb, scan, txn, lost, acked, cuts>>
    BY DEF LogSync, Sync
  <1>2. PICK f \in HeadTables : LoggedKill(f)
    BY <1>1 DEF KillInv, KillPart
  <1>3. LoggedKill(f)'
    <2>1. Candidates' = Candidates /\ Position' = Position
      BY <1>1 DEF Candidates, Position
    <2> QED
      BY <1>1, <1>2, <2>1 DEF LoggedKill, DownKill, Current
  <1>4. KillPart'
    BY <1>1, <1>3, OneKillPart
  <1> QED
    BY <1>1, <1>4 DEF KillInv, LagBounded

LEMMA ApplyKill ==
  ASSUME Base, Base', KillInv, Apply
  PROVE  KillInv'
  <1> DEFINE ws == ApplyWrites(txn)
  <1>1. /\ pc = "apply" /\ pc' = "applySync" /\ Pwrite(ws) /\ txn \in TxnSet
        /\ UNCHANGED <<sb, scan, txn, lost, acked, cuts>>
    BY DEF Apply, Base, Committing
  <1>2. PICK f \in HeadTables : LoggedKill(f)
    BY <1>1 DEF KillInv, KillPart
  <1>3. PICK q \in Nat : q = sb.seq
    BY DEF Base, TypeOK, SuperblockSet
  <1>4. /\ DOMAIN ws \subseteq MetaArea
        /\ \A b \in Blocks : M(b) \in DOMAIN ws => Writers(cache, f, sb.seq, q + 1, b) # {}
    BY <1>1, <1>2, <1>3, ApplyWriters
  <1>5. /\ \A b : M(b) \in DOMAIN ws => ws[M(b)] = Image(b, txn.id)
        /\ \A b \in Blocks : M(b) \in DOMAIN ws => Done(acked, txn)[b] = txn.id
        /\ \A b \in Blocks : M(b) \notin DOMAIN ws => Done(acked, txn)[b] = acked[b]
    BY <1>1, ApplyFacts
  <1> HIDE DEF ws
  <1>6. /\ \A l \in Loc : l \notin DOMAIN ws => cache'[l] = cache[l]
        /\ \A l \in Loc : l \in DOMAIN ws => cache'[l] = ws[l]
        /\ cache \in Images /\ cache' \in Images
    BY <1>1, PwriteFacts DEF Base, TypeOK, Images
  <1>7. \A l \in JournalArea \cup {Primary, Backup} : cache'[l] = cache[l]
    BY <1>4, <1>6, Disjoint, HeadFacts
  <1>8. Holds(cache', Done(acked, txn))
    <2> SUFFICES ASSUME NEW b \in Blocks PROVE cache'[M(b)] = Image(b, Done(acked, txn)[b])
      BY DEF Holds
    <2>1. M(b) \in Loc /\ cache[M(b)] = Image(b, acked[b])
      BY <1>1, <1>2, HeadFacts DEF LoggedKill, Holds
    <2>2. CASE M(b) \in DOMAIN ws
      BY <1>5, <1>6, <2>1, <2>2
    <2>3. CASE M(b) \notin DOMAIN ws
      BY <1>5, <1>6, <2>1, <2>3
    <2> QED
      BY <2>2, <2>3
  <1>9. /\ Recoverable(cache, f, q + 1, Done(acked, txn), acked, Candidates)
        /\ Behind(cache, q + 1, 1) /\ cache[Primary].kind = "sb" /\ Current(cache)
        /\ CommitsBelow(cache, q + 1) /\ ReplayBatch(cache, f, q) = ApplyWrites(txn)
        /\ f[q + 1] = Advance(Position, Needed(txn.targets))
    BY <1>2, <1>3 DEF LoggedKill, DownKill
  <1>10. /\ Recoverable(cache', f, q + 1, Done(acked, txn), acked, Candidates)
         /\ Behind(cache', q + 1, 1) /\ cache'[Primary].kind = "sb"
    <2>1. \A b \in Blocks : cache'[M(b)] = cache[M(b)] \/ Writers(cache, f, cache[Primary].seq, q + 1, b) # {}
      BY <1>4, <1>6, <1>9, HeadFacts DEF Current
    <2>2. PICK e \in Nat : e = q + 1
      OBVIOUS
    <2>3. \A l \in JournalArea \cup {Primary, Backup} : cache'[l] = cache[l]
      BY <1>7
    <2>4. cache \in Images /\ cache' \in Images
      BY <1>6
    <2>5. /\ Recoverable(cache, f, e, Done(acked, txn), acked, Candidates)
          /\ Behind(cache, e, 1) /\ cache[Primary].kind = "sb"
          /\ \A b \in Blocks : cache'[M(b)] = cache[M(b)] \/ Writers(cache, f, cache[Primary].seq, e, b) # {}
      BY <1>9, <2>1, <2>2
    <2>6. /\ Recoverable(cache', f, e, Done(acked, txn), acked, Candidates)
          /\ Behind(cache', e, 1) /\ cache'[Primary].kind = "sb"
      BY <2>3, <2>4, <2>5, BlocksLanded
    <2> QED
      BY <2>2, <2>6
  <1>11. ReplayBatch(cache', f, q) = ApplyWrites(txn)
    <2>1. Found(cache, f[q], q)
      BY <1>3, <1>9 DEF Current, Recoverable, RecoverySuperblock, ChainFrom
    <2> QED
      BY <1>6, <1>7, <1>9, <2>1, JournalKept DEF SameFind
  <1>12. LoggedKill(f)'
    <2>1. Candidates' = Candidates /\ Position' = Position
      BY <1>1 DEF Candidates, Position
    <2>2. DownKill(f, sb.seq + 1, Done(acked, txn))'
      BY <1>1, <1>3, <1>10, <2>1 DEF DownKill
    <2>3. Current(cache)' /\ CommitsBelow(cache', q + 1)
      BY <1>1, <1>7, <1>9 DEF Current, CommitsBelow
    <2> QED
      BY <1>1, <1>3, <1>8, <1>9, <1>11, <2>1, <2>2, <2>3 DEF LoggedKill
  <1>13. KillPart'
    BY <1>1, <1>12, OneKillPart
  <1> QED
    BY <1>1, <1>13 DEF KillInv, LagBounded

LEMMA ApplySyncKill ==
  ASSUME Base, KillInv, ApplySync
  PROVE  KillInv'
  <1>1. /\ pc = "applySync" /\ pc' = "checkpoint" /\ cache' = cache
        /\ sb' = [sb EXCEPT !.head = Advance(Position, Needed(txn.targets)), !.seq = @ + 1]
        /\ UNCHANGED <<scan, txn, lost, acked, cuts>>
    BY DEF ApplySync, Sync
  <1>2. PICK f \in HeadTables : LoggedKill(f)
    BY <1>1 DEF KillInv, KillPart
  <1>3. PICK q \in Nat : q = sb.seq
    BY DEF Base, TypeOK, SuperblockSet
  <1>4. sb'.seq = q + 1 /\ sb'.head = f[q + 1]
    BY <1>1, <1>2, <1>3 DEF LoggedKill, Base, TypeOK, SuperblockSet
  <1>5. DownKill(f, q + 1, Done(acked, txn)) /\ Holds(cache, Done(acked, txn)) /\ CommitsBelow(cache, q + 1)
    BY <1>1, <1>2, <1>3 DEF LoggedKill
  <1>6. SettledKill(f, sb.seq, Done(acked, txn))'
    <2>1. Candidates' = Candidates
      BY <1>1 DEF Candidates
    <2> QED
      BY <1>1, <1>4, <1>5, <2>1 DEF SettledKill, DownKill
  <1>7. CommitsBelow(cache, sb.seq)'
    BY <1>1, <1>4, <1>5
  <1>8. KillPart'
    BY <1>1, <1>6, <1>7, OneKillPart
  <1> QED
    BY <1>1, <1>8 DEF KillInv, LagBounded

LEMMA InitKill == Init => KillInv
  <1> SUFFICES ASSUME Init PROVE KillInv
    OBVIOUS
  <1>1. /\ durable = cache /\ pc = "down" /\ scan.applied = 0 /\ cuts = 0
        /\ acked \in States /\ cache[Primary].kind = "sb" /\ RecoverySuperblock(durable).seq = 1
    BY InitRecovers
  <1>2. PICK f \in HeadTables : Recoverable(durable, f, 1, acked, acked, Candidates)
    BY InitRecovers
  <1>3. DownKill(f, 1, acked)
    BY <1>1, <1>2 DEF DownKill, Behind
  <1>4. KillPart
    BY <1>1, <1>3 DEF KillPart, Recovering
  <1> QED
    BY <1>1, <1>4 DEF KillInv, LagBounded

LEMMA IdleKill ==
  ASSUME UNCHANGED vars, KillInv
  PROVE  KillInv'
  <1>1. UNCHANGED <<cache, pc, sb, scan, txn, lost, acked, cuts>>
    BY DEF vars
  <1>2. Candidates' = Candidates /\ Position' = Position
    BY <1>1 DEF Candidates, Position
  <1>3. \A f, e, s : DownKill(f, e, s)' <=> DownKill(f, e, s)
    BY <1>1, <1>2 DEF DownKill
  <1>4. \A f, e, s : RecoveringKill(f, e, s)' <=> RecoveringKill(f, e, s)
    BY <1>1, <1>3 DEF RecoveringKill, Current
  <1>5. \A f, e, s : SettledKill(f, e, s)' <=> SettledKill(f, e, s)
    BY <1>1, <1>3 DEF SettledKill
  <1>6. \A f : WorkingKill(f)' <=> WorkingKill(f)
    BY <1>1, <1>2 DEF WorkingKill, DownKill, Current
  <1>7. \A f : LoggedKill(f)' <=> LoggedKill(f)
    BY <1>1, <1>2 DEF LoggedKill, DownKill, Current
  <1>8. \A f : SettledKill(f, sb.seq, Done(acked, txn))' <=> SettledKill(f, sb.seq, Done(acked, txn))
    BY <1>1, <1>2 DEF SettledKill, DownKill
  <1>9. KillPart'
    BY <1>1, <1>3, <1>4, <1>5, <1>6, <1>7, <1>8 DEF KillInv, KillPart
  <1> QED
    BY <1>1, <1>9 DEF KillInv, LagBounded

(* Only a power cut counts as one. *)
LEMMA CutsCounted ==
  ASSUME TypeOK, [Next]_vars, cuts' = 0
  PROVE  cuts = 0 /\ ~PowerCut
  <1>1. cuts' = cuts \/ PowerCut
    BY DEF Next, vars, Recover, Open, Heal, ReplayTxn, ReplayEnd, ReplaySync,
      ReplayCheckpoint, CommitStep, DataSync, Log, LogSync, Apply, ApplySync, Checkpoint,
      Operation, Begin, Fsync, PowerCut, Kill
  <1>2. ~PowerCut
    <2>1. PICK n \in Nat : n = cuts
      BY BoundAssumption DEF TypeOK
    <2>2. n + 1 # 0
      OBVIOUS
    <2> QED
      BY <2>1, <2>2 DEF PowerCut
  <1> QED
    BY <1>1, <1>2

(* As long as the power was not cut, every step keeps the invariant. *)
LEMMA StepKill ==
  ASSUME Base, cuts = 0 => KillInv, [Next]_vars
  PROVE  cuts' = 0 => KillInv'
  <1> SUFFICES ASSUME cuts' = 0 PROVE KillInv'
    OBVIOUS
  <1>1. KillInv /\ cuts = 0 /\ ~PowerCut /\ Base'
    BY CutsCounted, StepBase DEF Base
  <1>2. CASE Open
    BY <1>1, <1>2, OpenKill
  <1>3. CASE Heal
    BY <1>1, <1>3, HealKill
  <1>4. CASE ReplayTxn
    BY <1>1, <1>4, ReplayTxnKill
  <1>5. CASE ReplayEnd
    BY <1>1, <1>5, ReplayEndKill
  <1>6. CASE ReplaySync
    BY <1>1, <1>6, ReplaySyncKill
  <1>7. CASE ReplayCheckpoint
    BY <1>1, <1>7, ReplayCheckpointKill
  <1>8. CASE Operation
    BY <1>1, <1>8, OperationKill
  <1>9. CASE DataSync \/ Fsync
    BY <1>1, <1>9, SyncKill
  <1>10. CASE Log
    BY <1>1, <1>10, LogKill
  <1>11. CASE LogSync
    BY <1>1, <1>11, LogSyncKill
  <1>12. CASE Apply
    BY <1>1, <1>12, ApplyKill
  <1>13. CASE ApplySync
    BY <1>1, <1>13, ApplySyncKill
  <1>14. CASE Checkpoint
    BY <1>1, <1>14, CheckpointKill
  <1>15. CASE Kill
    BY <1>1, <1>15, KillStep
  <1>16. CASE UNCHANGED vars
    BY <1>1, <1>16, IdleKill
  <1> QED
    BY <1>1, <1>2, <1>3, <1>4, <1>5, <1>6, <1>7, <1>8, <1>9, <1>10, <1>11, <1>12, <1>13, <1>14,
       <1>15, <1>16
    DEF Next, Recover, CommitStep

LEMMA KillAtomic ==
  ASSUME TypeOK, KillInv
  PROVE  Atomic /\ LagBounded
  <1>1. ASSUME pc \in {"idle", "dataSync", "log", "logSync"}, NEW b \in Blocks
        PROVE  cache[M(b)] = Image(b, acked[b])
    <2>1. CASE pc = "logSync"
      BY <1>1, <2>1 DEF KillInv, KillPart, LoggedKill, Holds
    <2>2. CASE pc # "logSync"
      BY <1>1, <2>2 DEF KillInv, KillPart, WorkingKill, Holds
    <2> QED
      BY <2>1, <2>2
  <1> QED
    BY <1>1 DEF Atomic, KillInv

-----------------------------------------------------------------------------
(* The theorems                                                            *)

(* Cuts and kills do not mix: one of the two invariants applies.           *)
FaultInv ==
  /\ Base
  /\ kills = 0 => CutInv
  /\ cuts = 0 => KillInv
  /\ kills = 0 \/ cuts = 0

LEMMA InitFault == Init => FaultInv
  BY InitBase, InitCut, InitKill DEF FaultInv, Init

LEMMA StepFault ==
  ASSUME FaultInv, ~MixedFaults, ~LaggingCuts, [Next]_vars
  PROVE  FaultInv'
  <1>1. Base /\ (kills = 0 => CutInv) /\ (cuts = 0 => KillInv) /\ (kills = 0 \/ cuts = 0)
    BY DEF FaultInv
  <1>2. Base'
    BY <1>1, StepBase
  <1>3. kills' = 0 => CutInv'
    BY <1>1, StepCut
  <1>4. cuts' = 0 => KillInv'
    BY <1>1, StepKill
  <1>5. kills' = 0 \/ cuts' = 0
    <2>1. CASE PowerCut
      BY <2>1 DEF PowerCut
    <2>2. CASE Kill
      BY <2>2 DEF Kill
    <2>3. CASE ~PowerCut /\ ~Kill
      <3>1. kills' = kills /\ cuts' = cuts
        BY <2>3 DEF Next, vars, Recover, Open, Heal, ReplayTxn, ReplayEnd, ReplaySync,
          ReplayCheckpoint, CommitStep, DataSync, Log, LogSync, Apply, ApplySync, Checkpoint,
          Operation, Begin, Fsync
      <3> QED
        BY <1>1, <3>1
    <2> QED
      BY <2>1, <2>2, <2>3
  <1> QED
    BY <1>2, <1>3, <1>4, <1>5 DEF FaultInv

LEMMA FaultAtomic ==
  ASSUME FaultInv
  PROVE  Atomic /\ LagBounded
  <1>1. TypeOK
    BY DEF FaultInv, Base
  <1>2. CASE kills = 0
    BY <1>2, CutAtomic DEF FaultInv
  <1>3. CASE cuts = 0
    BY <1>1, <1>3, KillAtomic DEF FaultInv
  <1> QED
    BY <1>2, <1>3 DEF FaultInv

(* Once open returns, and until the next operation touches the volume,     *)
(* every metadata block holds what the last operation known to the callers *)
(* left there, for any number of operations, of power cuts that tear one   *)
(* write each or of kills, and of faults during the recovery from others   *)
(* (commit with replay).                                                   *)
THEOREM AtomicHolds ==
  ASSUME ~MixedFaults, ~LaggingCuts
  PROVE  Spec => []Atomic
  <1>1. FaultInv /\ [Next]_vars => FaultInv'
    BY StepFault
  <1>2. FaultInv => Atomic
    BY FaultAtomic
  <1> QED
    BY InitFault, <1>1, <1>2, PTL DEF Spec

(* However long the volume ran, a recovery re-applies at most the          *)
(* transaction in flight and one completed transaction for each power cut  *)
(* so far (replay).                                                        *)
THEOREM LagHolds ==
  ASSUME ~MixedFaults, ~LaggingCuts
  PROVE  Spec => []LagBounded
  <1>1. FaultInv /\ [Next]_vars => FaultInv'
    BY StepFault
  <1>2. FaultInv => LagBounded
    BY FaultAtomic
  <1> QED
    BY InitFault, <1>1, <1>2, PTL DEF Spec

-----------------------------------------------------------------------------
(* fsck after an operation or a recovery                                   *)

(* From the end of open on, the copies of the superblock are whole and of  *)
(* one generation.                                                         *)
CopiesAgree ==
  pc \notin {"down", "heal"} =>
    /\ cache[Primary].kind = "sb" /\ cache[Backup].kind = "sb"
    /\ cache[Backup].gen = cache[Primary].gen

LEMMA BothWritten ==
  ASSUME TypeOK, Pwrite(SuperblockWrites(NextSuperblock))
  PROVE  CopiesAgree'
  <1>1. /\ DOMAIN SuperblockWrites(NextSuperblock) = {Primary, Backup}
        /\ \A l \in {Primary, Backup} : SuperblockWrites(NextSuperblock)[l] = NextSuperblock
    BY DEF SuperblockWrites
  <1>2. NextSuperblock.kind = "sb"
    BY NextSuperblockType DEF SuperblockSet
  <1>3. cache'[Primary] = NextSuperblock /\ cache'[Backup] = NextSuperblock
    BY <1>1, HeadFacts, PwriteFacts DEF TypeOK
  <1> QED
    BY <1>2, <1>3 DEF CopiesAgree

LEMMA NoneWritten ==
  ASSUME TypeOK, CopiesAgree, pc \notin {"down", "heal"},
         NEW ws, Pwrite(ws), DOMAIN ws \cap {Primary, Backup} = {}
  PROVE  CopiesAgree'
  <1>1. cache'[Primary] = cache[Primary] /\ cache'[Backup] = cache[Backup]
    BY HeadFacts, PwriteFacts DEF TypeOK
  <1> QED
    BY <1>1 DEF CopiesAgree

LEMMA StepCopies ==
  ASSUME TypeOK, Committing, CopiesAgree, [Next]_vars
  PROVE  CopiesAgree'
  <1>1. CASE pc' \in {"down", "heal"}
    BY <1>1 DEF CopiesAgree
  <1>2. CASE Open
    BY <1>2 DEF Open, BackupOk, CopiesAgree
  <1>3. CASE Heal \/ ReplayCheckpoint \/ Checkpoint
    BY <1>3, BothWritten DEF Heal, ReplayCheckpoint, Checkpoint
  <1>4. CASE ReplayTxn
    <2>1. /\ Pwrite(ReplayWrites(cache, FoundAt(cache, scan.head, scan.seq)))
          /\ pc = "replay" /\ Found(cache, scan.head, scan.seq)
      BY <1>4 DEF ReplayTxn
    <2>2. DOMAIN ReplayWrites(cache, FoundAt(cache, scan.head, scan.seq)) \subseteq MetaArea
      BY <2>1, FoundAtType, ReplayWritesType DEF TypeOK
    <2> QED
      BY <2>1, <2>2, NoneWritten, Disjoint
  <1>5. CASE ReplayEnd \/ ReplaySync \/ DataSync \/ LogSync \/ ApplySync \/ Fsync
    <2>1. cache' = cache /\ pc \notin {"down", "heal"}
      BY <1>5 DEF ReplayEnd, ReplaySync, DataSync, LogSync, ApplySync, Fsync, Sync
    <2> QED
      BY <2>1 DEF CopiesAgree
  <1>6. CASE Operation
    <2>1. PICK kind \in OpKinds, targets \in TargetLists : Begin(kind, targets)
      BY <1>6 DEF Operation
    <2>2. CASE kind = "metadata"
      BY <2>1, <2>2 DEF Begin, CopiesAgree
    <2>3. CASE kind # "metadata"
      <3>1. Pwrite([l \in {D(nextId)} |-> FileData(nextId)]) /\ pc = "idle"
        BY <2>1, <2>3 DEF Begin
      <3>2. D(nextId) \notin {Primary, Backup}
        BY DEF D, Primary, Backup
      <3>3. DOMAIN [l \in {D(nextId)} |-> FileData(nextId)] = {D(nextId)}
        OBVIOUS
      <3> QED
        BY <3>1, <3>2, <3>3, NoneWritten
    <2> QED
      BY <2>2, <2>3
  <1>7. CASE Log
    <2>1. Pwrite(JournalWrites(Position, sb.seq, txn)) /\ pc = "log"
      BY <1>7 DEF Log
    <2>2. /\ txn \in TxnSet /\ sb.seq \in Nat
          /\ Position \in Heads /\ Position + Needed(txn.targets) <= JournalLength
      BY <2>1, PositionType DEF Committing, TypeOK, SuperblockSet
    <2>3. DOMAIN JournalWrites(Position, sb.seq, txn) \subseteq JournalArea
      BY <2>2, JournalWritesType
    <2> QED
      BY <2>1, <2>3, NoneWritten, Disjoint
  <1>8. CASE Apply
    <2>1. Pwrite(ApplyWrites(txn)) /\ pc = "apply" /\ txn \in TxnSet
      BY <1>8 DEF Apply, Committing
    <2>2. DOMAIN ApplyWrites(txn) \subseteq MetaArea
      BY <2>1, ApplyWritesType
    <2> QED
      BY <2>1, <2>2, NoneWritten, Disjoint
  <1>9. CASE PowerCut \/ Kill
    BY <1>1, <1>9 DEF PowerCut, Kill, Down
  <1>10. CASE UNCHANGED vars
    BY <1>10 DEF CopiesAgree, vars
  <1> QED
    BY <1>1, <1>2, <1>3, <1>4, <1>5, <1>6, <1>7, <1>8, <1>9, <1>10 DEF Next, Recover, CommitStep

(* Once open or commit returned, the journal holds nothing that follows    *)
(* the superblock.                                                         *)
LEMMA NothingPending ==
  ASSUME FaultInv, pc = "idle"
  PROVE  Current(cache) /\ ~Found(cache, sb.head, sb.seq)
  <1>1. cache \in Images /\ durable \in Images /\ sb.seq \in Nat /\ QuietInv
    BY DEF FaultInv, Base, TypeOK, Images, SuperblockSet
  <1>2. CASE kills = 0
    <2>1. PICK f \in HeadTables : WorkingCut(f)
      BY <1>2 DEF FaultInv, CutInv, WorkingPart, Working
    <2>2. Current(cache) /\ f[sb.seq] = sb.head /\ ~Found(durable, f[sb.seq], sb.seq)
          /\ \A l \in JournalArea : Quiet(l)
      BY <2>1 DEF WorkingCut, DownCut, Recoverable
    <2>3. \A l \in JournalArea : cache[l] = durable[l]
      BY <1>1, <2>2, HeadFacts DEF QuietInv
    <2> QED
      BY <1>1, <2>2, <2>3, JournalKept
  <1>3. CASE cuts = 0
    <2>1. PICK f \in HeadTables : WorkingKill(f)
      BY <1>3 DEF FaultInv, KillInv, KillPart
    <2>2. Recoverable(cache, f, sb.seq, acked, acked, Candidates) /\ Current(cache)
      BY <2>1 DEF WorkingKill, DownKill
    <2>3. RecoverySuperblock(cache) = cache[Primary]
      BY <2>2 DEF Current, RecoverySuperblock
    <2> QED
      BY <2>2, <2>3 DEF Recoverable, Current
  <1> QED
    BY <1>2, <1>3 DEF FaultInv

(* Whenever an operation or a recovery has returned, fsck finds nothing to *)
(* report of superblocks and journal: both copies are whole and of one     *)
(* generation, and no transaction that an earlier lap, a torn commit or a  *)
(* fault left in the journal can be taken for one still to be replayed     *)
(* (check of fsck.rs).                                                     *)
THEOREM FsckHolds ==
  ASSUME ~MixedFaults, ~LaggingCuts
  PROVE  Spec => []FsckClean
  <1> DEFINE Inv == FaultInv /\ CopiesAgree
  <1>1. Init => Inv
    BY InitFault DEF Init, CopiesAgree
  <1>2. Inv /\ [Next]_vars => Inv'
    BY StepFault, StepCopies DEF FaultInv, Base
  <1>3. Inv => FsckClean
    <2> SUFFICES ASSUME Inv, pc = "idle" PROVE CheckVolume(cache) = {}
      BY DEF FsckClean
    <2>1. /\ cache[Primary].kind = "sb" /\ cache[Backup].kind = "sb"
          /\ cache[Backup].gen = cache[Primary].gen /\ RecoverySuperblock(cache) = cache[Primary]
      BY DEF CopiesAgree, RecoverySuperblock
    <2>2. ~JournalPending(cache, cache[Primary])
      BY NothingPending DEF JournalPending, Current
    <2> DEFINE bad == [primary |-> cache[Primary].kind # "sb",
                       backup |-> cache[Backup].kind # "sb" \/ cache[Backup].gen # cache[Primary].gen,
                       journal |-> JournalPending(cache, cache[Primary])]
    <2>3. CheckVolume(cache) = {part \in DOMAIN bad : bad[part]}
      BY <2>1 DEF CheckVolume
    <2>4. DOMAIN bad = {"primary", "backup", "journal"} /\ ~bad.primary /\ ~bad.backup /\ ~bad.journal
      BY <2>1, <2>2
    <2> HIDE DEF bad
    <2> QED
      BY <2>3, <2>4
  <1> QED
    BY <1>1, <1>2, <1>3, PTL DEF Spec

-----------------------------------------------------------------------------
(***************************************************************************)
(* The journal implements MetadataStore: what a recovery of the medium     *)
(* would leave (Recovered) changes by whole operations only.               *)
(*                                                                         *)
(* Why: Recovered follows the chain that Recoverable speaks of             *)
(* (RecoveredIs), so the invariants above say what it is in every phase.   *)
(* After kills they speak of the page cache, not of the medium; but the    *)
(* medium is behind it by one record at the most, of an operation that the *)
(* callers do not know of (MediumBehind).  And a recovery finds a          *)
(* superblock at all as long as one write only is torn (TornInv).          *)
(***************************************************************************)
-----------------------------------------------------------------------------
(* Replay, round by round, follows the chain                               *)

(* Numbers are well ordered. *)
LEMMA LeastNumber ==
  ASSUME NEW T \in SUBSET Nat, NEW n \in T
  PROVE  \E x \in T : \A y \in T : x <= y
  <1>1. PICK x \in T : \A y \in T : ~(<<y, x>> \in OpToRel(<, Nat))
    BY NatLessThanWellFounded, WFMin
  <1>2. \A y \in T : ~(y < x)
    BY <1>1 DEF OpToRel
  <1> QED
    BY <1>2

(* A set that holds 0 and, with every number, the next holds them all. *)
LEMMA Induction ==
  ASSUME NEW T \in SUBSET Nat, 0 \in T, \A n \in T : n + 1 \in T
  PROVE  T = Nat
  <1> SUFFICES ASSUME NEW m \in Nat \ T PROVE FALSE
    OBVIOUS
  <1>1. PICK x \in Nat \ T : \A y \in Nat \ T : x <= y
    BY LeastNumber
  <1>2. x # 0
    OBVIOUS
  <1>3. x - 1 \in Nat /\ x - 1 \in T
    BY <1>1, <1>2
  <1>4. (x - 1) + 1 \in T
    BY <1>3
  <1> QED
    BY <1>1, <1>4

(* One round of replay's loop, and the positions of its rounds. *)
Round(img, x) ==
  LET pos == FoundAt(img, x.head, x.seq) IN
  IF Found(img, x.head, x.seq)
  THEN [head |-> Advance(pos, Needed(img[J(pos)].targets)), seq |-> x.seq + 1]
  ELSE x
Rounds(img, loop) ==
  loop = [n \in Nat |-> IF n = 0
                        THEN [head |-> RecoverySuperblock(img).head, seq |-> RecoverySuperblock(img).seq]
                        ELSE Round(img, loop[n - 1])]

LEMMA ReplayingRounds ==
  ASSUME NEW img, NEW loop, Rounds(img, loop)
  PROVE  Rounds(img, Replaying(img))
  BY DEF Rounds, Replaying, Round

(* The positions of replay's rounds over the chain that a recovery follows. *)
Chain(img, f, e) ==
  LET seq == RecoverySuperblock(img).seq IN
  [n \in Nat |-> IF n <= e - seq THEN [head |-> f[seq + n], seq |-> seq + n]
                 ELSE [head |-> f[e], seq |-> e]]

LEMMA ChainRounds ==
  ASSUME NEW img \in Images, NEW f \in HeadTables, NEW e \in Nat, NEW s, NEW from, NEW ops,
         Recoverable(img, f, e, s, from, ops)
  PROVE  Replaying(img) = Chain(img, f, e)
  <1> DEFINE R == RecoverySuperblock(img)
             seq == R.seq
             g == Chain(img, f, e)
  <1>1. /\ seq \in Nat /\ seq <= e /\ f[seq] = R.head
        /\ ChainFrom(img, f, seq, e) /\ ~Found(img, f[e], e)
    BY SuperblockType DEF Recoverable
  <1> DEFINE d == e - seq
  <1>2. d \in Nat /\ seq + d = e
    BY <1>1
  <1>3. /\ \A n \in Nat : n <= d => g[n] = [head |-> f[seq + n], seq |-> seq + n]
        /\ \A n \in Nat : ~(n <= d) => g[n] = [head |-> f[e], seq |-> e]
    BY DEF Chain
  <1>4. g[0] = [head |-> R.head, seq |-> R.seq]
    <2>1. 0 <= d /\ seq + 0 = seq
      BY <1>1, <1>2
    <2> QED
      BY <1>1, <1>3, <2>1
  <1>5. ASSUME NEW n \in Nat PROVE g[n + 1] = Round(img, g[n])
    <2>1. CASE n + 1 <= d
      <3>1. n <= d /\ seq + n \in Nat /\ seq <= seq + n /\ seq + n < e /\ n + 1 \in Nat /\ seq + (n + 1) = (seq + n) + 1
        BY <1>1, <1>2, <2>1
      <3>2. Found(img, f[seq + n], seq + n) /\ f[(seq + n) + 1] = NextHead(img, f, seq + n)
        BY <1>1, <3>1 DEF ChainFrom
      <3>3. g[n] = [head |-> f[seq + n], seq |-> seq + n]
            /\ g[n + 1] = [head |-> NextHead(img, f, seq + n), seq |-> (seq + n) + 1]
        BY <1>3, <2>1, <3>1, <3>2
      <3> HIDE DEF g, seq, d
      <3> QED
        BY <3>2, <3>3 DEF Round, NextHead, At
    <2>2. CASE ~(n + 1 <= d)
      <3>1. n + 1 \in Nat /\ g[n + 1] = [head |-> f[e], seq |-> e]
        BY <1>3, <2>2
      <3>2. g[n] = [head |-> f[e], seq |-> e]
        <4>1. CASE n <= d
          <5>1. n = d
            BY <1>2, <2>2, <4>1
          <5> QED
            BY <1>2, <1>3, <4>1, <5>1
        <4>2. CASE ~(n <= d)
          BY <1>3, <4>2
        <4> QED
          BY <4>1, <4>2
      <3> HIDE DEF g, seq, d
      <3> QED
        BY <1>1, <3>1, <3>2 DEF Round
    <2> QED
      BY <2>1, <2>2
  <1>6. Rounds(img, g)
    <2> DEFINE start == [head |-> RecoverySuperblock(img).head, seq |-> RecoverySuperblock(img).seq]
    <2>1. \A n \in Nat : g[n] = IF n = 0 THEN start ELSE Round(img, g[n - 1])
      <3> TAKE n \in Nat
      <3>1. CASE n = 0
        BY <1>4, <3>1
      <3>2. CASE n # 0
        <4>1. n - 1 \in Nat /\ (n - 1) + 1 = n
          BY <3>2
        <4> HIDE DEF g
        <4> QED
          BY <1>5, <3>2, <4>1
      <3> QED
        BY <3>1, <3>2
    <2>2. g = [n \in Nat |-> g[n]]
      BY DEF Chain
    <2> HIDE DEF g, start
    <2> QED
      BY <2>1, <2>2 DEF Rounds, start
  <1> DEFINE h == Replaying(img)
             T == {n \in Nat : h[n] = g[n]}
  <1>7. Rounds(img, h)
    BY <1>6, ReplayingRounds
  <1> HIDE DEF g, h
  <1>8. 0 \in T
    BY <1>6, <1>7 DEF Rounds
  <1>9. ASSUME NEW n \in T PROVE n + 1 \in T
    <2>1. n \in Nat /\ n + 1 \in Nat /\ n + 1 # 0 /\ (n + 1) - 1 = n /\ h[n] = g[n]
      OBVIOUS
    <2>2. h[n + 1] = Round(img, h[n])
      BY <1>7, <2>1 DEF Rounds
    <2>3. g[n + 1] = Round(img, g[n])
      BY <1>6, <2>1 DEF Rounds
    <2> QED
      BY <2>1, <2>2, <2>3
  <1>10. T = Nat
    <2>1. T \in SUBSET Nat
      OBVIOUS
    <2> HIDE DEF T
    <2> QED
      BY <1>8, <1>9, <2>1, Induction
  <1>11. \A n \in Nat : h[n] = g[n]
    BY <1>10
  <1>12. h = g
    <2>1. h = [n \in Nat |-> h[n]] /\ g = [n \in Nat |-> g[n]]
      BY <1>6, <1>7 DEF Rounds
    <2> QED
      BY <1>11, <2>1
  <1> QED
    BY <1>12 DEF h, g

(* The chain has fewer transactions than the journal has blocks: each      *)
(* begins with a descriptor of its own.                                    *)
LEMMA ChainFits ==
  ASSUME NEW img \in Images, NEW f \in HeadTables, NEW seq \in Nat, NEW e \in Nat,
         ChainFrom(img, f, seq, e)
  PROVE  e - seq <= JournalLength
  <1> DEFINE at == [q \in seq .. e - 1 |-> At(img, f, q)]
  <1>1. \A q \in seq .. e - 1 : q \in Nat /\ at[q] = At(img, f, q) /\ at[q] \in Heads /\ ValidTxn(img, at[q], q)
    <2> TAKE q \in seq .. e - 1
    <2>1. q \in Nat /\ seq <= q /\ q < e
      OBVIOUS
    <2>2. Found(img, f[q], q)
      BY <2>1 DEF ChainFrom
    <2> QED
      BY <2>1, <2>2, FoundRecord
  <1>2. \A q \in seq .. e - 1 : img[J(at[q])].seq = q
    BY <1>1 DEF ValidTxn
  <1>3. at \in [seq .. e - 1 -> Heads]
    BY <1>1
  <1> HIDE DEF at
  <1>4. at \in Injection(seq .. e - 1, Heads)
    BY <1>2, <1>3 DEF Injection, IsInjective
  <1>5. IsFiniteSet(Heads) /\ Cardinality(Heads) = JournalLength
    <2>1. JournalLength - 1 \in Int /\ ~(0 > JournalLength - 1) /\ (JournalLength - 1) - 0 + 1 = JournalLength
      BY LengthAssumption
    <2> QED
      BY <2>1, FS_Interval DEF Heads
  <1>6. Cardinality(seq .. e - 1) <= JournalLength
    BY <1>4, <1>5, FS_Injection
  <1>7. Cardinality(seq .. e - 1) = IF seq > e - 1 THEN 0 ELSE (e - 1) - seq + 1
    BY FS_Interval
  <1> QED
    BY <1>6, <1>7, LengthAssumption

(* A bounded set has a greatest number. *)
LEMMA GreatestNumber ==
  ASSUME NEW T \in SUBSET Nat, NEW n \in T, NEW k \in Nat, \A x \in T : x < k
  PROVE  \E x \in T : \A y \in T : y <= x
  <1> DEFINE U == {k - x : x \in T}
  <1>1. U \in SUBSET Nat /\ k - n \in U
    OBVIOUS
  <1>2. PICK u \in U : \A v \in U : u <= v
    BY <1>1, LeastNumber
  <1>3. PICK x \in T : u = k - x
    OBVIOUS
  <1>4. \A y \in T : k - x <= k - y
    BY <1>2, <1>3
  <1> QED
    BY <1>4

(* What the model computes is what the invariants speak of.                *)
LEMMA RecoveredIs ==
  ASSUME NEW img \in Images, NEW f \in HeadTables, NEW e \in Nat, NEW s \in States, NEW from, NEW ops,
         Recoverable(img, f, e, s, from, ops)
  PROVE  Recovered(img) = s
  <1> DEFINE R == RecoverySuperblock(img)
             seq == R.seq
             d == e - seq
             loop == Replaying(img)
  <1>1. /\ seq \in Nat /\ seq <= e /\ d \in Nat /\ seq + d = e
        /\ ChainFrom(img, f, seq, e) /\ ~Found(img, f[e], e) /\ Settles(img, f, seq, e, s)
    <2>1. seq \in Nat /\ seq <= e
      BY SuperblockType DEF Recoverable
    <2> QED
      BY <2>1 DEF Recoverable
  <1>2. d <= JournalLength
    BY <1>1, ChainFits
  <1>3. \A n \in Nat : n <= d => loop[n].head = f[seq + n] /\ loop[n].seq = seq + n
    BY ChainRounds DEF Chain
  <1>4. \A n \in Nat : ~(n <= d) => loop[n].head = f[e] /\ loop[n].seq = e
    BY ChainRounds DEF Chain
  <1> DEFINE found == {n \in Heads : Found(img, loop[n].head, loop[n].seq)}
             batch(n) == ReplayWrites(img, FoundAt(img, loop[n].head, loop[n].seq))
             writers(b) == {n \in found : M(b) \in DOMAIN batch(n)}
             last(b) == CHOOSE n \in writers(b) : \A m \in writers(b) : m <= n
             content(b) == IF writers(b) = {} THEN img[M(b)] ELSE batch(last(b))[M(b)]
  <1>5. Recovered(img) = [b \in Blocks |-> IF content(b).kind = "block" THEN content(b).id ELSE 0 - 1]
    BY DEF Recovered
  <1> HIDE DEF d, loop
  <1>6. \A n \in Heads : n \in found <=> n < d
    <2> TAKE n \in Heads
    <2>1. n \in Nat
      BY HeadFacts
    <2>2. CASE n < d
      <3>1. n <= d /\ seq + n \in Nat /\ seq <= seq + n /\ seq + n < e
        BY <1>1, <2>1, <2>2
      <3>2. Found(img, f[seq + n], seq + n)
        BY <1>1, <3>1 DEF ChainFrom
      <3> QED
        BY <1>3, <2>1, <2>2, <3>1, <3>2
    <2>3. CASE ~(n < d)
      <3>1. loop[n].head = f[e] /\ loop[n].seq = e
        <4>1. CASE n = d
          BY <1>1, <1>3, <4>1
        <4>2. CASE n # d
          BY <1>1, <1>4, <2>1, <2>3, <4>2
        <4> QED
          BY <4>1, <4>2
      <3> QED
        BY <1>1, <2>3, <3>1
    <2> QED
      BY <2>2, <2>3
  <1>7. ASSUME NEW n \in Nat, n < d
        PROVE  /\ n \in found /\ seq + n \in Nat /\ seq <= seq + n /\ seq + n < e
               /\ batch(n) = ReplayBatch(img, f, seq + n)
    <2>1. n \in Heads
      BY <1>1, <1>2, <1>7, LengthAssumption DEF Heads
    <2>2. n <= d /\ seq + n \in Nat /\ seq <= seq + n /\ seq + n < e
      BY <1>1, <1>7
    <2>3. batch(n) = ReplayBatch(img, f, seq + n)
      BY <1>3, <2>2 DEF ReplayBatch, At
    <2> QED
      BY <1>6, <1>7, <2>1, <2>2, <2>3
  <1> HIDE DEF found, batch
  <1>8. \A n \in found : n \in Nat /\ n < d
    BY <1>6, HeadFacts DEF found
  <1>9. ASSUME NEW b \in Blocks PROVE content(b) = Image(b, s[b])
    <2> DEFINE W == Writers(img, f, seq, e, b)
    <2>1. \A n \in writers(b) : n \in Nat /\ n < d /\ seq + n \in W
      BY <1>7, <1>8 DEF Writers
    <2>2. \A q \in W : q \in Nat /\ seq <= q /\ q < e /\ M(b) \in DOMAIN ReplayBatch(img, f, q)
      BY DEF Writers
    <2>3. ASSUME NEW q \in W PROVE q - seq \in writers(b) /\ q - seq \in Nat /\ seq + (q - seq) = q
      <3>1. q - seq \in Nat /\ q - seq < d /\ seq + (q - seq) = q
        BY <1>1, <2>2
      <3>2. q - seq \in found /\ batch(q - seq) = ReplayBatch(img, f, q)
        BY <1>7, <3>1
      <3> QED
        BY <2>2, <3>1, <3>2
    <2>4. /\ W = {} => img[M(b)] = Image(b, s[b])
          /\ \A q \in W : (\A r \in W : r <= q) => ReplayBatch(img, f, q)[M(b)] = Image(b, s[b])
      BY <1>1 DEF Settles
    <2> HIDE DEF W
    <2>5. CASE writers(b) = {}
      <3>1. W = {}
        BY <2>3, <2>5
      <3> QED
        BY <2>4, <2>5, <3>1
    <2>6. CASE writers(b) # {}
      <3> DEFINE T == writers(b)
      <3>1. T \in SUBSET Nat /\ \A x \in T : x < d
        BY <2>1
      <3>2. PICK n \in T : TRUE
        BY <2>6
      <3>3. \E x \in T : \A y \in T : y <= x
        <4> HIDE DEF T
        <4> QED
          BY <1>1, <3>1, <3>2, GreatestNumber
      <3>4. last(b) \in T /\ \A y \in T : y <= last(b)
        BY <3>3
      <3> DEFINE x == last(b)
      <3> HIDE DEF T, x
      <3>5. x \in Nat /\ x < d /\ seq + x \in W
        BY <2>1, <3>4 DEF T, x
      <3>6. \A r \in W : r <= seq + x
        <4> TAKE r \in W
        <4>1. r - seq \in T /\ r - seq \in Nat /\ seq + (r - seq) = r
          BY <2>3 DEF T
        <4>2. r - seq <= x
          BY <3>4, <4>1 DEF x
        <4> QED
          BY <1>1, <2>2, <3>5, <4>2
      <3>7. ReplayBatch(img, f, seq + x)[M(b)] = Image(b, s[b])
        BY <2>4, <3>5, <3>6
      <3>8. batch(x) = ReplayBatch(img, f, seq + x)
        BY <1>7, <3>5
      <3>9. content(b) = batch(x)[M(b)]
        BY <2>6 DEF x
      <3> QED
        BY <3>7, <3>8, <3>9
    <2> QED
      BY <2>5, <2>6
  <1> HIDE DEF content
  <1>10. \A b \in Blocks : content(b).kind = "block" /\ content(b).id = s[b]
    BY <1>9 DEF Image
  <1>11. \A b \in Blocks : Recovered(img)[b] = s[b]
    BY <1>5, <1>10
  <1>12. s = [b \in Blocks |-> s[b]]
    BY DEF States
  <1> QED
    BY <1>5, <1>11, <1>12

-----------------------------------------------------------------------------
(* What a recovery leaves                                                  *)

(* A recovery from s leaves s, or one of the candidates done with it. *)
Possible(s) == s = acked \/ \E t \in Candidates : s = Done(acked, t)

LEMMA CutRecovered ==
  ASSUME Base, NEW f \in HeadTables, NEW e \in Nat, NEW s \in States, DownCut(f, e, s)
  PROVE  Recovered(durable) = s /\ Possible(s)
  <1>1. durable \in Images /\ Recoverable(durable, f, e, s, acked, Candidates)
    BY DEF DownCut, Base, TypeOK, Images
  <1>2. Recovered(durable) = s
    BY <1>1, RecoveredIs
  <1>3. Possible(s)
    BY <1>1 DEF Recoverable, Outcome, Possible
  <1> QED
    BY <1>2, <1>3

LEMMA KillRecovered ==
  ASSUME Base, NEW f \in HeadTables, NEW e \in Nat, NEW s \in States, DownKill(f, e, s)
  PROVE  Recovered(cache) = s /\ Possible(s)
  <1>1. cache \in Images /\ Recoverable(cache, f, e, s, acked, Candidates)
    BY DEF DownKill, Base, TypeOK, Images
  <1>2. Recovered(cache) = s
    BY <1>1, RecoveredIs
  <1>3. Possible(s)
    BY <1>1 DEF Recoverable, Outcome, Possible
  <1> QED
    BY <1>2, <1>3

(* A recovery that has nothing to replay leaves what is in the blocks.     *)
LEMMA PendingOrHolds ==
  ASSUME NEW img \in Images, NEW f \in HeadTables, NEW e \in Nat, NEW s \in States, NEW from, NEW ops,
         Recoverable(img, f, e, s, from, ops)
  PROVE  JournalPending(img, RecoverySuperblock(img)) \/ Holds(img, s)
  <1> DEFINE seq == RecoverySuperblock(img).seq
  <1>1. seq \in Nat /\ seq <= e /\ f[seq] = RecoverySuperblock(img).head
        /\ ChainFrom(img, f, seq, e) /\ Settles(img, f, seq, e, s)
    BY SuperblockType DEF Recoverable
  <1>2. CASE seq = e
    BY <1>1, <1>2, NothingReplayed
  <1>3. CASE seq # e
    <2>1. seq < e
      BY <1>1, <1>3
    <2> QED
      BY <1>1, <2>1 DEF ChainFrom, JournalPending
  <1> QED
    BY <1>2, <1>3

LEMMA HoldsOne ==
  ASSUME NEW img, NEW s \in States, NEW r \in States, Holds(img, s), Holds(img, r)
  PROVE  s = r
  <1>1. \A b \in Blocks : Image(b, s[b]) = Image(b, r[b])
    BY DEF Holds
  <1>2. \A b \in Blocks : s[b] = r[b]
    BY <1>1 DEF Image
  <1> QED
    BY <1>2 DEF States

(* The journal and the superblock say where a recovery starts. *)
LEMMA PendingKept ==
  ASSUME NEW img \in Images, NEW other \in Images, \A l \in JournalArea : other[l] = img[l],
         NEW h \in Heads, NEW q \in Nat
  PROVE  Found(other, h, q) <=> Found(img, h, q)
  <1> DEFINE f == [k \in Nat |-> h]
  <1>1. f \in HeadTables /\ f[q] = h
    BY DEF HeadTables
  <1> HIDE DEF f
  <1> QED
    BY <1>1, JournalKept

-----------------------------------------------------------------------------
(* Kills: how far the medium is behind the page cache                      *)

Unsynced == {"down", "heal", "replay", "replaySync"}

(* As long as the power was not cut, a recovery of the medium leaves what  *)
(* one of the page cache does, or else what the callers know, and then the *)
(* record that makes the difference is still to be replayed in the cache.  *)
MediumBehind ==
  IF pc = "logSync" THEN Recovered(durable) = acked
  ELSE \/ Recovered(durable) = Recovered(cache)
       \/ /\ pc \in Unsynced
          /\ Recovered(durable) = acked
          /\ JournalPending(cache, cache[Primary])

(* What the callers know is what a recovery would find, between operations *)
(* and until the record of the next is synced; then it is what that one    *)
(* leaves.                                                                 *)
LEMMA WorkingMedium ==
  ASSUME FaultInv, cuts = 0 => MediumBehind, pc \in Working
  PROVE  Recovered(durable) = acked
  <1>1. Base
    BY DEF FaultInv
  <1>2. PICK s \in States : s = acked
    BY <1>1 DEF Base, TypeOK, States
  <1>3. PICK q \in Nat : q = sb.seq
    BY <1>1 DEF Base, TypeOK, SuperblockSet
  <1>4. CASE kills = 0
    <2>1. PICK f \in HeadTables : WorkingCut(f)
      BY <1>4 DEF FaultInv, CutInv, WorkingPart
    <2>2. DownCut(f, q, s)
      BY <1>2, <1>3, <2>1 DEF WorkingCut
    <2> QED
      BY <1>1, <1>2, <2>2, CutRecovered
  <1>5. CASE cuts = 0 /\ pc # "logSync"
    <2>1. PICK f \in HeadTables : WorkingKill(f)
      BY <1>5 DEF FaultInv, KillInv, KillPart, Working
    <2>2. DownKill(f, q, s)
      BY <1>2, <1>3, <2>1 DEF WorkingKill
    <2>3. Recovered(cache) = acked
      BY <1>1, <1>2, <2>2, KillRecovered
    <2> QED
      BY <1>5, <2>3 DEF MediumBehind, Working, Unsynced
  <1>6. CASE cuts = 0 /\ pc = "logSync"
    BY <1>6 DEF MediumBehind
  <1> QED
    BY <1>4, <1>5, <1>6 DEF FaultInv

LEMMA LoggedMedium ==
  ASSUME FaultInv, cuts = 0 => MediumBehind, pc \in {"apply", "applySync", "checkpoint"}
  PROVE  Recovered(durable) = Done(acked, txn)
  <1>1. Base
    BY DEF FaultInv
  <1>2. PICK s \in States : s = Done(acked, txn)
    BY <1>1 DEF Base, TypeOK, States, Done, Committing, TxnSet
  <1>3. PICK q \in Nat : q = sb.seq
    BY <1>1 DEF Base, TypeOK, SuperblockSet
  <1>4. CASE kills = 0
    <2>1. \E f \in HeadTables, e \in {q, q + 1} : DownCut(f, e, s)
      <3>1. CASE pc = "checkpoint"
        BY <1>2, <1>3, <1>4, <3>1 DEF FaultInv, CutInv, AppliedPart, SettledCut
      <3>2. CASE pc # "checkpoint"
        BY <1>2, <1>3, <1>4, <3>2 DEF FaultInv, CutInv, ApplyPart, ApplyCut
      <3> QED
        BY <3>1, <3>2
    <2>2. PICK f \in HeadTables, e \in {q, q + 1} : DownCut(f, e, s)
      BY <2>1
    <2>3. e \in Nat
      BY <1>3
    <2> QED
      BY <1>1, <1>2, <2>2, <2>3, CutRecovered
  <1>5. CASE cuts = 0
    <2>1. \E f \in HeadTables, e \in {q, q + 1} : DownKill(f, e, s)
      <3>1. CASE pc = "checkpoint"
        BY <1>2, <1>3, <1>5, <3>1 DEF FaultInv, KillInv, KillPart, SettledKill
      <3>2. CASE pc # "checkpoint"
        BY <1>2, <1>3, <1>5, <3>2 DEF FaultInv, KillInv, KillPart, LoggedKill
      <3> QED
        BY <3>1, <3>2
    <2>2. PICK f \in HeadTables, e \in {q, q + 1} : DownKill(f, e, s)
      BY <2>1
    <2>3. e \in Nat
      BY <1>3
    <2>4. Recovered(cache) = s
      BY <1>1, <2>2, <2>3, KillRecovered
    <2> QED
      BY <1>2, <1>5, <2>4 DEF MediumBehind, Unsynced
  <1> QED
    BY <1>4, <1>5 DEF FaultInv

(* What a recovery of the page cache leaves.                               *)
CacheRecovers ==
  /\ pc \in {"idle", "dataSync", "log"} => Recovered(cache) = acked /\ Holds(cache, acked)
  /\ pc \in {"logSync", "apply", "applySync", "checkpoint"} => Recovered(cache) = Done(acked, txn)

LEMMA CacheRecovered ==
  ASSUME Base, KillInv
  PROVE  CacheRecovers
  <1>1. PICK q \in Nat : q = sb.seq
    BY DEF Base, TypeOK, SuperblockSet
  <1>2. acked \in States
    BY DEF Base, TypeOK, States
  <1>3. ASSUME pc \in {"idle", "dataSync", "log"}
        PROVE  Recovered(cache) = acked /\ Holds(cache, acked)
    <2>1. PICK f \in HeadTables : WorkingKill(f)
      BY <1>3 DEF KillInv, KillPart
    <2>2. PICK s \in States : s = acked
      BY <1>2
    <2>3. DownKill(f, q, s)
      BY <1>1, <2>1, <2>2 DEF WorkingKill
    <2>4. Recovered(cache) = s
      BY <2>3, KillRecovered
    <2> QED
      BY <2>1, <2>2, <2>4 DEF WorkingKill
  <1>4. ASSUME pc \in {"logSync", "apply", "applySync", "checkpoint"}
        PROVE  Recovered(cache) = Done(acked, txn)
    <2>1. PICK s \in States : s = Done(acked, txn)
      BY <1>2, <1>4 DEF Base, States, Done, Committing, TxnSet
    <2>2. \E f \in HeadTables, e \in {q, q + 1} : DownKill(f, e, s)
      <3>1. CASE pc = "checkpoint"
        BY <1>1, <2>1, <3>1 DEF KillInv, KillPart, SettledKill
      <3>2. CASE pc # "checkpoint"
        BY <1>1, <1>4, <2>1, <3>2 DEF KillInv, KillPart, LoggedKill
      <3> QED
        BY <3>1, <3>2
    <2>3. PICK f \in HeadTables, e \in {q, q + 1} : DownKill(f, e, s)
      BY <2>2
    <2>4. e \in Nat
      BY <1>1
    <2> QED
      BY <2>1, <2>3, <2>4, KillRecovered
  <1> QED
    BY <1>3, <1>4 DEF CacheRecovers

LEMMA KillBehind ==
  ASSUME Base, Base', KillInv, KillInv', CacheRecovers, MediumBehind, Kill
  PROVE  MediumBehind'
  <1>1. /\ pc' = "down" /\ acked' = acked /\ cache \in Images /\ cache' \in Images
        /\ \A l \in Loc : cache'[l] = cache[l] \/ (l \in DOMAIN Batch /\ cache'[l] = Batch[l])
    BY KillFacts DEF Base
  <1>2. durable' = durable
    BY DEF Kill, Pwrite
  <1>3. CASE pc = "log"
    <2>1. PICK f \in HeadTables, e \in Nat, s \in States : DownKill(f, e, s)'
      BY <1>1 DEF KillInv, KillPart
    <2>2. /\ Recoverable(cache', f, e, s, acked', Candidates')
          /\ RecoverySuperblock(cache') = cache'[Primary]
      BY <2>1 DEF DownKill, RecoverySuperblock
    <2>3. Recovered(cache') = s
      BY <1>1, <2>2, RecoveredIs
    <2>4. Recovered(durable') = acked
      BY <1>2, <1>3 DEF MediumBehind, CacheRecovers, Unsynced
    <2>5. JournalPending(cache', cache'[Primary]) \/ Holds(cache', s)
      BY <1>1, <2>2, PendingOrHolds
    <2>6. CASE JournalPending(cache', cache'[Primary])
      BY <1>1, <2>4, <2>6 DEF MediumBehind, Unsynced
    <2>7. CASE Holds(cache', s)
      <3>1. Batch = JournalWrites(Position, sb.seq, txn)
        BY <1>3 DEF Batch
      <3>2. /\ txn \in TxnSet /\ sb.seq \in Nat
            /\ Position \in Heads /\ Position + Needed(txn.targets) <= JournalLength
        BY <1>3, PositionType DEF Base, Committing, TypeOK, SuperblockSet
      <3>3. DOMAIN Batch \subseteq JournalArea
        BY <3>1, <3>2, JournalWritesType
      <3>4. \A b \in Blocks : cache'[M(b)] = cache[M(b)]
        BY <1>1, <3>3, Disjoint, HeadFacts
      <3>5. Holds(cache', acked)
        BY <1>3, <3>4 DEF CacheRecovers, Holds
      <3>6. acked \in States
        BY DEF Base, TypeOK, States
      <3>7. s = acked
        BY <2>7, <3>5, <3>6, HoldsOne
      <3> QED
        BY <1>1, <2>3, <2>4, <3>7 DEF MediumBehind
    <2> QED
      BY <2>5, <2>6, <2>7
  <1>4. CASE pc # "log"
    <2>1. PICK f \in HeadTables, e \in Nat, s \in States : DownKill(f, e, s) /\ DownKill(f, e, s)'
      BY <1>4, KillKept
    <2>2. /\ Recoverable(cache, f, e, s, acked, Candidates)
          /\ Recoverable(cache', f, e, s, acked', Candidates')
          /\ cache[Primary].kind = "sb" /\ RecoverySuperblock(cache) = cache[Primary]
      BY <2>1 DEF DownKill, RecoverySuperblock
    <2>3. Recovered(cache') = Recovered(cache)
      BY <1>1, <2>2, RecoveredIs
    <2>4. CASE Recovered(durable) = Recovered(cache)
      BY <1>1, <1>2, <2>3, <2>4 DEF MediumBehind
    <2>5. CASE Recovered(durable) # Recovered(cache)
      <3>1. Recovered(durable) = acked /\ pc \in Unsynced \cup {"logSync"} /\ pc # "down"
        BY <2>5 DEF MediumBehind, Kill
      <3>2. cache[Primary].head \in Heads /\ cache[Primary].seq \in Nat
        BY <1>1, <2>2, SuperblockType
      <3>3. JournalPending(cache, cache[Primary])
        <4>1. CASE pc # "logSync"
          BY <2>5, <4>1 DEF MediumBehind
        <4>2. CASE pc = "logSync"
          <5>1. PICK g \in HeadTables : LoggedKill(g)
            BY <4>2 DEF KillInv, KillPart
          <5>2. /\ cache[Primary].seq = sb.seq /\ g[cache[Primary].seq] = cache[Primary].head
                /\ ChainFrom(cache, g, sb.seq, sb.seq + 1)
            BY <2>2, <5>1 DEF LoggedKill, DownKill, Recoverable, Current
          <5>3. Found(cache, g[sb.seq], sb.seq)
            BY <3>2, <5>2 DEF ChainFrom
          <5> QED
            BY <5>2, <5>3 DEF JournalPending
        <4> QED
          BY <4>1, <4>2
      <3>4. /\ \A l \in JournalArea : cache'[l] = cache[l]
            /\ cache'[Primary].head = cache[Primary].head /\ cache'[Primary].seq = cache[Primary].seq
        <4>1. CASE pc = "heal"
          <5>1. Batch = SuperblockWrites(NextSuperblock)
            BY <4>1 DEF Batch
          <5>2. Current(cache)
            BY <4>1 DEF KillInv, KillPart, Recovering, RecoveringKill
          <5>3. NextSuperblock.head = sb.head /\ NextSuperblock.seq = sb.seq
            BY DEF NextSuperblock, Base, TypeOK, SuperblockSet
          <5>4. /\ Primary \in DOMAIN Batch => Batch[Primary] = NextSuperblock
                /\ DOMAIN Batch \cap JournalArea = {}
            BY <5>1, SuperblockOutside
          <5> QED
            BY <1>1, <5>2, <5>3, <5>4, HeadFacts DEF Current
        <4>2. CASE pc = "replay" /\ Found(cache, scan.head, scan.seq)
          <5>1. Batch = ReplayWrites(cache, FoundAt(cache, scan.head, scan.seq))
            BY <4>2 DEF Batch
          <5>2. DOMAIN Batch \subseteq MetaArea
            BY <4>2, <5>1, FoundAtType, ReplayWritesType DEF Base, TypeOK
          <5> QED
            BY <1>1, <5>2, Disjoint, HeadFacts
        <4>3. CASE pc \in {"replaySync", "logSync"} \/ (pc = "replay" /\ ~Found(cache, scan.head, scan.seq))
          <5>1. Batch = <<>>
            BY <4>3 DEF Batch
          <5> QED
            BY <1>1, <5>1, HeadFacts
        <4> QED
          BY <3>1, <4>1, <4>2, <4>3 DEF Unsynced
      <3>5. JournalPending(cache', cache'[Primary])
        BY <1>1, <3>2, <3>3, <3>4, PendingKept DEF JournalPending
      <3> QED
        BY <1>1, <1>2, <3>1, <3>5 DEF MediumBehind, Unsynced
    <2> QED
      BY <2>4, <2>5
  <1> QED
    BY <1>3, <1>4

(* A recovery's own writes do not change what it leaves.                   *)
LEMMA RecoveryBehind ==
  ASSUME Base, Base', KillInv, MediumBehind, Heal \/ ReplayTxn
  PROVE  MediumBehind'
  <1>1. /\ durable' = durable /\ acked' = acked /\ pc \in {"heal", "replay"} /\ pc' = "replay"
        /\ Candidates' = Candidates /\ cache \in Images /\ cache' \in Images
    BY DEF Heal, ReplayTxn, Pwrite, Candidates, Base, TypeOK, Images
  <1>2. PICK f \in HeadTables, e \in Nat, s \in States : RecoveringKill(f, e, s)
    BY <1>1 DEF KillInv, KillPart, Recovering
  <1>3. /\ DownKill(f, e, s) /\ Current(cache) /\ Recovered(cache) = s
        /\ Recoverable(cache, f, e, s, acked, Candidates) /\ Behind(cache, e, 1)
        /\ cache[Primary].kind = "sb" /\ RecoverySuperblock(cache) = cache[Primary]
    BY <1>2, KillRecovered DEF RecoveringKill, DownKill, RecoverySuperblock
  <1>4. /\ Recoverable(cache', f, e, s, acked, Candidates)
        /\ \A l \in JournalArea : cache'[l] = cache[l]
        /\ cache'[Primary].head = cache[Primary].head /\ cache'[Primary].seq = cache[Primary].seq
    <2>1. CASE Heal
      <3>1. Pwrite(SuperblockWrites(NextSuperblock)) /\ sb' = NextSuperblock
        BY <2>1 DEF Heal
      <3>2. /\ Recoverable(cache', f, e, s, acked, Candidates)
            /\ Current(cache)' /\ sb'.seq = sb.seq /\ sb'.head = sb.head
            /\ \A l \in JournalArea \cup MetaArea : cache'[l] = cache[l]
        BY <1>3, <3>1, SuperblockKill
      <3> QED
        BY <1>3, <3>2 DEF Current
    <2>2. CASE ReplayTxn
      <3> DEFINE ws == ReplayWrites(cache, FoundAt(cache, scan.head, scan.seq))
      <3>1. Pwrite(ws) /\ Found(cache, scan.head, scan.seq) /\ pc = "replay"
        BY <2>2 DEF ReplayTxn
      <3>2. PICK q \in Nat : q = scan.seq
        BY DEF Base, TypeOK
      <3>3. /\ DOMAIN ws \subseteq MetaArea
            /\ \A b \in Blocks : M(b) \in DOMAIN ws => Writers(cache, f, sb.seq, e, b) # {}
        BY <1>2, <3>1, <3>2, ReplayWriters
      <3> HIDE DEF ws
      <3>4. \A l \in Loc : l \notin DOMAIN ws => cache'[l] = cache[l]
        BY <3>1, PwriteFacts DEF Base, TypeOK
      <3>5. \A l \in JournalArea \cup {Primary, Backup} : cache'[l] = cache[l]
        BY <3>3, <3>4, Disjoint, HeadFacts
      <3>6. \A b \in Blocks : cache'[M(b)] = cache[M(b)] \/ Writers(cache, f, cache[Primary].seq, e, b) # {}
        BY <1>3, <3>3, <3>4, HeadFacts DEF Current
      <3>7. Recoverable(cache', f, e, s, acked, Candidates)
        BY <1>1, <1>3, <3>5, <3>6, BlocksLanded
      <3> QED
        BY <3>5, <3>7
    <2> QED
      BY <2>1, <2>2
  <1>5. Recovered(cache') = s
    BY <1>1, <1>4, RecoveredIs
  <1>6. cache[Primary].head \in Heads /\ cache[Primary].seq \in Nat
    BY <1>1, <1>3, SuperblockType
  <1>7. JournalPending(cache', cache'[Primary]) <=> JournalPending(cache, cache[Primary])
    BY <1>1, <1>4, <1>6, PendingKept DEF JournalPending
  <1> QED
    BY <1>1, <1>3, <1>5, <1>7 DEF MediumBehind, Unsynced

(* A recovery that finds nothing to replay starts from a medium that has   *)
(* what the page cache has.                                                *)
LEMMA EndBehind ==
  ASSUME Base, KillInv, MediumBehind, ReplayEnd
  PROVE  MediumBehind'
  <1>1. /\ durable' = durable /\ cache' = cache /\ pc = "replay" /\ ~Found(cache, scan.head, scan.seq)
    BY DEF ReplayEnd
  <1>2. CASE scan.applied > 0
    BY <1>1, <1>2 DEF ReplayEnd, MediumBehind, Unsynced
  <1>3. CASE ~(scan.applied > 0)
    <2>1. PICK f \in HeadTables, e \in Nat, s \in States : RecoveringKill(f, e, s)
      BY <1>1 DEF KillInv, KillPart, Recovering
    <2>2. /\ scan.applied \in Nat /\ scan.seq \in Nat /\ sb.seq \in Nat
      BY <2>1, KillReads
    <2>3. scan.seq = sb.seq
      <3>1. sb.seq + scan.applied = scan.seq
        BY <2>1 DEF RecoveringKill
      <3> QED
        BY <1>3, <2>2, <3>1
    <2>4. cache[Primary].seq = sb.seq /\ cache[Primary].head = f[sb.seq] /\ scan.head = f[scan.seq]
      BY <2>1 DEF RecoveringKill, DownKill, Recoverable, Current, RecoverySuperblock
    <2>5. ~JournalPending(cache, cache[Primary])
      BY <1>1, <2>3, <2>4 DEF JournalPending
    <2>6. pc' = "idle"
      BY <1>3 DEF ReplayEnd, Opened
    <2> QED
      BY <1>1, <2>5, <2>6 DEF MediumBehind
  <1> QED
    BY <1>2, <1>3

LEMMA StepBehind ==
  ASSUME Base, Base', KillInv, KillInv', CacheRecovers, CacheRecovers', MediumBehind,
         [Next]_vars, ~PowerCut
  PROVE  MediumBehind'
  <1>1. CASE Open
    BY <1>1 DEF Open, MediumBehind, Unsynced
  <1>2. CASE Heal \/ ReplayTxn
    BY <1>2, RecoveryBehind
  <1>3. CASE ReplayEnd
    BY <1>3, EndBehind
  <1>4. CASE ReplaySync \/ DataSync \/ LogSync \/ ApplySync \/ Fsync
    <2>1. durable' = cache /\ cache' = cache /\ pc' # "logSync"
      BY <1>4 DEF ReplaySync, DataSync, LogSync, ApplySync, Fsync, Sync
    <2> QED
      BY <2>1 DEF MediumBehind
  <1>5. CASE ReplayCheckpoint
    <2>1. /\ pc = "replayCheckpoint" /\ pc' = "idle" /\ durable' = durable
          /\ Pwrite(SuperblockWrites(NextSuperblock))
      BY <1>5 DEF ReplayCheckpoint, Opened, Pwrite
    <2>2. PICK f \in HeadTables, e \in Nat, s \in States : SettledKill(f, e, s)
      BY <2>1 DEF KillInv, KillPart
    <2>3. Recovered(cache) = s /\ Holds(cache, s)
      BY <2>2, KillRecovered DEF SettledKill
    <2>4. \A b \in Blocks : cache'[M(b)] = cache[M(b)]
      <3>1. DOMAIN SuperblockWrites(NextSuperblock) \cap MetaArea = {}
        BY SuperblockOutside
      <3> QED
        BY <2>1, <3>1, PwriteFacts, HeadFacts DEF Base, TypeOK
    <2>5. Holds(cache', s)
      BY <2>3, <2>4 DEF Holds
    <2>6. Recovered(cache') = acked' /\ Holds(cache', acked') /\ acked' \in States
      BY <2>1 DEF CacheRecovers, Holds, Base, TypeOK, States
    <2>7. s = acked'
      BY <2>5, <2>6, HoldsOne
    <2> QED
      BY <2>1, <2>3, <2>6, <2>7 DEF MediumBehind, Unsynced
  <1>6. CASE Operation
    <2>1. PICK kind \in OpKinds, targets \in TargetLists : Begin(kind, targets)
      BY <1>6 DEF Operation
    <2>2. pc = "idle" /\ pc' \in {"dataSync", "log"} /\ durable' = durable /\ acked' = acked
      BY <2>1 DEF Begin, Pwrite
    <2>3. Recovered(cache') = acked' /\ Recovered(cache) = acked
      BY <2>2 DEF CacheRecovers
    <2> QED
      BY <2>2, <2>3 DEF MediumBehind, Unsynced
  <1>7. CASE Log
    <2>1. pc = "log" /\ pc' = "logSync" /\ durable' = durable /\ acked' = acked
      BY <1>7 DEF Log, Pwrite
    <2> QED
      BY <2>1 DEF MediumBehind, CacheRecovers, Unsynced
  <1>8. CASE Apply
    <2>1. /\ pc = "apply" /\ pc' = "applySync" /\ durable' = durable
          /\ acked' = acked /\ txn' = txn
      BY <1>8 DEF Apply, Pwrite
    <2>2. Recovered(cache') = Done(acked', txn') /\ Recovered(cache) = Done(acked, txn)
      BY <2>1 DEF CacheRecovers
    <2> QED
      BY <2>1, <2>2 DEF MediumBehind, Unsynced
  <1>9. CASE Checkpoint
    <2>1. /\ pc = "checkpoint" /\ pc' = "idle" /\ durable' = durable /\ acked' = Done(acked, txn)
      BY <1>9 DEF Checkpoint, Pwrite, AfterOp, Done
    <2>2. Recovered(cache') = acked' /\ Recovered(cache) = Done(acked, txn)
      BY <2>1 DEF CacheRecovers
    <2> QED
      BY <2>1, <2>2 DEF MediumBehind, Unsynced
  <1>10. CASE Kill
    BY <1>10, KillBehind
  <1>11. CASE UNCHANGED vars
    BY <1>11 DEF vars, MediumBehind
  <1> QED
    BY <1>1, <1>2, <1>3, <1>4, <1>5, <1>6, <1>7, <1>8, <1>9, <1>10, <1>11
    DEF Next, Recover, CommitStep

-----------------------------------------------------------------------------
(* Every step is one of the atomic store                                   *)

(* Until the record of an operation is synced, a recovery of the medium    *)
(* leaves what the callers know; then what the operation leaves.           *)
MediumStore ==
  /\ pc \in Working => Recovered(durable) = acked
  /\ pc \in {"apply", "applySync", "checkpoint"} => Recovered(durable) = Done(acked, txn)

(* No operation in flight, in the terms of MetadataStore. *)
LEMMA NothingInFlight == AbstractOp(NoTxn) = Store!None
  <1>1. NoTxn.id = 0 /\ NoTxn.targets = <<>>
    BY DEF NoTxn
  <1>2. DOMAIN <<>> = {}
    OBVIOUS
  <1>3. {NoTxn.targets[i] : i \in DOMAIN NoTxn.targets} = {}
    BY <1>1, <1>2
  <1> QED
    BY <1>1, <1>3 DEF AbstractOp, Store!None

(* A candidate, in the terms of MetadataStore. *)
LEMMA CandidateOp ==
  ASSUME Base, NEW t \in Candidates
  PROVE  /\ AbstractOp(t) \in {AbstractOp(txn)} \cup {AbstractOp(u) : u \in lost}
         /\ AbstractOp(t) # Store!None
         /\ Store!After(acked, AbstractOp(t)) = Done(acked, t) /\ AfterOp(t) = Done(acked, t)
         /\ Done(acked, t) # acked
  <1>1. t \in TxnSet /\ t \in lost \cup {txn} /\ \A b \in Blocks : acked[b] # t.id
    BY CandidateFacts DEF Base, IdInv, Candidates
  <1>2. t.targets \in TargetLists /\ t.id # 0
    BY <1>1 DEF TxnSet
  <1>3. 1 \in DOMAIN t.targets /\ t.targets[1] \in Blocks
    BY <1>2, TargetListFacts, LengthAssumption
  <1>4. AbstractOp(t).id = t.id /\ AbstractOp(t).blocks = {t.targets[i] : i \in DOMAIN t.targets}
    BY DEF AbstractOp
  <1>5. \A b \in Blocks : b \in AbstractOp(t).blocks <=> \E i \in DOMAIN t.targets : t.targets[i] = b
    BY <1>4
  <1>6. Store!After(acked, AbstractOp(t)) = Done(acked, t)
    BY <1>4, <1>5 DEF Store!After, Done
  <1>7. AfterOp(t) = Done(acked, t)
    BY DEF AfterOp, Done
  <1>8. Done(acked, t)[t.targets[1]] = t.id
    BY <1>3 DEF Done
  <1>9. Done(acked, t) # acked
    BY <1>1, <1>3, <1>8
  <1>10. Store!None.id = 0
    BY DEF Store!None
  <1>11. AbstractOp(t) \in {AbstractOp(txn)} \cup {AbstractOp(u) : u \in lost}
    BY <1>1
  <1> QED
    BY <1>2, <1>4, <1>6, <1>7, <1>9, <1>10, <1>11

(* A step that the callers do not see, after which a recovery leaves what  *)
(* they know or one candidate more.                                        *)
LEMMA Becomes ==
  ASSUME Base, recoverable = acked, UNCHANGED <<txn, lost, acked>>, Possible(recoverable')
  PROVE  [Store!Next]_(Store!vars)
  <1>1. CASE recoverable' = acked
    BY <1>1 DEF Store!vars
  <1>2. CASE \E t \in Candidates : recoverable' = Done(acked, t)
    <2>1. PICK t \in Candidates : recoverable' = Done(acked, t)
      BY <1>2
    <2>2. /\ AbstractOp(t) \in {AbstractOp(txn)} \cup {AbstractOp(u) : u \in lost}
          /\ AbstractOp(t) # Store!None
          /\ recoverable' = Store!After(recoverable, AbstractOp(t))
      BY <2>1, CandidateOp
    <2>3. Store!BecomeDurable
      BY <2>2 DEF Store!BecomeDurable
    <2> QED
      BY <2>3 DEF Store!Next
  <1> QED
    BY <1>1, <1>2 DEF Possible

(* A step that changes neither what is on the medium nor what is known. *)
LEMMA Unseen ==
  ASSUME recoverable' = recoverable, UNCHANGED <<txn, lost, acked>>
  PROVE  [Store!Next]_(Store!vars)
  BY DEF Store!vars

(* open tells the callers what was done, or that nothing was.              *)
LEMMA OpenedStore ==
  ASSUME Base, Opened, recoverable' = recoverable, recoverable' = acked'
  PROVE  [Store!Next]_(Store!vars)
  <1> DEFINE done == {t \in lost \cup {txn} : t # NoTxn /\ Present(t)}
  <1>1. /\ txn' = NoTxn
        /\ done # {} => \E t \in done : acked' = AfterOp(t) /\ lost' = {}
        /\ done = {} => lost' = (lost \cup {txn}) \ {NoTxn} /\ acked' = acked
    BY DEF Opened
  <1>2. \A t \in done : t \in Candidates
    BY DEF Candidates
  <1> HIDE DEF done
  <1>3. AbstractOp(txn') = Store!None
    BY <1>1, NothingInFlight
  <1>4. CASE done # {}
    <2>1. PICK t \in done : acked' = AfterOp(t) /\ lost' = {}
      BY <1>1, <1>4
    <2>2. recoverable # acked
      BY <1>2, <2>1, CandidateOp
    <2>3. Store!Acknowledge
      BY <1>3, <2>1, <2>2 DEF Store!Acknowledge
    <2> QED
      BY <2>3 DEF Store!Next
  <1>5. CASE done = {} /\ txn # NoTxn
    <2>1. txn \in Candidates
      BY <1>5 DEF Candidates
    <2>2. AbstractOp(txn) # Store!None
      BY <2>1, CandidateOp
    <2>3. lost' = lost \cup {txn}
      BY <1>1, <1>5, CandidateFacts DEF Base, TypeOK, TxnSet, NoTxn
    <2>4. {AbstractOp(t) : t \in lost'} = {AbstractOp(t) : t \in lost} \cup {AbstractOp(txn)}
      BY <2>3
    <2>5. Store!GiveUp
      BY <1>1, <1>3, <1>5, <2>2, <2>4 DEF Store!GiveUp
    <2> QED
      BY <2>5 DEF Store!Next
  <1>6. CASE done = {} /\ txn = NoTxn
    <2>1. NoTxn \notin lost
      BY DEF Base, TypeOK, TxnSet, NoTxn
    <2>2. lost' = lost
      BY <1>1, <1>6, <2>1
    <2> QED
      BY <1>1, <1>6, <2>2, Unseen
  <1> QED
    BY <1>4, <1>5, <1>6

(* The sync that ends a replay makes durable what it wrote, which a        *)
(* recovery of the medium would have written too: except after a kill,     *)
(* when the record may have been in the page cache only.                   *)
LEMMA ReplaySyncStore ==
  ASSUME FaultInv, FaultInv', cuts = 0 => MediumBehind, ReplaySync,
         recoverable = Recovered(durable), recoverable' = Recovered(durable')
  PROVE  [Store!Next]_(Store!vars)
  <1>1. /\ Base /\ Base' /\ pc = "replaySync" /\ pc' = "replayCheckpoint"
        /\ durable' = cache /\ cache' = cache /\ UNCHANGED <<txn, lost, acked>>
        /\ kills' = kills /\ cuts' = cuts
    BY DEF FaultInv, ReplaySync, Sync
  <1>2. CASE kills = 0
    <2>1. PICK f \in HeadTables, e \in Nat, s \in States : RecoveringCut(f, e, s)
      BY <1>1, <1>2 DEF FaultInv, CutInv, RecoveringPart, Recovering
    <2>2. Recovered(durable) = s
      BY <1>1, <2>1, CutRecovered DEF RecoveringCut
    <2>3. Holds(cache, s)
      <3>1. Settles(cache, f, e, e, s)
        BY <1>1, <2>1 DEF RecoveringCut
      <3> QED
        BY <3>1, NothingReplayed
    <2>4. PICK g \in HeadTables, n \in Nat, r \in States : SettledCut(g, n, r)'
      BY <1>1, <1>2 DEF FaultInv, CutInv, ReplayedPart
    <2>5. durable' \in Images /\ Recoverable(durable', g, n, r, acked', Candidates') /\ Holds(cache', r)
      BY <1>1, <2>4 DEF SettledCut, DownCut, Base, TypeOK, Images
    <2>6. Recovered(durable') = r
      BY <2>5, RecoveredIs
    <2>7. s = r
      BY <1>1, <2>3, <2>5, HoldsOne
    <2> QED
      BY <1>1, <2>2, <2>6, <2>7, Unseen
  <1>3. CASE cuts = 0
    <2>1. CASE Recovered(durable) = Recovered(cache)
      BY <1>1, <2>1, Unseen
    <2>2. CASE Recovered(durable) # Recovered(cache)
      <3>1. Recovered(durable) = acked
        BY <1>1, <1>3, <2>2 DEF MediumBehind
      <3>2. PICK f \in HeadTables, e \in Nat, s \in States : RecoveringKill(f, e, s)
        BY <1>1, <1>3 DEF FaultInv, KillInv, KillPart, Recovering
      <3>3. Recovered(cache) = s /\ Possible(s)
        BY <1>1, <3>2, KillRecovered DEF RecoveringKill
      <3> QED
        BY <1>1, <3>1, <3>3, Becomes
    <2> QED
      BY <2>1, <2>2
  <1> QED
    BY <1>2, <1>3 DEF FaultInv

(* A power cut loses the operation in flight, or makes it durable, when    *)
(* its record was under way; otherwise a recovery leaves what it would     *)
(* have left before.                                                       *)
LEMMA PowerCutStore ==
  ASSUME FaultInv, FaultInv', MediumStore, PowerCut, ~MixedFaults, ~LaggingCuts,
         SuperblockFound(durable'),
         recoverable = Recovered(durable), recoverable' = Recovered(durable')
  PROVE  [Store!Next]_(Store!vars)
  <1>1. kills = 0 /\ kills' = 0 /\ pc' = "down"
    BY DEF PowerCut, Down
  <1>2. Base /\ Base' /\ CutInv /\ CutInv'
    BY <1>1 DEF FaultInv
  <1>3. UNCHANGED <<txn, lost, acked>> /\ Candidates' = Candidates /\ durable' \in Images
    BY <1>2 DEF PowerCut, Candidates, Base, TypeOK, Images
  <1>4. CASE pc \in Working
    <2>1. PICK f \in HeadTables, e \in Nat, s \in States : DownCut(f, e, s)'
      BY <1>1, <1>2 DEF CutInv, DownPart
    <2>2. Recoverable(durable', f, e, s, acked, Candidates)
      BY <1>3, <2>1 DEF DownCut
    <2>3. Recovered(durable') = s
      BY <1>3, <2>2, RecoveredIs
    <2>4. Possible(s)
      BY <2>2 DEF Recoverable, Outcome, Possible
    <2>5. recoverable = acked
      BY <1>4 DEF MediumStore
    <2> QED
      BY <1>2, <1>3, <2>3, <2>4, <2>5, Becomes
  <1>5. CASE pc \notin Working
    <2>1. PICK f \in HeadTables, e \in Nat, s \in States : DownCut(f, e, s) /\ DownCut(f, e, s)'
      BY <1>2, <1>5, CutKept
    <2>2. Recoverable(durable', f, e, s, acked, Candidates)
      BY <1>3, <2>1 DEF DownCut
    <2>3. Recovered(durable') = s
      BY <1>3, <2>2, RecoveredIs
    <2>4. Recovered(durable) = s
      BY <1>2, <2>1, CutRecovered
    <2> QED
      BY <1>3, <2>3, <2>4, Unseen
  <1> QED
    BY <1>4, <1>5

LEMMA BeginStore ==
  ASSUME Base, Operation, recoverable = Recovered(durable), recoverable' = Recovered(durable')
  PROVE  [Store!Next]_(Store!vars)
  <1>1. PICK kind \in OpKinds, targets \in TargetLists : Begin(kind, targets)
    BY DEF Operation
  <1>2. /\ pc = "idle" /\ durable' = durable /\ lost' = lost /\ acked' = acked
        /\ txn' = [id |-> nextId, targets |-> targets] /\ nextId <= MaxTxns
    BY <1>1 DEF Begin, Pwrite
  <1>3. txn = NoTxn
    BY <1>2 DEF Base, IdInv
  <1>4. nextId \in Ids
    BY <1>2, BoundAssumption DEF Base, TypeOK, Ids
  <1>5. AbstractOp(txn) = Store!None
    BY <1>3, NothingInFlight
  <1>6. AbstractOp(txn') = [id |-> nextId, blocks |-> {targets[i] : i \in DOMAIN targets}]
    BY <1>2 DEF AbstractOp
  <1>7. {targets[i] : i \in DOMAIN targets} \in {{s[i] : i \in DOMAIN s} : s \in TargetLists}
    OBVIOUS
  <1>8. Store!Begin
    BY <1>2, <1>4, <1>5, <1>6, <1>7 DEF Store!Begin
  <1> QED
    BY <1>8 DEF Store!Next

(* Every step of the program and of the environment is one of the atomic   *)
(* store, or none.                                                         *)
LEMMA StoreStep ==
  ASSUME FaultInv, FaultInv', cuts = 0 => MediumBehind, MediumStore, MediumStore',
         ~MixedFaults, ~LaggingCuts, SuperblockFound(durable'), [Next]_vars,
         recoverable = Recovered(durable), recoverable' = Recovered(durable')
  PROVE  [Store!Next]_(Store!vars)
  <1>1. Base
    BY DEF FaultInv
  <1>2. CASE Open \/ Heal \/ ReplayTxn \/ Log \/ Apply \/ Kill
    <2>1. durable' = durable /\ UNCHANGED <<txn, lost, acked>>
      BY <1>2 DEF Open, Heal, ReplayTxn, Log, Apply, Kill, Pwrite
    <2> QED
      BY <2>1, Unseen
  <1>3. CASE ReplayEnd \/ ReplayCheckpoint
    <2>1. durable' = durable
      BY <1>3 DEF ReplayEnd, ReplayCheckpoint, Pwrite
    <2>2. CASE UNCHANGED <<txn, lost, acked>>
      BY <2>1, <2>2, Unseen
    <2>3. CASE Opened
      <3>1. recoverable' = acked'
        BY <2>3 DEF Opened, MediumStore, Working
      <3> QED
        BY <1>1, <2>1, <2>3, <3>1, OpenedStore
    <2> QED
      BY <1>3, <2>2, <2>3 DEF ReplayEnd, ReplayCheckpoint
  <1>4. CASE ReplaySync
    BY <1>4, ReplaySyncStore
  <1>5. CASE DataSync \/ Fsync
    <2>1. recoverable = acked /\ recoverable' = acked' /\ UNCHANGED <<txn, lost, acked>>
      BY <1>5 DEF DataSync, Fsync, MediumStore, Working
    <2> QED
      BY <2>1, Unseen
  <1>6. CASE ApplySync
    <2>1. /\ recoverable = Done(acked, txn) /\ recoverable' = Done(acked', txn')
          /\ UNCHANGED <<txn, lost, acked>>
      BY <1>6 DEF ApplySync, MediumStore
    <2> QED
      BY <2>1, Unseen
  <1>7. CASE LogSync
    <2>1. /\ recoverable = acked /\ recoverable' = Done(acked', txn')
          /\ UNCHANGED <<txn, lost, acked>> /\ pc = "logSync"
      BY <1>7 DEF LogSync, MediumStore, Working
    <2>2. txn \in Candidates
      BY <1>1, <2>1, CandidateFacts DEF Base, Committing
    <2>3. Possible(recoverable')
      BY <2>1, <2>2 DEF Possible
    <2> QED
      BY <1>1, <2>1, <2>3, Becomes
  <1>8. CASE Checkpoint
    <2>1. /\ pc = "checkpoint" /\ recoverable = Done(acked, txn) /\ durable' = durable
          /\ acked' = AfterOp(txn) /\ lost' = {} /\ txn' = NoTxn
      BY <1>8 DEF Checkpoint, MediumStore, Pwrite
    <2>2. txn \in Candidates
      BY <1>1, <2>1, CandidateFacts DEF Base, Committing
    <2>3. acked' = recoverable /\ recoverable # acked
      BY <1>1, <2>1, <2>2, CandidateOp
    <2>4. AbstractOp(txn') = Store!None
      BY <2>1, NothingInFlight
    <2>5. Store!Acknowledge
      BY <2>1, <2>3, <2>4 DEF Store!Acknowledge
    <2> QED
      BY <2>5 DEF Store!Next
  <1>9. CASE Operation
    BY <1>1, <1>9, BeginStore
  <1>10. CASE PowerCut
    BY <1>10, PowerCutStore
  <1>11. CASE UNCHANGED vars
    BY <1>11, Unseen DEF vars
  <1> QED
    BY <1>2, <1>3, <1>4, <1>5, <1>6, <1>7, <1>8, <1>9, <1>10, <1>11 DEF Next, Recover, CommitStep

-----------------------------------------------------------------------------
(* A superblock is found, as long as one write only is torn                *)

(* What is written to the place of a superblock is one, and to that of a   *)
(* block a block.                                                          *)
Fits(l, c) ==
  /\ l \in {Primary, Backup} => c.kind = "sb"
  /\ l \in MetaArea => c.kind = "block"
Fitting(ws) == \A l \in DOMAIN ws : Fits(l, ws[l])

(* One torn write spoils one place. *)
Spoiled(T) == \A l \in Loc \ T : Fits(l, durable[l]) /\ Fits(l, cache[l])
TornInv ==
  /\ \A p \in pending : Fits(p[1], p[2])
  /\ \E l \in Loc : Spoiled({l})
  /\ torn = 0 => Spoiled({})

LEMMA SuperblockFits ==
  ASSUME TypeOK
  PROVE  Fitting(SuperblockWrites(NextSuperblock))
  <1>1. /\ DOMAIN SuperblockWrites(NextSuperblock) = {Primary, Backup}
        /\ \A l \in {Primary, Backup} : SuperblockWrites(NextSuperblock)[l] = NextSuperblock
    BY DEF SuperblockWrites
  <1>2. NextSuperblock.kind = "sb"
    BY NextSuperblockType DEF SuperblockSet
  <1>3. Primary \notin MetaArea /\ Backup \notin MetaArea
    BY Disjoint
  <1> QED
    BY <1>1, <1>2, <1>3 DEF Fitting, Fits

(* The checksum has seen a block in every place of a valid transaction.    *)
LEMMA ReplayFits ==
  ASSUME TypeOK, Found(cache, scan.head, scan.seq)
  PROVE  Fitting(ReplayWrites(cache, FoundAt(cache, scan.head, scan.seq)))
  <1> DEFINE pos == FoundAt(cache, scan.head, scan.seq)
             ws == ReplayWrites(cache, pos)
             n == Len(cache[J(pos)].targets)
  <1>1. pos \in Heads /\ ValidTxn(cache, pos, scan.seq) /\ cache \in Images
    BY FoundAtType DEF TypeOK, Images
  <1>2. /\ DOMAIN ws \subseteq MetaArea
        /\ \A l \in DOMAIN ws : \E i \in 1 .. n : ws[l] = cache[J(pos + i)]
    BY <1>1, ReplayWritesType DEF Images
  <1>3. IsRecord(cache, pos, scan.seq, n)
    BY <1>1, RecordFacts
  <1>4. ASSUME NEW i \in 1 .. n PROVE cache[J(pos + i)].kind = "block"
    <2> DEFINE c == cache[J(pos + n + 1)]
    <2>1. c.kind = "commit" /\ c.sum = <<cache[J(pos)], [k \in 1 .. n |-> cache[J(pos + k)]]>>
      BY <1>3 DEF IsRecord
    <2>2. c \in Contents
      BY <1>1, <1>3, HeadFacts DEF IsRecord, Images
    <2>3. c.sum \in DescSet \X Seq(ImageSet)
      BY <2>1, <2>2, CommitFacts
    <2> HIDE DEF c
    <2>4. [k \in 1 .. n |-> cache[J(pos + k)]] \in Seq(ImageSet)
      BY <2>1, <2>3
    <2>5. n \in Nat
      BY <1>3 DEF IsRecord
    <2>6. [k \in 1 .. n |-> cache[J(pos + k)]][i] \in ImageSet
      BY <2>4, <2>5
    <2> QED
      BY <2>6 DEF ImageSet
  <1> HIDE DEF ws, n, pos
  <1>5. ASSUME NEW l \in DOMAIN ws PROVE Fits(l, ws[l])
    <2>1. l \in MetaArea /\ ws[l].kind = "block"
      BY <1>2, <1>4
    <2>2. l \notin {Primary, Backup}
      BY <2>1, Disjoint
    <2> QED
      BY <2>1, <2>2 DEF Fits
  <1>6. Fitting(ws)
    BY <1>5 DEF Fitting
  <1> QED
    BY <1>6 DEF ws, pos

LEMMA LogFits ==
  ASSUME TypeOK, Committing, pc = "log"
  PROVE  Fitting(JournalWrites(Position, sb.seq, txn))
  <1>1. DOMAIN JournalWrites(Position, sb.seq, txn) \subseteq JournalArea
    BY PositionType, JournalWritesType DEF Committing, TypeOK, SuperblockSet
  <1>2. \A l \in JournalArea : l \notin {Primary, Backup} \cup MetaArea
    BY Disjoint DEF JournalArea, MetaArea
  <1> QED
    BY <1>1, <1>2 DEF Fitting, Fits

LEMMA ApplyFits ==
  ASSUME Committing, pc = "apply"
  PROVE  Fitting(ApplyWrites(txn))
  <1>1. DOMAIN ApplyWrites(txn) \subseteq MetaArea
    BY ApplyWritesType DEF Committing
  <1>2. \A l \in DOMAIN ApplyWrites(txn) : ApplyWrites(txn)[l] = Image(l[2], txn.id)
    BY DEF ApplyWrites
  <1>3. \A l \in DOMAIN ApplyWrites(txn) : ApplyWrites(txn)[l].kind = "block"
    BY <1>2 DEF Image
  <1> QED
    BY <1>1, <1>3, Disjoint DEF Fitting, Fits

LEMMA BatchFits ==
  ASSUME TypeOK, Committing
  PROVE  Fitting(Batch)
  <1>1. CASE pc \in {"heal", "checkpoint", "replayCheckpoint"}
    <2>1. Batch = SuperblockWrites(NextSuperblock)
      BY <1>1 DEF Batch
    <2> QED
      BY <2>1, SuperblockFits
  <1>2. CASE pc = "log"
    <2>1. Batch = JournalWrites(Position, sb.seq, txn)
      BY <1>2 DEF Batch
    <2> QED
      BY <2>1, <1>2, LogFits
  <1>3. CASE pc = "apply"
    <2>1. Batch = ApplyWrites(txn)
      BY <1>3 DEF Batch
    <2> QED
      BY <2>1, <1>3, ApplyFits
  <1>4. CASE pc = "replay" /\ Found(cache, scan.head, scan.seq)
    <2>1. Batch = ReplayWrites(cache, FoundAt(cache, scan.head, scan.seq))
      BY <1>4 DEF Batch
    <2> QED
      BY <2>1, <1>4, ReplayFits
  <1>5. CASE /\ pc \notin {"heal", "checkpoint", "replayCheckpoint", "log", "apply"}
             /\ ~(pc = "replay" /\ Found(cache, scan.head, scan.seq))
    <2>1. Batch = <<>>
      BY <1>5 DEF Batch
    <2> QED
      BY <2>1 DEF Fitting
  <1> QED
    BY <1>1, <1>2, <1>3, <1>4, <1>5

LEMMA PwriteFits ==
  ASSUME TypeOK, TornInv, NEW ws, Fitting(ws), Pwrite(ws), torn' = torn
  PROVE  TornInv'
  <1>1. /\ durable' = durable
        /\ \A p \in pending' : p \in pending \/ (p[1] \in DOMAIN ws /\ p[2] = ws[p[1]])
        /\ \A l \in Loc : cache'[l] = cache[l] \/ (l \in DOMAIN ws /\ cache'[l] = ws[l])
    BY PwriteFacts DEF TypeOK
  <1>2. \A p \in pending' : Fits(p[1], p[2])
    BY <1>1 DEF TornInv, Fitting
  <1>3. ASSUME NEW T, Spoiled(T) PROVE Spoiled(T)'
    BY <1>1, <1>3 DEF Spoiled, Fitting
  <1>4. PICK l \in Loc : Spoiled({l})
    BY DEF TornInv
  <1>5. Spoiled({l})'
    BY <1>3, <1>4
  <1> QED
    BY <1>2, <1>3, <1>5 DEF TornInv

LEMMA CutFits ==
  ASSUME TypeOK, TornInv, MaxTorn <= 1, PowerCut
  PROVE  TornInv'
  <1>1. PICK S \in Landings :
          \/ CutTo(AfterCut(S, {})) /\ torn' = torn
          \/ torn < MaxTorn /\ torn' = torn + 1 /\ \E p \in S : CutTo(AfterCut(S, {p[1]}))
    BY DEF PowerCut
  <1>2. S \subseteq pending /\ pending \subseteq Loc \X Contents
    BY DEF Landings, TypeOK
  <1>3. ASSUME NEW T, CutTo(AfterCut(S, T)), NEW l \in Loc \ T
        PROVE  durable'[l] = cache'[l] /\ (durable'[l] = durable[l] \/ Fits(l, durable'[l]))
    <2>1. durable' = AfterCut(S, T) /\ cache' = durable' /\ DOMAIN durable = Loc
      BY <1>3 DEF CutTo, TypeOK
    <2>2. CASE \E p \in S : p[1] = l
      <3> DEFINE q == CHOOSE p \in S : p[1] = l
      <3>1. q \in S /\ q[1] = l
        BY <2>2
      <3>2. durable'[l] = q[2]
        BY <2>1, <2>2 DEF AfterCut
      <3> HIDE DEF q
      <3>3. Fits(l, q[2])
        BY <1>2, <3>1 DEF TornInv
      <3> QED
        BY <2>1, <3>2, <3>3
    <2>3. CASE ~\E p \in S : p[1] = l
      BY <2>1, <2>3 DEF AfterCut
    <2> QED
      BY <2>2, <2>3
  <1>4. ASSUME NEW T, CutTo(AfterCut(S, T)), NEW U, Spoiled(U), T \subseteq U
        PROVE  Spoiled(U)'
    <2> SUFFICES ASSUME NEW l \in Loc \ U PROVE Fits(l, durable'[l]) /\ Fits(l, cache'[l])
      BY DEF Spoiled
    <2>1. durable'[l] = cache'[l] /\ (durable'[l] = durable[l] \/ Fits(l, durable'[l]))
      BY <1>3, <1>4
    <2> QED
      BY <1>4, <2>1 DEF Spoiled
  <1>5. pending' = {}
    BY <1>1 DEF CutTo
  <1>6. CASE CutTo(AfterCut(S, {})) /\ torn' = torn
    <2>1. PICK l \in Loc : Spoiled({l})
      BY DEF TornInv
    <2>2. Spoiled({l})'
      BY <1>4, <1>6, <2>1
    <2>3. torn = 0 => Spoiled({})'
      BY <1>4, <1>6 DEF TornInv
    <2> QED
      BY <1>5, <1>6, <2>2, <2>3 DEF TornInv
  <1>7. CASE torn < MaxTorn /\ torn' = torn + 1 /\ \E p \in S : CutTo(AfterCut(S, {p[1]}))
    <2>1. torn = 0 /\ torn' # 0
      <3>1. torn \in Nat /\ MaxTorn \in Nat
        BY BoundAssumption DEF TypeOK
      <3> QED
        BY <1>7, <3>1
    <2>2. PICK p \in S : CutTo(AfterCut(S, {p[1]}))
      BY <1>7
    <2>3. PICK l \in Loc : l = p[1]
      BY <1>2
    <2>4. Spoiled({})
      BY <2>1 DEF TornInv
    <2>5. Spoiled({l})
      BY <2>4 DEF Spoiled
    <2>6. Spoiled({l})'
      BY <1>4, <2>2, <2>3, <2>5
    <2> QED
      BY <1>5, <2>1, <2>6 DEF TornInv
  <1> QED
    BY <1>1, <1>6, <1>7

LEMMA StepTorn ==
  ASSUME TypeOK, Committing, TornInv, MaxTorn <= 1, [Next]_vars
  PROVE  TornInv'
  <1>1. CASE UNCHANGED <<deviceVars, torn>>
    BY <1>1 DEF TornInv, Spoiled
  <1>2. CASE Sync /\ torn' = torn
    BY <1>2 DEF TornInv, Spoiled, Sync
  <1>3. CASE \E ws : Fitting(ws) /\ Pwrite(ws) /\ torn' = torn
    BY <1>3, PwriteFits
  <1>4. CASE Heal \/ ReplayCheckpoint \/ Checkpoint
    BY <1>3, <1>4, SuperblockFits DEF Heal, ReplayCheckpoint, Checkpoint
  <1>5. CASE ReplayTxn
    BY <1>3, <1>5, ReplayFits DEF ReplayTxn
  <1>6. CASE Log
    BY <1>3, <1>6, LogFits DEF Log
  <1>7. CASE Apply
    BY <1>3, <1>7, ApplyFits DEF Apply
  <1>8. CASE Operation
    <2>1. PICK kind \in OpKinds, targets \in TargetLists : Begin(kind, targets)
      BY <1>8 DEF Operation
    <2>2. CASE kind = "metadata"
      BY <1>1, <2>1, <2>2 DEF Begin
    <2>3. CASE kind # "metadata"
      <3> DEFINE ws == [l \in {D(nextId)} |-> FileData(nextId)]
      <3>1. Pwrite(ws) /\ torn' = torn
        BY <2>1, <2>3 DEF Begin
      <3>2. D(nextId) \notin {Primary, Backup} \cup MetaArea
        BY DEF D, Primary, Backup, MetaArea, M
      <3>3. Fitting(ws)
        BY <3>2 DEF Fitting, Fits
      <3> HIDE DEF ws
      <3> QED
        BY <1>3, <3>1, <3>3
    <2> QED
      BY <2>2, <2>3
  <1>9. CASE Kill
    <2>1. PICK done \in SUBSET DOMAIN Batch : Pwrite([l \in done |-> Batch[l]])
      BY <1>9 DEF Kill
    <2>2. Fitting([l \in done |-> Batch[l]])
      BY BatchFits DEF Fitting
    <2> QED
      BY <1>3, <1>9, <2>1, <2>2 DEF Kill
  <1>10. CASE PowerCut
    BY <1>10, CutFits
  <1>11. CASE Open \/ ReplayEnd \/ UNCHANGED vars
    BY <1>1, <1>11 DEF Open, ReplayEnd, vars
  <1>12. CASE ReplaySync \/ DataSync \/ LogSync \/ ApplySync \/ Fsync
    BY <1>2, <1>12 DEF ReplaySync, DataSync, LogSync, ApplySync, Fsync
  <1> QED
    BY <1>4, <1>5, <1>6, <1>7, <1>8, <1>9, <1>10, <1>11, <1>12 DEF Next, Recover, CommitStep

LEMMA InitTorn == Init => TornInv
  <1> SUFFICES ASSUME Init PROVE TornInv
    OBVIOUS
  <1>1. /\ cache = durable /\ pending = {}
        /\ \A l \in {Primary, Backup} : durable[l] = Superblock(1, 0, 1)
        /\ \A l \in MetaArea : l \notin {Primary, Backup} => durable[l] = Image(l[2], 0)
    BY HeadFacts DEF Init
  <1>2. ASSUME NEW l \in Loc PROVE Fits(l, durable[l])
    <2>1. Superblock(1, 0, 1).kind = "sb" /\ Image(l[2], 0).kind = "block"
      BY DEF Superblock, Image
    <2>2. l \in MetaArea => l \notin {Primary, Backup}
      BY Disjoint
    <2> QED
      BY <1>1, <2>1, <2>2 DEF Fits
  <1> QED
    BY <1>1, <1>2, HeadFacts DEF TornInv, Spoiled

Openable == SuperblockFound(durable) /\ SuperblockFound(cache)

LEMMA TornOpens ==
  ASSUME TornInv
  PROVE  Openable
  <1>1. PICK t \in Loc : Spoiled({t})
    BY DEF TornInv
  <1>2. AgHeader \in Blocks
    BY BlocksAssumption
  <1>3. /\ M(AgHeader) \in MetaArea /\ M(AgHeader) \in Loc /\ Primary \in Loc /\ Backup \in Loc
        /\ Primary # Backup /\ M(AgHeader) # Primary
    BY <1>2, HeadFacts, Disjoint DEF Primary, Backup
  <1>4. CASE t # Primary
    BY <1>1, <1>3, <1>4 DEF Spoiled, Fits, Openable, SuperblockFound
  <1>5. CASE t = Primary
    BY <1>1, <1>3, <1>5 DEF Spoiled, Fits, Openable, SuperblockFound, BackupReadable
  <1> QED
    BY <1>4, <1>5

(* One torn write, in whatever mix of power cuts and kills, never leaves a *)
(* volume that cannot be opened: find_superblock finds a copy, in the page *)
(* cache and on the medium.                                                *)
THEOREM AlwaysOpenable ==
  ASSUME MaxTorn <= 1
  PROVE  Spec => []Openable
  <1> DEFINE Inv == TypeOK /\ Committing /\ TornInv
  <1>1. Init => Inv
    BY InitTyped, InitTorn
  <1>2. Inv /\ [Next]_vars => Inv'
    BY StepTyped, StepTorn
  <1>3. Inv => Openable
    BY TornOpens
  <1> QED
    BY <1>1, <1>2, <1>3, PTL DEF Spec

-----------------------------------------------------------------------------
(* The theorem                                                             *)

LEMMA MediumStored ==
  ASSUME FaultInv, cuts = 0 => MediumBehind
  PROVE  MediumStore
  BY WorkingMedium, LoggedMedium DEF MediumStore

LEMMA InitStore ==
  ASSUME Init, recoverable = Recovered(durable), Openable
  PROVE  Store!Init /\ MediumBehind
  <1>1. /\ FaultInv /\ kills = 0 /\ pc = "down" /\ cache = durable /\ txn = NoTxn /\ lost = {}
        /\ acked = [b \in Blocks |-> 0]
    BY InitFault DEF Init
  <1>2. PICK f \in HeadTables, e \in Nat, s \in States : DownCut(f, e, s)
    BY <1>1 DEF FaultInv, CutInv, DownPart, Openable
  <1>3. Recovered(durable) = s /\ Possible(s)
    BY <1>1, <1>2, CutRecovered DEF FaultInv
  <1>4. recoverable = acked
    BY <1>1, <1>3 DEF Possible, Candidates
  <1>5. AbstractOp(txn) = Store!None /\ {AbstractOp(t) : t \in lost} = {}
    BY <1>1, NothingInFlight
  <1> QED
    BY <1>1, <1>4, <1>5 DEF Store!Init, MediumBehind

(* The journal implements MetadataStore, for every volume, every sequence  *)
(* of operations, and any number of power cuts and torn writes, or of      *)
(* kills, as long as a copy of the superblock is left: what a recovery of  *)
(* the medium would leave changes only by one whole operation at a time,   *)
(* in no recovery, and the callers are told of an operation only when it   *)
(* is durable (commit, replay).                                            *)
THEOREM StoreWhileOpenable ==
  ASSUME ~MixedFaults, ~LaggingCuts
  PROVE  RSpec /\ []Openable => ImplementsStore
  <1> DEFINE Cached == cuts = 0 => CacheRecovers
             Lags == cuts = 0 => MediumBehind
             Computed == recoverable = Recovered(durable)
             Moves == RNext \/ UNCHANGED <<vars, recoverable>>
  <1>1. RInit /\ Openable => FaultInv /\ Lags /\ Computed /\ Store!Init
    BY InitFault, InitStore DEF RInit
  <1>2. FaultInv => Cached
    BY CacheRecovered DEF FaultInv
  <1>3. Moves => [Next]_vars
    BY DEF RNext
  <1>4. FaultInv /\ [Next]_vars => FaultInv'
    BY StepFault
  <1>5. FaultInv /\ FaultInv' /\ Cached /\ Cached' /\ Lags /\ [Next]_vars => Lags'
    <2> SUFFICES ASSUME FaultInv, FaultInv', Cached, Cached', Lags, [Next]_vars, cuts' = 0
                 PROVE  MediumBehind'
      OBVIOUS
    <2>1. cuts = 0 /\ ~PowerCut
      BY CutsCounted DEF FaultInv, Base
    <2> QED
      BY <2>1, StepBehind DEF FaultInv
  <1>6. FaultInv /\ Lags => MediumStore
    BY MediumStored
  <1>7. Computed /\ Moves => Computed'
    <2>1. ASSUME UNCHANGED <<vars, recoverable>>, Computed
          PROVE  Computed'
      BY <2>1 DEF vars
    <2> QED
      BY <2>1 DEF RNext
  <1>8. /\ FaultInv /\ FaultInv' /\ Lags /\ MediumStore /\ MediumStore' /\ SuperblockFound(durable')
         /\ Computed /\ Computed' /\ [Next]_vars
         => [Store!Next]_(Store!vars)
    <2> SUFFICES ASSUME FaultInv, FaultInv', Lags, MediumStore, MediumStore', SuperblockFound(durable'),
                        Computed, Computed', [Next]_vars
                 PROVE  [Store!Next]_(Store!vars)
      OBVIOUS
    <2> QED
      BY StoreStep
  <1> HIDE DEF Cached, Lags, Computed
  <1>9. RSpec => RInit /\ [][RNext]_<<vars, recoverable>>
    BY DEF RSpec
  <1>10. [RNext]_<<vars, recoverable>> <=> Moves
    OBVIOUS
  <1> HIDE DEF Moves
  <1>11. Openable' => SuperblockFound(durable')
    BY DEF Openable
  <1> QED
    BY <1>1, <1>2, <1>3, <1>4, <1>5, <1>6, <1>7, <1>8, <1>9, <1>10, <1>11, PTL
    DEF ImplementsStore, Store!Spec

(* So it does when no more than one write is torn, as in the crash states  *)
(* of tests/crash.rs.                                                      *)
THEOREM StoreImplemented ==
  ASSUME ~MixedFaults, ~LaggingCuts, MaxTorn <= 1
  PROVE  RSpec => ImplementsStore
  <1>1. RInit => Init
    BY DEF RInit
  <1>2. [RNext]_<<vars, recoverable>> => [Next]_vars
    BY DEF RNext
  <1>3. RSpec => Spec
    BY <1>1, <1>2, PTL DEF RSpec, Spec
  <1> QED
    BY <1>3, AlwaysOpenable, StoreWhileOpenable, PTL

-----------------------------------------------------------------------------
(***************************************************************************)
(* Ordered mode: metadata never refers to file data that was not written,  *)
(* across any power cuts, torn writes and kills, as long as no write that  *)
(* goes straight on to its commit is among the operations.                 *)
(*                                                                         *)
(* Why: kernel_update syncs its data before it names the block that points *)
(* at it, and from then on nothing writes to the place of that data.  So   *)
(* whatever carries the name of an operation with data - a block in place, *)
(* its image in the journal, a write that has yet to land - exists only    *)
(* once the data is durable, and no fault can undo that.                   *)
(***************************************************************************)
-----------------------------------------------------------------------------
(* The inductive invariant *)

(* The data of operation id is on the medium and nothing more is written   *)
(* to its place.                                                           *)
Settled(id) ==
  /\ durable[D(id)] = FileData(id) /\ cache[D(id)] = FileData(id)
  /\ \A p \in pending : p[1] # D(id)

(* An operation may be named by a metadata block, anywhere, only once it   *)
(* has begun, and once its data, if it has any, is settled.                *)
KnownId(id) == id < nextId /\ (id \in hasData => Settled(id))
Known(c) == c.kind = "block" => KnownId(c.id)
ContentsKnown ==
  /\ \A l \in Loc : Known(cache[l]) /\ Known(durable[l])
  /\ \A p \in pending : Known(p[2])

LogPhases == {"log", "logSync", "apply", "applySync", "checkpoint"}

OrderedInv ==
  /\ hasData \subseteq Ids /\ \A id \in hasData : id < nextId
  /\ ContentsKnown
  /\ \A b \in Blocks : KnownId(acked[b])
  /\ pc = "dataSync" => txn.id < nextId /\ txn.id \in Ids /\ cache[D(txn.id)] = FileData(txn.id)
  /\ pc \in LogPhases => KnownId(txn.id)

-----------------------------------------------------------------------------
(* Data, once settled, stays settled *)

LEMMA PwriteSettled ==
  ASSUME TypeOK, NEW ws, Pwrite(ws), NEW id \in Ids, D(id) \notin DOMAIN ws, Settled(id)
  PROVE  Settled(id)'
  <1>1. D(id) \in Loc /\ DOMAIN cache = Loc
    BY DEF Loc, DataArea, TypeOK
  <1>2. durable'[D(id)] = FileData(id) /\ cache'[D(id)] = FileData(id)
    BY <1>1, PwriteFacts DEF Settled
  <1>3. \A p \in pending' : p[1] # D(id)
    BY PwriteFacts DEF Settled
  <1> QED
    BY <1>2, <1>3 DEF Settled

LEMMA SyncSettled ==
  ASSUME Sync, NEW id, cache[D(id)] = FileData(id)
  PROVE  Settled(id)'
  BY DEF Sync, Settled

-----------------------------------------------------------------------------
(* Known contents *)

LEMMA OtherKinds ==
  /\ \A s \in SuperblockSet : Known(s)
  /\ Known(Torn) /\ Known(Zero)
  /\ \A id : Known(FileData(id))
  /\ \A seq, targets : Known(Desc(seq, targets))
  /\ \A seq, sum : Known(Commit(seq, sum))
  /\ \A b, id : KnownId(id) => Known(Image(b, id))
  BY DEF Known, SuperblockSet, Torn, Zero, FileData, Desc, Commit, Image

(* A batch outside the data area that writes known contents. *)
LEMMA PwriteKnown ==
  ASSUME TypeOK, hasData \subseteq Ids, ContentsKnown, UNCHANGED <<nextId, hasData>>,
         NEW ws, Pwrite(ws), DOMAIN ws \cap DataArea = {}, \A l \in DOMAIN ws : Known(ws[l])
  PROVE  ContentsKnown' /\ \A id : KnownId(id) => KnownId(id)'
  <1>1. ASSUME NEW id, KnownId(id) PROVE KnownId(id)'
    <2>1. CASE id \in hasData
      <3>1. D(id) \notin DOMAIN ws
        BY <2>1 DEF DataArea
      <3>2. Settled(id)'
        BY <1>1, <2>1, <3>1, PwriteSettled DEF KnownId
      <3> QED
        BY <1>1, <3>2 DEF KnownId
    <2>2. CASE id \notin hasData
      BY <1>1, <2>2 DEF KnownId
    <2> QED
      BY <2>1, <2>2
  <1>2. \A c : Known(c) => Known(c)'
    BY <1>1 DEF Known
  <1>3. ASSUME NEW l \in Loc PROVE Known(cache[l])' /\ Known(durable[l])'
    <2>1. durable' = durable /\ (cache'[l] = cache[l] \/ (l \in DOMAIN ws /\ cache'[l] = ws[l]))
      BY PwriteFacts DEF TypeOK
    <2>2. Known(cache'[l]) /\ Known(durable'[l])
      BY <2>1 DEF ContentsKnown
    <2> QED
      BY <1>1, <2>2 DEF Known
  <1>4. ASSUME NEW p \in pending' PROVE Known(p[2])'
    <2>1. Known(p[2])
      BY PwriteFacts DEF ContentsKnown
    <2> QED
      BY <2>1, <1>1 DEF Known
  <1> QED
    BY <1>1, <1>3, <1>4 DEF ContentsKnown

LEMMA SyncKnown ==
  ASSUME ContentsKnown, UNCHANGED <<nextId, hasData>>, Sync
  PROVE  ContentsKnown' /\ \A id : KnownId(id) => KnownId(id)'
  <1>1. ASSUME NEW id, KnownId(id) PROVE KnownId(id)'
    BY <1>1, SyncSettled DEF KnownId, Settled
  <1>2. ASSUME NEW l \in Loc PROVE Known(cache[l])' /\ Known(durable[l])'
    BY <1>1 DEF Sync, Known, ContentsKnown
  <1> QED
    BY <1>1, <1>2 DEF Sync, ContentsKnown

LEMMA CutKnown ==
  ASSUME TypeOK, hasData \subseteq Ids, ContentsKnown, PowerCut
  PROVE  ContentsKnown' /\ \A id : KnownId(id) => KnownId(id)'
  <1>0. /\ nextId' = nextId /\ hasData' = hasData /\ cache' = durable' /\ pending' = {}
        /\ \A l \in Loc : \/ durable'[l] = durable[l]
                          \/ \E p \in pending : p[1] = l /\ durable'[l] \in {p[2], Torn}
    BY PowerCutFacts
  <1>1. ASSUME NEW id, KnownId(id) PROVE KnownId(id)'
    <2>1. CASE id \in hasData
      <3>1. D(id) \in Loc
        BY <2>1 DEF Loc, DataArea
      <3>2. Settled(id)'
        BY <1>0, <1>1, <2>1, <3>1 DEF KnownId, Settled
      <3> QED
        BY <1>0, <1>1, <3>2 DEF KnownId
    <2>2. CASE id \notin hasData
      BY <1>0, <1>1, <2>2 DEF KnownId
    <2> QED
      BY <2>1, <2>2
  <1>2. ASSUME NEW l \in Loc PROVE Known(cache[l])' /\ Known(durable[l])'
    <2>1. Known(durable'[l])
      <3>1. CASE durable'[l] = durable[l]
        BY <3>1 DEF ContentsKnown
      <3>2. CASE \E p \in pending : p[1] = l /\ durable'[l] \in {p[2], Torn}
        BY <3>2, OtherKinds DEF ContentsKnown
      <3> QED
        BY <3>1, <3>2, <1>0
    <2> QED
      BY <2>1, <1>0, <1>1 DEF Known
  <1> QED
    BY <1>0, <1>1, <1>2 DEF ContentsKnown

-----------------------------------------------------------------------------
(* The batches *)

(* What a recovery or a commit is about to write is known and is not file  *)
(* data.                                                                   *)
Harmless(ws) ==
  DOMAIN ws \subseteq Loc \ DataArea /\ \A l \in DOMAIN ws : Known(ws[l])

LEMMA SuperblockHarmless ==
  ASSUME TypeOK
  PROVE  Harmless(SuperblockWrites(NextSuperblock))
  <1>1. Known(NextSuperblock)
    BY NextSuperblockType, OtherKinds
  <1>2. /\ DOMAIN SuperblockWrites(NextSuperblock) = {Primary, Backup}
        /\ \A l \in {Primary, Backup} : SuperblockWrites(NextSuperblock)[l] = NextSuperblock
    BY DEF SuperblockWrites
  <1>3. Primary \in Loc /\ Backup \in Loc
    BY DEF Loc
  <1> QED
    BY <1>1, <1>2, <1>3, Disjoint DEF Harmless

LEMMA ReplayHarmless ==
  ASSUME TypeOK, ContentsKnown, Found(cache, scan.head, scan.seq)
  PROVE  Harmless(ReplayWrites(cache, FoundAt(cache, scan.head, scan.seq)))
  <1> DEFINE pos == FoundAt(cache, scan.head, scan.seq)
             ws == ReplayWrites(cache, pos)
             n == Len(cache[J(pos)].targets)
  <1>1. pos \in Heads /\ ValidTxn(cache, pos, scan.seq) /\ cache \in [Loc -> Contents]
    BY FoundAtType DEF TypeOK
  <1>2. /\ DOMAIN ws \subseteq MetaArea
        /\ \A l \in DOMAIN ws : \E i \in 1 .. n : ws[l] = cache[J(pos + i)]
    BY <1>1, ReplayWritesType
  <1>3. n \in 1 .. MaxTargets /\ pos + n + 2 <= JournalLength
    BY <1>1, ValidTxnFacts
  <1>4. \A i \in 1 .. n : J(pos + i) \in Loc
    BY <1>1, <1>3, LengthAssumption DEF Loc, JournalArea, Heads
  <1> HIDE DEF ws, n, pos
  <1>5. \A l \in DOMAIN ws : Known(ws[l])
    BY <1>2, <1>4 DEF ContentsKnown
  <1>6. DOMAIN ws \subseteq Loc \ DataArea
    BY <1>2, Disjoint DEF Loc
  <1>7. Harmless(ws)
    BY <1>5, <1>6 DEF Harmless
  <1> QED
    BY <1>7 DEF ws, pos

LEMMA LogHarmless ==
  ASSUME TypeOK, Committing, pc = "log", KnownId(txn.id)
  PROVE  Harmless(JournalWrites(Position, sb.seq, txn))
  <1> DEFINE ws == JournalWrites(Position, sb.seq, txn)
             n == Len(txn.targets)
             blocks == [i \in 1 .. n |-> Image(txn.targets[i], txn.id)]
  <1>1. /\ txn \in TxnSet /\ sb.seq \in Nat
        /\ Position \in Heads /\ Position + Needed(txn.targets) <= JournalLength
        /\ Needed(txn.targets) = n + 2 /\ n \in 1 .. MaxTargets /\ Position \in Nat /\ n \in Nat
    BY PositionType, LengthAssumption DEF Committing, TypeOK, SuperblockSet, Heads
  <1>2. DOMAIN ws \subseteq JournalArea
    BY <1>1, JournalWritesType
  <1>3. DOMAIN ws = {J(Position + i) : i \in 0 .. n + 1}
    BY DEF JournalWrites
  <1>4. ASSUME NEW l \in DOMAIN ws PROVE Known(ws[l])
    <2>1. PICK i \in 0 .. n + 1 : l = J(Position + i)
      BY <1>3
    <2>2. CASE l = J(Position)
      <3>1. ws[l] = Desc(sb.seq, txn.targets)
        BY <2>2, <1>3 DEF JournalWrites
      <3> HIDE DEF ws
      <3> QED
        BY <3>1, OtherKinds
    <2>3. CASE l # J(Position) /\ l = J(Position + n + 1)
      <3>1. ws[l] = Commit(sb.seq, <<Desc(sb.seq, txn.targets), blocks>>)
        BY <2>3, <1>3 DEF JournalWrites
      <3> HIDE DEF ws, blocks
      <3> QED
        BY <3>1, OtherKinds
    <2>4. CASE l # J(Position) /\ l # J(Position + n + 1)
      <3>1. i \in 1 .. n /\ l[2] - Position = i
        BY <2>1, <2>4, <1>1 DEF J
      <3>2. ws[l] = blocks[l[2] - Position]
        BY <2>4, <1>3 DEF JournalWrites
      <3>3. ws[l] = Image(txn.targets[i], txn.id)
        BY <3>1, <3>2
      <3> HIDE DEF ws
      <3> QED
        BY <3>3, OtherKinds
    <2> QED
      BY <2>2, <2>3, <2>4
  <1> HIDE DEF ws
  <1>5. DOMAIN ws \subseteq Loc \ DataArea
    BY <1>2, Disjoint DEF Loc
  <1>6. Harmless(ws)
    BY <1>4, <1>5 DEF Harmless
  <1> QED
    BY <1>6 DEF ws

LEMMA ApplyHarmless ==
  ASSUME TypeOK, Committing, pc = "apply", KnownId(txn.id)
  PROVE  Harmless(ApplyWrites(txn))
  <1>1. DOMAIN ApplyWrites(txn) \subseteq MetaArea
    BY ApplyWritesType DEF Committing
  <1>2. \A l \in DOMAIN ApplyWrites(txn) : ApplyWrites(txn)[l] = Image(l[2], txn.id)
    BY DEF ApplyWrites
  <1>3. \A l \in DOMAIN ApplyWrites(txn) : Known(ApplyWrites(txn)[l])
    BY <1>2, OtherKinds
  <1> QED
    BY <1>1, <1>3, Disjoint DEF Harmless, Loc

(* Also what a kill leaves of a batch. *)
LEMMA BatchHarmless ==
  ASSUME TypeOK, Committing, OrderedInv
  PROVE  Harmless(Batch)
  <1>1. CASE pc \in {"heal", "checkpoint", "replayCheckpoint"}
    <2>1. Batch = SuperblockWrites(NextSuperblock)
      BY <1>1 DEF Batch
    <2> QED
      BY <2>1, SuperblockHarmless
  <1>2. CASE pc = "log"
    <2>1. Batch = JournalWrites(Position, sb.seq, txn)
      BY <1>2 DEF Batch
    <2> QED
      BY <2>1, <1>2, LogHarmless DEF OrderedInv, LogPhases
  <1>3. CASE pc = "apply"
    <2>1. Batch = ApplyWrites(txn)
      BY <1>3 DEF Batch
    <2> QED
      BY <2>1, <1>3, ApplyHarmless DEF OrderedInv, LogPhases
  <1>4. CASE pc = "replay" /\ Found(cache, scan.head, scan.seq)
    <2>1. Batch = ReplayWrites(cache, FoundAt(cache, scan.head, scan.seq))
      BY <1>4 DEF Batch
    <2> QED
      BY <2>1, <1>4, ReplayHarmless DEF OrderedInv
  <1>5. CASE /\ pc \notin {"heal", "checkpoint", "replayCheckpoint", "log", "apply"}
             /\ ~(pc = "replay" /\ Found(cache, scan.head, scan.seq))
    <2>1. Batch = <<>>
      BY <1>5 DEF Batch
    <2> QED
      BY <2>1 DEF Harmless
  <1> QED
    BY <1>1, <1>2, <1>3, <1>4, <1>5

-----------------------------------------------------------------------------
(* The steps *)

LEMMA InitOrdered == Init => OrderedInv
  <1> SUFFICES ASSUME Init PROVE OrderedInv
    OBVIOUS
  <1>1. KnownId(0) /\ hasData = {} /\ pending = {} /\ cache = durable /\ pc = "down"
    BY DEF Init, KnownId
  <1>2. \A l \in Loc : durable[l] \in {Superblock(1, 0, 1), Image(l[2], 0), Zero}
    BY DEF Init
  <1>3. Known(Superblock(1, 0, 1))
    BY DEF Known, Superblock
  <1>4. \A l \in Loc : Known(durable[l])
    BY <1>1, <1>2, <1>3, OtherKinds
  <1>5. \A b \in Blocks : KnownId(acked[b])
    BY <1>1 DEF Init
  <1> QED
    BY <1>1, <1>4, <1>5 DEF OrderedInv, ContentsKnown, LogPhases

(* What open finds done is known. *)
LEMMA OpenedKnown ==
  ASSUME TypeOK, OrderedInv, Opened
  PROVE  \A b \in Blocks : KnownId(acked'[b])
  <1>1. \A b \in Blocks : KnownId(acked[b])
    BY DEF OrderedInv
  <1>2. ASSUME NEW t \in lost \cup {txn}, t # NoTxn, Present(t), acked' = AfterOp(t)
        PROVE  \A b \in Blocks : KnownId(acked'[b])
    <2>1. t \in TxnSet
      BY <1>2 DEF TypeOK
    <2>2. 1 \in DOMAIN t.targets /\ t.targets[1] \in Blocks
      BY <2>1, TargetListFacts, LengthAssumption DEF TxnSet
    <2>3. cache[M(t.targets[1])] = Image(t.targets[1], t.id)
      BY <1>2, <2>2 DEF Present
    <2>4. M(t.targets[1]) \in Loc
      BY <2>2 DEF Loc, MetaArea
    <2>5. Known(Image(t.targets[1], t.id))
      BY <2>3, <2>4 DEF OrderedInv, ContentsKnown
    <2>6. KnownId(t.id)
      BY <2>5 DEF Known, Image
    <2> QED
      BY <1>1, <1>2, <2>6 DEF AfterOp
  <1> DEFINE done == {t \in lost \cup {txn} : t # NoTxn /\ Present(t)}
  <1>3. CASE done # {}
    <2>1. PICK t \in done : acked' = AfterOp(t)
      BY <1>3 DEF Opened
    <2> QED
      BY <2>1, <1>2
  <1>4. CASE done = {}
    <2>1. acked' = acked
      BY <1>4 DEF Opened
    <2> QED
      BY <2>1, <1>1
  <1> QED
    BY <1>3, <1>4

(* The new operation of a Begin: nothing on the volume names it yet.       *)
LEMMA BeginOrdered ==
  ASSUME TypeOK, OrderedInv, NEW kind \in OpKinds, kind # "write",
         NEW targets \in TargetLists, Begin(kind, targets)
  PROVE  OrderedInv'
  <1>1. /\ nextId \in Ids /\ nextId \in Nat /\ nextId' = nextId + 1 /\ txn'.id = nextId
        /\ acked' = acked
    BY BoundAssumption DEF Begin, TypeOK, Ids
  <1>2. CASE kind = "metadata"
    <2>1. hasData' = hasData /\ UNCHANGED deviceVars /\ pc' = "log"
      BY <1>2 DEF Begin
    <2>2. ASSUME NEW id \in Nat, KnownId(id) PROVE KnownId(id)'
      BY <1>1, <2>1, <2>2 DEF KnownId, Settled
    <2>3. \A c \in Contents : Known(c) => Known(c)'
      <3> SUFFICES ASSUME NEW c \in Contents, Known(c), c.kind = "block" PROVE KnownId(c.id)'
        BY DEF Known
      <3>1. c.id \in Nat
        BY DEF Contents, ImageSet, SuperblockSet, DescSet, Torn, Zero
      <3> QED
        BY <3>1, <2>2 DEF Known
    <2>4. txn'.id < nextId' /\ txn'.id \notin hasData'
      BY <1>1, <2>1 DEF OrderedInv
    <2>5. ContentsKnown'
      BY <2>1, <2>3 DEF OrderedInv, ContentsKnown, TypeOK
    <2>6. \A b \in Blocks : KnownId(acked[b])'
      BY <2>2, <1>1 DEF OrderedInv, TypeOK
    <2>7. \A id \in hasData' : id < nextId'
      BY <1>1, <2>1 DEF OrderedInv, TypeOK
    <2>8. KnownId(txn.id)'
      BY <2>4 DEF KnownId
    <2> QED
      BY <2>1, <2>5, <2>6, <2>7, <2>8 DEF OrderedInv
  <1>3. CASE kind = "kernelUpdate"
    <2> DEFINE ws == [l \in {D(nextId)} |-> FileData(nextId)]
    <2>1. hasData' = hasData \cup {nextId} /\ Pwrite(ws) /\ pc' = "dataSync"
      BY <1>3 DEF Begin
    <2>2. DOMAIN ws = {D(nextId)} /\ ws[D(nextId)] = FileData(nextId)
      OBVIOUS
    <2> HIDE DEF ws
    <2>3. ASSUME NEW id \in Nat, KnownId(id) PROVE KnownId(id)'
      <3>1. CASE id \in hasData
        <4>1. id \in Ids /\ D(id) \notin DOMAIN ws
          BY <2>2, <2>3, <3>1, <1>1 DEF OrderedInv, KnownId, D
        <4>2. Settled(id)'
          BY <2>1, <2>3, <3>1, <4>1, PwriteSettled DEF KnownId
        <4> QED
          BY <1>1, <2>3, <4>2 DEF KnownId
      <3>2. CASE id \notin hasData
        BY <1>1, <2>1, <2>3, <3>2 DEF KnownId
      <3> QED
        BY <3>1, <3>2
    <2>4. \A c \in Contents : Known(c) => Known(c)'
      <3> SUFFICES ASSUME NEW c \in Contents, Known(c), c.kind = "block" PROVE KnownId(c.id)'
        BY DEF Known
      <3>1. c.id \in Nat
        BY DEF Contents, ImageSet, SuperblockSet, DescSet, Torn, Zero
      <3> QED
        BY <3>1, <2>3 DEF Known
    <2>5. ContentsKnown'
      <3>1. ASSUME NEW l \in Loc PROVE Known(cache[l])' /\ Known(durable[l])'
        <4>1. durable' = durable /\ durable[l] \in Contents /\ cache[l] \in Contents
          BY <2>1 DEF Pwrite, TypeOK
        <4>2. cache'[l] = cache[l] \/ cache'[l] = FileData(nextId)
          BY <2>1, <2>2, PwriteFacts DEF TypeOK
        <4>3. FileData(nextId) \in Contents /\ FileData(nextId).kind # "block"
          BY <1>1, ContentFacts DEF FileData
        <4>4. Known(cache[l]) /\ Known(durable[l])
          BY DEF OrderedInv, ContentsKnown
        <4>5. Known(durable[l])'
          BY <4>1, <4>4, <2>4
        <4>6. Known(cache[l])'
          <5>1. CASE cache'[l] = cache[l]
            <6>1. PICK c \in Contents : c = cache[l]
              BY <4>1
            <6>2. Known(c)'
              BY <6>1, <4>4, <2>4
            <6> QED
              BY <5>1, <6>1, <6>2 DEF Known
          <5>2. CASE cache'[l] = FileData(nextId)
            BY <5>2, <4>3 DEF Known
          <5> QED
            BY <5>1, <5>2, <4>2
        <4> QED
          BY <4>5, <4>6
      <3>2. ASSUME NEW p \in pending' PROVE Known(p[2])'
        <4>1. CASE p \in pending
          <5>1. Known(p[2]) /\ p[2] \in Contents
            BY <4>1 DEF OrderedInv, ContentsKnown, TypeOK
          <5> QED
            BY <5>1, <2>4
        <4>2. CASE p \notin pending
          <5>1. p[2] = FileData(nextId)
            BY <4>2, <2>1, <2>2, PwriteFacts
          <5> QED
            BY <5>1 DEF Known, FileData
        <4> QED
          BY <4>1, <4>2
      <3> QED
        BY <3>1, <3>2 DEF ContentsKnown
    <2>6. \A b \in Blocks : KnownId(acked[b])'
      BY <2>3, <1>1 DEF OrderedInv, TypeOK
    <2>7. hasData' \subseteq Ids /\ \A id \in hasData' : id < nextId'
      BY <1>1, <2>1 DEF OrderedInv, TypeOK
    <2>8. cache'[D(nextId)] = FileData(nextId)
      <3>1. D(nextId) \in Loc
        BY <1>1 DEF Loc, DataArea
      <3> QED
        BY <3>1, <2>1, <2>2, PwriteFacts DEF TypeOK
    <2>9. txn'.id < nextId' /\ txn'.id \in Ids
      BY <1>1
    <2> QED
      BY <1>1, <2>1, <2>5, <2>6, <2>7, <2>8, <2>9 DEF OrderedInv, LogPhases
  <1> QED
    BY <1>2, <1>3, KindAssumption

LEMMA StepOrdered ==
  ASSUME "write" \notin OpKinds, TypeOK, Committing, OrderedInv, [Next]_vars
  PROVE  OrderedInv'
  <1>1. /\ hasData \subseteq Ids /\ ContentsKnown /\ \A id \in hasData : id < nextId
        /\ \A b \in Blocks : KnownId(acked[b])
        /\ pc \in LogPhases => KnownId(txn.id)
    BY DEF OrderedInv
  <1>a. ASSUME NEW ws, Harmless(ws), Pwrite(ws), UNCHANGED <<nextId, hasData>>
        PROVE  ContentsKnown' /\ \A id : KnownId(id) => KnownId(id)'
    <2>1. DOMAIN ws \cap DataArea = {} /\ \A l \in DOMAIN ws : Known(ws[l])
      BY <1>a DEF Harmless
    <2> QED
      BY <1>1, <1>a, <2>1, PwriteKnown
  (* What is left to say of a step that keeps what is known and begins     *)
  (* nothing.                                                              *)
  <1>b. ASSUME ContentsKnown', \A id : KnownId(id) => KnownId(id)', UNCHANGED <<nextId, hasData>>,
               \A b \in Blocks : KnownId(acked'[b]),
               pc' # "dataSync", pc' \in LogPhases => txn' = txn /\ KnownId(txn.id)
        PROVE  OrderedInv'
    <2>1. \A b \in Blocks : KnownId(acked[b])'
      BY <1>b
    <2>2. pc' \in LogPhases => KnownId(txn.id)'
      BY <1>b
    <2> QED
      BY <1>1, <1>b, <2>1, <2>2 DEF OrderedInv
  <1>c. ASSUME UNCHANGED <<deviceVars, nextId, hasData>>
        PROVE  ContentsKnown' /\ \A id : KnownId(id) => KnownId(id)'
    <2>1. \A id : KnownId(id) => KnownId(id)'
      BY <1>c DEF KnownId, Settled
    <2> QED
      BY <1>1, <1>c, <2>1 DEF ContentsKnown, Known
  <1>d. ASSUME Sync, UNCHANGED <<nextId, hasData>>
        PROVE  ContentsKnown' /\ \A id : KnownId(id) => KnownId(id)'
    BY <1>1, <1>d, SyncKnown
  <1>2. CASE Open
    <2>1. UNCHANGED <<deviceVars, histVars>> /\ pc' \in {"heal", "replay"}
      BY <1>2 DEF Open
    <2> QED
      BY <1>1, <1>b, <1>c, <2>1 DEF LogPhases
  <1>3. CASE Heal
    <2>1. Pwrite(SuperblockWrites(NextSuperblock)) /\ UNCHANGED histVars /\ pc' = "replay"
      BY <1>3 DEF Heal
    <2>2. ContentsKnown' /\ \A id : KnownId(id) => KnownId(id)'
      BY <1>a, <2>1, SuperblockHarmless
    <2> QED
      BY <1>1, <1>b, <2>1, <2>2 DEF LogPhases
  <1>4. CASE ReplayTxn
    <2> DEFINE ws == ReplayWrites(cache, FoundAt(cache, scan.head, scan.seq))
    <2>1. Pwrite(ws) /\ UNCHANGED histVars /\ pc' = "replay"
      BY <1>4 DEF ReplayTxn
    <2>2. Harmless(ws)
      BY <1>1, <1>4, ReplayHarmless DEF ReplayTxn
    <2> HIDE DEF ws
    <2>3. ContentsKnown' /\ \A id : KnownId(id) => KnownId(id)'
      BY <1>a, <2>1, <2>2
    <2> QED
      BY <1>1, <1>b, <2>1, <2>3 DEF LogPhases
  <1>5. CASE ReplayEnd
    <2>1. UNCHANGED <<deviceVars, nextId, hasData>> /\ pc' \in {"replaySync", "idle"}
      BY <1>5 DEF ReplayEnd, Opened
    <2>2. \A b \in Blocks : KnownId(acked'[b])
      <3>1. Opened \/ acked' = acked
        BY <1>5 DEF ReplayEnd
      <3> QED
        BY <3>1, <1>1, OpenedKnown
    <2> QED
      BY <1>b, <1>c, <2>1, <2>2 DEF LogPhases
  <1>6. CASE ReplaySync
    <2>1. Sync /\ UNCHANGED histVars /\ pc' = "replayCheckpoint"
      BY <1>6 DEF ReplaySync
    <2> QED
      BY <1>1, <1>b, <1>d, <2>1 DEF LogPhases
  <1>7. CASE ReplayCheckpoint
    <2>1. Pwrite(SuperblockWrites(NextSuperblock)) /\ Opened /\ UNCHANGED <<nextId, hasData>> /\ pc' = "idle"
      BY <1>7 DEF ReplayCheckpoint, Opened
    <2>2. ContentsKnown' /\ \A id : KnownId(id) => KnownId(id)'
      BY <1>a, <2>1, SuperblockHarmless
    <2> QED
      BY <1>b, <2>1, <2>2, OpenedKnown DEF LogPhases
  <1>8. CASE Operation
    <2>1. PICK kind \in OpKinds, targets \in TargetLists : Begin(kind, targets)
      BY <1>8 DEF Operation
    <2> QED
      BY <2>1, BeginOrdered
  <1>9. CASE DataSync
    <2>1. Sync /\ UNCHANGED <<txn, histVars>> /\ pc = "dataSync" /\ pc' = "log"
      BY <1>9 DEF DataSync
    <2>2. ContentsKnown' /\ \A id : KnownId(id) => KnownId(id)'
      BY <1>d, <2>1
    <2>3. KnownId(txn.id)'
      <3>1. txn.id < nextId /\ cache[D(txn.id)] = FileData(txn.id)
        BY <2>1 DEF OrderedInv
      <3>2. Settled(txn.id)'
        BY <2>1, <3>1 DEF Settled, Sync
      <3> QED
        BY <2>1, <3>1, <3>2 DEF KnownId
    <2>4. \A b \in Blocks : KnownId(acked[b])'
      BY <1>1, <2>1, <2>2
    <2> QED
      BY <1>1, <2>1, <2>2, <2>3, <2>4 DEF OrderedInv
  <1>10. CASE Log
    <2>1. /\ Pwrite(JournalWrites(Position, sb.seq, txn)) /\ UNCHANGED <<txn, histVars>>
          /\ pc = "log" /\ pc' = "logSync"
      BY <1>10 DEF Log
    <2>2. KnownId(txn.id)
      BY <1>1, <2>1 DEF LogPhases
    <2>3. ContentsKnown' /\ \A id : KnownId(id) => KnownId(id)'
      BY <1>a, <2>1, <2>2, LogHarmless
    <2> QED
      BY <1>1, <1>b, <2>1, <2>2, <2>3
  <1>11. CASE LogSync \/ ApplySync
    <2>1. Sync /\ UNCHANGED <<txn, histVars>> /\ pc \in LogPhases /\ pc' \in {"apply", "checkpoint"}
      BY <1>11 DEF LogSync, ApplySync, LogPhases
    <2> QED
      BY <1>1, <1>b, <1>d, <2>1
  <1>12. CASE Apply
    <2>1. /\ Pwrite(ApplyWrites(txn)) /\ UNCHANGED <<txn, histVars>>
          /\ pc = "apply" /\ pc' = "applySync"
      BY <1>12 DEF Apply
    <2>2. KnownId(txn.id)
      BY <1>1, <2>1 DEF LogPhases
    <2>3. ContentsKnown' /\ \A id : KnownId(id) => KnownId(id)'
      BY <1>a, <2>1, <2>2, ApplyHarmless
    <2> QED
      BY <1>1, <1>b, <2>1, <2>2, <2>3
  <1>13. CASE Checkpoint
    <2>1. /\ Pwrite(SuperblockWrites(NextSuperblock)) /\ UNCHANGED <<nextId, hasData>>
          /\ acked' = AfterOp(txn) /\ pc = "checkpoint" /\ pc' = "idle"
      BY <1>13 DEF Checkpoint
    <2>2. ContentsKnown' /\ \A id : KnownId(id) => KnownId(id)'
      BY <1>a, <2>1, SuperblockHarmless
    <2>3. \A b \in Blocks : KnownId(acked'[b])
      BY <1>1, <2>1 DEF AfterOp, LogPhases
    <2> QED
      BY <1>b, <2>1, <2>2, <2>3 DEF LogPhases
  <1>14. CASE Fsync
    <2>1. Sync /\ UNCHANGED histVars /\ pc' = "idle"
      BY <1>14 DEF Fsync
    <2> QED
      BY <1>1, <1>b, <1>d, <2>1 DEF LogPhases
  <1>15. CASE PowerCut
    <2>1. pc' = "down" /\ UNCHANGED histVars
      BY <1>15, PowerCutFacts
    <2>2. ContentsKnown' /\ \A id : KnownId(id) => KnownId(id)'
      BY <1>1, <1>15, CutKnown
    <2> QED
      BY <1>1, <1>b, <2>1, <2>2 DEF LogPhases
  <1>16. CASE Kill
    <2>1. PICK done \in SUBSET DOMAIN Batch : Pwrite([l \in done |-> Batch[l]])
      BY <1>16 DEF Kill
    <2> DEFINE ws == [l \in done |-> Batch[l]]
    <2>2. Harmless(ws)
      BY BatchHarmless DEF Harmless
    <2> HIDE DEF ws
    <2>3. pc' = "down" /\ UNCHANGED histVars
      BY <1>16 DEF Kill, Down
    <2>4. ContentsKnown' /\ \A id : KnownId(id) => KnownId(id)'
      BY <1>a, <2>1, <2>2, <2>3 DEF ws
    <2> QED
      BY <1>1, <1>b, <2>3, <2>4 DEF LogPhases
  <1>17. CASE UNCHANGED vars
    <2>1. UNCHANGED <<deviceVars, nextId, hasData, acked, pc, txn>>
      BY <1>17 DEF vars
    <2>2. ContentsKnown' /\ \A id : KnownId(id) => KnownId(id)'
      BY <1>c, <2>1
    <2>3. /\ \A b \in Blocks : KnownId(acked[b])'
          /\ pc' \in LogPhases => KnownId(txn.id)'
      BY <1>1, <2>1, <2>2
    <2> QED
      BY <1>1, <2>1, <2>2, <2>3 DEF OrderedInv
  <1> QED
    BY <1>2, <1>3, <1>4, <1>5, <1>6, <1>7, <1>8, <1>9, <1>10, <1>11, <1>12, <1>13, <1>14,
       <1>15, <1>16, <1>17 DEF Next, Recover, CommitStep

(* Ordered mode: once open returns, no metadata block names an operation   *)
(* whose file data is not in its place, for every volume, every sequence   *)
(* of kernel updates and metadata operations, and every combination of     *)
(* power cuts, torn writes and kills.                                      *)
THEOREM OrderedHolds ==
  ASSUME "write" \notin OpKinds
  PROVE  Spec => []Ordered
  <1> DEFINE Inv == TypeOK /\ Committing /\ OrderedInv
  <1>1. Init => Inv
    BY InitTyped, InitOrdered
  <1>2. Inv /\ [Next]_vars => Inv'
    BY StepTyped, StepOrdered
  <1>3. Inv => Ordered
    BY DEF OrderedInv, Ordered, KnownId, Settled
  <1> QED
    BY <1>1, <1>2, <1>3, PTL DEF Spec
=============================================================================
