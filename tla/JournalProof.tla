---------------------------- MODULE JournalProof ----------------------------
(***************************************************************************)
(* Theorems about Journal, for every set of metadata blocks, every journal *)
(* length, every transaction size and every number of operations and       *)
(* faults.                                                                 *)
(***************************************************************************)
EXTENDS Journal, TLAPS

USE DEF deviceVars, memVars, histVars, faultVars

-----------------------------------------------------------------------------
(* Locations and contents *)

(* A target list is a non-empty sequence of at most MaxTargets blocks. *)
LEMMA TargetListFacts ==
  ASSUME NEW s \in TargetLists
  PROVE  /\ s \in Seq(Blocks)
         /\ Len(s) \in 1 .. MaxTargets
         /\ DOMAIN s = 1 .. Len(s)
         /\ \A i \in 1 .. Len(s) : s[i] \in Blocks
  <1>1. PICK n \in 1 .. MaxTargets : s \in [1 .. n -> Blocks]
    BY DEF TargetLists
  <1>2. n \in Nat
    BY LengthAssumption
  <1> QED
    BY <1>1, <1>2

(* The kind of a content tells which set it belongs to. *)
LEMMA KindFacts ==
  ASSUME NEW c \in Contents
  PROVE  /\ c.kind = "sb" => c \in SuperblockSet
         /\ c.kind = "desc" => c \in DescSet
  BY DEF Contents, SuperblockSet, ImageSet, DescSet, Torn, Zero

LEMMA ContentFacts ==
  /\ SuperblockSet \subseteq Contents
  /\ DescSet \subseteq Contents
  /\ \A b \in Blocks, id \in Nat : Image(b, id) \in Contents /\ Image(b, id) \in ImageSet
  /\ Torn \in Contents
  /\ Zero \in Contents
  /\ \A id \in Nat : FileData(id) \in Contents
  /\ \A seq \in Nat, d \in DescSet, bs \in Seq(ImageSet) : Commit(seq, <<d, bs>>) \in Contents
  BY DEF Contents, ImageSet, Image, FileData, Commit

LEMMA OverlayType ==
  ASSUME NEW img \in [Loc -> Contents],
         NEW ws, \A l \in DOMAIN ws : ws[l] \in Contents
  PROVE  Overlay(img, ws) \in [Loc -> Contents]
  BY DEF Overlay

(* A batch of well-typed writes leaves the device well typed. *)
LEMMA PwriteType ==
  ASSUME TypeOK,
         NEW ws, DOMAIN ws \subseteq Loc, \A l \in DOMAIN ws : ws[l] \in Contents,
         Pwrite(ws)
  PROVE  /\ durable' \in [Loc -> Contents]
         /\ cache' \in [Loc -> Contents]
         /\ pending' \subseteq Loc \X Contents
  <1>1. cache' \in [Loc -> Contents]
    BY OverlayType DEF Pwrite, TypeOK
  <1> QED
    BY <1>1 DEF Pwrite, TypeOK

LEMMA SyncType ==
  ASSUME TypeOK, Sync
  PROVE  /\ durable' \in [Loc -> Contents]
         /\ cache' \in [Loc -> Contents]
         /\ pending' \subseteq Loc \X Contents
  BY DEF TypeOK, Sync

(* Whatever lands in a power cut, and wherever it tears, is well typed. *)
LEMMA CutType ==
  ASSUME TypeOK, NEW S \in Landings, NEW T
  PROVE  AfterCut(S, T) \in [Loc -> Contents]
  <1>1. S \subseteq Loc \X Contents
    BY DEF Landings, TypeOK
  <1>2. ASSUME NEW l \in Loc, \E p \in S : p[1] = l
        PROVE  (CHOOSE p \in S : p[1] = l)[2] \in Contents
    BY <1>1, <1>2
  <1>3. DOMAIN durable = Loc /\ \A l \in Loc : durable[l] \in Contents
    BY DEF TypeOK
  <1> QED
    BY <1>2, <1>3, ContentFacts DEF AfterCut

-----------------------------------------------------------------------------
(* The batches of writes *)

LEMMA SuperblockWritesType ==
  ASSUME NEW s \in SuperblockSet
  PROVE  /\ DOMAIN SuperblockWrites(s) \subseteq Loc
         /\ \A l \in DOMAIN SuperblockWrites(s) : SuperblockWrites(s)[l] \in Contents
  BY ContentFacts DEF SuperblockWrites, Loc

LEMMA NextSuperblockType ==
  ASSUME TypeOK
  PROVE  NextSuperblock \in SuperblockSet
  BY DEF TypeOK, NextSuperblock, SuperblockSet

(* A logged transaction stays inside the journal and does not wrap. *)
LEMMA PositionType ==
  ASSUME TypeOK, txn \in TxnSet, Needed(txn.targets) <= JournalLength
  PROVE  /\ Position \in Heads
         /\ Position + Needed(txn.targets) <= JournalLength
         /\ Needed(txn.targets) = Len(txn.targets) + 2
         /\ Len(txn.targets) \in 1 .. MaxTargets
  <1>1. Len(txn.targets) \in 1 .. MaxTargets
    BY TargetListFacts DEF TxnSet
  <1>2. sb.head \in Heads
    BY DEF TypeOK, SuperblockSet
  <1> QED
    BY <1>1, <1>2, LengthAssumption DEF Position, LogPosition, Needed, Heads

LEMMA AdvanceType ==
  ASSUME NEW pos \in Nat, NEW n \in Nat
  PROVE  Advance(pos, n) \in Heads
  BY LengthAssumption DEF Advance, Heads

LEMMA JournalWritesType ==
  ASSUME NEW pos \in Heads, NEW seq \in Nat, NEW t \in TxnSet,
         pos + Needed(t.targets) <= JournalLength
  PROVE  /\ DOMAIN JournalWrites(pos, seq, t) \subseteq JournalArea
         /\ \A l \in DOMAIN JournalWrites(pos, seq, t) :
              JournalWrites(pos, seq, t)[l] \in Contents
  <1> DEFINE n == Len(t.targets)
             desc == Desc(seq, t.targets)
             blocks == [i \in 1 .. n |-> Image(t.targets[i], t.id)]
  <1>1. /\ t.targets \in TargetLists /\ t.id \in Nat
        /\ n \in 1 .. MaxTargets /\ n \in Nat
        /\ \A i \in 1 .. n : t.targets[i] \in Blocks
    BY TargetListFacts, LengthAssumption DEF TxnSet
  <1>2. desc \in DescSet /\ desc \in Contents
    BY <1>1, ContentFacts DEF Desc, DescSet
  <1>3. \A i \in 1 .. n : blocks[i] \in ImageSet /\ blocks[i] \in Contents
    BY <1>1, ContentFacts
  <1>4. blocks \in Seq(ImageSet)
    <2>1. blocks \in [1 .. n -> ImageSet]
      BY <1>3
    <2> HIDE DEF blocks
    <2> QED
      BY <1>1, <2>1
  <1>5. Commit(seq, <<desc, blocks>>) \in Contents
    BY <1>2, <1>4, ContentFacts
  <1>6. \A i \in 0 .. n + 1 : pos + i \in 0 .. JournalLength - 1
    BY <1>1, LengthAssumption DEF Heads, Needed
  <1>7. DOMAIN JournalWrites(pos, seq, t) = {J(pos + i) : i \in 0 .. n + 1}
    BY DEF JournalWrites
  <1>8. DOMAIN JournalWrites(pos, seq, t) \subseteq JournalArea
    BY <1>6, <1>7 DEF JournalArea
  <1>9. ASSUME NEW l \in DOMAIN JournalWrites(pos, seq, t)
        PROVE  JournalWrites(pos, seq, t)[l] \in Contents
    <2>1. PICK i \in 0 .. n + 1 : l = J(pos + i)
      BY <1>7
    <2>2. CASE i = 0
      BY <2>1, <2>2, <1>2, <1>7 DEF JournalWrites, Heads
    <2>3. CASE i = n + 1
      BY <2>1, <2>3, <1>2, <1>5, <1>7 DEF JournalWrites, Heads
    <2>4. CASE i \in 1 .. n
      <3>1. l # J(pos) /\ l # J(pos + n + 1) /\ l[2] - pos = i
        BY <2>1, <2>4, <1>1 DEF J, Heads
      <3>2. JournalWrites(pos, seq, t)[l] = blocks[i]
        BY <3>1, <1>7 DEF JournalWrites
      <3> QED
        BY <3>2, <2>4, <1>3
    <2> QED
      BY <2>2, <2>3, <2>4, <1>1
  <1> QED
    BY <1>8, <1>9

LEMMA ApplyWritesType ==
  ASSUME NEW t \in TxnSet
  PROVE  /\ DOMAIN ApplyWrites(t) \subseteq MetaArea
         /\ \A l \in DOMAIN ApplyWrites(t) : ApplyWrites(t)[l] \in Contents
  <1>1. t.id \in Nat /\ \A i \in DOMAIN t.targets : t.targets[i] \in Blocks
    BY TargetListFacts DEF TxnSet
  <1> QED
    BY <1>1, ContentFacts DEF ApplyWrites, MetaArea, M

(* What a valid transaction found at pos looks like. *)
LEMMA ValidTxnFacts ==
  ASSUME NEW img \in [Loc -> Contents], NEW pos \in Heads, NEW seq,
         ValidTxn(img, pos, seq)
  PROVE  /\ img[J(pos)] \in DescSet
         /\ img[J(pos)].seq = seq
         /\ Len(img[J(pos)].targets) \in 1 .. MaxTargets
         /\ pos + Len(img[J(pos)].targets) + 2 <= JournalLength
         /\ img[J(pos)].targets \in TargetLists
  <1>1. J(pos) \in Loc
    BY DEF Loc, JournalArea, Heads
  <1>2. img[J(pos)] \in DescSet
    BY <1>1, KindFacts DEF ValidTxn
  <1>3. img[J(pos)].targets \in TargetLists
    BY <1>2 DEF DescSet
  <1> QED
    BY <1>2, <1>3, TargetListFacts DEF ValidTxn

LEMMA ReplayWritesType ==
  ASSUME NEW img \in [Loc -> Contents], NEW pos \in Heads, NEW seq,
         ValidTxn(img, pos, seq)
  PROVE  /\ DOMAIN ReplayWrites(img, pos) \subseteq MetaArea
         /\ \A l \in DOMAIN ReplayWrites(img, pos) : ReplayWrites(img, pos)[l] \in Contents
         /\ \A l \in DOMAIN ReplayWrites(img, pos) :
              \E i \in 1 .. Len(img[J(pos)].targets) :
                 ReplayWrites(img, pos)[l] = img[J(pos + i)]
  <1> DEFINE targets == img[J(pos)].targets
  <1>1. /\ targets \in TargetLists
        /\ Len(targets) \in 1 .. MaxTargets
        /\ pos + Len(targets) + 2 <= JournalLength
        /\ DOMAIN targets = 1 .. Len(targets)
        /\ \A i \in 1 .. Len(targets) : targets[i] \in Blocks
    BY ValidTxnFacts, TargetListFacts
  <1>2. \A i \in 1 .. Len(targets) : J(pos + i) \in Loc
    BY <1>1, LengthAssumption DEF Loc, JournalArea, Heads
  <1>3. DOMAIN ReplayWrites(img, pos) = {M(targets[i]) : i \in DOMAIN targets}
    BY DEF ReplayWrites
  <1>4. ASSUME NEW l \in DOMAIN ReplayWrites(img, pos)
        PROVE  \E i \in 1 .. Len(targets) : ReplayWrites(img, pos)[l] = img[J(pos + i)]
    <2> DEFINE i == CHOOSE i \in DOMAIN targets : M(targets[i]) = l
    <2>1. i \in DOMAIN targets
      BY <1>3
    <2>2. ReplayWrites(img, pos)[l] = img[J(pos + i)]
      BY <1>3 DEF ReplayWrites
    <2> QED
      BY <2>1, <2>2, <1>1
  <1> QED
    BY <1>1, <1>2, <1>3, <1>4 DEF MetaArea

(* replay only looks where a transaction can be. *)
LEMMA FoundAtType ==
  ASSUME TypeOK, Found(cache, scan.head, scan.seq)
  PROVE  /\ FoundAt(cache, scan.head, scan.seq) \in Heads
         /\ ValidTxn(cache, FoundAt(cache, scan.head, scan.seq), scan.seq)
  BY LengthAssumption DEF TypeOK, Found, FoundAt, Heads

-----------------------------------------------------------------------------
(* Type correctness *)

(* While a commit is under way there is a transaction, and it fits.        *)
Committing ==
  pc \in {"dataSync", "log", "logSync", "apply", "applySync", "checkpoint"} =>
    txn \in TxnSet /\ Needed(txn.targets) <= JournalLength

LEMMA InitTyped == Init => TypeOK /\ Committing
  <1> SUFFICES ASSUME Init PROVE TypeOK /\ Committing
    OBVIOUS
  <1>1. 0 \in Heads
    BY LengthAssumption DEF Heads
  <1>2. \A g, q \in Nat : Superblock(g, 0, q) \in SuperblockSet
    BY <1>1 DEF Superblock, SuperblockSet
  <1>3. Superblock(1, 0, 1) \in Contents
    BY <1>2, ContentFacts
  <1>4. \A l \in MetaArea : l[2] \in Blocks
    BY DEF MetaArea, M
  <1>5. durable \in [Loc -> Contents]
    BY <1>3, <1>4, ContentFacts DEF Init
  <1>6. sb \in SuperblockSet
    BY <1>2 DEF Init, NoSuperblock
  <1> QED
    BY <1>1, <1>5, <1>6, BoundAssumption DEF Init, TypeOK, Committing, Phases, NoScan

(* Each step of the program and of the environment keeps every variable    *)
(* in its type and every transaction inside the journal.                   *)
LEMMA StepTyped ==
  ASSUME TypeOK, Committing, [Next]_vars
  PROVE  TypeOK' /\ Committing'
  <1> USE DEF Committing
  <1> DEFINE DeviceTyped == /\ durable \in [Loc -> Contents]
                            /\ cache \in [Loc -> Contents]
                            /\ pending \subseteq Loc \X Contents
  <1>a. 0 \in Heads /\ NoScan \in [head : Heads, seq : Nat, applied : Nat]
    BY LengthAssumption DEF Heads, NoScan
  <1>b. NoSuperblock \in SuperblockSet
    BY <1>a DEF NoSuperblock, Superblock, SuperblockSet
  <1>c. ASSUME NEW t \in TxnSet \cup {NoTxn}
        PROVE  AfterOp(t) \in [Blocks -> Nat]
    BY <1>c DEF AfterOp, TypeOK, TxnSet, NoTxn
  <1>d. ASSUME Pwrite(SuperblockWrites(NextSuperblock)) PROVE DeviceTyped'
    BY <1>d, NextSuperblockType, SuperblockWritesType, PwriteType
  <1>e. ASSUME Opened
        PROVE  /\ acked' \in [Blocks -> Nat] /\ lost' \subseteq TxnSet
               /\ txn' = NoTxn /\ scan' \in [head : Heads, seq : Nat, applied : Nat]
               /\ pc' = "idle"
    BY <1>a, <1>c, <1>e DEF Opened, TypeOK
  <1>1. CASE Open
    <2>1. Primary \in Loc /\ Backup \in Loc
      BY DEF Loc
    <2>2. cache[Primary].kind = "sb" => cache[Primary] \in SuperblockSet
      BY <2>1, KindFacts DEF TypeOK
    <2>3. cache[Backup].kind = "sb" => cache[Backup] \in SuperblockSet
      BY <2>1, KindFacts DEF TypeOK
    <2>4. sb' \in SuperblockSet
      BY <1>1, <2>2, <2>3 DEF Open, SuperblockFound, BackupReadable
    <2>5. scan' = [head |-> sb'.head, seq |-> sb'.seq, applied |-> 0]
      BY <1>1 DEF Open
    <2>6. scan' \in [head : Heads, seq : Nat, applied : Nat]
      BY <2>4, <2>5 DEF SuperblockSet
    <2>7. pc' \in {"heal", "replay"}
      BY <1>1 DEF Open
    <2> QED
      BY <1>1, <2>4, <2>6, <2>7 DEF Open, TypeOK, Phases
  <1>2. CASE Heal
    BY <1>2, <1>d, NextSuperblockType DEF Heal, TypeOK, Phases
  <1>3. CASE ReplayTxn
    <2> DEFINE pos == FoundAt(cache, scan.head, scan.seq)
               needed == Needed(cache[J(pos)].targets)
    <2>1. pos \in Heads /\ ValidTxn(cache, pos, scan.seq)
      BY <1>3, FoundAtType DEF ReplayTxn
    <2>2. cache \in [Loc -> Contents] /\ MetaArea \subseteq Loc
      BY DEF TypeOK, Loc
    <2>3. DeviceTyped'
      BY <1>3, <2>1, <2>2, ReplayWritesType, PwriteType DEF ReplayTxn
    <2>4. needed \in Nat /\ pos \in Nat
      BY <2>1, <2>2, ValidTxnFacts, LengthAssumption DEF Needed, Heads
    <2>5. Advance(pos, needed) \in Heads
      BY <2>4, AdvanceType
    <2>6. scan' \in [head : Heads, seq : Nat, applied : Nat]
      BY <1>3, <2>5 DEF ReplayTxn, TypeOK
    <2> QED
      BY <1>3, <2>3, <2>6 DEF ReplayTxn, TypeOK
  <1>4. CASE ReplayEnd
    <2>1. CASE scan.applied > 0
      BY <1>4, <2>1 DEF ReplayEnd, TypeOK, Phases
    <2>2. CASE ~(scan.applied > 0)
      BY <1>4, <2>2, <1>e DEF ReplayEnd, TypeOK, Phases
    <2> QED
      BY <2>1, <2>2
  <1>5. CASE ReplaySync
    <2>1. sb' \in SuperblockSet
      BY <1>5 DEF ReplaySync, TypeOK, SuperblockSet
    <2> QED
      BY <1>5, <2>1, SyncType DEF ReplaySync, TypeOK, Phases
  <1>6. CASE ReplayCheckpoint
    BY <1>6, <1>d, <1>e, NextSuperblockType DEF ReplayCheckpoint, TypeOK, Phases
  <1>7. CASE Operation
    <2>1. PICK kind \in OpKinds, targets \in TargetLists : Begin(kind, targets)
      BY <1>7 DEF Operation
    <2>2. txn' \in TxnSet /\ Needed(txn'.targets) <= JournalLength
      BY <2>1 DEF Begin, TxnSet, TypeOK
    <2>3. DeviceTyped'
      <3>1. D(nextId) \in Loc /\ nextId \in Nat
        BY <2>1, BoundAssumption DEF Begin, TypeOK, Loc, DataArea, Ids
      <3>2. FileData(nextId) \in Contents
        BY <3>1, ContentFacts
      <3>3. CASE kind = "metadata"
        BY <2>1, <3>3 DEF Begin, TypeOK
      <3>4. CASE kind # "metadata"
        <4> DEFINE ws == [l \in {D(nextId)} |-> FileData(nextId)]
        <4>1. DOMAIN ws \subseteq Loc /\ \A l \in DOMAIN ws : ws[l] \in Contents
          BY <3>1, <3>2
        <4>2. Pwrite(ws)
          BY <2>1, <3>4 DEF Begin
        <4> HIDE DEF ws
        <4> QED
          BY <4>1, <4>2, PwriteType
      <3> QED
        BY <3>3, <3>4
    <2>4. pc' \in {"dataSync", "log"}
      BY <2>1 DEF Begin
    <2>5. nextId' \in Nat \ {0} /\ hasData' \subseteq Nat
      <3>1. nextId \in Nat \ {0} /\ hasData \subseteq Nat /\ nextId' = nextId + 1
        BY <2>1 DEF Begin, TypeOK
      <3>2. hasData' = hasData \/ hasData' = hasData \cup {nextId}
        BY <2>1 DEF Begin
      <3>3. hasData' \subseteq Nat
        BY <3>1, <3>2
      <3>4. nextId + 1 \in Nat \ {0}
        BY <3>1
      <3> QED
        BY <3>1, <3>3, <3>4
    <2> QED
      BY <2>1, <2>2, <2>3, <2>4, <2>5 DEF Begin, TypeOK, Phases
  <1>8. CASE DataSync
    <2>1. txn.id \in Nat
      BY <1>8 DEF DataSync, TxnSet
    <2>2. sb' \in SuperblockSet
      BY <1>8, <2>1 DEF DataSync, TypeOK, SuperblockSet
    <2> QED
      BY <1>8, <2>2, SyncType DEF DataSync, TypeOK, Phases
  <1>9. CASE Log
    <2>1. /\ txn \in TxnSet /\ Needed(txn.targets) <= JournalLength
          /\ sb.seq \in Nat /\ JournalArea \subseteq Loc
      BY <1>9 DEF Log, TypeOK, SuperblockSet, Loc
    <2>2. DeviceTyped'
      BY <1>9, <2>1, PositionType, JournalWritesType, PwriteType DEF Log
    <2> QED
      BY <1>9, <2>2 DEF Log, TypeOK, Phases
  <1>10. CASE LogSync
    BY <1>10, SyncType DEF LogSync, TypeOK, Phases
  <1>11. CASE Apply
    <2>1. txn \in TxnSet /\ MetaArea \subseteq Loc
      BY <1>11 DEF Apply, Loc
    <2>2. DeviceTyped'
      BY <1>11, <2>1, ApplyWritesType, PwriteType DEF Apply
    <2> QED
      BY <1>11, <2>2 DEF Apply, TypeOK, Phases
  <1>12. CASE ApplySync
    <2>1. txn \in TxnSet /\ Needed(txn.targets) <= JournalLength
      BY <1>12 DEF ApplySync
    <2>2. Position \in Nat /\ Needed(txn.targets) \in Nat
      BY <2>1, PositionType, LengthAssumption DEF Heads
    <2>3. Advance(Position, Needed(txn.targets)) \in Heads
      BY <2>2, AdvanceType
    <2>4. sb' \in SuperblockSet
      <3> DEFINE head == Advance(Position, Needed(txn.targets))
      <3>1. sb' = [sb EXCEPT !.head = head, !.seq = @ + 1] /\ sb \in SuperblockSet
        BY <1>12 DEF ApplySync, TypeOK
      <3> HIDE DEF head
      <3>2. head \in Heads
        BY <2>3 DEF head
      <3>3. /\ sb.kind = "sb" /\ sb.gen \in Nat /\ sb.seq + 1 \in Nat
            /\ sb.kernelEnd \in Nat
        BY <3>1 DEF SuperblockSet
      <3>4. sb' = [kind |-> sb.kind, gen |-> sb.gen, head |-> head, seq |-> sb.seq + 1,
                   kernelEnd |-> sb.kernelEnd]
        BY <3>1 DEF SuperblockSet
      <3> QED
        BY <3>2, <3>3, <3>4 DEF SuperblockSet
    <2> QED
      BY <1>12, <2>4, SyncType DEF ApplySync, TypeOK, Phases
  <1>13. CASE Checkpoint
    BY <1>13, <1>c, <1>d, NextSuperblockType DEF Checkpoint, TypeOK, Phases
  <1>14. CASE Fsync
    BY <1>14, SyncType DEF Fsync, TypeOK
  <1>15. CASE PowerCut
    <2>1. PICK S \in Landings :
             \/ CutTo(AfterCut(S, {})) /\ UNCHANGED torn
             \/ /\ torn < MaxTorn
                /\ \E p \in S : CutTo(AfterCut(S, {p[1]}))
                /\ torn' = torn + 1
      BY <1>15 DEF PowerCut
    <2>2. DeviceTyped'
      BY <2>1, CutType DEF CutTo
    <2>3. torn' \in 0 .. MaxTorn /\ cuts' \in 0 .. MaxCuts
      BY <1>15, <2>1, BoundAssumption DEF PowerCut, TypeOK
    <2> QED
      BY <1>15, <1>a, <1>b, <2>2, <2>3 DEF PowerCut, Down, TypeOK, Phases
  <1>16. CASE Kill
    <2>1. PICK done \in SUBSET DOMAIN Batch : Pwrite([l \in done |-> Batch[l]])
      BY <1>16 DEF Kill
    <2>2. /\ DOMAIN Batch \subseteq Loc
          /\ \A l \in DOMAIN Batch : Batch[l] \in Contents
      <3>0. JournalArea \subseteq Loc /\ MetaArea \subseteq Loc
        BY DEF Loc
      <3>1. CASE pc \in {"heal", "checkpoint", "replayCheckpoint"}
        <4>1. Batch = SuperblockWrites(NextSuperblock)
          BY <3>1 DEF Batch
        <4> QED
          BY <4>1, NextSuperblockType, SuperblockWritesType
      <3>2. CASE pc = "log"
        <4>1. Batch = JournalWrites(Position, sb.seq, txn)
          BY <3>2 DEF Batch
        <4>2. /\ txn \in TxnSet /\ Needed(txn.targets) <= JournalLength
              /\ sb.seq \in Nat
          BY <3>2 DEF TypeOK, SuperblockSet
        <4> QED
          BY <4>1, <4>2, <3>0, PositionType, JournalWritesType
      <3>3. CASE pc = "apply"
        <4>1. Batch = ApplyWrites(txn) /\ txn \in TxnSet
          BY <3>3 DEF Batch
        <4> QED
          BY <4>1, <3>0, ApplyWritesType
      <3>4. CASE pc = "replay" /\ Found(cache, scan.head, scan.seq)
        <4>1. Batch = ReplayWrites(cache, FoundAt(cache, scan.head, scan.seq))
          BY <3>4 DEF Batch
        <4>2. cache \in [Loc -> Contents]
          BY DEF TypeOK
        <4> QED
          BY <4>1, <4>2, <3>0, <3>4, FoundAtType, ReplayWritesType
      <3>5. CASE ~ \/ pc \in {"heal", "checkpoint", "replayCheckpoint", "log", "apply"}
                   \/ pc = "replay" /\ Found(cache, scan.head, scan.seq)
        <4>1. Batch = <<>>
          BY <3>5 DEF Batch
        <4> QED
          BY <4>1
      <3> QED
        BY <3>1, <3>2, <3>3, <3>4, <3>5
    <2>3. DeviceTyped'
      <3> DEFINE ws == [l \in done |-> Batch[l]]
      <3>1. DOMAIN ws \subseteq Loc /\ \A l \in DOMAIN ws : ws[l] \in Contents
        BY <2>2
      <3>2. Pwrite(ws)
        BY <2>1
      <3> HIDE DEF ws
      <3> QED
        BY <3>1, <3>2, PwriteType
    <2>4. kills' \in 0 .. MaxKills
      BY <1>16, BoundAssumption DEF Kill, TypeOK
    <2> QED
      BY <1>16, <1>a, <1>b, <2>3, <2>4 DEF Kill, Down, TypeOK, Phases
  <1>17. CASE UNCHANGED vars
    BY <1>17 DEF vars, TypeOK
  <1> QED
    BY <1>1, <1>2, <1>3, <1>4, <1>5, <1>6, <1>7, <1>8, <1>9, <1>10, <1>11,
       <1>12, <1>13, <1>14, <1>15, <1>16, <1>17
    DEF Next, Recover, CommitStep

(* Type correctness: in particular a commit never writes outside the       *)
(* journal and never splits a transaction across its end, and replay never *)
(* reads or writes outside the volume, whatever the faults left behind.    *)
THEOREM TypeCorrect == Spec => []TypeOK
  <1>1. TypeOK /\ Committing /\ [Next]_vars => TypeOK' /\ Committing'
    BY StepTyped
  <1> QED
    BY InitTyped, <1>1, PTL DEF Spec

-----------------------------------------------------------------------------
(* Write-ahead.  A kill has to be excluded: it leaves records in the page  *)
(* cache that were never synced, and replay applies them.                  *)

-----------------------------------------------------------------------------
(* What a batch of writes changes *)

LEMMA PwriteFacts ==
  ASSUME NEW ws, Pwrite(ws)
  PROVE  /\ durable' = durable
         /\ \A p \in pending' : p \in pending \/ (p[1] \in DOMAIN ws /\ p[2] = ws[p[1]])
         /\ \A l \in DOMAIN cache : l \notin DOMAIN ws => cache'[l] = cache[l]
         /\ \A l \in DOMAIN cache : l \in DOMAIN ws => cache'[l] = ws[l]
  <1>1. \A p \in pending' : p \in pending \/ (p[1] \in DOMAIN ws /\ p[2] = ws[p[1]])
    <2> SUFFICES ASSUME NEW p \in pending', p \notin pending
                 PROVE  p[1] \in DOMAIN ws /\ p[2] = ws[p[1]]
      OBVIOUS
    <2>1. p \in {<<l, ws[l]>> : l \in DOMAIN ws}
      BY DEF Pwrite
    <2> QED
      BY <2>1
  <1> QED
    BY <1>1 DEF Pwrite, Overlay

(* A power cut keeps what no write was under way for. *)
LEMMA CutFacts ==
  ASSUME TypeOK, NEW S \in Landings, NEW T, T = {} \/ \E p \in S : T = {p[1]}
  PROVE  \A l \in Loc :
           \/ AfterCut(S, T)[l] = durable[l]
           \/ \E p \in pending : p[1] = l /\ AfterCut(S, T)[l] \in {p[2], Torn}
  <1>1. S \subseteq pending /\ DOMAIN durable = Loc
    BY DEF Landings, TypeOK
  <1> SUFFICES ASSUME NEW l \in Loc
               PROVE  \/ AfterCut(S, T)[l] = durable[l]
                      \/ \E p \in pending : p[1] = l /\ AfterCut(S, T)[l] \in {p[2], Torn}
    OBVIOUS
  <1>2. CASE l \in T
    BY <1>1, <1>2 DEF AfterCut
  <1>3. CASE l \notin T /\ \E p \in S : p[1] = l
    <2> DEFINE q == CHOOSE p \in S : p[1] = l
    <2>1. q \in S /\ q[1] = l
      BY <1>3
    <2>2. AfterCut(S, T)[l] = q[2]
      BY <1>1, <1>3 DEF AfterCut
    <2> QED
      BY <2>1, <2>2, <1>1
  <1>4. CASE l \notin T /\ ~\E p \in S : p[1] = l
    BY <1>1, <1>4 DEF AfterCut
  <1> QED
    BY <1>2, <1>3, <1>4

(* The medium after a power cut, as PowerCut leaves it. *)
LEMMA PowerCutFacts ==
  ASSUME TypeOK, PowerCut
  PROVE  /\ cache' = durable' /\ pending' = {} /\ pc' = "down"
         /\ UNCHANGED <<txn, histVars, kills>>
         /\ \A l \in Loc :
              \/ durable'[l] = durable[l]
              \/ \E p \in pending : p[1] = l /\ durable'[l] \in {p[2], Torn}
  <1>1. PICK S \in Landings :
          \/ CutTo(AfterCut(S, {}))
          \/ \E p \in S : CutTo(AfterCut(S, {p[1]}))
    BY DEF PowerCut
  <1>2. PICK T : (T = {} \/ \E p \in S : T = {p[1]}) /\ CutTo(AfterCut(S, T))
    BY <1>1
  <1>3. durable' = AfterCut(S, T) /\ cache' = durable' /\ pending' = {}
    BY <1>2 DEF CutTo
  <1> QED
    BY <1>2, <1>3, CutFacts DEF PowerCut, Down

(* Write-ahead can only be broken by a batch that writes metadata blocks   *)
(* the journal does not hold.                                              *)
LEMMA WriteAheadKept ==
  ASSUME InPlaceJournaled, NEW ws, Pwrite(ws),
         \A l \in DOMAIN ws : l \in MetaArea => Journaled(durable, <<l, ws[l]>>)
  PROVE  InPlaceJournaled'
  <1> SUFFICES ASSUME NEW p \in pending', p[1] \in MetaArea
               PROVE  Journaled(durable, p)
    BY PwriteFacts DEF InPlaceJournaled
  <1>1. CASE p \in pending
    BY <1>1 DEF InPlaceJournaled
  <1>2. CASE p \notin pending
    <2>1. p[1] \in DOMAIN ws /\ p[2] = ws[p[1]]
      BY <1>2, PwriteFacts
    <2>2. Journaled(durable, <<p[1], ws[p[1]]>>)
      BY <2>1
    <2> QED
      BY <2>1, <2>2 DEF Journaled
  <1> QED
    BY <1>1, <1>2

(* The areas of the volume do not overlap. *)
LEMMA Disjoint ==
  /\ \A i, b, id : J(i) # M(b) /\ J(i) # D(id) /\ M(b) # D(id)
  /\ Primary \notin JournalArea \cup MetaArea \cup DataArea
  /\ Backup \notin JournalArea \cup MetaArea \cup DataArea
  /\ JournalArea \cap MetaArea = {}
  /\ DataArea \cap (JournalArea \cup MetaArea) = {}
  BY DEF J, M, D, Primary, Backup, JournalArea, MetaArea, DataArea

-----------------------------------------------------------------------------
(* The journal and what it holds *)

(* Two images with the same journal hold the same transactions. *)
LEMMA SameJournal ==
  ASSUME NEW img \in [Loc -> Contents], NEW other \in [Loc -> Contents],
         \A l \in JournalArea : other[l] = img[l],
         NEW pos \in Heads, NEW seq, ValidTxn(img, pos, seq)
  PROVE  /\ ValidTxn(other, pos, seq)
         /\ ReplayWrites(other, pos) = ReplayWrites(img, pos)
         /\ other[J(pos)] = img[J(pos)]
  <1> DEFINE targets == img[J(pos)].targets
             n == Len(targets)
  <1>1. /\ n \in 1 .. MaxTargets /\ n \in Nat
        /\ pos + n + 2 <= JournalLength
        /\ DOMAIN targets = 1 .. n
    BY ValidTxnFacts, TargetListFacts, LengthAssumption
  <1>2. \A i \in 0 .. n + 1 : pos + i \in 0 .. JournalLength - 1
    BY <1>1, LengthAssumption DEF Heads
  <1>3. \A i \in 0 .. n + 1 : other[J(pos + i)] = img[J(pos + i)]
    BY <1>2 DEF JournalArea
  <1>4. other[J(pos)] = img[J(pos)]
    BY DEF JournalArea, Heads
  <1>5. other[J(pos + n + 1)] = img[J(pos + n + 1)]
    <2>1. n + 1 \in 0 .. n + 1 /\ pos + (n + 1) = pos + n + 1
      BY <1>1 DEF Heads
    <2> QED
      BY <2>1, <1>2 DEF JournalArea
  <1>6. [i \in 1 .. n |-> other[J(pos + i)]] = [i \in 1 .. n |-> img[J(pos + i)]]
    BY <1>1, <1>3
  <1>7. ReplayWrites(other, pos) = ReplayWrites(img, pos)
    <2> DEFINE at(l) == CHOOSE i \in DOMAIN targets : M(targets[i]) = l
    <2>1. \A l \in {M(targets[i]) : i \in DOMAIN targets} :
             other[J(pos + at(l))] = img[J(pos + at(l))]
      <3> SUFFICES ASSUME NEW l \in {M(targets[i]) : i \in DOMAIN targets}
                   PROVE  other[J(pos + at(l))] = img[J(pos + at(l))]
        OBVIOUS
      <3>1. at(l) \in 1 .. n
        BY <1>1
      <3> QED
        BY <3>1, <1>1, <1>3
    <2> QED
      BY <2>1, <1>4 DEF ReplayWrites
  <1> QED
    BY <1>4, <1>5, <1>6, <1>7 DEF ValidTxn

(* An image that holds the record of a transaction has it as a valid one,  *)
(* and replaying it is applying it.                                        *)
LEMMA LoggedTxn ==
  ASSUME NEW img \in [Loc -> Contents],
         NEW pos \in Heads, NEW seq \in Nat, NEW t \in TxnSet,
         pos + Needed(t.targets) <= JournalLength,
         \A l \in DOMAIN JournalWrites(pos, seq, t) : img[l] = JournalWrites(pos, seq, t)[l]
  PROVE  /\ ValidTxn(img, pos, seq)
         /\ img[J(pos)] = Desc(seq, t.targets)
         /\ ReplayWrites(img, pos) = ApplyWrites(t)
  <1> DEFINE n == Len(t.targets)
             desc == Desc(seq, t.targets)
             blocks == [i \in 1 .. n |-> Image(t.targets[i], t.id)]
  <1>1. /\ t.targets \in TargetLists
        /\ n \in 1 .. MaxTargets /\ n \in Nat
        /\ DOMAIN t.targets = 1 .. n
        /\ pos \in Nat
    BY TargetListFacts, LengthAssumption DEF TxnSet, Heads
  <1>2. DOMAIN JournalWrites(pos, seq, t) = {J(pos + i) : i \in 0 .. n + 1}
    BY DEF JournalWrites
  <1>3. img[J(pos)] = desc
    <2>1. J(pos) \in DOMAIN JournalWrites(pos, seq, t)
      <3>1. 0 \in 0 .. n + 1 /\ pos + 0 = pos
        BY <1>1
      <3> QED
        BY <3>1, <1>2
    <2> QED
      BY <2>1, <1>2 DEF JournalWrites
  <1>4. img[J(pos + n + 1)] = Commit(seq, <<desc, blocks>>)
    <2>1. J(pos + n + 1) \in DOMAIN JournalWrites(pos, seq, t)
      <3>1. n + 1 \in 0 .. n + 1 /\ pos + (n + 1) = pos + n + 1
        BY <1>1
      <3> QED
        BY <3>1, <1>2
    <2>2. J(pos + n + 1) # J(pos)
      BY <1>1 DEF J
    <2> QED
      BY <2>1, <2>2, <1>2 DEF JournalWrites
  <1>5. \A i \in 1 .. n : img[J(pos + i)] = blocks[i]
    <2> SUFFICES ASSUME NEW i \in 1 .. n PROVE img[J(pos + i)] = blocks[i]
      OBVIOUS
    <2>1. J(pos + i) \in DOMAIN JournalWrites(pos, seq, t)
      BY <1>1, <1>2
    <2>2. J(pos + i) # J(pos) /\ J(pos + i) # J(pos + n + 1) /\ J(pos + i)[2] - pos = i
      BY <1>1 DEF J
    <2>3. JournalWrites(pos, seq, t)[J(pos + i)] = blocks[i]
      BY <2>1, <2>2, <1>2 DEF JournalWrites
    <2> QED
      BY <2>1, <2>3
  <1>6. ValidTxn(img, pos, seq)
    <2>1. desc.kind = "desc" /\ desc.seq = seq /\ desc.targets = t.targets
      BY DEF Desc
    <2>2. [i \in 1 .. n |-> img[J(pos + i)]] = blocks
      BY <1>5
    <2>3. pos + 2 <= JournalLength /\ n # 0 /\ n <= MaxTargets /\ pos + n + 2 <= JournalLength
      BY <1>1, LengthAssumption DEF Needed
    <2> HIDE DEF desc, blocks
    <2>4. /\ Commit(seq, <<desc, blocks>>).kind = "commit"
          /\ Commit(seq, <<desc, blocks>>).seq = seq
          /\ Commit(seq, <<desc, blocks>>).sum = <<desc, blocks>>
      BY DEF Commit
    <2> QED
      BY <1>3, <1>4, <2>1, <2>2, <2>3, <2>4 DEF ValidTxn
  <1>7. ReplayWrites(img, pos) = ApplyWrites(t)
    <2>1. img[J(pos)].targets = t.targets
      BY <1>3 DEF Desc
    <2> DEFINE at(l) == CHOOSE i \in DOMAIN t.targets : M(t.targets[i]) = l
    <2>2. \A l \in {M(t.targets[i]) : i \in DOMAIN t.targets} :
             img[J(pos + at(l))] = Image(l[2], t.id)
      <3> SUFFICES ASSUME NEW l \in {M(t.targets[i]) : i \in DOMAIN t.targets}
                   PROVE  img[J(pos + at(l))] = Image(l[2], t.id)
        OBVIOUS
      <3>1. at(l) \in 1 .. n /\ M(t.targets[at(l)]) = l
        BY <1>1
      <3>2. t.targets[at(l)] = l[2]
        BY <3>1 DEF M
      <3> QED
        BY <3>1, <3>2, <1>5
    <2> QED
      BY <2>1, <2>2 DEF ReplayWrites, ApplyWrites
  <1> QED
    BY <1>3, <1>6, <1>7

(* Every write of a batch that replays a valid transaction, or that        *)
(* applies a logged one, is a journaled one.                               *)
LEMMA ReplayedIsJournaled ==
  ASSUME NEW img \in [Loc -> Contents], NEW pos \in Heads, NEW seq,
         ValidTxn(img, pos, seq), seq >= RecoverySuperblock(img).seq,
         NEW l \in DOMAIN ReplayWrites(img, pos)
  PROVE  Journaled(img, <<l, ReplayWrites(img, pos)[l]>>)
  <1>1. img[J(pos)].kind = "desc" /\ img[J(pos)].seq = seq
    BY DEF ValidTxn
  <1> QED
    BY <1>1 DEF Journaled

-----------------------------------------------------------------------------
(* The inductive invariant *)

IInv == TypeOK /\ Committing /\ WriteAheadInv

LEMMA InitWriteAhead == Init => IInv
  <1> SUFFICES ASSUME Init PROVE WriteAheadInv
    BY InitTyped DEF IInv
  <1> QED
    BY DEF Init, WriteAheadInv, InPlaceJournaled, DownInv, RecoveryInv, PrimaryInv, LoggedInv

LEMMA RecoverySuperblockType ==
  ASSUME NEW img \in [Loc -> Contents], RecoverySuperblock(img).kind = "sb"
  PROVE  RecoverySuperblock(img) \in SuperblockSet
  <1>1. img[Primary] \in Contents /\ img[Backup] \in Contents
    BY DEF Loc
  <1> QED
    BY <1>1, KindFacts DEF RecoverySuperblock

(* A batch outside the metadata area keeps write-ahead. *)
LEMMA OutsideMeta ==
  ASSUME InPlaceJournaled, NEW ws, Pwrite(ws), DOMAIN ws \cap MetaArea = {}
  PROVE  InPlaceJournaled'
  BY WriteAheadKept

LEMMA SuperblockOutside ==
  ASSUME NEW s
  PROVE  /\ DOMAIN SuperblockWrites(s) = {Primary, Backup}
         /\ SuperblockWrites(s)[Primary] = s
         /\ DOMAIN SuperblockWrites(s) \cap (MetaArea \cup JournalArea) = {}
  BY Disjoint DEF SuperblockWrites

(* Only a kill counts as one. *)
LEMMA KillsCounted ==
  ASSUME TypeOK, [Next]_vars, kills' = 0
  PROVE  kills = 0 /\ ~Kill
  <1>1. kills' = kills \/ kills' = kills + 1
    BY DEF Next, vars, Recover, Open, Heal, ReplayTxn, ReplayEnd, ReplaySync,
      ReplayCheckpoint, CommitStep, DataSync, Log, LogSync, Apply, ApplySync, Checkpoint,
      Operation, Begin, Fsync, PowerCut, Kill
  <1>2. kills \in Nat
    BY BoundAssumption DEF TypeOK
  <1> QED
    BY <1>1, <1>2 DEF Kill

(* Until the first kill, every step keeps the invariant. *)
LEMMA StepWriteAhead ==
  ASSUME IInv, [Next]_vars
  PROVE  IInv'
  <1>1. TypeOK /\ Committing /\ TypeOK' /\ Committing'
    BY StepTyped DEF IInv
  <1> SUFFICES ASSUME kills' = 0
               PROVE  /\ InPlaceJournaled' /\ DownInv' /\ RecoveryInv'
                      /\ PrimaryInv' /\ LoggedInv'
    BY <1>1 DEF IInv, WriteAheadInv
  <1>0. kills = 0 /\ ~Kill
    BY <1>1, KillsCounted
  <1>2. InPlaceJournaled /\ DownInv /\ RecoveryInv /\ PrimaryInv /\ LoggedInv
    BY <1>0 DEF IInv, WriteAheadInv
  <1>3. cache \in [Loc -> Contents] /\ durable \in [Loc -> Contents] /\ Primary \in Loc
    BY <1>1 DEF TypeOK, Loc
  <1>a. CASE Open
    <2>1. cache = durable /\ durable' = durable /\ cache' = cache /\ pending' = pending
      BY <1>2, <1>a DEF Open, DownInv
    <2>2. sb' = RecoverySuperblock(durable) /\ scan'.seq = sb'.seq
      BY <1>a, <2>1 DEF Open, RecoverySuperblock
    <2>3. pc' \in {"heal", "replay"} /\ (pc' = "replay" => cache[Primary].kind = "sb")
      BY <1>a DEF Open
    <2>4. InPlaceJournaled'
      BY <1>2, <2>1 DEF InPlaceJournaled
    <2>5. scan'.seq \in Nat
      BY <1>1 DEF TypeOK
    <2>6. RecoveryInv'
      <3>1. RecoverySuperblock(durable).kind = "sb"
        BY <1>a, <2>1 DEF Open, SuperblockFound, BackupReadable, RecoverySuperblock
      <3> QED
        BY <2>1, <2>2, <2>5, <3>1 DEF RecoveryInv, RecoverySuperblock
    <2>7. PrimaryInv'
      BY <2>1, <2>2, <2>3 DEF PrimaryInv, PrimaryCurrent, RecoverySuperblock
    <2> QED
      BY <2>3, <2>4, <2>6, <2>7 DEF DownInv, LoggedInv
  <1>b. CASE Heal
    <2>1. Pwrite(SuperblockWrites(NextSuperblock)) /\ sb' = NextSuperblock
          /\ pc = "heal" /\ pc' = "replay" /\ scan' = scan
      BY <1>b DEF Heal
    <2>2. InPlaceJournaled'
      BY <1>2, <2>1, OutsideMeta, SuperblockOutside
    <2>3. RecoveryInv'
      <3>1. \A l \in JournalArea : cache'[l] = cache[l]
        BY <1>3, <2>1, SuperblockOutside, PwriteFacts DEF Loc
      <3> QED
        BY <1>2, <2>1, <3>1, PwriteFacts DEF RecoveryInv, RecoverySuperblock
    <2>4. PrimaryInv'
      <3>1. cache'[Primary] = NextSuperblock
        BY <1>3, <2>1, SuperblockOutside, PwriteFacts
      <3>2. NextSuperblock.kind = "sb"
        BY <1>1, NextSuperblockType DEF SuperblockSet
      <3> QED
        BY <2>1, <3>1, <3>2 DEF PrimaryInv, PrimaryCurrent
    <2> QED
      BY <2>1, <2>2, <2>3, <2>4 DEF DownInv, LoggedInv
  <1>c. CASE ReplayTxn
    <2> DEFINE pos == FoundAt(cache, scan.head, scan.seq)
               ws == ReplayWrites(cache, pos)
    <2>1. /\ Pwrite(ws) /\ pc = "replay" /\ pc' = "replay" /\ sb' = sb
          /\ scan'.seq = scan.seq + 1
      BY <1>c DEF ReplayTxn
    <2>2. pos \in Heads /\ ValidTxn(cache, pos, scan.seq)
      BY <1>1, <1>c, FoundAtType DEF ReplayTxn
    <2>3. DOMAIN ws \subseteq MetaArea
      BY <1>3, <2>2, ReplayWritesType
    <2>4. /\ \A l \in JournalArea : durable[l] = cache[l]
          /\ RecoverySuperblock(durable).kind = "sb"
          /\ scan.seq >= RecoverySuperblock(durable).seq
      BY <1>2, <2>1 DEF RecoveryInv
    <2>5. ValidTxn(durable, pos, scan.seq) /\ ReplayWrites(durable, pos) = ws
      BY <1>3, <2>2, <2>4, SameJournal
    <2>6. \A l \in DOMAIN ws : Journaled(durable, <<l, ws[l]>>)
      BY <1>3, <2>2, <2>4, <2>5, ReplayedIsJournaled
    <2> HIDE DEF ws
    <2>7. InPlaceJournaled'
      BY <1>2, <2>1, <2>6, WriteAheadKept
    <2>8. \A l \in JournalArea \cup {Primary} : cache'[l] = cache[l]
      BY <1>3, <2>1, <2>3, PwriteFacts, Disjoint DEF Loc
    <2>9. RecoveryInv'
      <3>1. scan.seq \in Nat
        BY <1>1 DEF TypeOK
      <3>2. RecoverySuperblock(durable)' = RecoverySuperblock(durable)
        BY <2>1, PwriteFacts DEF RecoverySuperblock
      <3>3. RecoverySuperblock(durable).seq \in Nat
        BY <1>3, <2>4, RecoverySuperblockType DEF SuperblockSet
      <3> QED
        BY <2>1, <2>4, <2>8, <3>1, <3>2, <3>3, PwriteFacts DEF RecoveryInv
    <2>10. PrimaryInv'
      BY <1>2, <2>1, <2>8 DEF PrimaryInv, PrimaryCurrent
    <2> QED
      BY <2>1, <2>7, <2>9, <2>10 DEF DownInv, LoggedInv
  <1>d. CASE ReplayEnd
    <2>1. /\ UNCHANGED <<deviceVars, sb>> /\ pc = "replay"
          /\ pc' \in {"replaySync", "idle"}
      BY <1>d DEF ReplayEnd, Opened
    <2> QED
      BY <1>2, <2>1
      DEF InPlaceJournaled, DownInv, RecoveryInv, PrimaryInv, PrimaryCurrent, LoggedInv
  <1>e. CASE ReplaySync
    BY <1>e DEF ReplaySync, Sync, InPlaceJournaled, DownInv, RecoveryInv, PrimaryInv, LoggedInv
  <1>f. CASE ReplayCheckpoint \/ Checkpoint
    <2>1. /\ Pwrite(SuperblockWrites(NextSuperblock)) /\ sb' = NextSuperblock
          /\ pc' = "idle"
      BY <1>f DEF ReplayCheckpoint, Checkpoint, Opened
    <2>2. InPlaceJournaled'
      BY <1>2, <2>1, OutsideMeta, SuperblockOutside
    <2>3. cache'[Primary] = NextSuperblock
      BY <1>3, <2>1, SuperblockOutside, PwriteFacts
    <2>4. NextSuperblock.kind = "sb"
      BY <1>1, NextSuperblockType DEF SuperblockSet
    <2> QED
      BY <2>1, <2>2, <2>3, <2>4 DEF DownInv, RecoveryInv, PrimaryInv, PrimaryCurrent, LoggedInv
  <1>g. CASE Operation
    <2>1. PICK kind \in OpKinds, targets \in TargetLists : Begin(kind, targets)
      BY <1>g DEF Operation
    <2>2. pc = "idle" /\ pc' \in {"dataSync", "log"} /\ sb' = sb
      BY <2>1 DEF Begin
    <2>3. InPlaceJournaled' /\ cache'[Primary] = cache[Primary]
      <3>1. CASE kind = "metadata"
        BY <1>2, <2>1, <3>1 DEF Begin, InPlaceJournaled
      <3>2. CASE kind # "metadata"
        <4> DEFINE ws == [l \in {D(nextId)} |-> FileData(nextId)]
        <4>1. Pwrite(ws) /\ DOMAIN ws = {D(nextId)}
          BY <2>1, <3>2 DEF Begin
        <4>2. D(nextId) \notin MetaArea /\ Primary # D(nextId)
          BY DEF D, MetaArea, M, Primary
        <4> HIDE DEF ws
        <4> QED
          BY <1>2, <1>3, <4>1, <4>2, OutsideMeta, PwriteFacts
      <3> QED
        BY <3>1, <3>2
    <2> QED
      BY <1>2, <2>2, <2>3 DEF DownInv, RecoveryInv, PrimaryInv, PrimaryCurrent, LoggedInv
  <1>h. CASE DataSync
    BY <1>2, <1>h DEF DataSync, Sync, InPlaceJournaled, DownInv, RecoveryInv, PrimaryInv,
      PrimaryCurrent, LoggedInv
  <1>i. CASE Log
    <2> DEFINE ws == JournalWrites(Position, sb.seq, txn)
    <2>1. /\ Pwrite(ws) /\ pc = "log" /\ pc' = "logSync"
          /\ sb' = sb /\ txn' = txn
      BY <1>i DEF Log
    <2>2. /\ txn \in TxnSet /\ Needed(txn.targets) <= JournalLength /\ sb.seq \in Nat
      BY <1>1, <2>1 DEF Committing, TypeOK, SuperblockSet
    <2>3. DOMAIN ws \subseteq JournalArea
      BY <1>1, <2>2, PositionType, JournalWritesType
    <2>4. ws' = ws
      BY <2>1 DEF Position, JournalWrites
    <2> HIDE DEF ws
    <2>5. InPlaceJournaled'
      BY <1>2, <2>1, <2>3, Disjoint, OutsideMeta
    <2>6. cache'[Primary] = cache[Primary]
      BY <1>3, <2>1, <2>3, Disjoint, PwriteFacts
    <2>7. \A l \in DOMAIN ws : cache'[l] = ws[l]
      BY <1>3, <2>1, <2>3, PwriteFacts DEF Loc
    <2>8. Logged(cache)'
      BY <2>4, <2>7 DEF Logged, ws
    <2> QED
      BY <1>2, <2>1, <2>5, <2>6, <2>8 DEF DownInv, RecoveryInv, PrimaryInv, PrimaryCurrent, LoggedInv
  <1>j. CASE LogSync
    <2>1. /\ durable' = cache /\ cache' = cache /\ pending' = {} /\ sb' = sb /\ txn' = txn
          /\ pc = "logSync" /\ pc' = "apply"
      BY <1>j DEF LogSync, Sync
    <2>2. Logged(durable)'
      <3>1. JournalWrites(Position, sb.seq, txn)' = JournalWrites(Position, sb.seq, txn)
        BY <2>1 DEF Position
      <3> QED
        BY <1>2, <2>1, <3>1 DEF LoggedInv, Logged
    <2>3. PrimaryCurrent(durable)'
      BY <1>2, <2>1 DEF PrimaryInv, PrimaryCurrent
    <2> QED
      BY <2>1, <2>2, <2>3 DEF InPlaceJournaled, DownInv, RecoveryInv, PrimaryInv, LoggedInv
  <1>k. CASE Apply
    <2> DEFINE ws == ApplyWrites(txn)
    <2>1. Pwrite(ws) /\ pc = "apply" /\ pc' = "applySync"
      BY <1>k DEF Apply
    <2>2. /\ txn \in TxnSet /\ Needed(txn.targets) <= JournalLength /\ sb.seq \in Nat
      BY <1>1, <2>1 DEF Committing, TypeOK, SuperblockSet
    <2>3. Position \in Heads /\ Position + Needed(txn.targets) <= JournalLength
      BY <1>1, <2>2, PositionType
    <2>4. ValidTxn(durable, Position, sb.seq) /\ ReplayWrites(durable, Position) = ws
      BY <1>2, <1>3, <2>1, <2>2, <2>3, LoggedTxn DEF LoggedInv, Logged
    <2>5. sb.seq >= RecoverySuperblock(durable).seq
      BY <1>2, <2>1, <2>2 DEF LoggedInv, PrimaryCurrent, RecoverySuperblock
    <2>6. \A l \in DOMAIN ws : Journaled(durable, <<l, ws[l]>>)
      BY <1>3, <2>3, <2>4, <2>5, ReplayedIsJournaled
    <2> HIDE DEF ws
    <2>7. InPlaceJournaled'
      BY <1>2, <2>1, <2>6, WriteAheadKept
    <2> QED
      BY <2>1, <2>7 DEF DownInv, RecoveryInv, PrimaryInv, LoggedInv
  <1>l. CASE ApplySync
    BY <1>l DEF ApplySync, Sync, InPlaceJournaled, DownInv, RecoveryInv, PrimaryInv, LoggedInv
  <1>m. CASE PowerCut
    <2>1. pc' = "down" /\ cache' = durable' /\ pending' = {}
      BY <1>m DEF PowerCut, Down, CutTo
    <2> QED
      BY <2>1 DEF InPlaceJournaled, DownInv, RecoveryInv, PrimaryInv, LoggedInv
  <1>n. CASE Fsync
    BY <1>2, <1>n DEF Fsync, Sync, InPlaceJournaled, DownInv, RecoveryInv,
      PrimaryInv, PrimaryCurrent, LoggedInv
  <1>o. CASE Kill
    BY <1>0, <1>o
  <1>p. CASE UNCHANGED vars
    BY <1>2, <1>p DEF vars, InPlaceJournaled, DownInv, RecoveryInv, PrimaryInv, PrimaryCurrent,
      LoggedInv, Logged, Position
  <1> QED
    BY <1>a, <1>b, <1>c, <1>d, <1>e, <1>f, <1>g, <1>h, <1>i, <1>j, <1>k, <1>l,
       <1>m, <1>n, <1>o, <1>p
    DEF Next, Recover, CommitStep

(* Write-ahead logging: until a process is killed, no block is written in  *)
(* place before the medium holds a whole journaled transaction with its    *)
(* new content, for every volume, every operation and every sequence of    *)
(* power cuts.                                                             *)
THEOREM WriteAheadHolds == Spec => []WriteAhead
  <1>1. IInv /\ [Next]_vars => IInv'
    BY StepWriteAhead
  <1>2. IInv => WriteAhead
    BY DEF IInv, WriteAheadInv, WriteAhead
  <1> QED
    BY InitWriteAhead, <1>1, <1>2, PTL DEF Spec
=============================================================================
