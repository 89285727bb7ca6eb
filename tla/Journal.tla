------------------------------ MODULE Journal ------------------------------
(***************************************************************************)
(* The metadata journal of 5FS: Gofs::commit and Gofs::replay of           *)
(* journal.rs, with the superblock and its backup (fs.rs: open,            *)
(* find_superblock, backup_superblock_ok, write_superblock) that record    *)
(* where replay starts, on a device that may lose power or whose process   *)
(* may be killed between any two writes.                                   *)
(*                                                                         *)
(* One Gofs value owns the device and every operation takes &mut self, so  *)
(* the program is a sequence of phases, named by pc, between which only    *)
(* the environment (a power cut, a kill) steps in.  A batch of pwrites     *)
(* with no sync between them is one action: a power cut after part of it   *)
(* is a power cut after all of it with the rest not landed, and a kill     *)
(* takes a prefix of it.                                                   *)
(*                                                                         *)
(* Contents are abstracted to the operation that wrote them: block b       *)
(* written by operation id holds Image(b, id).  A checksum over a          *)
(* transaction is the transaction.                                         *)
(***************************************************************************)
EXTENDS Device, Integers, Sequences, FiniteSets

CONSTANTS
  Blocks,         \* addresses of the metadata blocks, numbers
  AgHeader,       \* the one of them that holds the header of AG 0
  KernelInode,    \* the one of them that holds the inode of kernel.bin
  JournalLength,  \* sb.journal_length, in blocks
  MaxTargets,     \* max_targets(blocksize)
  OpKinds,        \* which operations run: see Begin
  MaxTxns,        \* bound: operations begun
  MaxData,        \* bound: those of them that write file data
  MaxCuts,        \* bound: power cuts
  MaxTorn,        \* bound: torn writes, over all power cuts
  MaxKills,       \* bound: kills of the process
  MixedFaults,    \* bound: whether one behaviour may have both kills and cuts
  LaggingCuts     \* bound: whether power may be cut as LaggingCut says

ASSUME BlocksAssumption ==
  /\ Blocks \subseteq Nat
  /\ IsFiniteSet(Blocks)
  /\ AgHeader \in Blocks /\ KernelInode \in Blocks
ASSUME LengthAssumption == JournalLength \in Nat \ {0} /\ MaxTargets \in Nat \ {0}
ASSUME KindAssumption == OpKinds \subseteq {"metadata", "write", "kernelUpdate"}
ASSUME BoundAssumption ==
  /\ MaxTxns \in Nat /\ MaxData \in Nat /\ MaxCuts \in Nat /\ MaxTorn \in Nat /\ MaxKills \in Nat
  /\ MixedFaults \in BOOLEAN /\ LaggingCuts \in BOOLEAN

VARIABLES
  pc,     \* the phase of the program: see Phases
  sb,     \* self.sb: [kind, gen, head, seq, kernelEnd]
  scan,   \* replay's locals: [head, seq, applied]
  txn,    \* the operation in flight: [id, targets], or NoTxn
  hasData,\* history: the operations that wrote file data
  nextId, \* the number of the next operation
  lost,   \* history: operations a recovery found not done, since the last one done
  acked,  \* history: metadata as the callers know it, block -> operation
  cuts, torn, kills  \* how much of MaxCuts, MaxTorn and MaxKills is used

memVars == <<pc, sb, scan, txn>>
faultVars == <<cuts, torn, kills>>
histVars == <<nextId, hasData, lost, acked>>
vars == <<deviceVars, memVars, histVars, faultVars>>

Phases ==
  {"down",                                \* no process has the volume open
   "heal", "replay", "replaySync", "replayCheckpoint",            \* open
   "idle",                                \* between operations
   "dataSync", "log", "logSync", "apply", "applySync", "checkpoint"}

Ids == 1 .. MaxTxns
NoTxn == [id |-> 0, targets |-> <<>>]
NoScan == [head |-> 0, seq |-> 0, applied |-> 0]

-----------------------------------------------------------------------------
(* Locations and what is stored in them *)

Primary == <<"sb", 0>>
Backup == <<"sb", 1>>
J(i) == <<"journal", i>>
M(b) == <<"meta", b>>
D(id) == <<"data", id>>   \* the file blocks operation id writes in place

JournalArea == {J(i) : i \in 0 .. JournalLength - 1}
MetaArea == {M(b) : b \in Blocks}
DataArea == {D(id) : id \in Ids}
Loc == {Primary, Backup} \cup JournalArea \cup MetaArea \cup DataArea

Zero == [kind |-> "zero"]  \* what mkfs leaves in the journal, and stale data
(* kernelEnd, the end of the boot kernel, stands as the kernel update that *)
(* set it.                                                                 *)
Superblock(gen, head, seq) ==
  [kind |-> "sb", gen |-> gen, head |-> head, seq |-> seq, kernelEnd |-> 0]
Image(b, id) == [kind |-> "block", blk |-> b, id |-> id]
FileData(id) == [kind |-> "data", id |-> id]
Desc(seq, targets) == [kind |-> "desc", seq |-> seq, targets |-> targets]
Commit(seq, sum) == [kind |-> "commit", seq |-> seq, sum |-> sum]

(* The keys of a transaction's BTreeMap: distinct addresses, ascending. *)
TargetLists ==
  {s \in UNION {[1 .. n -> Blocks] : n \in 1 .. MaxTargets} :
     \A i, j \in DOMAIN s : i < j => s[i] < s[j]}

-----------------------------------------------------------------------------
(* The journal *)

Needed(targets) == Len(targets) + 2

(* Where commit logs a transaction of n blocks: it never splits across the *)
(* end of the journal.                                                     *)
LogPosition(head, n) == IF head + n > JournalLength THEN 0 ELSE head

(* Mutant of Advance: a head that reaches the end of the journal stays.    *)
AdvancePastEnd(pos, n) == IF pos + n > JournalLength THEN 0 ELSE pos + n

(* The head after n blocks at pos. *)
Advance(pos, n) == IF pos + n >= JournalLength THEN 0 ELSE pos + n

JournalWrites(pos, seq, t) ==
  LET n == Len(t.targets)
      desc == Desc(seq, t.targets)
      blocks == [i \in 1 .. n |-> Image(t.targets[i], t.id)]
  IN [l \in {J(pos + i) : i \in 0 .. n + 1} |->
        IF l = J(pos) THEN desc
        ELSE IF l = J(pos + n + 1) THEN Commit(seq, <<desc, blocks>>)
        ELSE blocks[l[2] - pos]]

(* Mutant of ValidTxn: the checksum over the transaction is not compared.  *)
ValidTxnUnsummed(img, pos, seq) ==
  /\ pos + 2 <= JournalLength
  /\ LET desc == img[J(pos)] IN
     /\ desc.kind = "desc" /\ desc.seq = seq
     /\ LET n == Len(desc.targets) IN
        /\ n # 0 /\ n <= MaxTargets /\ pos + n + 2 <= JournalLength
        /\ LET commit == img[J(pos + n + 1)] IN
           commit.kind = "commit" /\ commit.seq = seq

(* try_read_txn finds a whole transaction with sequence seq at pos. *)
ValidTxn(img, pos, seq) ==
  /\ pos + 2 <= JournalLength
  /\ LET desc == img[J(pos)] IN
     /\ desc.kind = "desc" /\ desc.seq = seq
     /\ LET n == Len(desc.targets) IN
        /\ n # 0 /\ n <= MaxTargets /\ pos + n + 2 <= JournalLength
        /\ LET commit == img[J(pos + n + 1)] IN
           /\ commit.kind = "commit" /\ commit.seq = seq
           /\ commit.sum = <<desc, [i \in 1 .. n |-> img[J(pos + i)]]>>

(* replay looks at the head and then, as the writer may have wrapped       *)
(* without recording it, at block 0.                                       *)
Found(img, head, seq) == ValidTxn(img, head, seq) \/ ValidTxn(img, 0, seq)
FoundAt(img, head, seq) == IF ValidTxn(img, head, seq) THEN head ELSE 0

(* The in-place writes of the transaction journaled at pos. *)
ReplayWrites(img, pos) ==
  LET targets == img[J(pos)].targets IN
  [l \in {M(targets[i]) : i \in DOMAIN targets} |->
     img[J(pos + (CHOOSE i \in DOMAIN targets : M(targets[i]) = l))]]

ApplyWrites(t) ==
  [l \in {M(t.targets[i]) : i \in DOMAIN t.targets} |-> Image(l[2], t.id)]

-----------------------------------------------------------------------------
(* The superblock *)

SuperblockWrites(s) == [l \in {Primary, Backup} |-> s]

(* The backup is found through the header of AG 0. *)
BackupReadable(img) == img[M(AgHeader)].kind = "block" /\ img[Backup].kind = "sb"
SuperblockFound(img) == img[Primary].kind = "sb" \/ BackupReadable(img)

(* Mutant: a backup that is whole is taken for good. *)
BackupOkWhole(img, s) == img[Backup].kind = "sb"

(* backup_superblock_ok compares the generations, not the contents. *)
BackupOk(img, s) == img[Backup].kind = "sb" /\ img[Backup].gen = s.gen

NoSuperblock == Superblock(0, 0, 0)
NextSuperblock == [sb EXCEPT !.gen = @ + 1]

-----------------------------------------------------------------------------
(* mkfs: both superblocks at generation 1, sequence 1, an empty journal *)

Init ==
  /\ durable = [l \in Loc |->
       IF l \in {Primary, Backup} THEN Superblock(1, 0, 1)
       ELSE IF l \in MetaArea THEN Image(l[2], 0)
       ELSE Zero]
  /\ cache = durable
  /\ pending = {}
  /\ pc = "down"
  /\ sb = NoSuperblock
  /\ scan = NoScan
  /\ txn = NoTxn
  /\ nextId = 1 /\ hasData = {} /\ lost = {}
  /\ acked = [b \in Blocks |-> 0]
  /\ cuts = 0 /\ torn = 0 /\ kills = 0

-----------------------------------------------------------------------------
(* Gofs::open on a writable device *)

(* find_superblock, then either write_superblock is due (the backup was    *)
(* used, or it is torn or stale) or replay begins.                         *)
Open ==
  /\ pc = "down"
  /\ SuperblockFound(cache)
  /\ LET s == IF cache[Primary].kind = "sb" THEN cache[Primary] ELSE cache[Backup] IN
     /\ sb' = s
     /\ scan' = [head |-> s.head, seq |-> s.seq, applied |-> 0]
     /\ pc' = IF cache[Primary].kind = "sb" /\ BackupOk(cache, s)
              THEN "replay" ELSE "heal"
  /\ UNCHANGED <<deviceVars, txn, histVars, faultVars>>

Heal ==
  /\ pc = "heal"
  /\ sb' = NextSuperblock
  /\ Pwrite(SuperblockWrites(NextSuperblock))
  /\ pc' = "replay"
  /\ UNCHANGED <<scan, txn, histVars, faultVars>>

(* Mutant of ReplayTxn: the loop does not move on. *)
ReplayTxnAgain ==
  /\ pc = "replay"
  /\ Found(cache, scan.head, scan.seq)
  /\ Pwrite(ReplayWrites(cache, FoundAt(cache, scan.head, scan.seq)))
  /\ UNCHANGED <<pc, sb, scan, txn, histVars, faultVars>>

(* One round of replay's loop: a valid transaction is written in place. *)
ReplayTxn ==
  /\ pc = "replay"
  /\ Found(cache, scan.head, scan.seq)
  /\ LET pos == FoundAt(cache, scan.head, scan.seq) IN
     /\ Pwrite(ReplayWrites(cache, pos))
     /\ scan' = [head |-> Advance(pos, Needed(cache[J(pos)].targets)),
                 seq |-> scan.seq + 1,
                 applied |-> scan.applied + 1]
  /\ UNCHANGED <<pc, sb, txn, histVars, faultVars>>

(* The volume is open.  The callers find done the operation that was in    *)
(* flight, or one that an earlier recovery found not done, or none.        *)
Present(t) == \A i \in DOMAIN t.targets : cache[M(t.targets[i])] = Image(t.targets[i], t.id)
AfterOp(t) == [b \in Blocks |->
                 IF \E i \in DOMAIN t.targets : t.targets[i] = b THEN t.id ELSE acked[b]]
Opened ==
  /\ pc' = "idle"
  /\ LET done == {t \in lost \cup {txn} : t # NoTxn /\ Present(t)} IN
     IF done # {}
     THEN \E t \in done : acked' = AfterOp(t) /\ lost' = {}
     ELSE lost' = (lost \cup {txn}) \ {NoTxn} /\ UNCHANGED acked
  /\ txn' = NoTxn
  /\ scan' = NoScan

ReplayEnd ==
  /\ pc = "replay"
  /\ ~Found(cache, scan.head, scan.seq)
  /\ IF scan.applied > 0
     THEN pc' = "replaySync" /\ UNCHANGED <<acked, lost, txn, scan>>
     ELSE Opened
  /\ UNCHANGED <<deviceVars, sb, nextId, hasData, faultVars>>

ReplaySync ==
  /\ pc = "replaySync"
  /\ Sync
  /\ sb' = [sb EXCEPT !.head = scan.head, !.seq = scan.seq]
  /\ pc' = "replayCheckpoint"
  /\ UNCHANGED <<scan, txn, histVars, faultVars>>

ReplayCheckpoint ==
  /\ pc = "replayCheckpoint"
  /\ sb' = NextSuperblock
  /\ Pwrite(SuperblockWrites(NextSuperblock))
  /\ Opened
  /\ UNCHANGED <<nextId, hasData, faultVars>>

-----------------------------------------------------------------------------
(* An operation and its commit *)

(* An operation collects a transaction that rewrites the given blocks.     *)
(* write (fs.rs) first puts file data in place and goes straight on to     *)
(* commit; kernel_update, which rewrites only the inode of kernel.bin,     *)
(* syncs that data first.                                                  *)
Begin(kind, targets) ==
  /\ pc = "idle"
  /\ nextId <= MaxTxns
  /\ Needed(targets) <= JournalLength
  /\ kind = "kernelUpdate" => targets = <<KernelInode>>
  /\ kind # "metadata" => Cardinality(hasData) < MaxData
  /\ txn' = [id |-> nextId, targets |-> targets]
  /\ nextId' = nextId + 1
  /\ IF kind = "metadata"
     THEN UNCHANGED <<deviceVars, hasData>>
     ELSE /\ Pwrite([l \in {D(nextId)} |-> FileData(nextId)])
          /\ hasData' = hasData \cup {nextId}
  /\ pc' = IF kind = "kernelUpdate" THEN "dataSync" ELSE "log"
  /\ UNCHANGED <<sb, scan, lost, acked, faultVars>>

(* Mutant of DataSync: kernel_update commits without a sync. *)
DataNotSynced ==
  /\ pc = "dataSync"
  /\ sb' = [sb EXCEPT !.kernelEnd = txn.id]
  /\ pc' = "log"
  /\ UNCHANGED <<deviceVars, scan, txn, histVars, faultVars>>

(* Then it moves the end of the kernel, in self.sb, and commits. *)
DataSync ==
  /\ pc = "dataSync"
  /\ Sync
  /\ sb' = [sb EXCEPT !.kernelEnd = txn.id]
  /\ pc' = "log"
  /\ UNCHANGED <<scan, txn, histVars, faultVars>>

(* Where the transaction in flight is, or is to be, logged. *)
Position == LogPosition(sb.head, Needed(txn.targets))

Log ==
  /\ pc = "log"
  /\ Pwrite(JournalWrites(Position, sb.seq, txn))
  /\ pc' = "logSync"
  /\ UNCHANGED <<sb, scan, txn, histVars, faultVars>>

(* Mutant of LogSync: blocks go in place before the journal is durable. *)
LogNotSynced ==
  /\ pc = "logSync"
  /\ pc' = "apply"
  /\ UNCHANGED <<deviceVars, sb, scan, txn, histVars, faultVars>>

LogSync ==
  /\ pc = "logSync"
  /\ Sync
  /\ pc' = "apply"
  /\ UNCHANGED <<sb, scan, txn, histVars, faultVars>>

Apply ==
  /\ pc = "apply"
  /\ Pwrite(ApplyWrites(txn))
  /\ pc' = "applySync"
  /\ UNCHANGED <<sb, scan, txn, histVars, faultVars>>

(* Mutant of ApplySync: the checkpoint may overtake the blocks in place. *)
ApplyNotSynced ==
  /\ pc = "applySync"
  /\ sb' = [sb EXCEPT !.head = Advance(Position, Needed(txn.targets)),
                      !.seq = @ + 1]
  /\ pc' = "checkpoint"
  /\ UNCHANGED <<deviceVars, scan, txn, histVars, faultVars>>

ApplySync ==
  /\ pc = "applySync"
  /\ Sync
  /\ sb' = [sb EXCEPT !.head = Advance(Position, Needed(txn.targets)),
                      !.seq = @ + 1]
  /\ pc' = "checkpoint"
  /\ UNCHANGED <<scan, txn, histVars, faultVars>>

(* Mutant of Checkpoint: the superblock is not written. *)
CheckpointUnwritten ==
  /\ pc = "checkpoint"
  /\ acked' = AfterOp(txn) /\ lost' = {}
  /\ txn' = NoTxn
  /\ pc' = "idle"
  /\ UNCHANGED <<deviceVars, sb, scan, nextId, hasData, faultVars>>

(* write_superblock, not synced, and commit returns Ok. *)
Checkpoint ==
  /\ pc = "checkpoint"
  /\ sb' = NextSuperblock
  /\ Pwrite(SuperblockWrites(NextSuperblock))
  /\ acked' = AfterOp(txn) /\ lost' = {}
  /\ txn' = NoTxn
  /\ pc' = "idle"
  /\ UNCHANGED <<scan, nextId, hasData, faultVars>>

(* The fsync of a mounted volume, which syncs the device and no more. *)
Fsync ==
  /\ pc = "idle"
  /\ Sync
  /\ UNCHANGED <<memVars, histVars, faultVars>>

-----------------------------------------------------------------------------
(* The environment *)

(* The memory of the process is gone. *)
Down ==
  /\ pc' = "down"
  /\ sb' = NoSuperblock
  /\ scan' = NoScan

(* The superblock a recovery of img starts from. *)
RecoverySuperblock(img) ==
  IF img[Primary].kind = "sb" THEN img[Primary] ELSE img[Backup]

(* The writes under way overtake the log: they fall on a transaction that  *)
(* a recovery of the medium would replay.                                  *)
Overtaken ==
  \E pos \in 0 .. JournalLength - 1 :
    /\ durable[J(pos)].kind = "desc"
    /\ durable[J(pos)].seq >= RecoverySuperblock(durable).seq
    /\ ValidTxn(durable, pos, durable[J(pos)].seq)
    /\ \E i \in 0 .. Needed(durable[J(pos)].targets) - 1 :
         \E p \in pending : p[1] = J(pos + i)

(* A cut that finds the superblock on the medium behind (neither commit    *)
(* nor replay syncs it): the log is overtaken, or the primary is torn over *)
(* a backup that is older.                                                 *)
LaggingCut(img) ==
  \/ Overtaken
  \/ /\ durable[Primary].kind = "sb" /\ durable[Backup] # durable[Primary]
     /\ img[Primary].kind # "sb" /\ img[Backup] = durable[Backup]

(* Power is cut: some writes of the epoch landed, at most one of them torn *)
(* (the crash states of tests/crash.rs).                                   *)
PowerCut ==
  /\ cuts < MaxCuts
  /\ kills = 0 \/ MixedFaults
  /\ \E S \in Landings :
       \/ CutTo(AfterCut(S, {})) /\ UNCHANGED torn
       \/ /\ torn < MaxTorn
          /\ \E p \in S : CutTo(AfterCut(S, {p[1]}))
          /\ torn' = torn + 1
  /\ LaggingCut(durable') => LaggingCuts
  /\ cuts' = cuts + 1
  /\ Down
  /\ UNCHANGED <<txn, histVars, kills>>

(* The pwrites the program is about to issue. *)
Batch ==
  CASE pc \in {"heal", "checkpoint", "replayCheckpoint"} -> SuperblockWrites(NextSuperblock)
    [] pc = "log" -> JournalWrites(Position, sb.seq, txn)
    [] pc = "apply" -> ApplyWrites(txn)
    [] pc = "replay" /\ Found(cache, scan.head, scan.seq) ->
         ReplayWrites(cache, FoundAt(cache, scan.head, scan.seq))
    [] OTHER -> <<>>

(* The process dies in the middle of its writes, which the page cache      *)
(* keeps.  Each batch is issued in the order of its locations.             *)
Kill ==
  /\ pc # "down"
  /\ kills < MaxKills
  /\ cuts = 0 \/ MixedFaults
  /\ \E done \in SUBSET DOMAIN Batch :
       /\ \A l \in done, m \in DOMAIN Batch : m[2] < l[2] => m \in done
       /\ Pwrite([l \in done |-> Batch[l]])
  /\ kills' = kills + 1
  /\ Down
  /\ UNCHANGED <<txn, histVars, cuts, torn>>

-----------------------------------------------------------------------------
Recover == Open \/ Heal \/ ReplayTxn \/ ReplayEnd \/ ReplaySync \/ ReplayCheckpoint
CommitStep == DataSync \/ Log \/ LogSync \/ Apply \/ ApplySync \/ Checkpoint
Operation == \E kind \in OpKinds, targets \in TargetLists : Begin(kind, targets)

Next == Recover \/ CommitStep \/ Operation \/ Fsync \/ PowerCut \/ Kill

Spec == Init /\ [][Next]_vars

(* The program, once called, runs on: nothing in open or commit waits.     *)
(* Operations, power cuts and kills need not happen.                       *)
Fairness == WF_vars(Recover) /\ WF_vars(CommitStep)
FairSpec == Spec /\ Fairness

-----------------------------------------------------------------------------
(* Properties *)

Heads == 0 .. JournalLength - 1
SuperblockSet == [kind : {"sb"}, gen : Nat, head : Heads, seq : Nat, kernelEnd : Nat]
ImageSet == [kind : {"block"}, blk : Blocks, id : Nat]
DescSet == [kind : {"desc"}, seq : Nat, targets : TargetLists]
TxnSet == [id : Nat \ {0}, targets : TargetLists]
Contents ==
  SuperblockSet \cup ImageSet \cup DescSet \cup {Torn, Zero}
    \cup [kind : {"data"}, id : Nat]
    \cup [kind : {"commit"}, seq : Nat, sum : DescSet \X Seq(ImageSet)]

(* The values every variable ranges over: heads stay inside the journal    *)
(* (commit, replay), targets inside the volume.                            *)
TypeOK ==
  /\ durable \in [Loc -> Contents]
  /\ cache \in [Loc -> Contents]
  /\ pending \subseteq Loc \X Contents
  /\ pc \in Phases
  /\ sb \in SuperblockSet
  /\ scan \in [head : Heads, seq : Nat, applied : Nat]
  /\ txn \in TxnSet \cup {NoTxn}
  /\ nextId \in Nat \ {0} /\ hasData \subseteq Nat
  /\ acked \in [Blocks -> Nat]
  /\ lost \subseteq TxnSet
  /\ cuts \in 0 .. MaxCuts /\ torn \in 0 .. MaxTorn /\ kills \in 0 .. MaxKills

(* Completed operations are never lost and the one in flight at a fault    *)
(* happens wholly or not at all: once open returns, and until the next     *)
(* operation touches the volume, every metadata block holds what the last  *)
(* operation known to the callers left there (commit with replay).         *)
Atomic ==
  pc \in {"idle", "dataSync", "log", "logSync"} =>
    \A b \in Blocks : cache[M(b)] = Image(b, acked[b])

(* The journal of img holds a whole transaction, not older than the        *)
(* superblock a recovery of img starts from, that makes the write p.       *)
Journaled(img, p) ==
  \E pos \in Heads :
    /\ img[J(pos)].kind = "desc"
    /\ ValidTxn(img, pos, img[J(pos)].seq)
    /\ img[J(pos)].seq >= RecoverySuperblock(img).seq
    /\ LET ws == ReplayWrites(img, pos) IN
       p[1] \in DOMAIN ws /\ ws[p[1]] = p[2]

(* Every block written in place in this epoch is journaled on the medium. *)
InPlaceJournaled == \A p \in pending : p[1] \in MetaArea => Journaled(durable, p)

(* No block is written in place before the journal durably holds a whole   *)
(* transaction with the content being written (commit: sync before apply;  *)
(* replay: only what is on the medium), as long as no process was killed:  *)
(* a kill leaves records in the page cache, which replay goes by.          *)
WriteAhead == kills = 0 => InPlaceJournaled

(* Why write-ahead holds when no process is killed.  Replay reads a        *)
(* journal that is on the medium, from a position the superblock there     *)
(* vouches for; commit's record carries the sequence of the superblock it  *)
(* syncs together with, and stands whole on the medium when apply begins.  *)
Logged(img) ==
  LET ws == JournalWrites(Position, sb.seq, txn) IN \A l \in DOMAIN ws : img[l] = ws[l]
PrimaryCurrent(img) == img[Primary].kind = "sb" /\ img[Primary].seq = sb.seq
DownInv == pc = "down" => cache = durable
RecoveryInv ==
  pc \in {"heal", "replay"} =>
    /\ \A l \in JournalArea : cache[l] = durable[l]
    /\ RecoverySuperblock(durable).kind = "sb"
    /\ scan.seq >= RecoverySuperblock(durable).seq
PrimaryInv ==
  pc \in {"replay", "idle", "dataSync", "log", "logSync"} => PrimaryCurrent(cache)
LoggedInv ==
  /\ pc = "logSync" => Logged(cache)
  /\ pc = "apply" => Logged(durable) /\ PrimaryCurrent(durable)
WriteAheadInv ==
  kills = 0 => InPlaceJournaled /\ DownInv /\ RecoveryInv /\ PrimaryInv /\ LoggedInv

(* Recovery re-applies at most the transaction in flight and one completed *)
(* transaction for each power cut so far: however long the volume ran, the *)
(* superblock on the medium, which neither commit nor replay syncs, falls  *)
(* behind by one transaction per open that replayed and no further.        *)
LagBounded == scan.applied <= cuts + 1

(* journal_pending: whether a recovery of img that starts from superblock  *)
(* s would find a transaction to apply.                                    *)
JournalPending(img, s) == Found(img, s.head, s.seq)

(* check of fsck.rs, on a volume that is not in use: what it reports of    *)
(* superblocks and journal, errors and warnings.                           *)
CheckVolume(img) ==
  LET s == RecoverySuperblock(img)
      bad == [primary |-> img[Primary].kind # "sb",
              backup |-> img[Backup].kind # "sb" \/ img[Backup].gen # s.gen,
              journal |-> JournalPending(img, s)]
  IN {part \in DOMAIN bad : bad[part]}

(* Whenever an operation or a recovery has returned, fsck of the volume is *)
(* clean, without a warning (tests/e2e.rs): both superblocks are whole and *)
(* of one generation, and nothing that earlier laps and faults left in the *)
(* journal can be taken for a transaction that is still to be replayed.    *)
FsckClean == pc = "idle" => CheckVolume(cache) = {}

(* Ordered mode: metadata on the volume never points at file data that was *)
(* not written.  A block of operation id refers to the data D(id).         *)
Ordered ==
  pc = "idle" => \A b \in Blocks : acked[b] \in hasData => cache[D(acked[b])] = FileData(acked[b])

(* The superblock, too, is journaled: whenever the inode of kernel.bin is  *)
(* what a kernel update left, sb_kernel_end, by which a bootloader loads   *)
(* the image, is what that update set (kernel_update).                     *)
KernelEndKept ==
  pc = "idle" => (acked[KernelInode] \in hasData => sb.kernelEnd = acked[KernelInode])

(* Open and commit finish: whenever the program works on the volume, or    *)
(* it is down, it comes to rest between operations again.                  *)
ComesToRest == []<>(pc = "idle")
=============================================================================
