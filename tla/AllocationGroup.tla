-------------------------- MODULE AllocationGroup --------------------------
(***************************************************************************)
(* The refinement tree of one allocation group (AG), alloc.rs, as          *)
(* operators on a group g.                                                 *)
(*                                                                         *)
(* The group is an array of cells of Fanout^2 blocks.  A cell is free,     *)
(* reserved, full, or refined into Fanout L1 cells of Fanout blocks, which *)
(* may be refined into blocks, which may be refined into inode slots.  The *)
(* children of whatever is refined are described by a record in a table    *)
(* block; table blocks live in the current arena, a reserved cell.         *)
(*                                                                         *)
(* The superblock's totals, which are advisory and which no decision       *)
(* reads, are left out.                                                    *)
(***************************************************************************)
EXTENDS Integers, Sequences, FiniteSets, FiniteSetsExt

CONSTANTS
  Fanout,          \* ALLOC_FANOUT
  Slots,           \* inodes per block
  RecordsPerBlock, \* recs_per_block(blocksize)
  CellCount        \* cells of the group

CellBlocks == Fanout * Fanout

ASSUME FanoutAssumption == Fanout \in Nat \ {0, 1}
ASSUME SlotsAssumption == Slots \in 1 .. Fanout  \* mkfs refuses more
ASSUME CellAssumption == CellCount \in Nat \ {0}
(* A new arena holds the three records one operation can ask for. *)
ASSUME RecordAssumption ==
  RecordsPerBlock \in Nat /\ RecordsPerBlock * CellBlocks >= 3

Cells == 0 .. CellCount - 1
Kids == 0 .. Fanout - 1
NoRef == <<0, 0>>  \* block 0 is never a table block

(* The outcome of a helper: whether it succeeded, the group as edited so   *)
(* far, and what it returns.                                               *)
Done(g, val) == [ok |-> TRUE, g |-> g, val |-> val]
Failed(g) == [ok |-> FALSE, g |-> g, val |-> 0]

(* r?: an error is returned at once, else Op goes on from the outcome. *)
Then(r, Op(_, _)) == IF r.ok THEN Op(r.g, r.val) ELSE r

(* The first of S in the order of wrap_range(hint, _). *)
FirstFrom(S, hint) ==
  IF \E x \in S : x >= hint THEN Min({x \in S : x >= hint}) ELSE Min(S)

-----------------------------------------------------------------------------
(* Records *)

(* A zeroed record: every child free. *)
ZeroRecord == [st |-> [i \in Kids |-> "free"], ref |-> [i \in Kids |-> NoRef]]

AllFree(rec) == \A i \in Kids : rec.st[i] = "free"
SetKids(rec, S, st) ==
  [rec EXCEPT !.st = [i \in Kids |-> IF i \in S THEN st ELSE @[i]]]

(* Mutant: the run counter is not reset at a child in use. *)
RunsUnreset(rec, n) == {i \in Kids : i + n <= Fanout /\ rec.st[i + n - 1] = "free"}
(* Where find_run can place n consecutive free children. *)
Runs(rec, n) == {i \in Kids : i + n <= Fanout /\ \A j \in i .. i + n - 1 : rec.st[j] = "free"}

PutRecord(g, r, rec) ==
  [g EXCEPT !.recs = [x \in DOMAIN @ \cup {r} |-> IF x = r THEN rec ELSE @[x]]]
(* Mutant: the record is cleared but its bit in the used mask is not.       *)
DropRecordStillUsed(g, r) == PutRecord(g, r, ZeroRecord)
DropRecord(g, r) == [g EXCEPT !.recs = [x \in DOMAIN @ \ {r} |-> @[x]]]

FreeCells(g) == {c \in Cells : g.rt[c] = "free"}
Arena(g) == IF g.arena = 0 THEN {} ELSE g.arena .. g.arena + CellBlocks - 1
ArenaRoom(g) ==
  {b \in Arena(g) : \E i \in 0 .. RecordsPerBlock - 1 : <<b, i>> \notin DOMAIN g.recs}

(* tbl_alloc_rec: a record of the arena, or of a new arena when it is full. *)
AllocRecord(g) ==
  IF ArenaRoom(g) # {}
  THEN LET b == FirstFrom(ArenaRoom(g), IF g.tblHint \in Arena(g) THEN g.tblHint ELSE g.arena)
           r == <<b, Min({i \in 0 .. RecordsPerBlock - 1 : <<b, i>> \notin DOMAIN g.recs})>>
       IN Done([PutRecord(g, r, ZeroRecord) EXCEPT !.tblHint = b], r)
  ELSE IF FreeCells(g) = {} THEN Failed(g)
  ELSE LET c == Min(FreeCells(g))
           b == c * CellBlocks
       IN Done([PutRecord(g, <<b, 0>>, ZeroRecord) EXCEPT
                  !.rt[c] = "rsvd", !.arena = b, !.tblHint = b,
                  !.free = @ - CellBlocks, !.rsvd = @ + CellBlocks], <<b, 0>>)

-----------------------------------------------------------------------------
(* Refinement *)

(* The state is flipped first, so that a new arena is another cell. *)
RefineL0(g, c) ==
  Then(AllocRecord([g EXCEPT !.rt[c] = "refined"]),
       LAMBDA h, r : Done([h EXCEPT !.ref[c] = r], r))

RefineL1(g, l0, i) ==
  Then(AllocRecord(g),
       LAMBDA h, r : Done(PutRecord(h, l0, [h.recs[l0] EXCEPT !.st[i] = "refined", !.ref[i] = r]), r))

-----------------------------------------------------------------------------
(* Allocation *)

(* Mutant: the counters are moved by one block, whatever the size. *)
AccountAllocOne(g, n) == [g EXCEPT !.free = @ - 1, !.full = @ + 1]
AccountAlloc(g, n) == [g EXCEPT !.free = @ - n, !.full = @ + n]

(* The children S of record r become full, for n blocks. *)
Fill(g, r, S, n) == AccountAlloc(PutRecord(g, r, SetKids(g.recs[r], S, "full")), n)

Refined(g) == {c \in Cells : g.rt[c] = "refined"}
Readable(g, c) == g.ref[c] \in DOMAIN g.recs

AllocL0(g, k) ==
  LET starts == {c \in Cells : \A d \in c .. c + k - 1 : d \in FreeCells(g)} IN
  IF starts = {} THEN Failed(g)
  ELSE LET taken == Min(starts) .. Min(starts) + k - 1 IN
       Done([AccountAlloc(g, k * CellBlocks) EXCEPT
               !.rt = [c \in Cells |-> IF c \in taken THEN "full" ELSE @[c]]],
            Min(starts) * CellBlocks)

(* A scan over the refined cells stops at the first that has what it looks *)
(* for, or with an error at one whose record it cannot read.               *)
Scan(g, Has(_)) == {c \in Refined(g) : Readable(g, c) => Has(g.recs[g.ref[c]])}

AllocL1(g, m) ==
  LET found == Scan(g, LAMBDA rec : Runs(rec, m) # {})
      from(c, l0) ==
        Done([Fill(g, l0, Min(Runs(g.recs[l0], m)) .. Min(Runs(g.recs[l0], m)) + m - 1, m * Fanout)
                EXCEPT !.cellHint = c],
             c * CellBlocks + Min(Runs(g.recs[l0], m)) * Fanout)
      afresh(c) ==
        Then(RefineL0(g, c), LAMBDA h, r : Done(Fill(h, r, 0 .. m - 1, m * Fanout), c * CellBlocks))
      at(c) == IF Readable(g, c) THEN from(c, g.ref[c]) ELSE Failed(g)
  IN CASE found # {} -> at(FirstFrom(found, g.cellHint))
       [] found = {} /\ FreeCells(g) # {} -> afresh(Min(FreeCells(g)))
       [] OTHER -> Failed(g)

(* The children of an L0 record whose blocks have a free run of n. *)
KidsWithRun(g, rec, n) ==
  {i \in Kids : rec.st[i] = "refined" /\ Runs(g.recs[rec.ref[i]], n) # {}}
FreeKids(rec) == {i \in Kids : rec.st[i] = "free"}

(* Pass 1 of alloc_l2: n blocks in a row of a refined L1 cell of cell c. *)
TakeRun(g, c, n) ==
  LET l0 == g.recs[g.ref[c]]
      i == Min(KidsWithRun(g, l0, n))
      within(l1, j) ==
        Done([Fill(g, l1, j .. j + n - 1, n) EXCEPT !.cellHint = c], c * CellBlocks + i * Fanout + j)
  IN IF Readable(g, c) THEN within(l0.ref[i], Min(Runs(g.recs[l0.ref[i]], n))) ELSE Failed(g)

(* Pass 2: refine a free L1 cell of cell c. *)
RefineFreeKid(g, c, n) ==
  LET in(i) == Then(RefineL1(g, g.ref[c], i), LAMBDA h, r :
                 Done([Fill(h, r, 0 .. n - 1, n) EXCEPT !.cellHint = c], c * CellBlocks + i * Fanout))
  IN IF Readable(g, c) THEN in(Min(FreeKids(g.recs[g.ref[c]]))) ELSE Failed(g)

(* Pass 3: refine a free cell, twice. *)
RefineFreeCell(g, c, n) ==
  Then(RefineL0(g, c), LAMBDA h0, r0 :
    Then(RefineL1(h0, r0, 0), LAMBDA h1, r1 : Done(Fill(h1, r1, 0 .. n - 1, n), c * CellBlocks)))

(* Mutant: no cell is seen to have a free L1 cell, so there is no pass 2. *)
WithFreeKidNone(g) == {}
WithFreeKid(g) == Scan(g, LAMBDA rec : FreeKids(rec) # {})

AllocL2(g, n) ==
  LET withRun == Scan(g, LAMBDA rec : KidsWithRun(g, rec, n) # {})
  IN CASE withRun # {} -> TakeRun(g, FirstFrom(withRun, g.cellHint), n)
       [] withRun = {} /\ WithFreeKid(g) # {} -> RefineFreeKid(g, FirstFrom(WithFreeKid(g), g.cellHint), n)
       [] withRun = {} /\ WithFreeKid(g) = {} /\ FreeCells(g) # {} ->
            RefineFreeCell(g, Min(FreeCells(g)), n)
       [] OTHER -> Failed(g)

CeilDiv(n, d) == (n + d - 1) \div d

AllocExtent(g, n) ==
  IF n >= CellBlocks THEN AllocL0(g, CeilDiv(n, CellBlocks))
  ELSE IF n > Fanout THEN AllocL1(g, CeilDiv(n, Fanout))
  ELSE AllocL2(g, n)

(* What a failed allocation h, which began in g, has written to its        *)
(* transaction: everything but the header, written last.  Callers that do  *)
(* not drop the transaction go on from here.                               *)
Kept(g, h) ==
  [h EXCEPT !.arena = g.arena, !.inoHint = g.inoHint,
            !.free = g.free, !.rsvd = g.rsvd, !.full = g.full]

-----------------------------------------------------------------------------
(* Freeing *)

AccountFree(g, n) == [g EXCEPT !.free = @ + n, !.full = @ - n]

(* Mutant: the cell stays refined. *)
CoarsenL0Never(g, c) == g

(* A cell none of whose children is in use any more is a free cell again.  *)
CoarsenL0(g, c) ==
  LET l0 == g.ref[c] IN
  IF AllFree(g.recs[l0])
  THEN [DropRecord(g, l0) EXCEPT !.rt[c] = "free", !.ref[c] = NoRef]
  ELSE g

(* One round of free_extent's loop, at block b: the size of what is freed  *)
(* is found in the states.                                                 *)
FreeUnit(g, b) ==
  LET c == b \div CellBlocks
      i == (b % CellBlocks) \div Fanout
      j == b % Fanout
      l0 == g.ref[c]
      l1 == g.recs[l0].ref[i]
  IN
  CASE g.rt[c] = "full" ->
         IF b % CellBlocks # 0 THEN Failed(g)
         ELSE Done([AccountFree(g, CellBlocks) EXCEPT !.rt[c] = "free"], CellBlocks)
    [] g.rt[c] = "refined" /\ g.recs[l0].st[i] = "full" ->
         IF b % Fanout # 0 THEN Failed(g)
         ELSE LET h == PutRecord(g, l0, SetKids(g.recs[l0], {i}, "free")) IN
              Done(CoarsenL0(AccountFree(h, Fanout), c), Fanout)
    [] g.rt[c] = "refined" /\ g.recs[l0].st[i] = "refined" ->
         IF g.recs[l1].st[j] # "full" THEN Failed(g)
         ELSE LET rec == SetKids(g.recs[l1], {j}, "free")
                  h == IF AllFree(rec)
                       THEN PutRecord(DropRecord(g, l1), l0,
                              [g.recs[l0] EXCEPT !.st[i] = "free", !.ref[i] = NoRef])
                       ELSE PutRecord(g, l1, rec)
              IN Done(CoarsenL0(AccountFree(h, 1), c), 1)
    [] OTHER -> Failed(g)

(* free_extent: val counts the blocks done, in at most n rounds. *)
FreeExtent(g, b, n) ==
  LET round(r) ==
        IF r.val >= n THEN r
        ELSE Then(r, LAMBDA h, done :
               Then(FreeUnit(h, b + done), LAMBDA h1, unit : Done(h1, done + unit)))
      after[k \in Nat] == IF k = 0 THEN Done(g, 0) ELSE round(after[k - 1])
  IN after[n]

(* Mutant: every run is taken to be made of blocks. *)
GranuleAtBlock(g, b) == Done(g, 1)

(* granule_at: the unit in which the run at block b was allocated.  It     *)
(* fails where the cell or the L1 cell of b holds no run.                  *)
GranuleAt(g, b) ==
  LET c == b \div CellBlocks
      cell == g.rt[c]
      l1 == g.recs[g.ref[c]].st[(b % CellBlocks) \div Fanout]
  IN CASE cell = "full" -> Done(g, CellBlocks)
       [] cell = "refined" /\ l1 = "full" -> Done(g, Fanout)
       [] cell = "refined" /\ l1 = "refined" -> Done(g, 1)
       [] OTHER -> Failed(g)

(* trim_run (extent.rs): of a run of n blocks at b, keep at least keep.    *)
(* val is the length kept.                                                 *)
TrimRun(g, b, n, keep) ==
  LET kept(unit) == Min({CeilDiv(keep, unit) * unit, n})
      freed(h, unit) == Then(FreeExtent(h, b + kept(unit), n - kept(unit)),
                             LAMBDA f, done : Done(f, kept(unit)))
  IN Then(GranuleAt(g, b), freed)

-----------------------------------------------------------------------------
(* Inode slots *)

(* The record of the L1 cell of block b, and that of its slots if it has.  *)
L1Ref(g, b) == g.recs[g.ref[b \div CellBlocks]].ref[(b % CellBlocks) \div Fanout]
SlotRef(g, b) == g.recs[L1Ref(g, b)].ref[b % Fanout]
SlotRefined(g, b) ==
  LET c == b \div CellBlocks
      l0 == g.recs[g.ref[c]]
      i == (b % CellBlocks) \div Fanout
  IN /\ g.rt[c] = "refined"
     /\ l0.st[i] = "refined"
     /\ g.recs[l0.ref[i]].st[b % Fanout] = "refined"

FreeSlots(g, b) == {s \in 0 .. Slots - 1 : g.recs[SlotRef(g, b)].st[s] = "free"}

(* What is in the slots of the slot blocks, "zero" or "inode".  Blocks that *)
(* are none hold whatever they held before.                                *)
SlotsIn(b) == {b} \X (0 .. Slots - 1)
(* Mutant: a new slot block is not cleared. *)
ZeroSlotsNever(g, b) == g
ZeroSlots(g, b) ==
  [g EXCEPT !.slots = [x \in DOMAIN @ \cup SlotsIn(b) |-> IF x \in SlotsIn(b) THEN "zero" ELSE @[x]]]
ForgetSlots(g, b) == [g EXCEPT !.slots = [x \in DOMAIN @ \ SlotsIn(b) |-> @[x]]]
WriteSlot(g, ino, content) == [g EXCEPT !.slots[ino] = content]

AllocInode(g) ==
  LET b == g.inoHint IN
  IF b # 0 /\ SlotRefined(g, b) /\ FreeSlots(g, b) # {}
  THEN LET s == Min(FreeSlots(g, b))
           r == SlotRef(g, b)
       IN Done(PutRecord(g, r, SetKids(g.recs[r], {s}, "full")), <<b, s>>)
  ELSE Then(AllocExtent(g, 1), LAMBDA h0, block :  \* a new slot block
         Then(AllocRecord(ZeroSlots(h0, block)), LAMBDA h, r :
           LET refined == PutRecord(h, L1Ref(h, block), [h.recs[L1Ref(h, block)] EXCEPT
                            !.st[block % Fanout] = "refined", !.ref[block % Fanout] = r])
           IN Done([PutRecord(refined, r, SetKids(ZeroRecord, {0}, "full")) EXCEPT !.inoHint = block],
                   <<block, 0>>)))

(* Mutant: the hint is left on a slot block that is gone. *)
DropHintNever(g, b) == g
DropHint(g, b) == [g EXCEPT !.inoHint = IF @ = b THEN 0 ELSE @]

FreeInode(g, b, s) ==
  LET l3 == SlotRef(g, b)
      l1 == L1Ref(g, b)
      rec == SetKids(g.recs[l3], {s}, "free")
      asBlock == PutRecord(DropRecord(ForgetSlots(g, b), l3), l1,
                   [g.recs[l1] EXCEPT !.st[b % Fanout] = "full", !.ref[b % Fanout] = NoRef])
  IN CASE ~SlotRefined(g, b) -> Failed(g)
       [] SlotRefined(g, b) /\ ~AllFree(rec) ->
            Done([PutRecord(WriteSlot(g, <<b, s>>, "zero"), l3, rec) EXCEPT !.inoHint = b], 0)
       [] OTHER -> Then(FreeExtent(asBlock, b, 1), LAMBDA h, done : Done(DropHint(h, b), 0))

-----------------------------------------------------------------------------
(* mkfs: a header cell, and for AG 0 an arena and the slot block of the    *)
(* root directory's inode, and a last cell for the backup superblock.  An  *)
(* AG of add_ag has neither.                                               *)

NewGroup ==
  [rt |-> [c \in Cells |-> IF c = 0 THEN "rsvd" ELSE "free"],
   ref |-> [c \in Cells |-> NoRef],
   recs |-> [r \in {} |-> ZeroRecord],
   slots |-> [x \in {} |-> "zero"],
   arena |-> 0, inoHint |-> 0,
   free |-> (CellCount - 1) * CellBlocks, rsvd |-> CellBlocks, full |-> 0,
   tblHint |-> 0, cellHint |-> 0]

RootBlock == 2 * CellBlocks
FirstGroup ==
  LET a == CellBlocks
      At(k) == <<a + k \div RecordsPerBlock, k % RecordsPerBlock>>
      first(st, ref) ==
        [st |-> [i \in Kids |-> IF i = 0 THEN st ELSE "free"],
         ref |-> [i \in Kids |-> IF i = 0 THEN ref ELSE NoRef]]
      used == CASE CellCount - 1 > 2 -> {0, 1, CellCount - 1} [] OTHER -> {0, 1}
  IN [rt |-> [c \in Cells |-> IF c \in used THEN "rsvd"
                             ELSE IF c = 2 THEN "refined" ELSE "free"],
      ref |-> [c \in Cells |-> IF c = 2 THEN At(0) ELSE NoRef],
      recs |-> [r \in {At(0), At(1), At(2)} |->
                  IF r = At(0) THEN first("refined", At(1))
                  ELSE IF r = At(1) THEN first("refined", At(2))
                  ELSE first("full", NoRef)],
      slots |-> [x \in SlotsIn(RootBlock) |-> IF x[2] = 0 THEN "inode" ELSE "zero"],
      arena |-> a, inoHint |-> RootBlock,
      free |-> (CellCount - Cardinality(used)) * CellBlocks - 1,
      rsvd |-> Cardinality(used) * CellBlocks, full |-> 1,
      tblHint |-> 0, cellHint |-> 0]

-----------------------------------------------------------------------------
(* What a walk of the tree sees *)

Blocks == 0 .. CellCount * CellBlocks - 1

(* The state of block b as the tree has it. *)
StateOf(g, b) ==
  LET c == b \div CellBlocks
      l0 == g.recs[g.ref[c]]
      i == (b % CellBlocks) \div Fanout
  IN IF g.rt[c] # "refined" THEN g.rt[c]
     ELSE IF l0.st[i] # "refined" THEN l0.st[i]
     ELSE g.recs[l0.ref[i]].st[b % Fanout]
Allocated(g) == {b \in Blocks : StateOf(g, b) \in {"full", "refined"}}
=============================================================================
