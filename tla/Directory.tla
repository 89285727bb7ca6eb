----------------------------- MODULE Directory ------------------------------
(***************************************************************************)
(* One directory, dir.rs: entries embedded in the inode while they fit,    *)
(* else extendible hashing over buckets of one block each.                 *)
(*                                                                         *)
(* A table of 2^depth slots, indexed by the top bits of a name's hash,     *)
(* points at buckets.  A bucket of local depth ld holds the names whose    *)
(* top ld bits agree, and 2^(depth - ld) slots point at it.  A full bucket *)
(* is split by the next bit; buddies that fit one block are merged; freed  *)
(* bucket numbers are kept for later splits.                               *)
(*                                                                         *)
(* An operation is one transaction and one step.  One that fails changes   *)
(* nothing and is no step: here that is one for a name that exists (or     *)
(* does not), and one that would exceed MaxDepth or the header block.  The *)
(* blocks themselves are File's concern.  An operator that may fail yields *)
(* the set of the directories it may leave: one, or none.                  *)
(***************************************************************************)
EXTENDS Integers, Sequences, FiniteSets, SequencesExt, FiniteSetsExt, Functions

CONSTANTS
  Names, Inodes,
  HashBits,    \* bits of a hash, 64
  HashOf,      \* the hash of each name
  SizeOf,      \* the room of each name's entry, embedded (10 bytes and the name)
               \* or in a bucket (20 and the name): the constant is in the rooms
  EmbedRoom,   \* room in the inode's payload
  BucketRoom,  \* room in a bucket
  HeaderRoom,  \* table slots and freed bucket numbers that a header holds
  MaxDepth     \* MAX_DEPTH

(* The powers of two. *)
Pow2[n \in Nat] == IF n = 0 THEN 1 ELSE 2 * Pow2[n - 1]

ASSUME HashAssumption ==
  /\ HashBits \in Nat /\ MaxDepth \in 0 .. HashBits - 1
  /\ HashOf \in [Names -> 0 .. Pow2[HashBits] - 1]
ASSUME RoomAssumption ==
  /\ SizeOf \in [Names -> Nat \ {0}]
  /\ EmbedRoom \in Nat /\ BucketRoom \in Nat /\ HeaderRoom \in Nat

VARIABLE dir
(* fmt      "empty", "embed" or "hashed" (extent or tree)                  *)
(* embed    the embedded entries, <<name, inode>>, in order                *)
(* depth    the global depth                                               *)
(* table    slot -> bucket number                                          *)
(* buckets  number -> [ld, entries]; those on the freelist are empty       *)
(* free     the freelist                                                   *)

Slot(h, depth) == h \div Pow2[HashBits - depth]
NoBuckets == [depth |-> 0, table |-> << >>, buckets |-> << >>, free |-> << >>]
EmptyDir == [fmt |-> "empty", embed |-> << >>, hashed |-> NoBuckets]
NewBucket(ld) == [ld |-> ld, entries |-> {}]

Room(entries) == MapThenSumSet(LAMBDA e : SizeOf[e[1]], entries)

-----------------------------------------------------------------------------
(* Lookup *)

BucketOf(x, n) == x.table[Slot(HashOf[n], x.depth)]
InUse(x) == DOMAIN x.buckets \ Range(x.free)

(* dir_list. *)
Listing(d) ==
  IF d.fmt = "hashed" THEN UNION {d.hashed.buckets[b].entries : b \in InUse(d.hashed)}
  ELSE Range(d.embed)

(* dir_find: the entries of name n where a lookup looks for them. *)
Find(d, n) ==
  LET seen == IF d.fmt = "hashed" THEN d.hashed.buckets[BucketOf(d.hashed, n)].entries
              ELSE Range(d.embed)
  IN {e \in seen : e[1] = n}

-----------------------------------------------------------------------------
(* Insert, on the hashed part x *)

(* dhdr_write: the header must hold the table and the freelist. *)
HeaderFits(x) == Cardinality(DOMAIN x.table) + Len(x.free) <= HeaderRoom

Doubled(x) ==
  [x EXCEPT !.depth = @ + 1, !.table = [s \in 0 .. Pow2[x.depth + 1] - 1 |-> @[s \div 2]]]

(* Mutant: a bucket below the global depth is not split any more.          *)
AtLimitEarly(x, b) == x.depth >= MaxDepth
AtLimit(x, b) == x.buckets[b].ld = x.depth /\ x.depth >= MaxDepth

(* Mutant: the entries are parted by the bit after the next.               *)
GoesByNextBit(e, ld) == (HashOf[e[1]] \div Pow2[HashBits - 2 - ld]) % 2 = 1
(* Does entry e go to the new bucket when one of local depth ld is split?  *)
Goes(e, ld) == (HashOf[e[1]] \div Pow2[HashBits - 1 - ld]) % 2 = 1

(* Bucket b is split, with new for its buddy; the table has been doubled   *)
(* if it had to be.                                                        *)
SplitTo(x, b, new) ==
  LET ld == x.buckets[b].ld
      part(goes) == [ld |-> ld + 1, entries |-> {e \in x.buckets[b].entries : Goes(e, ld) = goes}]
      bit(s) == (s \div Pow2[x.depth - 1 - ld]) % 2
  IN [x EXCEPT
        !.buckets = [k \in DOMAIN @ \cup {new} |->
                       IF k = b THEN part(FALSE) ELSE IF k = new THEN part(TRUE) ELSE @[k]],
        !.table = [s \in DOMAIN @ |-> IF @[s] = b /\ bit(s) = 1 THEN new ELSE @[s]]]

(* Mutant: the freelist is read and not popped. *)
TakeNumberUnpopped(x) == x
TakeNumber(x) == IF x.free = << >> THEN x ELSE [x EXCEPT !.free = Front(@)]

Split(x, b) ==
  LET new == IF x.free = << >> THEN Cardinality(DOMAIN x.buckets) ELSE Last(x.free)
      wide == IF x.buckets[b].ld = x.depth THEN Doubled(x) ELSE x
      y == SplitTo(TakeNumber(wide), b, new)
  IN IF AtLimit(x, b) \/ ~HeaderFits(y) THEN {} ELSE {y}

(* hashed_insert: split the bucket of the name until its entry fits, which *)
(* takes MaxDepth splits at most.                                          *)
HashedInsert(x, e) ==
  LET fits(y) == Room(y.buckets[BucketOf(y, e[1])].entries) + SizeOf[e[1]] <= BucketRoom
      round(y) == IF fits(y) THEN {y} ELSE Split(y, BucketOf(y, e[1]))
      after[k \in Nat] == IF k = 0 THEN {x} ELSE UNION {round(y) : y \in after[k - 1]}
  IN {[y EXCEPT !.buckets[BucketOf(y, e[1])].entries = @ \cup {e}] : y \in after[MaxDepth + 1]}

(* dir_to_hashed: one bucket, then every embedded entry in turn. *)
ToHashed(entries) ==
  LET one == [depth |-> 0, table |-> [s \in {0} |-> 0], buckets |-> [b \in {0} |-> NewBucket(0)],
              free |-> << >>]
      after[k \in 0 .. Len(entries)] ==
        IF k = 0 THEN {one} ELSE UNION {HashedInsert(y, entries[k]) : y \in after[k - 1]}
  IN after[Len(entries)]

Hashed(x) == [fmt |-> "hashed", embed |-> << >>, hashed |-> x]

(* dir_insert. *)
Inserted(d, e) ==
  CASE d.fmt = "hashed" -> {Hashed(x) : x \in HashedInsert(d.hashed, e)}
    [] d.fmt # "hashed" /\ Room(Range(d.embed)) + SizeOf[e[1]] <= EmbedRoom ->
         {[d EXCEPT !.fmt = "embed", !.embed = Append(@, e)]}
    [] OTHER -> {Hashed(x) : x \in UNION {HashedInsert(x, e) : x \in ToHashed(d.embed)}}

-----------------------------------------------------------------------------
(* Remove *)

(* The slot of the buddy of the bucket at slot s. *)
BuddySlot(x, s) ==
  LET bit == Pow2[x.depth - x.buckets[x.table[s]].ld] IN
  IF (s \div bit) % 2 = 0 THEN s + bit ELSE s - bit

(* The slots whose bucket can be merged with its buddy. *)
Mergeable(x) ==
  {s \in DOMAIN x.table :
     LET b == x.buckets[x.table[s]] IN
     /\ b.ld > 0
     /\ x.table[BuddySlot(x, s)] # x.table[s]
     /\ x.buckets[x.table[BuddySlot(x, s)]].ld = b.ld
     /\ Room(b.entries) + Room(x.buckets[x.table[BuddySlot(x, s)]].entries) <= BucketRoom}

(* Mutant: the buddy is emptied before its entries are taken over. *)
MergeEmptied(x, b, gone) ==
  [x EXCEPT !.buckets[b].ld = @ - 1,
            !.buckets[gone] = NewBucket(0),
            !.table = [s \in DOMAIN @ |-> IF @[s] = gone THEN b ELSE @[s]],
            !.free = Append(@, gone)]

(* Mutant: the freed bucket is left as it was. *)
MergeUncleared(x, b, gone) ==
  [x EXCEPT !.buckets[b] = [ld |-> @.ld - 1, entries |-> @.entries \cup x.buckets[gone].entries],
            !.table = [s \in DOMAIN @ |-> IF @[s] = gone THEN b ELSE @[s]],
            !.free = Append(@, gone)]

Merge(x, b, gone) ==
  [x EXCEPT !.buckets[b] = [ld |-> @.ld - 1, entries |-> @.entries \cup x.buckets[gone].entries],
            !.buckets[gone] = NewBucket(0),
            !.table = [s \in DOMAIN @ |-> IF @[s] = gone THEN b ELSE @[s]],
            !.free = Append(@, gone)]

(* The table, all of whose pairs of slots agree, is halved. *)
Halvable(x) == \A s \in DOMAIN x.table : x.table[s] = x.table[2 * (s \div 2)]
Halved(x) ==
  [x EXCEPT !.depth = @ - 1, !.table = [s \in 0 .. Pow2[x.depth - 1] - 1 |-> @[2 * s]]]

(* One round of try_merge's loop. *)
MergeRound(x) ==
  LET s == Min(Mergeable(x))
      y == Merge(x, x.table[s], x.table[BuddySlot(x, s)])
  IN CASE x.depth = 0 -> {x}
       [] x.depth > 0 /\ Mergeable(x) # {} -> IF HeaderFits(y) THEN {y} ELSE {}
       [] x.depth > 0 /\ Mergeable(x) = {} /\ Halvable(x) -> {Halved(x)}
       [] OTHER -> {x}

(* Mutant: the buddies are merged once, not for as long as they can be. *)
TryMergeOnce(x) == MergeRound(x)
(* Merging ends after fewer rounds than there are buckets and depths. *)
TryMerge(x) ==
  LET after[k \in Nat] == IF k = 0 THEN {x} ELSE UNION {MergeRound(y) : y \in after[k - 1]}
  IN after[Pow2[MaxDepth + 1]]

(* dir_remove, of an entry that a lookup finds. *)
Removed(d, e) ==
  LET x == d.hashed
      left == [x EXCEPT !.buckets[BucketOf(x, e[1])].entries = @ \ {e}]
      repacked == RemoveAt(d.embed, CHOOSE i \in DOMAIN d.embed : d.embed[i] = e)
  IN CASE d.fmt = "hashed" ->
            {IF Listing(Hashed(y)) = {} THEN EmptyDir ELSE Hashed(y) : y \in TryMerge(left)}
       [] d.fmt = "embed" -> {IF repacked = << >> THEN EmptyDir ELSE [d EXCEPT !.embed = repacked]}

-----------------------------------------------------------------------------
(* dir_check, which fsck calls: the problems it reports. *)

DirCheck(d) ==
  LET x == d.hashed
      freed == Range(x.free)
      inTable(S) == {s \in DOMAIN x.table : x.table[s] \in S}
  IN IF d.fmt # "hashed" THEN {}
     ELSE {<<"no such bucket", s>> : s \in DOMAIN x.table \ inTable(DOMAIN x.buckets)}
            \cup {<<"freed bucket", s>> : s \in inTable(freed)}
            \cup {<<"freelist", b>> : b \in freed \ DOMAIN x.buckets}
            \cup {<<"local depth", b>> : b \in {b \in InUse(x) : x.buckets[b].ld > x.depth}}
            \cup UNION {{<<"wrong bucket", e>> : e \in {e \in x.buckets[b].entries :
                                                        BucketOf(x, e[1]) # b}} : b \in InUse(x)}

-----------------------------------------------------------------------------

Init == dir = EmptyDir

InsertEntry(n, i) ==
  /\ Find(dir, n) = {}
  /\ dir' \in Inserted(dir, <<n, i>>)

RemoveEntry(n) == \E e \in Find(dir, n) : dir' \in Removed(dir, e)

Next == \E n \in Names : RemoveEntry(n) \/ \E i \in Inodes : InsertEntry(n, i)

Spec == Init /\ [][Next]_dir

-----------------------------------------------------------------------------
(* Properties *)

x0 == dir.hashed

TypeOK ==
  /\ dir.fmt \in {"empty", "embed", "hashed"}
  /\ dir.embed \in Seq(Names \X Inodes)
  /\ x0.depth \in 0 .. MaxDepth
  /\ Range(x0.free) \subseteq DOMAIN x0.buckets
  /\ dir.fmt = "hashed" => x0.table \in [0 .. Pow2[x0.depth] - 1 -> DOMAIN x0.buckets]
  /\ \A b \in DOMAIN x0.buckets :
       x0.buckets[b] \in [ld : 0 .. x0.depth, entries : SUBSET (Names \X Inodes)]

(* A directory is a map from names to inodes: inserts and removals that    *)
(* split, double, merge, halve, convert and collapse change what dir_list  *)
(* shows by the one entry they are about.                                  *)
Map == INSTANCE NameMap WITH entries <- Listing(dir)
ImplementsMap == Map!Spec

(* What is listed is found, and fsck has nothing to say of the directory:  *)
(* every entry is in the bucket that its hash and the table lead to.       *)
LookupFinds ==
  /\ \A e \in Listing(dir) : Find(dir, e[1]) = {e}
  /\ DirCheck(dir) = {}

(* The table and the buckets agree: just the slots whose top ld bits are   *)
(* some one number point at a bucket of local depth ld, no slot points at  *)
(* a freed bucket, and freed ones are listed once.                         *)
TableSound ==
  dir.fmt = "hashed" =>
    /\ \A b \in InUse(x0) : \E top \in 0 .. Pow2[x0.buckets[b].ld] - 1 :
         {s \in DOMAIN x0.table : x0.table[s] = b}
           = {s \in DOMAIN x0.table : s \div Pow2[x0.depth - x0.buckets[b].ld] = top}
    /\ Range(x0.table) = InUse(x0)
    /\ Cardinality(Range(x0.free)) = Len(x0.free)

(* Directories shrink: no two buddies fit one block, the table is not      *)
(* wider than its deepest bucket needs, and no empty one stays hashed      *)
(* (try_merge, dir_remove).                                                *)
Compact ==
  dir.fmt = "hashed" =>
    /\ Mergeable(x0) = {}
    /\ \E b \in InUse(x0) : x0.buckets[b].ld = x0.depth
    /\ Listing(dir) # {}

(* An insert fails only for names that no table of MaxDepth could part:    *)
(* with those whose hash begins alike, the new one overflows a bucket.     *)
AlikeRoom(entries, n) ==
  Room({e \in entries : Slot(HashOf[e[1]], MaxDepth) = Slot(HashOf[n], MaxDepth)})
NoFalseFull ==
  \A n \in Names, i \in Inodes :
    Find(dir, n) = {} /\ Inserted(dir, <<n, i>>) = {} =>
      AlikeRoom(Listing(dir), n) + SizeOf[n] > BucketRoom

(* What is in a directory can be removed from it, whatever its buckets     *)
(* merge to (doc/5-directories.md:60-63, dir_remove and try_merge).        *)
RemovalSucceeds == \A e \in Listing(dir) : Removed(dir, e) # {}
=============================================================================
