------------------------------- MODULE Resize -------------------------------
(***************************************************************************)
(* The AG map and online resize: add_ag, grow, relocate, retire and shrink *)
(* of resize.rs, with load_agmap, write_agmap and write_superblock of      *)
(* fs.rs, on a device that may lose power between any two writes.          *)
(*                                                                         *)
(* The two copies of the map and the two superblocks are not journaled:    *)
(* write_agmap and write_superblock put all four in one epoch.  What       *)
(* allocates or frees in a group is one transaction, which Journal shows   *)
(* to be atomic and durable; what is left of it here is that its record    *)
(* stays in the log until the superblock that skips it is synced, and that *)
(* replay finds the group through the map.                                 *)
(*                                                                         *)
(* Space is counted in units of the buffer relocate copies with, and a     *)
(* group has one segment, as all the code makes them.  AG 0, which never   *)
(* moves and holds map, superblock and log, is the first BootLength units; *)
(* group i of the sequence entries is AG i.  A step of the code that fails *)
(* before it changes anything is no step here.                             *)
(***************************************************************************)
EXTENDS Device, Integers, Sequences, FiniteSets

CONSTANTS
  BootLength,     \* units of AG 0
  InitialGroups,  \* mkfs makes this many groups right after AG 0,
  InitialLength,  \* of this many units each
  MinLength,      \* the least units of a group: 1024 blocks in the code
  Lengths,        \* lengths asked of add_ag
  MaxSize,        \* bound: units of the device
  MaxGroups,      \* bound: groups ever made; they fit a copy of the map
  MaxOps,         \* bound: operations begun
  MaxCuts,        \* bound: power cuts
  MaxTorn,        \* bound: torn writes, over all power cuts
  Risks           \* bound: which calls the runs make that the code does not survive

ASSUME SizeAssumption ==
  /\ BootLength \in Nat \ {0} /\ MinLength \in Nat \ {0}
  /\ InitialGroups \in Nat
  /\ InitialLength \in Nat /\ InitialLength >= MinLength
  /\ Lengths \subseteq Nat
  /\ MaxSize \in Nat /\ BootLength + InitialGroups * InitialLength <= MaxSize
ASSUME BoundAssumption ==
  /\ MaxGroups \in Nat \ {0} /\ MaxOps \in Nat /\ MaxCuts \in Nat /\ MaxTorn \in Nat
  /\ Risks \subseteq {"overlap", "mismatch", "lag", "staleCopy"}

VARIABLES
  pc,      \* the phase of the program: see Phases
  size,    \* dev.size
  sb,      \* self.sb: [kind, gen, nextAg, seq]
  map,     \* self.map: [kind, gen, entries]
  op,      \* the locals of add_ag, relocate and retire: [kind, ag, at, length, done]
  limit,   \* the new_size of the shrink under way, or NoLimit
  intent,  \* history: what the groups will be once op is done, or None
  ops, cuts, torn  \* how much of MaxOps, MaxCuts and MaxTorn is used

memVars == <<pc, sb, map, op, limit, intent>>
faultVars == <<cuts, torn>>
vars == <<deviceVars, size, memVars, ops, faultVars>>

Phases ==
  {"down", "replay",                       \* open
   "idle",
   "addSync", "copy", "copySync",          \* before the map is written
   "writeMap", "mapSync",
   "shrink"}                               \* the top of shrink's loop

-----------------------------------------------------------------------------
(* Locations and what is stored in them *)

MapCopy(i) == <<"map", i>>
Primary == <<"sb", 0>>
Backup == <<"sb", 1>>
Log == <<"log", 0>>
P(i) == <<"unit", i>>
Units == 0 .. MaxSize - 1
Loc == {MapCopy(0), MapCopy(1), Primary, Backup, Log} \cup {P(i) : i \in Units}

AgMap(gen, entries) == [kind |-> "map", gen |-> gen, entries |-> entries]
Superblock(gen, nextAg, seq) == [kind |-> "sb", gen |-> gen, nextAg |-> nextAg, seq |-> seq]
Txn(seq, ag, full) == [kind |-> "txn", seq |-> seq, ag |-> ag, full |-> full]
(* The first unit of a group has its header, whose full_blocks counts what *)
(* is allocated; the others hold data once something is.                   *)
Header(ag, length, full) == [kind |-> "header", ag |-> ag, length |-> length, full |-> full]
Data(ag, i) == [kind |-> "data", ag |-> ag, part |-> i]
Zero == [kind |-> "zero"]

Entry(at, length) == [present |-> TRUE, at |-> at, length |-> length]
Retired(e) == [e EXCEPT !.present = FALSE, !.at = 0]

None == <<"none">>
NoOp == [kind |-> "none", ag |-> 0, at |-> 0, length |-> 0, done |-> 0]
NoLimit == MaxSize + 1
NoMap == AgMap(0, <<>>)
NoSuperblock == Superblock(0, 0, 0)

-----------------------------------------------------------------------------
(* The map *)

Ids(entries) == {i \in DOMAIN entries : entries[i].present}
End(e) == e.at + e.length
MaxOf(S) == CHOOSE x \in S : \A y \in S : y <= x

(* The segments of all groups, AG 0 included: <<start, end>>. *)
Segments(entries) ==
  {<<0, BootLength>>} \cup {<<entries[i].at, End(entries[i])>> : i \in Ids(entries)}
MappedEnd(entries) == MaxOf({s[2] : s \in Segments(entries)})

(* Mutant of Overlaps: the groups after the one that moves are not looked at. *)
OverlapsEarlier(entries, at, length, skip) ==
  \/ at < BootLength
  \/ \E i \in Ids(entries) :
       i < skip /\ at < End(entries[i]) /\ entries[i].at < at + length

(* overlaps_excluding; there is no group 0 - 1 to skip. *)
Overlaps(entries, at, length, skip) ==
  \/ at < BootLength
  \/ \E i \in Ids(entries) :
       i # skip /\ at < End(entries[i]) /\ entries[i].at < at + length

NoGap == MaxSize + 1
Least(a, b) == IF a < b THEN a ELSE b

(* Mutant of FindGap: what is behind the last segment is not looked at.    *)
FindGapBetween(entries, length, below) ==
  LET cursor(s) == MaxOf({0} \cup {t[2] : t \in {u \in Segments(entries) : u[1] < s[1]}})
      roomy == {s \in Segments(entries) :
                  /\ s[1] > cursor(s)
                  /\ Least(s[1], below) - cursor(s) >= length}
  IN IF roomy # {}
     THEN cursor(CHOOSE s \in roomy : \A t \in roomy : s[1] <= t[1])
     ELSE NoGap

(* find_gap: the first gap, in the order of the segments, that has room    *)
(* below the limit.                                                        *)
FindGap(entries, length, below) ==
  LET cursor(s) == MaxOf({0} \cup {t[2] : t \in {u \in Segments(entries) : u[1] < s[1]}})
      roomy == {s \in Segments(entries) :
                  /\ s[1] > cursor(s)
                  /\ Least(s[1], below) - cursor(s) >= length}
      last == MappedEnd(entries)
  IN CASE roomy # {} -> cursor(CHOOSE s \in roomy : \A t \in roomy : s[1] <= t[1])
       [] roomy = {} /\ below - last >= length -> last
       [] OTHER -> NoGap

(* load_agmap: the valid copy with the highest generation, the first if    *)
(* they are equal.                                                         *)
MapFound(img) == img[MapCopy(0)].kind = "map" \/ img[MapCopy(1)].kind = "map"
LoadAgmap(img) ==
  LET a == img[MapCopy(0)]
      b == img[MapCopy(1)]
  IN IF a.kind # "map" \/ (b.kind = "map" /\ b.gen > a.gen) THEN b ELSE a

-----------------------------------------------------------------------------
(* What a recovery of an image finds *)

SuperblockFound(img) == img[Primary].kind = "sb" \/ img[Backup].kind = "sb"
LoadSuperblock(img) == IF img[Primary].kind = "sb" THEN img[Primary] ELSE img[Backup]

(* The state of group i, if entry e is where it lies: its header is there, *)
(* with its own id and length, and all its data.                           *)
StateAt(img, i, e) ==
  LET h == img[P(e.at)] IN
  IF ~e.present THEN "retired"
  ELSE IF h.kind # "header" \/ h.ag # i \/ h.length # e.length THEN "broken"
  ELSE IF ~h.full THEN "empty"
  ELSE IF \A k \in 1 .. e.length - 1 : img[P(e.at + k)] = Data(i, k) THEN "full"
  ELSE "broken"

View(img, entries) == [i \in DOMAIN entries |-> StateAt(img, i, entries[i])]
Recoverable == View(durable, LoadAgmap(durable).entries)
Header0(ag) == cache[P(map.entries[ag].at)]

-----------------------------------------------------------------------------
(* mkfs: AG 0 and empty groups behind it *)

InitialAt(i) == BootLength + (i - 1) * InitialLength
Init ==
  LET entries == [i \in 1 .. InitialGroups |-> Entry(InitialAt(i), InitialLength)] IN
  /\ durable = [l \in Loc |->
       IF l \in {MapCopy(0), MapCopy(1)} THEN AgMap(1, entries)
       ELSE IF l \in {Primary, Backup} THEN Superblock(1, InitialGroups + 1, 1)
       ELSE IF \E i \in 1 .. InitialGroups : l = P(InitialAt(i))
            THEN Header(CHOOSE i \in 1 .. InitialGroups : l = P(InitialAt(i)), InitialLength, FALSE)
       ELSE Zero]
  /\ cache = durable
  /\ pending = {}
  /\ pc = "down"
  /\ size = InitialAt(InitialGroups + 1)
  /\ sb = NoSuperblock /\ map = NoMap
  /\ op = NoOp /\ limit = NoLimit /\ intent = None
  /\ ops = 0 /\ cuts = 0 /\ torn = 0

-----------------------------------------------------------------------------
(* Gofs::open *)

SuperblockWrites(s) == [l \in {Primary, Backup} |-> s]
BackupOk(img, s) == img[Backup].kind = "sb" /\ img[Backup].gen = s.gen
NextSuperblock == [sb EXCEPT !.gen = @ + 1]

(* Mutant of Open: the second copy of the map is never looked for. *)
OpenFirstCopy ==
  /\ pc = "down"
  /\ SuperblockFound(cache) /\ cache[MapCopy(0)].kind = "map"
  /\ map' = cache[MapCopy(0)]
  /\ sb' = LoadSuperblock(cache)
  /\ pc' = "replay"
  /\ UNCHANGED <<deviceVars, size, op, limit, intent, ops, faultVars>>

(* The map is loaded, and left as it is even if one copy is torn; the      *)
(* superblocks are healed.                                                 *)
Open ==
  /\ pc = "down"
  /\ SuperblockFound(cache) /\ MapFound(cache)
  /\ map' = LoadAgmap(cache)
  /\ LET s == LoadSuperblock(cache)
         healed == [s EXCEPT !.gen = @ + 1]
     IN IF cache[Primary].kind = "sb" /\ BackupOk(cache, s)
        THEN sb' = s /\ UNCHANGED deviceVars
        ELSE sb' = healed /\ Pwrite(SuperblockWrites(healed))
  /\ pc' = "replay"
  /\ UNCHANGED <<size, op, limit, intent, ops, faultVars>>

(* The writes ws become durable with all that is pending, and a superblock *)
(* follows that is not synced: what commit and replay leave behind.        *)
Checkpointed(ws, s) ==
  /\ durable' = Overlay(cache, ws)
  /\ cache' = Overlay(durable', SuperblockWrites(s))
  /\ pending' = {<<l, s>> : l \in {Primary, Backup}}
  /\ sb' = s

HeaderWrite(ag, full) ==
  LET e == map.entries[ag] IN [l \in {P(e.at)} |-> Header(ag, e.length, full)]

(* replay of the last transaction, if the superblock does not skip it: its *)
(* blocks are found through the map.                                       *)
Replay ==
  /\ pc = "replay"
  /\ LET t == cache[Log] IN
     IF t.kind = "txn" /\ t.seq = sb.seq
     THEN /\ t.ag \in Ids(map.entries)
          /\ Checkpointed(HeaderWrite(t.ag, t.full), [NextSuperblock EXCEPT !.seq = @ + 1])
     ELSE UNCHANGED <<deviceVars, sb>>
  /\ pc' = "idle"
  /\ op' = NoOp /\ intent' = None
  /\ UNCHANGED <<size, map, limit, ops, faultVars>>

-----------------------------------------------------------------------------
(* A transaction that allocates in a group, or frees all of it, with the   *)
(* data it puts there                                                      *)

Commit(ag) ==
  /\ pc = "idle" /\ ops < MaxOps
  /\ ag \in Ids(map.entries)
  /\ Header0(ag).kind = "header"
  /\ LET e == map.entries[ag]
         full == ~Header0(ag).full
         units == IF full THEN {P(e.at + k) : k \in 1 .. e.length - 1} ELSE {}
         data == [l \in units |-> Data(ag, l[2] - e.at)]
         record == [l \in {Log} |-> Txn(sb.seq, ag, full)]
         ws == [l \in units \cup {Log, P(e.at)} |->
                  IF l \in units THEN data[l]
                  ELSE IF l = Log THEN record[l]
                  ELSE HeaderWrite(ag, full)[l]]
     IN Checkpointed(ws, [NextSuperblock EXCEPT !.seq = @ + 1])
  /\ ops' = ops + 1
  /\ UNCHANGED <<pc, map, op, limit, intent, size, faultVars>>

-----------------------------------------------------------------------------
(* add_ag and grow *)

View0 == View(cache, map.entries)

(* Map and superblock agree on how many groups there are. *)
Agreed == sb.nextAg = Len(map.entries) + 1

(* The checks, and the header of the new group: unreachable as yet.        *)
StartAdd(at, length) ==
  /\ length >= MinLength
  /\ Len(map.entries) < MaxGroups
  /\ Agreed \/ "mismatch" \in Risks
  /\ Pwrite([l \in {P(at)} |-> Header(sb.nextAg, length, FALSE)])
  /\ op' = [NoOp EXCEPT !.kind = "add", !.ag = sb.nextAg, !.at = at, !.length = length]
  /\ intent' = Append(View0, "empty")
  /\ pc' = "addSync"

(* The caller names a region of the device; the code does not check that.  *)
AddAg(at, length) ==
  /\ pc = "idle" /\ ops < MaxOps
  /\ at + length <= size
  /\ ~Overlaps(map.entries, at, length, 0 - 1)
  /\ StartAdd(at, length)
  /\ ops' = ops + 1
  /\ UNCHANGED <<size, sb, map, limit, faultVars>>

(* The file is extended first, and stays so if what is left is too short   *)
(* for a group.                                                            *)
Grow(newSize) ==
  /\ pc = "idle" /\ ops < MaxOps
  /\ newSize <= MaxSize
  /\ LET end == MappedEnd(map.entries) IN
     /\ newSize > end
     /\ size' = MaxOf({size, newSize})
     /\ IF newSize - end >= MinLength
        THEN StartAdd(end, newSize - end)
        ELSE UNCHANGED <<deviceVars, op, intent, pc>>
  /\ ops' = ops + 1
  /\ UNCHANGED <<sb, map, limit, faultVars>>

AddSync ==
  /\ pc = "addSync"
  /\ Sync
  /\ map' = [map EXCEPT !.entries = Append(@, Entry(op.at, op.length))]
  /\ sb' = [sb EXCEPT !.nextAg = op.ag + 1]
  /\ pc' = "writeMap"
  /\ UNCHANGED <<size, op, limit, intent, ops, faultVars>>

-----------------------------------------------------------------------------
(* relocate *)

(* The checks. *)
Movable(ag, dest) ==
  /\ ag \in Ids(map.entries)
  /\ LET length == map.entries[ag].length IN
     /\ dest + length <= size
     /\ ~Overlaps(map.entries, dest, length, ag)
     /\ ~Overlaps(map.entries, dest, length, 0 - 1) \/ "overlap" \in Risks

StartMove(ag, dest) ==
  /\ op' = [NoOp EXCEPT !.kind = "relocate", !.ag = ag, !.at = dest,
                        !.length = map.entries[ag].length]
  /\ pc' = "copy"
  /\ UNCHANGED <<deviceVars, size, sb, map, intent, faultVars>>

Relocate(ag, dest) ==
  /\ pc = "idle" /\ ops < MaxOps
  /\ Movable(ag, dest)
  /\ StartMove(ag, dest)
  /\ ops' = ops + 1
  /\ UNCHANGED limit

(* One round of the copying loop. *)
Copy ==
  /\ pc = "copy"
  /\ Pwrite([l \in {P(op.at + op.done)} |-> cache[P(map.entries[op.ag].at + op.done)]])
  /\ op' = [op EXCEPT !.done = @ + 1]
  /\ pc' = IF op.done + 1 = op.length THEN "copySync" ELSE "copy"
  /\ UNCHANGED <<size, sb, map, limit, intent, ops, faultVars>>

(* Mutant of CopySync: the map may land before the copy does. *)
CopyNotSynced ==
  /\ pc = "copySync"
  /\ map' = [map EXCEPT !.entries[op.ag].at = op.at]
  /\ pc' = "writeMap"
  /\ UNCHANGED <<deviceVars, size, sb, op, limit, intent, ops, faultVars>>

CopySync ==
  /\ pc = "copySync"
  /\ Sync
  /\ map' = [map EXCEPT !.entries[op.ag].at = op.at]
  /\ pc' = "writeMap"
  /\ UNCHANGED <<size, sb, op, limit, intent, ops, faultVars>>

-----------------------------------------------------------------------------
(* retire *)

Empty(ag) == Header0(ag).kind = "header" /\ ~Header0(ag).full

(* The superblock on the medium skips every transaction in the log. *)
LogDone == LoadSuperblock(durable).seq = sb.seq

StartRetire(ag) ==
  /\ map' = [map EXCEPT !.entries[ag] = Retired(@)]
  /\ op' = [NoOp EXCEPT !.kind = "retire", !.ag = ag]
  /\ intent' = [View0 EXCEPT ![ag] = "retired"]
  /\ pc' = "writeMap"
  /\ UNCHANGED <<deviceVars, size, sb, faultVars>>

Retire(ag) ==
  /\ pc = "idle" /\ ops < MaxOps
  /\ LogDone \/ "lag" \in Risks
  /\ ag \in Ids(map.entries)
  /\ Empty(ag)
  /\ StartRetire(ag)
  /\ ops' = ops + 1
  /\ UNCHANGED limit

-----------------------------------------------------------------------------
(* write_agmap and write_superblock, and the sync that ends every change   *)

MapWrites(m, s) ==
  [l \in {MapCopy(0), MapCopy(1), Primary, Backup} |->
     IF l \in {Primary, Backup} THEN s ELSE m]

WriteMap ==
  /\ pc = "writeMap"
  /\ map' = [map EXCEPT !.gen = @ + 1]
  /\ sb' = NextSuperblock
  /\ Pwrite(MapWrites(map', NextSuperblock))
  /\ pc' = "mapSync"
  /\ UNCHANGED <<size, op, limit, intent, ops, faultVars>>

(* Mutant of MapSync: the operation returns before the map is durable. *)
MapNotSynced ==
  /\ pc = "mapSync"
  /\ pc' = IF limit = NoLimit THEN "idle" ELSE "shrink"
  /\ op' = NoOp /\ intent' = None
  /\ UNCHANGED <<deviceVars, size, sb, map, limit, ops, faultVars>>

MapSync ==
  /\ pc = "mapSync"
  /\ Sync
  /\ pc' = IF limit = NoLimit THEN "idle" ELSE "shrink"
  /\ op' = NoOp /\ intent' = None
  /\ UNCHANGED <<size, sb, map, limit, ops, faultVars>>

-----------------------------------------------------------------------------
(* shrink *)

Beyond == {i \in Ids(map.entries) : End(map.entries[i]) > limit}
FirstBeyond == CHOOSE i \in Beyond : \A j \in Beyond : i <= j
Gap == FindGap(map.entries, map.entries[FirstBeyond].length, limit)

(* Mutant of Shrink: nothing keeps AG 0. *)
ShrinkToNothing(newSize) ==
  /\ pc = "idle" /\ ops < MaxOps
  /\ LogDone \/ "lag" \in Risks
  /\ limit' = newSize
  /\ pc' = "shrink"
  /\ ops' = ops + 1
  /\ UNCHANGED <<deviceVars, size, sb, map, op, intent, faultVars>>

Shrink(newSize) ==
  /\ pc = "idle" /\ ops < MaxOps
  /\ LogDone \/ "lag" \in Risks
  /\ newSize >= BootLength
  /\ limit' = newSize
  /\ pc' = "shrink"
  /\ ops' = ops + 1
  /\ UNCHANGED <<deviceVars, size, sb, map, op, intent, faultVars>>

(* One round of the loop: the first group beyond the new size is retired   *)
(* if it is empty and moved if there is room.                              *)
ShrinkRetire ==
  /\ pc = "shrink" /\ Beyond # {}
  /\ Empty(FirstBeyond)
  /\ StartRetire(FirstBeyond)
  /\ UNCHANGED <<limit, ops>>

ShrinkMove ==
  /\ pc = "shrink" /\ Beyond # {}
  /\ ~Empty(FirstBeyond)
  /\ Gap # NoGap /\ Movable(FirstBeyond, Gap)
  /\ StartMove(FirstBeyond, Gap)
  /\ UNCHANGED <<limit, ops>>

(* No room: what was moved stays moved, and the device keeps its size.     *)
ShrinkFail ==
  /\ pc = "shrink" /\ Beyond # {}
  /\ ~Empty(FirstBeyond)
  /\ Gap = NoGap
  /\ limit' = NoLimit
  /\ pc' = "idle"
  /\ UNCHANGED <<deviceVars, size, sb, map, op, intent, ops, faultVars>>

(* set_len: what is beyond is gone, and reads as zeros if it comes back.   *)
Truncated(img) ==
  [l \in Loc |-> IF \E i \in Units : i >= limit /\ l = P(i) THEN Zero ELSE img[l]]

ShrinkEnd ==
  /\ pc = "shrink" /\ Beyond = {}
  /\ durable' = Truncated(durable)
  /\ cache' = Truncated(cache)
  /\ pending' = {p \in pending : \A i \in Units : i >= limit => p[1] # P(i)}
  /\ size' = limit
  /\ limit' = NoLimit
  /\ pc' = "idle"
  /\ UNCHANGED <<sb, map, op, intent, ops, faultVars>>

-----------------------------------------------------------------------------
(* The environment *)

(* A cut tears the newer copy of the map or the superblock while the other *)
(* is torn too, or still one that an earlier cut left behind: recovery     *)
(* finds none, or goes back further than the last operation.               *)
GoesBack(img) ==
  \/ ~MapFound(img) \/ LoadAgmap(img).gen < LoadAgmap(durable).gen
  \/ ~SuperblockFound(img) \/ LoadSuperblock(img).gen < LoadSuperblock(durable).gen

Lands(img) ==
  /\ CutTo(img)
  /\ ~GoesBack(img) \/ "staleCopy" \in Risks

PowerCut ==
  /\ cuts < MaxCuts
  /\ \E S \in Landings :
       \/ Lands(AfterCut(S, {})) /\ UNCHANGED torn
       \/ /\ torn < MaxTorn
          /\ \E p \in S : Lands(AfterCut(S, {p[1]}))
          /\ torn' = torn + 1
  /\ cuts' = cuts + 1
  /\ pc' = "down"
  /\ sb' = NoSuperblock /\ map' = NoMap /\ limit' = NoLimit
  /\ UNCHANGED <<size, op, intent, ops>>

-----------------------------------------------------------------------------
Recover == Open \/ Replay
Call ==
  \/ \E ag \in 1 .. MaxGroups : Commit(ag) \/ Retire(ag)
  \/ \E at \in Units, length \in Lengths : AddAg(at, length)
  \/ \E n \in 0 .. MaxSize : Grow(n) \/ Shrink(n)
  \/ \E ag \in 1 .. MaxGroups, dest \in Units : Relocate(ag, dest)
Step ==
  \/ AddSync \/ Copy \/ CopySync \/ WriteMap \/ MapSync
  \/ ShrinkRetire \/ ShrinkMove \/ ShrinkFail \/ ShrinkEnd

Next == Recover \/ Call \/ Step \/ PowerCut

(* Once called, an operation runs on: nothing in it waits.                 *)
Fairness == WF_vars(Recover) /\ WF_vars(Step)
Spec == Init /\ [][Next]_vars /\ Fairness

-----------------------------------------------------------------------------
(* Properties *)

EntrySet == [present : BOOLEAN, at : 0 .. MaxSize, length : Nat]

(* The values every variable ranges over (the fields of Gofs, the locals). *)
TypeOK ==
  /\ DOMAIN durable = Loc /\ DOMAIN cache = Loc
  /\ \A p \in pending : p[1] \in Loc
  /\ pc \in Phases
  /\ size \in BootLength .. MaxSize
  /\ sb.kind = "sb" /\ sb.gen \in Nat /\ sb.nextAg \in Nat /\ sb.seq \in Nat
  /\ map.kind = "map" /\ map.gen \in Nat /\ map.entries \in Seq(EntrySet)
  /\ op.kind \in {"none", "add", "relocate", "retire"}
  /\ limit \in BootLength .. NoLimit
  /\ ops \in 0 .. MaxOps /\ cuts \in 0 .. MaxCuts /\ torn \in 0 .. MaxTorn

(* No two groups share a byte, none reaches past the end of the device and *)
(* none into AG 0, in memory and in what recovery would load: whatever     *)
(* order groups were added, moved and retired in (overlaps, mapped_end,    *)
(* shrink's set_len).                                                      *)
Apart(entries) ==
  /\ \A i \in Ids(entries) : BootLength <= entries[i].at /\ End(entries[i]) <= size
  /\ \A i, j \in Ids(entries) :
       i # j => End(entries[i]) <= entries[j].at \/ End(entries[j]) <= entries[i].at
SegmentsApart == Apart(map.entries) /\ Apart(LoadAgmap(durable).entries)

(* When an operation has returned, its result survives a power cut: the    *)
(* medium alone says what the program believes of every group, and that is *)
(* what the group holds (the sync that ends each operation).               *)
Durable ==
  pc \in {"idle", "shrink"} =>
    Recoverable = View(cache, map.entries) /\ \A i \in DOMAIN Recoverable : Recoverable[i] # "broken"

(* find_gap returns a gap that is one, and finds one whenever there is one. *)
GapSound ==
  \A length \in Lengths, below \in 0 .. size :
    LET g == FindGap(map.entries, length, below)
        fits(p) == p + length <= below /\ ~Overlaps(map.entries, p, length, 0 - 1)
    IN IF g = NoGap THEN \A p \in 0 .. size : ~fits(p) ELSE fits(g)

Store == INSTANCE GroupStore WITH groups <- Recoverable
(* A group is at every instant found whole at one place, whatever is cut:  *)
(* relocations and recoveries change nothing, an addition or retirement    *)
(* happens at once or not at all, ids are never reused and a retired group *)
(* does not come back (resize.rs, load_agmap).                             *)
ImplementsGroups == Store!Spec

(* Every operation ends, shrink's loop too, and every volume opens again.  *)
ComesToRest == []<>(pc = "idle")
=============================================================================
