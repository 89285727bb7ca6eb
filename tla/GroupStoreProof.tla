---------------------------- MODULE GroupStoreProof ----------------------------
(***************************************************************************)
(* Proof that Resize implements GroupStore: for devices, groups and calls  *)
(* of every number and size, what a recovery of the medium would find is,  *)
(* at every instant, groups that are added, filled, emptied and retired    *)
(* whole; and an operation that returned survives a power cut.             *)
(*                                                                         *)
(* The calls that the code does not survive are left out (Risks = {}); the *)
(* rest is what the code does about the others: what is written before the *)
(* map refers to it lies where no group does, what the map is about to     *)
(* refer to is durable, and the transaction in the log is either skipped   *)
(* by every superblock a recovery may load, or changes nothing.            *)
(***************************************************************************)
EXTENDS ResizeProof

-----------------------------------------------------------------------------
(* The invariant                                                           *)

(* What recovery would load, and the superblocks it may load from copy l   *)
(* after a power cut.                                                      *)
Loaded == LoadSuperblock(durable)
MayLoad(l) ==
  {s \in {durable[l]} \cup {p[2] : p \in {q \in pending : q[1] = l}} : s.kind = "sb"}

(* Superblocks count transactions: of two that may both be found, the one  *)
(* in the backup is not behind if it is not older, none under way is       *)
(* behind the one on the medium, and none is ahead of self.sb.             *)
SbInv ==
  /\ SuperblockFound(durable)
  /\ \A s \in MayLoad(Primary), t \in MayLoad(Backup) : s.gen <= t.gen => s.seq <= t.seq
  /\ \A p \in pending :
       p[1] \in SbCopies => p[2].gen >= Loaded.gen /\ p[2].seq >= Loaded.seq
  /\ \A l \in SbCopies :
       cache[l] = durable[l] \/ \E p \in pending : p[1] = l /\ p[2] = cache[l]
  /\ pc # "down" =>
       /\ cache[Primary].kind = "sb" /\ cache[Primary].gen = sb.gen /\ cache[Primary].seq = sb.seq
       /\ cache[Backup].kind = "sb" /\ cache[Backup].gen = sb.gen
       /\ sb.gen >= Loaded.gen /\ sb.seq >= Loaded.seq
       /\ \A s \in MayLoad(Primary) : s.seq <= sb.seq
  /\ pc = "down" => pending = {} /\ cache = durable

(* The superblocks that recovery may start from after a cut that does not  *)
(* go back.                                                                *)
Reachable == {s \in MayLoad(Primary) \cup MayLoad(Backup) : s.gen >= Loaded.gen}

(* None of them replays the transaction in the log, or to replay it        *)
(* changes nothing.                                                        *)
Skipped == \A s \in Reachable : durable[Log].seq < s.seq
Applied ==
  /\ durable[Log].ag \in DOMAIN Recoverable
  /\ Recoverable[durable[Log].ag] = IF durable[Log].full THEN "full" ELSE "empty"

(* A group is retired, and the device is cut off, only once the log is     *)
(* skipped.                                                                *)
Retiring == limit # NoLimit \/ (op.kind = "retire" /\ pc \in {"writeMap", "mapSync"})
LogInv ==
  /\ cache[Log] = durable[Log] /\ \A p \in pending : p[1] # Log
  /\ durable[Log].kind = "txn" =>
       /\ durable[Log].seq \in Nat
       /\ \A s \in Reachable : durable[Log].seq <= s.seq
       /\ Skipped \/ Applied
       /\ pc \notin {"down", "replay"} => durable[Log].seq < sb.seq
       /\ Retiring => Skipped

(* The units that an operation writes before the map refers to them.       *)
Touched ==
  IF pc = "addSync" THEN {op.at}
  ELSE IF pc \in {"copy", "copySync"} THEN op.at .. op.at + op.length - 1
  ELSE {}
UnitInv ==
  \A u \in Units \ Touched :
    cache[P(u)] = durable[P(u)] /\ \A p \in pending : p[1] # P(u)

(* The groups a recovery would find if the map in memory were durable.     *)
Target == View(durable, map.entries)
Unbroken(groups) == \A i \in DOMAIN groups : groups[i] # "broken"

(* Every group is whole, and what the operation under way has written so   *)
(* far is what it takes to make its outcome so.                            *)
GroupInv ==
  /\ Unbroken(Recoverable)
  /\ pc \in {"down", "replay", "idle"} => limit = NoLimit
  /\ pc \in {"idle", "shrink", "copy", "copySync"} => intent = None
  /\ pc = "addSync" =>
       /\ op.kind = "add" /\ op.ag = Len(map.entries) + 1
       /\ cache[P(op.at)] = Header(op.ag, op.length, FALSE)
       /\ intent = Append(Recoverable, "empty")
  /\ pc \in {"copy", "copySync"} =>
       /\ op.kind = "relocate"
       /\ FreePlace(map.entries, op.at, op.length, 0 - 1, size)
       /\ \A k \in 0 .. op.done - 1 :
            cache[P(op.at + k)] = cache[P(map.entries[op.ag].at + k)]
  /\ pc = "copySync" => op.done = op.length
  /\ pc \in {"writeMap", "mapSync"} =>
       /\ Unbroken(Target)
       /\ op.kind \in {"add", "relocate", "retire"}
       /\ op.kind = "add" => intent = Target /\ Target = Append(Recoverable, "empty")
       /\ op.kind = "relocate" => intent = None /\ Target = Recoverable
       /\ op.kind = "retire" => intent = Target

GInv == SbInv /\ LogInv /\ UnitInv /\ GroupInv

-----------------------------------------------------------------------------
(* Superblocks                                                             *)

LEMMA MayLoadFacts ==
  ASSUME DeviceInv, NEW l \in SbCopies
  PROVE  /\ MayLoad(l) \subseteq SbSet
         /\ \A s \in SbSet :
              s \in MayLoad(l) <=> s = durable[l] \/ \E p \in pending : p[1] = l /\ p[2] = s
         /\ durable[l].kind = "sb" <=> durable[l] \in SbSet
         /\ cache[l].kind = "sb" <=> cache[l] \in SbSet
<1>1. durable[l] \in SbSet \cup {Torn} /\ cache[l] \in SbSet \cup {Torn}
      /\ \A p \in pending : p[1] = l => p[2] \in SbSet
  BY DEF DeviceInv
<1>2. Torn \notin SbSet /\ Torn.kind # "sb" /\ \A s \in SbSet : s.kind = "sb"
  BY DEF SbSet, Torn
<1> QED BY <1>1, <1>2 DEF MayLoad

LEMMA SbFields ==
  \A s \in SbSet : s.kind = "sb" /\ s.gen \in Nat /\ s.nextAg \in Nat /\ s.seq \in Nat
BY DEF SbSet

(* The backup is read only if the primary is torn. *)
LEMMA LoadedFacts ==
  ASSUME DeviceInv, SuperblockFound(durable)
  PROVE  /\ Loaded \in SbSet /\ Loaded \in Reachable
         /\ durable[Primary] \in SbSet => Loaded = durable[Primary]
         /\ durable[Primary] \notin SbSet => Loaded = durable[Backup]
         /\ \E l \in SbCopies : Loaded = durable[l] /\ Loaded \in MayLoad(l)
<1>1. Primary \in SbCopies /\ Backup \in SbCopies
  BY DEF SbCopies
<1>2. durable[Primary] \in SbSet \/ durable[Backup] \in SbSet
  BY <1>1, MayLoadFacts DEF SuperblockFound
<1>3. /\ durable[Primary] \in SbSet => Loaded = durable[Primary]
      /\ durable[Primary] \notin SbSet => Loaded = durable[Backup]
  BY <1>1, MayLoadFacts DEF Loaded, LoadSuperblock
<1>4. Loaded \in SbSet
  BY <1>2, <1>3
<1>5. \E l \in SbCopies : Loaded = durable[l] /\ Loaded \in MayLoad(l)
  BY <1>1, <1>2, <1>3, MayLoadFacts
<1>6. Loaded \in Reachable
  BY <1>4, <1>5, SbFields DEF Reachable, SbCopies
<1> QED BY <1>3, <1>4, <1>5, <1>6

LEMMA ReachableFacts ==
  ASSUME DeviceInv
  PROVE  /\ Reachable \subseteq SbSet
         /\ \A s \in Reachable : s.gen >= Loaded.gen /\ \E l \in SbCopies : s \in MayLoad(l)
         /\ \A l \in SbCopies : \A s \in MayLoad(l) : s.gen >= Loaded.gen => s \in Reachable
BY MayLoadFacts DEF Reachable, SbCopies

(* What is in the cache may be loaded. *)
LEMMA CachedFacts ==
  ASSUME DeviceInv, SbInv, NEW l \in SbCopies, cache[l].kind = "sb"
  PROVE  cache[l] \in SbSet /\ cache[l] \in MayLoad(l)
BY MayLoadFacts DEF SbInv

(* A superblock that may be loaded is not behind the one on the medium, if *)
(* it is not older.                                                        *)
LEMMA NotBehind ==
  ASSUME DeviceInv, SbInv, NEW s \in Reachable
  PROVE  s.seq >= Loaded.seq
<1>1. SuperblockFound(durable)
  BY DEF SbInv
<1>2. Loaded \in SbSet /\ s \in SbSet /\ s.gen >= Loaded.gen
  BY <1>1, LoadedFacts, ReachableFacts
<1>3. PICK l \in SbCopies : s \in MayLoad(l)
  BY ReachableFacts
<1>4. CASE \E p \in pending : p[1] = l /\ p[2] = s
  BY <1>4 DEF SbInv
<1>5. CASE s = durable[l]
  <2>1. CASE durable[Primary] \in SbSet
    <3>1. Loaded = durable[Primary] /\ Loaded \in MayLoad(Primary)
      BY <1>1, <2>1, LoadedFacts, MayLoadFacts DEF SbCopies
    <3>2. CASE l = Primary
      BY <1>2, <1>5, <3>1, <3>2, SbFields
    <3>3. CASE l = Backup
      BY <1>2, <1>3, <3>1, <3>3, SbFields DEF SbInv
    <3> QED BY <3>2, <3>3 DEF SbCopies
  <2>2. CASE durable[Primary] \notin SbSet
    <3>1. Loaded = durable[Backup]
      BY <1>1, <2>2, LoadedFacts
    <3>2. l = Backup
      BY <1>2, <1>5, <2>2 DEF SbCopies
    <3> QED BY <1>2, <1>5, <3>1, <3>2, SbFields
  <2> QED BY <2>1, <2>2
<1> QED BY <1>2, <1>3, <1>4, <1>5, MayLoadFacts

(* What may be loaded once a step is done was there, or counts no less     *)
(* than what was.                                                          *)
NoneBehind == \A s \in Reachable' : \E r \in Reachable : r.seq <= s.seq

(* The superblocks are left alone. *)
LEMMA SbSame ==
  ASSUME DeviceInv, DeviceInv', SbInv, pc # "down", pc' # "down",
         \A l \in SbCopies : durable'[l] = durable[l] /\ cache'[l] = cache[l],
         \A p \in pending : p[1] \in SbCopies => p \in pending',
         \A p \in pending' : p[1] \in SbCopies => p \in pending,
         sb'.gen = sb.gen, sb'.seq = sb.seq
  PROVE  SbInv' /\ NoneBehind
<1>1. Primary \in SbCopies /\ Backup \in SbCopies
  BY DEF SbCopies
<1>2. Loaded' = Loaded /\ SuperblockFound(durable')
  BY <1>1 DEF Loaded, LoadSuperblock, SuperblockFound, SbInv
<1>3. \A l \in SbCopies : MayLoad(l)' = MayLoad(l)
  <2> TAKE l \in SbCopies
  <2>1. MayLoad(l)' \subseteq MayLoad(l)
    BY DEF MayLoad
  <2>2. MayLoad(l) \subseteq MayLoad(l)'
    BY DEF MayLoad
  <2> QED BY <2>1, <2>2
<1>4. Reachable' = Reachable
  BY <1>1, <1>2, <1>3 DEF Reachable
<1>5. NoneBehind
  BY <1>4, ReachableFacts, SbFields DEF NoneBehind
<1>6. SbInv'
  <2>1. \A l \in SbCopies : cache'[l] = durable'[l] \/ \E p \in pending' : p[1] = l /\ p[2] = cache'[l]
    BY DEF SbInv
  <2>2. \A p \in pending' : p[1] \in SbCopies => p[2].gen >= Loaded.gen /\ p[2].seq >= Loaded.seq
    BY DEF SbInv
  <2> QED BY <1>1, <1>2, <1>3, <2>1, <2>2 DEF SbInv
<1> QED BY <1>5, <1>6

(* sync: the superblock of the cache is the one a recovery loads. *)
LEMMA SbSynced ==
  ASSUME DeviceInv, DeviceInv', SbInv, pc # "down", pc' # "down", Sync,
         sb \in SbSet, sb'.gen = sb.gen, sb'.seq = sb.seq
  PROVE  SbInv' /\ NoneBehind
<1>1. Primary \in SbCopies /\ Backup \in SbCopies
  BY DEF SbCopies
<1>2. durable' = cache /\ cache' = cache /\ pending' = {}
  BY DEF Sync
<1>3. /\ cache[Primary].kind = "sb" /\ cache[Primary].gen = sb.gen /\ cache[Primary].seq = sb.seq
      /\ cache[Backup].kind = "sb" /\ cache[Backup].gen = sb.gen
      /\ sb.gen >= Loaded.gen /\ sb.seq >= Loaded.seq
  BY DEF SbInv
<1>4. /\ cache[Primary] \in MayLoad(Primary) /\ cache[Backup] \in MayLoad(Backup)
      /\ cache[Primary] \in SbSet /\ cache[Backup] \in SbSet
  BY <1>1, <1>3, CachedFacts
<1>5. MayLoad(Primary)' = {cache[Primary]} /\ MayLoad(Backup)' = {cache[Backup]}
  BY <1>2, <1>3 DEF MayLoad
<1>6. Loaded' = cache[Primary]
  BY <1>2, <1>3 DEF Loaded, LoadSuperblock
<1>7. cache[Primary] \in Reachable /\ cache[Backup] \in Reachable
  BY <1>1, <1>3, <1>4, ReachableFacts
<1>8. Reachable' \subseteq {cache[Primary], cache[Backup]}
  BY <1>5 DEF Reachable
<1>9. NoneBehind
  BY <1>4, <1>7, <1>8, SbFields DEF NoneBehind
<1>10. cache[Primary].gen <= cache[Backup].gen => cache[Primary].seq <= cache[Backup].seq
  BY <1>4 DEF SbInv
<1>11. SbInv'
  <2>1. SuperblockFound(durable')
    BY <1>2, <1>3 DEF SuperblockFound
  <2> QED BY <1>1, <1>2, <1>3, <1>4, <1>5, <1>6, <1>10, <2>1, SbFields DEF SbInv
<1> QED BY <1>9, <1>11

(* A newer superblock, with the count of self.sb, is on its way to both    *)
(* copies (open heals them, write_superblock).                             *)
LEMMA SbWritten ==
  ASSUME DeviceInv, DeviceInv', SbInv, pc' # "down", NEW s \in SbSet,
         \A l \in SbCopies : cache'[l] = s, durable' = durable,
         \A p \in pending : p[1] \in SbCopies => p \in pending',
         \A p \in pending' : p[1] \in SbCopies => p \in pending \/ p[2] = s,
         \A l \in SbCopies : \E p \in pending' : p[1] = l /\ p[2] = s,
         sb' = s, s.gen > Loaded.gen, s.seq >= Loaded.seq,
         \A r \in MayLoad(Primary) : r.seq <= s.seq,
         \A r \in MayLoad(Backup) : s.gen <= r.gen => s.seq <= r.seq
  PROVE  SbInv' /\ NoneBehind
<1>1. Primary \in SbCopies /\ Backup \in SbCopies
  BY DEF SbCopies
<1>2. Loaded' = Loaded /\ SuperblockFound(durable')
  BY <1>1 DEF Loaded, SbInv
<1>3. \A l \in SbCopies : MayLoad(l)' \subseteq MayLoad(l) \cup {s}
  BY DEF MayLoad
<1>4. Loaded \in Reachable /\ Loaded \in SbSet
  BY LoadedFacts DEF SbInv
<1>5. Reachable' \subseteq Reachable \cup {s}
  BY <1>1, <1>2, <1>3 DEF Reachable
<1>6. NoneBehind
  BY <1>4, <1>5, ReachableFacts, SbFields DEF NoneBehind
<1>7. \A r \in MayLoad(Primary)', t \in MayLoad(Backup)' : r.gen <= t.gen => r.seq <= t.seq
  <2> TAKE r \in MayLoad(Primary)', t \in MayLoad(Backup)'
  <2>1. (r = s \/ r \in MayLoad(Primary)) /\ (t = s \/ t \in MayLoad(Backup))
    BY <1>1, <1>3
  <2>2. s.seq \in Nat
    BY SbFields
  <2> QED BY <2>1, <2>2 DEF SbInv
<1>8. \A p \in pending' : p[1] \in SbCopies => p[2].gen >= Loaded.gen /\ p[2].seq >= Loaded.seq
  BY <1>4, SbFields DEF SbInv
<1>9. \A r \in MayLoad(Primary)' : r.seq <= s.seq
  BY <1>1, <1>3, SbFields
<1>10. SbInv'
  BY <1>1, <1>2, <1>4, <1>7, <1>8, <1>9, SbFields DEF SbInv
<1> QED BY <1>6, <1>10

(* commit and replay: the superblocks of the cache become durable, and one *)
(* follows that skips one transaction more.                                *)
LEMMA SbCheckpointed ==
  ASSUME DeviceInv, DeviceInv', SbInv, pc # "down", pc' # "down", sb \in SbSet,
         NEW ws, DOMAIN ws \cap SbCopies = {},
         Checkpointed(ws, [NextSuperblock EXCEPT !.seq = @ + 1])
  PROVE  /\ SbInv' /\ NoneBehind
         /\ \A r \in Reachable' : r.seq >= sb.seq
         /\ sb'.seq = sb.seq + 1
<1> DEFINE s == [NextSuperblock EXCEPT !.seq = @ + 1]
<1>1. Primary \in SbCopies /\ Backup \in SbCopies /\ SbCopies \subseteq Loc
  BY Locations DEF SbCopies
<1>2. s \in SbSet /\ s.gen = sb.gen + 1 /\ s.seq = sb.seq + 1
  <2>1. NextSuperblock \in SbSet /\ NextSuperblock.gen = sb.gen + 1 /\ NextSuperblock.seq = sb.seq
    BY SbFields DEF NextSuperblock, SbSet
  <2> QED BY <2>1 DEF SbSet
<1>3. /\ durable' = Overlay(cache, ws)
      /\ cache' = Overlay(durable', SuperblockWrites(s))
      /\ pending' = {<<l, s>> : l \in SbCopies}
      /\ sb' = s
  BY DEF Checkpointed, SbCopies
<1> HIDE DEF s
<1>4. \A l \in SbCopies : durable'[l] = cache[l]
  BY <1>1, <1>3, OverlayFacts DEF DeviceInv
<1>5. \A l \in SbCopies : cache'[l] = s
  <2>1. DOMAIN SuperblockWrites(s) = SbCopies /\ \A l \in SbCopies : SuperblockWrites(s)[l] = s
    BY DEF SuperblockWrites, SbCopies
  <2> QED BY <1>1, <1>3, <2>1, OverlayFacts DEF DeviceInv
<1>6. \A l \in SbCopies : \A p \in pending' : p[1] = l => p[2] = s
  BY <1>3
<1>7. \A l \in SbCopies : \E p \in pending' : p[1] = l /\ p[2] = s
  <2> TAKE l \in SbCopies
  <2>1. <<l, s>> \in pending' /\ <<l, s>>[1] = l /\ <<l, s>>[2] = s
    BY <1>3
  <2> QED BY <2>1
<1>8. /\ cache[Primary].kind = "sb" /\ cache[Primary].gen = sb.gen /\ cache[Primary].seq = sb.seq
      /\ cache[Backup].kind = "sb" /\ cache[Backup].gen = sb.gen
      /\ sb.gen >= Loaded.gen /\ sb.seq >= Loaded.seq
  BY DEF SbInv
<1>9. /\ cache[Primary] \in MayLoad(Primary) /\ cache[Backup] \in MayLoad(Backup)
      /\ cache[Primary] \in SbSet /\ cache[Backup] \in SbSet
  BY <1>1, <1>8, CachedFacts
<1>10. \A l \in SbCopies : MayLoad(l)' \subseteq {cache[l], s}
  BY <1>4, <1>6 DEF MayLoad
<1>11. Loaded' = cache[Primary]
  BY <1>1, <1>4, <1>8 DEF Loaded, LoadSuperblock
<1>12. cache[Backup].seq >= sb.seq
  BY <1>8, <1>9, SbFields DEF SbInv
<1>13. \A r \in Reachable' : r.seq >= sb.seq
  <2>1. Reachable' \subseteq {cache[Primary], cache[Backup], s}
    BY <1>1, <1>10 DEF Reachable
  <2> QED BY <1>2, <1>8, <1>12, <2>1, SbFields
<1>14. NoneBehind
  <2>1. Loaded \in Reachable /\ Loaded \in SbSet
    BY LoadedFacts DEF SbInv
  <2>2. \A r \in Reachable' : r \in SbSet
    BY ReachableFacts, <1>1, <1>2, <1>9, <1>10 DEF Reachable
  <2> QED BY <1>8, <1>13, <2>1, <2>2, SbFields DEF NoneBehind
<1>15. SbInv'
  <2>1. SuperblockFound(durable')
    BY <1>1, <1>4, <1>8 DEF SuperblockFound
  <2>2. \A r \in MayLoad(Primary)', t \in MayLoad(Backup)' : r.gen <= t.gen => r.seq <= t.seq
    <3> TAKE r \in MayLoad(Primary)', t \in MayLoad(Backup)'
    <3>1. (r = s \/ r = cache[Primary]) /\ (t = s \/ t = cache[Backup])
      BY <1>1, <1>10
    <3> QED BY <1>2, <1>8, <1>9, <1>12, <3>1, SbFields
  <2>3. \A p \in pending' : p[1] \in SbCopies => p[2].gen >= cache[Primary].gen /\ p[2].seq >= cache[Primary].seq
    BY <1>2, <1>6, <1>8, SbFields
  <2>4. \A r \in MayLoad(Primary)' : r.seq <= s.seq
    BY <1>1, <1>2, <1>8, <1>9, <1>10, SbFields
  <2>5. sb'.gen >= cache[Primary].gen /\ sb'.seq >= cache[Primary].seq
    BY <1>2, <1>3, <1>8, SbFields
  <2> QED BY <1>1, <1>2, <1>3, <1>5, <1>7, <1>11, <2>1, <2>2, <2>3, <2>4, <2>5, SbFields DEF SbInv
<1> QED BY <1>2, <1>3, <1>13, <1>14, <1>15

(* A power cut that does not go back. *)
LEMMA SbCut ==
  ASSUME DeviceInv, DeviceInv', SbInv, pc' = "down",
         NEW S \in Landings, NEW T, \A l \in T : \E p \in S : p[1] = l,
         CutTo(AfterCut(S, T)), ~GoesBack(AfterCut(S, T))
  PROVE  SbInv' /\ NoneBehind
<1> DEFINE img == AfterCut(S, T)
<1>1. durable' = img /\ cache' = img /\ pending' = {}
  BY DEF CutTo
<1>2. \A l \in SbCopies :
        \/ \E p \in pending : p[1] = l /\ img[l] \in {Torn, p[2]}
        \/ img[l] = durable[l]
  BY CutFacts, Locations DEF DeviceInv
<1>3. SuperblockFound(img) /\ ~(LoadSuperblock(img).gen < Loaded.gen)
  BY DEF GoesBack, Loaded
<1> HIDE DEF img
<1>4. Primary \in SbCopies /\ Backup \in SbCopies
  BY DEF SbCopies
<1>5. \A l \in SbCopies : MayLoad(l)' \subseteq MayLoad(l)
  <2> TAKE l \in SbCopies
  <2>1. MayLoad(l)' \subseteq {img[l]}
    BY <1>1 DEF MayLoad
  <2>2. img[l].kind = "sb" => img[l] # Torn
    BY TornFacts
  <2>3. ASSUME img[l].kind = "sb" PROVE img[l] \in MayLoad(l)
    BY <1>2, <2>2, <2>3 DEF MayLoad
  <2>4. \A s \in MayLoad(l)' : s.kind = "sb"
    BY DEF MayLoad
  <2> QED BY <2>1, <2>3, <2>4
<1>6. Loaded' \in SbSet /\ Loaded \in SbSet /\ Loaded' = LoadSuperblock(img) /\ SuperblockFound(durable')
  <2>1. SuperblockFound(durable')
    BY <1>1, <1>3
  <2>2. Loaded' \in SbSet
    <3>1. durable'[Primary].kind = "sb" => durable'[Primary] \in SbSet
      BY <1>4, TornFacts DEF DeviceInv
    <3>2. durable'[Backup].kind = "sb" => durable'[Backup] \in SbSet
      BY <1>4, TornFacts DEF DeviceInv
    <3> QED BY <2>1, <3>1, <3>2 DEF Loaded, LoadSuperblock, SuperblockFound
  <2>3. Loaded' = LoadSuperblock(img)
    BY <1>1 DEF Loaded
  <2> QED BY <2>1, <2>2, <2>3, LoadedFacts DEF SbInv
<1>7. Reachable' \subseteq Reachable
  <2> SUFFICES ASSUME NEW s \in Reachable' PROVE s \in Reachable
    OBVIOUS
  <2>1. s \in MayLoad(Primary)' \cup MayLoad(Backup)' /\ s.gen >= Loaded'.gen
    BY DEF Reachable
  <2>2. s \in MayLoad(Primary) \cup MayLoad(Backup)
    BY <1>4, <1>5, <2>1
  <2>3. s \in SbSet
    BY <1>4, <2>2, MayLoadFacts
  <2>4. s.gen >= Loaded.gen
    BY <1>3, <1>6, <2>1, <2>3, SbFields
  <2> QED BY <2>2, <2>4 DEF Reachable
<1>8. NoneBehind
  BY <1>7, ReachableFacts, SbFields DEF NoneBehind
<1>9. SbInv'
  BY <1>1, <1>4, <1>5, <1>6 DEF SbInv
<1> QED BY <1>8, <1>9

-----------------------------------------------------------------------------
(* The log                                                                 *)

(* What is known of every group stays so; there may be more. *)
Stays(old, new) == \A i \in DOMAIN old : i \in DOMAIN new /\ new[i] = old[i]

(* The transaction in the log stays there: no superblock that recovery may *)
(* load counts fewer than before, and what it changed is as it left it.    *)
LEMMA LogKept ==
  ASSUME DeviceInv, DeviceInv', LogInv, NoneBehind,
         durable'[Log] = durable[Log], cache'[Log] = durable[Log],
         \A p \in pending' : p[1] # Log,
         durable[Log].kind = "txn" =>
           /\ Skipped \/ Stays(Recoverable, Recoverable')
           /\ pc' \notin {"down", "replay"} => durable[Log].seq < sb'.seq
           /\ Retiring' => Skipped
  PROVE  LogInv'
<1> DEFINE t == durable[Log]
<1>1. t' = t
  OBVIOUS
<1>2. ASSUME t.kind = "txn"
      PROVE  /\ t.seq \in Nat
             /\ \A s \in Reachable' : t.seq <= s.seq
             /\ Skipped \/ Applied
             /\ Skipped => Skipped'
  <2>1. t.seq \in Nat /\ \A r \in Reachable : t.seq <= r.seq
    BY <1>2 DEF LogInv
  <2>2. Skipped \/ Applied
    BY <1>2 DEF LogInv
  <2>3. \A s \in Reachable' : s.seq \in Nat /\ \E r \in Reachable : r.seq \in Nat /\ r.seq <= s.seq
    <3> TAKE s \in Reachable'
    <3>1. s \in SbSet
      <4>1. PICK l \in SbCopies : s \in MayLoad(l)'
        BY DEF Reachable, SbCopies
      <4>2. s.kind = "sb" /\ (s = durable'[l] \/ \E p \in pending' : p[1] = l /\ p[2] = s)
        BY <4>1 DEF MayLoad
      <4> QED BY <4>2, TornFacts DEF DeviceInv
    <3>2. PICK r \in Reachable : r.seq <= s.seq
      BY DEF NoneBehind
    <3>3. r \in SbSet
      BY ReachableFacts
    <3> QED BY <3>1, <3>2, <3>3, SbFields
  <2>4. \A s \in Reachable' : t.seq <= s.seq
    BY <2>1, <2>3
  <2>5. Skipped => \A s \in Reachable' : t.seq < s.seq
    BY <2>1, <2>3 DEF Skipped
  <2>6. Skipped => Skipped'
    BY <1>1, <2>5 DEF Skipped
  <2> QED BY <2>1, <2>2, <2>4, <2>6
<1>3. ASSUME t.kind = "txn", Applied, Stays(Recoverable, Recoverable')
      PROVE  Applied'
  BY <1>1, <1>3 DEF Applied, Stays
<1> QED BY <1>1, <1>2, <1>3 DEF LogInv

-----------------------------------------------------------------------------
(* Groups                                                                  *)

States == {"retired", "empty", "full", "broken"}

(* The units of a group. *)
Span(e) == e.at .. e.at + e.length - 1

(* What is found of a group depends on its entry and its units only. *)
LEMMA StateSame ==
  ASSUME NEW e \in EntrySet, NEW f \in EntrySet, e.length >= 1,
         f.present = e.present, f.length = e.length,
         NEW img, NEW other, NEW i,
         e.present => \A k \in 0 .. e.length - 1 : img[P(e.at + k)] = other[P(f.at + k)]
  PROVE  StateAt(img, i, e) = StateAt(other, i, f)
<1>1. CASE ~e.present
  BY <1>1 DEF StateAt
<1>2. CASE e.present
  <2>1. e.length \in Nat /\ e.at \in Nat /\ f.at \in Nat
    BY SizeAssumption DEF EntrySet
  <2>2. img[P(e.at)] = other[P(f.at)]
    <3>1. 0 \in 0 .. e.length - 1 /\ e.at + 0 = e.at /\ f.at + 0 = f.at
      BY <2>1
    <3> QED BY <1>2, <3>1
  <2>3. \A k \in 1 .. e.length - 1 : img[P(e.at + k)] = other[P(f.at + k)]
    BY <1>2, <2>1
  <2> QED BY <1>2, <2>2, <2>3 DEF StateAt
<1> QED BY <1>1, <1>2

LEMMA StateIsOne ==
  \A img, i, e : StateAt(img, i, e) \in States
BY DEF StateAt, States

LEMMA ViewFacts ==
  ASSUME NEW img, NEW m \in MapSet
  PROVE  /\ View(img, m.entries) \in Seq(States)
         /\ DOMAIN View(img, m.entries) = DOMAIN m.entries
         /\ Len(View(img, m.entries)) = Len(m.entries)
         /\ \A i \in DOMAIN m.entries : View(img, m.entries)[i] = StateAt(img, i, m.entries[i])
<1>1. DOMAIN m.entries = 1 .. Len(m.entries) /\ Len(m.entries) \in Nat
  BY EntryFacts
<1> DEFINE v == View(img, m.entries)
<1>2. DOMAIN v = DOMAIN m.entries /\ \A i \in DOMAIN m.entries : v[i] = StateAt(img, i, m.entries[i])
  BY DEF View
<1>3. v \in [1 .. Len(m.entries) -> States]
  BY <1>1, StateIsOne DEF View
<1> HIDE DEF v
<1>4. v \in Seq(States)
  BY <1>1, <1>3, IsASeq
<1>5. Len(v) = Len(m.entries)
  BY <1>1, <1>2, <1>4, LenProperties
<1> QED BY <1>2, <1>4, <1>5 DEF v

LEMMA SpanFacts ==
  ASSUME NEW m \in MapSet, NEW n \in Nat, n <= MaxSize, ApartOn(m.entries, n), NEW i \in Ids(m.entries)
  PROVE  /\ m.entries[i] \in EntrySet /\ m.entries[i].present = TRUE
         /\ m.entries[i].at \in Nat /\ m.entries[i].length \in Nat \ {0}
         /\ Span(m.entries[i]) \subseteq Units /\ m.entries[i].at \in Span(m.entries[i])
         /\ \A u \in Span(m.entries[i]) : u < n
         /\ \A k \in 0 .. m.entries[i].length - 1 : m.entries[i].at + k \in Span(m.entries[i])
         /\ \A j \in Ids(m.entries) : j # i => Span(m.entries[i]) \cap Span(m.entries[j]) = {}
         /\ \A at, length : FreePlace(m.entries, at, length, 0 - 1, n) =>
              Span(m.entries[i]) \cap (at .. at + length - 1) = {}
<1> DEFINE e == m.entries[i]
<1>1. i \in DOMAIN m.entries /\ i \in Nat /\ e.present
  BY EntryFacts DEF Ids
<1>2. e \in EntrySet /\ e.present \in BOOLEAN /\ e.at \in 0 .. MaxSize /\ e.length \in Nat \ {0}
  BY <1>1, EntryFacts
<1>3. e.at \in Nat /\ MaxSize \in Nat
  BY <1>2, SizeAssumption
<1>4. e.at + e.length <= n
  BY DEF ApartOn, End
<1>5. \A j \in Ids(m.entries) : j # i =>
        /\ m.entries[j].at \in Nat /\ m.entries[j].length \in Nat
        /\ e.at + e.length <= m.entries[j].at \/ m.entries[j].at + m.entries[j].length <= e.at
  BY EntryFacts, SizeAssumption DEF ApartOn, End
<1>6. \A at, length : FreePlace(m.entries, at, length, 0 - 1, n) =>
        /\ at \in Nat /\ length \in Nat
        /\ e.at + e.length <= at \/ at + length <= e.at
  BY <1>1 DEF FreePlace, End
<1> HIDE DEF e
<1>7. Span(e) \subseteq Units /\ e.at \in Span(e) /\ \A u \in Span(e) : u < n
  BY <1>2, <1>3, <1>4 DEF Span, Units
<1>8. \A k \in 0 .. e.length - 1 : e.at + k \in Span(e)
  BY <1>2, <1>3 DEF Span
<1>9. \A j \in Ids(m.entries) : j # i => Span(e) \cap Span(m.entries[j]) = {}
  BY <1>2, <1>3, <1>5 DEF Span
<1>10. \A at, length : FreePlace(m.entries, at, length, 0 - 1, n) => Span(e) \cap (at .. at + length - 1) = {}
  <2> SUFFICES ASSUME NEW at, NEW length, FreePlace(m.entries, at, length, 0 - 1, n)
               PROVE  Span(e) \cap (at .. at + length - 1) = {}
    OBVIOUS
  <2> QED BY <1>2, <1>3, <1>6 DEF Span
<1> QED BY <1>1, <1>2, <1>3, <1>7, <1>8, <1>9, <1>10 DEF e

LEMMA ViewSame ==
  ASSUME NEW m \in MapSet, NEW n \in Nat, n <= MaxSize, ApartOn(m.entries, n), NEW img, NEW other,
         \A i \in Ids(m.entries) : \A u \in Span(m.entries[i]) : img[P(u)] = other[P(u)]
  PROVE  View(img, m.entries) = View(other, m.entries)
<1>1. ASSUME NEW i \in DOMAIN m.entries
      PROVE  StateAt(img, i, m.entries[i]) = StateAt(other, i, m.entries[i])
  <2>1. m.entries[i] \in EntrySet /\ m.entries[i].length >= 1
    BY EntryFacts
  <2>2. m.entries[i].present =>
          \A k \in 0 .. m.entries[i].length - 1 : img[P(m.entries[i].at + k)] = other[P(m.entries[i].at + k)]
    <3> SUFFICES ASSUME m.entries[i].present, NEW k \in 0 .. m.entries[i].length - 1
                 PROVE  img[P(m.entries[i].at + k)] = other[P(m.entries[i].at + k)]
      OBVIOUS
    <3>1. i \in Ids(m.entries)
      BY DEF Ids
    <3>2. m.entries[i].at + k \in Span(m.entries[i])
      BY <3>1, SpanFacts
    <3> QED BY <3>1, <3>2
  <2> QED BY <2>1, <2>2, StateSame
<1> QED BY <1>1 DEF View

(* The recorded map and the units of its groups are left alone. *)
LEMMA GroupsStay ==
  ASSUME IInv, LeavesMap,
         \A i \in Ids(Recorded.entries) : \A u \in Span(Recorded.entries[i]) : durable'[P(u)] = durable[P(u)]
  PROVE  Recoverable' = Recoverable
<1>1. Recorded \in MapSet /\ ApartOn(Recorded.entries, size)
  BY LoadFacts DEF IInv, MapInv, Recorded
<1>2. Recorded' = Recorded
  BY LoadSame DEF LeavesMap, Recorded
<1>3. View(durable', Recorded.entries) = View(durable, Recorded.entries)
  BY <1>1, InMemory, ViewSame
<1> QED BY <1>2, <1>3 DEF Recoverable, Recorded

(* What the groups of a map in its place hold. *)
LEMMA RecoverableFacts ==
  ASSUME IInv
  PROVE  /\ Recorded \in MapSet /\ ApartOn(Recorded.entries, size)
         /\ Recoverable \in Seq(States)
         /\ DOMAIN Recoverable = DOMAIN Recorded.entries
         /\ DOMAIN Recoverable = 1 .. Len(Recoverable) /\ Len(Recoverable) \in Nat
         /\ Len(Recoverable) = Len(Recorded.entries)
         /\ \A i \in DOMAIN Recoverable : Recoverable[i] = StateAt(durable, i, Recorded.entries[i])
<1>1. Recorded \in MapSet /\ ApartOn(Recorded.entries, size)
  BY LoadFacts DEF IInv, MapInv, Recorded
<1>2. Recoverable = View(durable, Recorded.entries)
  BY DEF Recoverable, Recorded
<1> QED BY <1>1, <1>2, ViewFacts, EntryFacts

(* Between operations the program sees what a recovery would. *)
LEMMA AtRest ==
  ASSUME IInv, UnitInv, pc \in {"idle", "shrink"}
  PROVE  /\ map = Recorded /\ View0 = Recoverable
         /\ \A u \in Units : cache[P(u)] = durable[P(u)]
         /\ \A ag \in Ids(map.entries) :
              /\ ag \in DOMAIN Recoverable
              /\ Header0(ag) = durable[P(map.entries[ag].at)]
              /\ Recoverable[ag] = StateAt(durable, ag, map.entries[ag])
<1>1. map = Recorded /\ map \in MapSet /\ ApartOn(map.entries, size)
  BY InMemory DEF Stable
<1>2. \A u \in Units : cache[P(u)] = durable[P(u)]
  BY DEF UnitInv, Touched
<1>4. \A i \in Ids(map.entries) :
        Span(map.entries[i]) \subseteq Units /\ map.entries[i].at \in Span(map.entries[i])
  BY <1>1, InMemory, SpanFacts
<1>5. View0 = View(durable, map.entries)
  BY <1>1, <1>2, <1>4, InMemory, ViewSame DEF View0
<1>6. View0 = Recoverable
  BY <1>1, <1>5 DEF Recoverable, Recorded
<1>7. \A ag \in Ids(map.entries) :
        ag \in DOMAIN Recoverable /\ Recoverable[ag] = StateAt(durable, ag, map.entries[ag])
  BY <1>1, RecoverableFacts DEF Ids
<1> QED BY <1>1, <1>2, <1>4, <1>6, <1>7 DEF Header0

(* A group that is not broken is what its header says. *)
LEMMA HeaderFacts ==
  ASSUME IInv, UnitInv, Unbroken(Recoverable), pc \in {"idle", "shrink"}, NEW ag \in Ids(map.entries)
  PROVE  /\ Header0(ag).kind = "header"
         /\ Header0(ag).full => Recoverable[ag] = "full"
         /\ ~Header0(ag).full => Recoverable[ag] = "empty"
<1>1. /\ ag \in DOMAIN Recoverable /\ Header0(ag) = durable[P(map.entries[ag].at)]
      /\ Recoverable[ag] = StateAt(durable, ag, map.entries[ag])
  BY AtRest
<1>2. map.entries[ag].present
  BY DEF Ids
<1>3. StateAt(durable, ag, map.entries[ag]) # "broken"
  BY <1>1 DEF Unbroken
<1> QED BY <1>1, <1>2, <1>3 DEF StateAt

(* A step of the program that writes nothing. *)
LEMMA Quiet ==
  ASSUME IInv, GInv, IInv', UNCHANGED deviceVars,
         {pc, pc'} \cap {"down", "replay"} = {},
         sb'.gen = sb.gen, sb'.seq = sb.seq,
         durable[Log].kind = "txn" /\ Retiring' => Retiring \/ Skipped
  PROVE  /\ SbInv' /\ LogInv'
         /\ Touched \subseteq Touched' => UnitInv'
         /\ Recoverable' = Recoverable
<1>1. durable' = durable /\ cache' = cache /\ pending' = pending
  BY DEF deviceVars
<1>2. SbInv' /\ NoneBehind
  BY <1>1, SbSame DEF IInv, GInv
<1>3. Recoverable' = Recoverable
  BY <1>1 DEF Recoverable
<1>4. LogInv'
  BY <1>1, <1>2, <1>3, LogKept DEF IInv, GInv, LogInv, Stays
<1>5. Touched \subseteq Touched' => UnitInv'
  BY <1>1 DEF GInv, UnitInv
<1> QED BY <1>2, <1>3, <1>4, <1>5

-----------------------------------------------------------------------------
(* The steps: each keeps the invariant, and is one of GroupStore or none   *)

StoreStep == [Store!Next]_(Store!vars)

LEMMA Stutters == Recoverable' = Recoverable /\ intent' = intent => StoreStep
BY DEF StoreStep, Store!vars

LEMMA NotNone == \A s \in Seq(States) : s # None
<1> SUFFICES ASSUME NEW s \in Seq(States), s = None PROVE FALSE
  OBVIOUS
<1>1. 1 \in DOMAIN s /\ s[1] = "none"
  BY DEF None
<1>2. s[1] \in States
  BY <1>1, ElementOfSeq, LenProperties
<1> QED BY <1>1, <1>2 DEF States

(* Open: the superblock is healed if need be. *)
LEMMA OpenGroups ==
  ASSUME IInv, GInv, IInv', Open
  PROVE  GInv' /\ StoreStep
<1>1. pc = "down" /\ pc' = "replay" /\ UNCHANGED <<size, op, limit, intent, ops, faultVars>>
  BY DEF Open
<1>2. pending = {} /\ cache = durable /\ SuperblockFound(durable)
  BY <1>1 DEF GInv, SbInv
<1>3. Primary \in SbCopies /\ Backup \in SbCopies
  BY DEF SbCopies
<1>4. DeviceInv /\ DeviceInv'
  BY DEF IInv
<1>5. /\ Loaded \in SbSet
      /\ durable[Primary] \in SbSet => Loaded = durable[Primary]
      /\ durable[Primary] \notin SbSet => Loaded = durable[Backup]
  BY <1>2, <1>4, LoadedFacts
<1>6. \A l \in SbCopies : \A s \in MayLoad(l) : s = durable[l]
  BY <1>2 DEF MayLoad
<1>7. LoadSuperblock(cache) = Loaded
  BY <1>2 DEF Loaded
<1> DEFINE healed == [Loaded EXCEPT !.gen = @ + 1]
<1>8. ASSUME cache[Primary].kind = "sb" /\ BackupOk(cache, Loaded)
      PROVE  /\ SbInv' /\ NoneBehind /\ durable' = durable
             /\ \A l \in Loc \ SbCopies : cache'[l] = cache[l]
             /\ \A p \in pending' : p[1] \in SbCopies
  <2>1. sb' = Loaded /\ durable' = durable /\ cache' = cache /\ pending' = pending
    BY <1>7, <1>8 DEF Open, deviceVars
  <2>2. Loaded = cache[Primary]
    BY <1>2, <1>8 DEF Loaded, LoadSuperblock
  <2>3. \A l \in SbCopies : MayLoad(l)' = MayLoad(l)
    BY <2>1 DEF MayLoad
  <2>4. Loaded' = Loaded
    BY <2>1 DEF Loaded
  <2>5. Reachable' = Reachable
    BY <1>3, <2>3, <2>4 DEF Reachable
  <2>6. NoneBehind
    BY <1>4, <2>5, ReachableFacts, SbFields DEF NoneBehind
  <2>7. \A s \in MayLoad(Primary) : s.seq <= Loaded.seq
    BY <1>2, <1>3, <1>5, <1>6, <2>2, SbFields
  <2>8. SbInv'
    BY <1>1, <1>2, <1>3, <1>5, <1>8, <2>1, <2>2, <2>3, <2>4, <2>7, SbFields DEF GInv, SbInv, BackupOk
  <2> QED BY <1>2, <2>1, <2>6, <2>8
<1>9. ASSUME ~(cache[Primary].kind = "sb" /\ BackupOk(cache, Loaded))
      PROVE  /\ SbInv' /\ NoneBehind /\ durable' = durable
             /\ \A l \in Loc \ SbCopies : cache'[l] = cache[l]
             /\ \A p \in pending' : p[1] \in SbCopies
  <2>1. sb' = healed /\ Pwrite(SuperblockWrites(healed))
    BY <1>7, <1>9 DEF Open
  <2>2. healed \in SbSet /\ healed.gen = Loaded.gen + 1 /\ healed.seq = Loaded.seq
    BY <1>5 DEF SbSet
  <2> HIDE DEF healed
  <2>3. /\ durable' = durable
        /\ \A l \in SbCopies : cache'[l] = healed
        /\ \A p \in pending' : p[1] \in SbCopies /\ p[2] = healed
        /\ \A l \in SbCopies : \E p \in pending' : p[1] = l /\ p[2] = healed
        /\ \A l \in Loc \ SbCopies : cache'[l] = cache[l]
    <3> DEFINE ws == SuperblockWrites(healed)
    <3>1. DOMAIN ws = SbCopies /\ \A l \in SbCopies : ws[l] = healed
      BY DEF SuperblockWrites, SbCopies
    <3>2. cache' = Overlay(cache, ws) /\ durable' = durable /\ pending' = {<<l, ws[l]>> : l \in SbCopies}
      BY <1>2, <2>1, <3>1 DEF Pwrite
    <3> HIDE DEF ws
    <3>3. \A l \in SbCopies : <<l, healed>> \in pending'
      BY <3>1, <3>2
    <3>4. \A p \in pending' : p[1] \in SbCopies /\ p[2] = healed
      BY <3>1, <3>2
    <3>5. \A l \in SbCopies : \E p \in pending' : p[1] = l /\ p[2] = healed
      <4> TAKE l \in SbCopies
      <4>1. <<l, healed>> \in pending' /\ <<l, healed>>[1] = l /\ <<l, healed>>[2] = healed
        BY <3>3
      <4> QED BY <4>1
    <3>6. \A l \in SbCopies : cache'[l] = healed
      BY <3>1, <3>2, OverlayFacts, Locations, <1>4 DEF DeviceInv
    <3>7. \A l \in Loc \ SbCopies : cache'[l] = cache[l]
      BY <3>1, <3>2, OverlayFacts, <1>4 DEF DeviceInv
    <3> QED BY <3>2, <3>4, <3>5, <3>6, <3>7
  <2>4. \A r \in MayLoad(Primary) : r.seq <= healed.seq
    <3> TAKE r \in MayLoad(Primary)
    <3>1. r = durable[Primary] /\ r \in SbSet
      BY <1>3, <1>4, <1>6, MayLoadFacts
    <3> QED BY <1>5, <2>2, <3>1, SbFields
  <2>5. \A r \in MayLoad(Backup) : healed.gen <= r.gen => healed.seq <= r.seq
    <3> SUFFICES ASSUME NEW r \in MayLoad(Backup), healed.gen <= r.gen PROVE healed.seq <= r.seq
      OBVIOUS
    <3>1. r = durable[Backup] /\ r \in SbSet
      BY <1>3, <1>4, <1>6, MayLoadFacts
    <3>2. r.gen \in Nat /\ Loaded.gen \in Nat /\ Loaded.gen + 1 <= r.gen
      BY <1>5, <2>2, <3>1, SbFields
    <3>3. CASE durable[Primary] \in SbSet
      <4>1. Loaded \in MayLoad(Primary)
        BY <1>3, <1>4, <1>5, <3>3, MayLoadFacts
      <4> QED BY <2>2, <3>2, <4>1 DEF GInv, SbInv
    <3>4. CASE durable[Primary] \notin SbSet
      BY <1>5, <3>1, <3>2, <3>4
    <3> QED BY <3>3, <3>4
  <2>6. healed.gen > Loaded.gen /\ healed.seq >= Loaded.seq
    BY <1>5, <2>2, SbFields
  <2>7. SbInv' /\ NoneBehind
    <3>1. SbInv /\ pc' # "down" /\ \A p \in pending : p[1] \in SbCopies => p \in pending'
      BY <1>1, <1>2 DEF GInv
    <3> QED BY <1>4, <2>1, <2>2, <2>3, <2>4, <2>5, <2>6, <3>1, SbWritten
  <2> QED BY <2>3, <2>7
<1>10. /\ SbInv' /\ NoneBehind /\ durable' = durable
       /\ \A l \in Loc \ SbCopies : cache'[l] = cache[l]
       /\ \A p \in pending' : p[1] \in SbCopies
  BY <1>8, <1>9
<1>11. Recoverable' = Recoverable
  BY <1>10 DEF Recoverable
<1>12. limit = NoLimit /\ limit' = NoLimit
  BY <1>1 DEF GInv, GroupInv
<1>13. LogInv'
  <2>1. cache'[Log] = durable[Log] /\ \A p \in pending' : p[1] # Log
    BY <1>2, <1>10, Locations
  <2>2. ~Retiring'
    BY <1>1, <1>12 DEF Retiring
  <2> QED BY <1>1, <1>4, <1>10, <1>11, <2>1, <2>2, LogKept DEF GInv, Stays
<1>14. UnitInv'
  BY <1>2, <1>10, Locations DEF UnitInv
<1>15. GroupInv'
  BY <1>1, <1>11, <1>12 DEF GInv, GroupInv
<1> QED BY <1>1, <1>10, <1>11, <1>13, <1>14, <1>15, Stutters DEF GInv

(* commit and replay: a group is left full or empty, and nothing else      *)
(* changes.                                                                *)
LEMMA CheckpointedGroup ==
  ASSUME IInv, GInv, IInv', pc \in {"replay", "idle"}, pc' = "idle",
         NEW ag \in Ids(map.entries), NEW full, NEW ws,
         DOMAIN ws \subseteq {Log} \cup {P(u) : u \in Span(map.entries[ag])},
         P(map.entries[ag].at) \in DOMAIN ws,
         ws[P(map.entries[ag].at)] = Header(ag, map.entries[ag].length, full),
         full => \A k \in 1 .. map.entries[ag].length - 1 :
                   LET l == P(map.entries[ag].at + k) IN
                   (IF l \in DOMAIN ws THEN ws[l] ELSE cache[l]) = Data(ag, k),
         Checkpointed(ws, [NextSuperblock EXCEPT !.seq = @ + 1])
  PROVE  /\ SbInv' /\ NoneBehind /\ UnitInv'
         /\ \A r \in Reachable' : r.seq >= sb.seq
         /\ sb'.seq = sb.seq + 1
         /\ Recoverable' = [Recoverable EXCEPT ![ag] = IF full THEN "full" ELSE "empty"]
         /\ ag \in DOMAIN Recoverable
         /\ \A p \in pending' : p[1] # Log
         /\ Log \in DOMAIN ws => durable'[Log] = ws[Log] /\ cache'[Log] = ws[Log]
         /\ Log \notin DOMAIN ws => durable'[Log] = cache[Log] /\ cache'[Log] = cache[Log]
<1> DEFINE e == map.entries[ag]
           s == [NextSuperblock EXCEPT !.seq = @ + 1]
<1>1. map = Recorded /\ map \in MapSet /\ ApartOn(map.entries, size) /\ s \in SbSet
      /\ sb \in SbSet /\ size \in Nat /\ size <= MaxSize
  BY InMemory DEF Stable
<1>2. /\ e \in EntrySet /\ e.present = TRUE /\ e.at \in Nat /\ e.length \in Nat \ {0}
      /\ Span(e) \subseteq Units /\ e.at \in Span(e)
      /\ \A k \in 0 .. e.length - 1 : e.at + k \in Span(e)
      /\ \A j \in Ids(map.entries) : j # ag => Span(e) \cap Span(map.entries[j]) = {}
  BY <1>1, SpanFacts
<1>3. DOMAIN ws \cap (MapCopies \cup SbCopies) = {}
  BY Locations
<1>4. SbInv' /\ NoneBehind /\ (\A r \in Reachable' : r.seq >= sb.seq) /\ sb'.seq = sb.seq + 1
  <2>1. pc # "down" /\ pc' # "down" /\ DOMAIN ws \cap SbCopies = {}
    BY <1>3
  <2> QED BY <1>1, <2>1, SbCheckpointed DEF IInv, GInv
<1>5. LeavesMap
  BY <1>1, <1>3, CheckpointedKept DEF IInv
<1>6. /\ durable' = Overlay(cache, ws)
      /\ cache' = Overlay(durable', SuperblockWrites(s))
      /\ pending' = {<<l, s>> : l \in SbCopies}
  BY DEF Checkpointed, SbCopies
<1> HIDE DEF s
<1>7. DOMAIN SuperblockWrites(s) = SbCopies
  BY DEF SuperblockWrites, SbCopies
<1>8. \A l \in Loc \ SbCopies :
        /\ cache'[l] = durable'[l]
        /\ durable'[l] = IF l \in DOMAIN ws THEN ws[l] ELSE cache[l]
  BY <1>6, <1>7, OverlayFacts DEF IInv, DeviceInv
<1>9. \A p \in pending' : p[1] \in SbCopies
  BY <1>6
<1>10. \A u \in Units : P(u) \in Loc \ SbCopies /\ cache[P(u)] = durable[P(u)]
  BY Locations DEF GInv, UnitInv, Touched
<1>11. UnitInv'
  <2>1. \A u \in Units : cache'[P(u)] = durable'[P(u)]
    BY <1>8, <1>10
  <2>2. \A u \in Units : \A p \in pending' : p[1] # P(u)
    BY <1>9, <1>10
  <2> QED BY <2>1, <2>2 DEF UnitInv
<1>12. Recorded' = Recorded
  BY <1>5, LoadSame DEF LeavesMap, Recorded
<1>13. ASSUME NEW i \in DOMAIN map.entries, i # ag
       PROVE  StateAt(durable', i, map.entries[i]) = StateAt(durable, i, map.entries[i])
  <2>1. map.entries[i] \in EntrySet /\ map.entries[i].length >= 1
    BY <1>1, EntryFacts
  <2>2. ASSUME map.entries[i].present, NEW k \in 0 .. map.entries[i].length - 1
        PROVE  durable'[P(map.entries[i].at + k)] = durable[P(map.entries[i].at + k)]
    <3> DEFINE u == map.entries[i].at + k
    <3>1. i \in Ids(map.entries)
      BY <2>2 DEF Ids
    <3>2. u \in Span(map.entries[i]) /\ u \in Units
      <4>1. /\ Span(map.entries[i]) \subseteq Units
            /\ \A j \in 0 .. map.entries[i].length - 1 : map.entries[i].at + j \in Span(map.entries[i])
        BY <1>1, <3>1, SpanFacts
      <4> QED BY <4>1
    <3>3. u \notin Span(e)
      BY <1>2, <1>13, <3>1, <3>2
    <3> HIDE DEF u, e
    <3>4. P(u) \notin {Log} \cup {P(v) : v \in Span(e)}
      BY <3>3, Locations
    <3>5. P(u) \notin DOMAIN ws
      BY <3>4 DEF e
    <3>6. durable'[P(u)] = durable[P(u)]
      BY <1>8, <1>10, <3>2, <3>5
    <3> QED BY <3>6 DEF u
  <2> QED BY <2>1, <2>2, StateSame
<1>14. StateAt(durable', ag, e) = IF full THEN "full" ELSE "empty"
  <2>1. P(e.at) \in Loc \ SbCopies
    BY <1>2, <1>10
  <2>2. durable'[P(e.at)] = Header(ag, e.length, full)
    BY <1>8, <2>1
  <2>3. ASSUME full, NEW k \in 1 .. e.length - 1
        PROVE  durable'[P(e.at + k)] = Data(ag, k)
    <3>1. P(e.at + k) \in Loc \ SbCopies
      BY <1>2, <1>10
    <3> QED BY <1>8, <2>3, <3>1
  <2> HIDE DEF e
  <2> QED BY <1>2, <2>2, <2>3 DEF StateAt, Header
<1>15. Recoverable' = [Recoverable EXCEPT ![ag] = IF full THEN "full" ELSE "empty"]
  <2>1. Recoverable = [i \in DOMAIN map.entries |-> StateAt(durable, i, map.entries[i])]
    BY <1>1 DEF Recoverable, Recorded, View
  <2>2. Recoverable' = [i \in DOMAIN map.entries |-> StateAt(durable', i, map.entries[i])]
    BY <1>1, <1>12 DEF Recoverable, Recorded, View
  <2> QED BY <1>13, <1>14, <2>1, <2>2
<1>16. ag \in DOMAIN Recoverable
  BY <1>1, RecoverableFacts DEF Ids
<1>17. \A p \in pending' : p[1] # Log
  BY <1>9, Locations
<1>18. Log \in Loc \ SbCopies
  BY Locations
<1> QED BY <1>4, <1>8, <1>11, <1>15, <1>16, <1>17, <1>18

(* Replay of a transaction that recovery does not skip changes nothing. *)
LEMMA ReplayGroups ==
  ASSUME IInv, GInv, IInv', Replay
  PROVE  GInv' /\ StoreStep
<1>1. pc = "replay" /\ pc' = "idle" /\ op' = NoOp /\ intent' = None
      /\ UNCHANGED <<size, map, limit, ops, faultVars>>
  BY DEF Replay
<1> DEFINE t == durable[Log]
<1>2. cache[Log] = t /\ \A p \in pending : p[1] # Log
  BY DEF GInv, LogInv
<1>3. limit = NoLimit /\ ~Retiring'
  BY <1>1 DEF GInv, GroupInv, Retiring
<1>4. SbInv /\ DeviceInv /\ DeviceInv' /\ sb \in SbSet /\ sb.seq >= Loaded.seq
  BY <1>1, InMemory DEF GInv, SbInv, IInv
<1>5. Loaded \in Reachable /\ Loaded \in SbSet
  BY <1>4, LoadedFacts DEF SbInv
<1>6. t.kind = "txn" => t.seq \in Nat /\ t.seq <= Loaded.seq /\ t.seq <= sb.seq /\ (Skipped \/ Applied)
                          /\ (Skipped => t.seq < Loaded.seq)
  <2> SUFFICES ASSUME t.kind = "txn"
               PROVE  t.seq \in Nat /\ t.seq <= Loaded.seq /\ t.seq <= sb.seq /\ (Skipped \/ Applied)
                        /\ (Skipped => t.seq < Loaded.seq)
    OBVIOUS
  <2>1. t.seq \in Nat /\ t.seq <= Loaded.seq /\ (Skipped \/ Applied)
    BY <1>5 DEF GInv, LogInv
  <2>2. Skipped => t.seq < Loaded.seq
    BY <1>5 DEF Skipped
  <2> QED BY <1>4, <1>5, <2>1, <2>2, SbFields
<1>7. ASSUME t.kind = "txn", t.seq = sb.seq
      PROVE  SbInv' /\ LogInv' /\ UnitInv' /\ Recoverable' = Recoverable
  <2> DEFINE ws == HeaderWrite(t.ag, t.full)
             e == map.entries[t.ag]
  <2>1. t.ag \in Ids(map.entries) /\ Checkpointed(ws, [NextSuperblock EXCEPT !.seq = @ + 1])
    BY <1>2, <1>7 DEF Replay
  <2>2. DOMAIN ws = {P(e.at)} /\ ws[P(e.at)] = Header(t.ag, e.length, t.full)
    BY DEF HeaderWrite
  <2>3. ~Skipped /\ Applied
    BY <1>4, <1>5, <1>6, <1>7, SbFields
  <2>4. map = Recorded /\ map \in MapSet /\ ApartOn(map.entries, size) /\ size \in Nat /\ size <= MaxSize
    BY <1>1, InMemory DEF Stable
  <2>5. /\ e.present = TRUE /\ e.at \in Span(e) /\ Span(e) \subseteq Units
        /\ e.length \in Nat \ {0} /\ e.at \in Nat
        /\ \A k \in 0 .. e.length - 1 : e.at + k \in Span(e)
    <3> DEFINE f(i) == map.entries[i]
    <3>1. \A i \in Ids(map.entries) :
            /\ f(i).present = TRUE /\ f(i).at \in Span(f(i)) /\ Span(f(i)) \subseteq Units
            /\ f(i).length \in Nat \ {0} /\ f(i).at \in Nat
            /\ \A k \in 0 .. f(i).length - 1 : f(i).at + k \in Span(f(i))
      BY <2>4, SpanFacts
    <3> QED BY <2>1, <3>1
  <2>6. Recoverable[t.ag] = (IF t.full THEN "full" ELSE "empty") /\ t.ag \in DOMAIN Recoverable
    BY <2>3 DEF Applied
  <2>7. Recoverable[t.ag] = StateAt(durable, t.ag, e)
    BY <2>4, <2>6, RecoverableFacts
  <2> HIDE DEF t, ws, e
  <2>8. ASSUME t.full, NEW k \in 1 .. e.length - 1
        PROVE  (IF P(e.at + k) \in DOMAIN ws THEN ws[P(e.at + k)] ELSE cache[P(e.at + k)]) = Data(t.ag, k)
    <3>1. durable[P(e.at + k)] = Data(t.ag, k)
      BY <2>5, <2>6, <2>7, <2>8 DEF StateAt
    <3>2. k \in 0 .. e.length - 1 /\ e.at + k # e.at
      BY <2>5
    <3>3. e.at + k \in Units
      BY <2>5, <3>2
    <3>4. cache[P(e.at + k)] = durable[P(e.at + k)]
      BY <1>1, <3>3 DEF GInv, UnitInv, Touched
    <3>5. P(e.at + k) \notin DOMAIN ws
      BY <2>2, <3>2, Locations
    <3> QED BY <3>1, <3>4, <3>5
  <2>9. DOMAIN ws \subseteq {Log} \cup {P(u) : u \in Span(e)} /\ Log \notin DOMAIN ws
    BY <2>2, <2>5, Locations
  <2>10. /\ SbInv' /\ NoneBehind /\ UnitInv'
         /\ sb'.seq = sb.seq + 1
         /\ Recoverable' = [Recoverable EXCEPT ![t.ag] = IF t.full THEN "full" ELSE "empty"]
         /\ \A p \in pending' : p[1] # Log
         /\ durable'[Log] = cache[Log] /\ cache'[Log] = cache[Log]
    BY <1>1, <2>1, <2>2, <2>8, <2>9, CheckpointedGroup DEF e
  <2>11. Recoverable' = Recoverable
    BY <2>6, <2>10, RecoverableFacts
  <2>12. LogInv'
    <3>1. LogInv /\ t.seq < sb'.seq
      BY <1>4, <1>7, <2>10, SbFields DEF GInv
    <3> QED BY <1>2, <1>3, <1>4, <2>10, <2>11, <3>1, LogKept DEF Stays, t
  <2> QED BY <2>10, <2>11, <2>12
<1>8. ASSUME ~(t.kind = "txn" /\ t.seq = sb.seq)
      PROVE  SbInv' /\ LogInv' /\ UnitInv' /\ Recoverable' = Recoverable
  <2>1. durable' = durable /\ cache' = cache /\ pending' = pending /\ sb' = sb
    BY <1>2, <1>8 DEF Replay, deviceVars
  <2>2. SbInv' /\ NoneBehind
    BY <1>1, <1>4, <2>1, SbSame
  <2>3. Recoverable' = Recoverable
    BY <2>1 DEF Recoverable
  <2>4. t.kind = "txn" => t.seq < sb'.seq
    BY <1>4, <1>6, <1>8, <2>1, SbFields
  <2>5. LogInv'
    BY <1>2, <1>3, <1>4, <2>1, <2>2, <2>3, <2>4, LogKept DEF GInv, Stays
  <2>6. UnitInv'
    BY <1>1, <2>1 DEF GInv, UnitInv, Touched
  <2> QED BY <2>2, <2>3, <2>5, <2>6
<1>9. SbInv' /\ LogInv' /\ UnitInv' /\ Recoverable' = Recoverable
  BY <1>7, <1>8
<1>10. GroupInv'
  BY <1>1, <1>3, <1>9 DEF GInv, GroupInv
<1>11. StoreStep
  BY <1>1, <1>9 DEF StoreStep, Store!vars, Store!Next, Store!End, None, Store!None
<1> QED BY <1>9, <1>10, <1>11 DEF GInv

(* A transaction fills an empty group or empties a full one. *)
LEMMA CommitGroups ==
  ASSUME IInv, GInv, IInv', NEW ag, Commit(ag)
  PROVE  GInv' /\ StoreStep
<1> DEFINE e == map.entries[ag]
           full == ~Header0(ag).full
           units == IF full THEN {P(e.at + k) : k \in 1 .. e.length - 1} ELSE {}
           data == [l \in units |-> Data(ag, l[2] - e.at)]
           record == [l \in {Log} |-> Txn(sb.seq, ag, full)]
           ws == [l \in units \cup {Log, P(e.at)} |->
                    IF l \in units THEN data[l]
                    ELSE IF l = Log THEN record[l]
                    ELSE HeaderWrite(ag, full)[l]]
           new == IF full THEN "full" ELSE "empty"
<1>1. pc = "idle" /\ pc' = "idle" /\ ag \in Ids(map.entries)
      /\ UNCHANGED <<pc, map, op, limit, intent, size, faultVars>>
      /\ Checkpointed(ws, [NextSuperblock EXCEPT !.seq = @ + 1])
  BY DEF Commit
<1>2. map = Recorded /\ map \in MapSet /\ ApartOn(map.entries, size) /\ size \in Nat /\ size <= MaxSize
      /\ sb.seq \in Nat
  BY <1>1, InMemory DEF Stable
<1>3. /\ e.at \in Nat /\ e.length \in Nat \ {0} /\ e.at \in Span(e)
      /\ \A k \in 0 .. e.length - 1 : e.at + k \in Span(e)
  <2> DEFINE f(i) == map.entries[i]
  <2>1. \A i \in Ids(map.entries) :
          /\ f(i).at \in Nat /\ f(i).length \in Nat \ {0} /\ f(i).at \in Span(f(i))
          /\ \A k \in 0 .. f(i).length - 1 : f(i).at + k \in Span(f(i))
    BY <1>2, SpanFacts
  <2> QED BY <1>1, <2>1
<1>4. DOMAIN ws = units \cup {Log, P(e.at)}
  OBVIOUS
<1>5. \A l \in units : \E k \in 1 .. e.length - 1 : l = P(e.at + k)
  OBVIOUS
<1>6. Log \notin units /\ P(e.at) \notin units /\ P(e.at) # Log
  <2> HIDE DEF units
  <2>1. \A k \in 1 .. e.length - 1 : P(e.at + k) # P(e.at)
    <3> TAKE k \in 1 .. e.length - 1
    <3>1. e.at + k # e.at
      BY <1>3
    <3> QED BY <3>1, Locations
  <2> QED BY <1>5, <2>1, Locations
<1>7. ws[Log] = Txn(sb.seq, ag, full)
  <2> HIDE DEF units, full
  <2> QED BY <1>6
<1>8. ws[P(e.at)] = Header(ag, e.length, full)
  <2>1. HeaderWrite(ag, full)[P(e.at)] = Header(ag, e.length, full)
    BY DEF HeaderWrite
  <2>2. ws[P(e.at)] = HeaderWrite(ag, full)[P(e.at)]
    <3> HIDE DEF units, full
    <3> QED BY <1>6
  <2> QED BY <2>1, <2>2
<1>9. ASSUME full, NEW k \in 1 .. e.length - 1
      PROVE  P(e.at + k) \in DOMAIN ws /\ ws[P(e.at + k)] = Data(ag, k)
  <2>1. P(e.at + k) \in units
    BY <1>9
  <2>2. P(e.at + k)[2] - e.at = k
    BY <1>3 DEF P
  <2>3. data[P(e.at + k)] = Data(ag, k)
    <3> HIDE DEF units
    <3> QED BY <2>1, <2>2
  <2>4. ws[P(e.at + k)] = data[P(e.at + k)]
    <3> HIDE DEF units, full, data
    <3> QED BY <2>1
  <2> QED BY <1>4, <2>1, <2>3, <2>4
<1>10. DOMAIN ws \subseteq {Log} \cup {P(u) : u \in Span(e)}
  <2> SUFFICES ASSUME NEW l \in units PROVE l \in {P(u) : u \in Span(e)}
    BY <1>3, <1>4
  <2>1. PICK k \in 1 .. e.length - 1 : l = P(e.at + k)
    BY <1>5
  <2>2. e.at + k \in Span(e)
    BY <1>3
  <2> QED BY <2>1, <2>2
<1>11. Log \in DOMAIN ws /\ P(e.at) \in DOMAIN ws
  BY <1>4
<1> HIDE DEF ws
<1>12. /\ SbInv' /\ UnitInv'
       /\ \A r \in Reachable' : r.seq >= sb.seq
       /\ sb'.seq = sb.seq + 1
       /\ Recoverable' = [Recoverable EXCEPT ![ag] = new]
       /\ ag \in DOMAIN Recoverable
       /\ \A p \in pending' : p[1] # Log
       /\ durable'[Log] = ws[Log] /\ cache'[Log] = ws[Log]
  <2>1. full => \A k \in 1 .. e.length - 1 :
                  LET l == P(e.at + k) IN (IF l \in DOMAIN ws THEN ws[l] ELSE cache[l]) = Data(ag, k)
    BY <1>9
  <2>2. pc \in {"replay", "idle"} /\ pc' = "idle"
    BY <1>1
  <2> HIDE DEF full
  <2> QED BY <1>1, <1>8, <1>10, <1>11, <2>1, <2>2, CheckpointedGroup
<1>13. Unbroken(Recoverable) /\ limit = NoLimit /\ intent = None /\ UnitInv
  BY <1>1 DEF GInv, GroupInv
<1>14. Recoverable[ag] = (IF full THEN "empty" ELSE "full")
  BY <1>1, <1>13, HeaderFacts
<1> HIDE DEF full, new
<1>15. LogInv'
  <2> DEFINE t == durable'[Log]
  <2>1. t = Txn(sb.seq, ag, full) /\ cache'[Log] = t
    BY <1>7, <1>12
  <2>2. t.seq = sb.seq /\ t.ag = ag /\ t.full = full
    BY <2>1 DEF Txn
  <2>3. t.seq \in Nat /\ t.seq < sb'.seq
    BY <1>2, <1>12, <2>2
  <2>4. \A s \in Reachable' : t.seq <= s.seq
    <3> TAKE s \in Reachable'
    <3>1. s.seq \in Nat
      <4>1. PICK l \in SbCopies : s \in MayLoad(l)'
        BY DEF Reachable, SbCopies
      <4>2. s.kind = "sb" /\ (s = durable'[l] \/ \E p \in pending' : p[1] = l /\ p[2] = s)
        BY <4>1 DEF MayLoad
      <4>3. s \in SbSet
        BY <4>2, TornFacts DEF IInv, DeviceInv
      <4> QED BY <4>3, SbFields
    <3>2. s.seq >= sb.seq
      BY <1>12
    <3> QED BY <1>2, <2>2, <3>1, <3>2
  <2>5. Applied'
    <3>1. ag \in DOMAIN Recoverable' /\ Recoverable'[ag] = new
      BY <1>12
    <3> QED BY <2>2, <3>1 DEF Applied, new
  <2>6. ~Retiring'
    BY <1>1, <1>13 DEF Retiring
  <2> QED BY <1>12, <2>1, <2>3, <2>4, <2>5, <2>6 DEF LogInv
<1>16. GroupInv'
  <2>1. Unbroken(Recoverable')
    BY <1>12, <1>13 DEF Unbroken, new
  <2> QED BY <1>1, <1>13, <2>1 DEF GroupInv
<1>17. StoreStep
  <2>1. Recoverable' \in Store!Writes
    BY <1>12, <1>14 DEF Store!Writes, Store!Changed, new
  <2> QED BY <1>1, <1>13, <2>1 DEF StoreStep, Store!Next, Store!Write, None, Store!None
<1> QED BY <1>12, <1>15, <1>16, <1>17 DEF GInv

(* A write that the map does not refer to. *)
LEMMA UnitGroups ==
  ASSUME IInv, GInv, IInv', {pc, pc'} \cap {"down", "replay"} = {}, sb' = sb,
         NEW u \in Units, NEW ws, DOMAIN ws = {P(u)}, Pwrite(ws),
         u \in Touched', Touched \subseteq Touched',
         durable[Log].kind = "txn" /\ Retiring' => Retiring \/ Skipped
  PROVE  /\ SbInv' /\ LogInv' /\ UnitInv' /\ Recoverable' = Recoverable
         /\ durable' = durable /\ cache'[P(u)] = ws[P(u)]
         /\ \A v \in Units : v # u => cache'[P(v)] = cache[P(v)]
<1>1. P(u) \in Loc /\ P(u) \notin MapCopies \cup SbCopies /\ P(u) # Log
  BY Locations
<1>2. cache' = Overlay(cache, ws) /\ durable' = durable
      /\ pending' = pending \cup {<<P(u), ws[P(u)]>>}
  BY DEF Pwrite
<1>3. cache'[P(u)] = ws[P(u)] /\ \A l \in Loc : l # P(u) => cache'[l] = cache[l]
  BY <1>1, <1>2, OverlayFacts DEF IInv, DeviceInv
<1>4. \A p \in pending' : p \in pending \/ p[1] = P(u)
  BY <1>2
<1>5. SbInv' /\ NoneBehind
  <2>1. pc # "down" /\ pc' # "down" /\ sb'.gen = sb.gen /\ sb'.seq = sb.seq
    OBVIOUS
  <2>2. \A l \in SbCopies : durable'[l] = durable[l] /\ cache'[l] = cache[l]
    BY <1>1, <1>2, <1>3, Locations
  <2>3. /\ \A p \in pending : p[1] \in SbCopies => p \in pending'
        /\ \A p \in pending' : p[1] \in SbCopies => p \in pending
    BY <1>1, <1>2, <1>4
  <2> QED BY <2>1, <2>2, <2>3, SbSame DEF IInv, GInv
<1>6. Recoverable' = Recoverable
  BY <1>2 DEF Recoverable
<1>7. LogInv'
  <2>1. durable'[Log] = durable[Log] /\ cache'[Log] = durable[Log] /\ \A p \in pending' : p[1] # Log
    BY <1>1, <1>2, <1>3, <1>4, Locations DEF GInv, LogInv
  <2> QED BY <1>5, <1>6, <2>1, LogKept DEF IInv, GInv, LogInv, Stays
<1>8. \A v \in Units : v # u => P(v) \in Loc /\ P(v) # P(u)
  BY Locations
<1>9. UnitInv'
  <2> SUFFICES ASSUME NEW v \in Units, v \notin Touched'
               PROVE  cache'[P(v)] = durable'[P(v)] /\ \A p \in pending' : p[1] # P(v)
    BY DEF UnitInv
  <2>1. v # u /\ v \notin Touched
    OBVIOUS
  <2>2. cache[P(v)] = durable[P(v)] /\ \A p \in pending : p[1] # P(v)
    BY <2>1 DEF GInv, UnitInv
  <2> QED BY <1>2, <1>3, <1>4, <1>8, <2>1, <2>2
<1> QED BY <1>2, <1>3, <1>5, <1>6, <1>7, <1>8, <1>9

(* add_ag and grow: the header of the new group, which no map lists. *)
LEMMA StartAddGroups ==
  ASSUME Risks = {}, IInv, GInv, IInv', pc = "idle",
         NEW at, NEW length, StartAdd(at, length),
         sb' = sb, map' = map, limit' = limit
  PROVE  GInv' /\ StoreStep
<1> DEFINE ws == [l \in {P(at)} |-> Header(sb.nextAg, length, FALSE)]
<1>1. /\ pc' = "addSync" /\ Pwrite(ws)
      /\ op' = [NoOp EXCEPT !.kind = "add", !.ag = sb.nextAg, !.at = at, !.length = length]
      /\ intent' = Append(View0, "empty")
      /\ sb.nextAg = Len(map.entries) + 1
  BY DEF StartAdd, Agreed
<1>2. op'.kind = "add" /\ op'.ag = sb.nextAg /\ op'.at = at /\ op'.length = length
  BY <1>1 DEF NoOp
<1>3. at \in Units
  <2>1. FreePlace(map'.entries, at, length, 0 - 1, size')
    BY <1>1, <1>2 DEF IInv, OpInv
  <2>2. size' \in BootLength .. MaxSize
    BY DEF IInv, MemoryInv
  <2> QED BY <2>1, <2>2, SizeAssumption DEF FreePlace, Units
<1>4. DOMAIN ws = {P(at)} /\ ws[P(at)] = Header(sb.nextAg, length, FALSE)
  OBVIOUS
<1> HIDE DEF ws
<1>5. Touched = {} /\ Touched' = {at} /\ (Retiring' => Retiring)
  BY <1>1, <1>2 DEF Touched, Retiring
<1>6. SbInv' /\ LogInv' /\ UnitInv' /\ Recoverable' = Recoverable /\ cache'[P(at)] = ws[P(at)]
  <2>1. {pc, pc'} \cap {"down", "replay"} = {}
    BY <1>1
  <2> QED BY <1>1, <1>3, <1>4, <1>5, <2>1, UnitGroups
<1>7. Unbroken(Recoverable) /\ intent = None /\ UnitInv
  BY DEF GInv, GroupInv
<1>8. View0 = Recoverable
  BY <1>7, AtRest
<1>9. GroupInv'
  BY <1>1, <1>2, <1>4, <1>6, <1>7, <1>8 DEF GroupInv
<1>10. StoreStep
  BY <1>1, <1>6, <1>7, <1>8
  DEF StoreStep, Store!Next, Store!Begin, Store!Outcomes, None, Store!None
<1> QED BY <1>6, <1>9, <1>10 DEF GInv

LEMMA AddAgGroups ==
  ASSUME Risks = {}, IInv, GInv, IInv', NEW at, NEW length, AddAg(at, length)
  PROVE  GInv' /\ StoreStep
BY StartAddGroups DEF AddAg

LEMMA GrowGroups ==
  ASSUME Risks = {}, IInv, GInv, IInv', NEW n, Grow(n)
  PROVE  GInv' /\ StoreStep
<1> DEFINE end == MappedEnd(map.entries)
<1>1. pc = "idle" /\ UNCHANGED <<sb, map, limit, faultVars>>
      /\ IF n - end >= MinLength THEN StartAdd(end, n - end) ELSE UNCHANGED <<deviceVars, op, intent, pc>>
  BY DEF Grow
<1> HIDE DEF end
<1>2. CASE n - end >= MinLength
  BY <1>1, <1>2, StartAddGroups
<1>3. CASE ~(n - end >= MinLength)
  <2>1. UNCHANGED <<deviceVars, op, intent, pc>>
    BY <1>1, <1>3
  <2>2. SbInv' /\ LogInv' /\ UnitInv' /\ Recoverable' = Recoverable
    <3>1. {pc, pc'} \cap {"down", "replay"} = {} /\ (Retiring' => Retiring) /\ Touched' = Touched
      BY <1>1, <2>1 DEF Retiring, Touched
    <3> QED BY <1>1, <2>1, <3>1, Quiet
  <2>3. GroupInv'
    BY <1>1, <2>1, <2>2 DEF GInv, GroupInv
  <2> QED BY <2>1, <2>2, <2>3, Stutters DEF GInv
<1> QED BY <1>2, <1>3

(* What add_ag or relocate wrote is durable, and no recovery sees it yet. *)
LEMMA SyncGroups ==
  ASSUME IInv, GInv, IInv', pc \in {"addSync", "copySync"}, pc' = "writeMap", Sync,
         sb'.gen = sb.gen, sb'.seq = sb.seq, limit' = limit, op' = op
  PROVE  /\ SbInv' /\ LogInv' /\ UnitInv' /\ Recoverable' = Recoverable
         /\ durable' = cache
         /\ map = Recorded /\ map \in MapSet /\ ApartOn(map.entries, size)
         /\ DOMAIN Recoverable = DOMAIN map.entries
         /\ \A i \in DOMAIN map.entries : Recoverable[i] = StateAt(durable', i, map.entries[i])
         /\ \A u \in Units \ Touched : cache[P(u)] = durable[P(u)]
         /\ Touched \subseteq op.at .. op.at + op.length - 1
<1>1. durable' = cache /\ cache' = cache /\ pending' = {}
  BY DEF Sync
<1>2. map = Recorded /\ map \in MapSet /\ ApartOn(map.entries, size) /\ sb \in SbSet
      /\ size \in Nat /\ size <= MaxSize
  BY InMemory DEF Stable
<1>3. FreePlace(map.entries, op.at, op.length, 0 - 1, size)
  BY DEF IInv, OpInv, GInv, GroupInv
<1>4. Touched \subseteq op.at .. op.at + op.length - 1
  BY <1>3 DEF FreePlace, Touched
<1>5. LeavesMap
  BY SyncKept DEF IInv
<1>6. \A u \in Units \ Touched : cache[P(u)] = durable[P(u)]
  BY DEF GInv, UnitInv
<1>7. \A i \in Ids(map.entries) : \A u \in Span(map.entries[i]) : u \in Units \ Touched
  <2> TAKE i \in Ids(map.entries)
  <2>1. Span(map.entries[i]) \subseteq Units
        /\ Span(map.entries[i]) \cap (op.at .. op.at + op.length - 1) = {}
    BY <1>2, <1>3, SpanFacts, ZenonT(60)
  <2> QED BY <1>4, <2>1
<1>8. Recoverable' = Recoverable
  BY <1>1, <1>2, <1>5, <1>6, <1>7, GroupsStay
<1>9. SbInv' /\ NoneBehind
  BY <1>2, SbSynced DEF IInv, GInv
<1>10. LogInv'
  <2>1. durable'[Log] = durable[Log] /\ cache'[Log] = durable[Log] /\ \A p \in pending' : p[1] # Log
    BY <1>1 DEF GInv, LogInv
  <2>2. durable[Log].kind = "txn" =>
          /\ durable[Log].seq < sb'.seq
          /\ Retiring' => Skipped
    <3>1. (Retiring' => Retiring) \/ op.kind = "retire"
      BY DEF Retiring
    <3>2. op.kind # "retire"
      BY DEF GInv, GroupInv
    <3> QED BY <3>1, <3>2 DEF GInv, LogInv
  <2> QED BY <1>8, <1>9, <2>1, <2>2, LogKept DEF IInv, GInv, Stays
<1>11. UnitInv'
  BY <1>1 DEF UnitInv
<1>12. \A i \in DOMAIN map.entries : Recoverable'[i] = StateAt(durable', i, map.entries[i])
  <2>1. Recorded' = Recorded
    BY <1>5, LoadSame DEF LeavesMap, Recorded
  <2>2. Recoverable' = View(durable', map.entries)
    BY <1>2, <2>1 DEF Recoverable, Recorded
  <2> QED BY <1>2, <2>2, ViewFacts
<1>13. DOMAIN Recoverable = DOMAIN map.entries
  BY <1>2, RecoverableFacts
<1> QED BY <1>1, <1>2, <1>4, <1>6, <1>8, <1>9, <1>10, <1>11, <1>12, <1>13

LEMMA AddSyncGroups ==
  ASSUME IInv, GInv, IInv', AddSync
  PROVE  GInv' /\ StoreStep
<1> DEFINE es == map.entries
           k == Len(es) + 1
           new == Entry(op.at, op.length)
           fs == map'.entries
<1>1. pc = "addSync" /\ pc' = "writeMap" /\ Sync
      /\ map' = [map EXCEPT !.entries = Append(@, new)]
      /\ sb' = [sb EXCEPT !.nextAg = op.ag + 1]
      /\ UNCHANGED <<size, op, limit, intent, ops, faultVars>>
  BY DEF AddSync
<1>2. sb'.gen = sb.gen /\ sb'.seq = sb.seq
  BY <1>1, InMemory DEF SbSet
<1>3. /\ SbInv' /\ LogInv' /\ UnitInv' /\ Recoverable' = Recoverable
      /\ durable' = cache
      /\ map = Recorded /\ map \in MapSet
      /\ DOMAIN Recoverable = DOMAIN es
      /\ \A i \in DOMAIN es : Recoverable[i] = StateAt(durable', i, es[i])
  BY <1>1, <1>2, SyncGroups
<1>4. /\ op.kind = "add" /\ op.ag = k /\ Unbroken(Recoverable)
      /\ cache[P(op.at)] = Header(op.ag, op.length, FALSE)
      /\ intent = Append(Recoverable, "empty")
      /\ FreePlace(es, op.at, op.length, 0 - 1, size)
  BY <1>1 DEF GInv, GroupInv, IInv, OpInv
<1>5. /\ es \in Seq(EntrySet) /\ Len(es) \in Nat /\ DOMAIN es = 1 .. Len(es)
      /\ map \in [kind : {"map"}, gen : Nat, entries : Seq(EntrySet)]
  BY <1>3, EntryFacts DEF MapSet
<1>6. new \in EntrySet /\ new.present = TRUE /\ new.at = op.at /\ new.length = op.length
  <2>1. op.at \in 0 .. MaxSize /\ op.length \in Nat
    BY <1>4, InMemory DEF FreePlace
  <2> QED BY <2>1 DEF Entry, EntrySet
<1>7. fs = Append(es, new) /\ map' \in MapSet
  <2>1. fs = Append(es, new)
    BY <1>1, <1>5
  <2>2. map' \in MapSet
    BY DEF IInv, MemoryInv
  <2> QED BY <2>1, <2>2
<1> HIDE DEF new
<1>8. /\ Len(fs) = k
      /\ \A i \in 1 .. Len(es) : fs[i] = es[i]
      /\ fs[k] = new
  BY <1>5, <1>6, <1>7, AppendProperties
<1>9. Target' = Append(Recoverable, "empty")
  <2> DEFINE v == View(durable', fs)
             w == Append(Recoverable, "empty")
  <2>1. /\ v \in Seq(States) /\ Len(v) = k
        /\ \A i \in 1 .. k : v[i] = StateAt(durable', i, fs[i])
    <3>1. \A m \in MapSet : DOMAIN m.entries = 1 .. Len(m.entries)
      BY EntryFacts
    <3>2. \A m \in MapSet :
            /\ View(durable', m.entries) \in Seq(States)
            /\ Len(View(durable', m.entries)) = Len(m.entries)
            /\ \A i \in DOMAIN m.entries :
                 View(durable', m.entries)[i] = StateAt(durable', i, m.entries[i])
      BY ViewFacts
    <3> QED BY <1>7, <1>8, <3>1, <3>2
  <2>2. Recoverable \in Seq(States) /\ Len(Recoverable) = Len(es)
    BY <1>3, RecoverableFacts
  <2>3. /\ w \in Seq(States) /\ Len(w) = k
        /\ \A i \in 1 .. Len(es) : w[i] = Recoverable[i]
        /\ w[k] = "empty"
    <3>1. "empty" \in States
      BY DEF States
    <3> QED BY <2>2, <3>1, AppendProperties
  <2>4. StateAt(durable', k, new) = "empty"
    BY <1>3, <1>4, <1>6 DEF StateAt, Header
  <2> HIDE DEF v, w
  <2>5. \A i \in 1 .. k : v[i] = w[i]
    <3> TAKE i \in 1 .. k
    <3>1. CASE i = k
      BY <1>8, <2>1, <2>3, <2>4, <3>1
    <3>2. CASE i \in 1 .. Len(es)
      BY <1>3, <1>5, <1>8, <2>1, <2>3, <3>2
    <3> QED BY <1>5, <3>1, <3>2
  <2>6. v = w
    BY <2>1, <2>3, <2>5, SeqEqual
  <2> QED BY <2>6 DEF Target, v, w
<1>10. Unbroken(Target')
  <2>1. Recoverable \in Seq(States) /\ "empty" \in States
    BY RecoverableFacts DEF States
  <2>2. \A i \in DOMAIN Target' : i \in 1 .. Len(Recoverable) + 1
    BY <1>9, <2>1, AppendProperties, LenProperties
  <2>3. DOMAIN Recoverable = 1 .. Len(Recoverable) /\ Len(Recoverable) \in Nat
    BY <2>1, LenProperties
  <2>4. /\ \A i \in 1 .. Len(Recoverable) : Target'[i] = Recoverable[i]
        /\ Target'[Len(Recoverable) + 1] = "empty"
    BY <1>9, <2>1, AppendProperties
  <2> QED BY <1>4, <2>2, <2>3, <2>4 DEF Unbroken
<1>11. GroupInv'
  BY <1>1, <1>3, <1>4, <1>9, <1>10 DEF GroupInv
<1> QED BY <1>1, <1>3, <1>11, Stutters DEF GInv

(* relocate: the place is free, and copying does not disturb what is read. *)
LEMMA StartMoveGroups ==
  ASSUME Risks = {}, IInv, GInv, IInv', pc \in {"idle", "shrink"}, limit' = limit,
         NEW ag, NEW dest, Movable(ag, dest), StartMove(ag, dest)
  PROVE  GInv' /\ StoreStep
<1> DEFINE length == map.entries[ag].length
<1>1. pc' = "copy" /\ UNCHANGED <<deviceVars, size, sb, map, intent, faultVars>>
      /\ op' = [NoOp EXCEPT !.kind = "relocate", !.ag = ag, !.at = dest, !.length = length]
  BY DEF StartMove
<1>2. ag \in Ids(map.entries) /\ dest + length <= size /\ ~Overlaps(map.entries, dest, length, 0 - 1)
  BY DEF Movable
<1>3. op'.kind = "relocate" /\ op'.at = dest /\ op'.length = length /\ op'.done = 0
  BY <1>1 DEF NoOp
<1>4. FreePlace(map.entries, dest, length, 0 - 1, size)
  <2>1. dest \in Nat /\ length \in Nat \ {0}
    BY <1>1, <1>3 DEF IInv, OpInv, FreePlace
  <2> QED BY <1>2, <2>1, InMemory, OverlapsFacts
<1>5. SbInv' /\ LogInv' /\ UnitInv' /\ Recoverable' = Recoverable
  <2>1. {pc, pc'} \cap {"down", "replay"} = {} /\ (Retiring' => Retiring) /\ Touched = {}
    BY <1>1 DEF Retiring, Touched
  <2> QED BY <1>1, <2>1, Quiet
<1>6. Unbroken(Recoverable) /\ intent = None
  BY DEF GInv, GroupInv
<1>7. GroupInv'
  BY <1>1, <1>3, <1>4, <1>5, <1>6 DEF GroupInv
<1> QED BY <1>1, <1>5, <1>7, Stutters DEF GInv

LEMMA RelocateGroups ==
  ASSUME Risks = {}, IInv, GInv, IInv', NEW ag, NEW dest, Relocate(ag, dest)
  PROVE  GInv' /\ StoreStep
BY StartMoveGroups DEF Relocate

LEMMA ShrinkMoveGroups ==
  ASSUME Risks = {}, IInv, GInv, IInv', ShrinkMove
  PROVE  GInv' /\ StoreStep
BY StartMoveGroups DEF ShrinkMove

LEMMA CopyGroups ==
  ASSUME IInv, GInv, IInv', Copy
  PROVE  GInv' /\ StoreStep
<1> DEFINE src == map.entries[op.ag].at
           u == op.at + op.done
           ws == [l \in {P(u)} |-> cache[P(src + op.done)]]
<1>1. pc = "copy" /\ op' = [op EXCEPT !.done = @ + 1] /\ Pwrite(ws)
      /\ pc' = (IF op.done + 1 = op.length THEN "copySync" ELSE "copy")
      /\ UNCHANGED <<size, sb, map, limit, intent, ops, faultVars>>
  BY DEF Copy
<1>2. /\ map = Recorded /\ map \in MapSet /\ ApartOn(map.entries, size) /\ size \in Nat /\ size <= MaxSize
      /\ op.ag \in Ids(map.entries) /\ op.length = map.entries[op.ag].length
      /\ op.done < op.length
  BY <1>1, InMemory DEF Stable, IInv, OpInv
<1>3. /\ op.kind = "relocate" /\ FreePlace(map.entries, op.at, op.length, 0 - 1, size)
      /\ \A k \in 0 .. op.done - 1 : cache[P(op.at + k)] = cache[P(src + k)]
      /\ Unbroken(Recoverable) /\ intent = None
  BY <1>1 DEF GInv, GroupInv
<1>4. op.done \in Nat /\ op.at \in Nat /\ op.length \in Nat /\ op.at + op.length <= size /\ MaxSize \in Nat
  BY <1>3, InMemory DEF FreePlace, OpSet
<1>5. /\ op'.kind = op.kind /\ op'.ag = op.ag /\ op'.at = op.at /\ op'.length = op.length
      /\ op'.done = op.done + 1
  BY <1>1, InMemory DEF OpSet
<1>6. /\ src \in Nat
      /\ \A k \in 0 .. op.length - 1 : src + k \in Units /\ src + k \notin op.at .. op.at + op.length - 1
  <2> DEFINE f(i) == map.entries[i]
  <2>1. \A i \in Ids(map.entries) :
          /\ f(i).at \in Nat /\ Span(f(i)) \subseteq Units
          /\ \A k \in 0 .. f(i).length - 1 : f(i).at + k \in Span(f(i))
          /\ Span(f(i)) \cap (op.at .. op.at + op.length - 1) = {}
    BY <1>2, <1>3, SpanFacts
  <2> QED BY <1>2, <2>1
<1>7. u \in Units /\ u \in op.at .. op.at + op.length - 1
  BY <1>2, <1>4 DEF Units
<1>8. Touched = op.at .. op.at + op.length - 1 /\ Touched' = Touched
  BY <1>1, <1>5 DEF Touched
<1>9. DOMAIN ws = {P(u)} /\ ws[P(u)] = cache[P(src + op.done)]
  OBVIOUS
<1> HIDE DEF ws, src
<1>10. /\ SbInv' /\ LogInv' /\ UnitInv' /\ Recoverable' = Recoverable
       /\ cache'[P(u)] = cache[P(src + op.done)]
       /\ \A v \in Units : v # u => cache'[P(v)] = cache[P(v)]
  <2>1. {pc, pc'} \cap {"down", "replay"} = {} /\ (Retiring' => Retiring)
    BY <1>1 DEF Retiring
  <2> HIDE DEF u
  <2> QED BY <1>1, <1>7, <1>8, <1>9, <2>1, UnitGroups
<1>11. ASSUME NEW k \in 0 .. op.done
       PROVE  cache'[P(op.at + k)] = cache'[P(src + k)]
  <2>1. src + k \in Units /\ src + k # u
    BY <1>2, <1>4, <1>6, <1>7
  <2>2. cache'[P(src + k)] = cache[P(src + k)]
    BY <1>10, <2>1
  <2>3. CASE k = op.done
    BY <1>10, <2>2, <2>3
  <2>4. CASE k \in 0 .. op.done - 1
    <3>1. op.at + k \in Units /\ op.at + k # u
      BY <1>2, <1>4, <2>4 DEF Units
    <3>2. cache'[P(op.at + k)] = cache[P(op.at + k)]
      BY <1>10, <3>1
    <3> QED BY <1>3, <2>2, <2>4, <3>2
  <2>5. k = op.done \/ k \in 0 .. op.done - 1
    BY <1>4
  <2> QED BY <2>3, <2>4, <2>5
<1>12. \A k \in 0 .. op'.done - 1 : cache'[P(op'.at + k)] = cache'[P(map'.entries[op'.ag].at + k)]
  <2>1. op'.done - 1 = op.done
    BY <1>4, <1>5
  <2> QED BY <1>1, <1>5, <1>11, <2>1 DEF src
<1>13. GroupInv'
  <2>1. pc' \in {"copy", "copySync"} /\ (pc' = "copySync" => op'.done = op'.length)
    BY <1>1, <1>5
  <2> QED BY <1>1, <1>3, <1>5, <1>10, <1>12, <2>1 DEF GroupInv
<1> QED BY <1>1, <1>10, <1>13, Stutters DEF GInv

(* The group at its new place is the group at the old one. *)
LEMMA CopySyncGroups ==
  ASSUME IInv, GInv, IInv', CopySync
  PROVE  GInv' /\ StoreStep
<1> DEFINE es == map.entries
           fs == map'.entries
           k == op.ag
           e == [es[k] EXCEPT !.at = op.at]
<1>1. pc = "copySync" /\ pc' = "writeMap" /\ Sync
      /\ map' = [map EXCEPT !.entries[op.ag].at = op.at]
      /\ UNCHANGED <<size, sb, op, limit, intent, ops, faultVars>>
  BY DEF CopySync
<1>2. /\ SbInv' /\ LogInv' /\ UnitInv' /\ Recoverable' = Recoverable
      /\ durable' = cache
      /\ map = Recorded /\ map \in MapSet
      /\ DOMAIN Recoverable = DOMAIN es
      /\ \A i \in DOMAIN es : Recoverable[i] = StateAt(durable', i, es[i])
  BY <1>1, SyncGroups
<1>3. /\ op.kind = "relocate" /\ Unbroken(Recoverable) /\ intent = None
      /\ op.done = op.length
      /\ \A j \in 0 .. op.done - 1 : cache[P(op.at + j)] = cache[P(es[k].at + j)]
      /\ k \in Ids(es) /\ op.length = es[k].length
      /\ FreePlace(es, op.at, op.length, 0 - 1, size)
  BY <1>1 DEF GInv, GroupInv, IInv, OpInv
<1>4. k \in DOMAIN es /\ es[k] \in EntrySet /\ es[k].present /\ es[k].length \in Nat \ {0}
  BY <1>2, <1>3, EntryFacts DEF Ids
<1>5. op.at \in 0 .. MaxSize
  BY <1>3, InMemory DEF FreePlace
<1>6. e \in EntrySet /\ e.present = es[k].present /\ e.at = op.at /\ e.length = es[k].length
  BY <1>4, <1>5 DEF EntrySet
<1>7. map' = [map EXCEPT !.entries[k] = e]
  BY <1>1
<1> HIDE DEF e
<1>8. DOMAIN fs = DOMAIN es /\ fs[k] = e /\ \A i \in DOMAIN es : i # k => fs[i] = es[i]
  BY <1>2, <1>4, <1>6, <1>7, ReplacedFacts
<1>9. \A i \in DOMAIN es : StateAt(durable', i, fs[i]) = Recoverable[i]
  <2> TAKE i \in DOMAIN es
  <2>1. CASE i = k
    <3>1. \A j \in 0 .. e.length - 1 : durable'[P(e.at + j)] = durable'[P(es[k].at + j)]
      BY <1>2, <1>3, <1>6
    <3>2. StateAt(durable', k, e) = StateAt(durable', k, es[k])
      <4> DEFINE g == es[k]
      <4>1. g \in EntrySet /\ e \in EntrySet /\ e.length >= 1
            /\ g.present = e.present /\ g.length = e.length
        BY <1>4, <1>6
      <4>2. \A j \in 0 .. e.length - 1 : durable'[P(e.at + j)] = durable'[P(g.at + j)]
        BY <3>1
      <4> HIDE DEF g
      <4>3. StateAt(durable', k, e) = StateAt(durable', k, g)
        BY <4>1, <4>2, StateSame
      <4> QED BY <4>3 DEF g
    <3> QED BY <1>2, <1>8, <2>1, <3>2
  <2>2. CASE i # k
    BY <1>2, <1>8, <2>2
  <2> QED BY <2>1, <2>2
<1>10. Target' = Recoverable
  <2>1. Target' = [i \in DOMAIN es |-> StateAt(durable', i, fs[i])]
    BY <1>8 DEF Target, View
  <2>2. Recoverable = [i \in DOMAIN es |-> StateAt(durable, i, es[i])]
    BY <1>2 DEF Recoverable, Recorded, View
  <2> QED BY <1>9, <2>1, <2>2
<1>11. GroupInv'
  BY <1>1, <1>2, <1>3, <1>10 DEF GroupInv
<1> QED BY <1>1, <1>2, <1>11, Stutters DEF GInv

(* retire and shrink wait until recovery would skip the log. *)
LEMMA LogDoneSkips ==
  ASSUME IInv, GInv, pc \in {"idle", "shrink"}, pc = "idle" => LogDone
  PROVE  durable[Log].kind = "txn" => Skipped
<1> SUFFICES ASSUME durable[Log].kind = "txn" PROVE Skipped
  OBVIOUS
<1>1. CASE pc = "idle"
  <2>1. Loaded.seq = sb.seq
    BY <1>1 DEF LogDone, Loaded
  <2>2. durable[Log].seq \in Nat /\ durable[Log].seq < sb.seq
    BY <1>1 DEF GInv, LogInv
  <2>3. \A s \in Reachable : s.seq >= Loaded.seq /\ s.seq \in Nat
    BY NotBehind, ReachableFacts, SbFields DEF IInv, GInv
  <2> QED BY <2>1, <2>2, <2>3, InMemory DEF Skipped
<1>2. CASE pc = "shrink"
  <2>1. Retiring
    BY <1>2 DEF IInv, OpInv, Retiring
  <2> QED BY <2>1 DEF GInv, LogInv
<1> QED BY <1>1, <1>2

LEMMA StartRetireGroups ==
  ASSUME IInv, GInv, IInv', pc \in {"idle", "shrink"}, limit' = limit,
         durable[Log].kind = "txn" => Skipped,
         NEW ag \in Ids(map.entries), Empty(ag), StartRetire(ag)
  PROVE  GInv' /\ StoreStep
<1> DEFINE es == map.entries
           fs == map'.entries
           e == Retired(es[ag])
           left == [Recoverable EXCEPT ![ag] = "retired"]
<1>1. pc' = "writeMap" /\ UNCHANGED <<deviceVars, size, sb, faultVars>>
      /\ map' = [map EXCEPT !.entries[ag] = Retired(@)]
      /\ op' = [NoOp EXCEPT !.kind = "retire", !.ag = ag]
      /\ intent' = [View0 EXCEPT ![ag] = "retired"]
  BY DEF StartRetire
<1>2. op'.kind = "retire" /\ map = Recorded /\ map \in MapSet
  BY <1>1, InMemory DEF NoOp, Stable
<1>3. Unbroken(Recoverable) /\ intent = None /\ UnitInv
  BY DEF GInv, GroupInv
<1>4. View0 = Recoverable /\ ag \in DOMAIN Recoverable /\ Recoverable[ag] = "empty"
      /\ intent' = left
  <2>1. View0 = Recoverable
    BY <1>3, AtRest
  <2>2. ag \in DOMAIN Recoverable /\ Recoverable[ag] = "empty"
    BY <1>3, AtRest, HeaderFacts DEF Empty
  <2> QED BY <1>1, <2>1, <2>2
<1>5. SbInv' /\ LogInv' /\ UnitInv' /\ Recoverable' = Recoverable
  <2>1. {pc, pc'} \cap {"down", "replay"} = {} /\ Touched = {}
    BY <1>1 DEF Touched
  <2> QED BY <1>1, <2>1, Quiet
<1>6. DOMAIN fs = DOMAIN es /\ fs[ag].present = FALSE /\ \A i \in DOMAIN es : i # ag => fs[i] = es[i]
  <2>1. ag \in DOMAIN es /\ es[ag] \in EntrySet /\ es[ag].length >= 1
    BY <1>2, EntryFacts
  <2>2. \A r \in EntrySet : Retired(r) \in EntrySet /\ Retired(r).present = FALSE /\ Retired(r).length = r.length
    <3> TAKE r \in EntrySet
    <3> DEFINE q == [r EXCEPT !.present = FALSE]
    <3>1. q \in EntrySet /\ q.present = FALSE /\ q.length = r.length
      BY DEF EntrySet
    <3>2. Retired(r) = [q EXCEPT !.at = 0] /\ MaxSize \in Nat
      BY SizeAssumption DEF Retired
    <3> HIDE DEF q
    <3> QED BY <3>1, <3>2 DEF EntrySet
  <2>3. e \in EntrySet /\ e.length >= 1 /\ e.present = FALSE
    BY <2>1, <2>2
  <2>4. map' = [map EXCEPT !.entries[ag] = e]
    BY <1>1
  <2> HIDE DEF e
  <2> QED BY <1>2, <2>1, <2>3, <2>4, ReplacedFacts
<1>7. Target' = left
  <2>1. Target' = [i \in DOMAIN es |-> StateAt(durable, i, fs[i])]
    BY <1>1, <1>6 DEF Target, View, deviceVars
  <2>2. Recoverable = [i \in DOMAIN es |-> StateAt(durable, i, es[i])]
    BY <1>2 DEF Recoverable, Recorded, View
  <2>3. StateAt(durable, ag, fs[ag]) = "retired"
    BY <1>6 DEF StateAt
  <2> QED BY <1>6, <2>1, <2>2, <2>3
<1>8. Unbroken(left)
  BY <1>3 DEF Unbroken
<1> HIDE DEF left
<1>9. GroupInv'
  BY <1>1, <1>2, <1>3, <1>4, <1>5, <1>7, <1>8 DEF GroupInv
<1>10. StoreStep
  <2>1. intent' \in Store!Outcomes
    BY <1>4 DEF left, Store!Outcomes, Store!Changed
  <2> QED BY <1>3, <1>5, <2>1 DEF StoreStep, Store!Next, Store!Begin, None, Store!None
<1> QED BY <1>5, <1>9, <1>10 DEF GInv

LEMMA RetireGroups ==
  ASSUME Risks = {}, IInv, GInv, IInv', NEW ag, Retire(ag)
  PROVE  GInv' /\ StoreStep
BY LogDoneSkips, StartRetireGroups DEF Retire

LEMMA ShrinkRetireGroups ==
  ASSUME IInv, GInv, IInv', ShrinkRetire
  PROVE  GInv' /\ StoreStep
<1>1. pc = "shrink" /\ Beyond # {} /\ Empty(FirstBeyond) /\ StartRetire(FirstBeyond) /\ limit' = limit
  BY DEF ShrinkRetire
<1>2. FirstBeyond \in Ids(map.entries)
  <2>1. Beyond \in SUBSET Nat /\ Beyond \subseteq Ids(map.entries)
    <3>1. map \in MapSet
      BY InMemory
    <3>2. Ids(map.entries) \subseteq 1 .. Len(map.entries) /\ Len(map.entries) \in Nat
      BY <3>1, EntryFacts
    <3> QED BY <3>2 DEF Beyond
  <2>2. \E i \in Beyond : \A j \in Beyond : i <= j
    BY <1>1, <2>1, LeastNumber
  <2>3. FirstBeyond \in Beyond
    BY <2>2 DEF FirstBeyond
  <2> QED BY <2>1, <2>3
<1> QED BY <1>1, <1>2, LogDoneSkips, StartRetireGroups

(* The map and the superblock are on their way; recovery may find either   *)
(* state of the one group that changes.                                    *)
LEMMA WriteMapGroups ==
  ASSUME IInv, GInv, IInv', WriteMap
  PROVE  GInv' /\ StoreStep
<1> DEFINE s == NextSuperblock
           ws == MapWrites(map', s)
<1>1. pc = "writeMap" /\ pc' = "mapSync"
      /\ map' = [map EXCEPT !.gen = @ + 1]
      /\ sb' = s /\ Pwrite(ws)
      /\ UNCHANGED <<size, op, limit, intent, ops, faultVars>>
  BY DEF WriteMap
<1>2. /\ DOMAIN ws = MapCopies \cup SbCopies
      /\ \A l \in SbCopies : ws[l] = s
  <2>1. DOMAIN ws = MapCopies \cup SbCopies
    BY DEF MapWrites, MapCopies, SbCopies
  <2>2. \A l \in DOMAIN ws : ws[l] = IF l \in SbCopies THEN s ELSE map'
    BY DEF MapWrites, SbCopies
  <2> HIDE DEF ws
  <2> QED BY <2>1, <2>2
<1>3. s \in SbSet /\ s.gen = sb.gen + 1 /\ s.seq = sb.seq /\ sb \in SbSet
  <2>1. sb \in SbSet
    BY InMemory
  <2> QED BY <2>1 DEF NextSuperblock, SbSet
<1> HIDE DEF ws, s
<1>4. /\ durable' = durable /\ cache' = Overlay(cache, ws)
      /\ pending' = pending \cup {<<l, ws[l]>> : l \in MapCopies \cup SbCopies}
  BY <1>1, <1>2 DEF Pwrite
<1>5. /\ \A l \in SbCopies : cache'[l] = s
      /\ \A l \in Loc \ (MapCopies \cup SbCopies) : cache'[l] = cache[l]
  BY <1>2, <1>4, OverlayFacts, Locations DEF IInv, DeviceInv
<1>6. \A p \in pending' : p \in pending \/ p[1] \in MapCopies \/ (p[1] \in SbCopies /\ p[2] = s)
  BY <1>2, <1>4
<1>7. \A l \in SbCopies : \E p \in pending' : p[1] = l /\ p[2] = s
  <2> TAKE l \in SbCopies
  <2>1. <<l, s>> \in pending' /\ <<l, s>>[1] = l /\ <<l, s>>[2] = s
    BY <1>2, <1>4
  <2> QED BY <2>1
<1>8. SbInv' /\ NoneBehind
  <2>1. /\ cache[Primary] \in MayLoad(Primary) /\ cache[Primary].gen = sb.gen /\ cache[Primary].seq = sb.seq
        /\ sb.gen >= Loaded.gen /\ sb.seq >= Loaded.seq
        /\ \A r \in MayLoad(Primary) : r.seq <= sb.seq
    <3>1. cache[Primary].kind = "sb" /\ Primary \in SbCopies
      BY <1>1 DEF GInv, SbInv, SbCopies
    <3> QED BY <1>1, <3>1, CachedFacts DEF IInv, GInv, SbInv
  <2>2. Loaded \in SbSet
    BY LoadedFacts DEF IInv, GInv, SbInv
  <2>3. s.gen > Loaded.gen /\ s.seq >= Loaded.seq
    BY <1>3, <2>1, <2>2, SbFields
  <2>4. \A r \in MayLoad(Backup) : s.gen <= r.gen => s.seq <= r.seq
    <3> SUFFICES ASSUME NEW r \in MayLoad(Backup), s.gen <= r.gen PROVE s.seq <= r.seq
      OBVIOUS
    <3>1. r \in SbSet
      BY MayLoadFacts DEF IInv, SbCopies
    <3>2. sb.gen <= r.gen
      BY <1>3, <3>1, SbFields
    <3> QED BY <1>3, <2>1, <3>2 DEF GInv, SbInv
  <2>5. /\ \A p \in pending : p[1] \in SbCopies => p \in pending'
        /\ \A p \in pending' : p[1] \in SbCopies => p \in pending \/ p[2] = s
    BY <1>4, <1>6, Locations
  <2>6. \A r \in MayLoad(Primary) : r.seq <= s.seq
    BY <1>3, <2>1
  <2>7. pc' # "down" /\ DeviceInv /\ DeviceInv' /\ SbInv
    BY <1>1 DEF IInv, GInv
  <2> QED BY <1>1, <1>3, <1>4, <1>5, <1>7, <2>3, <2>4, <2>5, <2>6, <2>7, SbWritten
<1>9. Recoverable' = Recoverable
  BY <1>4 DEF Recoverable
<1>10. LogInv'
  <2>1. cache'[Log] = durable[Log] /\ \A p \in pending' : p[1] # Log
    BY <1>5, <1>6, Locations DEF GInv, LogInv
  <2>2. Retiring' => Retiring
    BY <1>1 DEF Retiring
  <2>3. durable[Log].kind = "txn" => durable[Log].seq < sb'.seq
    BY <1>1, <1>3 DEF GInv, LogInv
  <2> QED BY <1>1, <1>4, <1>8, <1>9, <2>1, <2>2, <2>3, LogKept DEF IInv, GInv, LogInv, Stays
<1>11. UnitInv'
  <2> SUFFICES ASSUME NEW u \in Units PROVE cache'[P(u)] = durable'[P(u)] /\ \A p \in pending' : p[1] # P(u)
    BY DEF UnitInv
  <2>1. cache[P(u)] = durable[P(u)] /\ \A p \in pending : p[1] # P(u)
    BY <1>1 DEF GInv, UnitInv, Touched
  <2>2. P(u) \in Loc \ (MapCopies \cup SbCopies)
    BY Locations
  <2> QED BY <1>4, <1>5, <1>6, <2>1, <2>2
<1>12. Target' = Target
  <2>1. map'.entries = map.entries
    BY <1>1, InMemory DEF MapSet
  <2> QED BY <1>4, <2>1 DEF Target
<1>13. GroupInv'
  BY <1>1, <1>9, <1>12 DEF GInv, GroupInv
<1> QED BY <1>1, <1>8, <1>9, <1>10, <1>11, <1>13, Stutters DEF GInv

(* The map on its way is the outcome that was announced, and what replay   *)
(* would do is the same under it.                                          *)
LEMMA LandingFacts ==
  ASSUME IInv, GInv, pc = "mapSync"
  PROVE  /\ Unbroken(Target)
         /\ durable[Log].kind = "txn" => Skipped \/ Stays(Recoverable, Target)
         /\ \/ intent = Target /\ intent # None
            \/ intent = None /\ Target = Recoverable
<1>1. Unbroken(Target) /\ op.kind \in {"add", "relocate", "retire"}
  BY DEF GInv, GroupInv
<1>2. Target \in Seq(States) /\ Target # None
  BY InMemory, ViewFacts, NotNone DEF Target
<1>3. CASE op.kind = "add"
  <2>1. intent = Target /\ Target = Append(Recoverable, "empty")
    BY <1>3 DEF GInv, GroupInv
  <2>2. Recoverable \in Seq(States) /\ "empty" \in States
    BY RecoverableFacts DEF States
  <2>3. \A i \in DOMAIN Recoverable : i \in DOMAIN Target /\ Target[i] = Recoverable[i]
    BY <2>1, <2>2, AppendProperties, LenProperties
  <2> QED BY <1>1, <1>2, <2>1, <2>3 DEF Stays
<1>4. CASE op.kind = "relocate"
  <2>1. intent = None /\ Target = Recoverable
    BY <1>4 DEF GInv, GroupInv
  <2> QED BY <1>1, <2>1 DEF Stays
<1>5. CASE op.kind = "retire"
  <2>1. intent = Target
    BY <1>5 DEF GInv, GroupInv
  <2>2. durable[Log].kind = "txn" => Skipped
    BY <1>5 DEF GInv, LogInv, Retiring
  <2> QED BY <1>1, <1>2, <2>1, <2>2
<1> QED BY <1>1, <1>3, <1>4, <1>5

LEMMA LandingSteps ==
  ASSUME IInv, GInv, pc = "mapSync", Recoverable' = Target, intent' \in {intent, None}
  PROVE  StoreStep
<1>1. CASE intent = Target /\ intent # None
  BY <1>1 DEF StoreStep, Store!Next, Store!Happen, None, Store!None
<1>2. CASE intent = None /\ Target = Recoverable
  BY <1>2, Stutters
<1> QED BY <1>1, <1>2, LandingFacts

LEMMA MapSyncGroups ==
  ASSUME IInv, GInv, IInv', MapSync
  PROVE  GInv' /\ StoreStep
<1>1. pc = "mapSync" /\ Sync /\ op' = NoOp /\ intent' = None
      /\ pc' = (IF limit = NoLimit THEN "idle" ELSE "shrink")
      /\ UNCHANGED <<size, sb, map, limit, ops, faultVars>>
  BY DEF MapSync
<1>2. durable' = cache /\ cache' = cache /\ pending' = {}
  BY <1>1 DEF Sync
<1>3. map \in MapSet /\ ApartOn(map.entries, size) /\ size \in Nat /\ size <= MaxSize /\ sb \in SbSet
  BY <1>1, InMemory DEF IInv, MapInv
<1>4. \A u \in Units : cache[P(u)] = durable[P(u)]
  BY <1>1 DEF GInv, UnitInv, Touched
<1>5. Recorded' = map
  BY <1>1 DEF IInv, MapInv, Stable
<1>6. Recoverable' = Target
  <2>1. \A i \in Ids(map.entries) : Span(map.entries[i]) \subseteq Units
    BY <1>3, SpanFacts
  <2>2. View(durable', map.entries) = View(durable, map.entries)
    BY <1>2, <1>3, <1>4, <2>1, ViewSame
  <2> QED BY <1>5, <2>2 DEF Recoverable, Recorded, Target
<1>7. SbInv' /\ NoneBehind
  BY <1>1, <1>3, SbSynced DEF IInv, GInv
<1>8. LogInv'
  <2>1. durable'[Log] = durable[Log] /\ cache'[Log] = durable[Log] /\ \A p \in pending' : p[1] # Log
    BY <1>2 DEF GInv, LogInv
  <2>2. Retiring' => Retiring
    BY <1>1 DEF Retiring
  <2>3. durable[Log].kind = "txn" =>
          durable[Log].seq < sb'.seq /\ (Skipped \/ Stays(Recoverable, Recoverable'))
    BY <1>1, <1>6, LandingFacts DEF GInv, LogInv
  <2> QED BY <1>7, <2>1, <2>2, <2>3, LogKept DEF IInv, GInv, LogInv
<1>9. UnitInv'
  BY <1>2 DEF UnitInv
<1>10. GroupInv'
  BY <1>1, <1>6, LandingFacts DEF GroupInv
<1>11. StoreStep
  BY <1>1, <1>6, LandingSteps
<1> QED BY <1>7, <1>8, <1>9, <1>10, <1>11 DEF GInv

LEMMA ShrinkGroups ==
  ASSUME Risks = {}, IInv, GInv, IInv', NEW n, Shrink(n)
  PROVE  GInv' /\ StoreStep
<1>1. pc = "idle" /\ pc' = "shrink" /\ LogDone
      /\ UNCHANGED <<deviceVars, size, sb, map, op, intent, faultVars>>
  BY DEF Shrink
<1>2. SbInv' /\ LogInv' /\ UnitInv' /\ Recoverable' = Recoverable
  <2>1. {pc, pc'} \cap {"down", "replay"} = {} /\ Touched = {}
    BY <1>1 DEF Touched
  <2> QED BY <1>1, <2>1, LogDoneSkips, Quiet
<1>3. GroupInv'
  BY <1>1, <1>2 DEF GInv, GroupInv
<1> QED BY <1>1, <1>2, <1>3, Stutters DEF GInv

LEMMA ShrinkFailGroups ==
  ASSUME IInv, GInv, IInv', ShrinkFail
  PROVE  GInv' /\ StoreStep
<1>1. pc = "shrink" /\ pc' = "idle" /\ limit' = NoLimit
      /\ UNCHANGED <<deviceVars, size, sb, map, op, intent, ops, faultVars>>
  BY DEF ShrinkFail
<1>2. SbInv' /\ LogInv' /\ UnitInv' /\ Recoverable' = Recoverable
  <2>1. {pc, pc'} \cap {"down", "replay"} = {} /\ Touched = {} /\ ~Retiring'
    BY <1>1 DEF Touched, Retiring
  <2> QED BY <1>1, <2>1, Quiet
<1>3. GroupInv'
  BY <1>1, <1>2 DEF GInv, GroupInv
<1> QED BY <1>1, <1>2, <1>3, Stutters DEF GInv

(* What is cut off belongs to no group. *)
LEMMA ShrinkEndGroups ==
  ASSUME IInv, GInv, IInv', ShrinkEnd
  PROVE  GInv' /\ StoreStep
<1>1. pc = "shrink" /\ pc' = "idle" /\ Beyond = {} /\ size' = limit /\ limit' = NoLimit
      /\ durable' = Truncated(durable) /\ cache' = Truncated(cache)
      /\ pending' = {p \in pending : \A i \in Units : i >= limit => p[1] # P(i)}
      /\ UNCHANGED <<sb, map, op, intent, ops, faultVars>>
  BY DEF ShrinkEnd
<1>2. \A img : /\ \A l \in SbCopies \cup MapCopies \cup {Log} : Truncated(img)[l] = img[l]
               /\ \A u \in Units : Truncated(img)[P(u)] = IF u >= limit THEN Zero ELSE img[P(u)]
  <2> TAKE img
  <2>1. \A l \in SbCopies \cup MapCopies \cup {Log} : l \in Loc /\ \A i \in Units : l # P(i)
    BY Locations
  <2>2. \A l \in SbCopies \cup MapCopies \cup {Log} : Truncated(img)[l] = img[l]
    BY <2>1 DEF Truncated
  <2>3. \A u \in Units : P(u) \in Loc /\ ((\E i \in Units : i >= limit /\ P(u) = P(i)) <=> u >= limit)
    BY Locations
  <2>4. \A u \in Units : Truncated(img)[P(u)] = IF u >= limit THEN Zero ELSE img[P(u)]
    BY <2>3 DEF Truncated
  <2> QED BY <2>2, <2>4
<1>3. \A l \in SbCopies \cup MapCopies \cup {Log} : durable'[l] = durable[l] /\ cache'[l] = cache[l]
  BY <1>1, <1>2
<1>4. \A u \in Units : /\ durable'[P(u)] = IF u >= limit THEN Zero ELSE durable[P(u)]
                       /\ cache'[P(u)] = IF u >= limit THEN Zero ELSE cache[P(u)]
  BY <1>1, <1>2
<1>5. SbInv' /\ NoneBehind
  <2>1. pc # "down" /\ pc' # "down"
    BY <1>1
  <2>2. \A p \in pending : p[1] \in SbCopies => p \in pending'
    BY <1>1, Locations
  <2>3. \A p \in pending' : p \in pending
    BY <1>1
  <2> QED BY <1>1, <1>3, <2>1, <2>2, <2>3, SbSame DEF IInv, GInv
<1>6. map = Recorded /\ map \in MapSet /\ ApartOn(map.entries, size)
  BY <1>1, InMemory DEF Stable
<1>7. Recoverable' = Recoverable
  <2>1. LeavesMap
    <3>1. \A l \in MapCopies : durable'[l] = durable[l] /\ cache'[l] = durable[l]
      BY <1>1, <1>3, MapWritten DEF IInv
    <3>2. \A p \in pending' : p[1] \notin MapCopies
      BY <1>1, MapWritten DEF IInv
    <3> QED BY <3>1, <3>2 DEF LeavesMap
  <2>2. ASSUME NEW i \in Ids(map.entries), NEW u \in Span(map.entries[i])
        PROVE  durable'[P(u)] = durable[P(u)]
    <3>1. limit \in Nat
      BY InMemory DEF IInv, MemoryInv
    <3>2. /\ map.entries[i].at \in Nat /\ map.entries[i].length \in Nat
          /\ map.entries[i].at + map.entries[i].length <= limit
      <4>1. i \in DOMAIN map.entries
        BY DEF Ids
      <4>2. map.entries[i].at \in Nat /\ map.entries[i].length \in Nat
        BY <1>6, <4>1, EntryFacts
      <4>3. ~(End(map.entries[i]) > limit)
        BY <1>1 DEF Beyond
      <4> QED BY <3>1, <4>2, <4>3 DEF End
    <3>3. u < limit
      BY <3>1, <3>2 DEF Span
    <3>4. u \in Units
      <4>1. \A j \in Ids(map.entries) : Span(map.entries[j]) \subseteq Units
        BY <1>6, InMemory, SpanFacts
      <4> QED BY <4>1
    <3>5. ~(u >= limit)
      BY <3>1, <3>2, <3>3 DEF Span
    <3> QED BY <1>4, <3>4, <3>5
  <2> QED BY <1>6, <2>1, <2>2, GroupsStay
<1>8. LogInv'
  <2>1. durable'[Log] = durable[Log] /\ cache'[Log] = durable[Log] /\ \A p \in pending' : p[1] # Log
    BY <1>1, <1>3 DEF GInv, LogInv
  <2>2. ~Retiring'
    BY <1>1 DEF Retiring
  <2> QED BY <1>1, <1>5, <1>7, <2>1, <2>2, LogKept DEF IInv, GInv, LogInv, Stays
<1>9. UnitInv'
  BY <1>1, <1>4 DEF GInv, UnitInv, Touched
<1>10. GroupInv'
  BY <1>1, <1>7 DEF GInv, GroupInv
<1> QED BY <1>1, <1>5, <1>7, <1>8, <1>9, <1>10, Stutters DEF GInv

(* A power cut lands the map, or leaves what recovery would have found:    *)
(* what was written since the last sync lies where no group does.          *)
LEMMA PowerCutGroups ==
  ASSUME Risks = {}, IInv, GInv, IInv', PowerCut
  PROVE  GInv' /\ StoreStep
<1>1. pc' = "down" /\ sb' = NoSuperblock /\ map' = NoMap /\ limit' = NoLimit
      /\ UNCHANGED <<size, op, intent, ops>>
  BY DEF PowerCut
<1>2. PICK S \in Landings :
        \/ Lands(AfterCut(S, {}))
        \/ \E p \in S : Lands(AfterCut(S, {p[1]}))
  BY DEF PowerCut
<1>3. PICK T : (\A l \in T : \E p \in S : p[1] = l) /\ Lands(AfterCut(S, T))
  <2>1. CASE Lands(AfterCut(S, {}))
    BY <2>1
  <2>2. ASSUME NEW p \in S, Lands(AfterCut(S, {p[1]}))
        PROVE  \E U : (\A l \in U : \E q \in S : q[1] = l) /\ Lands(AfterCut(S, U))
    <3>1. \A l \in {p[1]} : \E q \in S : q[1] = l
      OBVIOUS
    <3> QED BY <2>2, <3>1
  <2> QED BY <1>2, <2>1, <2>2
<1>4. CutTo(AfterCut(S, T)) /\ ~GoesBack(AfterCut(S, T))
  BY <1>3 DEF Lands
<1>5. Recorded' = Recorded \/ (pc = "mapSync" /\ Recorded' = map)
  BY <1>1, <1>3, <1>4, CutKept
<1>6. SbInv' /\ NoneBehind
  BY <1>1, <1>3, <1>4, SbCut DEF IInv, GInv
<1>7. durable' = AfterCut(S, T) /\ cache' = durable' /\ pending' = {}
  BY <1>4 DEF CutTo
<1>8. \A l \in Loc : (\A p \in pending : p[1] # l) => durable'[l] = durable[l]
  BY <1>3, <1>7, CutFacts DEF IInv, DeviceInv
<1>9. \A u \in Units \ Touched : durable'[P(u)] = durable[P(u)]
  <2> TAKE u \in Units \ Touched
  <2>1. P(u) \in Loc
    BY Locations
  <2>2. \A p \in pending : p[1] # P(u)
    BY DEF GInv, UnitInv
  <2> QED BY <1>8, <2>1, <2>2
<1>10. size \in Nat /\ size <= MaxSize
  BY InMemory
<1>11. ASSUME Recorded' = Recorded
       PROVE  /\ Unbroken(Recoverable')
              /\ durable[Log].kind = "txn" => Skipped \/ Stays(Recoverable, Recoverable')
              /\ StoreStep
  <2>1. Recorded \in MapSet /\ ApartOn(Recorded.entries, size)
    BY RecoverableFacts
  <2>2. \A i \in Ids(Recorded.entries) : \A u \in Span(Recorded.entries[i]) : u \in Units \ Touched
    <3> TAKE i \in Ids(Recorded.entries)
    <3>1. /\ Span(Recorded.entries[i]) \subseteq Units
          /\ \A at, length : FreePlace(Recorded.entries, at, length, 0 - 1, size) =>
               Span(Recorded.entries[i]) \cap (at .. at + length - 1) = {}
      BY <1>10, <2>1, SpanFacts
    <3>2. CASE pc \in {"addSync", "copy", "copySync"}
      <4>1. map = Recorded /\ FreePlace(map.entries, op.at, op.length, 0 - 1, size)
        BY <3>2 DEF IInv, MapInv, Stable, OpInv, GInv, GroupInv
      <4>2. Touched \subseteq op.at .. op.at + op.length - 1
        BY <4>1 DEF FreePlace, Touched
      <4> QED BY <3>1, <4>1, <4>2
    <3>3. CASE pc \notin {"addSync", "copy", "copySync"}
      BY <3>1, <3>3 DEF Touched
    <3> QED BY <3>2, <3>3
  <2>3. View(durable', Recorded.entries) = View(durable, Recorded.entries)
    BY <1>9, <1>10, <2>1, <2>2, ViewSame
  <2>4. Recoverable' = Recoverable
    BY <1>11, <2>3 DEF Recoverable, Recorded
  <2>5. /\ Unbroken(Recoverable')
        /\ durable[Log].kind = "txn" => Skipped \/ Stays(Recoverable, Recoverable')
    BY <2>4 DEF GInv, GroupInv, Stays
  <2>6. StoreStep
    BY <1>1, <2>4, Stutters
  <2> QED BY <2>5, <2>6
<1>12. ASSUME pc = "mapSync" /\ Recorded' = map
       PROVE  /\ Unbroken(Recoverable')
              /\ durable[Log].kind = "txn" => Skipped \/ Stays(Recoverable, Recoverable')
              /\ StoreStep
  <2>1. map \in MapSet /\ ApartOn(map.entries, size) /\ Touched = {}
    BY <1>12, InMemory DEF IInv, MapInv, Touched
  <2>2. \A i \in Ids(map.entries) : Span(map.entries[i]) \subseteq Units
    BY <1>10, <2>1, SpanFacts
  <2>3. View(durable', map.entries) = View(durable, map.entries)
    BY <1>9, <1>10, <2>1, <2>2, ViewSame
  <2>4. Recoverable' = Target
    BY <1>12, <2>3 DEF Recoverable, Recorded, Target
  <2>5. /\ Unbroken(Recoverable')
        /\ durable[Log].kind = "txn" => Skipped \/ Stays(Recoverable, Recoverable')
    BY <1>12, <2>4, LandingFacts
  <2>6. StoreStep
    BY <1>1, <1>12, <2>4, LandingSteps
  <2> QED BY <2>5, <2>6
<1>13. LogInv'
  <2>1. durable'[Log] = durable[Log] /\ cache'[Log] = durable[Log] /\ \A p \in pending' : p[1] # Log
    BY <1>7, <1>8, Locations DEF GInv, LogInv
  <2>2. ~Retiring'
    BY <1>1 DEF Retiring
  <2> QED BY <1>1, <1>6, <1>11, <1>12, <1>5, <2>1, <2>2, LogKept DEF IInv, GInv
<1>14. UnitInv'
  BY <1>7 DEF UnitInv
<1>15. GroupInv'
  BY <1>1, <1>5, <1>11, <1>12 DEF GroupInv
<1> QED BY <1>5, <1>6, <1>11, <1>12, <1>13, <1>14, <1>15 DEF GInv

LEMMA StutterGroups ==
  ASSUME IInv, GInv, UNCHANGED vars
  PROVE  GInv' /\ StoreStep
<1>1. UNCHANGED <<durable, cache, pending, pc, size, sb, map, op, limit, intent>>
  BY DEF vars, deviceVars, memVars
<1>2. Loaded' = Loaded /\ Recoverable' = Recoverable /\ Target' = Target /\ Touched' = Touched
  BY <1>1 DEF Loaded, Recoverable, Target, Touched
<1>3. MayLoad(Primary)' = MayLoad(Primary) /\ MayLoad(Backup)' = MayLoad(Backup)
  BY <1>1 DEF MayLoad
<1>4. Reachable' = Reachable
  BY <1>2, <1>3 DEF Reachable
<1>5. SbInv'
  BY <1>1, <1>2, <1>3 DEF GInv, SbInv
<1>6. LogInv'
  <2>1. (Skipped' <=> Skipped) /\ (Applied' <=> Applied) /\ (Retiring' <=> Retiring)
    BY <1>1, <1>2, <1>4 DEF Skipped, Applied, Retiring
  <2> QED BY <1>1, <1>4, <2>1 DEF GInv, LogInv
<1>7. UnitInv'
  BY <1>1, <1>2 DEF GInv, UnitInv
<1>8. GroupInv'
  BY <1>1, <1>2 DEF GInv, GroupInv
<1>9. StoreStep
  BY <1>1, <1>2, Stutters
<1> QED BY <1>5, <1>6, <1>7, <1>8, <1>9 DEF GInv

LEMMA NextGroups ==
  ASSUME Risks = {}, IInv, GInv, [Next]_vars
  PROVE  IInv' /\ GInv' /\ StoreStep
<1> IInv'
  BY NextSound
<1>1. CASE Open
  BY <1>1, OpenGroups
<1>2. CASE Replay
  BY <1>2, ReplayGroups
<1>3. ASSUME NEW ag \in 1 .. MaxGroups, Commit(ag) PROVE GInv' /\ StoreStep
  BY <1>3, CommitGroups
<1>4. ASSUME NEW ag \in 1 .. MaxGroups, Retire(ag) PROVE GInv' /\ StoreStep
  BY <1>4, RetireGroups
<1>5. ASSUME NEW at \in Units, NEW length \in Lengths, AddAg(at, length) PROVE GInv' /\ StoreStep
  BY <1>5, AddAgGroups
<1>6. ASSUME NEW n \in 0 .. MaxSize, Grow(n) PROVE GInv' /\ StoreStep
  BY <1>6, GrowGroups
<1>7. ASSUME NEW n \in 0 .. MaxSize, Shrink(n) PROVE GInv' /\ StoreStep
  BY <1>7, ShrinkGroups
<1>8. ASSUME NEW ag \in 1 .. MaxGroups, NEW dest \in Units, Relocate(ag, dest) PROVE GInv' /\ StoreStep
  BY <1>8, RelocateGroups
<1>9. CASE AddSync
  BY <1>9, AddSyncGroups
<1>10. CASE Copy
  BY <1>10, CopyGroups
<1>11. CASE CopySync
  BY <1>11, CopySyncGroups
<1>12. CASE WriteMap
  BY <1>12, WriteMapGroups
<1>13. CASE MapSync
  BY <1>13, MapSyncGroups
<1>14. CASE ShrinkRetire
  BY <1>14, ShrinkRetireGroups
<1>15. CASE ShrinkMove
  BY <1>15, ShrinkMoveGroups
<1>16. CASE ShrinkFail
  BY <1>16, ShrinkFailGroups
<1>17. CASE ShrinkEnd
  BY <1>17, ShrinkEndGroups
<1>18. CASE PowerCut
  BY <1>18, PowerCutGroups
<1>19. CASE UNCHANGED vars
  BY <1>19, StutterGroups
<1> QED
  BY <1>1, <1>2, <1>3, <1>4, <1>5, <1>6, <1>7, <1>8, <1>9, <1>10, <1>11, <1>12, <1>13,
     <1>14, <1>15, <1>16, <1>17, <1>18, <1>19 DEF Next, Recover, Call, Step


-----------------------------------------------------------------------------
(* The theorems                                                            *)

LEMMA InitGroups == Init => GInv /\ Store!Init
<1> SUFFICES ASSUME Init PROVE GInv /\ Store!Init
  OBVIOUS
<1> DEFINE es == [i \in 1 .. InitialGroups |-> Entry(InitialAt(i), InitialLength)]
           m == AgMap(1, es)
           s == Superblock(1, InitialGroups + 1, 1)
<1>1. IInv
  BY InitSound
<1>2. /\ cache = durable /\ pending = {} /\ DOMAIN durable = Loc
      /\ pc = "down" /\ op = NoOp /\ limit = NoLimit /\ intent = None
  BY DEF Init
<1>3. /\ durable[MapCopy(0)] = m /\ durable[MapCopy(1)] = m
      /\ durable[Primary] = s /\ durable[Backup] = s
  <2>1. \A l \in Loc :
          /\ l \in MapCopies => durable[l] = m
          /\ l \notin MapCopies /\ l \in SbCopies => durable[l] = s
    BY DEF Init, MapCopies, SbCopies
  <2>2. MapCopy(0) \in MapCopies /\ MapCopy(1) \in MapCopies /\ Primary \in SbCopies /\ Backup \in SbCopies
    BY DEF MapCopies, SbCopies
  <2> HIDE DEF m, s
  <2> QED BY <2>1, <2>2, Locations
<1>4. durable[Log] = Zero
  <2>1. Log \in Loc /\ Log \notin {MapCopy(0), MapCopy(1), Primary, Backup} /\ \A x : Log # P(x)
    BY DEF Loc, Log, MapCopy, Primary, Backup, P
  <2> QED BY <2>1 DEF Init
<1>5. \A i \in 1 .. InitialGroups : durable[P(InitialAt(i))] = Header(i, InitialLength, FALSE)
  <2> TAKE i \in 1 .. InitialGroups
  <2>1. InitialAt(i) \in Units
    <3>1. i \in 1 .. InitialGroups + 1 /\ InitialGroups + 1 \in 1 .. InitialGroups + 1 /\ i < InitialGroups + 1
      BY SizeAssumption
    <3>2. InitialAt(i) \in Nat /\ InitialAt(InitialGroups + 1) \in Nat
          /\ InitialAt(i) + InitialLength <= InitialAt(InitialGroups + 1)
      BY <3>1, InitialPlaces
    <3>3. InitialAt(InitialGroups + 1) <= MaxSize
      BY SizeAssumption DEF InitialAt
    <3> QED BY <3>2, <3>3, SizeAssumption DEF Units
  <2>2. P(InitialAt(i)) \in Loc
    BY <2>1 DEF Loc
  <2>3. P(InitialAt(i)) \notin {MapCopy(0), MapCopy(1), Primary, Backup}
    BY DEF MapCopy, Primary, Backup, P
  <2>4. \A j \in 1 .. InitialGroups : P(InitialAt(i)) = P(InitialAt(j)) => j = i
    <3> SUFFICES ASSUME NEW j \in 1 .. InitialGroups, P(InitialAt(i)) = P(InitialAt(j)), j # i
                 PROVE  FALSE
      OBVIOUS
    <3>1. InitialAt(i) = InitialAt(j)
      BY DEF P
    <3>2. i \in 1 .. InitialGroups + 1 /\ j \in 1 .. InitialGroups + 1 /\ (i < j \/ j < i)
      BY SizeAssumption
    <3>3. InitialAt(i) \in Nat /\ InitialAt(i) + InitialLength <= InitialAt(i)
      BY <3>1, <3>2, InitialPlaces
    <3> QED BY <3>3, SizeAssumption
  <2>5. (CHOOSE j \in 1 .. InitialGroups : P(InitialAt(i)) = P(InitialAt(j))) = i
    BY <2>4
  <2>6. durable[P(InitialAt(i))] =
          Header(CHOOSE j \in 1 .. InitialGroups : P(InitialAt(i)) = P(InitialAt(j)), InitialLength, FALSE)
    BY <2>2, <2>3 DEF Init
  <2> QED BY <2>5, <2>6
<1>6. Recoverable = [i \in 1 .. InitialGroups |-> "empty"]
  <2>1. LoadAgmap(durable).entries = es
    BY <1>3 DEF LoadAgmap, AgMap
  <2>2. \A i \in 1 .. InitialGroups : StateAt(durable, i, es[i]) = "empty"
    <3> TAKE i \in 1 .. InitialGroups
    <3>1. es[i].present /\ es[i].at = InitialAt(i) /\ es[i].length = InitialLength
      BY DEF Entry
    <3>2. durable[P(es[i].at)] = Header(i, InitialLength, FALSE)
      BY <1>5, <3>1
    <3> HIDE DEF es
    <3> QED BY <3>1, <3>2 DEF StateAt, Header
  <2>3. DOMAIN es = 1 .. InitialGroups
    OBVIOUS
  <2> HIDE DEF es
  <2> QED BY <2>1, <2>2, <2>3 DEF Recoverable, View
<1>7. SbInv
  <2>1. s.kind = "sb" /\ MayLoad(Primary) = {s} /\ MayLoad(Backup) = {s}
    BY <1>2, <1>3 DEF MayLoad, Superblock
  <2>2. SuperblockFound(durable)
    BY <1>3, <2>1 DEF SuperblockFound
  <2>3. s.seq <= s.seq
    BY DEF Superblock
  <2> HIDE DEF s
  <2> QED BY <1>2, <2>1, <2>2, <2>3 DEF SbInv
<1>8. LogInv
  BY <1>2, <1>4 DEF LogInv, Zero
<1>9. UnitInv
  BY <1>2 DEF UnitInv
<1>10. GroupInv
  BY <1>2, <1>6 DEF GroupInv, Unbroken
<1>11. Store!Init
  <2>1. Recoverable \in Seq({"empty"})
    <3>1. Recoverable \in [1 .. InitialGroups -> {"empty"}]
      BY <1>6
    <3> QED BY <3>1, SizeAssumption, IsASeq
  <2> QED BY <1>2, <2>1 DEF Store!Init, Store!None, None
<1> QED BY <1>7, <1>8, <1>9, <1>10, <1>11 DEF GInv

LEMMA GroupInvariance ==
  ASSUME Risks = {}
  PROVE  Spec => [](IInv /\ GInv)
<1>1. Init => IInv /\ GInv
  BY InitSound, InitGroups
<1>2. IInv /\ GInv /\ [Next]_vars => (IInv /\ GInv)'
  BY NextGroups
<1> QED BY <1>1, <1>2, PTL DEF Spec

(* When an operation has returned, its result survives a power cut: the    *)
(* medium alone says what the program believes of every group, and no      *)
(* group is broken (the syncs of add_ag, relocate and write_agmap).  For   *)
(* all devices and groups, and power cuts in any number that do not go     *)
(* back further than the last operation.                                   *)
THEOREM ReturnedSurvives ==
  ASSUME Risks = {}
  PROVE  Spec => []Durable
<1>1. IInv /\ GInv => Durable
  <2> SUFFICES ASSUME IInv, GInv, pc \in {"idle", "shrink"}
               PROVE  Recoverable = View(cache, map.entries)
                      /\ \A i \in DOMAIN Recoverable : Recoverable[i] # "broken"
    BY DEF Durable
  <2>1. View0 = Recoverable
    BY AtRest DEF GInv
  <2>2. Unbroken(Recoverable)
    BY DEF GInv, GroupInv
  <2> QED BY <2>1, <2>2 DEF View0, Unbroken
<1> QED BY <1>1, GroupInvariance, PTL

(* Resize implements GroupStore: what a recovery would find is at every    *)
(* instant a sequence of whole groups that changes only by one addition,   *)
(* retirement, allocation or free, at once or not at all; a relocation, a  *)
(* power cut and a recovery change nothing, an id is given out once, and a *)
(* retired group does not come back (resize.rs, write_agmap, load_agmap).  *)
THEOREM GroupsImplemented ==
  ASSUME Risks = {}
  PROVE  Spec => ImplementsGroups
<1>1. Init => Store!Init
  BY InitGroups
<1>2. IInv /\ GInv /\ [Next]_vars => [Store!Next]_(Store!vars)
  BY NextGroups DEF StoreStep
<1> QED BY <1>1, <1>2, GroupInvariance, PTL DEF Spec, ImplementsGroups, Store!Spec


=============================================================================
