------------------------------- MODULE File --------------------------------
(***************************************************************************)
(* One file: write, truncate and removal of fs.rs over the mapping of      *)
(* extent.rs, with other files taking and giving back blocks of the same   *)
(* group.                                                                  *)
(*                                                                         *)
(* Bytes are units, BlockUnits to a block; a unit holds data or zero.  The *)
(* device starts full of old data.  Small files are embedded in the inode, *)
(* PayloadUnits at most.  An operation is one transaction and one step     *)
(* (Journal has its crashes); an operation that fails leaves the volume as *)
(* it was.  The process dies of a slice index out of range: the volume is  *)
(* opened again.                                                           *)
(***************************************************************************)
EXTENDS ExtentTree
LOCAL INSTANCE SequencesExt
LOCAL INSTANCE FiniteSetsExt

CONSTANTS
  BlockUnits,    \* units in a block
  PayloadUnits,  \* INODE_PAYLOAD
  Writes,        \* the writes tried, <<offset, length>>
  FileSizes,     \* the sizes truncated to
  MaxWrite,      \* bound: blocks that one write covers
  MaxSize,       \* bound: units in the file
  Residents,     \* how many blocks other files may hold at the start
  MaxChurn       \* bound: how often other files get or free a block

ASSUME UnitsAssumption == PayloadUnits \in 1 .. BlockUnits
ASSUME WritesAssumption == \A w \in Writes : w[1] \in Nat /\ w[2] \in Nat \ {0}

VARIABLES
  ag,      \* the group
  file,    \* the inode and the mapping it roots
  disk,    \* what the blocks hold
  others,  \* blocks of other files
  churn,   \* history: how often they got or freed one
  content  \* history: what the file should read as, unit by unit

vars == <<ag, file, disk, others, churn, content>>

Units == 0 .. BlockUnits - 1
Payload == 0 .. PayloadUnits - 1
FilePositions == 0 .. MaxSize - 1

NewFile ==
  [fmt |-> "empty", ext |-> << >>, nodes |-> << >>, size |-> 0, nblocks |-> 0,
   payload |-> [u \in Payload |-> "zero"]]

(* The mapping of the file, as an operation finds it. *)
Mapping ==
  [NoMap(ag) EXCEPT !.fmt = file.fmt, !.ext = file.ext, !.nodes = file.nodes]

(* What d holds once the blocks of g alone are in use: of the others old   *)
(* data is the worst to be found when they are allocated again.            *)
OldData == [u \in Units |-> "data"]
Settled(g, d) == LET used == Allocated(g) IN [b \in Blocks |-> IF b \in used THEN d[b] ELSE OldData]

(* The mapping m is committed. *)
Commit(m, size, nblocks, payload) ==
  /\ ag' = m.ag
  /\ file' = [fmt |-> m.fmt, ext |-> m.ext, nodes |-> m.nodes, size |-> size,
              nblocks |-> nblocks, payload |-> payload]

(* The transaction is dropped. *)
Drop(m) ==
  /\ ag' = [ag EXCEPT !.tblHint = m.ag.tblHint, !.cellHint = m.ag.cellHint]
  /\ UNCHANGED <<file, disk, others, churn, content>>

(* The process died and opens the volume again: the hints are lost. *)
Reopened ==
  /\ ag' = [ag EXCEPT !.tblHint = 0, !.cellHint = 0]
  /\ UNCHANGED <<file, disk, others, churn, content>>

(* The device after data is written to positions from .. to - 1 of the     *)
(* blocks of map: a block that is not fresh is read first.                 *)
WriteBlocks(d, map, fresh, from, to) ==
  LET new(f) == [u \in Units |-> IF f * BlockUnits + u \in from .. to - 1 THEN "data"
                                 ELSE IF f \in fresh THEN "zero" ELSE d[map[f]][u]]
  IN [b \in Blocks |-> IF \E f \in DOMAIN map : map[f] = b
                       THEN new(CHOOSE f \in DOMAIN map : map[f] = b) ELSE d[b]]

-----------------------------------------------------------------------------
(* write *)

CeilBlocks(n) == CeilDiv(n, BlockUnits)
Overgrown == file.fmt = "embed" /\ file.size > PayloadUnits
Embeds(end) == file.fmt \in {"empty", "embed"} /\ end <= PayloadUnits

Wrote(off, end) == content' = [u \in FilePositions |-> IF u \in off .. end - 1 THEN "data" ELSE content[u]]
Grown(end) == IF end > file.size THEN end ELSE file.size

WriteEmbedded(off, end) ==
  /\ Embeds(end)
  /\ Commit([Mapping EXCEPT !.fmt = "embed"], Grown(end), file.nblocks,
            [u \in Payload |-> IF u \in off .. end - 1 THEN "data" ELSE file.payload[u]])
  /\ Wrote(off, end)
  /\ UNCHANGED <<disk, others, churn>>

(* lift_embed: the mapping with the embedded data's block, if it has any. *)
Lifts == file.fmt = "embed" /\ file.size > 0
Lifted ==
  LET m == [Mapping EXCEPT !.fmt = IF @ = "embed" THEN "empty" ELSE @] IN
  IF Lifts THEN MapEnsure(m, 0, 1) ELSE Done(m, 0)

LiftedDisk(m) ==
  IF Lifts
  THEN [disk EXCEPT ![Walk(m, 0, 1)[0]] =
          [u \in Units |-> IF u < file.size THEN file.payload[u] ELSE "zero"]]
  ELSE disk

WriteMapped(off, end) ==
  LET f0 == off \div BlockUnits
      fn == CeilBlocks(end)
      wrote(l, m) ==
        /\ Commit(m, Grown(end), file.nblocks + (IF Lifts THEN 1 ELSE 0) + Cardinality(m.fresh),
                  [u \in Payload |-> "zero"])
        /\ disk' = Settled(m.ag, WriteBlocks(LiftedDisk(l), Walk(m, f0, fn), m.fresh, off, end))
        /\ Wrote(off, end)
        /\ UNCHANGED <<others, churn>>
  IN /\ ~Embeds(end) /\ ~Overgrown
     /\ \E l \in {Lifted} :
          \E x \in {Then(l, LAMBDA m, v : MapEnsure(m, f0, fn - f0))} :
            IF x.ok THEN wrote(l.g, x.g) ELSE Drop(x.g)

(* lift_embed slices the payload to the file's size. *)
WritePanics(end) ==
  /\ ~Embeds(end) /\ Overgrown
  /\ Reopened

Write(off, len) ==
  LET end == off + len IN
  /\ end <= MaxSize
  /\ CeilBlocks(end) - off \div BlockUnits <= MaxWrite
  /\ WriteEmbedded(off, end) \/ WriteMapped(off, end) \/ WritePanics(end)

-----------------------------------------------------------------------------
(* truncate *)


(* zero_tail: the mapped units of positions from .. to - 1 become zero. *)
ZeroTail(m, from, to) ==
  LET map == Walk(m, from \div BlockUnits, CeilBlocks(to))
      pos(b, u) == (CHOOSE f \in DOMAIN map : map[f] = b) * BlockUnits + u
      mapped == {map[f] : f \in DOMAIN map}
  IN [b \in Blocks |-> IF b \notin mapped THEN disk[b]
                       ELSE [u \in Units |-> IF pos(b, u) \in from .. to - 1 THEN "zero" ELSE disk[b][u]]]

Truncated(size) ==
  content' = [u \in FilePositions |-> IF u < size THEN content[u] ELSE "zero"]

TruncateUnmapped(size) ==
  /\ size > file.size \/ file.fmt = "empty" \/ (file.fmt = "embed" /\ size <= PayloadUnits)
  /\ Commit(Mapping, size, file.nblocks,
            IF size < file.size /\ file.fmt = "embed"
            THEN [u \in Payload |-> IF u < size THEN file.payload[u] ELSE "zero"] ELSE file.payload)
  /\ Truncated(size)
  /\ UNCHANGED <<disk, others, churn>>

TruncateMapped(size) ==
  LET trimmed == IF size = 0 THEN MapFreeAll(Mapping) ELSE MapTruncate(Mapping, CeilBlocks(size))
      cut(m) ==
        /\ Commit(m, size, IF size = 0 THEN 0 ELSE Max({file.nblocks - m.freed, 0}), file.payload)
        /\ disk' = Settled(m.ag, ZeroTail(m, size, file.size))
        /\ Truncated(size)
        /\ UNCHANGED <<others, churn>>
  IN /\ size < file.size /\ file.fmt \in {"extent", "tree"}
     /\ \E x \in {trimmed} : IF x.ok THEN cut(x.g) ELSE Drop(x.g)

(* The payload is sliced from the new size on. *)
TruncatePanics(size) ==
  /\ size < file.size /\ file.fmt = "embed" /\ size > PayloadUnits
  /\ Reopened

Truncate(size) ==
  /\ size # file.size
  /\ TruncateUnmapped(size) \/ TruncateMapped(size) \/ TruncatePanics(size)

-----------------------------------------------------------------------------

(* The last link to the file goes (remove_common), and another file of its *)
(* name is created.                                                        *)
Unlink ==
  LET gone(m) ==
        /\ ag' = m.ag
        /\ file' = NewFile
        /\ content' = [u \in FilePositions |-> "zero"]
        /\ disk' = Settled(m.ag, disk)
        /\ UNCHANGED <<others, churn>>
  IN /\ file # NewFile
     /\ \E x \in {MapFreeAll(Mapping)} : IF x.ok THEN gone(x.g) ELSE Drop(x.g)

(* Another file gets a block and fills it, or gives one back. *)
OtherWrites ==
  /\ churn < MaxChurn
  /\ \E x \in {AllocExtent(ag, 1)} :
       /\ x.ok
       /\ ag' = x.g
       /\ others' = others \cup {x.val}
       /\ disk' = [disk EXCEPT ![x.val] = OldData]
  /\ churn' = churn + 1
  /\ UNCHANGED <<file, content>>

OtherFrees(b) ==
  /\ churn < MaxChurn
  /\ \E x \in {FreeExtent(ag, b, 1)} :
       /\ x.ok
       /\ ag' = x.g
       /\ disk' = Settled(x.g, disk)
  /\ others' = others \ {b}
  /\ churn' = churn + 1
  /\ UNCHANGED <<file, content>>

(* The group once k blocks have been allocated one by one. *)
Inhabited(k) ==
  LET one(r, i) == Then(r, LAMBDA g, held :
        Then(AllocExtent(g, 1), LAMBDA h, b : Done(h, held \cup {b})))
  IN FoldLeft(one, Done(FirstGroup, {}), [i \in 1 .. k |-> i])

Init ==
  /\ \E k \in Residents : \E x \in {Inhabited(k)} : ag = x.g /\ others = x.val
  /\ file = NewFile
  /\ disk = [b \in Blocks |-> OldData]
  /\ churn = 0
  /\ content = [u \in FilePositions |-> "zero"]

Next ==
  \/ \E w \in Writes : Write(w[1], w[2])
  \/ \E size \in FileSizes : Truncate(size)
  \/ Unlink
  \/ OtherWrites
  \/ \E b \in others : OtherFrees(b)

Spec == Init /\ [][Next]_vars

-----------------------------------------------------------------------------
(* check_mapping and check_tree_child, fsck.rs: the problems they report. *)

Unmapped(at, n) == at \notin Blocks \/ at + n - 1 \notin Blocks

RECURSIVE CheckTreeChild(_, _, _)
CheckTreeChild(m, kid, level) ==
  LET node == m.nodes[kid.at]
      bad(what) == {<<what, kid>>}
  IN CASE kid.st = "free" -> {}
       [] kid.st = "full" /\ kid.n \notin 1 .. Cov(level) -> bad("coverage")
       [] kid.st = "full" /\ kid.n \in 1 .. Cov(level) ->
            IF Unmapped(kid.at, kid.n) THEN bad("unmapped") ELSE {}
       [] kid.st = "refined" /\ (level = 0 \/ kid.at \notin NodeBlocks(m)) -> bad("node")
       [] OTHER -> (IF node.level # level - 1 THEN bad("level") ELSE {})
                     \cup UNION {CheckTreeChild(m, node.kids[i], node.level) : i \in DOMAIN node.kids}

CheckMapping(m) ==
  CASE m.fmt = "extent" -> {<<"unmapped", e>> : e \in {e \in Range(m.ext) : Unmapped(e[2], e[3])}}
    [] m.fmt = "tree" ->
         UNION {CheckTreeChild(m, m.nodes[0].kids[i], m.nodes[0].level) : i \in DOMAIN m.nodes[0].kids}
    [] OTHER -> {}

-----------------------------------------------------------------------------
(* Properties *)

TypeOK ==
  /\ file.fmt \in {"empty", "embed", "extent", "tree"}
  /\ file.size \in 0 .. MaxSize /\ file.nblocks \in 0 .. CeilBlocks(MaxSize)
  /\ file.payload \in [Payload -> {"zero", "data"}]
  /\ Len(file.ext) <= MaxInlineExtents
  /\ disk \in [Blocks -> [Units -> {"zero", "data"}]]
  /\ others \subseteq Blocks /\ churn \in 0 .. MaxChurn
  /\ content \in [FilePositions -> {"zero", "data"}]

Map == Walk(Mapping, 0, CeilBlocks(MaxSize))

(* read_inode_data at position u, which is below the size. *)
ReadsAs(map, u) ==
  LET f == u \div BlockUnits IN
  CASE file.fmt = "empty" -> "zero"
    [] file.fmt = "embed" -> file.payload[u]
    [] OTHER -> IF f \in DOMAIN map THEN disk[map[f]][u % BlockUnits] ELSE "zero"



(* fsck has nothing to say of the mapping, every node of the tree is       *)
(* referred to once, and emptied nodes are gone.                           *)
TreeShape ==
  LET kids == {<<p, i>> \in (DOMAIN file.nodes) \X (0 .. NodeFanout - 1) : i \in DOMAIN file.nodes[p].kids}
      kid(k) == file.nodes[k[1]].kids[k[2]]
      refined == {k \in kids : kid(k).st = "refined"}
  IN /\ CheckMapping(Mapping) = {}
     /\ \A p \in NodeBlocks(Mapping) : Cardinality({k \in refined : kid(k).at = p}) = 1
     /\ \A p \in NodeBlocks(Mapping) : \E k \in kids : k[1] = p /\ kid(k).st # "free"

(* What the file holds can always be freed, whole or from a cutoff on: the *)
(* allocator's states and the mapping agree on what was allocated how.     *)
Reclaimable ==
  /\ MapFreeAll(Mapping).ok
  /\ \A cutoff \in 1 .. CeilBlocks(MaxSize) : MapTruncate(Mapping, cutoff).ok

(* An embedded file fits in the inode (doc/3-inodes.md:49). *)
EmbeddedFits == file.fmt = "embed" => file.size <= PayloadUnits
=============================================================================
