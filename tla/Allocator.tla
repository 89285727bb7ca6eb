----------------------------- MODULE Allocator -----------------------------
(***************************************************************************)
(* The allocator of one allocation group, under any sequence of the        *)
(* operations its callers perform.                                         *)
(*                                                                         *)
(* An operation reads and writes through one transaction, so here it is    *)
(* one step on the group.  When it fails its transaction is dropped; the   *)
(* in-memory hints it moved stay moved.                                    *)
(***************************************************************************)
EXTENDS FsckGroup

CONSTANTS
  Sizes,           \* the extent sizes that callers ask for
  MaxHeld          \* bound: extents and inodes held at a time

ASSUME SizeAssumption == Sizes \subseteq Nat \ {0}
ASSUME HeldAssumption == MaxHeld \in Nat

VARIABLES
  ag,      \* the group: see TypeOK
  owned,   \* history: the extents its callers hold, <<first block, blocks>>
  inodes   \* history: the inodes in use, <<slot block, slot>>

vars == <<ag, owned, inodes>>

Init ==
  /\ owned = {}
  /\ \/ ag = NewGroup /\ inodes = {}
     \/ CellCount > 3 /\ ag = FirstGroup /\ inodes = {<<RootBlock, 0>>}

-----------------------------------------------------------------------------
(* Operations *)

(* The transaction is dropped. *)
Abort(r) ==
  /\ ag' = [ag EXCEPT !.tblHint = r.g.tblHint, !.cellHint = r.g.cellHint]
  /\ UNCHANGED <<owned, inodes>>

Held == Cardinality(owned) + Cardinality(inodes)

Alloc(n) ==
  /\ Held < MaxHeld
  /\ \E r \in {AllocExtent(ag, n)} :
       IF r.ok THEN ag' = r.g /\ owned' = owned \cup {<<r.val, n>>} /\ UNCHANGED inodes
       ELSE Abort(r)

Free(e) ==
  \E r \in {FreeExtent(ag, e[1], e[2])} :
    IF r.ok THEN ag' = r.g /\ owned' = owned \ {e} /\ UNCHANGED inodes ELSE Abort(r)

Trim(e, keep) ==
  \E r \in {TrimRun(ag, e[1], e[2], keep)} :
    IF r.ok
    THEN ag' = r.g /\ owned' = (owned \ {e}) \cup {<<e[1], r.val>>} /\ UNCHANGED inodes
    ELSE Abort(r)

(* mknod writes the inode in the same transaction. *)
NewInode ==
  /\ Held < MaxHeld
  /\ \E r \in {AllocInode(ag)} :
       IF r.ok THEN ag' = WriteSlot(r.g, r.val, "inode") /\ inodes' = inodes \cup {r.val} /\ UNCHANGED owned ELSE Abort(r)

RemoveInode(ino) ==
  \E r \in {FreeInode(ag, ino[1], ino[2])} :
    IF r.ok THEN ag' = r.g /\ inodes' = inodes \ {ino} /\ UNCHANGED owned ELSE Abort(r)

(* The volume is opened again: the hints are gone. *)
Reopen ==
  /\ ag' = [ag EXCEPT !.tblHint = 0, !.cellHint = 0]
  /\ UNCHANGED <<owned, inodes>>

Next ==
  \/ \E n \in Sizes : Alloc(n)
  \/ \E e \in owned : Free(e)
  \/ \E e \in owned : \E keep \in 1 .. e[2] - 1 : Trim(e, keep)
  \/ NewInode
  \/ \E ino \in inodes : RemoveInode(ino)
  \/ Reopen

Spec == Init /\ [][Next]_vars

-----------------------------------------------------------------------------
(* Properties *)

States == {"free", "rsvd", "full", "refined"}
Refs == Blocks \X (0 .. RecordsPerBlock - 1)

TypeOK ==
  /\ ag.rt \in [Cells -> States]
  /\ ag.ref \in [Cells -> Refs]
  /\ DOMAIN ag.recs \subseteq Refs
  /\ \A r \in DOMAIN ag.recs :
       ag.recs[r] \in [st : [Kids -> States \ {"rsvd"}], ref : [Kids -> Refs]]
  /\ DOMAIN ag.slots \subseteq Blocks \X (0 .. Slots - 1)
  /\ ag.arena \in Blocks /\ ag.inoHint \in Blocks
  /\ ag.free \in Nat /\ ag.rsvd \in Nat /\ ag.full \in Nat
  /\ ag.tblHint \in Blocks /\ ag.cellHint \in Cells
  /\ owned \subseteq Blocks \X (Nat \ {0})
  /\ inodes \subseteq Blocks \X (0 .. Slots - 1)

(* The places that refer to a record, with what they refer to. *)
RefSites ==
  LET l0 == {<<<<c>>, ag.ref[c]>> : c \in Refined(ag)}
      below(S) == UNION {{<<Append(p[1], i), ag.recs[p[2]].ref[i]>> :
                             i \in {k \in Kids : ag.recs[p[2]].st[k] = "refined"}} :
                         p \in {q \in S : q[2] \in DOMAIN ag.recs}}
  IN l0 \cup below(l0) \cup below(below(l0))

(* The tree is a tree: every refined cell, at every level, has a record of *)
(* its own, no record is used that no cell refers to, and records lie in   *)
(* reserved cells.  tally_ag of fsck.rs sees no leak in a table block none *)
(* of whose records is referred to; this does.                             *)
RecordsExact ==
  /\ {p[2] : p \in RefSites} = DOMAIN ag.recs
  /\ Cardinality(RefSites) = Cardinality(DOMAIN ag.recs)
  /\ \A r \in DOMAIN ag.recs : ag.rt[r[1] \div CellBlocks] = "rsvd"

(* The blocks given out for an extent. *)
Span(e) ==
  LET unit == IF e[2] >= CellBlocks THEN CellBlocks ELSE IF e[2] > Fanout THEN Fanout ELSE 1
  IN e[1] .. e[1] + CeilDiv(e[2], unit) * unit - 1

(* The blocks in use are those the callers hold, and no two of them hold   *)
(* the same block, however extents and slot blocks came and went.          *)
OwnershipExact ==
  /\ Allocated(ag) = (UNION {Span(e) : e \in owned}) \cup {ino[1] : ino \in inodes}
  /\ \A e, f \in owned : e # f => Span(e) \cap Span(f) = {}
  /\ \A e \in owned, ino \in inodes : ino[1] \notin Span(e)

(* fsck finds nothing to say of a group, whatever was done to it, as       *)
(* tests/e2e.rs and tests/model.rs ask: the header counts what a walk of   *)
(* the tree counts, records are used just where they are referred to, and  *)
(* slots hold inodes or zeros as their states say (check_allocator).       *)
FsckClean == CheckGroup(ag) = {}

(* The slots in use are the inodes, and new inodes go to a slot block or   *)
(* start one: the hint never leads into file data.                         *)
SlotsExact ==
  /\ \A b \in Blocks \ {0} : b \in {ino[1] : ino \in inodes} <=> SlotRefined(ag, b)
  /\ \A ino \in inodes : ino[2] \notin FreeSlots(ag, ino[1])
  /\ \A ino \in inodes : \A s \in (0 .. Slots - 1) \ FreeSlots(ag, ino[1]) : <<ino[1], s>> \in inodes
  /\ ag.inoHint # 0 => SlotRefined(ag, ag.inoHint)

(* Coarsening is complete: nothing stays refined whose children are all    *)
(* free, so space freed piecemeal can be had in one piece again.           *)
Coarsened == \A r \in DOMAIN ag.recs : ~AllFree(ag.recs[r])

(* What was given out can be given back, whole or from any point on: the   *)
(* bail!s of free_extent, granule_at and free_inode are out of reach of    *)
(* callers who free what they hold.                                        *)
FreeSucceeds ==
  /\ \A e \in owned : FreeExtent(ag, e[1], e[2]).ok
  /\ \A e \in owned : \A keep \in 1 .. e[2] - 1 : TrimRun(ag, e[1], e[2], keep).ok
  /\ \A ino \in inodes : FreeInode(ag, ino[1], ino[2]).ok

(* A small allocation fails only when no L1 cell has a run for it and no   *)
(* cell can be refined: not more than one cell is free, and if refinement  *)
(* was possible in principle, there is no record left for it.              *)
NoFalseENOSPC ==
  \A n \in 1 .. Fanout : ~AllocExtent(ag, n).ok =>
    /\ \A c \in Refined(ag) : KidsWithRun(ag, ag.recs[ag.ref[c]], n) = {}
    /\ Cardinality(FreeCells(ag)) <= 1
    /\ (FreeCells(ag) # {} \/ \E c \in Refined(ag) : FreeKids(ag.recs[ag.ref[c]]) # {})
         => Cardinality(ArenaRoom(ag)) <= 1
=============================================================================
