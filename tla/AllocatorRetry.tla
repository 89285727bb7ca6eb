--------------------------- MODULE AllocatorRetry ---------------------------
(***************************************************************************)
(* The allocator below callers that go on with their transaction after a   *)
(* failed allocation, as the extent tree does (extent.rs).                 *)
(*                                                                         *)
(* The group starts nearly full: a reachable state, computed by applying   *)
(* the operations of Allocator to a new group.                             *)
(***************************************************************************)
EXTENDS Allocator, SequencesExt

(* child_ensure (extent.rs) does not give up when it cannot get its n      *)
(* blocks in a row.  It keeps its transaction, with whatever the failed    *)
(* allocation wrote to it other than the group's header, and goes on to    *)
(* allocate a tree node and then n single blocks.                          *)
AllocPieces(n) ==
  LET whole == AllocExtent(ag, n)
      one(r, k) ==
        IF ~r.ok THEN r
        ELSE LET x == AllocExtent(r.g, 1) IN
             IF x.ok THEN Done(x.g, r.val \cup {<<x.val, 1>>}) ELSE x
      r == FoldLeft(one, Done(Kept(ag, whole.g), {}), [k \in 1 .. n + 1 |-> k])
  IN /\ Held + n < MaxHeld
     /\ ~whole.ok
     /\ IF r.ok THEN ag' = r.g /\ owned' = owned \cup r.val /\ UNCHANGED inodes
        ELSE Abort(r)

RetryNext == Next \/ \E n \in Sizes : AllocPieces(n)

(* Inodes until a second slot block is begun, and extents of two blocks    *)
(* until the records of two arenas are used up.                            *)
NearlyFull ==
  LET inode(r) == LET x == AllocInode(r.g) IN
        [g |-> WriteSlot(x.g, x.val, "inode"), owned |-> r.owned, inodes |-> r.inodes \cup {x.val}]
      pair(r) == LET x == AllocExtent(r.g, 2) IN
        [g |-> x.g, owned |-> r.owned \cup {<<x.val, 2>>}, inodes |-> r.inodes]
  IN pair(pair(inode(inode(pair(inode([g |-> NewGroup, owned |-> {}, inodes |-> {}]))))))

RetryInit ==
  /\ ag = NearlyFull.g
  /\ owned = NearlyFull.owned
  /\ inodes = NearlyFull.inodes

RetrySpec == RetryInit /\ [][RetryNext]_vars
=============================================================================
