---------------------------- MODULE ExtentTree -----------------------------
(***************************************************************************)
(* The mapping of one file's blocks to disk blocks, extent.rs, over the    *)
(* allocator of the file's group.                                          *)
(*                                                                         *)
(* A few runs are kept inline in the inode (format "extent").  More need a *)
(* tree: a root in the inode with RootFanout children, nodes in blocks of  *)
(* their own with NodeFanout.  A child of a node of level l covers         *)
(* NodeFanout^l file blocks: it is free, full (a run from its start on) or *)
(* refined into a node of level l - 1.  The root is nodes[0] here: the     *)
(* code reaches both through one accessor, and block 0 is never a node.    *)
(*                                                                         *)
(* The operators work on a mapping m within one transaction:               *)
(*   ag     the allocation group                                           *)
(*   fmt    "empty", "embed", "extent" or "tree"                           *)
(*   ext    the inline runs, <<file block, disk block, blocks>>            *)
(*   nodes  the tree                                                       *)
(*   fresh  the file blocks allocated by this map_ensure                   *)
(*   freed  the data blocks freed by this map_truncate                     *)
(* Those that can fail return an outcome as the allocator's do.            *)
(***************************************************************************)
EXTENDS AllocationGroup
LOCAL INSTANCE SequencesExt
LOCAL INSTANCE FiniteSetsExt
LOCAL INSTANCE Functions
LOCAL INSTANCE TLC

CONSTANTS RootFanout, NodeFanout, MaxInlineExtents

ASSUME FanoutsAssumption == RootFanout \in 1 .. NodeFanout /\ NodeFanout \in Nat \ {0, 1}
ASSUME InlineAssumption == MaxInlineExtents \in Nat \ {0}

Cov(level) == NodeFanout ^ level
NoKid == [st |-> "free", n |-> 0, at |-> 0]
FullKid(n, at) == [st |-> "full", n |-> n, at |-> at]
NodeKid(at) == [st |-> "refined", n |-> 0, at |-> at]

NewRoot(level) == [level |-> level, kids |-> [i \in 0 .. RootFanout - 1 |-> NoKid]]
NewNode(level) == [level |-> level, kids |-> [i \in 0 .. NodeFanout - 1 |-> NoKid]]
NodeKids == 0 .. NodeFanout - 1

NoMap(g) == [ag |-> g, fmt |-> "empty", ext |-> << >>, nodes |-> << >>, fresh |-> {}, freed |-> 0]
NodeBlocks(m) == DOMAIN m.nodes \ {0}

SetKid(m, p, i, kid) == [m EXCEPT !.nodes[p].kids[i] = kid]
Freed(m, n) == [m EXCEPT !.freed = @ + n]

(* Op(m, i) for i from a to b, until one fails. *)
Each(m, a, b, Op(_, _)) ==
  FoldLeft(LAMBDA x, i : Then(x, LAMBDA h, v : Op(h, i)), Done(m, 0), [k \in 1 .. b - a + 1 |-> a + k - 1])

(* The outcome x of the allocator on the group of m. *)
OnGroup(m, x) == [x EXCEPT !.g = [m EXCEPT !.ag = x.g]]

AllocNode(m, level) ==
  Then(OnGroup(m, AllocExtent(m.ag, 1)),
       LAMBDA h, b : Done([h EXCEPT !.nodes = (b :> NewNode(level)) @@ @], b))

FreeRun(m, b, n) == OnGroup(m, FreeExtent(m.ag, b, n))

WithoutNode(m, p) == [m EXCEPT !.nodes = Restrict(@, DOMAIN @ \ {p})]
FreeNode(m, p) == Then(FreeRun(m, p, 1), LAMBDA h, v : Done(WithoutNode(h, p), 0))

-----------------------------------------------------------------------------
(* Lookup: a run of len blocks at disk block at, or a hole of len blocks.  *)

Run(at, len) == [run |-> TRUE, at |-> at, len |-> len]
Hole(len) == [run |-> FALSE, at |-> 0, len |-> len]
Far == 1000000  \* u64::MAX

RECURSIVE NodeLookup(_, _, _)
NodeLookup(m, p, rel) ==
  LET c == Cov(m.nodes[p].level)
      kid == m.nodes[p].kids[rel \div c]
      sub == rel % c
  IN CASE rel \div c \notin DOMAIN m.nodes[p].kids -> Hole(Far)
       [] kid.st = "refined" -> NodeLookup(m, kid.at, sub)
       [] kid.st = "full" /\ sub < kid.n -> Run(kid.at + sub, kid.n - sub)
       [] OTHER -> Hole(c - sub)

Lookup(m, f) ==
  LET cover == {e \in Range(m.ext) : f \in e[1] .. e[1] + e[3] - 1}
      later == {x \in {e[1] : e \in Range(m.ext)} : x > f}
  IN CASE m.fmt = "tree" -> NodeLookup(m, 0, f)
       [] m.fmt = "extent" /\ cover # {} ->
            LET e == CHOOSE e \in cover : TRUE IN Run(e[2] + f - e[1], e[1] + e[3] - f)
       [] m.fmt = "extent" /\ cover = {} -> Hole(Min(later \cup {Far}) - f)
       [] OTHER -> Hole(Far)

(* What a caller sees that goes from file block f to before to, run by run *)
(* and hole by hole: a function from file blocks to disk blocks.           *)
RECURSIVE Walk(_, _, _)
Walk(m, f, to) ==
  LET x == Lookup(m, f)
      n == Min({x.len, to - f})
  IN IF f >= to THEN << >>
     ELSE (IF x.run THEN [b \in f .. f + n - 1 |-> x.at + b - f] ELSE << >>) @@ Walk(m, f + x.len, to)

-----------------------------------------------------------------------------
(* Refinement *)

(* The run of a full child, spread over the children of the new node p. *)
Redistribute(m, p, kid) ==
  LET c == Cov(m.nodes[p].level) IN
  [m EXCEPT !.nodes[p].kids =
     [i \in DOMAIN @ |-> IF i * c < kid.n THEN FullKid(Min({c, kid.n - i * c}), kid.at + i * c) ELSE @[i]]]

(* Child i of p, which is free or full, becomes a node; val is the node. *)
Refine(m, p, i) ==
  LET kid == m.nodes[p].kids[i]
      level == m.nodes[p].level
      over(h, q) == IF kid.st = "full" THEN Redistribute(h, q, kid) ELSE h
  IN IF level = 0 THEN Failed(m)
     ELSE Then(AllocNode(m, level - 1), LAMBDA h, q : Done(SetKid(over(h, q), p, i, NodeKid(q)), q))

RootGrow(m) ==
  LET level == m.nodes[0].level
      old == m.nodes[0].kids
      wrapped(h, q) ==
        [h EXCEPT !.nodes[q].kids = [i \in DOMAIN @ |-> IF i \in DOMAIN old THEN old[i] ELSE @[i]],
                  !.nodes[0] = NewRoot(level + 1)]
      grown(h, q) ==
        IF \E i \in DOMAIN old : old[i].st # "free"
        THEN Done(SetKid(wrapped(h, q), 0, 0, NodeKid(q)), 0) ELSE FreeNode(wrapped(h, q), q)
  IN Then(AllocNode(m, level), grown)

RECURSIVE GrowTo(_, _)
GrowTo(m, to) ==
  IF to <= RootFanout * Cov(m.nodes[0].level) THEN Done(m, 0)
  ELSE Then(RootGrow(m), LAMBDA h, v : GrowTo(h, to))

-----------------------------------------------------------------------------
(* Ensure: file blocks from .. to - 1 are mapped.  start is the first file *)
(* block that the child, or the node, covers.                              *)

(* Op(m, i, first, from, to) for the children i of p that cover some of    *)
(* the file blocks from .. to - 1, with the first that i covers and its    *)
(* part of those blocks.                                                   *)
OverKids(m, p, start, from, to, Op(_, _, _, _, _)) ==
  LET c == Cov(m.nodes[p].level)
      first(i) == start + i * c
  IN Each(m, (from - start) \div c, (to - 1 - start) \div c, LAMBDA h, i :
       Op(h, i, first(i), Max({from, first(i)}), Min({to, first(i) + c})))

RECURSIVE EnsureBelow(_, _, _, _, _)
Ensure(m, p, i, start, from, to) ==
  LET kid == m.nodes[p].kids[i]
      below(h, q) == EnsureBelow(h, q, start, from, to)
      refined(h) == Then(Refine(h, p, i), below)
      one(a) ==  \* one run from the child's start, or what smaller children can get
        IF a.ok THEN Done([SetKid(m, p, i, FullKid(to - start, a.val)) EXCEPT
                             !.ag = a.g, !.fresh = @ \cup start .. to - 1], 0)
        ELSE refined([m EXCEPT !.ag = Kept(@, a.g)])
  IN CASE kid.st = "refined" -> below(m, kid.at)
       [] kid.st = "full" /\ to - start <= kid.n -> Done(m, 0)
       [] kid.st = "free" /\ from = start -> one(AllocExtent(m.ag, to - start))
       [] OTHER -> refined(m)
EnsureBelow(m, p, start, from, to) ==
  OverKids(m, p, start, from, to, LAMBDA h, i, s, f, t : Ensure(h, p, i, s, f, t))

(* Insert the blocks from b on, already allocated, for from .. to - 1. *)
RECURSIVE InsertBelow(_, _, _, _, _, _)
Insert(m, p, i, start, from, to, b) ==
  LET kid == m.nodes[p].kids[i]
      below(h, q) == InsertBelow(h, q, start, from, to, b)
  IN CASE kid.st = "free" /\ from = start -> Done(SetKid(m, p, i, FullKid(to - from, b)), 0)
       [] kid.st = "full" /\ from = start + kid.n /\ b = kid.at + kid.n ->
            Done(SetKid(m, p, i, FullKid(to - start, kid.at)), 0)
       [] kid.st = "refined" -> below(m, kid.at)
       [] OTHER -> Then(Refine(m, p, i), below)
InsertBelow(m, p, start, from, to, b) ==
  OverKids(m, p, start, from, to, LAMBDA h, i, s, f, t : Insert(h, p, i, s, f, t, b + f - from))

ToTree(m) ==
  LET needed == Max({e[1] + e[3] : e \in Range(m.ext)} \cup {1})
      level == Min({l \in 0 .. needed : RootFanout * Cov(l) >= needed})
      root == [m EXCEPT !.fmt = "tree", !.nodes = (0 :> NewRoot(level)), !.ext = << >>]
      insert(x, e) == Then(x, LAMBDA h, v : InsertBelow(h, 0, 0, e[1], e[1] + e[3], e[2]))
  IN FoldLeft(insert, Done(root, 0), m.ext)

Sorted(m) == [m EXCEPT !.ext = SetToSortSeq(Range(@), LAMBDA e, f : e[1] < f[1])]
(* Mutant: the inline runs are not counted. *)
StoreExtentsUncounted(m) == Done(Sorted(m), 0)
StoreExtents(m) == IF Len(m.ext) > MaxInlineExtents THEN ToTree(m) ELSE Done(Sorted(m), 0)

(* A new run, joined to the inline run that it continues on both sides. *)
AddExtent(ext, f, b, n) ==
  LET joins(e) == e[1] + e[3] = f /\ e[2] + e[3] = b IN
  IF \E k \in DOMAIN ext : joins(ext[k])
  THEN [k \in DOMAIN ext |-> IF joins(ext[k]) THEN [ext[k] EXCEPT ![3] = @ + n] ELSE ext[k]]
  ELSE Append(ext, <<f, b, n>>)

RECURSIVE ExtentEnsure(_, _, _)
ExtentEnsure(m, pos, end) ==
  LET cover == {e \in Range(m.ext) : pos \in e[1] .. e[1] + e[3] - 1}
      next == Min(({e[1] : e \in Range(m.ext)} \cap (pos + 1 .. end)) \cup {end})
      added(a) == [m EXCEPT !.ag = a.g, !.ext = AddExtent(@, pos, a.val, next - pos),
                            !.fresh = @ \cup pos .. next - 1]
      with(a) ==
        CASE a.ok -> ExtentEnsure(added(a), next, end)
          [] ~a.ok /\ m.ext = << >> -> OnGroup(m, a)
          [] OTHER -> ToTree([m EXCEPT !.ag = Kept(@, a.g)])  \* go on in a tree
  IN CASE pos >= end -> StoreExtents(m)
       [] pos < end /\ cover # {} -> ExtentEnsure(m, Max({e[1] + e[3] : e \in cover}), end)
       [] OTHER -> with(AllocExtent(m.ag, next - pos))

MapEnsure(m, f, n) ==
  LET inline == IF m.fmt = "tree" THEN Done([m EXCEPT !.fresh = {}], 0)
                ELSE ExtentEnsure([m EXCEPT !.fresh = {}, !.fmt = "extent"], f, f + n)
      inTree(h) == Then(GrowTo(h, f + n), LAMBDA h1, v : EnsureBelow(h1, 0, 0, f, f + n))
      ensured == Then(inline, LAMBDA h, v : IF h.fmt = "tree" THEN inTree(h) ELSE Done(h, 0))
      collected(h, v) == IF DOMAIN Walk(h, f, f + n) = f .. f + n - 1 THEN Done(h, 0) ELSE Failed(h)
  IN Then(ensured, collected)

-----------------------------------------------------------------------------
(* Freeing *)

RECURSIVE FreeKid(_, _)
FreeKid(m, kid) ==
  CASE kid.st = "free" -> Done(m, 0)
    [] kid.st = "full" -> Then(FreeRun(m, kid.at, kid.n), LAMBDA h, v : Done(Freed(h, kid.n), 0))
    [] kid.st = "refined" ->
         Then(Each(m, 0, NodeFanout - 1, LAMBDA h, i : FreeKid(h, m.nodes[kid.at].kids[i])),
              LAMBDA h, v : FreeNode(h, kid.at))

MapFreeAll(m) ==
  LET freed == IF m.fmt = "tree"
               THEN Each(m, 0, RootFanout - 1, LAMBDA h, i : FreeKid(h, m.nodes[0].kids[i]))
               ELSE Each(m, 1, Len(m.ext), LAMBDA h, k : FreeRun(h, m.ext[k][2], m.ext[k][3]))
  IN Then(freed, LAMBDA h, v : Done(NoMap(h.ag), 0))

(* Mutant: the trimmed run keeps its length. *)
TrimToLong(m, b, n, keep) ==
  IF keep >= n THEN Done(m, n)
  ELSE Then(OnGroup(m, TrimRun(m.ag, b, n, keep)), LAMBDA h, kept : Done(Freed(h, n - kept), n))

(* trim_run with its count; val is the length kept. *)
TrimTo(m, b, n, keep) ==
  IF keep >= n THEN Done(m, n)
  ELSE Then(OnGroup(m, TrimRun(m.ag, b, n, keep)), LAMBDA h, kept : Done(Freed(h, n - kept), kept))

(* Mutant: emptied nodes stay. *)
EmptyNever(node) == FALSE
Empty(node) == \A i \in DOMAIN node.kids : node.kids[i].st = "free"

(* Child i of node p, whose file blocks begin at start: free what lies     *)
(* from cutoff on.                                                         *)
RECURSIVE TrimKid(_, _, _, _, _)
TrimKid(m, p, i, start, cutoff) ==
  LET kid == m.nodes[p].kids[i]
      sub == Cov(m.nodes[kid.at].level)
      become(x, new) == Then(x, LAMBDA h, v : Done(SetKid(h, p, i, new), 0))
      below == Each(m, 0, NodeFanout - 1, LAMBDA h, j : TrimKid(h, kid.at, j, start + j * sub, cutoff))
  IN CASE kid.st = "free" \/ start + Cov(m.nodes[p].level) <= cutoff -> Done(m, 0)
       [] kid.st # "free" /\ start >= cutoff -> become(FreeKid(m, kid), NoKid)
       [] kid.st = "full" /\ start < cutoff /\ cutoff < start + Cov(m.nodes[p].level) ->
            Then(TrimTo(m, kid.at, kid.n, cutoff - start),
                 LAMBDA h, kept : Done(SetKid(h, p, i, FullKid(kept, kid.at)), 0))
       [] OTHER ->
            Then(below, LAMBDA h, v :
              IF Empty(h.nodes[kid.at]) THEN become(FreeNode(h, kid.at), NoKid) ELSE Done(h, 0))

TrimExtent(m, e, cutoff) ==
  LET keep(h, n) == [h EXCEPT !.ext = Append(@, <<e[1], e[2], n>>)] IN
  CASE e[1] >= cutoff -> Then(FreeRun(m, e[2], e[3]), LAMBDA h, v : Done(Freed(h, e[3]), 0))
    [] e[1] < cutoff /\ e[1] + e[3] > cutoff ->
         Then(TrimTo(m, e[2], e[3], cutoff - e[1]), LAMBDA h, kept : Done(keep(h, kept), 0))
    [] OTHER -> Done(keep(m, e[3]), 0)

MapTruncate(m, cutoff) ==
  CASE m.fmt = "tree" ->
         Each(m, 0, RootFanout - 1,
              LAMBDA h, i : TrimKid(h, 0, i, i * Cov(m.nodes[0].level), cutoff))
    [] m.fmt = "extent" ->
         Each([m EXCEPT !.ext = << >>], 1, Len(m.ext), LAMBDA h, k : TrimExtent(h, m.ext[k], cutoff))
    [] OTHER -> Done(m, 0)
=============================================================================
