----------------------------- MODULE FsckGroup ------------------------------
(***************************************************************************)
(* fsck of one allocation group, check_allocator, tally_ag and             *)
(* check_slot_block of fsck.rs: a walk of the refinement tree that shares  *)
(* nothing with the code that maintains it but the layout.                 *)
(*                                                                         *)
(* A check yields the set of what it reports, errors and warnings.         *)
(***************************************************************************)
EXTENDS AllocationGroup

(* The states of slot block b, record rec, against what the slots hold. *)
CheckSlotBlock(g, b, rec) ==
  LET holds(s) == IF <<b, s>> \in DOMAIN g.slots THEN g.slots[<<b, s>>] ELSE "old"
      expected(st) == IF st = "full" THEN "inode" ELSE IF st = "free" THEN "zero" ELSE "none"
  IN {<<"slot", b, s>> : s \in {s \in 0 .. Slots - 1 : holds(s) # expected(rec.st[s])}}

(* The walk.  What is below a record not marked used is not looked at, and *)
(* neither is a table block that nothing refers to.                        *)
TallyAg(g) ==
  LET used == DOMAIN g.recs
      cells(st) == {c \in Cells : g.rt[c] = st}
      l0(c) == g.recs[g.ref[c]]
      kids(st) == {k \in {c \in cells("refined") : g.ref[c] \in used} \X Kids : l0(k[1]).st[k[2]] = st}
      l1Ref(k) == l0(k[1]).ref[k[2]]
      l1(k) == g.recs[l1Ref(k)]
      blocks(st) == {x \in {k \in kids("refined") : l1Ref(k) \in used} \X Kids : l1(x[1]).st[x[2]] = st}
      l3Ref(x) == l1(x[1]).ref[x[2]]
      local(x) == x[1][1] * CellBlocks + x[1][2] * Fanout + x[2]
      referenced == {g.ref[c] : c \in cells("refined")} \cup {l1Ref(k) : k \in kids("refined")}
                      \cup {l3Ref(x) : x \in blocks("refined")}
      seen == {r[1] : r \in referenced}
      count(st) == Cardinality(cells(st)) * CellBlocks + Cardinality(kids(st)) * Fanout
                     + Cardinality(blocks(st))
  IN [free |-> count("free"),
      rsvd |-> count("rsvd"),
      full |-> count("full") + Cardinality(blocks("refined")),
      errs |-> {<<"not marked used", r>> : r \in referenced \ used}
                 \cup {<<"leak", r>> : r \in {r \in used \ referenced : r[1] \in seen}}
                 \cup UNION {CheckSlotBlock(g, local(x), g.recs[l3Ref(x)]) :
                              x \in {x \in blocks("refined") : l3Ref(x) \in used}}]

(* check_allocator, of one group: the walk and the header's counters. *)
CheckGroup(g) ==
  LET t == TallyAg(g) IN
  t.errs \cup {<<"counter", n>> : n \in {n \in {"free", "rsvd", "full"} : t[n] # g[n]}}
=============================================================================
