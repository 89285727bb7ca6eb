------------------------------ MODULE FsckWalk ------------------------------
(***************************************************************************)
(* fsck of the namespace, check_namespace, walk_dir and count_subdirs of   *)
(* fsck.rs: a walk from the root that counts for every inode the links it  *)
(* should have.  What it checks of a directory's blocks and of a file's    *)
(* mapping is in Directory and File.                                       *)
(***************************************************************************)
EXTENDS Namespace

CONSTANT WalkDepth  \* 64: deeper is taken for a cycle
ASSUME DepthAssumption == WalkDepth \in Nat

(* The report under way: errors and warnings, and the links expected. *)
NoReport == [errs |-> {}, nlinks |-> << >>]
Err(r, what, ino) == [r EXCEPT !.errs = @ \cup {<<what, ino>>}]
Expect(r, ino, n) ==
  [r EXCEPT !.nlinks = [i \in DOMAIN @ \cup {ino} |-> IF i = ino THEN n ELSE @[i]]]
Expected(r, ino) == IF ino \in DOMAIN r.nlinks THEN r.nlinks[ino] ELSE 0

(* count_subdirs goes by the types in the entries. *)
CountSubdirs(tab, dir) ==
  Cardinality({n \in DOMAIN tab[dir].entries : tab[dir].entries[n].ftype = "dir"})

RECURSIVE WalkDir(_, _, _, _)
WalkDir(tab, r, dir, depth) ==
  LET entries == tab[dir].entries
      kind(n) == tab[entries[n].ino].kind
      typed(x, n) == IF entries[n].ftype = "dir" THEN x ELSE Err(x, "entry type", entries[n].ino)
      entry(x, n) ==
        LET ino == entries[n].ino IN
        CASE kind(n) = "free" -> Err(x, "inode", ino)
          [] kind(n) = "dir" ->
               WalkDir(tab, Expect(typed(x, n), ino, 2 + CountSubdirs(tab, ino)), ino, depth + 1)
          [] kind(n) = "file" -> Expect(x, ino, Expected(x, ino) + 1)
      walked == FoldLeft(entry, r, SetToSeq(DOMAIN entries))
      selfLinks == 2 + Cardinality({n \in DOMAIN entries : kind(n) = "dir"})
  IN CASE depth > WalkDepth -> Err(r, "too deep", dir)
       [] depth <= WalkDepth /\ ~IsDir(tab, dir) -> Err(r, "not a directory", dir)
       [] OTHER -> IF dir \in DOMAIN walked.nlinks THEN walked ELSE Expect(walked, dir, selfLinks)

CheckNamespace(tab) ==
  LET r == WalkDir(tab, NoReport, Root, 0) IN
  r.errs \cup {<<"nlink", i>> : i \in {i \in DOMAIN r.nlinks : tab[i].nlink # r.nlinks[i]}}

(* fsck finds nothing to say of the namespace, whatever was linked, moved, *)
(* replaced and removed, as tests/model.rs asks: above all, the link       *)
(* counts that the operations keep are those that its walk arrives at.     *)
FsckClean == CheckNamespace(inodes) = {}
=============================================================================
