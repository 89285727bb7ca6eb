----------------------------- MODULE Namespace ------------------------------
(***************************************************************************)
(* The tree of names, fs.rs: mknod, link_at, remove_common, rename_at and  *)
(* the paths that lead to them, over inodes whose link counts fsck checks. *)
(*                                                                         *)
(* Each operation is one transaction and so one step.  One that fails      *)
(* drops its transaction and is no step.  A directory is the map from      *)
(* names to entries that Directory implements; symbolic links, which       *)
(* differ from files only in their data, are files.  Inode numbers come    *)
(* from the callers (FUSE, debugfs) and may name any inode, freed ones     *)
(* included.                                                               *)
(***************************************************************************)
EXTENDS Naturals, Sequences, FiniteSets, SequencesExt

CONSTANTS
  Inodes, Root,
  Kernel,      \* the inode of kernel.bin
  Names,
  KernelName,  \* "kernel.bin"
  Dot,         \* ".", which is no name but may stand in a path
  Paths        \* the paths given to rename, nonempty sequences of components

ASSUME InodesAssumption ==
  IsFiniteSet(Inodes) /\ {Root, Kernel} \subseteq Inodes /\ Root # Kernel
ASSUME NamesAssumption ==
  IsFiniteSet(Names) /\ KernelName \in Names /\ Dot \notin Names
ASSUME PathsAssumption == Paths \subseteq Seq(Names \cup {Dot}) /\ << >> \notin Paths

VARIABLE inodes  \* inode -> [kind, nlink, immutable, entries]

NoEntries == << >>
Free == [kind |-> "free", nlink |-> 0, immutable |-> FALSE, entries |-> NoEntries]
NewInode(kind) ==
  [kind |-> kind, nlink |-> IF kind = "dir" THEN 2 ELSE 1, immutable |-> FALSE,
   entries |-> NoEntries]
Entry(ino, kind) == [ino |-> ino, ftype |-> kind]

Minus1(n) == IF n = 0 THEN 0 ELSE n - 1  \* saturating_sub(1)

-----------------------------------------------------------------------------
(* Steps of the operations, on a table of inodes *)

IsDir(tab, ino) == tab[ino].kind = "dir"
Has(tab, dir, n) == IsDir(tab, dir) /\ n \in DOMAIN tab[dir].entries

DirInsert(tab, dir, n, e) ==
  [tab EXCEPT ![dir].entries = [m \in DOMAIN @ \cup {n} |-> IF m = n THEN e ELSE @[m]]]
DirRemove(tab, dir, n) ==
  [tab EXCEPT ![dir].entries = [m \in DOMAIN @ \ {n} |-> @[m]]]

(* Mutant: the freed slot is not zeroed. *)
FreeInodeUncleared(tab, ino) == [tab EXCEPT ![ino].kind = "free"]
FreeInode(tab, ino) == [tab EXCEPT ![ino] = Free]

(* Mutant: other links of the file are forgotten. *)
UnlinkFreeing(tab, ino) == FreeInode(tab, ino)
(* A file loses a link, and with the last one its inode. *)
Unlink(tab, ino) ==
  IF Minus1(tab[ino].nlink) = 0 THEN FreeInode(tab, ino)
  ELSE [tab EXCEPT ![ino].nlink = Minus1(@)]

(* Mutant: the parent keeps the link of the directory's "..". *)
RemoveDirLinked(tab, dir, ino) == FreeInode(tab, ino)
(* Directory dir loses its empty subdirectory. *)
RemoveDir(tab, dir, ino) == [FreeInode(tab, ino) EXCEPT ![dir].nlink = Minus1(@)]

(* What remove_common and rename_at do to the inode of entry n of dir,     *)
(* before they remove that entry.                                          *)
Release(tab, dir, n) ==
  LET e == tab[dir].entries[n] IN
  DirRemove(IF IsDir(tab, e.ino) THEN RemoveDir(tab, dir, e.ino) ELSE Unlink(tab, e.ino),
            dir, n)

(* Mutant: only unlink and rmdir refuse the kernel. *)
ReplaceableMutable(tab, ino, e) ==
  IsDir(tab, ino) = (e.ftype = "dir") /\ (IsDir(tab, ino) => tab[ino].entries = NoEntries)
(* The checks on an inode whose entry is to be replaced by e. *)
Replaceable(tab, ino, e) ==
  /\ ~tab[ino].immutable
  /\ IsDir(tab, ino) = (e.ftype = "dir")
  /\ IsDir(tab, ino) => tab[ino].entries = NoEntries

-----------------------------------------------------------------------------
(* mkfs: a root with, it may be, the kernel in it *)

Init ==
  \/ inodes = [i \in Inodes |-> IF i = Root THEN NewInode("dir") ELSE Free]
  \/ inodes = [i \in Inodes |->
       CASE i = Root -> [NewInode("dir") EXCEPT
                           !.entries = [n \in {KernelName} |-> Entry(Kernel, "file")]]
         [] i = Kernel -> [NewInode("file") EXCEPT !.immutable = TRUE]
         [] OTHER -> Free]

(* mknod: a file or symlink, or a directory, whose ".." is a link to its   *)
(* parent.                                                                 *)
Mknod(parent, n, kind) ==
  /\ IsDir(inodes, parent)
  /\ ~Has(inodes, parent, n)
  /\ \E ino \in {i \in Inodes : inodes[i] = Free} :
       LET made == DirInsert([inodes EXCEPT ![ino] = NewInode(kind)], parent, n, Entry(ino, kind))
       IN inodes' = IF kind = "dir" THEN [made EXCEPT ![parent].nlink = @ + 1] ELSE made

LinkAt(ino, parent, n) ==
  /\ inodes[ino].kind = "file"
  /\ IsDir(inodes, parent)
  /\ ~Has(inodes, parent, n)
  /\ inodes' = [DirInsert(inodes, parent, n, Entry(ino, "file")) EXCEPT ![ino].nlink = @ + 1]

(* remove_common: unlink_at, or rmdir_at with wantDir. *)
RemoveEntry(parent, n, wantDir) ==
  /\ Has(inodes, parent, n)
  /\ LET ino == inodes[parent].entries[n].ino IN
     /\ wantDir = IsDir(inodes, ino)
     /\ ~inodes[ino].immutable
     /\ wantDir => inodes[ino].entries = NoEntries
  /\ inodes' = Release(inodes, parent, n)

(* The entry n1 of p1 becomes n2 of p2; a directory takes the link of its  *)
(* ".." along.                                                             *)
Move(tab, p1, n1, p2, n2) ==
  LET e == tab[p1].entries[n1]
      moved == DirInsert(DirRemove(tab, p1, n1), p2, n2, e)
  IN IF p1 # p2 /\ e.ftype = "dir"
     THEN [moved EXCEPT ![p1].nlink = Minus1(@), ![p2].nlink = @ + 1]
     ELSE moved

(* rename_at; of two links to one file neither is touched. *)
RenameAt(p1, n1, p2, n2) ==
  /\ Has(inodes, p1, n1)
  /\ IsDir(inodes, p2)
  /\ LET e == inodes[p1].entries[n1]
         old == inodes[p2].entries[n2]
     IN \/ /\ ~Has(inodes, p2, n2)
           /\ inodes' = Move(inodes, p1, n1, p2, n2)
        \/ /\ Has(inodes, p2, n2) /\ old.ino # e.ino
           /\ Replaceable(inodes, old.ino, e)
           /\ inodes' = Move(Release(inodes, p2, n2), p1, n1, p2, n2)

-----------------------------------------------------------------------------
(* Paths *)

Components(path) == SelectSeq(path, LAMBDA c : c # Dot)

(* resolve_parent: the directory that path leads to, but for its last      *)
(* component, with that component (one such pair or none).                 *)
ResolveParent(path) ==
  LET names == Components(path)
      dirs == FoldLeft(LAMBDA S, c : {inodes[d].entries[c].ino : d \in {d \in S : Has(inodes, d, c)}},
                       {Root}, Front(names))
  IN IF names = << >> THEN {} ELSE (dirs \X {Last(names)}) \cap (Inodes \X Names)

(* Mutant: any move is let through. *)
IntoItselfNever(from, to) == FALSE
(* The check of rename: the paths as they are written. *)
IntoItself(from, to) == IsPrefix(from, to)

(* rename.  A mount calls rename_at directly; what the kernel has checked  *)
(* by then amounts to IntoItself on the paths of the two directories.      *)
Rename(from, to) ==
  /\ ~IntoItself(from, to)
  /\ \E src \in ResolveParent(from) :
       /\ Has(inodes, src[1], src[2])
       /\ \E dst \in ResolveParent(to) : RenameAt(src[1], src[2], dst[1], dst[2])

Next ==
  \/ \E parent \in Inodes, n \in Names :
       \/ \E kind \in {"file", "dir"} : Mknod(parent, n, kind)
       \/ \E ino \in Inodes : LinkAt(ino, parent, n)
       \/ \E wantDir \in BOOLEAN : RemoveEntry(parent, n, wantDir)
  \/ \E from \in Paths, to \in Paths : Rename(from, to)

Spec == Init /\ [][Next]_inodes

-----------------------------------------------------------------------------
(* Properties *)

EntrySet == [ino : Inodes, ftype : {"file", "dir"}]
InUse ==
  [kind : {"file", "dir"}, nlink : Nat \ {0}, immutable : BOOLEAN,
   entries : UNION {[S -> EntrySet] : S \in SUBSET Names}]
TypeOK == inodes \in [Inodes -> {Free} \cup InUse]

(* The places an inode is named in. *)
LinksTo(tab, i) ==
  {l \in Inodes \X Names : Has(tab, l[1], l[2]) /\ tab[l[1]].entries[l[2]].ino = i}

(* An entry never names a freed inode, and its type is the type of its     *)
(* inode (walk_dir), on which rename_at relies.                            *)
EntriesSound ==
  \A p \in Inodes : IsDir(inodes, p) =>
    \A n \in DOMAIN inodes[p].entries :
      inodes[inodes[p].entries[n].ino].kind = inodes[p].entries[n].ftype

(* S holds whatever the directories in it hold. *)
Closed(tab, S) ==
  \A d \in S : IsDir(tab, d) => \A n \in DOMAIN tab[d].entries : tab[d].entries[n].ino \in S
(* What some path leads to from ino, ino included: no such set has ino and *)
(* leaves it out.                                                          *)
Below(tab, ino) ==
  {i \in Inodes : \A S \in SUBSET (Inodes \ {i}) : ino \in S => ~Closed(tab, S)}
Reachable == Below(inodes, Root)

(* The namespace is a tree of directories and none of its space is lost:   *)
(* every inode in use can be reached from the root, and a directory by one *)
(* path only.                                                              *)
Tree ==
  /\ {i \in Inodes : inodes[i] # Free} \subseteq Reachable
  /\ LinksTo(inodes, Root) = {}
  /\ \A i \in Inodes \ {Root} : IsDir(inodes, i) => Cardinality(LinksTo(inodes, i)) = 1

(* The kernel stays: whatever is linked, moved and replaced around it, its *)
(* inode is never given up and some path leads to it.                      *)
KernelKept ==
  [][inodes[Kernel].immutable => inodes'[Kernel].immutable /\ Kernel \in Reachable']_inodes

(* The kernel is reachable as /kernel.bin (doc/1-layout.md:132-133), where *)
(* kernel_update and fsck's check_kernel look for it.                      *)
KernelBinKept ==
  inodes[Kernel].immutable =>
    Has(inodes, Root, KernelName) /\ inodes[Root].entries[KernelName].ino = Kernel
=============================================================================
