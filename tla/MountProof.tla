----------------------------- MODULE MountProof -----------------------------
(***************************************************************************)
(* Theorems about a mounted volume, for every set of inodes and names: the *)
(* namespace stays a tree, the kernel stays in it, and an open inode is    *)
(* the one that was opened for as long as a name leads to it.              *)
(***************************************************************************)
EXTENDS Mount, NamespaceProof, WellFoundedInduction

-----------------------------------------------------------------------------
(* Everything in use can be reached from the root *)

(* In the terms of the proofs: no set that holds the root and is closed    *)
(* leaves out an inode in use.                                             *)
AllReached(tab) ==
  \A S \in SUBSET Inodes :
    Root \in S /\ Closed(tab, S) => \A i \in Inodes : tab[i].kind # "free" => i \in S

(* Closed, entry by entry.                                                 *)
LEMMA ClosedHas ==
  ASSUME NEW tab \in Tables, NEW S \in SUBSET Inodes
  PROVE  Closed(tab, S) <=>
           \A d \in Inodes, n \in Names :
             Has(tab, d, n) /\ d \in S => tab[d].entries[n].ino \in S
  <1>1. \A d \in Inodes : DOMAIN tab[d].entries \subseteq Names
    BY TableFacts
  <1> QED
    BY <1>1 DEF Closed, Has

(* A new inode is reached through its parent, which is reached.            *)
LEMMA MknodReached ==
  ASSUME Sound(inodes), AllReached(inodes), NEW parent \in Inodes, NEW n \in Names,
         NEW kind \in {"file", "dir"}, Mknod(parent, n, kind)
  PROVE  AllReached(inodes')
  <1>1. PICK ino \in Inodes : inodes[ino] = Free /\ NewEntry(inodes, inodes', ino, parent, n, kind)
    BY MknodFacts
  <1>2. /\ inodes \in Tables /\ inodes' \in Tables
        /\ \A i \in Inodes \ {ino} : inodes'[i].kind = inodes[i].kind
        /\ \A x \in Inodes, m \in Names :
             /\ Has(inodes', x, m) <=> Has(inodes, x, m) \/ (x = parent /\ m = n)
             /\ Has(inodes, x, m) => inodes'[x].entries[m] = inodes[x].entries[m]
        /\ inodes'[parent].entries[n].ino = ino
        /\ inodes[parent].kind = "dir"
    <2>1. inodes[parent].kind = "dir"
      BY DEF Mknod, IsDir
    <2> QED
      BY <1>1, <2>1 DEF Sound, NewEntry, Inserted, Entry
  <1> SUFFICES ASSUME NEW S \in SUBSET Inodes, Root \in S, Closed(inodes', S)
               PROVE  \A i \in Inodes : inodes'[i].kind # "free" => i \in S
    BY DEF AllReached
  <1>3. \A d \in Inodes, m \in Names : Has(inodes', d, m) /\ d \in S => inodes'[d].entries[m].ino \in S
    BY <1>2, ClosedHas
  <1>4. Closed(inodes, S)
    BY <1>2, <1>3, ClosedHas
  <1>5. \A i \in Inodes : inodes[i].kind # "free" => i \in S
    BY <1>4 DEF AllReached
  <1>6. ino \in S
    BY <1>2, <1>3, <1>5
  <1> QED
    BY <1>2, <1>5, <1>6

(* A link takes no path away.                                              *)
LEMMA LinkReached ==
  ASSUME Sound(inodes), AllReached(inodes), NEW ino \in Inodes, NEW parent \in Inodes,
         NEW n \in Names, LinkAt(ino, parent, n)
  PROVE  AllReached(inodes')
  <1>1. /\ inodes \in Tables /\ inodes' \in Tables
        /\ Inserted(inodes, inodes', parent, n, Entry(ino, "file"))
        /\ \A i \in Inodes : inodes'[i].kind = inodes[i].kind
    BY LinkFacts DEF Sound
  <1> SUFFICES ASSUME NEW S \in SUBSET Inodes, Root \in S, Closed(inodes', S)
               PROVE  \A i \in Inodes : inodes'[i].kind # "free" => i \in S
    BY DEF AllReached
  <1>2. \A d \in Inodes, m \in Names : Has(inodes', d, m) /\ d \in S => inodes'[d].entries[m].ino \in S
    BY <1>1, ClosedHas
  <1>3. Closed(inodes, S)
    BY <1>1, <1>2, ClosedHas DEF Inserted
  <1> QED
    BY <1>1, <1>3 DEF AllReached

(* An entry that is removed leads to an inode with another name, to one    *)
(* that is given up, or to an empty directory: nothing else was reached    *)
(* through it alone.                                                       *)
LEMMA ReleaseReached ==
  ASSUME NEW tab, Sound(tab), AllReached(tab), NEW d \in Inodes, NEW n \in Names, Has(tab, d, n),
         LET ino == tab[d].entries[n].ino IN IsDir(tab, ino) => tab[ino].entries = NoEntries
  PROVE  AllReached(Release(tab, d, n))
  <1> DEFINE ino == tab[d].entries[n].ino
             new == Release(tab, d, n)
  <1>1. /\ tab \in Tables /\ new \in Tables /\ Sound(new)
        /\ ino \in Inodes /\ ino # Root
        /\ \A x \in Inodes, m \in Names :
             /\ Has(new, x, m) <=> Has(tab, x, m) /\ <<x, m>> \notin {<<d, n>>}
             /\ Has(new, x, m) => new[x].entries[m] = tab[x].entries[m]
        /\ \A i \in Inodes \ {ino} : new[i].kind = tab[i].kind
    <2>1. Sound(new)
      BY ReleaseSound
    <2>2. ino \in Inodes /\ ino # Root
      BY EntryFacts
    <2>3. /\ \A x \in Inodes, m \in Names :
               /\ Has(new, x, m) <=> Has(tab, x, m) /\ <<x, m>> \notin {<<d, n>>}
               /\ Has(new, x, m) => new[x].entries[m] = tab[x].entries[m]
          /\ \A i \in Inodes \ {ino} : new[i].kind = tab[i].kind
      BY ReleaseFacts
    <2> QED
      BY <2>1, <2>2, <2>3 DEF Sound
  <1>2. \A m \in Names : ~Has(tab, ino, m)
    <2>1. DOMAIN NoEntries = {}
      BY DEF NoEntries
    <2> QED
      BY <2>1 DEF Has
  <1> SUFFICES ASSUME NEW S \in SUBSET Inodes, Root \in S, Closed(new, S)
               PROVE  \A i \in Inodes : new[i].kind # "free" => i \in S
    BY DEF AllReached
  <1> HIDE DEF new
  <1>3. \A x \in Inodes, m \in Names : Has(new, x, m) /\ x \in S => new[x].entries[m].ino \in S
    BY <1>1, ClosedHas
  <1>4. Closed(tab, S \cup {ino})
    <2>1. ASSUME NEW x \in Inodes, NEW m \in Names, Has(tab, x, m), x \in S \cup {ino}
          PROVE  tab[x].entries[m].ino \in S \cup {ino}
      <3>1. CASE x = d /\ m = n
        BY <3>1
      <3>2. CASE ~(x = d /\ m = n)
        BY <2>1, <3>2, <1>1, <1>2, <1>3
      <3> QED
        BY <3>1, <3>2
    <2>2. S \cup {ino} \in SUBSET Inodes
      BY <1>1
    <2> HIDE DEF ino
    <2> QED
      BY <1>1, <2>1, <2>2, ClosedHas
  <1> HIDE DEF ino
  <1>5. \A i \in Inodes : tab[i].kind # "free" => i \in S \cup {ino}
    <2>1. S \cup {ino} \in SUBSET Inodes
      BY <1>1
    <2> QED
      BY <1>4, <2>1 DEF AllReached
  <1>6. new[ino].kind # "free" => ino \in S
    <2> SUFFICES ASSUME new[ino].kind # "free"
                 PROVE  ino \in S
      OBVIOUS
    <2>1. PICK l \in LinksTo(new, ino) : TRUE
      BY <1>1, InUseNamed DEF Free
    <2>2. /\ l[1] \in Inodes /\ l[2] \in Names /\ Has(new, l[1], l[2])
          /\ new[l[1]].entries[l[2]].ino = ino
      BY DEF LinksTo
    <2>3. Has(tab, l[1], l[2]) /\ tab[l[1]].kind # "free" /\ l[1] # ino
      BY <1>1, <1>2, <2>2 DEF Has, IsDir
    <2> QED
      BY <1>3, <1>5, <2>2, <2>3
  <1> QED
    BY <1>1, <1>5, <1>6

(* An entry that moves is reached at its new place, as that is not below   *)
(* it.                                                                     *)
LEMMA MoveReached ==
  ASSUME NEW tab, Sound(tab), AllReached(tab),
         NEW p1 \in Inodes, NEW n1 \in Names, NEW p2 \in Inodes, NEW n2 \in Names,
         Has(tab, p1, n1), IsDir(tab, p2), ~Has(tab, p2, n2),
         p2 \notin Below(tab, tab[p1].entries[n1].ino)
  PROVE  AllReached(Move(tab, p1, n1, p2, n2))
  <1> DEFINE k == tab[p1].entries[n1].ino
             u == DirRemove(tab, p1, n1)
             new == Move(tab, p1, n1, p2, n2)
  <1>1. /\ tab \in Tables /\ new \in Tables
        /\ k \in Inodes
        /\ IsDir(tab, p1)
        /\ \A i \in Inodes : new[i].kind = tab[i].kind
        /\ Inserted(u, new, p2, n2, tab[p1].entries[n1])
    <2>1. k \in Inodes /\ IsDir(tab, p1)
      BY EntryFacts
    <2>2. /\ new \in Tables
          /\ \A i \in Inodes : new[i].kind = tab[i].kind
          /\ Inserted(u, new, p2, n2, tab[p1].entries[n1])
      BY MoveFacts
    <2> QED
      BY <2>1, <2>2 DEF Sound
  <1>2. \A x \in Inodes, m \in Names :
          /\ Has(u, x, m) <=> Has(tab, x, m) /\ ~(x = p1 /\ m = n1)
          /\ Has(u, x, m) => u[x].entries[m] = tab[x].entries[m]
    BY <1>1, RemoveFacts DEF Has, IsDir
  <1>3. /\ \A x \in Inodes, m \in Names :
             Has(tab, x, m) /\ ~(x = p1 /\ m = n1) =>
               Has(new, x, m) /\ new[x].entries[m] = tab[x].entries[m]
        /\ Has(new, p2, n2) /\ new[p2].entries[n2].ino = k
    BY <1>1, <1>2 DEF Inserted
  <1> SUFFICES ASSUME NEW S \in SUBSET Inodes, Root \in S, Closed(new, S)
               PROVE  \A i \in Inodes : new[i].kind # "free" => i \in S
    BY DEF AllReached
  <1> HIDE DEF u, new
  <1>4. \A x \in Inodes, m \in Names : Has(new, x, m) /\ x \in S => new[x].entries[m].ino \in S
    BY <1>1, ClosedHas
  <1>5. PICK B \in SUBSET Inodes : k \in B /\ Closed(tab, B) /\ p2 \notin B
    BY DEF Below
  <1>6. \A x \in Inodes, m \in Names : Has(tab, x, m) /\ x \in B => tab[x].entries[m].ino \in B
    BY <1>1, <1>5, ClosedHas
  <1>7. p2 \in S
    <2>1. ASSUME NEW x \in Inodes, NEW m \in Names, Has(tab, x, m), x \in S \cup B
          PROVE  tab[x].entries[m].ino \in S \cup B
      BY <2>1, <1>3, <1>4, <1>5, <1>6
    <2>2. Closed(tab, S \cup B)
      BY <1>1, <2>1, ClosedHas
    <2>3. p2 \in S \cup B
      BY <2>2 DEF AllReached, IsDir
    <2> QED
      BY <2>3, <1>5
  <1>8. k \in S
    BY <1>3, <1>4, <1>7
  <1>9. Closed(tab, S)
    <2>1. ASSUME NEW x \in Inodes, NEW m \in Names, Has(tab, x, m), x \in S
          PROVE  tab[x].entries[m].ino \in S
      BY <2>1, <1>3, <1>4, <1>8
    <2> QED
      BY <1>1, <2>1, ClosedHas
  <1> QED
    BY <1>1, <1>9 DEF AllReached

(* A rename that the kernel of the machine has let through: what moves is  *)
(* not moved below itself, and the table that is left when the replaced    *)
(* entry is gone has no more below it than before.                         *)
LEMMA RenameReached ==
  ASSUME Sound(inodes), AllReached(inodes),
         NEW p1 \in Inodes, NEW n1 \in Names, NEW p2 \in Inodes, NEW n2 \in Names,
         RenameAt(p1, n1, p2, n2),
         p2 \notin Below(inodes, inodes[p1].entries[n1].ino)
  PROVE  AllReached(inodes')
  <1>1. PICK tab :
           /\ Sound(tab)
           /\ Has(tab, p1, n1) /\ IsDir(tab, p2) /\ ~Has(tab, p2, n2)
           /\ tab[p1].entries[n1] = inodes[p1].entries[n1]
           /\ inodes' = Move(tab, p1, n1, p2, n2)
           /\ \/ tab = inodes
              \/ /\ Has(inodes, p2, n2)
                 /\ LET ino == inodes[p2].entries[n2].ino
                    IN (IsDir(inodes, ino) => inodes[ino].entries = NoEntries) /\ ~inodes[ino].immutable
                 /\ tab = Release(inodes, p2, n2)
    BY RenameFacts
  <1>2. CASE tab = inodes
    BY <1>1, <1>2, MoveReached
  <1>3. CASE tab # inodes
    <2>1. /\ Has(inodes, p2, n2)
          /\ LET ino == inodes[p2].entries[n2].ino IN IsDir(inodes, ino) => inodes[ino].entries = NoEntries
          /\ tab = Release(inodes, p2, n2)
      BY <1>1, <1>3
    <2>2. AllReached(tab)
      BY <2>1, ReleaseReached
    <2>3. \A x \in Inodes, m \in Names :
            Has(tab, x, m) => Has(inodes, x, m) /\ tab[x].entries[m] = inodes[x].entries[m]
      BY <2>1, ReleaseFacts
    <2>4. inodes \in Tables /\ tab \in Tables
      BY <1>1 DEF Sound
    <2>5. \A B \in SUBSET Inodes : Closed(inodes, B) => Closed(tab, B)
      BY <2>3, <2>4, ClosedHas
    <2>6. p2 \notin Below(tab, tab[p1].entries[n1].ino)
      BY <1>1, <2>5 DEF Below
    <2> QED
      BY <1>1, <2>2, <2>6, MoveReached
  <1> QED
    BY <1>2, <1>3

(* mkfs leaves the kernel in the root.                                     *)
LEMMA InitReached ==
  ASSUME Init
  PROVE  AllReached(inodes)
  <1> SUFFICES ASSUME NEW S \in SUBSET Inodes, Root \in S, Closed(inodes, S)
               PROVE  \A i \in Inodes : inodes[i].kind # "free" => i \in S
    BY DEF AllReached
  <1>1. Free.kind = "free"
    BY DEF Free
  <1>2. CASE inodes = [i \in Inodes |-> IF i = Root THEN NewInode("dir") ELSE Free]
    BY <1>1, <1>2
  <1>3. CASE inodes = [i \in Inodes |->
               CASE i = Root -> [NewInode("dir") EXCEPT !.entries = [n \in {KernelName} |-> Entry(Kernel, "file")]]
                 [] i = Kernel -> [NewInode("file") EXCEPT !.immutable = TRUE]
                 [] OTHER -> Free]
    <2> DEFINE root == [kind |-> "dir", nlink |-> 2, immutable |-> FALSE,
                        entries |-> [n \in {KernelName} |-> Entry(Kernel, "file")]]
    <2>1. inodes[Root] = root /\ \A i \in Inodes \ {Root, Kernel} : inodes[i] = Free
      BY <1>3, InodesAssumption DEF NewInode
    <2>2. inodes[Root].kind = "dir" /\ KernelName \in DOMAIN inodes[Root].entries
          /\ inodes[Root].entries[KernelName].ino = Kernel
      BY <2>1 DEF Entry
    <2>3. Kernel \in S
      BY <2>2 DEF Closed, IsDir
    <2> QED
      BY <1>1, <2>1, <2>3
  <1> QED
    BY <1>2, <1>3 DEF Init

-----------------------------------------------------------------------------
(* What is open *)

(* An open inode that has always had a name has been the same all along,   *)
(* and has one now.                                                        *)
HandleInv ==
  open # NotOpen =>
    /\ {"ino", "same", "named"} \subseteq DOMAIN open
    /\ open.ino \in Inodes
    /\ open.named => open.same /\ Named(inodes, open.ino)

(* The inductive invariant.  Only the library may cut a directory off (its *)
(* rename compares paths, not inodes), so what can be reached is an        *)
(* invariant of the mounts.                                                *)
MountInv ==
  /\ Sound(inodes)
  /\ client = "library" => open = NotOpen
  /\ client # "library" => AllReached(inodes)
  /\ HandleInv

(* What is named is in use, before a step and after it, and then the step  *)
(* has left its kind alone.                                                *)
LEMMA NamedInUse ==
  ASSUME NEW tab, Sound(tab), NEW i \in Inodes, Named(tab, i)
  PROVE  tab[i].kind # "free"
  <1>1. CASE i = Root
    BY <1>1 DEF Sound, NamedOnce, IsDir
  <1>2. CASE i # Root
    <2>1. PICK d \in Inodes : \E n \in NamesIn(tab, d) : tab[d].entries[n].ino = i
      BY <1>2 DEF Named
    <2>2. PICK n \in NamesIn(tab, d) : tab[d].entries[n].ino = i
      BY <2>1
    <2>3. n \in Names /\ Has(tab, d, n)
      BY <2>2, TableFacts DEF NamesIn, Has, Sound
    <2> QED
      BY <2>2, <2>3, EntryFacts
  <1> QED
    BY <1>1, <1>2

(* A handle follows each change of the inode table.                        *)
LEMMA FollowedInv ==
  ASSUME Sound(inodes), Sound(inodes'), Kept(inodes, inodes'), HandleInv, open' = Followed
  PROVE  HandleInv'
  <1>1. CASE open = NotOpen \/ open.ended
    <2>1. open' = NotOpen
      BY <1>1 DEF Followed
    <2> QED
      BY <2>1 DEF HandleInv
  <1>2. CASE ~(open = NotOpen \/ open.ended)
    <2> DEFINE ino == open.ino
               named == open.named /\ Named(inodes', ino)
    <2>1. /\ {"ino", "same", "named"} \subseteq DOMAIN open
          /\ ino \in Inodes
          /\ open.named => open.same /\ Named(inodes, ino)
      BY <1>2 DEF HandleInv
    <2>2. named => open.same /\ inodes'[ino].kind = inodes[ino].kind
      BY <2>1, NamedInUse DEF Kept
    <2>3. CASE ~open.same \/ inodes'[ino].kind # inodes[ino].kind
      <3>1. open' = Gone(ino, named)
        BY <1>2, <2>3 DEF Followed
      <3>2. ~named
        BY <2>2, <2>3
      <3> QED
        BY <2>1, <3>1, <3>2 DEF HandleInv, Gone, Opened
    <2>4. CASE ~(~open.same \/ inodes'[ino].kind # inodes[ino].kind)
      <3>1. PICK gone, come : open' = [Relisted(open, gone, come) EXCEPT !.named = named]
        BY <1>2, <2>4 DEF Followed
      <3> DEFINE r == Relisted(open, gone, come)
      <3>2. DOMAIN r = DOMAIN open /\ r.ino = ino /\ r.same = open.same
        BY <2>1 DEF Relisted
      <3> HIDE DEF r
      <3>3. DOMAIN open' = DOMAIN open /\ open'.ino = ino /\ open'.same = open.same /\ open'.named = named
        BY <2>1, <3>1, <3>2 DEF r
      <3> QED
        BY <2>1, <2>2, <3>3 DEF HandleInv
    <2> QED
      BY <2>3, <2>4
  <1> QED
    BY <1>1, <1>2

(* Every handler of the mount keeps the invariant.                         *)
LEMMA HandlerSound ==
  ASSUME Sound(inodes), Handler
  PROVE  Sound(inodes') /\ Kept(inodes, inodes') /\ (AllReached(inodes) => AllReached(inodes'))
  <1>1. PICK parent \in Inodes, n \in Names :
          \/ \E kind \in {"file", "dir"} : Mknod(parent, n, kind)
          \/ \E wantDir \in BOOLEAN : RemoveEntry(parent, n, wantDir)
          \/ \E ino \in Inodes : LinkAt(ino, parent, n)
          \/ \E p2 \in Inodes, n2 \in Names : MountRename(parent, n, p2, n2)
    BY DEF Handler
  <1>2. ASSUME NEW kind \in {"file", "dir"}, Mknod(parent, n, kind)
        PROVE  Sound(inodes') /\ Kept(inodes, inodes') /\ (AllReached(inodes) => AllReached(inodes'))
    BY <1>2, MknodSound, MknodKept, MknodReached
  <1>3. ASSUME NEW wantDir \in BOOLEAN, RemoveEntry(parent, n, wantDir)
        PROVE  Sound(inodes') /\ Kept(inodes, inodes') /\ (AllReached(inodes) => AllReached(inodes'))
    <2>1. AllReached(inodes) => AllReached(inodes')
      BY <1>3, ReleaseReached DEF RemoveEntry
    <2> QED
      BY <1>3, <2>1, RemoveSound, RemoveKept
  <1>4. ASSUME NEW ino \in Inodes, LinkAt(ino, parent, n)
        PROVE  Sound(inodes') /\ Kept(inodes, inodes') /\ (AllReached(inodes) => AllReached(inodes'))
    BY <1>4, LinkSound, LinkKept, LinkReached
  <1>5. ASSUME NEW p2 \in Inodes, NEW n2 \in Names, MountRename(parent, n, p2, n2)
        PROVE  Sound(inodes') /\ Kept(inodes, inodes') /\ (AllReached(inodes) => AllReached(inodes'))
    <2> DEFINE k == inodes[parent].entries[n].ino
    <2>1. RenameAt(parent, n, p2, n2) /\ (IsDir(inodes, k) => p2 \notin Below(inodes, k))
      BY <1>5 DEF MountRename
    <2>2. CASE ~IsDir(inodes, k)
      <3>1. k \in Inodes /\ IsDir(inodes, p2)
        BY <2>1, EntryFacts DEF RenameAt
      <3>2. {k} \in SUBSET (Inodes \ {p2}) /\ Closed(inodes, {k})
        BY <2>2, <3>1 DEF Closed
      <3>3. p2 \notin Below(inodes, k)
        BY <3>2 DEF Below
      <3> QED
        BY <2>1, <3>3, RenameSound, RenameKept, RenameReached
    <2>3. CASE IsDir(inodes, k)
      BY <2>1, <2>3, RenameSound, RenameKept, RenameReached
    <2> QED
      BY <2>2, <2>3
  <1> QED
    BY <1>1, <1>2, <1>3, <1>4, <1>5

(* So does every step.                                                     *)
LEMMA MountStep ==
  ASSUME MountInv, [MountNext]_mountVars
  PROVE  MountInv'
  <1>1. CASE Call
    <2>1. Sound(inodes')
      BY <1>1, NextSound DEF Call, MountInv
    <2> QED
      BY <1>1, <2>1 DEF Call, MountInv, HandleInv
  <1>2. CASE Change
    <2>1. /\ Sound(inodes') /\ Kept(inodes, inodes')
          /\ AllReached(inodes) => AllReached(inodes')
      BY <1>2, HandlerSound DEF Change, MountInv
    <2>2. HandleInv'
      BY <1>2, <2>1, FollowedInv DEF Change, MountInv
    <2>3. client = "rw" /\ client' = client
      BY <1>2 DEF Change
    <2> QED
      BY <2>1, <2>2, <2>3 DEF MountInv
  <1>3. ASSUME NEW ino \in Inodes, Open(ino)
        PROVE  MountInv'
    <2>1. /\ client # "library" /\ Named(inodes, ino)
          /\ inodes' = inodes /\ client' = client
          /\ \E listing, hashed : open' = Opened(ino, listing, hashed)
      BY <1>3 DEF Open
    <2>2. HandleInv'
      BY <2>1 DEF HandleInv, Opened, Named, NamesIn
    <2> QED
      BY <2>1, <2>2 DEF MountInv
  <1>4. CASE Close
    BY <1>4 DEF Close, MountInv, HandleInv
  <1>5. CASE Readdir
    <2>1. /\ open # NotOpen /\ inodes' = inodes /\ client' = client
          /\ \/ open' = [open EXCEPT !.offset = Cardinality(Dots)]
             \/ open' = [open EXCEPT !.ended = TRUE]
             \/ \E n : open' = [Told(n) EXCEPT !.offset = @ + 1]
      BY <1>5 DEF Readdir, Scanning
    <2>2. /\ {"ino", "same", "named"} \subseteq DOMAIN open
          /\ open.ino \in Inodes
          /\ open.named => open.same /\ Named(inodes, open.ino)
      BY <2>1 DEF MountInv, HandleInv
    <2>3. DOMAIN open' = DOMAIN open /\ open'.ino = open.ino /\ open'.same = open.same /\ open'.named = open.named
      BY <2>1, <2>2 DEF Told
    <2>4. HandleInv'
      BY <2>1, <2>2, <2>3 DEF HandleInv, Named, NamesIn
    <2> QED
      BY <2>1, <2>4 DEF MountInv
  <1>6. CASE UNCHANGED mountVars
    BY <1>6 DEF mountVars, MountInv, HandleInv, Named, NamesIn
  <1> QED
    BY <1>1, <1>2, <1>3, <1>4, <1>5, <1>6 DEF MountNext

(* MountInv holds in every behaviour.                                      *)
LEMMA MountInvariance == MountSpec => []MountInv
  <1>1. MountInit => MountInv
    BY InitSound, InitReached DEF MountInit, MountInv, HandleInv
  <1>2. MountInv /\ [MountNext]_mountVars => MountInv'
    BY MountStep
  <1> QED
    BY <1>1, <1>2, PTL DEF MountSpec

(* Through every sequence of handlers of mount5fs and calls of the         *)
(* library, the inode number of a handle stays the inode that was opened   *)
(* as long as a name leads to it: an inode is reused only once it has no   *)
(* name.                                                                   *)
THEOREM HandleCorrect == MountSpec => []HandleKept
  <1>1. MountInv => HandleKept
    BY DEF MountInv, HandleInv, HandleKept
  <1> QED
    BY <1>1, MountInvariance, PTL

(* The inode table of a mount keeps its type and its entries say what they *)
(* name, as those of the library's calls do: the handlers call the same    *)
(* functions, rename_at without the path check of Gofs::rename.            *)
THEOREM EntriesOnMount == MountSpec => [](TypeOK /\ EntriesSound)
  <1>1. MountInv => TypeOK /\ EntriesSound
    BY SoundConsequences DEF MountInv
  <1> QED
    BY <1>1, MountInvariance, PTL

(* Who uses the volume does not change.                                    *)
LEMMA ClientFixed == MountSpec /\ client # "library" => [](client # "library")
  <1>1. client # "library" /\ [MountNext]_mountVars => (client # "library")'
    BY DEF MountNext, mountVars, Call, Change, Open, Close, Readdir
  <1> QED
    BY <1>1, PTL DEF MountSpec

(* AllReached in the terms of Namespace.                                   *)
LEMMA ReachedInUse ==
  ASSUME MountInv, client # "library"
  PROVE  {i \in Inodes : inodes[i] # Free} \subseteq Reachable
  <1>1. \A i \in Inodes : inodes[i] # Free => inodes[i].kind # "free"
    BY TableFacts DEF MountInv, Sound
  <1> QED
    BY <1>1 DEF MountInv, AllReached, Reachable, Below

(* On a mounted volume, whatever the handlers of mount5fs do, every inode  *)
(* in use can be reached from the root and a directory by one path only.   *)
(* rename of the mount has no check of its own: the kernel's refusal to    *)
(* move a directory below itself is what it rests on.                      *)
THEOREM TreeOnMount == MountSpec /\ client # "library" => []Tree
  <1>1. MountInv /\ client # "library" => Tree
    <2> SUFFICES ASSUME MountInv, client # "library"
                 PROVE  Tree
      OBVIOUS
    <2>1. NamedOnce(inodes)
      BY DEF MountInv, Sound
    <2>2. \A i \in Inodes \ {Root} : IsDir(inodes, i) => Cardinality(LinksTo(inodes, i)) = 1
      BY <2>1, FS_Singleton DEF NamedOnce
    <2> QED
      BY <2>1, <2>2, ReachedInUse DEF Tree, NamedOnce
  <1> QED
    BY <1>1, MountInvariance, ClientFixed, PTL

(* On a mounted volume some path always leads to the kernel, and its inode *)
(* is never given up.                                                      *)
THEOREM KernelOnMount == MountSpec /\ client # "library" => KernelKept
  <1>1. MountInv /\ Tree' /\ [MountNext]_mountVars =>
          [inodes[Kernel].immutable => inodes'[Kernel].immutable /\ Kernel \in Reachable']_inodes
    <2> SUFFICES ASSUME MountInv, Tree', [MountNext]_mountVars,
                        inodes' # inodes, inodes[Kernel].immutable
                 PROVE  inodes'[Kernel].immutable /\ Kernel \in Reachable'
      OBVIOUS
    <2>1. Kernel \in Inodes
      BY InodesAssumption
    <2>2. Kept(inodes, inodes')
      BY NextSound, HandlerSound
         DEF MountInv, MountNext, Call, Change, Open, Close, Readdir, mountVars
    <2>3. inodes'[Kernel].immutable
      BY <2>1, <2>2 DEF Kept
    <2>4. inodes'[Kernel] # Free
      BY <2>3 DEF Free
    <2> QED
      BY <2>1, <2>3, <2>4 DEF Tree
  <1> QED
    BY <1>1, MountInvariance, TreeOnMount, PTL DEF MountSpec, KernelKept
-----------------------------------------------------------------------------
(* Sequences of names, each once *)

(* s lists the members of S, each once. *)
Lists(s, S) ==
  /\ s \in Seq(S)
  /\ \A i, j \in DOMAIN s : s[i] = s[j] => i = j
  /\ ToSet(s) = S

LEMMA LeastNumber ==
  ASSUME NEW T \in SUBSET Nat, NEW n \in T
  PROVE  \E x \in T : \A y \in T : x <= y
  <1>1. PICK x \in T : \A y \in T : ~(<<y, x>> \in OpToRel(<, Nat))
    BY NatLessThanWellFounded, WFMin
  <1>2. \A y \in T : ~(y < x)
    BY <1>1 DEF OpToRel
  <1> QED
    BY <1>2

(* The names of a sequence can be listed in its order: shown for those up  *)
(* to a place in it, for the least place at which it could fail.           *)
LEMMA Arrangement ==
  ASSUME NEW seq \in Seq(Names), NEW S \in SUBSET Names, S \subseteq ToSet(seq)
  PROVE  \E s \in SetToSeqs(S) :
           \A i, j \in DOMAIN s : i < j => Place(seq, s[i]) < Place(seq, s[j])
  <1> DEFINE Sorted(s) == \A i, j \in DOMAIN s : i < j => Place(seq, s[i]) < Place(seq, s[j])
             Good(U) == \E s \in SetToSeqs(U) : Sorted(s)
             Until(m) == {U \in SUBSET S : \A x \in U : Place(seq, x) <= m}
             Bad == {m \in Nat : \E U \in Until(m) : ~Good(U)}
  <1>1. \A x \in S : Place(seq, x) \in 1 .. Len(seq) /\ seq[Place(seq, x)] = x
    BY DEF ToSet, Place
  <1>2. \A U \in SUBSET S : IsFiniteSet(U) /\ Cardinality(U) \in Nat
    BY NamesAssumption, FS_Subset, FS_CardinalityType
  <1>3. Good({})
    <2>1. 1 .. 0 = {} /\ DOMAIN << >> = {}
      OBVIOUS
    <2>2. << >> \in [{} -> {}]
      OBVIOUS
    <2>3. << >> \in SetToSeqs({})
      BY <2>1, <2>2, FS_EmptySet DEF SetToSeqs
    <2>4. Sorted(<< >>)
      BY <2>1
    <2> HIDE DEF Sorted
    <2> QED
      BY <2>3, <2>4
  <1> HIDE DEF Good
  <1>4. ASSUME Bad # {}
        PROVE  FALSE
    <2>1. PICK m \in Bad : \A y \in Bad : m <= y
      <3>1. Bad \in SUBSET Nat
        OBVIOUS
      <3> HIDE DEF Bad
      <3> QED
        BY <1>4, <3>1, LeastNumber
    <2>2. PICK U \in Until(m) : ~Good(U)
      BY <2>1
    <2>3. m \in Nat /\ U \in SUBSET S /\ \A x \in U : Place(seq, x) <= m
      BY <2>1
    <2>4. m # 0
      <3>1. m = 0 => U = {}
        BY <1>1, <2>3
      <3> QED
        BY <1>3, <2>2, <3>1
    <2>5. PICK x \in U : Place(seq, x) = m
      <3>1. ASSUME \A x \in U : Place(seq, x) # m
            PROVE  FALSE
        <4>1. \A x \in U : Place(seq, x) <= m - 1
          BY <1>1, <2>3, <2>4, <3>1
        <4>2. m - 1 \in Nat /\ U \in Until(m - 1)
          BY <2>3, <2>4, <4>1
        <4>3. m - 1 \in Bad
          BY <2>2, <4>2
        <4> QED
          BY <2>1, <2>3, <4>3
      <3> QED
        BY <3>1
    <2> DEFINE V == U \ {x}
               c == Cardinality(V)
    <2>6. \A y \in V : Place(seq, y) <= m - 1
      <3>1. \A y \in V : y \in S /\ seq[Place(seq, y)] = y /\ Place(seq, y) \in Nat
        BY <1>1, <2>3
      <3>2. x \in S /\ seq[m] = x
        BY <1>1, <2>3, <2>5
      <3> QED
        BY <2>3, <3>1, <3>2
    <2>7. Good(V)
      <3>1. m - 1 \in Nat /\ V \in Until(m - 1)
        BY <2>3, <2>4, <2>6
      <3>2. ~(m - 1 \in Bad)
        BY <2>1, <2>3
      <3> HIDE DEF V
      <3> QED
        BY <3>1, <3>2
    <2>8. c \in Nat /\ Cardinality(U) = c + 1
      BY <1>2, <2>3, <2>5, FS_RemoveElement
    <2> HIDE DEF c
    <2>9. PICK s \in SetToSeqs(V) : Sorted(s)
      BY <2>7 DEF Good
    <2>10. s \in [1 .. c -> V] /\ \A i, j \in 1 .. c : i # j => s[i] # s[j]
      BY <2>9 DEF SetToSeqs, c
    <2> DEFINE t == [i \in 1 .. c + 1 |-> IF i = c + 1 THEN x ELSE s[i]]
    <2>11. DOMAIN t = 1 .. c + 1 /\ t[c + 1] = x
           /\ \A i \in 1 .. c + 1 : i # c + 1 => i \in 1 .. c /\ t[i] = s[i] /\ t[i] \in V
      BY <2>8, <2>10
    <2>12. t \in [1 .. c + 1 -> U]
      BY <2>8, <2>10
    <2> HIDE DEF t
    <2>13. t \in SetToSeqs(U)
      <3>1. ASSUME NEW i \in 1 .. c + 1, NEW j \in 1 .. c + 1, i # j
            PROVE  t[i] # t[j]
        <4>1. CASE i = c + 1 \/ j = c + 1
          BY <2>11, <3>1, <4>1
        <4>2. CASE i # c + 1 /\ j # c + 1
          BY <2>10, <2>11, <3>1, <4>2
        <4> QED
          BY <4>1, <4>2
      <3> QED
        BY <2>8, <2>12, <3>1 DEF SetToSeqs
    <2>14. Sorted(t)
      <3> SUFFICES ASSUME NEW i \in 1 .. c + 1, NEW j \in 1 .. c + 1, i < j
                   PROVE  Place(seq, t[i]) < Place(seq, t[j])
        BY <2>11
      <3>1. i # c + 1
        BY <2>8
      <3>2. CASE j = c + 1
        <4>1. t[i] \in V /\ t[j] = x
          BY <2>11, <3>1, <3>2
        <4>2. Place(seq, t[i]) <= m - 1 /\ Place(seq, t[i]) \in Nat
          BY <1>1, <2>3, <2>6, <4>1
        <4> QED
          BY <2>3, <2>5, <4>1, <4>2
      <3>3. CASE j # c + 1
        BY <2>9, <2>10, <2>11, <3>1, <3>3
      <3> QED
        BY <3>2, <3>3
    <2> QED
      BY <2>2, <2>13, <2>14 DEF Good
  <1>5. Len(seq) \in Nat /\ S \in Until(Len(seq))
    BY <1>1
  <1>6. Good(S)
    <2> HIDE DEF Until
    <2> QED
      BY <1>4, <1>5
  <1> QED
    BY <1>6 DEF Good

LEMMA SequencesList ==
  ASSUME NEW S \in SUBSET Names, NEW s \in SetToSeqs(S)
  PROVE  Lists(s, S)
  <1> DEFINE c == Cardinality(S)
  <1>1. IsFiniteSet(S) /\ c \in Nat
    BY NamesAssumption, FS_Subset, FS_CardinalityType
  <1>2. s \in [1 .. c -> S] /\ \A i, j \in 1 .. c : i # j => s[i] # s[j]
    BY DEF SetToSeqs
  <1>3. IsFiniteSet(1 .. c) /\ Cardinality(1 .. c) = c
    BY <1>1, FS_Interval
  <1> HIDE DEF c
  <1>4. s \in Injection(1 .. c, S)
    BY <1>2 DEF Injection, IsInjective
  <1>5. s \in Surjection(1 .. c, S)
    BY <1>1, <1>3, <1>4, FS_Injection DEF c
  <1>6. \A x \in S : \E i \in 1 .. c : s[i] = x
    BY <1>5 DEF Surjection
  <1>7. s \in Seq(S) /\ DOMAIN s = 1 .. c
    BY <1>1, <1>2
  <1> QED
    BY <1>2, <1>6, <1>7 DEF Lists, ToSet

LEMMA ArrangedLists ==
  ASSUME NEW seq \in Seq(Names), NEW S \in SUBSET Names, S \subseteq ToSet(seq)
  PROVE  Lists(Arranged(S, seq), S)
  <1>1. Arranged(S, seq) \in SetToSeqs(S)
    BY Arrangement DEF Arranged
  <1> QED
    BY <1>1, SequencesList

LEMMA ConcatLists ==
  ASSUME NEW S, NEW T, S \cap T = {}, NEW s, NEW t, Lists(s, S), Lists(t, T)
  PROVE  Lists(s \o t, S \cup T)
  <1>1. s \in Seq(S) /\ t \in Seq(T) /\ s \in Seq(S \cup T) /\ t \in Seq(S \cup T)
    BY DEF Lists
  <1>2. /\ s \o t \in Seq(S \cup T) /\ DOMAIN (s \o t) = 1 .. Len(s) + Len(t)
        /\ Len(s) \in Nat /\ Len(t) \in Nat /\ DOMAIN s = 1 .. Len(s) /\ DOMAIN t = 1 .. Len(t)
        /\ \A i \in 1 .. Len(s) : (s \o t)[i] = s[i] /\ s[i] \in S
        /\ \A i \in 1 .. Len(s) + Len(t) :
             i > Len(s) => /\ i - Len(s) \in 1 .. Len(t) /\ (s \o t)[i] = t[i - Len(s)]
                           /\ t[i - Len(s)] \in T
    BY <1>1
  <1> DEFINE u == s \o t
  <1> HIDE DEF u
  <1>3. ASSUME NEW i \in DOMAIN u, NEW j \in DOMAIN u, u[i] = u[j]
        PROVE  i = j
    <2>1. i \in 1 .. Len(s) + Len(t) /\ j \in 1 .. Len(s) + Len(t)
      BY <1>2 DEF u
    <2>2. CASE i <= Len(s) /\ j <= Len(s)
      <3>1. i \in 1 .. Len(s) /\ j \in 1 .. Len(s)
        BY <1>2, <2>1, <2>2
      <3>2. s[i] = s[j]
        BY <1>2, <1>3, <3>1 DEF u
      <3> QED
        BY <1>2, <3>1, <3>2 DEF Lists
    <2>3. CASE i > Len(s) /\ j > Len(s)
      <3>1. /\ i - Len(s) \in 1 .. Len(t) /\ j - Len(s) \in 1 .. Len(t)
            /\ t[i - Len(s)] = t[j - Len(s)]
        BY <1>2, <1>3, <2>1, <2>3 DEF u
      <3>2. i - Len(s) = j - Len(s)
        BY <1>2, <3>1 DEF Lists
      <3> QED
        BY <1>2, <2>1, <3>2
    <2>4. CASE i <= Len(s) /\ j > Len(s)
      <3>1. i \in 1 .. Len(s)
        BY <1>2, <2>1, <2>4
      <3>2. u[i] \in S /\ u[j] \in T
        BY <1>2, <2>1, <2>4, <3>1 DEF u
      <3> QED
        BY <1>3, <3>2
    <2>5. CASE i > Len(s) /\ j <= Len(s)
      <3>1. j \in 1 .. Len(s)
        BY <1>2, <2>1, <2>5
      <3>2. u[i] \in T /\ u[j] \in S
        BY <1>2, <2>1, <2>5, <3>1 DEF u
      <3> QED
        BY <1>3, <3>2
    <2> QED
      BY <1>2, <2>1, <2>2, <2>3, <2>4, <2>5
  <1>4. ToSet(u) = S \cup T
    <2>1. ASSUME NEW x \in S
          PROVE  x \in ToSet(u)
      <3>1. PICK i \in DOMAIN s : s[i] = x
        BY DEF Lists, ToSet
      <3>2. i \in DOMAIN u /\ u[i] = x
        BY <1>2, <3>1 DEF u
      <3> QED
        BY <3>2 DEF ToSet
    <2>2. ASSUME NEW x \in T
          PROVE  x \in ToSet(u)
      <3>1. PICK i \in DOMAIN t : t[i] = x
        BY DEF Lists, ToSet
      <3>2. Len(s) + i \in 1 .. Len(s) + Len(t) /\ Len(s) + i > Len(s) /\ (Len(s) + i) - Len(s) = i
        BY <1>2
      <3>3. Len(s) + i \in DOMAIN u /\ u[Len(s) + i] = x
        BY <1>2, <3>1, <3>2 DEF u
      <3> QED
        BY <3>3 DEF ToSet
    <2>3. \A i \in DOMAIN u : u[i] \in S \cup T
      BY <1>2 DEF u
    <2> QED
      BY <2>1, <2>2, <2>3 DEF ToSet
  <1> QED
    BY <1>2, <1>3, <1>4 DEF Lists, u

(* The place of a name that is listed once. *)
LEMMA PlaceListed ==
  ASSUME NEW S, NEW s, Lists(s, S), NEW i \in DOMAIN s
  PROVE  Place(s, s[i]) = i
  BY DEF Lists, Place

-----------------------------------------------------------------------------
(* What a scan has told *)

LEMMA TwoDots == Cardinality(Dots) = 2
  <1>1. Dots = {"."} \cup {".."} /\ ".." \notin {"."}
    BY DEF Dots
  <1>2. IsFiniteSet({"."}) /\ Cardinality({"."}) = 1
    BY FS_Singleton
  <1>3. Cardinality({"."} \cup {".."}) = 1 + 1
    BY <1>1, <1>2, FS_AddElement
  <1> QED
    BY <1>1, <1>3

(* How many names of the listing are before the offset. *)
Passed(offset) == IF offset = 0 THEN 0 ELSE offset - Cardinality(Dots)

Handles ==
  [ino : Inodes, same : BOOLEAN, named : BOOLEAN, listing : Seq(Names), hashed : BOOLEAN,
   offset : Nat, ended : BOOLEAN, told : SUBSET Names, stayed : SUBSET Names,
   displaced : SUBSET Names, again : SUBSET Names]

(* The listing has each name once.  A name before the offset that was      *)
(* there throughout has been told, and one behind it has not, except for   *)
(* those that a change displaced.                                          *)
Scanned(o) ==
  /\ Lists(o.listing, ToSet(o.listing))
  /\ o.offset # 1
  /\ o.told \cup o.stayed \subseteq ToSet(o.listing)
  /\ \A i \in DOMAIN o.listing :
       IF i <= Passed(o.offset)
       THEN o.listing[i] \in o.stayed => o.listing[i] \in o.told \cup o.displaced
       ELSE o.listing[i] \in o.told => o.listing[i] \in o.displaced
  /\ o.ended => Len(o.listing) <= Passed(o.offset)
  /\ o.again = {}

ScanInv ==
  open # NotOpen =>
    /\ open \in Handles
    /\ open.same => Scanned(open) /\ ToSet(open.listing) = NamesIn(inodes, open.ino)
    /\ ~open.same => open.stayed = {} /\ open.again = {}

LEMMA NamesInNames ==
  ASSUME NEW tab \in Tables, NEW ino \in Inodes
  PROVE  NamesIn(tab, ino) \in SUBSET Names
  BY TableFacts DEF NamesIn

LEMMA OrderListed == Order \in Seq(Names) /\ ToSet(Order) = Names
  BY OrderAssumption

(* A change of the directory under a scan.  It rearranges what is listed,  *)
(* and displaces just the names that it takes across the offset, or may.   *)
LEMMA RelistedScanned ==
  ASSUME NEW o \in Handles, Scanned(o), ~o.ended,
         NEW gone, NEW come \in SUBSET Names, come \cap (ToSet(o.listing) \ gone) = {}
  PROVE  LET r == Relisted(o, gone, come) IN
         /\ r \in Handles /\ r.ino = o.ino /\ r.same = o.same
         /\ Scanned(r)
         /\ ToSet(r.listing) = (ToSet(o.listing) \ gone) \cup come
  <1> DEFINE old == o.listing
             stay == ToSet(old) \ gone
             left == Arranged(stay, old)
             hashed == (o.hashed /\ left # << >>) \/ Len(left) + Cardinality(come) > EmbedNames
             names == ToSet(left) \cup come
             new == IF hashed THEN SortedNames(names) ELSE left \o SortedNames(come)
             moved == {n \in ToSet(left) : IF n \in o.told THEN Place(new, n) > Place(old, n)
                                                          ELSE Place(new, n) < Place(old, n)}
             told == o.told \ gone
             stayed == o.stayed \ gone
             displaced == (o.displaced \ gone) \cup moved
             r == Relisted(o, gone, come)
  <1>1. r = [o EXCEPT !.listing = new, !.hashed = hashed, !.told = told, !.stayed = stayed,
                      !.again = o.again \ gone, !.displaced = displaced]
    BY DEF Relisted
  <1>2. old \in Seq(Names) /\ ToSet(old) \in SUBSET Names /\ stay \in SUBSET Names
    BY DEF Handles, ToSet
  <1>3. Lists(left, stay)
    BY <1>2, ArrangedLists
  <1>4. ToSet(left) = stay
    BY <1>3 DEF Lists
  <1>5. Lists(new, stay \cup come)
    <2>1. names = stay \cup come
      BY <1>4
    <2>2. Lists(SortedNames(stay \cup come), stay \cup come)
      BY <1>2, ArrangedLists, OrderListed DEF SortedNames
    <2>3. Lists(SortedNames(come), come)
      BY ArrangedLists, OrderListed DEF SortedNames
    <2>4. stay \cap come = {}
      OBVIOUS
    <2> HIDE DEF left, hashed, stay
    <2>5. Lists(left \o SortedNames(come), stay \cup come)
      BY <1>3, <2>3, <2>4, ConcatLists
    <2> QED
      BY <2>1, <2>2, <2>5
  <1>6. hashed \in BOOLEAN
    OBVIOUS
  <1>7. moved \in SUBSET stay
    BY <1>4
  <1>8. \A n \in stay : n \in moved <=> IF n \in o.told THEN Place(new, n) > Place(old, n)
                                                       ELSE Place(new, n) < Place(old, n)
    BY <1>4
  <1> HIDE DEF left, hashed, names, new, moved, r
  <1>9. new \in Seq(Names) /\ ToSet(new) = stay \cup come
    BY <1>2, <1>5 DEF Lists
  <1>10. /\ r \in Handles /\ r.ino = o.ino /\ r.same = o.same /\ r.listing = new
         /\ r.told = told /\ r.stayed = stayed /\ r.displaced = displaced
         /\ r.again = o.again \ gone /\ r.offset = o.offset /\ r.ended = o.ended
    BY <1>1, <1>2, <1>6, <1>7, <1>9 DEF Handles
  <1>11. ASSUME NEW i \in DOMAIN new
         PROVE  IF i <= Passed(o.offset)
                THEN new[i] \in stayed => new[i] \in told \cup displaced
                ELSE new[i] \in told => new[i] \in displaced
    <2> DEFINE n == new[i]
               k == Passed(o.offset)
    <2>1. n \in stay \cup come
      BY <1>9 DEF ToSet
    <2>2. CASE n \notin stay
      <3>1. n \notin told /\ n \notin stayed
        BY <2>2 DEF Scanned
      <3> QED
        BY <3>1
    <2>3. CASE n \in stay
      <3>1. PICK j \in DOMAIN old : old[j] = n
        BY <2>3 DEF ToSet
      <3>2. Place(old, n) = j
        BY <3>1, PlaceListed DEF Scanned
      <3>3. Place(new, n) = i
        BY <1>5, PlaceListed
      <3>4. i \in Nat /\ j \in Nat /\ k \in Int
        <4>1. DOMAIN new = 1 .. Len(new) /\ DOMAIN old = 1 .. Len(old) /\ Len(new) \in Nat /\ Len(old) \in Nat
          BY <1>2, <1>9
        <4>2. o.offset \in Nat
          BY DEF Handles
        <4> QED
          BY <4>1, <4>2, TwoDots DEF Passed
      <3>5. IF j <= k THEN n \in o.stayed => n \in o.told \cup o.displaced
            ELSE n \in o.told => n \in o.displaced
        BY <3>1 DEF Scanned
      <3>6. n \in moved <=> IF n \in o.told THEN i > j ELSE i < j
        BY <1>8, <2>3, <3>2, <3>3
      <3> HIDE DEF k, n
      <3>7. IF i <= k THEN n \in o.stayed => n \in o.told \cup o.displaced \cup moved
            ELSE n \in o.told => n \in o.displaced \cup moved
        BY <3>4, <3>5, <3>6
      <3>8. n \notin gone
        BY <2>3
      <3> QED
        BY <3>7, <3>8 DEF k, n
    <2> QED
      BY <2>2, <2>3
  <1>12. Scanned(r)
    <2>1. told \cup stayed \subseteq ToSet(new)
      BY <1>9 DEF Scanned
    <2>2. o.offset # 1 /\ o.again = {}
      BY DEF Scanned
    <2>3. Lists(new, ToSet(new))
      BY <1>5, <1>9
    <2> QED
      BY <1>10, <1>11, <2>1, <2>2, <2>3 DEF Scanned
  <1> QED
    BY <1>9, <1>10, <1>12 DEF r

(* A scan follows each change of the inode table.                          *)
LEMMA FollowedScanned ==
  ASSUME Sound(inodes), Sound(inodes'), ScanInv, open' = Followed
  PROVE  ScanInv'
  <1>1. CASE open = NotOpen \/ open.ended
    <2>1. open' = NotOpen
      BY <1>1 DEF Followed
    <2> QED
      BY <2>1 DEF ScanInv
  <1>2. CASE ~(open = NotOpen \/ open.ended)
    <2> DEFINE ino == open.ino
               named == open.named /\ Named(inodes', ino)
               old == NamesIn(inodes, ino)
               new == NamesIn(inodes', ino)
               kept == {n \in old \cap new : inodes[ino].entries[n] = inodes'[ino].entries[n]}
    <2>1. /\ open \in Handles /\ ~open.ended
          /\ open.same => Scanned(open) /\ ToSet(open.listing) = old
      BY <1>2 DEF ScanInv
    <2>2. ino \in Inodes /\ open.same \in BOOLEAN /\ open.named \in BOOLEAN
      BY <2>1 DEF Handles
    <2>3. CASE ~open.same \/ inodes'[ino].kind # inodes[ino].kind
      <3>1. open' = Gone(ino, named)
        BY <1>2, <2>3 DEF Followed
      <3>2. << >> \in Seq(Names) /\ ToSet(<< >>) = {} /\ named \in BOOLEAN
        BY DEF ToSet
      <3> HIDE DEF named, ino
      <3> DEFINE none == << >>
      <3> HIDE DEF none
      <3>3. open' = [ino |-> ino, same |-> FALSE, named |-> named, listing |-> none,
                     hashed |-> FALSE, offset |-> 0, ended |-> FALSE, told |-> {},
                     stayed |-> {}, displaced |-> {}, again |-> {}]
        BY <3>1, <3>2 DEF Gone, Opened, none
      <3>4. none \in Seq(Names)
        BY DEF none
      <3>5. open' \in Handles
        BY <2>2, <3>2, <3>3, <3>4 DEF Handles
      <3>6. ~open'.same /\ open'.stayed = {} /\ open'.again = {}
        BY <3>3
      <3> QED
        BY <3>5, <3>6 DEF ScanInv
    <2>4. CASE ~(~open.same \/ inodes'[ino].kind # inodes[ino].kind)
      <3>1. open' = [Relisted(open, old \ kept, new \ kept) EXCEPT !.named = named]
        BY <1>2, <2>4 DEF Followed
      <3>2. /\ old \in SUBSET Names /\ new \in SUBSET Names
        BY <2>2, NamesInNames DEF Sound
      <3>3. kept \subseteq old /\ kept \subseteq new
        OBVIOUS
      <3> DEFINE r == Relisted(open, old \ kept, new \ kept)
      <3>4. named \in BOOLEAN
        OBVIOUS
      <3> HIDE DEF old, new, kept, named
      <3>5. /\ r \in Handles /\ r.ino = ino /\ r.same = open.same /\ Scanned(r)
            /\ ToSet(r.listing) = (ToSet(open.listing) \ (old \ kept)) \cup (new \ kept)
        BY <2>1, <2>4, <3>2, <3>3, RelistedScanned
      <3>6. ToSet(r.listing) = new
        BY <2>1, <2>4, <3>3, <3>5
      <3> HIDE DEF r
      <3>7. /\ open' \in Handles /\ open'.ino = ino /\ open'.same = r.same
            /\ open'.listing = r.listing /\ open'.offset = r.offset /\ open'.told = r.told
            /\ open'.stayed = r.stayed /\ open'.displaced = r.displaced
            /\ open'.ended = r.ended /\ open'.again = r.again
        BY <3>1, <3>4, <3>5 DEF Handles, r
      <3>8. Scanned(open')
        BY <3>5, <3>7 DEF Scanned
      <3> QED
        BY <2>4, <3>5, <3>6, <3>7, <3>8 DEF ScanInv, new
    <2> QED
      BY <2>3, <2>4
  <1> QED
    BY <1>1, <1>2

(* One reply of readdir. *)
LEMMA ReaddirScanned ==
  ASSUME ScanInv, Readdir
  PROVE  ScanInv'
  <1>1. /\ open # NotOpen /\ open \in Handles /\ open.same /\ ~open.ended
        /\ Scanned(open) /\ ToSet(open.listing) = NamesIn(inodes, open.ino) /\ inodes' = inodes
    BY DEF Readdir, Scanning, ScanInv
  <1> DEFINE L == open.listing
             i == Index(open.offset)
  <1>2. open.offset \in Nat /\ open.offset # 1 /\ L \in Seq(Names) /\ i = open.offset - 1
    BY <1>1, TwoDots DEF Handles, Scanned, Index
  <1>3. Len(L) \in Nat /\ DOMAIN L = 1 .. Len(L)
    BY <1>2
  <1>4. SUFFICES open' \in Handles /\ open'.ino = open.ino /\ open'.same /\ open'.listing = L /\ Scanned(open')
    BY <1>1, <1>4 DEF ScanInv, NamesIn
  <1>5. CASE open.offset = 0
    <2>1. open' = [open EXCEPT !.offset = Cardinality(Dots)]
      BY <1>5 DEF Readdir
    <2>2. /\ open' \in Handles /\ open'.ino = open.ino /\ open'.same = open.same /\ open'.listing = L
          /\ open'.offset = 2 /\ open'.told = open.told /\ open'.stayed = open.stayed
          /\ open'.displaced = open.displaced /\ open'.ended = open.ended /\ open'.again = open.again
      <3>1. open' = [open EXCEPT !.offset = 2]
        BY <2>1, TwoDots
      <3>2. open \in Handles
        BY <1>1
      <3>3. open' \in Handles
        BY <3>1, <3>2 DEF Handles
      <3> QED
        BY <3>1, <3>2, <3>3 DEF Handles
    <2>3. Passed(2) = 0 /\ Passed(0) = 0
      BY TwoDots DEF Passed
    <2> QED
      BY <1>1, <1>5, <2>2, <2>3 DEF Scanned
  <1>6. CASE open.offset # 0 /\ i > Len(L)
    <2>1. open' = [open EXCEPT !.ended = TRUE]
      BY <1>6 DEF Readdir
    <2>2. /\ open' \in Handles /\ open'.ino = open.ino /\ open'.same = open.same /\ open'.listing = L
          /\ open'.offset = open.offset /\ open'.told = open.told /\ open'.stayed = open.stayed
          /\ open'.displaced = open.displaced /\ open'.ended /\ open'.again = open.again
      BY <1>1, <2>1 DEF Handles
    <2>3. Len(L) <= Passed(open.offset)
      BY <1>2, <1>3, <1>6, TwoDots DEF Passed
    <2> QED
      BY <1>1, <2>2, <2>3 DEF Scanned
  <1>7. CASE open.offset # 0 /\ ~(i > Len(L))
    <2> DEFINE n == L[i]
    <2>1. open' = [Told(n) EXCEPT !.offset = @ + 1]
      BY <1>7 DEF Readdir
    <2>2. i \in DOMAIN L /\ Passed(open.offset) = i - 1 /\ Passed(open.offset + 1) = i
      BY <1>2, <1>3, <1>7, TwoDots DEF Passed
    <2>3. n \in Names
      BY <1>2, <2>2
    <2>4. n \in open.told => n \in open.displaced
      <3>1. i \in Int /\ ~(i <= i - 1)
        BY <1>2
      <3> QED
        BY <1>1, <2>2, <3>1 DEF Scanned
    <2>5. open.again \cup ({n} \cap (open.told \ open.displaced)) = {}
      BY <1>1, <2>4 DEF Scanned
    <2>6. /\ open' \in Handles /\ open'.ino = open.ino /\ open'.same = open.same /\ open'.listing = L
          /\ open'.offset = open.offset + 1 /\ open'.told = open.told \cup {n}
          /\ open'.stayed = open.stayed /\ open'.displaced = open.displaced \ {n}
          /\ open'.ended = open.ended
          /\ open'.again = open.again \cup ({n} \cap (open.told \ open.displaced))
      <3> DEFINE told == open.told \cup {n}
                 displaced == open.displaced \ {n}
                 again == open.again \cup ({n} \cap (open.told \ open.displaced))
                 next == open.offset + 1
      <3>1. open' = [open EXCEPT !.told = told, !.displaced = displaced, !.again = again, !.offset = next]
        BY <1>1, <2>1 DEF Told, Handles
      <3>2. open \in Handles
        BY <1>1
      <3>3. told \in SUBSET Names /\ displaced \in SUBSET Names /\ again \in SUBSET Names /\ next \in Nat
        BY <2>3, <3>2 DEF Handles
      <3> HIDE DEF told, displaced, again, next, n
      <3>4. open' \in Handles
        BY <3>1, <3>2, <3>3 DEF Handles
      <3>5. /\ open'.ino = open.ino /\ open'.same = open.same /\ open'.listing = L
            /\ open'.offset = next /\ open'.told = told /\ open'.stayed = open.stayed
            /\ open'.displaced = displaced /\ open'.ended = open.ended /\ open'.again = again
        BY <3>1, <3>2 DEF Handles
      <3> QED
        BY <3>4, <3>5 DEF told, displaced, again, next
    <2>7. ASSUME NEW j \in DOMAIN L
          PROVE  IF j <= i THEN L[j] \in open'.stayed => L[j] \in open'.told \cup open'.displaced
                 ELSE L[j] \in open'.told => L[j] \in open'.displaced
      <3>1. CASE j = i
        <4>1. L[j] \in open'.told /\ j <= i
          BY <1>2, <2>6, <3>1
        <4> QED
          BY <4>1
      <3>2. CASE j # i
        <4>1. L[j] # n
          BY <1>1, <2>2, <3>2 DEF Scanned, Lists
        <4>2. IF j <= i - 1 THEN L[j] \in open.stayed => L[j] \in open.told \cup open.displaced
              ELSE L[j] \in open.told => L[j] \in open.displaced
          BY <1>1, <2>2 DEF Scanned
        <4>3. j <= i <=> j <= i - 1
          BY <1>2, <1>3, <3>2
        <4> QED
          BY <2>6, <4>1, <4>2, <4>3
      <3> QED
        BY <3>1, <3>2
    <2>8. n \in ToSet(L)
      BY <2>2 DEF ToSet
    <2> HIDE DEF n, i
    <2>9. Scanned(open')
      BY <1>1, <1>2, <2>2, <2>5, <2>6, <2>7, <2>8 DEF Scanned
    <2> QED
      BY <1>1, <2>6, <2>9
  <1> QED
    BY <1>5, <1>6, <1>7

(* A scan starts with nothing told. *)
LEMMA OpenScanned ==
  ASSUME Sound(inodes), NEW ino \in Inodes, Open(ino)
  PROVE  ScanInv'
  <1> DEFINE names == NamesIn(inodes, ino)
  <1>1. names \in SUBSET Names
    BY NamesInNames DEF Sound
  <1>2. PICK s, hashed : /\ open' = Opened(ino, s, hashed) /\ inodes' = inodes
                         /\ Lists(s, names) /\ hashed \in BOOLEAN
    <2>1. ASSUME NEW s \in SetToSeqs(names)
          PROVE  Lists(s, names)
      BY <1>1, SequencesList
    <2>2. Lists(SortedNames(names), names)
      BY <1>1, ArrangedLists, OrderListed DEF SortedNames
    <2> QED
      BY <2>1, <2>2 DEF Open
  <1>3. s \in Seq(Names) /\ ToSet(s) = names
    BY <1>1, <1>2 DEF Lists
  <1> HIDE DEF names
  <1>4. open' \in Handles
    BY <1>1, <1>2, <1>3 DEF Opened, Handles
  <1>5. /\ open'.ino = ino /\ open'.listing = s /\ open'.offset = 0 /\ open'.told = {}
        /\ open'.stayed = names /\ open'.ended = FALSE /\ open'.again = {} /\ open'.same
    BY <1>2, <1>3 DEF Opened
  <1>6. \A i \in DOMAIN s : ~(i <= Passed(0))
    BY <1>3 DEF Passed
  <1>7. Scanned(open')
    BY <1>2, <1>3, <1>5, <1>6 DEF Scanned
  <1> QED
    BY <1>2, <1>3, <1>4, <1>5, <1>7 DEF ScanInv, names, NamesIn

(* Every step keeps ScanInv; a call of the library finds nothing open.     *)
LEMMA ScanStep ==
  ASSUME MountInv, MountInv', ScanInv, [MountNext]_mountVars
  PROVE  ScanInv'
  <1>0. Sound(inodes) /\ Sound(inodes')
    BY DEF MountInv
  <1>1. CASE Call
    BY <1>1 DEF Call, MountInv, ScanInv
  <1>2. CASE Change
    BY <1>0, <1>2, FollowedScanned DEF Change
  <1>3. ASSUME NEW ino \in Inodes, Open(ino)
        PROVE  ScanInv'
    BY <1>0, <1>3, OpenScanned
  <1>4. CASE Close
    BY <1>4 DEF Close, ScanInv
  <1>5. CASE Readdir
    BY <1>5, ReaddirScanned
  <1>6. CASE UNCHANGED mountVars
    BY <1>6 DEF mountVars, ScanInv, NamesIn
  <1> QED
    BY <1>1, <1>2, <1>3, <1>4, <1>5, <1>6 DEF MountNext

LEMMA ScanInvariance == MountSpec => []ScanInv
  <1>1. MountInit => ScanInv
    BY DEF MountInit, ScanInv
  <1>2. MountInv /\ MountInv' /\ ScanInv /\ [MountNext]_mountVars => ScanInv'
    BY ScanStep
  <1> QED
    BY <1>1, <1>2, MountInvariance, PTL DEF MountSpec

(* readdir of the mount is called again and again with an offset into a    *)
(* listing that is read anew each time.  Whatever is made, removed and     *)
(* renamed in between, a name that was there throughout is missed, or told *)
(* twice, only if a change of the directory shifted it over the offset.    *)
THEOREM ScansSound == MountSpec => []ScanSound
  <1>1. ScanInv => ScanSound
    <2> SUFFICES ASSUME ScanInv, open # NotOpen
                 PROVE  /\ open.ended => open.stayed \ open.told \subseteq open.displaced
                        /\ open.again = {}
      BY DEF ScanSound
    <2>1. open \in Handles
      BY DEF ScanInv
    <2>2. CASE ~open.same
      BY <2>2 DEF ScanInv
    <2>3. CASE open.same
      <3>1. Scanned(open)
        BY <2>3 DEF ScanInv
      <3>2. ASSUME open.ended, NEW n \in open.stayed, n \notin open.told
            PROVE  n \in open.displaced
        <4>1. PICK i \in DOMAIN open.listing : open.listing[i] = n
          BY <3>1, <3>2 DEF Scanned, ToSet
        <4>2. /\ DOMAIN open.listing = 1 .. Len(open.listing) /\ Len(open.listing) \in Nat
              /\ open.offset \in Nat
          BY <2>1 DEF Handles
        <4>3. Passed(open.offset) \in Int
          BY <4>2, TwoDots DEF Passed
        <4>4. i <= Passed(open.offset)
          BY <3>1, <3>2, <4>2, <4>3 DEF Scanned
        <4> QED
          BY <3>1, <3>2, <4>1, <4>4 DEF Scanned
      <3> QED
        BY <3>1, <3>2 DEF Scanned
    <2> QED
      BY <2>2, <2>3
  <1> QED
    BY <1>1, ScanInvariance, PTL
=============================================================================
