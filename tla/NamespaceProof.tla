--------------------------- MODULE NamespaceProof ---------------------------
(***************************************************************************)
(* Proofs about Namespace, for every finite set of inodes and names: the   *)
(* table stays typed, an entry never lies about what it names, link counts *)
(* are what fsck counts, a directory has one name and the kernel's inode   *)
(* keeps one.                                                              *)
(*                                                                         *)
(* None is inductive alone.  A count can be taken down only because it     *)
(* counts the entry that goes; a directory goes with its only name because *)
(* it has one and no inode names it when it is given up; and mknod may use *)
(* a free inode because no entry names it, as its count would not be zero. *)
(* Sound is their conjunction.  Each handler's effect on the tables is     *)
(* stated once (the lemmas named Facts), and then each part of Sound       *)
(* follows from it for the table the handler leaves (the lemmas named      *)
(* Sound).                                                                 *)
(***************************************************************************)
EXTENDS Namespace, FiniteSetTheorems, TLAPS

-----------------------------------------------------------------------------
(* The inductive invariant                                                 *)

(* What the inode table may be.                                            *)
Tables == [Inodes -> {Free} \cup InUse]

(* An entry's type is that of the inode it names (EntriesSound, entry by   *)
(* entry).                                                                 *)
EntriesTyped(tab) ==
  \A d \in Inodes, n \in Names :
    Has(tab, d, n) => tab[tab[d].entries[n].ino].kind = tab[d].entries[n].ftype

(* The names of d's subdirectories, which count for its links.             *)
Subdirs(tab, d) == {n \in Names : Has(tab, d, n) /\ tab[d].entries[n].ftype = "dir"}

(* nlink is what fsck counts: a file's names, a directory's                *)
(* subdirectories, its "." and the name it has.                            *)
LinkCounts(tab) ==
  \A i \in Inodes :
    /\ tab[i].kind = "file" => tab[i].nlink = Cardinality(LinksTo(tab, i))
    /\ tab[i].kind = "dir" => tab[i].nlink = 2 + Cardinality(Subdirs(tab, i))

(* The root has no name, every other directory exactly one.                *)
NamedOnce(tab) ==
  /\ IsDir(tab, Root)
  /\ LinksTo(tab, Root) = {}
  /\ \A i \in Inodes \ {Root} : IsDir(tab, i) => \E l \in LinksTo(tab, i) : LinksTo(tab, i) = {l}

(* The inductive invariant.                                                *)
Sound(tab) ==
  /\ tab \in Tables
  /\ EntriesTyped(tab)
  /\ LinkCounts(tab)
  /\ NamedOnce(tab)

-----------------------------------------------------------------------------
(* Lemmas on the tables and on the helpers of the handlers                 *)

(* A slot of the table is free or in use, by its kind.                     *)
LEMMA TableFacts ==
  ASSUME NEW tab \in Tables, NEW i \in Inodes
  PROVE  /\ tab[i] = Free \/ tab[i] \in InUse
         /\ tab[i].kind = "free" <=> tab[i] = Free
         /\ tab[i].kind \in {"free", "file", "dir"}
         /\ tab[i].nlink \in Nat
         /\ tab[i].immutable \in BOOLEAN
         /\ DOMAIN tab[i].entries \subseteq Names
         /\ \A n \in DOMAIN tab[i].entries : tab[i].entries[n] \in EntrySet
         /\ tab[i].kind # "free" => tab[i] \in InUse /\ tab[i].nlink # 0
  <1>1. tab[i] = Free \/ tab[i] \in InUse
    BY DEF Tables
  <1>2. CASE tab[i] = Free
    BY <1>2 DEF Free, NoEntries, InUse
  <1>3. CASE tab[i] \in InUse
    BY <1>3 DEF Free, InUse
  <1> QED
    BY <1>1, <1>2, <1>3

(* The entries of an inode are those of InUse whatever set of names they   *)
(* have.                                                                   *)
LEMMA InUseEntries ==
  ASSUME NEW S \in SUBSET Names, NEW f \in [S -> EntrySet]
  PROVE  f \in UNION {[T -> EntrySet] : T \in SUBSET Names}
  OBVIOUS

(* Links and subdirectories can be counted.                                *)
LEMMA LinksFinite ==
  ASSUME NEW tab, NEW i
  PROVE  IsFiniteSet(LinksTo(tab, i)) /\ IsFiniteSet(Subdirs(tab, i))
         /\ Cardinality(LinksTo(tab, i)) \in Nat /\ Cardinality(Subdirs(tab, i)) \in Nat
  <1>1. IsFiniteSet(Inodes \X Names)
    BY InodesAssumption, NamesAssumption, FS_Product
  <1>2. LinksTo(tab, i) \subseteq Inodes \X Names /\ Subdirs(tab, i) \subseteq Names
    BY DEF LinksTo, Subdirs
  <1> QED
    BY <1>1, <1>2, FS_Subset, FS_CardinalityType, NamesAssumption

(* A new entry. *)
LEMMA InsertFacts ==
  ASSUME NEW tab \in Tables, NEW d \in Inodes, NEW n \in Names, NEW e \in EntrySet,
         IsDir(tab, d)
  PROVE  LET new == DirInsert(tab, d, n, e) IN
         /\ new \in Tables
         /\ \A i \in Inodes : /\ new[i].kind = tab[i].kind
                              /\ new[i].nlink = tab[i].nlink
                              /\ new[i].immutable = tab[i].immutable
         /\ \A i \in Inodes \ {d} : new[i] = tab[i]
         /\ DOMAIN new[d].entries = DOMAIN tab[d].entries \cup {n}
         /\ new[d].entries[n] = e
         /\ \A m \in DOMAIN tab[d].entries \ {n} : new[d].entries[m] = tab[d].entries[m]
  <1> DEFINE new == DirInsert(tab, d, n, e)
             ents == [m \in DOMAIN tab[d].entries \cup {n} |-> IF m = n THEN e ELSE tab[d].entries[m]]
  <1>1. tab[d] \in InUse
    BY TableFacts DEF IsDir
  <1>2. ents \in UNION {[T -> EntrySet] : T \in SUBSET Names}
    <2>1. DOMAIN tab[d].entries \cup {n} \in SUBSET Names
      BY TableFacts
    <2>2. ents \in [DOMAIN tab[d].entries \cup {n} -> EntrySet]
      BY TableFacts
    <2> QED
      BY <2>1, <2>2
  <1> HIDE DEF ents
  <1>3. new = [tab EXCEPT ![d] = [@ EXCEPT !.entries = ents]]
    BY DEF DirInsert, ents
  <1>4. [tab[d] EXCEPT !.entries = ents] \in InUse
    BY <1>1, <1>2 DEF InUse
  <1>5. new \in Tables /\ new[d] = [tab[d] EXCEPT !.entries = ents] /\ \A i \in Inodes \ {d} : new[i] = tab[i]
    BY <1>3, <1>4 DEF Tables
  <1>6. /\ new[d].kind = tab[d].kind
        /\ new[d].nlink = tab[d].nlink
        /\ new[d].immutable = tab[d].immutable
        /\ new[d].entries = ents
    BY <1>5, <1>1 DEF InUse
  <1> HIDE DEF new
  <1> QED
    BY <1>5, <1>6 DEF ents, new

(* A removed entry. *)
LEMMA RemoveFacts ==
  ASSUME NEW tab \in Tables, NEW d \in Inodes, NEW n \in Names, IsDir(tab, d)
  PROVE  LET new == DirRemove(tab, d, n) IN
         /\ new \in Tables
         /\ \A i \in Inodes : /\ new[i].kind = tab[i].kind
                              /\ new[i].nlink = tab[i].nlink
                              /\ new[i].immutable = tab[i].immutable
         /\ \A i \in Inodes \ {d} : new[i] = tab[i]
         /\ DOMAIN new[d].entries = DOMAIN tab[d].entries \ {n}
         /\ \A m \in DOMAIN tab[d].entries \ {n} : new[d].entries[m] = tab[d].entries[m]
  <1> DEFINE new == DirRemove(tab, d, n)
             ents == [m \in DOMAIN tab[d].entries \ {n} |-> tab[d].entries[m]]
  <1>1. tab[d] \in InUse
    BY TableFacts DEF IsDir
  <1>2. ents \in UNION {[T -> EntrySet] : T \in SUBSET Names}
    <2>1. DOMAIN tab[d].entries \ {n} \in SUBSET Names
      BY TableFacts
    <2>2. ents \in [DOMAIN tab[d].entries \ {n} -> EntrySet]
      BY TableFacts
    <2> QED
      BY <2>1, <2>2
  <1> HIDE DEF ents
  <1>3. new = [tab EXCEPT ![d] = [@ EXCEPT !.entries = ents]]
    BY DEF DirRemove, ents
  <1>4. [tab[d] EXCEPT !.entries = ents] \in InUse
    BY <1>1, <1>2 DEF InUse
  <1>5. new \in Tables /\ new[d] = [tab[d] EXCEPT !.entries = ents] /\ \A i \in Inodes \ {d} : new[i] = tab[i]
    BY <1>3, <1>4 DEF Tables
  <1>6. /\ new[d].kind = tab[d].kind
        /\ new[d].nlink = tab[d].nlink
        /\ new[d].immutable = tab[d].immutable
        /\ new[d].entries = ents
    BY <1>5, <1>1 DEF InUse
  <1> HIDE DEF new
  <1> QED
    BY <1>5, <1>6 DEF ents, new

(* A changed link count. *)
WithNlink(tab, i, k) == [tab EXCEPT ![i].nlink = k]
LEMMA NlinkFacts ==
  ASSUME NEW tab \in Tables, NEW i \in Inodes, tab[i].kind # "free", NEW k \in Nat \ {0}
  PROVE  LET new == WithNlink(tab, i, k) IN
         /\ new \in Tables
         /\ new[i].kind = tab[i].kind
         /\ new[i].nlink = k
         /\ new[i].immutable = tab[i].immutable
         /\ new[i].entries = tab[i].entries
         /\ \A j \in Inodes \ {i} : new[j] = tab[j]
  <1> DEFINE new == WithNlink(tab, i, k)
  <1>1. tab[i] \in InUse
    BY TableFacts
  <1>2. new = [tab EXCEPT ![i] = [@ EXCEPT !.nlink = k]]
    BY DEF WithNlink
  <1>3. [tab[i] EXCEPT !.nlink = k] \in InUse
    BY <1>1 DEF InUse
  <1>4. new \in Tables /\ new[i] = [tab[i] EXCEPT !.nlink = k] /\ \A j \in Inodes \ {i} : new[j] = tab[j]
    BY <1>2, <1>3 DEF Tables
  <1> HIDE DEF new
  <1> QED
    BY <1>1, <1>4 DEF InUse, new

(* An inode given up, or a free one taken. *)
WithSlot(tab, i, r) == [tab EXCEPT ![i] = r]
LEMMA SlotFacts ==
  ASSUME NEW tab \in Tables, NEW i \in Inodes, NEW r \in {Free} \cup InUse
  PROVE  LET new == WithSlot(tab, i, r) IN
         /\ new \in Tables
         /\ new[i] = r
         /\ \A j \in Inodes \ {i} : new[j] = tab[j]
  BY DEF Tables, WithSlot

(* What a table that is Sound says of an entry.                            *)
LEMMA EntryFacts ==
  ASSUME NEW tab, Sound(tab), NEW d \in Inodes, NEW n \in Names, Has(tab, d, n)
  PROVE  /\ IsDir(tab, d)
         /\ tab[d].entries[n] \in EntrySet
         /\ tab[d].entries[n].ino \in Inodes
         /\ tab[d].entries[n].ftype = tab[tab[d].entries[n].ino].kind
         /\ tab[tab[d].entries[n].ino].kind \in {"file", "dir"}
         /\ tab[d].entries[n].ino # Root
         /\ <<d, n>> \in LinksTo(tab, tab[d].entries[n].ino)
         /\ n \in Subdirs(tab, d) <=> tab[d].entries[n].ftype = "dir"
  <1>1. tab[d].entries[n] \in EntrySet
    BY TableFacts DEF Sound, Has
  <1>2. <<d, n>> \in LinksTo(tab, tab[d].entries[n].ino)
    BY DEF LinksTo
  <1> QED
    BY <1>1, <1>2 DEF Sound, Has, IsDir, EntrySet, EntriesTyped, NamedOnce, Subdirs

(* What the inode of a removed entry loses. *)
LEMMA ReleaseFacts ==
  ASSUME NEW tab, Sound(tab), NEW d \in Inodes, NEW n \in Names, Has(tab, d, n),
         LET ino == tab[d].entries[n].ino IN IsDir(tab, ino) => tab[ino].entries = NoEntries
  PROVE  LET ino == tab[d].entries[n].ino
             new == Release(tab, d, n)
         IN /\ new \in Tables
            /\ \A x \in Inodes, m \in Names :
                 /\ Has(new, x, m) <=> Has(tab, x, m) /\ <<x, m>> \notin {<<d, n>>}
                 /\ Has(new, x, m) => new[x].entries[m] = tab[x].entries[m]
            /\ \A i \in Inodes \ {ino} : /\ new[i].kind = tab[i].kind
                                         /\ new[i].immutable = tab[i].immutable
            /\ \A i \in Inodes \ {ino, d} : new[i] = tab[i]
            /\ \/ /\ tab[ino].kind = "file"
                  /\ new[d].nlink = tab[d].nlink
                  /\ \/ LinksTo(tab, ino) = {<<d, n>>} /\ new[ino] = Free
                     \/ /\ new[ino].kind = "file"
                        /\ new[ino].nlink + 1 = tab[ino].nlink
                        /\ new[ino].immutable = tab[ino].immutable
               \/ /\ tab[ino].kind = "dir"
                  /\ ino # d
                  /\ new[d].nlink + 1 = tab[d].nlink
                  /\ new[ino] = Free
                  /\ LinksTo(tab, ino) = {<<d, n>>}
  <1> DEFINE e == tab[d].entries[n]
             ino == e.ino
             u == IF IsDir(tab, ino) THEN RemoveDir(tab, d, ino) ELSE Unlink(tab, ino)
             new == Release(tab, d, n)
  <1>0. tab \in Tables
    BY DEF Sound
  <1>e. /\ IsDir(tab, d) /\ e \in EntrySet /\ ino \in Inodes /\ e.ftype = tab[ino].kind
        /\ tab[ino].kind \in {"file", "dir"} /\ <<d, n>> \in LinksTo(tab, ino)
        /\ ino # Root
        /\ n \in Subdirs(tab, d) <=> e.ftype = "dir"
    BY EntryFacts
  <1>r. new = DirRemove(u, d, n)
    BY DEF Release
  <1>n. DOMAIN NoEntries = {}
    BY DEF NoEntries
  <1>l. tab[ino].kind = "file" /\ tab[ino].nlink = 1 => LinksTo(tab, ino) = {<<d, n>>}
    BY <1>e, LinksFinite, FS_Singleton DEF Sound, LinkCounts
  <1> HIDE DEF ino, new
  <1>1. CASE IsDir(tab, ino)
    <2>1. tab[ino].entries = NoEntries
      BY <1>1 DEF ino
    <2>2. ino # d
      BY <2>1, <1>n DEF Has
    <2>3. tab[d].nlink = 2 + Cardinality(Subdirs(tab, d)) /\ Cardinality(Subdirs(tab, d)) \in Nat
      BY <1>e, LinksFinite DEF Sound, LinkCounts, IsDir
    <2>4. Minus1(tab[d].nlink) \in Nat \ {0} /\ Minus1(tab[d].nlink) + 1 = tab[d].nlink
      BY <2>3 DEF Minus1
    <2> DEFINE w == FreeInode(tab, ino)
    <2>5. /\ w \in Tables
          /\ w[ino] = Free
          /\ \A j \in Inodes \ {ino} : w[j] = tab[j]
      BY <1>0, <1>e, SlotFacts DEF FreeInode, WithSlot
    <2>6. u = WithNlink(w, d, Minus1(tab[d].nlink))
      BY <1>1, <2>5, <2>2 DEF RemoveDir, Tables, WithNlink
    <2>7. tab[d].kind = "dir" /\ w[d] = tab[d]
      BY <1>e, <2>2, <2>5 DEF IsDir
    <2> HIDE DEF u, w
    <2>8. /\ u \in Tables /\ u[d].kind = tab[d].kind /\ u[d].nlink = Minus1(tab[d].nlink)
          /\ u[d].immutable = tab[d].immutable
          /\ u[d].entries = tab[d].entries
          /\ u[ino] = Free
          /\ \A j \in Inodes \ {ino, d} : u[j] = tab[j]
      BY <2>2, <2>4, <2>5, <2>6, <2>7, <1>e, NlinkFacts
    <2>9. LinksTo(tab, ino) = {<<d, n>>}
      BY <1>1, <1>e DEF Sound, NamedOnce
    <2>10. IsDir(u, d)
      BY <2>7, <2>8 DEF IsDir
    <2>11. /\ new \in Tables
           /\ \A i \in Inodes : new[i].kind = u[i].kind /\ new[i].nlink = u[i].nlink /\ new[i].immutable = u[i].immutable
           /\ \A i \in Inodes \ {d} : new[i] = u[i]
           /\ DOMAIN new[d].entries = DOMAIN tab[d].entries \ {n}
           /\ \A m \in DOMAIN tab[d].entries \ {n} : new[d].entries[m] = tab[d].entries[m]
      BY <2>8, <2>10, <1>r, RemoveFacts
    <2>12. \A m : ~Has(tab, ino, m) /\ ~Has(new, ino, m)
      BY <1>e, <1>n, <2>1, <2>2, <2>8, <2>11 DEF Has, IsDir, Free
    <2>13. \A x \in Inodes, m \in Names :
             /\ Has(new, x, m) <=> Has(tab, x, m) /\ <<x, m>> \notin {<<d, n>>}
             /\ Has(new, x, m) => new[x].entries[m] = tab[x].entries[m]
      BY <2>12, <2>11, <2>8, <2>7 DEF Has, IsDir
    <2> QED
      BY <1>1, <1>e, <2>2, <2>4, <2>8, <2>9, <2>11, <2>13 DEF IsDir, ino, new
  <1>2. CASE ~IsDir(tab, ino)
    <2>1. tab[ino].kind = "file" /\ u = Unlink(tab, ino) /\ ino # d
      BY <1>2, <1>e DEF IsDir
    <2> HIDE DEF u
    <2>2. tab[ino].nlink \in Nat \ {0}
      BY <2>1, <1>0, <1>e, TableFacts
    <2>3. /\ u \in Tables
          /\ \A j \in Inodes \ {ino} : u[j] = tab[j]
          /\ \/ LinksTo(tab, ino) = {<<d, n>>} /\ u[ino] = Free
             \/ u[ino].kind = "file" /\ u[ino].nlink + 1 = tab[ino].nlink /\ u[ino].immutable = tab[ino].immutable
      <3>1. CASE tab[ino].nlink = 1
        <4>1. u = WithSlot(tab, ino, Free)
          BY <3>1, <2>1 DEF Unlink, FreeInode, Minus1, WithSlot
        <4>2. u \in Tables /\ u[ino] = Free /\ \A j \in Inodes \ {ino} : u[j] = tab[j]
          BY <4>1, <1>0, <1>e, SlotFacts
        <4>3. LinksTo(tab, ino) = {<<d, n>>}
          BY <3>1, <2>1, <1>l
        <4> QED
          BY <4>2, <4>3
      <3>2. CASE tab[ino].nlink # 1
        <4>1. Minus1(tab[ino].nlink) \in Nat \ {0} /\ Minus1(tab[ino].nlink) + 1 = tab[ino].nlink
          BY <3>2, <2>2 DEF Minus1
        <4>2. u = WithNlink(tab, ino, Minus1(tab[ino].nlink))
          BY <2>1, <4>1 DEF Unlink, WithNlink
        <4>3. tab[ino].kind # "free"
          BY <2>1
        <4>4. /\ u \in Tables /\ u[ino].kind = tab[ino].kind
              /\ u[ino].nlink = Minus1(tab[ino].nlink)
              /\ u[ino].immutable = tab[ino].immutable
              /\ \A j \in Inodes \ {ino} : u[j] = tab[j]
          BY <4>1, <4>2, <4>3, <1>0, <1>e, NlinkFacts
        <4> QED
          BY <4>1, <4>4, <2>1
      <3> QED
        BY <3>1, <3>2
    <2>10. IsDir(u, d)
      BY <2>1, <2>3, <1>e DEF IsDir
    <2>11. /\ new \in Tables
           /\ \A i \in Inodes : new[i].kind = u[i].kind /\ new[i].nlink = u[i].nlink /\ new[i].immutable = u[i].immutable
           /\ \A i \in Inodes \ {d} : new[i] = u[i]
           /\ DOMAIN new[d].entries = DOMAIN tab[d].entries \ {n}
           /\ \A m \in DOMAIN tab[d].entries \ {n} : new[d].entries[m] = tab[d].entries[m]
      BY <2>1, <2>3, <2>10, <1>r, RemoveFacts
    <2>12. \A m : ~Has(tab, ino, m) /\ ~Has(new, ino, m)
      BY <1>e, <2>1, <2>3, <2>11 DEF Has, IsDir, Free
    <2>13. \A x \in Inodes, m \in Names :
             /\ Has(new, x, m) <=> Has(tab, x, m) /\ <<x, m>> \notin {<<d, n>>}
             /\ Has(new, x, m) => new[x].entries[m] = tab[x].entries[m]
      BY <2>12, <2>11, <2>1, <2>3 DEF Has, IsDir
    <2>14. /\ \A i \in Inodes \ {ino} : /\ new[i].kind = tab[i].kind
                                        /\ new[i].immutable = tab[i].immutable
           /\ \A i \in Inodes \ {ino, d} : new[i] = tab[i]
           /\ new[d].nlink = tab[d].nlink
      BY <1>e, <2>1, <2>3, <2>11
    <2>15. \/ LinksTo(tab, ino) = {<<d, n>>} /\ new[ino] = Free
           \/ /\ new[ino].kind = "file"
              /\ new[ino].nlink + 1 = tab[ino].nlink
              /\ new[ino].immutable = tab[ino].immutable
      BY <1>e, <2>1, <2>3, <2>11
    <2> HIDE DEF e, ino, new
    <2>16. /\ tab[ino].kind = "file"
           /\ new[d].nlink = tab[d].nlink
           /\ \/ LinksTo(tab, ino) = {<<d, n>>} /\ new[ino] = Free
              \/ /\ new[ino].kind = "file"
                 /\ new[ino].nlink + 1 = tab[ino].nlink
                 /\ new[ino].immutable = tab[ino].immutable
      BY <2>1, <2>14, <2>15
    <2>17. new \in Tables
      BY <2>11
    <2> QED
      BY <2>13, <2>14, <2>16, <2>17 DEF ino, new, e
  <1> QED
    BY <1>1, <1>2

(* Gofs::remove_common leaves a sound table, whether it drops a link, a    *)
(* file or an empty directory.                                             *)
LEMMA ReleaseSound ==
  ASSUME NEW tab, Sound(tab), NEW d \in Inodes, NEW n \in Names, Has(tab, d, n),
         LET ino == tab[d].entries[n].ino IN IsDir(tab, ino) => tab[ino].entries = NoEntries
  PROVE  Sound(Release(tab, d, n))
  <1> DEFINE e == tab[d].entries[n]
             ino == e.ino
             new == Release(tab, d, n)
             gone == {<<d, n>>}
  <1>0. tab \in Tables
    BY DEF Sound
  <1>1. /\ tab[d].kind = "dir" /\ e \in EntrySet /\ ino \in Inodes /\ e.ftype = tab[ino].kind
        /\ tab[ino].kind \in {"file", "dir"} /\ <<d, n>> \in LinksTo(tab, ino) /\ ino # Root
        /\ n \in Subdirs(tab, d) <=> e.ftype = "dir"
    BY EntryFacts DEF IsDir
  <1>2. /\ new \in Tables
        /\ \A x \in Inodes, m \in Names :
             /\ Has(new, x, m) <=> Has(tab, x, m) /\ <<x, m>> \notin gone
             /\ Has(new, x, m) => new[x].entries[m] = tab[x].entries[m]
        /\ \A i \in Inodes \ {ino} : new[i].kind = tab[i].kind
        /\ \A i \in Inodes \ {ino, d} : new[i] = tab[i]
    BY ReleaseFacts
  <1>3. \/ /\ tab[ino].kind = "file"
           /\ new[d].nlink = tab[d].nlink
           /\ \/ LinksTo(tab, ino) = {<<d, n>>} /\ new[ino] = Free
              \/ new[ino].kind = "file" /\ new[ino].nlink + 1 = tab[ino].nlink
        \/ /\ tab[ino].kind = "dir"
           /\ ino # d
           /\ new[d].nlink + 1 = tab[d].nlink
           /\ new[ino] = Free
           /\ LinksTo(tab, ino) = {<<d, n>>}
    BY ReleaseFacts
  <1>f. Free.kind = "free"
    BY DEF Free
  <1> HIDE DEF ino, new, gone
  <1>4. ASSUME NEW i \in Inodes
        PROVE  /\ LinksTo(new, i) = LinksTo(tab, i) \ gone
               /\ Subdirs(new, i) = {m \in Subdirs(tab, i) : <<i, m>> \notin gone}
    BY <1>2 DEF LinksTo, Subdirs
  <1>5. \A i \in Inodes \ {ino} : LinksTo(new, i) = LinksTo(tab, i)
    <2>1. \A i \in Inodes \ {ino} : <<d, n>> \notin LinksTo(tab, i)
      BY DEF LinksTo, ino
    <2> QED
      BY <1>4, <2>1 DEF gone
  <1>6. LinksTo(new, ino) = LinksTo(tab, ino) \ {<<d, n>>}
    BY <1>1, <1>4 DEF gone
  <1>7. \A x \in Inodes \ {d} : Subdirs(new, x) = Subdirs(tab, x)
    BY <1>4 DEF gone
  <1>8. Subdirs(new, d) = Subdirs(tab, d) \ {n}
    BY <1>4 DEF gone
  <1>9. EntriesTyped(new)
    <2> SUFFICES ASSUME NEW x \in Inodes, NEW m \in Names, Has(new, x, m)
                 PROVE  new[new[x].entries[m].ino].kind = new[x].entries[m].ftype
      BY DEF EntriesTyped
    <2>1. /\ Has(tab, x, m) /\ <<x, m>> # <<d, n>> /\ new[x].entries[m] = tab[x].entries[m]
      BY <1>2 DEF gone
    <2>2. /\ tab[x].entries[m].ino \in Inodes
          /\ tab[x].entries[m].ftype = tab[tab[x].entries[m].ino].kind
          /\ <<x, m>> \in LinksTo(tab, tab[x].entries[m].ino)
      BY <2>1, EntryFacts
    <2>3. CASE tab[x].entries[m].ino # ino
      BY <2>1, <2>2, <2>3, <1>2
    <2>4. CASE tab[x].entries[m].ino = ino
      BY <2>1, <2>2, <2>4, <1>3
    <2> QED
      BY <2>3, <2>4
  <1>10. LinkCounts(new)
    <2> SUFFICES ASSUME NEW i \in Inodes
                 PROVE  /\ new[i].kind = "file" => new[i].nlink = Cardinality(LinksTo(new, i))
                        /\ new[i].kind = "dir" => new[i].nlink = 2 + Cardinality(Subdirs(new, i))
      BY DEF LinkCounts
    <2>1. /\ tab[i].kind = "file" => tab[i].nlink = Cardinality(LinksTo(tab, i))
          /\ tab[i].kind = "dir" => tab[i].nlink = 2 + Cardinality(Subdirs(tab, i))
      BY DEF Sound, LinkCounts
    <2>2. CASE i # ino /\ i # d
      BY <2>1, <2>2, <1>2, <1>5, <1>7
    <2>3. CASE i = ino
      <3>1. Cardinality(LinksTo(new, ino)) = Cardinality(LinksTo(tab, ino)) - 1
        BY <1>1, <1>6, LinksFinite, FS_RemoveElement
      <3>2. Cardinality(LinksTo(tab, ino)) \in Nat /\ new[ino].nlink \in Nat
        BY <1>1, <1>2, LinksFinite, TableFacts
      <3> QED
        BY <1>1, <1>3, <1>f, <2>1, <2>3, <3>1, <3>2
    <2>4. CASE i = d /\ i # ino
      <3>1. new[d].kind = "dir"
        BY <2>4, <1>1, <1>2
      <3>2. Cardinality(Subdirs(tab, d)) \in Nat /\ new[d].nlink \in Nat
        BY <1>2, LinksFinite, TableFacts
      <3>3. CASE n \in Subdirs(tab, d)
        <4>0. IsFiniteSet(Subdirs(tab, d))
          BY LinksFinite
        <4>1. Cardinality(Subdirs(new, d)) = Cardinality(Subdirs(tab, d)) - 1
          BY <4>0, <3>3, <1>8, FS_RemoveElement
        <4>2. tab[ino].kind = "dir"
          BY <3>3, <1>1
        <4>3. new[d].nlink + 1 = tab[d].nlink
          BY <4>2, <1>3
        <4>4. tab[d].nlink = 2 + Cardinality(Subdirs(tab, d))
          BY <2>1, <2>4, <1>1
        <4>5. new[d].nlink = 2 + Cardinality(Subdirs(new, d))
          BY <4>1, <4>3, <4>4, <3>2
        <4> QED
          BY <4>5, <3>1, <2>4
      <3>4. CASE n \notin Subdirs(tab, d)
        <4>1. Subdirs(new, d) = Subdirs(tab, d)
          BY <3>4, <1>8
        <4> QED
          BY <4>1, <3>1, <3>2, <3>4, <2>1, <2>4, <1>1, <1>3
      <3> QED
        BY <3>3, <3>4
    <2> QED
      BY <2>2, <2>3, <2>4
  <1>11. NamedOnce(new)
    <2>1. IsDir(new, Root) /\ LinksTo(new, Root) = {}
      BY <1>1, <1>2, <1>5, InodesAssumption DEF Sound, NamedOnce, IsDir
    <2>2. ASSUME NEW i \in Inodes \ {Root}, IsDir(new, i)
          PROVE  \E l \in LinksTo(new, i) : LinksTo(new, i) = {l}
      <3>1. i # ino
        BY <2>2, <1>1, <1>3, <1>f DEF IsDir
      <3>2. IsDir(tab, i)
        BY <2>2, <3>1, <1>2 DEF IsDir
      <3> QED
        BY <3>1, <3>2, <1>5 DEF Sound, NamedOnce
    <2> QED
      BY <2>1, <2>2 DEF NamedOnce
  <1> QED
    BY <1>2, <1>9, <1>10, <1>11 DEF Sound, new

-----------------------------------------------------------------------------
(* Mknod and link                                                          *)

(* new has the entries of tab and e at (d, n).                             *)
Inserted(tab, new, d, n, e) ==
  /\ \A x \in Inodes, m \in Names :
       /\ Has(new, x, m) <=> Has(tab, x, m) \/ (x = d /\ m = n)
       /\ Has(tab, x, m) => new[x].entries[m] = tab[x].entries[m]
  /\ new[d].entries[n] = e

(* A new entry is a link of its inode and, if it is a directory, a         *)
(* subdirectory of its parent; nothing else changes.                       *)
LEMMA InsertedLinks ==
  ASSUME NEW tab, NEW new, NEW d \in Inodes, NEW n \in Names, NEW e \in EntrySet,
         ~Has(tab, d, n), Inserted(tab, new, d, n, e)
  PROVE  /\ \A i \in Inodes \ {e.ino} : LinksTo(new, i) = LinksTo(tab, i)
         /\ LinksTo(new, e.ino) = LinksTo(tab, e.ino) \cup {<<d, n>>}
         /\ <<d, n>> \notin LinksTo(tab, e.ino)
         /\ \A x \in Inodes \ {d} : Subdirs(new, x) = Subdirs(tab, x)
         /\ e.ftype = "dir" => /\ Subdirs(new, d) = Subdirs(tab, d) \cup {n}
                               /\ n \notin Subdirs(tab, d)
         /\ e.ftype # "dir" => Subdirs(new, d) = Subdirs(tab, d)
  <1>1. \A i \in Inodes \ {e.ino} : LinksTo(new, i) = LinksTo(tab, i)
    BY DEF Inserted, LinksTo
  <1>2. LinksTo(new, e.ino) = LinksTo(tab, e.ino) \cup {<<d, n>>}
    BY DEF Inserted, LinksTo
  <1>3. <<d, n>> \notin LinksTo(tab, e.ino) /\ n \notin Subdirs(tab, d)
    BY DEF LinksTo, Subdirs
  <1>4. \A x \in Inodes \ {d} : Subdirs(new, x) = Subdirs(tab, x)
    BY DEF Inserted, Subdirs
  <1>5. e.ftype = "dir" => Subdirs(new, d) = Subdirs(tab, d) \cup {n}
    BY DEF Inserted, Subdirs
  <1>6. e.ftype # "dir" => Subdirs(new, d) = Subdirs(tab, d)
    BY DEF Inserted, Subdirs
  <1> QED
    BY <1>1, <1>2, <1>3, <1>4, <1>5, <1>6

(* No entry names a free inode. *)
LEMMA FreeUnnamed ==
  ASSUME NEW tab, Sound(tab), NEW i \in Inodes, tab[i] = Free
  PROVE  LinksTo(tab, i) = {}
  <1> SUFFICES ASSUME NEW d \in Inodes, NEW n \in Names, Has(tab, d, n), tab[d].entries[n].ino = i
               PROVE  FALSE
    BY DEF LinksTo
  <1>1. tab[i].kind \in {"file", "dir"}
    BY EntryFacts
  <1> QED
    BY <1>1 DEF Free

(* A new inode and its entry.                                              *)
NewEntry(tab, new, ino, d, n, kind) ==
  /\ new \in Tables
  /\ Inserted(tab, new, d, n, Entry(ino, kind))
  /\ \A i \in Inodes \ {ino} : new[i].kind = tab[i].kind /\ new[i].immutable = tab[i].immutable
  /\ \A i \in Inodes \ {ino, d} : new[i] = tab[i]
  /\ new[ino].kind = kind
  /\ ino # d

(* What Gofs::mknod changes: the inode it takes, the entry, and the        *)
(* parent's count for a directory.                                         *)
LEMMA MknodFacts ==
  ASSUME Sound(inodes), NEW parent \in Inodes, NEW n \in Names, NEW kind \in {"file", "dir"},
         Mknod(parent, n, kind)
  PROVE  \E ino \in Inodes :
           /\ inodes[ino] = Free
           /\ NewEntry(inodes, inodes', ino, parent, n, kind)
           /\ inodes'[parent].nlink = inodes[parent].nlink + (IF kind = "dir" THEN 1 ELSE 0)
           /\ inodes'[ino].nlink = (IF kind = "dir" THEN 2 ELSE 1)
           /\ \A m \in Names : ~Has(inodes', ino, m)
  <1>1. PICK ino \in Inodes :
          /\ inodes[ino] = Free
          /\ inodes' = LET made == DirInsert([inodes EXCEPT ![ino] = NewInode(kind)], parent, n, Entry(ino, kind))
                       IN IF kind = "dir" THEN [made EXCEPT ![parent].nlink = @ + 1] ELSE made
    BY DEF Mknod
  <1> DEFINE u == WithSlot(inodes, ino, NewInode(kind))
             v == DirInsert(u, parent, n, Entry(ino, kind))
             w == WithNlink(v, parent, v[parent].nlink + 1)
  <1>2. /\ inodes \in Tables /\ inodes[parent].kind = "dir" /\ ~Has(inodes, parent, n)
        /\ ino # parent /\ inodes[ino].kind = "free"
    BY <1>1 DEF Sound, Mknod, IsDir, Free
  <1>3. NewInode(kind) \in InUse
    <2>1. NoEntries \in [{} -> EntrySet]
      BY DEF NoEntries
    <2>2. NoEntries \in UNION {[S -> EntrySet] : S \in SUBSET Names}
      BY <2>1
    <2> QED
      BY <2>2 DEF NewInode, InUse
  <1>4. /\ u \in Tables /\ u[ino] = NewInode(kind)
        /\ \A j \in Inodes \ {ino} : u[j] = inodes[j]
    BY <1>2, <1>3, SlotFacts
  <1>5. Entry(ino, kind) \in EntrySet
    BY DEF Entry, EntrySet
  <1>6. inodes' = IF kind = "dir" THEN w ELSE v
    BY <1>1 DEF WithSlot, WithNlink
  <1>7. NewInode(kind).kind = kind /\ DOMAIN NewInode(kind).entries = {}
        /\ NewInode(kind).nlink = (IF kind = "dir" THEN 2 ELSE 1)
    BY DEF NewInode, NoEntries
  <1> HIDE DEF u
  <1>8. IsDir(u, parent)
    BY <1>2, <1>4 DEF IsDir
  <1>9. /\ v \in Tables
        /\ \A i \in Inodes : /\ v[i].kind = u[i].kind
                             /\ v[i].nlink = u[i].nlink
                             /\ v[i].immutable = u[i].immutable
        /\ \A i \in Inodes \ {parent} : v[i] = u[i]
        /\ DOMAIN v[parent].entries = DOMAIN u[parent].entries \cup {n}
        /\ v[parent].entries[n] = Entry(ino, kind)
        /\ \A m \in DOMAIN u[parent].entries \ {n} : v[parent].entries[m] = u[parent].entries[m]
    BY <1>4, <1>5, <1>8, InsertFacts
  <1> HIDE DEF v
  <1>10. v[parent].kind = "dir" /\ v[parent].nlink \in Nat
    BY <1>9, <1>8, TableFacts DEF IsDir
  <1>11. /\ w \in Tables
         /\ w[parent].kind = v[parent].kind
         /\ w[parent].nlink = v[parent].nlink + 1
         /\ w[parent].immutable = v[parent].immutable
         /\ w[parent].entries = v[parent].entries
         /\ \A j \in Inodes \ {parent} : w[j] = v[j]
    <2>1. v[parent].kind # "free" /\ v[parent].nlink + 1 \in Nat \ {0}
      BY <1>10
    <2> QED
      BY <1>9, <2>1, NlinkFacts
  <1> HIDE DEF w
  <1>12. /\ inodes' \in Tables
         /\ \A i \in Inodes \ {ino, parent} : inodes'[i] = inodes[i]
         /\ inodes'[parent].kind = "dir"
         /\ inodes'[parent].immutable = inodes[parent].immutable
         /\ inodes'[parent].nlink = inodes[parent].nlink + (IF kind = "dir" THEN 1 ELSE 0)
         /\ inodes'[ino] = NewInode(kind)
         /\ DOMAIN inodes'[parent].entries = DOMAIN inodes[parent].entries \cup {n}
         /\ inodes'[parent].entries[n] = Entry(ino, kind)
         /\ \A m \in DOMAIN inodes[parent].entries \ {n} : inodes'[parent].entries[m] = inodes[parent].entries[m]
    BY <1>2, <1>4, <1>6, <1>9, <1>10, <1>11
  <1>13. Inserted(inodes, inodes', parent, n, Entry(ino, kind))
    <2>1. ASSUME NEW m \in Names
          PROVE  ~Has(inodes, ino, m) /\ ~Has(inodes', ino, m)
      BY <1>2, <1>7, <1>12 DEF Has, IsDir
    <2> QED
      BY <2>1, <1>2, <1>12 DEF Inserted, Has, IsDir
  <1>14. \A m \in Names : ~Has(inodes', ino, m)
    BY <1>7, <1>12 DEF Has
  <1>15. NewEntry(inodes, inodes', ino, parent, n, kind)
    BY <1>2, <1>7, <1>12, <1>13 DEF NewEntry
  <1> QED
    BY <1>1, <1>7, <1>12, <1>14, <1>15

(* Gofs::mknod leaves a sound table.                                       *)
LEMMA MknodSound ==
  ASSUME Sound(inodes), NEW parent \in Inodes, NEW n \in Names, NEW kind \in {"file", "dir"},
         Mknod(parent, n, kind)
  PROVE  Sound(inodes')
  <1>1. PICK ino \in Inodes :
          /\ inodes[ino] = Free
          /\ NewEntry(inodes, inodes', ino, parent, n, kind)
          /\ inodes'[parent].nlink = inodes[parent].nlink + (IF kind = "dir" THEN 1 ELSE 0)
          /\ inodes'[ino].nlink = (IF kind = "dir" THEN 2 ELSE 1)
          /\ \A m \in Names : ~Has(inodes', ino, m)
    BY MknodFacts
  <1> DEFINE e == Entry(ino, kind)
  <1>2. inodes \in Tables /\ inodes[parent].kind = "dir" /\ ~Has(inodes, parent, n) /\ ino # parent
    BY <1>1 DEF Sound, Mknod, IsDir, NewEntry
  <1>3. e \in EntrySet /\ e.ino = ino /\ e.ftype = kind
    BY DEF Entry, EntrySet
  <1> HIDE DEF e
  <1>4. /\ \A i \in Inodes \ {ino} : LinksTo(inodes', i) = LinksTo(inodes, i)
        /\ LinksTo(inodes', ino) = LinksTo(inodes, ino) \cup {<<parent, n>>}
        /\ <<parent, n>> \notin LinksTo(inodes, ino)
        /\ \A x \in Inodes \ {parent} : Subdirs(inodes', x) = Subdirs(inodes, x)
        /\ kind = "dir" => /\ Subdirs(inodes', parent) = Subdirs(inodes, parent) \cup {n}
                           /\ n \notin Subdirs(inodes, parent)
        /\ kind # "dir" => Subdirs(inodes', parent) = Subdirs(inodes, parent)
    <2>1. Inserted(inodes, inodes', parent, n, e)
      BY <1>1 DEF NewEntry, e
    <2>2. /\ \A i \in Inodes \ {e.ino} : LinksTo(inodes', i) = LinksTo(inodes, i)
          /\ LinksTo(inodes', e.ino) = LinksTo(inodes, e.ino) \cup {<<parent, n>>}
          /\ <<parent, n>> \notin LinksTo(inodes, e.ino)
          /\ \A x \in Inodes \ {parent} : Subdirs(inodes', x) = Subdirs(inodes, x)
          /\ e.ftype = "dir" => /\ Subdirs(inodes', parent) = Subdirs(inodes, parent) \cup {n}
                                /\ n \notin Subdirs(inodes, parent)
          /\ e.ftype # "dir" => Subdirs(inodes', parent) = Subdirs(inodes, parent)
      BY <2>1, <1>2, <1>3, InsertedLinks
    <2> QED
      BY <2>2, <1>3
  <1>5. LinksTo(inodes, ino) = {} /\ LinksTo(inodes', ino) = {<<parent, n>>}
    BY <1>1, <1>4, FreeUnnamed
  <1>6. Subdirs(inodes', ino) = {}
    BY <1>1 DEF Subdirs
  <1>7. /\ inodes' \in Tables
        /\ \A i \in Inodes \ {ino} : inodes'[i].kind = inodes[i].kind
        /\ \A i \in Inodes \ {ino, parent} : inodes'[i] = inodes[i]
        /\ inodes'[ino].kind = kind
        /\ \A x \in Inodes, m \in Names :
             /\ Has(inodes', x, m) <=> Has(inodes, x, m) \/ (x = parent /\ m = n)
             /\ Has(inodes, x, m) => inodes'[x].entries[m] = inodes[x].entries[m]
        /\ inodes'[parent].entries[n] = e
    BY <1>1 DEF NewEntry, Inserted, e
  <1>8. EntriesTyped(inodes')
    <2> SUFFICES ASSUME NEW x \in Inodes, NEW m \in Names, Has(inodes', x, m)
                 PROVE  inodes'[inodes'[x].entries[m].ino].kind = inodes'[x].entries[m].ftype
      BY DEF EntriesTyped
    <2>1. CASE x = parent /\ m = n
      BY <2>1, <1>3, <1>7
    <2>2. CASE ~(x = parent /\ m = n)
      <3>1. Has(inodes, x, m) /\ inodes'[x].entries[m] = inodes[x].entries[m]
        BY <2>2, <1>7
      <3>2. /\ inodes[x].entries[m].ino \in Inodes
            /\ inodes[x].entries[m].ftype = inodes[inodes[x].entries[m].ino].kind
            /\ <<x, m>> \in LinksTo(inodes, inodes[x].entries[m].ino)
        BY <3>1, EntryFacts
      <3>3. inodes[x].entries[m].ino # ino
        BY <3>2, <1>5
      <3> QED
        BY <3>1, <3>2, <3>3, <1>7
    <2> QED
      BY <2>1, <2>2
  <1>9. LinkCounts(inodes')
    <2> SUFFICES ASSUME NEW i \in Inodes
                 PROVE  /\ inodes'[i].kind = "file" => inodes'[i].nlink = Cardinality(LinksTo(inodes', i))
                        /\ inodes'[i].kind = "dir" => inodes'[i].nlink = 2 + Cardinality(Subdirs(inodes', i))
      BY DEF LinkCounts
    <2>1. /\ inodes[i].kind = "file" => inodes[i].nlink = Cardinality(LinksTo(inodes, i))
          /\ inodes[i].kind = "dir" => inodes[i].nlink = 2 + Cardinality(Subdirs(inodes, i))
      BY DEF Sound, LinkCounts
    <2>2. CASE i # ino /\ i # parent
      BY <2>1, <2>2, <1>4, <1>7
    <2>3. CASE i = ino
      <3>1. Cardinality({<<parent, n>>}) = 1 /\ Cardinality({}) = 0
        BY FS_Singleton, FS_EmptySet
      <3> QED
        BY <3>1, <2>3, <1>1, <1>5, <1>6, <1>7
    <2>4. CASE i = parent
      <3>1. Cardinality(Subdirs(inodes, parent)) \in Nat /\ IsFiniteSet(Subdirs(inodes, parent))
        BY LinksFinite
      <3>2. kind = "dir" => Cardinality(Subdirs(inodes', parent)) = Cardinality(Subdirs(inodes, parent)) + 1
        BY <3>1, <1>4, FS_AddElement
      <3> QED
        BY <3>1, <3>2, <2>1, <2>4, <1>1, <1>2, <1>4, <1>7
    <2> QED
      BY <2>2, <2>3, <2>4
  <1>10. NamedOnce(inodes')
    <2>1. ino # Root
      BY <1>1 DEF Sound, NamedOnce, IsDir, Free
    <2>2. LinksTo(inodes', Root) = {}
      BY <2>1, <1>4, <1>7, InodesAssumption DEF Sound, NamedOnce
    <2>5. IsDir(inodes', Root)
      BY <2>1, <1>7, InodesAssumption DEF Sound, NamedOnce, IsDir
    <2>3. ASSUME NEW i \in Inodes \ {Root}, IsDir(inodes', i)
          PROVE  \E l \in LinksTo(inodes', i) : LinksTo(inodes', i) = {l}
      <3>1. CASE i = ino
        BY <3>1, <1>5
      <3>2. CASE i # ino
        <4>1. IsDir(inodes, i)
          BY <2>3, <3>2, <1>7 DEF IsDir
        <4> QED
          BY <4>1, <3>2, <1>4 DEF Sound, NamedOnce
      <3> QED
        BY <3>1, <3>2
    <2> QED
      BY <2>2, <2>3, <2>5 DEF NamedOnce
  <1> QED
    BY <1>7, <1>8, <1>9, <1>10 DEF Sound

(* What Gofs::link_at changes: one entry and one count.                    *)
LEMMA LinkFacts ==
  ASSUME Sound(inodes), NEW ino \in Inodes, NEW parent \in Inodes, NEW n \in Names,
         LinkAt(ino, parent, n)
  PROVE  /\ inodes' \in Tables
         /\ Inserted(inodes, inodes', parent, n, Entry(ino, "file"))
         /\ \A i \in Inodes : /\ inodes'[i].kind = inodes[i].kind
                              /\ inodes'[i].immutable = inodes[i].immutable
         /\ \A i \in Inodes \ {ino} : inodes'[i].nlink = inodes[i].nlink
         /\ inodes'[ino].nlink = inodes[ino].nlink + 1
         /\ \A i \in Inodes \ {ino, parent} : inodes'[i] = inodes[i]
  <1> DEFINE e == Entry(ino, "file")
             v == DirInsert(inodes, parent, n, e)
  <1>1. /\ inodes \in Tables /\ inodes[parent].kind = "dir" /\ IsDir(inodes, parent)
        /\ ~Has(inodes, parent, n)
        /\ inodes[ino].kind = "file"
        /\ ino # parent
    BY DEF Sound, LinkAt, IsDir
  <1>2. e \in EntrySet
    BY DEF Entry, EntrySet
  <1>3. inodes' = WithNlink(v, ino, v[ino].nlink + 1)
    BY DEF LinkAt, WithNlink
  <1> HIDE DEF e
  <1>4. /\ v \in Tables
        /\ \A i \in Inodes : /\ v[i].kind = inodes[i].kind
                             /\ v[i].nlink = inodes[i].nlink
                             /\ v[i].immutable = inodes[i].immutable
        /\ \A i \in Inodes \ {parent} : v[i] = inodes[i]
        /\ DOMAIN v[parent].entries = DOMAIN inodes[parent].entries \cup {n}
        /\ v[parent].entries[n] = e
        /\ \A m \in DOMAIN inodes[parent].entries \ {n} : v[parent].entries[m] = inodes[parent].entries[m]
    BY <1>1, <1>2, InsertFacts
  <1> HIDE DEF v
  <1>5. v[ino].kind # "free" /\ v[ino].nlink + 1 \in Nat \ {0}
    BY <1>1, <1>4, TableFacts
  <1>6. /\ inodes' \in Tables
        /\ inodes'[ino].kind = v[ino].kind
        /\ inodes'[ino].nlink = v[ino].nlink + 1
        /\ inodes'[ino].immutable = v[ino].immutable
        /\ inodes'[ino].entries = v[ino].entries
        /\ \A j \in Inodes \ {ino} : inodes'[j] = v[j]
    BY <1>3, <1>4, <1>5, NlinkFacts
  <1>7. Inserted(inodes, inodes', parent, n, e)
    BY <1>1, <1>4, <1>6 DEF Inserted, Has, IsDir
  <1> QED
    BY <1>1, <1>4, <1>6, <1>7 DEF e

(* Gofs::link_at leaves a sound table.                                     *)
LEMMA LinkSound ==
  ASSUME Sound(inodes), NEW ino \in Inodes, NEW parent \in Inodes, NEW n \in Names,
         LinkAt(ino, parent, n)
  PROVE  Sound(inodes')
  <1> DEFINE e == Entry(ino, "file")
  <1>1. /\ inodes \in Tables /\ inodes' \in Tables
        /\ Inserted(inodes, inodes', parent, n, e)
        /\ \A i \in Inodes : inodes'[i].kind = inodes[i].kind
        /\ \A i \in Inodes \ {ino} : inodes'[i].nlink = inodes[i].nlink
        /\ inodes'[ino].nlink = inodes[ino].nlink + 1
    BY LinkFacts DEF Sound
  <1>2. ~Has(inodes, parent, n) /\ inodes[ino].kind = "file"
    BY DEF LinkAt
  <1>3. e \in EntrySet /\ e.ino = ino /\ e.ftype = "file"
    BY DEF Entry, EntrySet
  <1> HIDE DEF e
  <1>4. /\ \A i \in Inodes \ {e.ino} : LinksTo(inodes', i) = LinksTo(inodes, i)
        /\ LinksTo(inodes', e.ino) = LinksTo(inodes, e.ino) \cup {<<parent, n>>}
        /\ <<parent, n>> \notin LinksTo(inodes, e.ino)
        /\ \A x \in Inodes \ {parent} : Subdirs(inodes', x) = Subdirs(inodes, x)
        /\ e.ftype # "dir" => Subdirs(inodes', parent) = Subdirs(inodes, parent)
    BY <1>1, <1>2, <1>3, InsertedLinks
  <1>5. /\ \A i \in Inodes \ {ino} : LinksTo(inodes', i) = LinksTo(inodes, i)
        /\ LinksTo(inodes', ino) = LinksTo(inodes, ino) \cup {<<parent, n>>}
        /\ <<parent, n>> \notin LinksTo(inodes, ino)
        /\ \A x \in Inodes : Subdirs(inodes', x) = Subdirs(inodes, x)
    BY <1>3, <1>4
  <1>6. EntriesTyped(inodes')
    <2> SUFFICES ASSUME NEW x \in Inodes, NEW m \in Names, Has(inodes', x, m)
                 PROVE  inodes'[inodes'[x].entries[m].ino].kind = inodes'[x].entries[m].ftype
      BY DEF EntriesTyped
    <2>1. CASE x = parent /\ m = n
      BY <2>1, <1>1, <1>2, <1>3 DEF Inserted
    <2>2. CASE ~(x = parent /\ m = n)
      <3>1. Has(inodes, x, m) /\ inodes'[x].entries[m] = inodes[x].entries[m]
        BY <2>2, <1>1 DEF Inserted
      <3>2. /\ inodes[x].entries[m].ino \in Inodes
            /\ inodes[x].entries[m].ftype = inodes[inodes[x].entries[m].ino].kind
        BY <3>1, EntryFacts
      <3> QED
        BY <3>1, <3>2, <1>1
    <2> QED
      BY <2>1, <2>2
  <1>7. LinkCounts(inodes')
    <2> SUFFICES ASSUME NEW i \in Inodes
                 PROVE  /\ inodes'[i].kind = "file" => inodes'[i].nlink = Cardinality(LinksTo(inodes', i))
                        /\ inodes'[i].kind = "dir" => inodes'[i].nlink = 2 + Cardinality(Subdirs(inodes', i))
      BY DEF LinkCounts
    <2>1. /\ inodes[i].kind = "file" => inodes[i].nlink = Cardinality(LinksTo(inodes, i))
          /\ inodes[i].kind = "dir" => inodes[i].nlink = 2 + Cardinality(Subdirs(inodes, i))
      BY DEF Sound, LinkCounts
    <2>2. CASE i # ino
      BY <2>1, <2>2, <1>1, <1>5
    <2>3. CASE i = ino
      <3>1. Cardinality(LinksTo(inodes', ino)) = Cardinality(LinksTo(inodes, ino)) + 1
        BY <1>5, LinksFinite, FS_AddElement
      <3> QED
        BY <3>1, <2>1, <2>3, <1>1, <1>2
    <2> QED
      BY <2>2, <2>3
  <1>8. NamedOnce(inodes')
    BY <1>1, <1>2, <1>5, InodesAssumption DEF Sound, NamedOnce, IsDir
  <1> QED
    BY <1>1, <1>6, <1>7, <1>8 DEF Sound

-----------------------------------------------------------------------------
(* Rename *)

(* Move: what the entry's two directories gain and lose. *)
LEMMA MoveFacts ==
  ASSUME NEW tab, Sound(tab), NEW p1 \in Inodes, NEW n1 \in Names, NEW p2 \in Inodes, NEW n2 \in Names,
         Has(tab, p1, n1), IsDir(tab, p2), ~Has(tab, p2, n2)
  PROVE  LET e == tab[p1].entries[n1]
             new == Move(tab, p1, n1, p2, n2)
             d == IF p1 # p2 /\ e.ftype = "dir" THEN 1 ELSE 0
         IN /\ new \in Tables
            /\ Inserted(DirRemove(tab, p1, n1), new, p2, n2, e)
            /\ \A i \in Inodes : /\ new[i].kind = tab[i].kind
                                 /\ new[i].immutable = tab[i].immutable
            /\ \A i \in Inodes \ {p1, p2} : new[i] = tab[i]
            /\ p1 = p2 => new[p1].nlink = tab[p1].nlink
            /\ p1 # p2 => new[p1].nlink + d = tab[p1].nlink /\ new[p2].nlink = tab[p2].nlink + d
  <1> DEFINE e == tab[p1].entries[n1]
             u == DirRemove(tab, p1, n1)
             v == DirInsert(u, p2, n2, e)
             new == Move(tab, p1, n1, p2, n2)
  <1>1. /\ tab \in Tables /\ IsDir(tab, p1) /\ e \in EntrySet
        /\ n1 \in Subdirs(tab, p1) <=> e.ftype = "dir"
    BY EntryFacts DEF Sound
  <1>2. tab[p1].nlink = 2 + Cardinality(Subdirs(tab, p1)) /\ Cardinality(Subdirs(tab, p1)) \in Nat
        /\ tab[p2].nlink \in Nat
    BY <1>1, LinksFinite, TableFacts DEF Sound, LinkCounts, IsDir
  <1>3. /\ u \in Tables
        /\ \A i \in Inodes : /\ u[i].kind = tab[i].kind
                             /\ u[i].nlink = tab[i].nlink
                             /\ u[i].immutable = tab[i].immutable
        /\ \A i \in Inodes \ {p1} : u[i] = tab[i]
        /\ DOMAIN u[p1].entries = DOMAIN tab[p1].entries \ {n1}
    BY <1>1, RemoveFacts
  <1>4. IsDir(u, p2) /\ IsDir(u, p1)
    BY <1>1, <1>3 DEF IsDir
  <1>5. new = IF p1 # p2 /\ e.ftype = "dir"
              THEN WithNlink(WithNlink(v, p1, Minus1(v[p1].nlink)), p2, WithNlink(v, p1, Minus1(v[p1].nlink))[p2].nlink + 1)
              ELSE v
    BY DEF Move, WithNlink
  <1>6. ~Has(u, p2, n2)
    BY <1>3 DEF Has, IsDir
  <1> HIDE DEF u, e
  <1>7. /\ v \in Tables
        /\ \A i \in Inodes : /\ v[i].kind = u[i].kind
                             /\ v[i].nlink = u[i].nlink
                             /\ v[i].immutable = u[i].immutable
        /\ \A i \in Inodes \ {p2} : v[i] = u[i]
        /\ DOMAIN v[p2].entries = DOMAIN u[p2].entries \cup {n2}
        /\ v[p2].entries[n2] = e
        /\ \A m \in DOMAIN u[p2].entries \ {n2} : v[p2].entries[m] = u[p2].entries[m]
    BY <1>1, <1>3, <1>4, InsertFacts
  <1> HIDE DEF v
  <1>8. Inserted(u, v, p2, n2, e)
    BY <1>4, <1>6, <1>7 DEF Inserted, Has, IsDir
  <1>9. CASE p1 # p2 /\ e.ftype = "dir"
    <2> DEFINE w == WithNlink(v, p1, Minus1(v[p1].nlink))
    <2>1. v[p1].kind = "dir" /\ v[p1].kind # "free" /\ v[p2].kind = "dir"
      BY <1>4, <1>7 DEF IsDir
    <2>2. Minus1(v[p1].nlink) \in Nat \ {0} /\ Minus1(v[p1].nlink) + 1 = v[p1].nlink
      BY <1>2, <1>3, <1>7 DEF Minus1
    <2>3. /\ w \in Tables
          /\ w[p1].kind = v[p1].kind
          /\ w[p1].nlink = Minus1(v[p1].nlink)
          /\ w[p1].immutable = v[p1].immutable
          /\ w[p1].entries = v[p1].entries
          /\ \A j \in Inodes \ {p1} : w[j] = v[j]
      BY <1>7, <2>1, <2>2, NlinkFacts
    <2>4. new = WithNlink(w, p2, w[p2].nlink + 1)
      BY <1>5, <1>9
    <2> HIDE DEF w, new
    <2>5. w[p2].kind # "free" /\ w[p2].nlink + 1 \in Nat \ {0} /\ w[p2] = v[p2]
      BY <2>1, <2>3, <1>9, TableFacts
    <2>6. /\ new \in Tables
          /\ new[p2].kind = w[p2].kind
          /\ new[p2].nlink = w[p2].nlink + 1
          /\ new[p2].immutable = w[p2].immutable
          /\ new[p2].entries = w[p2].entries
          /\ \A j \in Inodes \ {p2} : new[j] = w[j]
      BY <2>3, <2>4, <2>5, NlinkFacts
    <2>7. \A i \in Inodes : new[i].kind = v[i].kind /\ new[i].entries = v[i].entries /\ new[i].immutable = v[i].immutable
      BY <2>3, <2>5, <2>6
    <2>8. Inserted(u, new, p2, n2, e)
      BY <1>8, <2>7 DEF Inserted, Has, IsDir
    <2>9. new[p1].nlink + 1 = tab[p1].nlink /\ new[p2].nlink = tab[p2].nlink + 1
      BY <1>3, <1>7, <1>9, <2>2, <2>3, <2>5, <2>6
    <2>10. \A i \in Inodes \ {p1, p2} : new[i] = tab[i]
      BY <1>3, <1>7, <2>3, <2>6
    <2> QED
      BY <1>3, <1>7, <1>9, <2>6, <2>7, <2>8, <2>9, <2>10 DEF u, e, new
  <1>10. CASE ~(p1 # p2 /\ e.ftype = "dir")
    <2>1. new = v
      BY <1>5, <1>10
    <2> HIDE DEF new
    <2>2. /\ new \in Tables
          /\ Inserted(u, new, p2, n2, e)
          /\ \A i \in Inodes : /\ new[i].kind = tab[i].kind
                               /\ new[i].immutable = tab[i].immutable
                               /\ new[i].nlink = tab[i].nlink
          /\ \A i \in Inodes \ {p1, p2} : new[i] = tab[i]
      BY <2>1, <1>3, <1>7, <1>8
    <2>3. new[p1].nlink + 0 = new[p1].nlink /\ tab[p2].nlink + 0 = tab[p2].nlink
      BY <2>2, <1>2
    <2> QED
      BY <2>2, <2>3, <1>10 DEF u, e, new
  <1> QED
    BY <1>9, <1>10

(* Moving an entry to a name that is not taken leaves a sound table: the   *)
(* parents' counts go with a directory that changes parents.               *)
LEMMA MoveSound ==
  ASSUME NEW tab, Sound(tab), NEW p1 \in Inodes, NEW n1 \in Names, NEW p2 \in Inodes, NEW n2 \in Names,
         Has(tab, p1, n1), IsDir(tab, p2), ~Has(tab, p2, n2)
  PROVE  Sound(Move(tab, p1, n1, p2, n2))
  <1> DEFINE e == tab[p1].entries[n1]
             ino == e.ino
             u == DirRemove(tab, p1, n1)
             new == Move(tab, p1, n1, p2, n2)
             d == IF p1 # p2 /\ e.ftype = "dir" THEN 1 ELSE 0
  <1>1. /\ tab \in Tables /\ IsDir(tab, p1) /\ e \in EntrySet /\ ino \in Inodes /\ e.ftype = tab[ino].kind
        /\ tab[ino].kind \in {"file", "dir"} /\ <<p1, n1>> \in LinksTo(tab, ino) /\ ino # Root
        /\ n1 \in Subdirs(tab, p1) <=> e.ftype = "dir"
    BY EntryFacts DEF Sound
  <1>2. /\ new \in Tables
        /\ Inserted(u, new, p2, n2, e)
        /\ \A i \in Inodes : new[i].kind = tab[i].kind
        /\ \A i \in Inodes \ {p1, p2} : new[i] = tab[i]
        /\ p1 = p2 => new[p1].nlink = tab[p1].nlink
        /\ p1 # p2 => new[p1].nlink + d = tab[p1].nlink /\ new[p2].nlink = tab[p2].nlink + d
    BY MoveFacts
  <1>3. /\ u \in Tables
        /\ \A i \in Inodes : u[i].kind = tab[i].kind
        /\ \A i \in Inodes \ {p1} : u[i] = tab[i]
        /\ DOMAIN u[p1].entries = DOMAIN tab[p1].entries \ {n1}
        /\ \A m \in DOMAIN tab[p1].entries \ {n1} : u[p1].entries[m] = tab[p1].entries[m]
    BY <1>1, RemoveFacts
  <1> HIDE DEF u, new
  <1>4. \A x \in Inodes, m \in Names :
          /\ Has(u, x, m) <=> Has(tab, x, m) /\ ~(x = p1 /\ m = n1)
          /\ Has(u, x, m) => u[x].entries[m] = tab[x].entries[m]
    BY <1>3 DEF Has, IsDir
  <1>5. ~Has(u, p2, n2)
    BY <1>4
  <1>6. /\ \A i \in Inodes \ {ino} : LinksTo(u, i) = LinksTo(tab, i)
        /\ LinksTo(u, ino) = LinksTo(tab, ino) \ {<<p1, n1>>}
        /\ \A x \in Inodes \ {p1} : Subdirs(u, x) = Subdirs(tab, x)
        /\ Subdirs(u, p1) = Subdirs(tab, p1) \ {n1}
    <2>1. \A i \in Inodes \ {ino} : LinksTo(u, i) = LinksTo(tab, i)
      BY <1>4 DEF LinksTo
    <2>2. LinksTo(u, ino) = LinksTo(tab, ino) \ {<<p1, n1>>}
      BY <1>4 DEF LinksTo
    <2>3. \A x \in Inodes \ {p1} : Subdirs(u, x) = Subdirs(tab, x)
      BY <1>4 DEF Subdirs
    <2>4. Subdirs(u, p1) = Subdirs(tab, p1) \ {n1}
      BY <1>4 DEF Subdirs
    <2> QED
      BY <2>1, <2>2, <2>3, <2>4
  <1> HIDE DEF e, d
  <1>7. /\ \A i \in Inodes \ {ino} : LinksTo(new, i) = LinksTo(u, i)
        /\ LinksTo(new, ino) = LinksTo(u, ino) \cup {<<p2, n2>>}
        /\ <<p2, n2>> \notin LinksTo(u, ino)
        /\ \A x \in Inodes \ {p2} : Subdirs(new, x) = Subdirs(u, x)
        /\ e.ftype = "dir" => /\ Subdirs(new, p2) = Subdirs(u, p2) \cup {n2}
                              /\ n2 \notin Subdirs(u, p2)
        /\ e.ftype # "dir" => Subdirs(new, p2) = Subdirs(u, p2)
    BY <1>1, <1>2, <1>5, InsertedLinks
  <1> HIDE DEF ino
  <1>8. EntriesTyped(new)
    <2> SUFFICES ASSUME NEW x \in Inodes, NEW m \in Names, Has(new, x, m)
                 PROVE  new[new[x].entries[m].ino].kind = new[x].entries[m].ftype
      BY DEF EntriesTyped
    <2>1. CASE x = p2 /\ m = n2
      BY <2>1, <1>1, <1>2 DEF Inserted, ino
    <2>2. CASE ~(x = p2 /\ m = n2)
      <3>1. Has(tab, x, m) /\ new[x].entries[m] = tab[x].entries[m]
        BY <2>2, <1>2, <1>4 DEF Inserted
      <3>2. /\ tab[x].entries[m].ino \in Inodes
            /\ tab[x].entries[m].ftype = tab[tab[x].entries[m].ino].kind
        BY <3>1, EntryFacts
      <3> QED
        BY <3>1, <3>2, <1>2
    <2> QED
      BY <2>1, <2>2
  <1>9. \A i \in Inodes : Cardinality(LinksTo(new, i)) = Cardinality(LinksTo(tab, i))
    <2>1. Cardinality(LinksTo(u, ino)) = Cardinality(LinksTo(tab, ino)) - 1
      <3>1. IsFiniteSet(LinksTo(tab, ino)) /\ <<p1, n1>> \in LinksTo(tab, ino)
        BY <1>1, LinksFinite
      <3>2. Cardinality(LinksTo(tab, ino) \ {<<p1, n1>>}) = Cardinality(LinksTo(tab, ino)) - 1
        BY <3>1, FS_RemoveElement
      <3> QED
        BY <3>2, <1>6
    <2>2. Cardinality(LinksTo(new, ino)) = Cardinality(LinksTo(u, ino)) + 1
      BY <1>7, LinksFinite, FS_AddElement
    <2>3. Cardinality(LinksTo(new, ino)) = Cardinality(LinksTo(tab, ino))
      BY <2>1, <2>2, LinksFinite
    <2> QED
      BY <2>3, <1>6, <1>7
  <1>10. LinkCounts(new)
    <2> SUFFICES ASSUME NEW i \in Inodes
                 PROVE  /\ new[i].kind = "file" => new[i].nlink = Cardinality(LinksTo(new, i))
                        /\ new[i].kind = "dir" => new[i].nlink = 2 + Cardinality(Subdirs(new, i))
      BY DEF LinkCounts
    <2>1. /\ tab[i].kind = "file" => tab[i].nlink = Cardinality(LinksTo(tab, i))
          /\ tab[i].kind = "dir" => tab[i].nlink = 2 + Cardinality(Subdirs(tab, i))
      BY DEF Sound, LinkCounts
    <2>2. CASE i \notin {p1, p2}
      BY <2>1, <2>2, <1>2, <1>6, <1>7, <1>9
    <2>3. CASE i \in {p1, p2} /\ e.ftype # "dir"
      <3>1. d = 0 /\ tab[i].nlink \in Nat /\ new[i].nlink \in Nat
        BY <2>3, <1>1, <1>2, TableFacts DEF d
      <3>2. Subdirs(new, i) = Subdirs(tab, i)
        BY <2>3, <1>1, <1>6, <1>7
      <3>3. new[i].nlink = tab[i].nlink
        BY <2>3, <3>1, <1>2
      <3> QED
        BY <2>1, <2>3, <3>2, <3>3, <1>1, <1>2 DEF IsDir
    <2>4. CASE i \in {p1, p2} /\ e.ftype = "dir"
      <3>1. /\ Cardinality(Subdirs(tab, i)) \in Nat /\ Cardinality(Subdirs(u, i)) \in Nat
            /\ Cardinality(Subdirs(new, i)) \in Nat
            /\ tab[i].nlink \in Nat /\ new[i].nlink \in Nat
            /\ tab[i].kind = "dir"
        BY <2>4, <1>1, <1>2, LinksFinite, TableFacts DEF IsDir
      <3>2. Cardinality(Subdirs(u, p1)) = Cardinality(Subdirs(tab, p1)) - 1
        <4>1. IsFiniteSet(Subdirs(tab, p1)) /\ n1 \in Subdirs(tab, p1)
          BY <2>4, <1>1, LinksFinite
        <4>2. Cardinality(Subdirs(tab, p1) \ {n1}) = Cardinality(Subdirs(tab, p1)) - 1
          BY <4>1, FS_RemoveElement
        <4> QED
          BY <4>2, <1>6
      <3>3. Cardinality(Subdirs(new, p2)) = Cardinality(Subdirs(u, p2)) + 1
        BY <2>4, <1>7, LinksFinite, FS_AddElement
      <3>4. CASE p1 = p2
        BY <3>1, <3>2, <3>3, <3>4, <2>1, <2>4, <1>2
      <3>5. CASE p1 # p2
        <4>1. d = 1
          BY <3>5, <2>4 DEF d
        <4>2. Subdirs(new, p1) = Subdirs(u, p1) /\ Subdirs(u, p2) = Subdirs(tab, p2)
          BY <3>5, <1>6, <1>7
        <4> QED
          BY <4>1, <4>2, <3>1, <3>2, <3>3, <3>5, <2>1, <2>4, <1>2
      <3> QED
        BY <3>4, <3>5
    <2> QED
      BY <2>2, <2>3, <2>4
  <1>11. NamedOnce(new)
    <2>1. IsDir(new, Root) /\ LinksTo(new, Root) = {}
      BY <1>1, <1>2, <1>6, <1>7, InodesAssumption DEF Sound, NamedOnce, IsDir
    <2>2. ASSUME NEW i \in Inodes \ {Root}, IsDir(new, i)
          PROVE  \E l \in LinksTo(new, i) : LinksTo(new, i) = {l}
      <3>1. PICK l \in LinksTo(tab, i) : LinksTo(tab, i) = {l}
        BY <2>2, <1>2 DEF Sound, NamedOnce, IsDir
      <3>2. CASE i = ino
        BY <3>1, <3>2, <1>1, <1>6, <1>7
      <3>3. CASE i # ino
        BY <3>1, <3>3, <1>6, <1>7
      <3> QED
        BY <3>2, <3>3
    <2> QED
      BY <2>1, <2>2 DEF NamedOnce
  <1> QED
    BY <1>2, <1>8, <1>10, <1>11 DEF Sound, new

(* A rename that replaces an entry first releases its inode, as a removal  *)
(* does, and then moves within the table that leaves.                      *)
LEMMA RenameFacts ==
  ASSUME Sound(inodes), NEW p1 \in Inodes, NEW n1 \in Names, NEW p2 \in Inodes, NEW n2 \in Names,
         RenameAt(p1, n1, p2, n2)
  PROVE  \E tab :
           /\ Sound(tab)
           /\ Has(tab, p1, n1) /\ IsDir(tab, p2) /\ ~Has(tab, p2, n2)
           /\ tab[p1].entries[n1] = inodes[p1].entries[n1]
           /\ inodes' = Move(tab, p1, n1, p2, n2)
           /\ \/ tab = inodes
              \/ /\ Has(inodes, p2, n2)
                 /\ LET ino == inodes[p2].entries[n2].ino
                    IN (IsDir(inodes, ino) => inodes[ino].entries = NoEntries) /\ ~inodes[ino].immutable
                 /\ tab = Release(inodes, p2, n2)
  <1> DEFINE e == inodes[p1].entries[n1]
             old == inodes[p2].entries[n2]
             freed == Release(inodes, p2, n2)
  <1>1. Has(inodes, p1, n1) /\ IsDir(inodes, p2)
    BY DEF RenameAt
  <1>2. CASE ~Has(inodes, p2, n2)
    BY <1>1, <1>2 DEF RenameAt
  <1>3. CASE Has(inodes, p2, n2)
    <2>1. /\ old.ino # e.ino
          /\ ~inodes[old.ino].immutable
          /\ IsDir(inodes, old.ino) => inodes[old.ino].entries = NoEntries
          /\ inodes' = Move(freed, p1, n1, p2, n2)
      BY <1>3 DEF RenameAt, Replaceable
    <2>2. Sound(freed)
      BY <1>3, <2>1, ReleaseSound
    <2>3. /\ \A x \in Inodes, m \in Names :
               /\ Has(freed, x, m) <=> Has(inodes, x, m) /\ <<x, m>> \notin {<<p2, n2>>}
               /\ Has(freed, x, m) => freed[x].entries[m] = inodes[x].entries[m]
          /\ \A i \in Inodes \ {old.ino} : freed[i].kind = inodes[i].kind
      BY <1>3, <2>1, ReleaseFacts
    <2>4. old.ino # p2
      <3>1. DOMAIN NoEntries = {}
        BY DEF NoEntries
      <3> QED
        BY <3>1, <1>1, <1>3, <2>1 DEF Has
    <2> HIDE DEF freed
    <2>5. Has(freed, p1, n1) /\ ~Has(freed, p2, n2) /\ IsDir(freed, p2) /\ freed[p1].entries[n1] = inodes[p1].entries[n1]
      BY <1>1, <2>1, <2>3, <2>4 DEF IsDir
    <2> QED
      BY <1>3, <2>1, <2>2, <2>5 DEF freed
  <1> QED
    BY <1>2, <1>3

(* Gofs::rename_at leaves a sound table.                                   *)
LEMMA RenameSound ==
  ASSUME Sound(inodes), NEW p1 \in Inodes, NEW n1 \in Names, NEW p2 \in Inodes, NEW n2 \in Names,
         RenameAt(p1, n1, p2, n2)
  PROVE  Sound(inodes')
  <1>1. PICK tab : /\ Sound(tab)
                   /\ Has(tab, p1, n1) /\ IsDir(tab, p2) /\ ~Has(tab, p2, n2)
                   /\ inodes' = Move(tab, p1, n1, p2, n2)
    BY RenameFacts
  <1> QED
    BY <1>1, MoveSound

(* Unlink and rmdir leave a sound table.                                   *)
LEMMA RemoveSound ==
  ASSUME Sound(inodes), NEW parent \in Inodes, NEW n \in Names, NEW wantDir \in BOOLEAN,
         RemoveEntry(parent, n, wantDir)
  PROVE  Sound(inodes')
  BY ReleaseSound DEF RemoveEntry

-----------------------------------------------------------------------------
(* What a step keeps *)

(* No step turns a file into a directory or the other way round, or gives *)
(* up an immutable inode.                                                  *)
Kept(tab, new) ==
  \A i \in Inodes :
    /\ new[i].kind = tab[i].kind \/ tab[i].kind = "free" \/ new[i].kind = "free"
    /\ tab[i].immutable => new[i].immutable

(* Gofs::mknod takes a free inode.                                         *)
LEMMA MknodKept ==
  ASSUME Sound(inodes), NEW parent \in Inodes, NEW n \in Names, NEW kind \in {"file", "dir"},
         Mknod(parent, n, kind)
  PROVE  Kept(inodes, inodes')
  <1>1. PICK ino \in Inodes : inodes[ino] = Free /\ NewEntry(inodes, inodes', ino, parent, n, kind)
    BY MknodFacts
  <1>2. /\ \A i \in Inodes \ {ino} : inodes'[i].kind = inodes[i].kind /\ inodes'[i].immutable = inodes[i].immutable
        /\ inodes[ino].kind = "free" /\ inodes[ino].immutable = FALSE
    BY <1>1 DEF NewEntry, Free
  <1> QED
    BY <1>2 DEF Kept

(* Gofs::link_at changes no kind.                                          *)
LEMMA LinkKept ==
  ASSUME Sound(inodes), NEW ino \in Inodes, NEW parent \in Inodes, NEW n \in Names,
         LinkAt(ino, parent, n)
  PROVE  Kept(inodes, inodes')
  BY LinkFacts DEF Kept

(* Gofs::remove_common gives up at most the inode named, which is not      *)
(* immutable.                                                              *)
LEMMA ReleaseKept ==
  ASSUME NEW tab, Sound(tab), NEW d \in Inodes, NEW n \in Names, Has(tab, d, n),
         LET ino == tab[d].entries[n].ino
         IN (IsDir(tab, ino) => tab[ino].entries = NoEntries) /\ ~tab[ino].immutable
  PROVE  Kept(tab, Release(tab, d, n))
  <1> DEFINE ino == tab[d].entries[n].ino
             new == Release(tab, d, n)
  <1>1. \A i \in Inodes \ {ino} : new[i].kind = tab[i].kind /\ new[i].immutable = tab[i].immutable
    BY ReleaseFacts
  <1>2. (tab[ino].kind = "file" /\ new[ino].kind = "file") \/ new[ino] = Free
    BY ReleaseFacts
  <1>3. Free.kind = "free" /\ ~tab[ino].immutable
    BY DEF Free
  <1> HIDE DEF ino, new
  <1>4. Kept(tab, new)
    BY <1>1, <1>2, <1>3 DEF Kept
  <1> QED
    BY <1>4 DEF new

(* So do unlink and rmdir.                                                 *)
LEMMA RemoveKept ==
  ASSUME Sound(inodes), NEW parent \in Inodes, NEW n \in Names, NEW wantDir \in BOOLEAN,
         RemoveEntry(parent, n, wantDir)
  PROVE  Kept(inodes, inodes')
  BY ReleaseKept DEF RemoveEntry

(* Gofs::rename_at gives up at most the inode of the entry it replaces,    *)
(* which it has found mutable.                                             *)
LEMMA RenameKept ==
  ASSUME Sound(inodes), NEW p1 \in Inodes, NEW n1 \in Names, NEW p2 \in Inodes, NEW n2 \in Names,
         RenameAt(p1, n1, p2, n2)
  PROVE  Kept(inodes, inodes')
  <1>1. PICK tab :
           /\ Sound(tab)
           /\ Has(tab, p1, n1) /\ IsDir(tab, p2) /\ ~Has(tab, p2, n2)
           /\ inodes' = Move(tab, p1, n1, p2, n2)
           /\ \/ tab = inodes
              \/ /\ Has(inodes, p2, n2)
                 /\ LET ino == inodes[p2].entries[n2].ino
                    IN (IsDir(inodes, ino) => inodes[ino].entries = NoEntries) /\ ~inodes[ino].immutable
                 /\ tab = Release(inodes, p2, n2)
    BY RenameFacts
  <1>2. Kept(inodes, tab)
    <2>1. CASE tab = inodes
      BY <2>1 DEF Kept
    <2>2. CASE tab # inodes
      BY <1>1, <2>2, ReleaseKept
    <2> QED
      BY <2>1, <2>2
  <1>3. \A i \in Inodes : inodes'[i].kind = tab[i].kind /\ inodes'[i].immutable = tab[i].immutable
    BY <1>1, MoveFacts
  <1> QED
    BY <1>2, <1>3 DEF Kept

(* An inode in use has a name, the root apart: its count is not zero.      *)
LEMMA InUseNamed ==
  ASSUME NEW tab, Sound(tab), NEW i \in Inodes \ {Root}, tab[i] # Free
  PROVE  LinksTo(tab, i) # {}
  <1>1. tab[i].kind \in {"file", "dir"} /\ tab[i].nlink # 0
    BY TableFacts DEF Sound
  <1>2. Cardinality({}) = 0
    BY FS_EmptySet
  <1> QED
    BY <1>1, <1>2 DEF Sound, LinkCounts, NamedOnce, IsDir

-----------------------------------------------------------------------------
(* The theorems                                                            *)

(* The table mkfs leaves is sound.                                         *)
LEMMA InitSound ==
  ASSUME Init
  PROVE  Sound(inodes)
  <1>1. NoEntries \in UNION {[S -> EntrySet] : S \in SUBSET Names} /\ DOMAIN NoEntries = {}
    <2>1. NoEntries \in [{} -> EntrySet] /\ DOMAIN NoEntries = {}
      BY DEF NoEntries
    <2> QED
      BY <2>1
  <1>2. NewInode("dir") \in InUse /\ NewInode("dir").kind = "dir" /\ NewInode("dir").nlink = 2
        /\ NewInode("dir").entries = NoEntries
    BY <1>1 DEF NewInode, InUse
  <1>3. Cardinality({}) = 0
    BY FS_EmptySet
  <1>4. Free.kind = "free"
    BY DEF Free
  <1>5. CASE inodes = [i \in Inodes |-> IF i = Root THEN NewInode("dir") ELSE Free]
    <2>1. /\ inodes \in Tables
          /\ inodes[Root] = NewInode("dir")
          /\ \A i \in Inodes \ {Root} : inodes[i] = Free
      BY <1>2, <1>5, InodesAssumption DEF Tables
    <2>2. \A d \in Inodes, n \in Names : ~Has(inodes, d, n)
      BY <1>1, <1>2, <1>4, <2>1 DEF Has, IsDir
    <2>3. \A i \in Inodes : LinksTo(inodes, i) = {} /\ Subdirs(inodes, i) = {}
      BY <2>2 DEF LinksTo, Subdirs
    <2>4. LinkCounts(inodes)
      BY <1>2, <1>3, <1>4, <2>1, <2>3 DEF LinkCounts
    <2>5. NamedOnce(inodes)
      BY <1>2, <1>4, <2>1, <2>3, InodesAssumption DEF NamedOnce, IsDir
    <2> QED
      BY <2>1, <2>2, <2>4, <2>5 DEF Sound, EntriesTyped
  <1>6. CASE inodes = [i \in Inodes |->
               CASE i = Root -> [NewInode("dir") EXCEPT !.entries = [n \in {KernelName} |-> Entry(Kernel, "file")]]
                 [] i = Kernel -> [NewInode("file") EXCEPT !.immutable = TRUE]
                 [] OTHER -> Free]
    <2> DEFINE ents == [n \in {KernelName} |-> Entry(Kernel, "file")]
               root == [kind |-> "dir", nlink |-> 2, immutable |-> FALSE, entries |-> ents]
               kern == [kind |-> "file", nlink |-> 1, immutable |-> TRUE, entries |-> NoEntries]
    <2>1. inodes[Root] = root /\ inodes[Kernel] = kern /\ \A i \in Inodes \ {Root, Kernel} : inodes[i] = Free
      <3>1. inodes[Root] = root
        BY <1>6, InodesAssumption DEF NewInode
      <3>2. inodes[Kernel] = kern
        BY <1>6, InodesAssumption DEF NewInode
      <3>3. \A i \in Inodes \ {Root, Kernel} : inodes[i] = Free
        BY <1>6
      <3> QED
        BY <3>1, <3>2, <3>3
    <2>2. root \in InUse /\ kern \in InUse
      <3>1. ents \in [{KernelName} -> EntrySet]
        BY InodesAssumption DEF Entry, EntrySet
      <3>2. ents \in UNION {[S -> EntrySet] : S \in SUBSET Names}
        BY <3>1, NamesAssumption
      <3> HIDE DEF ents
      <3>3. root \in InUse
        BY <3>2 DEF InUse
      <3>4. kern \in InUse
        BY <1>1 DEF InUse
      <3> QED
        BY <3>3, <3>4
    <2>3. inodes \in Tables
      <3>1. inodes = [i \in Inodes |-> inodes[i]]
        BY <1>6
      <3> QED
        BY <2>1, <2>2, <3>1 DEF Tables
    <2>4. /\ \A d \in Inodes, n \in Names : Has(inodes, d, n) <=> d = Root /\ n = KernelName
          /\ inodes[Root].entries[KernelName].ino = Kernel
          /\ inodes[Root].entries[KernelName].ftype = "file"
      BY <2>1, <1>4, InodesAssumption, NamesAssumption DEF Has, IsDir, Entry
    <2>5. /\ LinksTo(inodes, Kernel) = {<<Root, KernelName>>}
          /\ \A i \in Inodes \ {Kernel} : LinksTo(inodes, i) = {}
          /\ \A i \in Inodes : Subdirs(inodes, i) = {}
      BY <2>4, InodesAssumption, NamesAssumption DEF LinksTo, Subdirs
    <2>6. Cardinality({<<Root, KernelName>>}) = 1
      BY FS_Singleton
    <2>7. LinkCounts(inodes)
      BY <1>3, <1>4, <2>1, <2>5, <2>6 DEF LinkCounts
    <2>8. NamedOnce(inodes)
      BY <1>4, <2>1, <2>5, InodesAssumption DEF NamedOnce, IsDir
    <2>9. EntriesTyped(inodes)
      BY <2>1, <2>4 DEF EntriesTyped
    <2> QED
      BY <2>3, <2>7, <2>8, <2>9 DEF Sound
  <1> QED
    BY <1>5, <1>6 DEF Init

(* Every step keeps the invariant, and keeps what Kept says.               *)
LEMMA NextSound ==
  ASSUME Sound(inodes), [Next]_inodes
  PROVE  Sound(inodes') /\ Kept(inodes, inodes')
  <1>1. ASSUME NEW parent \in Inodes, NEW n \in Names, NEW kind \in {"file", "dir"}, Mknod(parent, n, kind)
        PROVE  Sound(inodes') /\ Kept(inodes, inodes')
    BY <1>1, MknodSound, MknodKept
  <1>2. ASSUME NEW parent \in Inodes, NEW n \in Names, NEW ino \in Inodes, LinkAt(ino, parent, n)
        PROVE  Sound(inodes') /\ Kept(inodes, inodes')
    BY <1>2, LinkSound, LinkKept
  <1>3. ASSUME NEW parent \in Inodes, NEW n \in Names, NEW wantDir \in BOOLEAN, RemoveEntry(parent, n, wantDir)
        PROVE  Sound(inodes') /\ Kept(inodes, inodes')
    BY <1>3, RemoveSound, RemoveKept
  <1>4. ASSUME NEW from \in Paths, NEW to \in Paths, Rename(from, to)
        PROVE  Sound(inodes') /\ Kept(inodes, inodes')
    <2>1. ResolveParent(from) \subseteq Inodes \X Names /\ ResolveParent(to) \subseteq Inodes \X Names
      BY DEF ResolveParent
    <2>2. PICK src \in ResolveParent(from), dst \in ResolveParent(to) : RenameAt(src[1], src[2], dst[1], dst[2])
      BY <1>4 DEF Rename
    <2>3. src[1] \in Inodes /\ src[2] \in Names /\ dst[1] \in Inodes /\ dst[2] \in Names
      BY <2>1
    <2> QED
      BY <2>2, <2>3, RenameSound, RenameKept
  <1>5. CASE UNCHANGED inodes
    BY <1>5 DEF Kept
  <1> QED
    BY <1>1, <1>2, <1>3, <1>4, <1>5 DEF Next

(* The invariant of the specification.                                     *)
IInv == Sound(inodes)

(* Sound holds in every behaviour.                                         *)
LEMMA Invariance == Spec => []IInv
  <1>1. Init => IInv
    BY InitSound DEF IInv
  <1>2. IInv /\ [Next]_inodes => IInv'
    BY NextSound DEF IInv
  <1> QED
    BY <1>1, <1>2, PTL DEF Spec

(* Sound in the terms of Namespace.                                        *)
LEMMA SoundConsequences ==
  ASSUME Sound(inodes)
  PROVE  TypeOK /\ EntriesSound
  <1>1. \A d \in Inodes : DOMAIN inodes[d].entries \subseteq Names
    BY TableFacts DEF Sound
  <1> QED
    BY <1>1 DEF Sound, TypeOK, Tables, EntriesSound, EntriesTyped, Has

(* The inode table keeps its type through mknod, link, remove and rename:  *)
(* an inode in use has a positive count (remove_common gives it up at      *)
(* zero) and entries that name inodes.                                     *)
THEOREM TypeCorrect == Spec => []TypeOK
  <1>1. IInv => TypeOK
    BY SoundConsequences DEF IInv
  <1> QED
    BY <1>1, Invariance, PTL

(* An entry never names a freed inode, nor one of another type than it     *)
(* says: what rename_at and walk_dir of fsck take for granted.             *)
THEOREM EntriesCorrect == Spec => []EntriesSound
  <1>1. IInv => EntriesSound
    BY SoundConsequences DEF IInv
  <1> QED
    BY <1>1, Invariance, PTL

(* nlink is at all times what fsck's walk would count, for files and for   *)
(* directories, and no directory ever has two names or none: link_at       *)
(* refuses directories and rename_at adjusts both parents.                 *)
THEOREM LinksCounted == Spec => [](LinkCounts(inodes) /\ NamedOnce(inodes))
  <1>1. IInv => LinkCounts(inodes) /\ NamedOnce(inodes)
    BY DEF IInv, Sound
  <1> QED
    BY <1>1, Invariance, PTL

(* The kernel's inode is never given up, and always has a name.            *)
KernelNamed ==
  [][inodes[Kernel].immutable => inodes'[Kernel].immutable /\ LinksTo(inodes', Kernel) # {}]_inodes

(* remove_common and rename_at refuse to drop the last name of the         *)
(* immutable inode, so it stays in use and named whatever is linked, moved *)
(* and replaced around it.                                                 *)
THEOREM KernelStays == Spec => KernelNamed
  <1>1. ASSUME IInv, IInv', [Next]_inodes
        PROVE  [inodes[Kernel].immutable => inodes'[Kernel].immutable /\ LinksTo(inodes', Kernel) # {}]_inodes
    <2>1. Kernel \in Inodes \ {Root}
      BY InodesAssumption
    <2>2. inodes[Kernel].immutable => inodes'[Kernel].immutable
      BY <1>1, <2>1, NextSound DEF IInv, Kept
    <2>3. inodes'[Kernel].immutable => inodes'[Kernel] # Free
      BY DEF Free
    <2>4. inodes'[Kernel] # Free => LinksTo(inodes', Kernel) # {}
      BY <1>1, <2>1, InUseNamed DEF IInv
    <2> QED
      BY <2>2, <2>3, <2>4
  <1> QED
    BY <1>1, Invariance, PTL DEF Spec, KernelNamed
=============================================================================
