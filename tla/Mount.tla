-------------------------------- MODULE Mount --------------------------------
(***************************************************************************)
(* mount5fs.rs over Namespace: the handlers that the kernel calls for a    *)
(* mounted volume, and readdir, which is called again and again while the  *)
(* directory changes.                                                      *)
(*                                                                         *)
(* A handler changes the volume by one call of the library.  What the      *)
(* kernel opened it names by its inode number alone: there is no open or   *)
(* release in mount5fs.rs, and the number of a removed inode may be given  *)
(* out again.  One open file or directory is followed here; read, write,   *)
(* getattr, setattr, readlink and fsync change no name and are no steps.   *)
(***************************************************************************)
EXTENDS Namespace

CONSTANTS
  Order,       \* Names, in the order of the strings
  EmbedNames,  \* names that an embedded directory has room for
  MaxLinks     \* bound: names in a mounted volume, in all directories together

ASSUME OrderAssumption == Order \in Seq(Names) /\ ToSet(Order) = Names /\ Len(Order) = Cardinality(Names)
ASSUME BoundsAssumption == EmbedNames \in Nat /\ MaxLinks \in Nat

VARIABLES
  client,  \* who uses the volume: the library's callers, or a mount, rw or ro
  open     \* what is open: see Opened, or NotOpen

mountVars == <<inodes, client, open>>

Dots == {".", ".."}
NamesIn(tab, dir) == IF IsDir(tab, dir) THEN DOMAIN tab[dir].entries ELSE {}
Place(seq, n) == CHOOSE i \in DOMAIN seq : seq[i] = n
(* The members of S in the order that they have in seq. *)
Arranged(S, seq) ==
  CHOOSE s \in SetToSeqs(S) : \A i, j \in DOMAIN s : i < j => Place(seq, s[i]) < Place(seq, s[j])
SortedNames(S) == Arranged(S, Order)

NotOpen == [ino |-> "none"]
(* Of an open inode: whether it is still the one that was opened, and is   *)
(* still named.  Of a directory: the names as dir_list has them, which is  *)
(* by name if it is hashed and in the order they came if it is embedded.   *)
(* Of a scan of it: the offset of the next readdir, the names told, those  *)
(* there since it was opened, those that a change moved to the other side  *)
(* of the offset or towards it, and those told again without that.         *)
Opened(ino, listing, hashed) ==
  [ino |-> ino, same |-> TRUE, named |-> TRUE, listing |-> listing, hashed |-> hashed,
   offset |-> 0, ended |-> FALSE, told |-> {}, stayed |-> ToSet(listing),
   displaced |-> {}, again |-> {}]
(* Its number was freed: no scan of it is followed any more. *)
Gone(ino, named) ==
  [Opened(ino, << >>, FALSE) EXCEPT !.same = FALSE, !.named = named]

Named(tab, ino) ==
  ino = Root \/ \E d \in Inodes : \E n \in NamesIn(tab, d) : tab[d].entries[n].ino = ino

(* What becomes of the listing when the names gone leave and the names     *)
(* come, one at most, are inserted: a hashed directory that empties        *)
(* collapses, an embedded one that overflows is hashed.                    *)
Relisted(o, gone, come) ==
  LET left == Arranged(ToSet(o.listing) \ gone, o.listing)
      hashed == (o.hashed /\ left # << >>) \/ Len(left) + Cardinality(come) > EmbedNames
      names == ToSet(left) \cup come
      new == IF hashed THEN SortedNames(names) ELSE left \o SortedNames(come)
  IN [o EXCEPT
        !.listing = new, !.hashed = hashed,
        !.told = @ \ gone, !.stayed = @ \ gone, !.again = @ \ gone,
        !.displaced = (@ \ gone) \cup
          {n \in ToSet(left) : IF n \in o.told THEN Place(new, n) > Place(o.listing, n)
                                              ELSE Place(new, n) < Place(o.listing, n)}]

(* open after a step that changes inodes.  A name that is replaced leaves  *)
(* and comes back.                                                         *)
Followed ==
  LET ino == open.ino
      old == NamesIn(inodes, ino)
      new == NamesIn(inodes', ino)
      kept == {n \in old \cap new : inodes[ino].entries[n] = inodes'[ino].entries[n]}
      named == open.named /\ Named(inodes', ino)
  IN IF open = NotOpen \/ open.ended THEN NotOpen
     ELSE IF ~open.same \/ inodes'[ino].kind # inodes[ino].kind THEN Gone(ino, named)
     ELSE [Relisted(open, old \ kept, new \ kept) EXCEPT !.named = named]

-----------------------------------------------------------------------------
(* Handlers that change the volume; a read-only mount refuses them.        *)

(* rename, which calls rename_at without the check of Gofs::rename: the    *)
(* kernel has refused to move a directory into itself or below itself.     *)
MountRename(p1, n1, p2, n2) ==
  /\ RenameAt(p1, n1, p2, n2)
  /\ LET ino == inodes[p1].entries[n1].ino
     IN IsDir(inodes, ino) => p2 \notin Below(inodes, ino)

Handler ==
  \E parent \in Inodes, n \in Names :
    \/ \E kind \in {"file", "dir"} : Mknod(parent, n, kind)  \* create, symlink; mkdir
    \/ \E wantDir \in BOOLEAN : RemoveEntry(parent, n, wantDir)  \* unlink; rmdir
    \/ \E ino \in Inodes : LinkAt(ino, parent, n)
    \/ \E p2 \in Inodes, n2 \in Names : MountRename(parent, n, p2, n2)

Links == UNION {{d} \X NamesIn(inodes, d) : d \in Inodes}
Change ==
  /\ client = "rw"
  /\ Handler
  /\ Cardinality(Links') <= MaxLinks
  /\ open' = Followed
  /\ UNCHANGED client

-----------------------------------------------------------------------------
(* What an open inode is used for *)

(* The kernel looks a name up and opens its inode; or the root.  Names may *)
(* have come in any order, and the directory may have been larger.         *)
Open(ino) ==
  /\ client # "library" /\ open = NotOpen
  /\ Named(inodes, ino)
  /\ LET names == NamesIn(inodes, ino) IN
     \/ /\ Cardinality(names) <= EmbedNames
        /\ \E s \in SetToSeqs(names) : open' = Opened(ino, s, FALSE)
     \/ names # {} /\ open' = Opened(ino, SortedNames(names), TRUE)
  /\ UNCHANGED <<inodes, client>>

Close == open # NotOpen /\ open' = NotOpen /\ UNCHANGED <<inodes, client>>

Scanning == open # NotOpen /\ open.same /\ IsDir(inodes, open.ino) /\ ~open.ended
Index(offset) == offset + 1 - Cardinality(Dots)
Told(n) ==
  [open EXCEPT !.told = @ \cup {n},
               !.displaced = @ \ {n},
               !.again = @ \cup ({n} \cap (open.told \ open.displaced))]

(* Mutant of Readdir: an entry carries its own index, not that of the next. *)
ReaddirSameOffset ==
  /\ Scanning
  /\ LET i == Index(open.offset) IN
     open' =
       IF open.offset = 0 THEN [open EXCEPT !.offset = Cardinality(Dots)]
       ELSE IF i > Len(open.listing) THEN [open EXCEPT !.ended = TRUE]
       ELSE Told(open.listing[i])
  /\ UNCHANGED <<inodes, client>>

(* readdir from an offset: an index into the entries as they are now, each *)
(* of which carries the index of the next.  The reply takes as many as     *)
(* there is room for: here the dots, or one name, since nothing comes      *)
(* between those of one reply.  An empty reply ends the scan.              *)
Readdir ==
  /\ Scanning
  /\ LET i == Index(open.offset) IN
     open' =
       IF open.offset = 0 THEN [open EXCEPT !.offset = Cardinality(Dots)]
       ELSE IF i > Len(open.listing) THEN [open EXCEPT !.ended = TRUE]
       ELSE [Told(open.listing[i]) EXCEPT !.offset = @ + 1]
  /\ UNCHANGED <<inodes, client>>

-----------------------------------------------------------------------------
MountInit == Init /\ client \in {"library", "rw", "ro"} /\ open = NotOpen

Call == client = "library" /\ Next /\ UNCHANGED <<client, open>>
MountNext ==
  \/ Call
  \/ Change
  \/ \E ino \in Inodes : Open(ino)
  \/ Close
  \/ Readdir

MountSpec == MountInit /\ [][MountNext]_mountVars

-----------------------------------------------------------------------------
(* Properties *)

(* An open inode is the one that was opened for as long as a name leads to *)
(* it, whatever was linked, removed and replaced meanwhile: only then may  *)
(* its number be freed and given out again (mount5fs.rs has no open count, *)
(* so after the last name the number means nothing, or another file).      *)
HandleKept == open # NotOpen /\ open.named => open.same

(* readdir tells every name that was there throughout, and none twice,     *)
(* except as far as its offsets shift under it: a name is missed only if   *)
(* one before it was removed, or the directory changed from embedded to    *)
(* hashed, and told again only if one was added before it or it changed so. *)
ScanSound ==
  open # NotOpen =>
    /\ open.ended => open.stayed \ open.told \subseteq open.displaced
    /\ open.again = {}

(* A handle tells an inode from a later one of its number, as a generation *)
(* in the manner of NFS would (doc/3-inodes.md:30): once what was opened   *)
(* is gone the handle means nothing.  mount5fs.rs replies generation 0 and *)
(* nothing sets an inode's, so that a handle is the number.                *)
HandleDetected == open # NotOpen /\ ~open.same => inodes[open.ino] = Free
=============================================================================
