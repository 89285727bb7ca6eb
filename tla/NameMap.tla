------------------------------ MODULE NameMap ------------------------------
(***************************************************************************)
(* What a directory promises: a finite map from names to inodes, changed   *)
(* one entry at a time.                                                    *)
(***************************************************************************)
CONSTANTS Names, Inodes

VARIABLE entries  \* the <<name, inode>> pairs that a listing shows

Named(n) == {e \in entries : e[1] = n}

Init == entries = {}

InsertEntry(n, i) == Named(n) = {} /\ entries' = entries \cup {<<n, i>>}
RemoveEntry(n) == Named(n) # {} /\ entries' = entries \ Named(n)

Next == \E n \in Names : RemoveEntry(n) \/ \E i \in Inodes : InsertEntry(n, i)
Spec == Init /\ [][Next]_entries
=============================================================================
