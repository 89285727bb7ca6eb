------------------------------- MODULE Device -------------------------------
(***************************************************************************)
(* The block device of device.rs, as a program above it can observe it.    *)
(*                                                                         *)
(* A pwrite is seen at once by every later pread (the page cache), but     *)
(* only a sync makes it durable.  Nothing orders the writes between two    *)
(* syncs: a power cut keeps every write of the finished epochs and an      *)
(* arbitrary subset of the current one, and may tear writes that were      *)
(* under way, leaving garbage in place of old and new contents alike       *)
(* (device.rs:4-8, and the crash states of tests/crash.rs).                *)
(*                                                                         *)
(* Locations are the units the layers above write whole: superblock        *)
(* copies and blocks.  Their contents are records with a field "kind".     *)
(***************************************************************************)

VARIABLES
  durable,  \* what the medium holds: every write of the finished epochs
  cache,    \* what a pread returns
  pending   \* the <<location, content>> pairs written in the current epoch

deviceVars == <<durable, cache, pending>>

(* What a torn write leaves: no magic, no checksum matches it. *)
Torn == [kind |-> "torn"]

(* The image img after the writes ws, a function from locations to contents. *)
Overlay(img, ws) ==
  [l \in DOMAIN img |-> IF l \in DOMAIN ws THEN ws[l] ELSE img[l]]

(* A batch of pwrites to distinct locations. *)
Pwrite(ws) ==
  /\ cache' = Overlay(cache, ws)
  /\ pending' = pending \cup {<<l, ws[l]>> : l \in DOMAIN ws}
  /\ UNCHANGED durable

(* sync: the epoch ends and everything written is durable. *)
Sync ==
  /\ durable' = cache
  /\ pending' = {}
  /\ UNCHANGED cache

(* What may have reached the medium: at most one content per location. *)
Landings ==
  {S \in SUBSET pending : \A p, q \in S : p[1] = q[1] => p = q}

(* The medium after a power cut at which the writes S landed, except that  *)
(* those to the locations in torn left garbage.                            *)
AfterCut(S, torn) ==
  [l \in DOMAIN durable |->
     IF l \in torn THEN Torn
     ELSE IF \E p \in S : p[1] = l THEN (CHOOSE p \in S : p[1] = l)[2]
     ELSE durable[l]]

CutTo(img) ==
  /\ durable' = img
  /\ cache' = img
  /\ pending' = {}
=============================================================================
