------------------------------- MODULE MCFile -------------------------------
(* File, with the writes that the runs try. *)
EXTENDS File

(* One that fits in the inode, one that leaves a hole below it, and one of *)
(* two blocks, part of the first, that leaves another.                     *)
SmallWrites == {<<0, 1>>, <<3, 1>>, <<7, 3>>}

(* Three blocks, more than Fanout, for which the allocator takes whole L1  *)
(* cells; the block after them; and one further on.                        *)
LargeWrites == {<<0, 6>>, <<6, 2>>, <<14, 2>>}
=============================================================================
