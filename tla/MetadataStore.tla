--------------------------- MODULE MetadataStore ---------------------------
(***************************************************************************)
(* What the journal promises to the operations above it: metadata that     *)
(* survives every fault and changes only by whole operations.              *)
(*                                                                         *)
(* store is what a recovery would find on the medium at this instant.      *)
(* Faults and recoveries are not visible here: they may only take the      *)
(* steps below, or none.                                                   *)
(***************************************************************************)
EXTENDS Naturals

CONSTANTS
  Blocks,        \* the metadata blocks
  Transactions,  \* the sets of blocks one operation may rewrite
  Ids            \* names of operations, not 0

VARIABLES
  store,    \* the durable metadata: block -> operation that wrote it
  op,       \* the operation in flight: [id, blocks], or None
  aborted,  \* operations that were given up, on the present store
  acked     \* the metadata as the callers know it

vars == <<store, op, aborted, acked>>

None == [id |-> 0, blocks |-> {}]
After(s, o) == [b \in Blocks |-> IF b \in o.blocks THEN o.id ELSE s[b]]

Init ==
  /\ store = [b \in Blocks |-> 0]
  /\ op = None
  /\ aborted = {}
  /\ acked = store

Begin ==
  /\ op = None
  /\ \E id \in Ids, blocks \in Transactions : op' = [id |-> id, blocks |-> blocks]
  /\ UNCHANGED <<store, aborted, acked>>

(* The operation becomes durable, all of it at once.  So may, instead, one *)
(* given up earlier, as long as nothing else became durable since.         *)
BecomeDurable ==
  /\ store = acked
  /\ \E o \in {op} \cup aborted : o # None /\ store' = After(store, o)
  /\ UNCHANGED <<op, aborted, acked>>

(* The callers learn that what is durable was done, the operation in       *)
(* flight or one given up earlier.                                         *)
Acknowledge ==
  /\ store # acked
  /\ acked' = store
  /\ op' = None /\ aborted' = {}
  /\ UNCHANGED store

(* They learn, from a recovery, that nothing was done. *)
GiveUp ==
  /\ op # None
  /\ store = acked
  /\ aborted' = aborted \cup {op}
  /\ op' = None
  /\ UNCHANGED <<store, acked>>

Next == Begin \/ BecomeDurable \/ Acknowledge \/ GiveUp
Spec == Init /\ [][Next]_vars
=============================================================================
