----------------------------- MODULE GroupStore -----------------------------
(***************************************************************************)
(* What resizing promises: allocation groups that are added, filled,       *)
(* emptied and retired whole.  Where a group lies on the device is not     *)
(* visible here, and neither are relocations, faults and recoveries.       *)
(***************************************************************************)
EXTENDS Sequences, Naturals

VARIABLES
  groups,  \* what a recovery would find: a state for each group, by its id
  intent   \* what groups is to be once the operation in flight is done, or None

vars == <<groups, intent>>

None == <<"none">>

(* The groups after one operation: an id is given out once, in order, and  *)
(* a retired group stays retired.                                          *)
Changed(from, to) == {[groups EXCEPT ![i] = to] : i \in {j \in DOMAIN groups : groups[j] = from}}
Outcomes == {Append(groups, "empty")} \cup Changed("empty", "retired")
Writes == Changed("empty", "full") \cup Changed("full", "empty")

Init == groups \in Seq({"empty"}) /\ intent = None

Begin == intent = None /\ intent' \in Outcomes /\ UNCHANGED groups

(* The operation in flight becomes durable, at once, and may end with it.  *)
Happen == intent # None /\ groups' = intent /\ intent' \in {intent, None}

(* It ends, done or interrupted.  The callers learn which from groups.     *)
End == intent # None /\ intent' = None /\ UNCHANGED groups

(* A transaction allocates in a group, or frees what was allocated.        *)
Write == intent = None /\ groups' \in Writes /\ UNCHANGED intent

Next == Begin \/ Happen \/ End \/ Write
Spec == Init /\ [][Next]_vars
=============================================================================
