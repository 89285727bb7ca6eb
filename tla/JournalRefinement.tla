------------------------- MODULE JournalRefinement -------------------------
(***************************************************************************)
(* Journal implements MetadataStore: at every instant, what a recovery of  *)
(* the medium alone would find is the abstract store.                      *)
(***************************************************************************)
EXTENDS Journal

VARIABLE recoverable  \* auxiliary: Recovered(durable), so that TLC computes it once a step

(* replay's loop on the image img, after n rounds: where it looks for a    *)
(* transaction, and for which.  A round that finds none changes nothing.   *)
Replaying(img) ==
  LET start == RecoverySuperblock(img)
      round(x) ==
        LET pos == FoundAt(img, x.head, x.seq) IN
        IF Found(img, x.head, x.seq)
        THEN [head |-> Advance(pos, Needed(img[J(pos)].targets)), seq |-> x.seq + 1]
        ELSE x
      after[n \in Nat] == IF n = 0 THEN [head |-> start.head, seq |-> start.seq] ELSE round(after[n - 1])
  IN after

(* What a recovery of img leaves in each block: the operation that wrote   *)
(* it, 0 - 1 if it is left torn.  The journal holds fewer transactions     *)
(* than it has blocks.                                                     *)
Recovered(img) ==
  LET loop == Replaying(img)
      found == {n \in Heads : Found(img, loop[n].head, loop[n].seq)}
      batch(n) == ReplayWrites(img, FoundAt(img, loop[n].head, loop[n].seq))
      writers(b) == {n \in found : M(b) \in DOMAIN batch(n)}
      last(b) == CHOOSE n \in writers(b) : \A m \in writers(b) : m <= n
      content(b) == IF writers(b) = {} THEN img[M(b)] ELSE batch(last(b))[M(b)]
  IN [b \in Blocks |-> IF content(b).kind = "block" THEN content(b).id ELSE 0 - 1]

AbstractOp(t) == [id |-> t.id, blocks |-> {t.targets[i] : i \in DOMAIN t.targets}]

RInit == Init /\ recoverable = Recovered(durable)
RNext == Next /\ recoverable' = Recovered(durable')
RSpec == RInit /\ [][RNext]_<<vars, recoverable>> /\ Fairness

Store == INSTANCE MetadataStore WITH
  Transactions <- {{s[i] : i \in DOMAIN s} : s \in TargetLists},
  store <- recoverable,
  op <- AbstractOp(txn),
  aborted <- {AbstractOp(t) : t \in lost}

(* commit and replay implement the atomic store: the recoverable metadata  *)
(* changes only when one whole operation becomes durable, never in a       *)
(* recovery, and no caller is told of an operation that is not durable.    *)
ImplementsStore == Store!Spec
=============================================================================
