---------------------------- MODULE OffsetCommits ----------------------------
(***************************************************************************)
(* What storing and committing offsets looks like from outside, and how    *)
(* InventoryConsumer describes it: a commit is one step, and all that is   *)
(* stored is the last finished offset of each partition.                   *)
(***************************************************************************)
EXTENDS Integers

CONSTANT Partitions

VARIABLES
    pending,    \* the last stored offset of each partition, -1: none
    committed   \* the committed offset of each partition, -1: none

vars == <<pending, committed>>

Nothing == [p \in Partitions |-> -1]

Overlay ==
    [p \in Partitions |-> IF pending[p] = -1 THEN committed[p] ELSE pending[p]]

Init == pending = Nothing /\ committed = Nothing

Store ==
    /\ \E p \in Partitions :
          /\ pending'[p] \in Nat
          /\ pending' = [pending EXCEPT ![p] = pending'[p]]
    /\ UNCHANGED committed

CommitSucceeds ==
    /\ pending # Nothing
    /\ committed' = Overlay
    /\ pending' = Nothing

\* A commit that fails keeps what is stored, applied or not.
CommitFails ==
    /\ pending # Nothing
    /\ committed' = Overlay
    /\ UNCHANGED pending

Next == Store \/ CommitSucceeds \/ CommitFails

Spec == Init /\ [][Next]_vars

=============================================================================
