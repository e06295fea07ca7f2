------------------------------ MODULE Delivery ------------------------------
(***************************************************************************)
(* What the consumer group promises the service providers, and nothing     *)
(* about how: every message of a partition is delivered to Kessel          *)
(* Inventory in the order of the log, except those that are passed over on *)
(* purpose, and the committed offset never runs ahead of the deliveries.   *)
(* Replicas, restarts, rebalances and retries do not occur here.           *)
(***************************************************************************)
EXTENDS Integers

CONSTANTS
    Partitions,   \* the partitions of the subscribed topics
    Offsets,      \* Offsets[p]: the offsets of the messages of partition p
    PassedOver       \* positions that need not be delivered

VARIABLES
    delivered,    \* positions whose request took effect at least once
    committed     \* the committed offset of each partition, -1: none

vars == <<delivered, committed>>

Done(p, o) == <<p, o>> \in delivered \/ <<p, o>> \in PassedOver

Init ==
    /\ delivered = {}
    /\ committed = [p \in Partitions |-> -1]

\* The first delivery of a message.  (Later ones change nothing here.)
Deliver(p, o) ==
    /\ \A k \in Offsets[p] : k < o => Done(p, k)
    /\ <<p, o>> \notin delivered \union PassedOver
    /\ delivered' = delivered \union {<<p, o>>}
    /\ UNCHANGED committed

\* A commit may take offsets back, which repeats messages, but never past
\* one that is not done, which would lose it.
Commit ==
    /\ committed' \in [Partitions -> Nat \union {-1}]
    /\ \A p \in Partitions : \A k \in Offsets[p] :
          committed'[p] # committed[p] /\ k <= committed'[p] => Done(p, k)
    /\ UNCHANGED delivered

Next == (\E p \in Partitions : \E o \in Offsets[p] : Deliver(p, o)) \/ Commit

Spec == Init /\ [][Next]_vars

\* Every message is delivered at last.
FairSpec ==
    /\ Spec
    /\ \A p \in Partitions : \A o \in Offsets[p] : WF_vars(Deliver(p, o))

=============================================================================
