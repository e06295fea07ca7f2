---------------------------- MODULE RestartBudget ----------------------------
(***************************************************************************)
(* Whose failures use up Run's retries: InventoryConsumer with a history   *)
(* variable, the messages in hand at the restarts Run has counted.         *)
(***************************************************************************)
EXTENDS MCInventoryConsumer

VARIABLE blamed

\* Two messages Inventory takes.
TwoMessages == [p \in {p1} |-> [o \in 0..1 |-> ReportMsg]]

BudgetSpec ==
    /\ Init /\ blamed = [r \in Replicas |-> {}]
    /\ [][/\ Next
          /\ blamed' = [r \in Replicas |->
                IF retries'[r] > retries[r] THEN blamed[r] \union {msg[r]}
                ELSE IF retries'[r] = 0 THEN {} ELSE blamed[r]]
         ]_<<vars, blamed>>

\* consumer-max-retries is "the max number of retries to process a message
\* before killing consumer": when Run gives up, one message has failed every
\* time.  Run counts restarts over its whole life instead, and never starts
\* over after a message that went through.
BudgetIsPerMessage ==
    \A r \in Replicas :
        (pc[r] = "new" /\ ~InBudget(ConsumerMaxRetries, retries[r])) =>
            Cardinality(blamed[r]) = 1

=============================================================================
