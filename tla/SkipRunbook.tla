----------------------------- MODULE SkipRunbook -----------------------------
(***************************************************************************)
(* The operator's remedy for a message that cannot be processed, from      *)
(* docs/runbooks/prod/consumer-message-process-failures.md: with the       *)
(* consumers inactive, move the group's offset by one and let them start.  *)
(***************************************************************************)
EXTENDS MCInventoryConsumer

VARIABLE skipped   \* the messages the operator has skipped

\* The message the runbook finds at fault: the first after CURRENT-OFFSET.
Culprit(p, o) ==
    /\ o \in DOMAIN Log[p] /\ o > committed[p]
    /\ \A k \in DOMAIN Log[p] : k > committed[p] => o <= k

\* kafka-consumer-groups.sh --reset-offsets --shift-by 1, while the replica
\* that failed waits for its next start.
ShiftOffset(p, o) ==
    /\ skipped = {}
    /\ committed[p] # NoOffset
    /\ Culprit(p, o)
    /\ \A r \in Replicas : ~member[r]
    /\ \E r \in Replicas : pc[r] = "new" /\ msg[r] = <<p, o>>
    /\ committed' = [committed EXCEPT ![p] = @ + 1]
    /\ skipped' = {<<p, o>>}
    /\ UNCHANGED <<pc, retries, msg, attempts, pending, shutdownInProgress,
                   clientVars, groupVars, serviceVars, commitFailures,
                   disruptions>>

SkipSpec ==
    /\ Init /\ skipped = {}
    /\ [][\/ Next /\ UNCHANGED skipped
          \/ \E p \in Partitions : \E o \in DOMAIN Log[p] : ShiftOffset(p, o)
         ]_<<vars, skipped>>

\* "Shift to next offset to skip the bad message": no replica has it in hand
\* again.  The committed offset is that of the last message processed, and
\* not the one after it, so one further is the bad message itself.
SkippedStaysSkipped ==
    \A r \in Replicas :
        InHand(r) => msg[r] \notin skipped

=============================================================================
