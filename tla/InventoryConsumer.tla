-------------------------- MODULE InventoryConsumer --------------------------
(***************************************************************************)
(* The Kafka consumer loop of consumer/consumer.go: Run restarts Consume,  *)
(* Consume polls a message, sends it to Kessel Inventory through Retry,    *)
(* stores its offset and commits stored offsets in batches; Shutdown and   *)
(* RebalanceCallback commit what is left before the partitions go away.    *)
(*                                                                         *)
(* Replicas run the same program in one consumer group.  A replica's       *)
(* program is one goroutine (librdkafka runs the rebalance callback inside *)
(* Poll and Close), so one value of pc stands for where it is; replicas,   *)
(* the group coordinator and Inventory interleave freely between steps.    *)
(* What the code uses but does not contain - the broker, the group         *)
(* protocol, Inventory - is modelled from how the code uses it.            *)
(***************************************************************************)
EXTENDS Integers, FiniteSets, Messages

CONSTANTS
    Replicas,             \* the processes of the consumer group
    Partitions,           \* the partitions of the subscribed topics
    Log,                  \* Log[p][o]: the message at offset o of partition p
    Enabled,              \* Client.IsEnabled()
    CommitModulo,         \* consumer.commit-modulo
    ConsumerMaxRetries,   \* retry-options.consumer-max-retries, -1: no limit
    OperationMaxRetries,  \* retry-options.operation-max-retries, -1: no limit
    MaxCommitFailures,    \* bound: commits a broker refuses to a member
    MaxHangs,             \* bound: replicas that wait for ever for an answer
    MaxDisruptions        \* bound: crashes, evictions, rebalances, signals...

Infinite == -1
NoOffset == -1
Nobody   == "nobody"

\* No replica is called nobody.
ASSUME GroupAssumption == Nobody \notin Replicas

\* The log may have gaps: compaction and transaction markers use offsets up.
ASSUME LogAssumption ==
    \A p \in Partitions :
        /\ DOMAIN Log[p] \subseteq Nat
        /\ \A o \in DOMAIN Log[p] : Log[p][o] \in Message

\* Options.Validate requires a positive commit modulo; the retry limits are
\* any integers.
ASSUME OptionsAssumption ==
    /\ Enabled \in BOOLEAN
    /\ CommitModulo \in Nat \ {0}
    /\ ConsumerMaxRetries \in Int
    /\ OperationMaxRetries \in Int

ASSUME BoundsAssumption ==
    /\ MaxCommitFailures \in Nat
    /\ MaxHangs \in Nat
    /\ MaxDisruptions \in Nat

VARIABLES
    \* The program, per replica.
    pc,                  \* where its goroutine is
    retries,             \* Run: restarts so far
    msg,                 \* Consume: position of the message in hand
    attempts,            \* Retry: failed attempts so far
    pending,             \* OffsetStorage: the last stored offset per partition
    shutdownInProgress,  \* the flag of that name
    \* The Kafka client, per replica.
    assigned,            \* the partitions it polls
    next,                \* where the message after the finished ones is read
    \* The broker.
    member,              \* replicas the coordinator counts in the group
    owner,               \* the member each partition is assigned to
    committed,           \* the committed offset of each partition
    \* Kessel Inventory.
    resolved,            \* positions whose request took effect
    inventory,           \* per partition, the request that took effect last
    \* Counters of the bounds.
    commitFailures, disruptions

loopVars     == <<pc, msg, attempts>>
offsetVars   == <<pending, committed, commitFailures>>
clientVars   == <<assigned, next>>
groupVars    == <<member, owner>>
serviceVars  == <<resolved, inventory>>
vars == <<pc, retries, msg, attempts, pending, shutdownInProgress, assigned,
          next, member, owner, committed, resolved, inventory,
          commitFailures, disruptions>>

NoMsg     == <<>>
Positions == UNION {{p} \X DOMAIN Log[p] : p \in Partitions}
Offsets   == Nat \union {NoOffset}

MessageOf(r) == Log[msg[r][1]][msg[r][2]]

\* OffsetStorage as made by New, and the read position of a new assignment.
NothingStored == [p \in Partitions |-> NoOffset]
NoPosition    == [p \in Partitions |-> 0]

\* The condition of the loops of Run and Retry, and their counters: under an
\* infinite budget the counter feeds the backoff only and is not kept.
\* (_OffByOne, here and below a name with such a suffix, is a mutant: the
\* definition with a plausible bug, which the properties must catch.)
InBudget_OffByOne(max, n) == max = Infinite \/ n <= max
InBudget(max, n) == max = Infinite \/ n < max
Count_Never(max, n) == n
Count(max, n)    == IF max = Infinite THEN n ELSE n + 1

Disrupt ==
    /\ disruptions < MaxDisruptions
    /\ disruptions' = disruptions + 1

Init ==
    /\ pc = [r \in Replicas |-> "new"]
    /\ retries = [r \in Replicas |-> 0]
    /\ msg = [r \in Replicas |-> NoMsg]
    /\ attempts = [r \in Replicas |-> 0]
    /\ pending = [r \in Replicas |-> NothingStored]
    /\ shutdownInProgress = [r \in Replicas |-> FALSE]
    /\ assigned = [r \in Replicas |-> {}]
    /\ next = [r \in Replicas |-> NoPosition]
    /\ member = [r \in Replicas |-> FALSE]
    /\ owner = [p \in Partitions |-> Nobody]
    /\ committed = [p \in Partitions |-> NoOffset]
    /\ resolved = {}
    /\ inventory = [p \in Partitions |-> NoOffset]
    /\ commitFailures = 0
    /\ disruptions = 0

-----------------------------------------------------------------------------
(***************************************************************************)
(* Offsets.  OffsetStorage is a list; the broker applies its entries in    *)
(* order, so only the last one of each partition matters and pending keeps *)
(* that.  CommitStoredOffsets empties it, calls the broker, and puts it    *)
(* back on an error.  The broker refuses a replica it no longer counts in  *)
(* the group; it does not ask who owns the partition.  A call may also     *)
(* fail after the broker applied it.                                       *)
(***************************************************************************)
HasOffsets(r) == pending[r] # NothingStored

Overlay(r) ==
    [p \in Partitions |->
        IF pending[r][p] = NoOffset THEN committed[p] ELSE pending[r][p]]

CommitSucceeds(r) ==
    /\ HasOffsets(r)
    /\ member[r]
    /\ committed' = Overlay(r)
    /\ pending' = [pending EXCEPT ![r] = NothingStored]
    /\ UNCHANGED commitFailures

\* The copy taken before the call goes back.  (Mutant: it does not.)
Restored_Never(r) == NothingStored

Restored(r) == pending[r]

\* The count saturates: a fenced replica may fail any number of times.
CommitFails(r) ==
    /\ HasOffsets(r)
    /\ member[r] => commitFailures < MaxCommitFailures
    /\ commitFailures' = IF commitFailures > MaxCommitFailures
                         THEN commitFailures ELSE commitFailures + 1
    /\ \/ UNCHANGED committed
       \/ member[r] /\ committed' = Overlay(r)
    /\ pending' = [pending EXCEPT ![r] = Restored(r)]

CommitStoredOffsets(r) ==
    \/ ~HasOffsets(r) /\ UNCHANGED offsetVars
    \/ CommitSucceeds(r)
    \/ CommitFails(r)

\* Mutants: the callback never commits; it reads the flag the wrong way.
RevokedPartitions_Skips(r) == UNCHANGED offsetVars

RevokedPartitions_Inverted(r) ==
    IF shutdownInProgress[r] THEN CommitStoredOffsets(r)
                             ELSE UNCHANGED offsetVars

\* RebalanceCallback for RevokedPartitions, inside Poll or Close.  (For
\* AssignedPartitions it only logs.)
RevokedPartitions(r) ==
    IF shutdownInProgress[r] THEN UNCHANGED offsetVars
                             ELSE CommitStoredOffsets(r)

\* Mutant: counts messages from one.
CheckIfCommit_OffByOne(o) == (o + 1) % CommitModulo = 0

CheckIfCommit(o) == o % CommitModulo = 0

-----------------------------------------------------------------------------
(***************************************************************************)
(* Run and the start of Consume.                                           *)
(***************************************************************************)
Release(r) == [p \in Partitions |-> IF owner[p] = r THEN Nobody ELSE owner[p]]

\* New and SubscribeTopics succeed.  The coordinator admits the new client
\* once the membership an earlier one may have left behind has timed out.
StartConsumer(r) ==
    /\ pc[r] = "new"
    /\ InBudget(ConsumerMaxRetries, retries[r])
    /\ ~member[r]
    /\ pc' = [pc EXCEPT ![r] = "polling"]
    /\ msg' = [msg EXCEPT ![r] = NoMsg]
    /\ attempts' = [attempts EXCEPT ![r] = 0]
    /\ pending' = [pending EXCEPT ![r] = NothingStored]
    /\ shutdownInProgress' = [shutdownInProgress EXCEPT ![r] = FALSE]
    /\ member' = [member EXCEPT ![r] = TRUE]
    /\ UNCHANGED <<retries, clientVars, owner, committed, serviceVars,
                   commitFailures, disruptions>>

\* New or SubscribeTopics fails: Run returns the error.
StartFails(r) ==
    /\ pc[r] = "new"
    /\ InBudget(ConsumerMaxRetries, retries[r])
    /\ Disrupt
    /\ pc' = [pc EXCEPT ![r] = "exited"]
    /\ UNCHANGED <<retries, msg, attempts, shutdownInProgress, offsetVars,
                   clientVars, groupVars, serviceVars>>

\* The loop of Run ends.
RetriesSpent(r) ==
    /\ pc[r] = "new"
    /\ ~InBudget(ConsumerMaxRetries, retries[r])
    /\ pc' = [pc EXCEPT ![r] = "exited"]
    /\ UNCHANGED <<retries, msg, attempts, shutdownInProgress, offsetVars,
                   clientVars, groupVars, serviceVars, disruptions>>

-----------------------------------------------------------------------------
(***************************************************************************)
(* The events of Consume's loop.                                           *)
(***************************************************************************)
\* Poll returns nothing, a recoverable error, statistics or an event the
\* loop ignores.
PollNothing(r) ==
    /\ pc[r] = "polling"
    /\ UNCHANGED vars

\* The client delivers the offsets of a partition in order.
IsNext(r, p, o) ==
    /\ o \in DOMAIN Log[p]
    /\ o >= next[r][p]
    /\ \A k \in DOMAIN Log[p] : k >= next[r][p] => o <= k

PollMessage(r) ==
    \E p \in assigned[r] : \E o \in DOMAIN Log[p] :
        /\ pc[r] = "polling"
        /\ IsNext(r, p, o)
        /\ msg' = [msg EXCEPT ![r] = <<p, o>>]
        /\ attempts' = [attempts EXCEPT ![r] = 0]
        /\ pc' = [pc EXCEPT ![r] =
                    CASE ProcessMessage(Log[p][o], Enabled) = "reject" -> "shutdown"
                      [] ProcessMessage(Log[p][o], Enabled) = "skip"   -> "store"
                      [] OTHER                                         -> "calling"]
        /\ UNCHANGED <<retries, shutdownInProgress, offsetVars, clientVars,
                       groupVars, serviceVars, disruptions>>

\* SIGINT or SIGTERM reaches the channel of Consume, or Poll returns a fatal
\* Kafka error.
StopPolling(r) ==
    /\ pc[r] = "polling"
    /\ Disrupt
    /\ pc' = [pc EXCEPT ![r] = "shutdown"]
    /\ UNCHANGED <<retries, msg, attempts, shutdownInProgress, offsetVars,
                   clientVars, groupVars, serviceVars>>

-----------------------------------------------------------------------------
(***************************************************************************)
(* Retry: the loop around one request.                                     *)
(***************************************************************************)
IsDelete(m) == ProcessMessage(m, Enabled) = "delete"

\* What can come of a request: "lost" took effect, but the caller sees an
\* error; "notFound" is the answer to a delete of what does not exist.
Answers(m) == IF m.refused THEN {"error"} ELSE {"ok", "notFound", "error", "lost"}

TakesEffect(m, answer) ==
    answer \in {"ok", "lost"} \/ (answer = "notFound" /\ IsDelete(m))

\* Inventory carries a request out unless it knows its idempotency key.
Inventory(r, answer) ==
    IF TakesEffect(MessageOf(r), answer)
    THEN /\ resolved' = resolved \union {msg[r]}
         /\ inventory' = IF IdempotencyKey(MessageOf(r)) /\ msg[r] \in resolved
                         THEN inventory
                         ELSE [inventory EXCEPT ![msg[r][1]] = msg[r][2]]
    ELSE UNCHANGED serviceVars

\* Mutant: the handler is passed with every request.
DeleteErrorHandler_AnyRequest(m, answer) == answer = "notFound"

\* The handler only delete requests come with: the message is dropped.
DeleteErrorHandler(m, answer) == IsDelete(m) /\ answer = "notFound"

Finishes(m, answer) == answer = "ok" \/ DeleteErrorHandler(m, answer)

\* Retry returns a nil error.
RequestFinishes(r) ==
    /\ pc[r] = "calling"
    /\ InBudget(OperationMaxRetries, attempts[r])
    /\ \E answer \in Answers(MessageOf(r)) :
        /\ Finishes(MessageOf(r), answer)
        /\ Inventory(r, answer)
    /\ pc' = [pc EXCEPT ![r] = "store"]
    /\ UNCHANGED <<retries, msg, attempts, shutdownInProgress, offsetVars,
                   clientVars, groupVars, disruptions>>

\* An attempt fails.  If another is left, the stored offsets are committed
\* first.
RequestFails(r) ==
    /\ pc[r] = "calling"
    /\ InBudget(OperationMaxRetries, attempts[r])
    /\ \E answer \in Answers(MessageOf(r)) :
        /\ ~Finishes(MessageOf(r), answer)
        /\ Inventory(r, answer)
    /\ attempts' = [attempts EXCEPT ![r] = Count(OperationMaxRetries, @)]
    /\ pc' = [pc EXCEPT ![r] =
                IF InBudget(OperationMaxRetries, attempts'[r])
                THEN "recommit" ELSE "calling"]
    /\ UNCHANGED <<retries, msg, shutdownInProgress, offsetVars, clientVars,
                   groupVars, disruptions>>

\* A request is never answered, whether it took effect or not.  It has no
\* deadline, so no retry limit applies and the replica polls no more.
RequestHangs(r) ==
    /\ pc[r] = "calling"
    /\ InBudget(OperationMaxRetries, attempts[r])
    /\ Cardinality({q \in Replicas : pc[q] = "hanging"}) < MaxHangs
    /\ Disrupt
    /\ \E answer \in Answers(MessageOf(r)) : Inventory(r, answer)
    /\ pc' = [pc EXCEPT ![r] = "hanging"]
    /\ UNCHANGED <<retries, msg, attempts, shutdownInProgress, offsetVars,
                   clientVars, groupVars>>

\* A failed commit is only logged; the loop sleeps and tries again.
CommitBeforeRetry(r) ==
    /\ pc[r] = "recommit"
    /\ CommitStoredOffsets(r)
    /\ pc' = [pc EXCEPT ![r] = "calling"]
    /\ UNCHANGED <<retries, msg, attempts, shutdownInProgress, clientVars,
                   groupVars, serviceVars, disruptions>>

\* ErrMaxRetries: ProcessMessage fails and Consume leaves its loop.
AttemptsSpent(r) ==
    /\ pc[r] = "calling"
    /\ ~InBudget(OperationMaxRetries, attempts[r])
    /\ pc' = [pc EXCEPT ![r] = "shutdown"]
    /\ UNCHANGED <<retries, msg, attempts, shutdownInProgress, offsetVars,
                   clientVars, groupVars, serviceVars, disruptions>>

-----------------------------------------------------------------------------
(***************************************************************************)
(* After a message was processed: its offset is stored, and every offset   *)
(* that is a multiple of CommitModulo commits what is stored.  The client  *)
(* moves past a message as it delivers it; next moves here instead, which  *)
(* is the same to the loop: it polls no more after a message it did not    *)
(* finish.                                                                 *)
(***************************************************************************)
StoreOffset(r) ==
    LET p == msg[r][1]
        o == msg[r][2]
    IN  /\ pc[r] = "store"
        /\ pending' = [pending EXCEPT ![r][p] = o]
        /\ next' = [next EXCEPT ![r][p] = o + 1]
        /\ msg' = [msg EXCEPT ![r] = NoMsg]
        /\ attempts' = [attempts EXCEPT ![r] = 0]
        /\ pc' = [pc EXCEPT ![r] = IF CheckIfCommit(o) THEN "commit" ELSE "polling"]
        /\ UNCHANGED <<retries, shutdownInProgress, assigned, committed,
                       groupVars, serviceVars, commitFailures, disruptions>>

\* The loop goes on whether the commit succeeds or fails.
CommitBatch(r) ==
    /\ pc[r] = "commit"
    /\ CommitStoredOffsets(r)
    /\ pc' = [pc EXCEPT ![r] = "polling"]
    /\ UNCHANGED <<retries, msg, attempts, shutdownInProgress, clientVars,
                   groupVars, serviceVars, disruptions>>

-----------------------------------------------------------------------------
(***************************************************************************)
(* Shutdown, and what Run does with its result.                            *)
(***************************************************************************)
\* The flag is set first; a failed commit is only logged.
CommitBeforeClose(r) ==
    /\ pc[r] = "shutdown"
    /\ shutdownInProgress' = [shutdownInProgress EXCEPT ![r] = TRUE]
    /\ CommitStoredOffsets(r)
    /\ pc' = [pc EXCEPT ![r] = "closing"]
    /\ UNCHANGED <<retries, msg, attempts, clientVars, groupVars, serviceVars,
                   disruptions>>

\* Close revokes the partitions, through the callback, and leaves the group;
\* Shutdown returns ErrClosed, and Run counts a restart.
Close(r) ==
    /\ pc[r] = "closing"
    /\ RevokedPartitions(r)
    /\ assigned' = [assigned EXCEPT ![r] = {}]
    /\ next' = [next EXCEPT ![r] = NoPosition]
    /\ member' = [member EXCEPT ![r] = FALSE]
    /\ owner' = Release(r)
    /\ retries' = [retries EXCEPT ![r] = Count(ConsumerMaxRetries, @)]
    /\ pc' = [pc EXCEPT ![r] = "new"]
    /\ UNCHANGED <<msg, attempts, shutdownInProgress, serviceVars, disruptions>>

\* Close returns an error: Consume wraps it, Run returns it.
CloseFails(r) ==
    /\ pc[r] = "closing"
    /\ Disrupt
    /\ assigned' = [assigned EXCEPT ![r] = {}]
    /\ next' = [next EXCEPT ![r] = NoPosition]
    /\ pc' = [pc EXCEPT ![r] = "exited"]
    /\ UNCHANGED <<retries, msg, attempts, shutdownInProgress, offsetVars,
                   groupVars, serviceVars>>

-----------------------------------------------------------------------------
(***************************************************************************)
(* Rebalances.  The assignor is eager (the client's default): a rebalance  *)
(* takes every partition of a member away, then hands partitions out.      *)
(***************************************************************************)
\* An assigned partition is read from its committed offset, or from the
\* start of the log (auto.offset.reset = earliest).  While another member
\* waits for partitions this one may get only some.
AssignPartitions(r, P) ==
    /\ pc[r] = "polling"
    /\ member[r]
    /\ assigned[r] = {}
    /\ P # {}
    /\ P \subseteq {p \in Partitions : owner[p] = Nobody}
    /\ \/ P = {p \in Partitions : owner[p] = Nobody}
       \/ \E q \in Replicas \ {r} : member[q] /\ assigned[q] = {}
    /\ owner' = [p \in Partitions |-> IF p \in P THEN r ELSE owner[p]]
    /\ assigned' = [assigned EXCEPT ![r] = P]
    /\ next' = [next EXCEPT ![r] =
                  [p \in Partitions |->
                     IF p \in P /\ committed[p] # NoOffset THEN committed[p] ELSE 0]]
    /\ UNCHANGED <<retries, loopVars, shutdownInProgress, offsetVars, member,
                   serviceVars, disruptions>>

\* The group rebalances: Poll runs the callback, and the partitions go.
RevokePartitions(r) ==
    /\ pc[r] = "polling"
    /\ member[r]
    /\ assigned[r] # {}
    /\ Disrupt
    /\ RevokedPartitions(r)
    /\ owner' = Release(r)
    /\ assigned' = [assigned EXCEPT ![r] = {}]
    /\ next' = [next EXCEPT ![r] = NoPosition]
    /\ UNCHANGED <<retries, loopVars, shutdownInProgress, member, serviceVars>>

\* Poll finds that the assignment was lost, runs the callback all the same,
\* and the client joins the group again.
LoseAssignment(r) ==
    /\ pc[r] = "polling"
    /\ ~member[r]
    /\ IF assigned[r] = {} THEN UNCHANGED offsetVars ELSE RevokedPartitions(r)
    /\ assigned' = [assigned EXCEPT ![r] = {}]
    /\ next' = [next EXCEPT ![r] = NoPosition]
    /\ member' = [member EXCEPT ![r] = TRUE]
    /\ UNCHANGED <<retries, loopVars, shutdownInProgress, owner, serviceVars,
                   disruptions>>

-----------------------------------------------------------------------------
(***************************************************************************)
(* The environment of a replica.                                           *)
(***************************************************************************)
\* The coordinator drops a member: it was gone, or it did not poll for
\* max.poll.interval.ms or heartbeat for session.timeout.ms, in which case
\* the replica goes on unaware, until it polls again.
EvictMember(r) ==
    /\ member[r]
    /\ IF pc[r] \in {"new", "exited", "hanging"} THEN UNCHANGED disruptions ELSE Disrupt
    /\ member' = [member EXCEPT ![r] = FALSE]
    /\ owner' = Release(r)
    /\ UNCHANGED <<retries, loopVars, shutdownInProgress, offsetVars,
                   clientVars, serviceVars>>

\* The process dies between two steps.
Crash(r) ==
    /\ pc[r] # "exited"
    /\ Disrupt
    /\ pc' = [pc EXCEPT ![r] = "exited"]
    /\ assigned' = [assigned EXCEPT ![r] = {}]
    /\ next' = [next EXCEPT ![r] = NoPosition]
    /\ UNCHANGED <<retries, msg, attempts, shutdownInProgress, offsetVars,
                   groupVars, serviceVars>>

\* The platform restarts the container of a process that ended.
RestartProcess(r) ==
    /\ pc[r] = "exited"
    /\ pc' = [pc EXCEPT ![r] = "new"]
    /\ retries' = [retries EXCEPT ![r] = 0]
    /\ UNCHANGED <<msg, attempts, shutdownInProgress, offsetVars, clientVars,
                   groupVars, serviceVars, disruptions>>

-----------------------------------------------------------------------------
Loop(r) ==
    \/ StartConsumer(r)
    \/ RetriesSpent(r)
    \/ PollMessage(r)
    \/ RequestFinishes(r)
    \/ RequestFails(r)
    \/ CommitBeforeRetry(r)
    \/ AttemptsSpent(r)
    \/ StoreOffset(r)
    \/ CommitBatch(r)
    \/ CommitBeforeClose(r)
    \/ Close(r)

Rebalance(r) ==
    \/ \E P \in SUBSET Partitions : AssignPartitions(r, P)
    \/ RevokePartitions(r)
    \/ LoseAssignment(r)

Environment(r) ==
    \/ PollNothing(r)
    \/ StartFails(r)
    \/ StopPolling(r)
    \/ RequestHangs(r)
    \/ CloseFails(r)
    \/ EvictMember(r)
    \/ Crash(r)
    \/ RestartProcess(r)

Next == \E r \in Replicas : Loop(r) \/ Rebalance(r) \/ Environment(r)

Spec == Init /\ [][Next]_vars

\* The program always takes its next step, a container that ended starts
\* again, the coordinator drops members that are gone or poll no more and hands
\* partitions out, and a request that is tried for ever is answered at last.
Fairness ==
    \A r \in Replicas :
        /\ WF_vars(Loop(r))
        /\ SF_vars(RequestFinishes(r))
        /\ WF_vars(\E P \in SUBSET Partitions : AssignPartitions(r, P))
        /\ WF_vars(LoseAssignment(r))
        /\ WF_vars(EvictMember(r) /\ pc[r] \in {"new", "exited", "hanging"})
        /\ WF_vars(RestartProcess(r))

FairSpec == Spec /\ Fairness

-----------------------------------------------------------------------------
(***************************************************************************)
(* Properties.                                                             *)
(***************************************************************************)
Locations == {"new", "polling", "calling", "hanging", "recommit", "store",
              "commit", "shutdown", "closing", "exited"}

InHand(r) == pc[r] \in {"calling", "recommit", "store"}

\* A counter of Run or Retry never passes its limit.
WithinBudget(max, n) == n = 0 \/ max = Infinite \/ n <= max

\* Every variable has its type, and neither Run nor Retry goes round more
\* often than its options allow.
TypeOK ==
    /\ pc \in [Replicas -> Locations]
    /\ retries \in [Replicas -> Nat]
    /\ msg \in [Replicas -> Positions \union {NoMsg}]
    /\ attempts \in [Replicas -> Nat]
    /\ \A r \in Replicas : /\ WithinBudget(ConsumerMaxRetries, retries[r])
                          /\ WithinBudget(OperationMaxRetries, attempts[r])
    /\ pending \in [Replicas -> [Partitions -> Offsets]]
    /\ shutdownInProgress \in [Replicas -> BOOLEAN]
    /\ assigned \in [Replicas -> SUBSET Partitions]
    /\ next \in [Replicas -> [Partitions -> Nat]]
    /\ member \in [Replicas -> BOOLEAN]
    /\ owner \in [Partitions -> Replicas \union {Nobody}]
    /\ committed \in [Partitions -> Offsets]
    /\ resolved \subseteq Positions
    /\ inventory \in [Partitions -> Offsets]
    /\ commitFailures \in Nat
    /\ disruptions \in Nat

\* With TypeOK, an inductive invariant: a replica at work has a message when
\* it needs one, and a restart left to spend.
TypeInv ==
    /\ TypeOK
    /\ \A r \in Replicas :
          /\ InHand(r) => msg[r] \in Positions
          /\ pc[r] \notin {"new", "exited"} =>
                InBudget(ConsumerMaxRetries, retries[r])

\* Messages that are passed over on purpose: a migration message without
\* what its request needs, and, with the client disabled, any the loop
\* accepts.
Excused(m) ==
    /\ m.operation \in ValidOperations /\ m.version \in ValidApiVersions
    /\ \/ /\ m.operation = "migration"
          /\ \/ m.value \in {"empty", "null"} /\ m.key = "noid"
             \/ m.value \in {"malformed", "nogroups"}
       \/ ~Enabled

Settled(p, o) == <<p, o>> \in resolved \/ Excused(Log[p][o])

SettledUpTo(p, n) == \A o \in DOMAIN Log[p] : o <= n => Settled(p, o)

SettledBefore(p, n) == \A o \in DOMAIN Log[p] : o < n => Settled(p, o)

\* At-least-once delivery.  A committed offset is the promise that the group
\* never needs the messages up to it again, so each of them took effect in
\* Inventory or was passed over on purpose, whatever crashed, was evicted,
\* or committed what it had stored for a partition it no longer owns.
NoLoss == \A p \in Partitions : SettledUpTo(p, committed[p])

\* Why NoLoss holds: nothing a replica could still commit, or has read past,
\* is unsettled.  That goes for stale offsets too, stored for a partition
\* that was taken away since.
DeliveryInv ==
    /\ NoLoss
    /\ \A r \in Replicas : \A p \in Partitions :
          SettledUpTo(p, pending[r][p]) /\ SettledBefore(p, next[r][p])
    /\ \A r \in Replicas :
          /\ InHand(r) => SettledBefore(msg[r][1], msg[r][2])
          /\ pc[r] = "store" => Settled(msg[r][1], msg[r][2])

\* "The Inventory Consumer will not continue to the next message unless all
\* messages are processed": a message is sent to Inventory only when every
\* earlier one of its partition is settled.
InOrder ==
    \A r \in Replicas :
        pc[r] = "calling" => SettledBefore(msg[r][1], msg[r][2])

\* The offset of a finished message is never dropped between OffsetStorage
\* and the broker: whatever commits fail and are tried again, the broker, or
\* the next commit, covers everything this replica finished since it was
\* assigned the partition.  (Until a rebalance or an eviction: offsets a
\* failed commit left behind then may pull the committed offset back.)
OffsetsAccounted ==
    disruptions = 0 =>
        \A r \in Replicas : \A p \in assigned[r] : \A o \in DOMAIN Log[p] :
            o < next[r][p] =>
                o <= IF pending[r][p] = NoOffset THEN committed[p] ELSE pending[r][p]

\* What a restart replays is bounded: between the committed offset of a
\* partition and what its reader finished lie no more batch boundaries
\* (multiples of CommitModulo) than commits that failed, not counting the one
\* the loop is about to commit.  That is so until another replica pulls the
\* committed offset back: after a failed commit it may hold on to offsets of a
\* partition that a rebalance or an eviction took from it.  (And as long as the
\* count of failures is exact.)
UncommittedBoundaries(r, p) ==
    {o \in DOMAIN Log[p] :
        o % CommitModulo = 0 /\ committed[p] < o /\ o < next[r][p]}

MayBePulledBack(r) == commitFailures > 0 /\ disruptions > 0 /\ Replicas # {r}

ReplayBounded ==
    commitFailures <= MaxCommitFailures =>
    \A r \in Replicas : ~MayBePulledBack(r) =>
        \A p \in assigned[r] :
            Cardinality(UncommittedBoundaries(r, p))
                <= commitFailures + (IF pc[r] = "commit" THEN 1 ELSE 0)

\* A replica that gives a partition up while it runs, in a rebalance or by
\* closing, leaves nothing finished uncommitted as long as no commit failed:
\* the next owner repeats one message at most.
CleanHandover ==
    [][\A r \in Replicas : \A p \in assigned[r] :
        (p \notin assigned'[r] /\ pc'[r] # "exited" /\ commitFailures' = 0) =>
            \A o \in DOMAIN Log[p] : o < next[r][p] => o <= committed'[p]]_vars

\* Without a failed commit the committed offset of a partition never goes
\* back, whoever owned the partition in between: no replica holds on to
\* offsets it should have committed before it lost the partition.
CommitsAdvance ==
    [][commitFailures' = 0 =>
        \A p \in Partitions : committed'[p] >= committed[p]]_vars

\* A request that is repeated or comes late, from a replica that was evicted
\* while it waited, never takes Inventory back to an older report, as long as
\* reports carry a transaction id.
Keyed(m) == m.operation = "ReportResource" /\ m.transaction

KeyedReportsAdvance ==
    [][\A p \in Partitions :
        inventory'[p] < inventory[p] => ~Keyed(Log[p][inventory'[p]])]_vars

\* The group keeps the promise of Delivery, whatever its replicas do.
D == INSTANCE Delivery
     WITH Offsets    <- [p \in Partitions |-> DOMAIN Log[p]],
          PassedOver <- {x \in Positions : Excused(Log[x[1]][x[2]])},
          delivered  <- resolved

\* Messages are delivered in the order of the log, and commits cover only what
\* was delivered.
ImplementsDelivery == D!Spec

\* With unlimited retries, and a service that answers at last, each message
\* is delivered at last.
ImplementsFairDelivery == D!FairSpec

\* Eventual consistency, with unlimited retries and a service that answers
\* at last, through restarts, evictions and commits that fail: for good, the
\* last request Inventory carried out for a partition is that of its newest
\* message - or it is a request without a transaction id that was repeated or
\* came late after the newest one, which nothing mends: repeating the newest
\* one does not, if that is a report Inventory knows.
Sent(p) == {o \in DOMAIN Log[p] : ~Excused(Log[p][o])}

Newest(p) == CHOOSE o \in Sent(p) : \A k \in Sent(p) : k <= o

Overtaken(p) ==
    /\ <<p, Newest(p)>> \in resolved
    /\ inventory[p] # NoOffset
    /\ ~Keyed(Log[p][inventory[p]])

InventoryCatchesUp ==
    \A p \in Partitions : <>[](inventory[p] = Newest(p) \/ Overtaken(p))

\* With finite budgets, a replica that sends a request Inventory refuses
\* ends after its restarts instead of trying for ever, unless one of the
\* attempts is never answered.
RunGivesUp ==
    \A r \in Replicas :
        (pc[r] = "calling" /\ MessageOf(r).refused)
            ~> (pc[r] \in {"exited", "hanging"})

=============================================================================
