--------------------------- MODULE Metrics_proofs ---------------------------
(***************************************************************************)
(* Theorems about Metrics, for every group of replicas, log, set of        *)
(* options and bound: the counters account for every message a consumer    *)
(* polled, and the registry keeps no more exporters than Run may restart.  *)
(***************************************************************************)
EXTENDS Metrics, InventoryConsumer_proofs

-----------------------------------------------------------------------------
(***************************************************************************)
(* The loop under the metrics.                                             *)
(***************************************************************************)
\* Counting changes nothing about the loop: it takes its own steps only.
LEMMA LoopUnderMetrics == [MetricsNext]_<<vars, metricsVars>> => [Next]_vars
  <1> SUFFICES ASSUME MetricsNext PROVE [Next]_vars
    OBVIOUS
  <1>1. PICK r \in Replicas :
            \/ NewCollector(r) \/ CountPoll(r) \/ CountFailure(r) \/ CountFinish(r)
            \/ CountStore(r) \/ CountCommit(r) \/ CountRebalance(r) \/ Collect(r)
            \/ CollectFails(r) \/ NewProcess(r) \/ NotCounted(r)
    BY DEF MetricsNext
  <1>2. Loop(r) \/ Rebalance(r) \/ Environment(r)
    BY <1>1
    DEF NewCollector, CountPoll, CountFailure, CountFinish, CountStore, CountCommit,
        CountRebalance, Collect, CollectFails, NewProcess, NotCounted, Loop, Environment
  <1> QED
    BY <1>2 DEF Next

\* So the loop keeps its types.
LEMMA TypesUnderMetrics ==
    TypeInv /\ [MetricsNext]_<<vars, metricsVars>> => TypeInv'
  BY LoopUnderMetrics, TypeNext

-----------------------------------------------------------------------------
(***************************************************************************)
(* The counters.                                                           *)
(***************************************************************************)
CountersType ==
    /\ msgsProcessed \in [Replicas -> Nat]
    /\ msgFailures \in [Replicas -> Nat]
    /\ consumerErrors \in [Replicas -> Nat]
    /\ polled \in [Replicas -> Nat]

\* The message of a replica that is neither counted as processed nor as an
\* error yet: the one in hand, or the one whose batch is to be committed.
Uncounted(r) == IF msg[r] # NoMsg \/ pc[r] = "commit" THEN 1 ELSE 0

\* EveryMessageCounted, of one replica.
Counted(r) ==
    Running(r) =>
        /\ polled[r] = msgsProcessed[r] + consumerErrors[r] + Uncounted(r)
        /\ msgFailures[r] >= attempts[r]
        /\ pc[r] = "shutdown" /\ msg[r] # NoMsg => msgFailures[r] > attempts[r]

\* A replica that polls, or commits a batch, is done with its last message.
HandEmpty(r) == pc[r] \in {"polling", "commit"} => msg[r] = NoMsg

CountInv ==
    /\ CountersType
    /\ \A r \in Replicas : Counted(r) /\ HandEmpty(r)

LEMMA CountInit == MetricsInit => CountInv
  BY DEF MetricsInit, Init, None, CountInv, CountersType, Counted, HandEmpty, Running

\* Nothing changes for a replica that takes no step.
LEMMA CountedStays ==
    ASSUME NEW q \in Replicas, Counted(q), HandEmpty(q),
           pc'[q] = pc[q], msg'[q] = msg[q], attempts'[q] = attempts[q],
           msgsProcessed'[q] = msgsProcessed[q], msgFailures'[q] = msgFailures[q],
           consumerErrors'[q] = consumerErrors[q], polled'[q] = polled[q]
    PROVE  Counted(q)' /\ HandEmpty(q)'
  BY DEF Counted, HandEmpty, Uncounted, Running

\* What a step leaves alone: everything about the other replicas.
OthersStay(r) ==
    \A q \in Replicas \ {r} :
        /\ pc'[q] = pc[q] /\ msg'[q] = msg[q] /\ attempts'[q] = attempts[q]
        /\ msgsProcessed'[q] = msgsProcessed[q] /\ msgFailures'[q] = msgFailures[q]
        /\ consumerErrors'[q] = consumerErrors[q] /\ polled'[q] = polled[q]

\* So a step keeps the invariant if it does for the replica that takes it.
LEMMA CountedByStep ==
    ASSUME CountInv, NEW r \in Replicas, OthersStay(r), CountersType',
           Counted(r)', HandEmpty(r)'
    PROVE  CountInv'
  BY CountedStays DEF CountInv, OthersStay

\* A message that is polled, retried, stored or committed is an attempt more,
\* or none, to be matched by the failures.
LEMMA AttemptsCount ==
    ASSUME NEW max \in Int, NEW n \in Nat
    PROVE  Count(max, n) \in Nat /\ Count(max, n) <= n + 1
  BY DEF Count, Infinite

\* The numbers of one replica.
LEMMA Numbers ==
    ASSUME TypeInv, CountInv, NEW r \in Replicas
    PROVE  /\ msgsProcessed[r] \in Nat /\ msgFailures[r] \in Nat
           /\ consumerErrors[r] \in Nat /\ polled[r] \in Nat /\ attempts[r] \in Nat
           /\ Counted(r) /\ HandEmpty(r)
  BY DEF TypeInv, TypeOK, CountInv, CountersType

\* A new collector starts from nothing, as its consumer does.
LEMMA CountNew ==
    ASSUME TypeInv, CountInv, NEW r \in Replicas, NewCollector(r)
    PROVE  CountInv'
  <1> USE DEF TypeInv, TypeOK, NewCollector, StartConsumer
  <1>1. CountersType'
    BY DEF CountInv, CountersType
  <1>2. OthersStay(r)
    BY DEF OthersStay, CountInv, CountersType
  <1>3. Counted(r)' /\ HandEmpty(r)'
    BY DEF Counted, HandEmpty, Uncounted, CountInv, CountersType
  <1> QED
    BY <1>1, <1>2, <1>3, CountedByStep

\* A polled message is in hand; the one that ends the loop left a failure.
LEMMA CountPolled ==
    ASSUME TypeInv, CountInv, NEW r \in Replicas, CountPoll(r)
    PROVE  CountInv'
  <1> USE DEF TypeInv, TypeOK, Plus
  <1>1. PICK p \in assigned[r] : \E o \in DOMAIN Log[p] : PollsTo(r, p, o)
    BY DEF CountPoll, PollMessage, PollsTo
  <1>2. PICK o \in DOMAIN Log[p] : PollsTo(r, p, o)
    BY <1>1
  <1>3. /\ msg' = [msg EXCEPT ![r] = <<p, o>>]
        /\ attempts' = [attempts EXCEPT ![r] = 0]
        /\ pc[r] = "polling"
        /\ pc'[r] \in {"shutdown", "store", "calling"}
        /\ \A q \in Replicas \ {r} : pc'[q] = pc[q]
    BY <1>2 DEF CountPoll, PollMessage, PollsTo
  <1>4. PICK n \in {0, 1} :
            /\ msgFailures' = [msgFailures EXCEPT ![r] = @ + n]
            /\ pc'[r] = "shutdown" => n = 1
    BY DEF CountPoll
  <1>5. /\ polled' = [polled EXCEPT ![r] = @ + 1]
        /\ UNCHANGED <<msgsProcessed, consumerErrors>>
    BY DEF CountPoll
  <1>6. CountersType'
    BY <1>4, <1>5 DEF CountInv, CountersType
  <1>7. OthersStay(r)
    BY <1>3, <1>4, <1>5 DEF OthersStay, CountInv, CountersType
  <1>8. msg[r] = NoMsg /\ msg'[r] # NoMsg
    BY <1>3 DEF CountInv, HandEmpty, NoMsg
  <1>9. /\ msgFailures'[r] = msgFailures[r] + n /\ polled'[r] = polled[r] + 1
        /\ attempts'[r] = 0
        /\ msgsProcessed'[r] = msgsProcessed[r]
        /\ consumerErrors'[r] = consumerErrors[r]
    BY <1>3, <1>4, <1>5 DEF CountInv, CountersType
  <1> HIDE DEF TypeInv, TypeOK, Plus
  <1>10. Counted(r)' /\ HandEmpty(r)'
    BY <1>3, <1>4, <1>8, <1>9, Numbers DEF Counted, HandEmpty, Uncounted, Running
  <1> QED
    BY <1>6, <1>7, <1>10, CountedByStep

\* A failed attempt counts once in each; a request that is given up leaves a
\* failure more than attempts.
LEMMA CountFailed ==
    ASSUME TypeInv, CountInv, NEW r \in Replicas, CountFailure(r)
    PROVE  CountInv'
  <1> USE DEF TypeInv, TypeOK, Plus
  <1>1. /\ msgFailures' = [msgFailures EXCEPT ![r] = @ + 1]
        /\ UNCHANGED <<msg, msgsProcessed, consumerErrors, polled>>
        /\ pc[r] = "calling"
    BY DEF CountFailure, RequestFails, AttemptsSpent
  <1>2. CountersType' /\ msgFailures'[r] = msgFailures[r] + 1
    BY <1>1 DEF CountInv, CountersType
  <1>3. CASE RequestFails(r)
    <2>1. /\ pc'[r] \in {"recommit", "calling"}
          /\ attempts'[r] = Count(OperationMaxRetries, attempts[r])
      BY <1>3 DEF RequestFails
    <2>2. attempts'[r] \in Nat /\ attempts'[r] <= attempts[r] + 1
      BY <2>1, AttemptsCount, OptionsAssumption
    <2>3. OthersStay(r)
      BY <1>1, <1>3 DEF OthersStay, CountInv, CountersType, RequestFails
    <2>4. Counted(r)' /\ HandEmpty(r)'
      <3> HIDE DEF TypeInv, TypeOK, Plus
      <3> QED
        BY <1>1, <1>2, <2>1, <2>2, Numbers DEF Counted, HandEmpty, Uncounted, Running
    <2> QED
      BY <1>2, <2>3, <2>4, CountedByStep
  <1>4. CASE AttemptsSpent(r)
    <2>1. pc'[r] = "shutdown" /\ attempts'[r] = attempts[r]
      BY <1>4 DEF AttemptsSpent
    <2>2. OthersStay(r)
      BY <1>1, <1>4 DEF OthersStay, CountInv, CountersType, AttemptsSpent
    <2>3. Counted(r)' /\ HandEmpty(r)'
      <3> HIDE DEF TypeInv, TypeOK, Plus
      <3> QED
        BY <1>1, <1>2, <2>1, Numbers DEF Counted, HandEmpty, Uncounted, Running
    <2> QED
      BY <1>2, <2>2, <2>3, CountedByStep
  <1> QED
    BY <1>3, <1>4 DEF CountFailure

\* A finished request keeps its message in hand; a dropped delete is a failure.
LEMMA CountFinished ==
    ASSUME TypeInv, CountInv, NEW r \in Replicas, CountFinish(r)
    PROVE  CountInv'
  <1> USE DEF TypeInv, TypeOK, Plus
  <1>1. PICK dropped \in {0, 1} :
            msgFailures' = [msgFailures EXCEPT ![r] = @ + dropped]
    BY DEF CountFinish
  <1>2. /\ UNCHANGED <<msg, attempts, msgsProcessed, consumerErrors, polled>>
        /\ pc[r] = "calling"
        /\ pc' = [pc EXCEPT ![r] = "store"]
    BY DEF CountFinish, RequestFinishes
  <1>3. CountersType'
    BY <1>1, <1>2 DEF CountInv, CountersType
  <1>4. OthersStay(r)
    BY <1>1, <1>2 DEF OthersStay, CountInv, CountersType
  <1>5. msgFailures'[r] = msgFailures[r] + dropped /\ pc'[r] = "store"
    BY <1>1, <1>2 DEF CountInv, CountersType
  <1> HIDE DEF TypeInv, TypeOK, Plus
  <1>6. Counted(r)' /\ HandEmpty(r)'
    BY <1>2, <1>5, Numbers DEF Counted, HandEmpty, Uncounted, Running
  <1> QED
    BY <1>3, <1>4, <1>6, CountedByStep

\* A stored message is counted, unless its batch is to be committed first.
LEMMA CountStored ==
    ASSUME TypeInv, CountInv, NEW r \in Replicas, CountStore(r)
    PROVE  CountInv'
  <1> USE DEF TypeInv, TypeOK, Plus
  <1>1. /\ pc[r] = "store" /\ msg[r] # NoMsg
        /\ pc'[r] \in {"commit", "polling"}
        /\ msg' = [msg EXCEPT ![r] = NoMsg]
        /\ attempts' = [attempts EXCEPT ![r] = 0]
        /\ \A q \in Replicas \ {r} : pc'[q] = pc[q]
        /\ UNCHANGED <<msgFailures, consumerErrors, polled>>
    BY PositionParts DEF CountStore, StoreOffset, InHand, NoMsg
  <1>2. PICK n \in {0, 1} :
            /\ msgsProcessed' = [msgsProcessed EXCEPT ![r] = @ + n]
            /\ n = IF pc'[r] = "commit" THEN 0 ELSE 1
    BY DEF CountStore, ProcessedAtStore
  <1>3. CountersType'
    BY <1>1, <1>2 DEF CountInv, CountersType
  <1>4. OthersStay(r)
    BY <1>1, <1>2 DEF OthersStay, CountInv, CountersType
  <1>5. /\ msgsProcessed'[r] = msgsProcessed[r] + n
        /\ msg'[r] = NoMsg /\ attempts'[r] = 0
    BY <1>1, <1>2 DEF CountInv, CountersType
  <1> HIDE DEF TypeInv, TypeOK, Plus
  <1>6. Counted(r)' /\ HandEmpty(r)'
    BY <1>1, <1>2, <1>5, Numbers DEF Counted, HandEmpty, Uncounted, Running
  <1> QED
    BY <1>3, <1>4, <1>6, CountedByStep

\* A commit counts the message of its batch as processed or as an error.
LEMMA CountCommitted ==
    ASSUME TypeInv, CountInv, NEW r \in Replicas, CountCommit(r)
    PROVE  CountInv'
  <1>1. /\ pc[r] = "commit" /\ pc'[r] = "polling"
        /\ \A q \in Replicas \ {r} : pc'[q] = pc[q]
        /\ UNCHANGED <<msg, attempts, msgFailures, polled>>
    BY DEF CountCommit, CommitBatch, TypeInv, TypeOK
  <1>2. CASE /\ msgsProcessed' = [msgsProcessed EXCEPT ![r] = @ + 1]
             /\ UNCHANGED consumerErrors
    <2>1. CountersType' /\ msgsProcessed'[r] = msgsProcessed[r] + 1
      BY <1>1, <1>2 DEF CountInv, CountersType
    <2>2. OthersStay(r)
      BY <1>1, <1>2 DEF OthersStay, CountInv, CountersType
    <2>3. Counted(r)' /\ HandEmpty(r)'
      BY <1>1, <1>2, <2>1, Numbers DEF Counted, HandEmpty, Uncounted, Running
    <2> QED
      BY <2>1, <2>2, <2>3, CountedByStep
  <1>3. CASE /\ consumerErrors' = [consumerErrors EXCEPT ![r] = @ + 1]
             /\ UNCHANGED msgsProcessed
    <2>1. CountersType' /\ consumerErrors'[r] = consumerErrors[r] + 1
      BY <1>1, <1>3 DEF CountInv, CountersType
    <2>2. OthersStay(r)
      BY <1>1, <1>3 DEF OthersStay, CountInv, CountersType
    <2>3. Counted(r)' /\ HandEmpty(r)'
      BY <1>1, <1>3, <2>1, Numbers DEF Counted, HandEmpty, Uncounted, Running
    <2> QED
      BY <2>1, <2>2, <2>3, CountedByStep
  <1> QED
    BY <1>2, <1>3 DEF CountCommit, Plus

\* A step that counts nothing takes up no message, tries none again, and
\* leaves the loop with what it had in hand.
LEMMA CountKept ==
    ASSUME TypeInv, CountInv, NEW r \in Replicas,
           UNCHANGED <<msg, attempts, counterVars>>,
           \A q \in Replicas \ {r} : pc'[q] = pc[q],
           \/ pc'[r] = pc[r]
           \/ pc'[r] \in {"new", "exited"}
           \/ pc[r] = "calling" /\ pc'[r] = "hanging"
           \/ pc[r] = "recommit" /\ pc'[r] = "calling"
           \/ pc[r] = "polling" /\ pc'[r] = "shutdown"
           \/ pc[r] = "shutdown" /\ pc'[r] = "closing"
    PROVE  CountInv'
  <1>1. CountersType'
    BY DEF CountInv, CountersType, counterVars
  <1>2. OthersStay(r)
    BY DEF OthersStay, counterVars
  <1>3. Counted(r)' /\ HandEmpty(r)'
    BY DEF Counted, HandEmpty, Uncounted, CountInv, CountersType, Running, counterVars
  <1> QED
    BY <1>1, <1>2, <1>3, CountedByStep

\* Statistics that cannot be read leave a failure more.
LEMMA CountUnread ==
    ASSUME TypeInv, CountInv, NEW r \in Replicas, CollectFails(r)
    PROVE  CountInv'
  <1>1. /\ msgFailures' = [msgFailures EXCEPT ![r] = @ + 1]
        /\ UNCHANGED <<pc, msg, attempts, msgsProcessed, consumerErrors, polled>>
    BY DEF CollectFails, PollNothing, vars, Plus
  <1>2. CountersType' /\ msgFailures'[r] = msgFailures[r] + 1
    BY <1>1 DEF CountInv, CountersType
  <1>3. OthersStay(r)
    BY <1>1 DEF OthersStay, CountInv, CountersType
  <1>4. Counted(r)' /\ HandEmpty(r)'
    BY <1>1, <1>2, Numbers DEF Counted, HandEmpty, Uncounted, Running
  <1> QED
    BY <1>2, <1>3, <1>4, CountedByStep

\* The steps that count no message.
LEMMA CountElse ==
    ASSUME TypeInv, CountInv, NEW r \in Replicas,
           CountRebalance(r) \/ Collect(r) \/ NewProcess(r) \/ NotCounted(r)
    PROVE  CountInv'
  <1> USE DEF TypeInv, TypeOK
  <1>1. CASE CountRebalance(r)
    <2>1. UNCHANGED <<msg, attempts, counterVars, pc>>
      BY <1>1 DEF CountRebalance, Rebalance, AssignPartitions, RevokePartitions,
                  LoseAssignment, loopVars
    <2> QED
      BY <2>1, CountKept
  <1>2. CASE Collect(r)
    BY <1>2, CountKept DEF Collect, PollNothing, vars
  <1>3. CASE NewProcess(r)
    BY <1>3, CountKept DEF NewProcess, RestartProcess
  <1>4. CASE NotCounted(r)
    <2>1. UNCHANGED counterVars
      BY <1>4 DEF NotCounted, metricsVars
    <2>2. UNCHANGED <<msg, attempts>>
      BY <1>4
      DEF NotCounted, RetriesSpent, CommitBeforeRetry, RequestHangs, CommitBeforeClose,
          Close, CloseFails, StartFails, StopPolling, EvictMember, Crash, loopVars
    <2>3. /\ \A q \in Replicas \ {r} : pc'[q] = pc[q]
          /\ \/ pc'[r] = pc[r]
             \/ pc'[r] \in {"new", "exited"}
             \/ pc[r] = "calling" /\ pc'[r] = "hanging"
             \/ pc[r] = "recommit" /\ pc'[r] = "calling"
             \/ pc[r] = "polling" /\ pc'[r] = "shutdown"
             \/ pc[r] = "shutdown" /\ pc'[r] = "closing"
      BY <1>4
      DEF NotCounted, RetriesSpent, CommitBeforeRetry, RequestHangs, CommitBeforeClose,
          Close, CloseFails, StartFails, StopPolling, EvictMember, Crash, loopVars
    <2> QED
      BY <2>1, <2>2, <2>3, CountKept
  <1> QED
    BY <1>1, <1>2, <1>3, <1>4

\* Every step keeps count.
LEMMA CountNext ==
    TypeInv /\ CountInv /\ [MetricsNext]_<<vars, metricsVars>> => CountInv'
  <1> SUFFICES ASSUME TypeInv, CountInv, [MetricsNext]_<<vars, metricsVars>>
               PROVE  CountInv'
    OBVIOUS
  <1>1. CASE UNCHANGED <<vars, metricsVars>>
    BY <1>1
    DEF vars, metricsVars, counterVars, CountInv, CountersType, Counted, HandEmpty,
        Uncounted, Running
  <1>2. CASE MetricsNext
    BY <1>2, CountNew, CountPolled, CountFailed, CountFinished, CountStored,
       CountCommitted, CountUnread, CountElse DEF MetricsNext
  <1> QED
    BY <1>1, <1>2

\* No message vanishes between the counters.
THEOREM CountersAddUp == MetricsSpec => []EveryMessageCounted
  <1>1. MetricsInit => TypeInv
    BY TypeInit DEF MetricsInit
  <1>2. CountInv => EveryMessageCounted
    BY DEF CountInv, Counted, Uncounted, EveryMessageCounted
  <1> QED
    BY <1>1, <1>2, TypesUnderMetrics, CountInit, CountNext, PTL DEF MetricsSpec

-----------------------------------------------------------------------------
(***************************************************************************)
(* The exporters.                                                          *)
(***************************************************************************)
\* With a limit, each restart of Run left one exporter behind, the consumer
\* at work has one more, and when the process ends they are within the limit.
ExportersInv ==
    /\ exporters \in [Replicas -> Nat]
    /\ ConsumerMaxRetries # Infinite =>
        \A r \in Replicas :
            /\ pc[r] = "new" => exporters[r] <= retries[r]
            /\ Running(r) => exporters[r] <= retries[r] + 1
            /\ pc[r] = "exited" => WithinBudget(ConsumerMaxRetries, exporters[r])

LEMMA ExportersInit == MetricsInit => ExportersInv
  BY DEF MetricsInit, Init, None, ExportersInv, Running

\* So they are within the limit wherever the loop is.
LEMMA ExportersFit == TypeInv /\ ExportersInv => ExportersBounded
  <1> SUFFICES ASSUME TypeInv, ExportersInv, NEW r \in Replicas,
                      ConsumerMaxRetries # Infinite
               PROVE  exporters[r] = 0 \/ exporters[r] <= ConsumerMaxRetries
    BY DEF ExportersBounded, WithinBudget
  <1>1. /\ exporters[r] \in Nat /\ retries[r] \in Nat /\ ConsumerMaxRetries \in Int
        /\ retries[r] = 0 \/ retries[r] <= ConsumerMaxRetries
        /\ Running(r) => retries[r] < ConsumerMaxRetries
    BY OptionsAssumption
    DEF TypeInv, TypeOK, ExportersInv, WithinBudget, InBudget, Running
  <1>2. /\ pc[r] = "new" => exporters[r] <= retries[r]
        /\ Running(r) => exporters[r] <= retries[r] + 1
        /\ pc[r] = "exited" => \/ exporters[r] = 0
                               \/ exporters[r] <= ConsumerMaxRetries
    BY DEF ExportersInv, WithinBudget
  <1> QED
    BY <1>1, <1>2 DEF Running

\* New registers an exporter, Run counts the restart when the consumer ends,
\* and a new process starts without any.
LEMMA ExportersNext ==
    TypeInv /\ ExportersInv /\ [MetricsNext]_<<vars, metricsVars>> => ExportersInv'
  <1> SUFFICES ASSUME TypeInv, ExportersInv, [MetricsNext]_<<vars, metricsVars>>
               PROVE  ExportersInv'
    OBVIOUS
  <1> USE OptionsAssumption DEF TypeInv, TypeOK, ExportersInv, Running
  <1>1. CASE UNCHANGED <<vars, metricsVars>>
    BY <1>1 DEF vars, metricsVars
  <1>2. ASSUME NEW r \in Replicas, NewCollector(r)
        PROVE  ExportersInv'
    BY <1>2 DEF NewCollector, StartConsumer, NewMeterProvider
  <1>3. ASSUME NEW r \in Replicas, NewProcess(r)
        PROVE  ExportersInv'
    BY <1>3 DEF NewProcess, RestartProcess
  <1>4. ASSUME NEW r \in Replicas, UNCHANGED <<exporters, retries>>,
               \A q \in Replicas \ {r} : pc'[q] = pc[q],
               pc'[r] # "new" \/ pc[r] = "new",
               pc'[r] \notin {"new", "exited"} => Running(r)
        PROVE  ExportersInv'
    <2>1. ASSUME ConsumerMaxRetries # Infinite
          PROVE  WithinBudget(ConsumerMaxRetries, exporters[r])
      BY <2>1, ExportersFit DEF ExportersBounded
    <2> QED
      BY <1>4, <2>1
  <1>5. ASSUME NEW r \in Replicas,
               \/ CountPoll(r) \/ CountFailure(r) \/ CountFinish(r) \/ CountStore(r)
               \/ CountCommit(r) \/ CountRebalance(r) \/ Collect(r)
               \/ CollectFails(r)
        PROVE  ExportersInv'
    <2>1. UNCHANGED <<exporters, retries>>
      BY <1>5
      DEF CountPoll, CountFailure, CountFinish, CountStore, CountCommit, CountRebalance,
          Collect, CollectFails, PollMessage, RequestFails, AttemptsSpent, RequestFinishes,
          StoreOffset, CommitBatch, Rebalance, AssignPartitions, RevokePartitions,
          LoseAssignment, PollNothing, vars
    <2>2. /\ \A q \in Replicas \ {r} : pc'[q] = pc[q]
          /\ Running(r) /\ pc'[r] \notin {"new", "exited"}
      <3>1. CASE CountPoll(r)
        BY <3>1 DEF CountPoll, PollMessage
      <3>2. CASE CountFailure(r)
        BY <3>2 DEF CountFailure, RequestFails, AttemptsSpent
      <3>3. CASE \/ CountFinish(r) \/ CountStore(r) \/ CountCommit(r) \/ Collect(r)
                 \/ CollectFails(r)
        BY <3>3 DEF CountFinish, CountStore, CountCommit, RequestFinishes, StoreOffset,
                    CommitBatch, Collect, CollectFails, PollNothing, vars
      <3>4. CASE CountRebalance(r)
        BY <3>4 DEF CountRebalance, Rebalance, AssignPartitions, RevokePartitions,
                    LoseAssignment, loopVars
      <3> QED
        BY <1>5, <3>1, <3>2, <3>3, <3>4
    <2> QED
      BY <1>4, <2>1, <2>2
  <1>6. ASSUME NEW r \in Replicas, NotCounted(r)
        PROVE  ExportersInv'
    <2>1. UNCHANGED exporters
      BY <1>6 DEF NotCounted, metricsVars
    <2>2. CASE Close(r)
      BY <2>1, <2>2 DEF Close, Count
    <2>3. CASE ~Close(r)
      <3>1. UNCHANGED retries
        BY <1>6, <2>3
        DEF NotCounted, RetriesSpent, CommitBeforeRetry, RequestHangs,
            CommitBeforeClose, CloseFails, StartFails, StopPolling, EvictMember, Crash
      <3>2. /\ \A q \in Replicas \ {r} : pc'[q] = pc[q]
            /\ pc'[r] # "new" \/ pc[r] = "new"
            /\ pc'[r] \notin {"new", "exited"} => Running(r)
        BY <1>6, <2>3
        DEF NotCounted, RetriesSpent, CommitBeforeRetry, RequestHangs,
            CommitBeforeClose, CloseFails, StartFails, StopPolling, EvictMember, Crash,
            loopVars
      <3> QED
        BY <1>4, <2>1, <3>1, <3>2
    <2> QED
      BY <2>2, <2>3
  <1> QED
    BY <1>1, <1>2, <1>3, <1>5, <1>6 DEF MetricsNext

\* The exporters left behind are no more than the restarts the options allow.
THEOREM ExportersWithinBudget == MetricsSpec => []ExportersBounded
  <1>1. MetricsInit => TypeInv
    BY TypeInit DEF MetricsInit
  <1> QED
    BY <1>1, TypesUnderMetrics, ExportersInit, ExportersNext, ExportersFit, PTL
    DEF MetricsSpec

=============================================================================
