------------------------------- MODULE Metrics -------------------------------
(***************************************************************************)
(* The metrics of the consumer: metrics/metricscollector.go and otel.go,   *)
(* and the calls of Incr and Collect in consumer/consumer.go, on top of    *)
(* the loop of InventoryConsumer.                                          *)
(*                                                                         *)
(* Every New of a consumer makes a MetricsCollector with a meter provider  *)
(* of its own, whose Prometheus exporter joins the process-wide registry   *)
(* and never leaves it.  ServeMetrics serves that registry.                *)
(*                                                                         *)
(* Of the statistics only the number of rebalances is kept, the one that   *)
(* Collect does not merely copy.                                           *)
(***************************************************************************)
EXTENDS MCInventoryConsumer

CONSTANT MaxReports   \* bound: statistics a consumer reports

ASSUME ReportsAssumption == MaxReports \in Nat

VARIABLES
    exporters,       \* exporters in the registry of the process
    msgsProcessed,   \* MsgsProcessed, MsgProcessFailures and ConsumerErrors of
    msgFailures,     \* the collector in use
    consumerErrors,
    polled,          \* messages the consumer has polled
    rebalances,      \* librdkafka's count of the client's rebalances
    rebalanceCnt,    \* the counter of that name
    reports          \* statistics reported so far

counterVars == <<msgsProcessed, msgFailures, consumerErrors, polled>>
statsVars   == <<rebalanceCnt, reports>>
metricsVars == <<exporters, counterVars, rebalances, statsVars>>

None == [r \in Replicas |-> 0]

MetricsInit ==
    /\ Init
    /\ exporters = None
    /\ msgsProcessed = None
    /\ msgFailures = None
    /\ consumerErrors = None
    /\ polled = None
    /\ rebalances = None
    /\ rebalanceCnt = None
    /\ reports = None

Plus(counter, r, n) == counter' = [counter EXCEPT ![r] = @ + n]

-----------------------------------------------------------------------------
\* A provider, whose exporter registers itself and is never taken back.
NewMeterProvider(r) == exporters' = [exporters EXCEPT ![r] = @ + 1]

\* MetricsCollector.New: new instruments, with a provider of their own.
NewCollector(r) ==
    /\ StartConsumer(r)
    /\ NewMeterProvider(r)
    /\ msgsProcessed' = [msgsProcessed EXCEPT ![r] = 0]
    /\ msgFailures' = [msgFailures EXCEPT ![r] = 0]
    /\ consumerErrors' = [consumerErrors EXCEPT ![r] = 0]
    /\ polled' = [polled EXCEPT ![r] = 0]
    /\ rebalances' = [rebalances EXCEPT ![r] = 0]
    /\ rebalanceCnt' = [rebalanceCnt EXCEPT ![r] = 0]
    /\ reports' = [reports EXCEPT ![r] = 0]

\* A message with bad headers or a bad body, and, if the client is enabled,
\* one the transforms cannot use, is counted as a failure.
CountPoll(r) ==
    /\ PollMessage(r)
    /\ Plus(polled, r, 1)
    /\ Plus(msgFailures, r,
            IF pc'[r] = "shutdown" \/ (pc'[r] = "store" /\ Enabled) THEN 1 ELSE 0)
    /\ UNCHANGED <<exporters, msgsProcessed, consumerErrors, rebalances, statsVars>>

\* Each failed attempt is counted, and so is the request that is given up or
\* whose resource does not exist.
CountFailure(r) ==
    /\ RequestFails(r) \/ AttemptsSpent(r)
    /\ Plus(msgFailures, r, 1)
    /\ UNCHANGED <<exporters, msgsProcessed, consumerErrors, polled,
                   rebalances, statsVars>>

CountFinish(r) ==
    /\ RequestFinishes(r)
    /\ \E dropped \in IF IsDelete(MessageOf(r)) THEN {0, 1} ELSE {0} :
          Plus(msgFailures, r, dropped)
    /\ UNCHANGED <<exporters, msgsProcessed, consumerErrors, polled,
                   rebalances, statsVars>>

\* Mutant: a message is counted before its batch is committed, too.
ProcessedAtStore_Always(location) == 1

ProcessedAtStore(location) == IF location = "commit" THEN 0 ELSE 1

\* A message is processed once it is stored, or once its batch is committed;
\* if the commit fails, the loop goes on without counting it.
CountStore(r) ==
    /\ StoreOffset(r)
    /\ Plus(msgsProcessed, r, ProcessedAtStore(pc'[r]))
    /\ UNCHANGED <<exporters, msgFailures, consumerErrors, polled, rebalances,
                   statsVars>>

CountCommit(r) ==
    /\ CommitBatch(r)
    /\ IF pending'[r] = NothingStored
       THEN Plus(msgsProcessed, r, 1) /\ UNCHANGED consumerErrors
       ELSE Plus(consumerErrors, r, 1) /\ UNCHANGED msgsProcessed
    /\ UNCHANGED <<exporters, msgFailures, polled, rebalances, statsVars>>

\* librdkafka counts every assignment and revocation.
CountRebalance(r) ==
    /\ Rebalance(r)
    /\ Plus(rebalances, r, 1)
    /\ UNCHANGED <<exporters, counterVars, statsVars>>

\* Collect: gauges take the numbers of the report; the count of rebalances is
\* added to a counter.
Collect(r) ==
    /\ PollNothing(r)
    /\ reports[r] < MaxReports
    /\ Plus(reports, r, 1)
    /\ Plus(rebalanceCnt, r, rebalances[r])
    /\ UNCHANGED <<exporters, counterVars, rebalances>>

\* A report that is not JSON counts as a failure to process a message.
CollectFails(r) ==
    /\ PollNothing(r)
    /\ reports[r] < MaxReports
    /\ Plus(reports, r, 1)
    /\ Plus(msgFailures, r, 1)
    /\ UNCHANGED <<exporters, msgsProcessed, consumerErrors, polled, rebalances,
                   rebalanceCnt>>

\* The registry goes with the process.
NewProcess(r) ==
    /\ RestartProcess(r)
    /\ exporters' = [exporters EXCEPT ![r] = 0]
    /\ UNCHANGED <<counterVars, rebalances, statsVars>>

NotCounted(r) ==
    /\ \/ RetriesSpent(r) \/ CommitBeforeRetry(r) \/ RequestHangs(r)
       \/ CommitBeforeClose(r) \/ Close(r) \/ CloseFails(r)
       \/ StartFails(r) \/ StopPolling(r) \/ EvictMember(r) \/ Crash(r)
    /\ UNCHANGED metricsVars

MetricsNext ==
    \E r \in Replicas :
        \/ NewCollector(r)
        \/ CountPoll(r)
        \/ CountFailure(r)
        \/ CountFinish(r)
        \/ CountStore(r)
        \/ CountCommit(r)
        \/ CountRebalance(r)
        \/ Collect(r)
        \/ CollectFails(r)
        \/ NewProcess(r)
        \/ NotCounted(r)

MetricsSpec == MetricsInit /\ [][MetricsNext]_<<vars, metricsVars>>

-----------------------------------------------------------------------------
(***************************************************************************)
(* Properties.                                                             *)
(***************************************************************************)
Running(r) == pc[r] \notin {"new", "exited"}

\* No message vanishes between the counters: whatever fails and is tried
\* again, the messages the consumer has polled are those it counted as
\* processed, those whose batch was not committed, and the one in hand; and
\* when one of them ends the loop, it left a failure for every attempt.
EveryMessageCounted ==
    \A r \in Replicas : Running(r) =>
        /\ polled[r] = msgsProcessed[r] + consumerErrors[r]
                       + (IF msg[r] # NoMsg \/ pc[r] = "commit" THEN 1 ELSE 0)
        /\ msgFailures[r] >= attempts[r]
        /\ pc[r] = "shutdown" /\ msg[r] # NoMsg => msgFailures[r] > attempts[r]

\* The exporters a process leaves behind stay within the restarts of Run: with
\* none allowed there is none, with an infinite budget there is no limit.
ExportersBounded ==
    \A r \in Replicas : WithinBudget(ConsumerMaxRetries, exporters[r])

\* "monotonically increasing values: messages processed, errors, rebalance
\* count": the counter is the number of rebalances, as of the last report.
RebalancesCountedOnce ==
    \A r \in Replicas : Running(r) => rebalanceCnt[r] <= rebalances[r]

=============================================================================
