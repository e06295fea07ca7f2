------------------------------ MODULE Backoff ------------------------------
(***************************************************************************)
(* The time one message takes: the attempts of Retry, the commits and the  *)
(* backoff between them, and the time the group allows between two calls   *)
(* of Poll (consumer/consumer.go, consumer/retry, max.poll.interval.ms).   *)
(*                                                                         *)
(* InventoryConsumer has a member evicted whenever it is not polling; this *)
(* module says which settings keep that from happening.  The clock is in   *)
(* milliseconds and runs from the last Poll.                               *)
(***************************************************************************)
EXTENDS Integers

CONSTANTS
    OperationMaxRetries, BackoffFactor, MaxBackoffSeconds, MaxPollInterval,
    RequestTimes,   \* how long a request takes to be answered
    CommitTimes,    \* and a commit
    MaxRequest,     \* the longest of them
    MaxCommit

\* Nothing validates the options.
ASSUME BackoffAssumption ==
    /\ {OperationMaxRetries, BackoffFactor, MaxBackoffSeconds} \subseteq Int
    /\ {MaxPollInterval, MaxRequest, MaxCommit} \subseteq Nat
    /\ RequestTimes \subseteq 0 .. MaxRequest
    /\ CommitTimes \subseteq 0 .. MaxCommit

VARIABLES
    pc,        \* "polling", "calling", "waiting", "storing", "closing"
    attempts,  \* of Retry
    clock      \* since the last Poll

vars == <<pc, attempts, clock>>

Least(a, b) == IF a <= b THEN a ELSE b

\* min(BackoffFactor * attempts * 300 ms, MaxBackoffSeconds s); Sleep returns
\* at once if that is negative.
Sleep(n) ==
    LET backoff == Least(BackoffFactor * n * 300, MaxBackoffSeconds * 1000)
    IN  IF backoff < 0 THEN 0 ELSE backoff

\* (Mutant: one attempt more.)
MoreAttempts_OffByOne(n) == OperationMaxRetries = -1 \/ n <= OperationMaxRetries

MoreAttempts(n) == OperationMaxRetries = -1 \/ n < OperationMaxRetries

Init ==
    /\ pc = "polling"
    /\ attempts = 0
    /\ clock = 0

\* Poll returns a message whose request is to be sent, or nothing.
Poll ==
    /\ pc = "polling"
    /\ pc' = IF MoreAttempts(0) THEN "calling" ELSE "closing"
    /\ attempts' = 0
    /\ clock' = 0

RequestSucceeds ==
    /\ pc = "calling"
    /\ \E d \in RequestTimes : clock' = clock + d
    /\ pc' = "storing"
    /\ UNCHANGED attempts

RequestFails ==
    /\ pc = "calling"
    /\ \E d \in RequestTimes : clock' = clock + d
    /\ attempts' = attempts + 1
    /\ pc' = IF MoreAttempts(attempts') THEN "waiting" ELSE "closing"

\* Stored offsets are committed, if there are any, and the loop sleeps.
CommitAndSleep ==
    /\ pc = "waiting"
    /\ \E c \in CommitTimes \union {0} : clock' = clock + c + Sleep(attempts)
    /\ pc' = "calling"
    /\ UNCHANGED attempts

\* The message is stored, and its batch committed if it is complete.
Store ==
    /\ pc = "storing"
    /\ \E c \in CommitTimes \union {0} : clock' = clock + c
    /\ pc' = "polling"
    /\ UNCHANGED attempts

\* Shutdown commits what is stored, and Close leaves the group; Run makes a
\* new consumer, whose clock starts again.
Shutdown ==
    /\ pc = "closing"
    /\ \E c \in CommitTimes \union {0} : clock' = clock + c
    /\ pc' = "polling"
    /\ UNCHANGED attempts

Next ==
    \/ Poll \/ RequestSucceeds \/ RequestFails \/ CommitAndSleep
    \/ Store \/ Shutdown

Spec == Init /\ [][Next]_vars

-----------------------------------------------------------------------------
(***************************************************************************)
(* Properties.                                                             *)
(***************************************************************************)
\* The longest a backoff can be.
LongestSleep == IF MaxBackoffSeconds < 0 THEN 0 ELSE MaxBackoffSeconds * 1000

\* Settings under which every attempt may take its longest.
Patient ==
    /\ OperationMaxRetries >= 0
    /\ OperationMaxRetries * (MaxRequest + MaxCommit + LongestSleep) + MaxCommit
           <= MaxPollInterval

\* With such settings no retrying keeps the replica away from Poll so long
\* that the group takes its partitions away and another replica sends the
\* same messages meanwhile.
PollsInTime == Patient => clock <= MaxPollInterval

=============================================================================
