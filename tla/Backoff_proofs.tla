-------------------------- MODULE Backoff_proofs --------------------------
(***************************************************************************)
(* With settings that are Patient the replica polls in time.               *)
(*                                                                         *)
(* A round is an attempt, the commit after it and the backoff.  The        *)
(* invariant: in attempt n + 1 the clock is at most at n rounds.           *)
(***************************************************************************)
EXTENDS Backoff, TLAPS

Round == MaxRequest + MaxCommit + LongestSleep

\* The time that has passed in each place of the loop.
ClockInv ==
    /\ pc \in {"polling", "calling", "waiting", "storing", "closing"}
    /\ attempts \in Nat
    /\ clock \in Nat
    /\ pc = "calling" => attempts < OperationMaxRetries /\ clock <= attempts * Round
    /\ pc = "waiting" =>
           /\ attempts \in 1 .. OperationMaxRetries - 1
           /\ clock <= (attempts - 1) * Round + MaxRequest
    /\ pc \in {"storing", "closing"} => clock <= OperationMaxRetries * Round
    /\ pc = "polling" => clock <= MaxPollInterval

\* A backoff is a time, and no longer than the longest.
LEMMA SleepBounded ==
    ASSUME NEW n \in Nat
    PROVE  Sleep(n) \in 0 .. LongestSleep
<1> DEFINE a == BackoffFactor * n * 300
           b == MaxBackoffSeconds * 1000
<1>1. a \in Int /\ b \in Int
  BY BackoffAssumption
<1> HIDE DEF a
<1>2. (IF (IF a <= b THEN a ELSE b) < 0 THEN 0 ELSE IF a <= b THEN a ELSE b)
         \in 0 .. (IF MaxBackoffSeconds < 0 THEN 0 ELSE b)
  BY <1>1, BackoffAssumption
<1>3. QED
  BY <1>2 DEF Sleep, Least, LongestSleep, a

\* A round is a time.
LEMMA RoundIsTime == Round \in Nat /\ LongestSleep \in Nat
  BY BackoffAssumption DEF Round, LongestSleep

\* One round more.
LEMMA NextRound ==
    ASSUME NEW n \in Int
    PROVE  (n - 1) * Round \in Int /\ n * Round = (n - 1) * Round + Round
  BY RoundIsTime

\* Fewer rounds take no longer.
LEMMA FewerRounds ==
    ASSUME NEW m \in Nat, NEW n \in Nat, m <= n
    PROVE  m * Round <= n * Round /\ m * Round \in Nat
  BY RoundIsTime

\* Patient, in rounds.
LEMMA PatientRounds ==
    ASSUME Patient
    PROVE  /\ OperationMaxRetries \in Nat
           /\ OperationMaxRetries * Round \in Nat
           /\ OperationMaxRetries * Round + MaxCommit <= MaxPollInterval
  BY BackoffAssumption, RoundIsTime DEF Patient, Round

\* With settings that are Patient every step keeps the clock in its bounds.
LEMMA ClockStep ==
    ASSUME Patient, ClockInv, [Next]_vars
    PROVE  ClockInv'
<1> DEFINE N == OperationMaxRetries
           NRounds == N * Round
           n == attempts
           Rounds == n * Round
<1>1. /\ N \in Nat /\ NRounds \in Nat /\ NRounds + MaxCommit <= MaxPollInterval
      /\ MaxCommit \in Nat /\ MaxRequest \in Nat /\ MaxPollInterval \in Nat
      /\ Round \in Nat /\ MaxRequest <= Round
  BY PatientRounds, RoundIsTime, BackoffAssumption DEF Round
<1>2. /\ Rounds \in Nat /\ n \in Nat
      /\ n <= N => Rounds <= NRounds
      /\ n + 1 <= N => (n + 1) * Round <= NRounds
      /\ (n + 1) * Round = Rounds + Round
      /\ (n - 1) * Round \in Int /\ Rounds = (n - 1) * Round + Round
  <2>1. n \in Nat /\ n + 1 \in Nat /\ (n + 1) - 1 = n
    BY DEF ClockInv
  <2>2. Rounds \in Nat /\ (n <= N => Rounds <= NRounds)
    BY <1>1, <2>1, FewerRounds
  <2>3. n + 1 <= N => (n + 1) * Round <= NRounds
    BY <1>1, <2>1, FewerRounds
  <2>4. (n + 1) * Round = Rounds + Round
    BY <2>1, NextRound
  <2>5. (n - 1) * Round \in Int /\ Rounds = (n - 1) * Round + Round
    BY <2>1, NextRound
  <2>6. QED
    BY <2>1, <2>2, <2>3, <2>4, <2>5
<1>3. \A d \in RequestTimes : d \in 0 .. MaxRequest
  BY BackoffAssumption
<1>4. \A c \in CommitTimes \union {0} : c \in 0 .. MaxCommit
  BY BackoffAssumption
<1>5. MoreAttempts(attempts) <=> attempts < N
  BY <1>1 DEF MoreAttempts
<1> HIDE DEF NRounds, Rounds
<1>6. CASE Poll
  <2>1. 0 * Round = 0
    BY <1>1
  <2>2. MoreAttempts(0) <=> 0 < N
    BY <1>1 DEF MoreAttempts
  <2>3. QED
    BY <1>1, <1>6, <2>1, <2>2 DEF Poll, ClockInv, NRounds
<1>7. CASE RequestSucceeds
  <2>1. PICK d \in RequestTimes : clock' = clock + d
    BY <1>7 DEF RequestSucceeds
  <2>2. clock <= Rounds /\ n + 1 <= N /\ clock \in Nat
    BY <1>1, <1>2, <1>7 DEF RequestSucceeds, ClockInv, Rounds
  <2>3. clock' \in Nat /\ clock' <= NRounds
    BY <1>1, <1>2, <1>3, <2>1, <2>2
  <2>4. QED
    BY <1>1, <1>7, <2>3 DEF RequestSucceeds, ClockInv, NRounds
<1>8. CASE RequestFails
  <2>1. PICK d \in RequestTimes : clock' = clock + d
    BY <1>8 DEF RequestFails
  <2>2. clock <= Rounds /\ n + 1 <= N /\ clock \in Nat /\ attempts' = n + 1
    BY <1>1, <1>2, <1>8 DEF RequestFails, ClockInv, Rounds
  <2>3. clock' \in Nat /\ clock' <= Rounds + MaxRequest /\ clock' <= NRounds
    BY <1>1, <1>2, <1>3, <2>1, <2>2
  <2>4. (attempts' - 1) * Round = Rounds
    BY <1>2, <2>2 DEF Rounds
  <2>5. MoreAttempts(attempts') <=> n + 1 < N
    BY <1>1, <1>2, <2>2 DEF MoreAttempts
  <2>6. QED
    BY <1>1, <1>2, <1>8, <2>2, <2>3, <2>4, <2>5 DEF RequestFails, ClockInv, NRounds
<1>9. CASE CommitAndSleep
  <2>1. PICK c \in CommitTimes \union {0} : clock' = clock + c + Sleep(attempts)
    BY <1>9 DEF CommitAndSleep
  <2>2. Sleep(attempts) \in 0 .. LongestSleep /\ LongestSleep \in Nat
    BY <1>2, SleepBounded, RoundIsTime
  <2>3. /\ clock <= (n - 1) * Round + MaxRequest /\ clock \in Nat
        /\ n < N /\ attempts' = n
    BY <1>1, <1>9 DEF CommitAndSleep, ClockInv
  <2>4. clock' \in Nat /\ clock' <= Rounds
    BY <1>1, <1>2, <1>4, <2>1, <2>2, <2>3 DEF Round
  <2>5. QED
    BY <1>1, <1>2, <1>9, <2>3, <2>4 DEF CommitAndSleep, ClockInv, Rounds
<1>10. CASE Store \/ Shutdown
  <2>1. PICK c \in CommitTimes \union {0} : clock' = clock + c
    BY <1>10 DEF Store, Shutdown
  <2>2. clock <= NRounds /\ clock \in Nat
    BY <1>10 DEF Store, Shutdown, ClockInv, NRounds
  <2>3. clock' \in Nat /\ clock' <= MaxPollInterval
    BY <1>1, <1>4, <2>1, <2>2
  <2>4. QED
    BY <1>10, <2>3 DEF Store, Shutdown, ClockInv
<1>11. CASE UNCHANGED vars
  BY <1>11 DEF vars, ClockInv
<1>12. QED
  BY <1>6, <1>7, <1>8, <1>9, <1>10, <1>11 DEF Next

\* Whatever the options, the times of the requests and of the commits: if the
\* rounds of all attempts fit into max.poll.interval.ms, Retry returns to
\* Poll before the group evicts the replica.
THEOREM PollsBeforeEviction == Spec => []PollsInTime
<1>1. CASE ~Patient
  <2>1. PollsInTime
    BY <1>1 DEF PollsInTime
  <2>2. QED
    BY <2>1, PTL
<1>2. CASE Patient
  <2>1. Init => ClockInv
    BY BackoffAssumption, PatientRounds, <1>2 DEF Init, ClockInv
  <2>2. ClockInv /\ [Next]_vars => ClockInv'
    BY <1>2, ClockStep
  <2>3. ClockInv => PollsInTime
    <3>1. ASSUME ClockInv PROVE clock <= MaxPollInterval
      <4> DEFINE NRounds == OperationMaxRetries * Round
      <4>1. /\ OperationMaxRetries \in Nat /\ NRounds \in Nat
            /\ NRounds + MaxCommit <= MaxPollInterval
            /\ MaxCommit \in Nat /\ MaxPollInterval \in Nat /\ clock \in Nat
        BY <1>2, <3>1, PatientRounds, BackoffAssumption DEF ClockInv
      <4>2. CASE pc = "calling"
        <5>1. attempts * Round <= NRounds /\ attempts * Round \in Nat
          BY <3>1, <4>1, <4>2, FewerRounds DEF ClockInv
        <5>2. clock <= attempts * Round
          BY <3>1, <4>2 DEF ClockInv
        <5> HIDE DEF NRounds
        <5>3. QED
          BY <4>1, <5>1, <5>2
      <4>3. CASE pc = "waiting"
        <5>1. attempts \in Nat /\ attempts - 1 \in Nat /\ attempts <= OperationMaxRetries
          BY <3>1, <4>1, <4>3 DEF ClockInv
        <5>2. /\ attempts * Round <= NRounds /\ attempts * Round \in Nat
              /\ attempts * Round = (attempts - 1) * Round + Round
              /\ (attempts - 1) * Round \in Nat
          BY <4>1, <5>1, FewerRounds, NextRound
        <5>3. clock <= (attempts - 1) * Round + MaxRequest
          BY <3>1, <4>3 DEF ClockInv
        <5>4. MaxRequest <= Round /\ Round \in Nat /\ MaxRequest \in Nat
          BY RoundIsTime, BackoffAssumption DEF Round
        <5> HIDE DEF NRounds
        <5>5. QED
          BY <4>1, <5>2, <5>3, <5>4
      <4>4. CASE pc \in {"storing", "closing"}
        BY <3>1, <4>1, <4>4 DEF ClockInv
      <4>5. QED
        BY <3>1, <4>2, <4>3, <4>4 DEF ClockInv
    <3>2. QED
      BY <3>1 DEF PollsInTime
  <2>4. QED
    BY <2>1, <2>2, <2>3, PTL DEF Spec
<1>3. QED
  BY <1>1, <1>2

=============================================================================
