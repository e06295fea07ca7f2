---------------------------- MODULE Replay_proofs ----------------------------
(***************************************************************************)
(* What a restart replays is bounded: ReplayBounded, for every group, log  *)
(* and set of options.                                                     *)
(*                                                                         *)
(* What is counted are the batch boundaries between two offsets of a       *)
(* partition.  They are finitely many even in an endless log, fewer        *)
(* between offsets closer together, and a finished message adds one at     *)
(* most.                                                                   *)
(***************************************************************************)
EXTENDS Handover_proofs, FiniteSetTheorems

\* The boundaries after one offset and up to another.
Boundaries(p, low, high) ==
    {o \in DOMAIN Log[p] : o % CommitModulo = 0 /\ low < o /\ o <= high}

\* There are no more than n of them.
Within(p, low, high, n) == Cardinality(Boundaries(p, low, high)) <= n

\* They can be counted.
LEMMA BoundariesFinite ==
    ASSUME NEW p \in Partitions, NEW low \in Int, NEW high \in Int
    PROVE  /\ IsFiniteSet(Boundaries(p, low, high))
           /\ Cardinality(Boundaries(p, low, high)) \in Nat
<1>1. Boundaries(p, low, high) \subseteq 0..high
  BY LogAssumption DEF Boundaries
<1>2. IsFiniteSet(0..high)
  BY FS_Interval
<1>3. IsFiniteSet(Boundaries(p, low, high))
  BY <1>1, <1>2, FS_Subset
<1>4. QED
  BY <1>3, FS_CardinalityType

\* Between offsets closer together there are no more of them.
LEMMA BoundariesNarrow ==
    ASSUME NEW p \in Partitions, NEW low \in Int, NEW high \in Int,
           NEW low2 \in Int, NEW high2 \in Int, NEW n \in Nat, NEW n2 \in Nat,
           low <= low2, high2 <= high, n <= n2, Within(p, low, high, n)
    PROVE  Within(p, low2, high2, n2)
<1>1. Boundaries(p, low2, high2) \subseteq Boundaries(p, low, high)
  BY LogAssumption DEF Boundaries
<1>2. Cardinality(Boundaries(p, low2, high2)) <= Cardinality(Boundaries(p, low, high))
  BY <1>1, BoundariesFinite, FS_Subset
<1>3. QED
  BY <1>2, BoundariesFinite DEF Within

\* After an offset and up to an earlier one there are none.
LEMMA BoundariesNone ==
    ASSUME NEW p \in Partitions, NEW low \in Int, NEW high \in Int, NEW n \in Nat,
           \A o \in DOMAIN Log[p] : o <= high => o <= low
    PROVE  Within(p, low, high, n)
<1>1. Boundaries(p, low, high) = {}
  BY LogAssumption DEF Boundaries
<1>2. QED
  BY <1>1, FS_EmptySet DEF Within

\* The next message of the log adds one if it is a boundary, and else none.
LEMMA BoundariesGrow ==
    ASSUME NEW p \in Partitions, NEW low \in Int, NEW n \in Nat, NEW k \in Nat,
           NEW o \in DOMAIN Log[p], n <= o,
           \A i \in DOMAIN Log[p] : i >= n => o <= i,
           Within(p, low, n - 1, k)
    PROVE  Within(p, low, o, IF CheckIfCommit(o) THEN k + 1 ELSE k)
<1> DEFINE B == Boundaries(p, low, n - 1)
<1>1. o \in Nat
  BY LogAssumption
<1>2. IsFiniteSet(B) /\ Cardinality(B) \in Nat /\ Cardinality(B) <= k
  BY BoundariesFinite DEF Within
<1>3. ASSUME NEW i \in Boundaries(p, low, o)
      PROVE  i \in B \/ (i = o /\ CheckIfCommit(o))
  <2>1. i \in DOMAIN Log[p] /\ i \in Nat /\ i <= o
    BY LogAssumption DEF Boundaries
  <2>2. CASE i <= n - 1
    BY <2>1, <2>2 DEF Boundaries
  <2>3. CASE i >= n
    BY <1>1, <2>1, <2>3 DEF Boundaries, CheckIfCommit
  <2>4. QED
    BY <2>1, <2>2, <2>3
<1>5. IsFiniteSet(Boundaries(p, low, o)) /\ Cardinality(Boundaries(p, low, o)) \in Nat
  BY <1>1, BoundariesFinite
<1> HIDE DEF B
<1>4. IsFiniteSet(B \union {o}) /\ Cardinality(B \union {o}) <= Cardinality(B) + 1
  <2>1. /\ IsFiniteSet(B \union {o})
        /\ Cardinality(B \union {o}) =
               IF o \in B THEN Cardinality(B) ELSE Cardinality(B) + 1
    BY <1>2, FS_AddElement, Zenon
  <2>2. QED
    BY <1>2, <2>1
<1>6. CASE CheckIfCommit(o)
  <2>1. Boundaries(p, low, o) \subseteq B \union {o}
    BY <1>3
  <2>2. Cardinality(Boundaries(p, low, o)) <= Cardinality(B \union {o})
    BY <1>4, <2>1, FS_Subset
  <2>3. Cardinality(B \union {o}) \in Nat
    BY <1>4, FS_CardinalityType
  <2>4. QED
    BY <1>2, <1>4, <1>5, <1>6, <2>2, <2>3 DEF Within
<1>7. CASE ~CheckIfCommit(o)
  <2>1. Boundaries(p, low, o) \subseteq B
    BY <1>3, <1>7
  <2>2. Cardinality(Boundaries(p, low, o)) <= Cardinality(B)
    BY <1>2, <2>1, FS_Subset
  <2>3. QED
    BY <1>2, <1>5, <1>7, <2>2 DEF Within
<1>8. QED
  BY <1>6, <1>7

\* What ReplayBounded counts are the boundaries after the committed offset and
\* before the position.
LEMMA UncommittedAreBoundaries ==
    ASSUME TypeOK, NEW r \in Replicas, NEW p \in Partitions
    PROVE  UncommittedBoundaries(r, p) = Boundaries(p, committed[p], next[r][p] - 1)
  BY LogAssumption DEF TypeOK, UncommittedBoundaries, Boundaries

-----------------------------------------------------------------------------
\* A replica that has a message in hand has the next one of a partition that
\* it is assigned.
FollowInv ==
    \A r \in Replicas : InHand(r) =>
        msg[r][1] \in assigned[r] /\ IsNext(r, msg[r][1], msg[r][2])

\* No replica has a message at first.
LEMMA FollowInit == Init => FollowInv
  BY DEF Init, FollowInv, InHand

\* Partitions and positions change only where a replica has no message.
LEMMA FollowNext == TypeInv /\ FollowInv /\ [Next]_vars => FollowInv'
<1> SUFFICES ASSUME TypeInv, FollowInv, [Next]_vars PROVE FollowInv'
  OBVIOUS
<1> USE DEF TypeInv, TypeOK
<1>1. ASSUME NEW r \in Replicas, InHand(r), pc'[r] # pc[r] => InHand(r)',
             UNCHANGED <<msg[r], assigned[r], next[r]>>
      PROVE  msg'[r][1] \in assigned'[r] /\ IsNext(r, msg[r][1], msg[r][2])'
  BY <1>1 DEF FollowInv, IsNext
<1>2. ASSUME NEW r \in Replicas,
             \/ InHand(r) /\ UNCHANGED <<msg[r], assigned[r], next[r]>>
             \/ ~InHand(r)'
             \/ PollMessage(r),
             \A q \in Replicas \ {r} : UNCHANGED <<pc[q], msg[q], assigned[q], next[q]>>
      PROVE  FollowInv'
  <2>1. ASSUME NEW q \in Replicas \ {r}
        PROVE  InHand(q)' =>
                   msg'[q][1] \in assigned'[q] /\ IsNext(q, msg[q][1], msg[q][2])'
    BY <1>2, <2>1 DEF FollowInv, InHand, IsNext
  <2>2. CASE PollMessage(r)
    <3>1. PICK p \in assigned[r] : \E o \in DOMAIN Log[p] :
              IsNext(r, p, o) /\ msg' = [msg EXCEPT ![r] = <<p, o>>]
      BY <2>2 DEF PollMessage
    <3>2. PICK o \in DOMAIN Log[p] :
              IsNext(r, p, o) /\ msg' = [msg EXCEPT ![r] = <<p, o>>]
      BY <3>1
    <3>3. msg'[r][1] = p /\ msg'[r][2] = o /\ UNCHANGED <<assigned, next>>
      BY <2>2, <3>2 DEF PollMessage, clientVars
    <3>4. IsNext(r, msg[r][1], msg[r][2])'
      BY <3>2, <3>3 DEF IsNext
    <3>5. QED
      BY <2>1, <3>3, <3>4 DEF FollowInv
  <2>3. CASE ~PollMessage(r)
    <3>1. InHand(r)' =>
              msg'[r][1] \in assigned'[r] /\ IsNext(r, msg[r][1], msg[r][2])'
      BY <1>2, <2>3, <1>1
    <3>2. QED
      BY <2>1, <3>1 DEF FollowInv
  <2>4. QED
    BY <2>2, <2>3
<1> USE DEF InHand, loopVars, clientVars
<1>3. CASE UNCHANGED vars
  BY <1>3 DEF vars, FollowInv, IsNext
<1>4. ASSUME NEW r \in Replicas, Loop(r) \/ Rebalance(r) \/ Environment(r)
      PROVE  FollowInv'
  <2>1. CASE Loop(r)
    BY <1>2, <2>1
    DEF Loop, StartConsumer, RetriesSpent, PollMessage, RequestFinishes,
        RequestFails, CommitBeforeRetry, AttemptsSpent, StoreOffset, CommitBatch,
        CommitBeforeClose, Close
  <2>2. CASE Rebalance(r)
    BY <1>2, <2>2 DEF Rebalance, AssignPartitions, RevokePartitions, LoseAssignment
  <2>3. CASE PollNothing(r)
    BY <1>3, <2>3 DEF PollNothing
  <2>4. CASE EvictMember(r)
    BY <2>4 DEF EvictMember, FollowInv, IsNext
  <2>5. CASE Environment(r) /\ ~PollNothing(r) /\ ~EvictMember(r)
    BY <1>2, <2>5
    DEF Environment, StartFails, StopPolling, RequestHangs, CloseFails, Crash,
        RestartProcess
  <2>6. QED
    BY <1>4, <2>1, <2>2, <2>3, <2>4, <2>5
<1>5. QED
  BY <1>3, <1>4 DEF Next

-----------------------------------------------------------------------------
(***************************************************************************)
(* No replica can pull another one's offsets back before a disruption, or  *)
(* before a commit fails.                                                  *)
(***************************************************************************)
\* Every message the replica finished in the partition is at or before c.
FinishedUpTo(r, p, c) == \A o \in DOMAIN Log[p] : o < next[r][p] => o <= c

\* A commit, or none, that takes no reader back, and that either fails or
\* commits all its replica finished.
SparingCommit(r) ==
    /\ commitFailures <= commitFailures'
    /\ \A q \in Replicas : \A p \in assigned[q] :
          committed[p] <= committed'[p] \/ FinishedUpTo(q, p, committed'[p])
    /\ \/ commitFailures < commitFailures'
       \/ \A p \in assigned[r] : FinishedUpTo(r, p, committed'[p])

\* Steps that end before a disruption, or before a commit fails, and what is
\* known where they begin.
Quiet ==
    \/ disruptions' = 0 /\ AssignmentInv /\ CoverInv
    \/ /\ commitFailures = 0 /\ commitFailures' = 0
       /\ \A q \in Replicas : HandoverOf(q)

\* A commit that fails is counted, as long as the count is exact.
LEMMA FailuresCounted ==
    ASSUME TypeOK, NEW r \in Replicas, CommitStoredOffsets(r),
           commitFailures' <= MaxCommitFailures
    PROVE  /\ commitFailures <= MaxCommitFailures
           /\ \/ commitFailures' = commitFailures
              \/ commitFailures' = commitFailures + 1 /\ CommitFails(r)
  BY BoundsAssumption
  DEF TypeOK, CommitStoredOffsets, CommitSucceeds, CommitFails, offsetVars

\* Before a disruption.
LEMMA UndisruptedCommit ==
    ASSUME TypeInv, AssignmentInv, CoverInv, NEW r \in Replicas, Running(r),
           CommitStoredOffsets(r), commitFailures' <= MaxCommitFailures
    PROVE  SparingCommit(r)
<1> USE DEF TypeInv, TypeOK
<1>1. \A p \in Partitions : committed[p] <= committed[p]
  <2>1. \A p \in Partitions : committed[p] \in Int
    BY DEF Offsets, NoOffset
  <2>2. QED
    BY <2>1
<1>2. ASSUME NEW p \in Partitions
      PROVE  committed'[p] = committed[p] \/ committed'[p] = Covered(r, p)
  BY DEF CommitStoredOffsets, CommitSucceeds, CommitFails, offsetVars, Overlay, Covered
<1>3. ASSUME NEW q \in Replicas \ {r}, NEW p \in assigned[q]
      PROVE  committed'[p] = committed[p]
  <2>1. p \in Partitions /\ p \notin assigned[r]
    BY DEF AssignmentInv
  <2>2. Covered(r, p) = committed[p]
    BY <2>1 DEF AssignmentInv, Covered
  <2>3. QED
    BY <1>2, <2>1, <2>2
<1>4. ASSUME NEW p \in assigned[r]
      PROVE  FinishedUpTo(r, p, Covered(r, p))
  BY DEF CoverInv, FinishedUpTo
<1>5. \A q \in Replicas : \A p \in assigned[q] :
          committed[p] <= committed'[p] \/ FinishedUpTo(q, p, committed'[p])
  <2>1. ASSUME NEW q \in Replicas, NEW p \in assigned[q]
        PROVE  committed[p] <= committed'[p] \/ FinishedUpTo(q, p, committed'[p])
    <3>1. p \in Partitions
      OBVIOUS
    <3>2. CASE q # r
      BY <1>1, <1>3, <3>1, <3>2
    <3>3. CASE q = r
      BY <1>1, <1>2, <1>4, <3>1, <3>3
    <3>4. QED
      BY <3>2, <3>3
  <2>2. QED
    BY <2>1
<1>6. CASE CommitFails(r)
  <2>1. commitFailures' = commitFailures + 1
    BY <1>6, BoundsAssumption DEF CommitFails
  <2>2. QED
    BY <1>5, <2>1 DEF SparingCommit
<1>7. CASE ~CommitFails(r)
  <2>1. \A p \in assigned[r] : committed'[p] = Covered(r, p)
    BY <1>7 DEF CommitStoredOffsets, CommitSucceeds, offsetVars, Overlay, Covered,
       HasOffsets, NothingStored
  <2>2. commitFailures' = commitFailures
    BY <1>7 DEF CommitStoredOffsets, CommitSucceeds, offsetVars
  <2>3. QED
    BY <1>4, <1>5, <2>1, <2>2 DEF SparingCommit
<1>8. QED
  BY <1>6, <1>7

\* Before a commit fails: one that does not fail commits all it finished.
LEMMA UnfailedCommit ==
    ASSUME TypeInv, \A q \in Replicas : HandoverOf(q), NEW r \in Replicas,
           Running(r), CommitStoredOffsets(r), commitFailures = 0, commitFailures' = 0
    PROVE  SparingCommit(r)
<1>1. CommitsOwn(r)
  BY CommitAdvances DEF TypeInv
<1>2. \A q \in Replicas : \A p \in assigned[q] : committed[p] <= committed'[p]
  BY <1>1 DEF CommitsOwn, TypeInv, TypeOK
<1>3. QED
  BY <1>1, <1>2 DEF CommitsOwn, SparingCommit, FinishedUpTo

\* So every commit spares the others.
LEMMA QuietCommit ==
    ASSUME TypeInv, Quiet, NEW r \in Replicas, Running(r), CommitStoredOffsets(r),
           commitFailures' <= MaxCommitFailures
    PROVE  SparingCommit(r)
  BY UndisruptedCommit, UnfailedCommit DEF Quiet

\* Adding one keeps the order.
LEMMA OneMore == \A m, n \in Nat : m <= n => m + 1 <= n + 1
  OBVIOUS

\* ReplayBounded for one replica and partition.
Slack(r) == IF pc[r] = "commit" THEN commitFailures + 1 ELSE commitFailures

Fits(r, p) == Within(p, committed[p], next[r][p] - 1, Slack(r))

FitsInv == \A r \in Replicas : \A p \in assigned[r] : Fits(r, p)

\* The numbers Fits is about.
LEMMA FitsType ==
    ASSUME TypeOK, NEW r \in Replicas, NEW p \in Partitions
    PROVE  /\ committed[p] \in Int /\ next[r][p] \in Nat
           /\ commitFailures \in Nat /\ Slack(r) \in Nat
           /\ Slack(r) <= commitFailures + 1
           /\ pc[r] # "commit" => Slack(r) = commitFailures
<1>1. committed[p] \in Int
  BY DEF TypeOK, Offsets, NoOffset
<1>2. QED
  BY <1>1 DEF TypeOK, Slack

\* A commit makes up for the boundary that the loop is about to commit, or is
\* one failure more.
LEMMA CommitFits ==
    ASSUME TypeOK, TypeOK', FitsInv, NEW r \in Replicas, SparingCommit(r),
           pc' = [pc EXCEPT ![r] = pc'[r]], pc'[r] # "commit",
           \A q \in Replicas : \A p \in assigned'[q] :
               p \in assigned[q] /\ next'[q][p] = next[q][p]
    PROVE  FitsInv'
<1> SUFFICES ASSUME NEW q \in Replicas, NEW p \in assigned'[q]
             PROVE  Fits(q, p)'
  BY DEF FitsInv
<1>1. p \in Partitions /\ p \in assigned[q] /\ next'[q][p] = next[q][p]
  BY DEF TypeOK
<1>2. /\ committed[p] \in Int /\ next[q][p] \in Nat /\ Slack(q) \in Nat
      /\ Slack(q) <= commitFailures + 1 /\ commitFailures \in Nat
      /\ pc[q] # "commit" => Slack(q) = commitFailures
  BY <1>1, FitsType
<1>3. /\ committed'[p] \in Int /\ Slack(q)' \in Nat /\ commitFailures' \in Nat
      /\ commitFailures' <= Slack(q)'
  <2>1. committed'[p] \in Int
    BY <1>1 DEF TypeOK, Offsets, NoOffset
  <2>2. commitFailures' \in Nat
    BY DEF TypeOK
  <2>3. QED
    BY <2>1, <2>2 DEF Slack
<1>4. Within(p, committed[p], next[q][p] - 1, Slack(q))
  BY <1>1 DEF FitsInv, Fits
<1>5. CASE FinishedUpTo(q, p, committed'[p])
  <2>1. \A o \in DOMAIN Log[p] : o <= next[q][p] - 1 => o <= committed'[p]
    BY <1>1, <1>2, <1>5, LogAssumption DEF FinishedUpTo
  <2>2. Within(p, committed'[p], next[q][p] - 1, Slack(q)')
    BY <1>1, <1>2, <1>3, <2>1, BoundariesNone
  <2>3. QED
    BY <1>1, <2>2 DEF Fits
<1>6. CASE ~FinishedUpTo(q, p, committed'[p])
  <2>1. committed[p] <= committed'[p]
    BY <1>1, <1>6 DEF SparingCommit
  <2>2. Slack(q) <= Slack(q)'
    <3>1. CASE q = r
      <4>1. commitFailures < commitFailures'
        BY <1>1, <1>6, <3>1 DEF SparingCommit
      <4>2. QED
        BY <1>2, <1>3, <4>1
    <3>2. CASE q # r
      <4>1. pc'[q] = pc[q] /\ commitFailures <= commitFailures'
        BY <3>2 DEF TypeOK, SparingCommit
      <4>2. commitFailures \in Nat /\ commitFailures' \in Nat
        BY DEF TypeOK
      <4>3. CASE pc[q] = "commit"
        <5>1. Slack(q) = commitFailures + 1
          BY <4>3 DEF Slack
        <5>2. Slack(q)' = commitFailures' + 1
          BY <4>1, <4>3 DEF Slack
        <5>3. commitFailures + 1 <= commitFailures' + 1
          BY <4>1, <4>2, OneMore
        <5>4. QED
          BY <5>1, <5>2, <5>3, Zenon
      <4>4. CASE pc[q] # "commit"
        <5>1. Slack(q) = commitFailures
          BY <4>4 DEF Slack
        <5>2. Slack(q)' = commitFailures'
          BY <4>1, <4>4 DEF Slack
        <5>3. QED
          BY <4>1, <5>1, <5>2, Zenon
      <4>5. QED
        BY <4>3, <4>4
    <3>3. QED
      BY <3>1, <3>2
  <2>3. Within(p, committed'[p], next[q][p] - 1, Slack(q)')
    BY <1>1, <1>2, <1>3, <1>4, <2>1, <2>2, BoundariesNarrow
  <2>4. QED
    BY <1>1, <2>3 DEF Fits
<1>7. QED
  BY <1>5, <1>6

\* Steps that commit nothing and read nothing on.
LEMMA StillFits ==
    ASSUME TypeOK, FitsInv, UNCHANGED <<committed, commitFailures>>,
           \A q \in Replicas : \A p \in assigned'[q] :
               /\ p \in assigned[q] /\ next'[q][p] = next[q][p]
               /\ pc[q] = "commit" <=> pc'[q] = "commit"
    PROVE  FitsInv'
  BY DEF FitsInv, Fits, Slack

\* A finished message is a boundary the loop is about to commit, or none.
LEMMA StoreFits ==
    ASSUME TypeInv, TypeOK', FollowInv, FitsInv, NEW r \in Replicas, StoreOffset(r)
    PROVE  FitsInv'
<1> USE DEF TypeInv
<1>1. /\ msg[r] \in Positions /\ pc[r] = "store"
      /\ msg[r][1] \in assigned[r] /\ IsNext(r, msg[r][1], msg[r][2])
  BY DEF StoreOffset, FollowInv, InHand
<1>2. PICK p \in Partitions : p = msg[r][1]
  BY <1>1, PositionParts
<1>3. PICK o \in DOMAIN Log[p] : o = msg[r][2]
  BY <1>1, <1>2, PositionParts
<1>4. /\ next' = [next EXCEPT ![r][p] = o + 1]
      /\ pc' = [pc EXCEPT ![r] = IF CheckIfCommit(o) THEN "commit" ELSE "polling"]
      /\ UNCHANGED <<assigned, committed, commitFailures>>
  BY <1>2, <1>3 DEF StoreOffset
<1> SUFFICES ASSUME NEW q \in Replicas, NEW t \in assigned[q]
             PROVE  Fits(q, t)'
  BY <1>4 DEF FitsInv
<1>5. t \in Partitions /\ Fits(q, t)
  BY DEF FitsInv, TypeOK
<1>6. CASE q = r /\ t = p
  <2>1. Within(p, committed[p], next[r][p] - 1, commitFailures)
    BY <1>1, <1>5, <1>6, FitsType DEF Fits
  <2>2. next[r][p] \in Nat /\ committed[p] \in Int /\ commitFailures \in Nat
    BY FitsType
  <2>3. next[r][p] <= o /\ \A i \in DOMAIN Log[p] : i >= next[r][p] => o <= i
    BY <1>1, <1>2, <1>3, <2>2, LogAssumption DEF IsNext
  <2>4. Within(p, committed[p], o,
               IF CheckIfCommit(o) THEN commitFailures + 1 ELSE commitFailures)
    BY <2>1, <2>2, <2>3, BoundariesGrow
  <2>5. next'[r][p] - 1 = o
    BY <1>4, LogAssumption DEF TypeOK
  <2>6. Slack(r)' = IF CheckIfCommit(o) THEN commitFailures + 1 ELSE commitFailures
    BY <1>4, <2>2 DEF Slack, TypeOK
  <2>7. QED
    BY <1>4, <1>6, <2>4, <2>5, <2>6 DEF Fits
<1>7. CASE ~(q = r /\ t = p)
  <2>1. next'[q][t] = next[q][t] /\ committed'[t] = committed[t]
    BY <1>4, <1>5, <1>7 DEF TypeOK
  <2>2. Slack(q) <= Slack(q)' /\ Slack(q) \in Nat /\ Slack(q)' \in Nat
    BY <1>1, <1>4 DEF Slack, TypeOK
  <2>3. Within(t, committed[t], next[q][t] - 1, Slack(q)')
    BY <1>5, <2>2, FitsType, BoundariesNarrow DEF Fits
  <2>4. QED
    BY <2>1, <2>3 DEF Fits
<1>8. QED
  BY <1>6, <1>7

\* A partition is read from its committed offset.
LEMMA AssignFits ==
    ASSUME TypeOK, FitsInv, NEW r \in Replicas, NEW P \in SUBSET Partitions,
           AssignPartitions(r, P)
    PROVE  FitsInv'
<1>1. /\ assigned' = [assigned EXCEPT ![r] = P]
      /\ next' = [next EXCEPT ![r] =
                    [p \in Partitions |->
                       IF p \in P /\ committed[p] # NoOffset THEN committed[p] ELSE 0]]
      /\ UNCHANGED <<pc, committed, commitFailures>>
  BY DEF AssignPartitions, loopVars, offsetVars
<1> SUFFICES ASSUME NEW q \in Replicas, NEW p \in assigned'[q]
             PROVE  Fits(q, p)'
  BY DEF FitsInv
<1>2. Slack(q)' = Slack(q)
  BY <1>1 DEF Slack
<1>3. CASE q = r
  <2>1. p \in Partitions /\ p \in P
    BY <1>1, <1>3 DEF TypeOK
  <2>2. /\ committed[p] \in Int /\ Slack(r) \in Nat
        /\ committed[p] = NoOffset \/ committed[p] \in Nat
    BY <2>1, FitsType DEF TypeOK, Offsets
  <2>3. next'[r][p] = IF committed[p] # NoOffset THEN committed[p] ELSE 0
    BY <1>1, <2>1 DEF TypeOK
  <2>4. \A o \in DOMAIN Log[p] : o <= next'[r][p] - 1 => o <= committed[p]
    BY <2>1, <2>2, <2>3, LogAssumption DEF NoOffset
  <2>5. next'[r][p] - 1 \in Int
    BY <2>2, <2>3
  <2>6. Within(p, committed[p], next'[r][p] - 1, Slack(r))
    BY <2>1, <2>2, <2>4, <2>5, BoundariesNone
  <2>7. QED
    BY <1>1, <1>2, <1>3, <2>6 DEF Fits
<1>4. CASE q # r
  <2>1. p \in assigned[q] /\ next'[q] = next[q]
    BY <1>1, <1>4 DEF TypeOK
  <2>2. Within(p, committed[p], next[q][p] - 1, Slack(q))
    BY <2>1 DEF FitsInv, Fits
  <2>3. QED
    BY <1>1, <1>2, <2>1, <2>2 DEF Fits
<1>5. QED
  BY <1>3, <1>4

\* Steps of the program.
LEMMA LoopFits ==
    ASSUME TypeInv, TypeInv', FollowInv, Quiet, FitsInv,
           commitFailures' <= MaxCommitFailures, NEW r \in Replicas, Loop(r)
    PROVE  FitsInv'
<1> USE DEF TypeInv
<1>1. CASE \/ StartConsumer(r) \/ RetriesSpent(r) \/ PollMessage(r)
           \/ RequestFinishes(r) \/ RequestFails(r) \/ AttemptsSpent(r)
  <2>1. /\ UNCHANGED <<committed, commitFailures, assigned, next>>
        /\ pc' = [pc EXCEPT ![r] = pc'[r]]
        /\ pc[r] \in {"new", "polling", "calling"} /\ pc'[r] # "commit"
    BY <1>1
    DEF StartConsumer, RetriesSpent, PollMessage, RequestFinishes, RequestFails,
        AttemptsSpent, offsetVars, clientVars, TypeOK
  <2>2. \A q \in Replicas : pc[q] = "commit" <=> pc'[q] = "commit"
    BY <2>1 DEF TypeOK
  <2>3. QED
    BY <2>1, <2>2, StillFits
<1>2. CASE CommitBeforeRetry(r) \/ CommitBatch(r) \/ CommitBeforeClose(r)
  <2>1. /\ Running(r) /\ CommitStoredOffsets(r)
        /\ UNCHANGED <<assigned, next>>
        /\ pc' = [pc EXCEPT ![r] = pc'[r]] /\ pc'[r] # "commit"
    BY <1>2
    DEF CommitBeforeRetry, CommitBatch, CommitBeforeClose, Running, clientVars, TypeOK
  <2>2. QED
    BY <2>1, QuietCommit, CommitFits
<1>3. CASE StoreOffset(r)
  BY <1>3, StoreFits
<1>4. CASE Close(r)
  <2>1. /\ pc[r] = "closing" /\ Running(r) /\ RevokedPartitions(r)
        /\ pc' = [pc EXCEPT ![r] = pc'[r]] /\ pc'[r] # "commit"
        /\ assigned' = [assigned EXCEPT ![r] = {}]
        /\ next' = [next EXCEPT ![r] = NoPosition]
    BY <1>4 DEF Close, Running, TypeOK
  <2>2. \A q \in Replicas : \A p \in assigned'[q] :
            /\ p \in assigned[q] /\ next'[q][p] = next[q][p]
            /\ pc[q] = "commit" <=> pc'[q] = "commit"
    BY <2>1 DEF TypeOK
  <2>3. CASE CommitStoredOffsets(r)
    BY <2>1, <2>2, <2>3, QuietCommit, CommitFits
  <2>4. CASE UNCHANGED offsetVars
    BY <2>2, <2>4, StillFits DEF offsetVars
  <2>5. QED
    BY <2>1, <2>3, <2>4 DEF RevokedPartitions
<1>5. QED
  BY <1>1, <1>2, <1>3, <1>4 DEF Loop

\* Rebalances.
LEMMA RebalanceFits ==
    ASSUME TypeInv, TypeInv', FollowInv, Quiet, FitsInv,
           commitFailures' <= MaxCommitFailures, NEW r \in Replicas, Rebalance(r)
    PROVE  FitsInv'
<1> USE DEF TypeInv
<1>1. ASSUME NEW P \in SUBSET Partitions, AssignPartitions(r, P)
      PROVE  FitsInv'
  BY <1>1, AssignFits
<1>2. CASE RevokePartitions(r) \/ LoseAssignment(r)
  <2>1. /\ pc[r] = "polling" /\ Running(r) /\ pc' = pc
        /\ RevokedPartitions(r) \/ UNCHANGED offsetVars
        /\ assigned' = [assigned EXCEPT ![r] = {}]
        /\ next' = [next EXCEPT ![r] = NoPosition]
    BY <1>2 DEF RevokePartitions, LoseAssignment, Running, loopVars
  <2>2. \A q \in Replicas : \A p \in assigned'[q] :
            /\ p \in assigned[q] /\ next'[q][p] = next[q][p]
            /\ pc[q] = "commit" <=> pc'[q] = "commit"
    BY <2>1 DEF TypeOK
  <2>3. pc' = [pc EXCEPT ![r] = pc'[r]]
    BY <2>1 DEF TypeOK
  <2>4. CASE CommitStoredOffsets(r)
    BY <2>1, <2>2, <2>3, <2>4, QuietCommit, CommitFits
  <2>5. CASE UNCHANGED offsetVars
    BY <2>2, <2>5, StillFits DEF offsetVars
  <2>6. QED
    BY <2>1, <2>4, <2>5 DEF RevokedPartitions
<1>3. QED
  BY <1>1, <1>2 DEF Rebalance

\* The environment.
LEMMA EnvironmentFits ==
    ASSUME TypeInv, FitsInv, NEW r \in Replicas, Environment(r)
    PROVE  FitsInv'
<1> USE DEF TypeInv, TypeOK, offsetVars, clientVars, loopVars
<1>1. UNCHANGED <<committed, commitFailures>>
  BY DEF Environment, PollNothing, StartFails, StopPolling, RequestHangs, CloseFails,
     EvictMember, Crash, RestartProcess, vars
<1>2. CASE PollNothing(r) \/ EvictMember(r)
  BY <1>1, <1>2, StillFits DEF PollNothing, EvictMember, vars
<1>3. CASE Crash(r) \/ CloseFails(r)
  <2>1. /\ pc' = [pc EXCEPT ![r] = "exited"]
        /\ assigned' = [assigned EXCEPT ![r] = {}]
        /\ next' = [next EXCEPT ![r] = NoPosition]
    BY <1>3 DEF Crash, CloseFails
  <2>2. QED
    BY <1>1, <2>1, StillFits
<1>4. CASE StartFails(r) \/ StopPolling(r) \/ RequestHangs(r) \/ RestartProcess(r)
  <2>1. /\ pc[r] # "commit" /\ pc' = [pc EXCEPT ![r] = pc'[r]] /\ pc'[r] # "commit"
        /\ UNCHANGED <<assigned, next>>
    BY <1>4 DEF StartFails, StopPolling, RequestHangs, RestartProcess
  <2>2. QED
    BY <1>1, <2>1, StillFits
<1>5. QED
  BY <1>2, <1>3, <1>4 DEF Environment

-----------------------------------------------------------------------------
(***************************************************************************)
(* A replica that is alone in its group, whatever happens to it.  After    *)
(* failed commits and rebalances its committed offset, its stored offset   *)
(* and the position it reads from may stand in any order, but the          *)
(* boundaries between any two of them are no more than the failures.       *)
(***************************************************************************)
\* Between two offsets, and between an offset and a position.
Near(p, x, y, n)  == Within(p, x, y, n) /\ Within(p, y, x, n)
Reads(p, x, i, n) == Within(p, x, i - 1, n) /\ Within(p, i, x, n)

\* Of a committed offset c, a stored offset s, and the position i of a reader.
Marks(p, c, s, reading, i, n) ==
    /\ s # NoOffset => Near(p, c, s, n)
    /\ reading => /\ Reads(p, c, i, n)
                  /\ s # NoOffset => Reads(p, s, i, n)

\* The boundary just stored, which the loop is about to commit, is one more.
Allowed(r, p) ==
    IF /\ pc[r] = "commit" /\ p \in assigned[r]
       /\ pending[r][p] # NoOffset /\ next[r][p] = pending[r][p] + 1
    THEN commitFailures + 1 ELSE commitFailures

AloneOf(r, p) ==
    Marks(p, committed[p], pending[r][p], p \in assigned[r], next[r][p], Allowed(r, p))

AloneInv ==
    commitFailures <= MaxCommitFailures =>
        \A r \in Replicas :
            Replicas = {r} /\ Running(r) => \A p \in Partitions : AloneOf(r, p)

\* A larger number bounds them too, and nothing is asked of one who stops
\* reading.
LEMMA MarksWeaken ==
    ASSUME NEW p \in Partitions, NEW c \in Offsets, NEW s \in Offsets,
           NEW i \in Nat, NEW n \in Nat, NEW m \in Nat, n <= m,
           NEW reading \in BOOLEAN, NEW reading2 \in BOOLEAN, reading2 => reading,
           Marks(p, c, s, reading, i, n)
    PROVE  Marks(p, c, s, reading2, i, m)
<1>1. c \in Int /\ s \in Int /\ i \in Int /\ i - 1 \in Int
  BY DEF Offsets, NoOffset
<1>2. \A low, high \in Int : Within(p, low, high, n) => Within(p, low, high, m)
  BY BoundariesNarrow
<1>3. QED
  BY <1>1, <1>2 DEF Marks, Near, Reads

\* The stored offset is committed and forgotten.  If the reader is just past
\* it, nothing is left in between.
LEMMA MarksCommitted ==
    ASSUME NEW p \in Partitions, NEW c \in Offsets, NEW s \in Offsets,
           NEW i \in Nat, NEW n \in Nat, NEW m \in Nat,
           NEW reading \in BOOLEAN, Marks(p, c, s, reading, i, n),
           n <= m \/ (s # NoOffset /\ i = s + 1)
    PROVE  Marks(p, IF s = NoOffset THEN c ELSE s, NoOffset, reading, i, m)
<1>1. c \in Int /\ s \in Int /\ i \in Int /\ i - 1 \in Int
  BY DEF Offsets, NoOffset
<1>2. CASE n <= m
  <2>1. Marks(p, c, s, reading, i, m)
    BY <1>2, MarksWeaken
  <2>2. QED
    BY <2>1 DEF Marks
<1>3. CASE s # NoOffset /\ i = s + 1
  <2>1. Within(p, s, i - 1, m) /\ Within(p, i, s, m)
    <3>1. /\ \A o \in DOMAIN Log[p] : o <= i - 1 => o <= s
          /\ \A o \in DOMAIN Log[p] : o <= s => o <= i
      BY <1>1, <1>3, LogAssumption
    <3>2. QED
      BY <1>1, <3>1, BoundariesNone
  <2>2. QED
    BY <1>3, <2>1 DEF Marks, Reads
<1>4. QED
  BY <1>2, <1>3

\* The stored offset is committed and kept: the call failed too late.
LEMMA MarksApplied ==
    ASSUME NEW p \in Partitions, NEW c \in Offsets, NEW s \in Offsets,
           NEW i \in Nat, NEW n \in Nat, NEW reading \in BOOLEAN,
           Marks(p, c, s, reading, i, n)
    PROVE  Marks(p, IF s = NoOffset THEN c ELSE s, s, reading, i, n)
<1>1. s \in Int
  BY DEF Offsets, NoOffset
<1>2. Within(p, s, s, n)
  <2>1. \A o \in DOMAIN Log[p] : o <= s => o <= s
    OBVIOUS
  <2>2. QED
    BY <1>1, <2>1, BoundariesNone
<1>3. QED
  BY <1>2 DEF Marks, Near

\* A reader starts at the committed offset.
LEMMA MarksAssigned ==
    ASSUME NEW p \in Partitions, NEW c \in Offsets, NEW s \in Offsets,
           NEW i \in Nat, NEW n \in Nat, NEW reading \in BOOLEAN,
           NEW reading2 \in BOOLEAN, Marks(p, c, s, reading, i, n)
    PROVE  Marks(p, c, s, reading2, IF c # NoOffset THEN c ELSE 0, n)
<1> DEFINE j == IF c # NoOffset THEN c ELSE 0
<1>1. c \in Int /\ s \in Int /\ j \in Nat /\ j - 1 \in Int /\ j - 1 <= c /\ c <= j
  BY DEF Offsets, NoOffset
<1> HIDE DEF j
<1>2. Reads(p, c, j, n)
  <2>1. \A o \in DOMAIN Log[p] : o <= j - 1 => o <= c
    BY <1>1, LogAssumption
  <2>2. \A o \in DOMAIN Log[p] : o <= c => o <= j
    BY <1>1, LogAssumption
  <2>3. QED
    BY <1>1, <2>1, <2>2, BoundariesNone DEF Reads
<1>3. s # NoOffset => Reads(p, s, j, n)
  <2> SUFFICES ASSUME s # NoOffset PROVE Reads(p, s, j, n)
    OBVIOUS
  <2>1. Within(p, c, s, n) /\ Within(p, s, c, n)
    BY DEF Marks, Near
  <2>2. Within(p, s, j - 1, n) /\ Within(p, j, s, n)
    BY <1>1, <2>1, BoundariesNarrow
  <2>3. QED
    BY <2>2 DEF Reads
<1>4. QED
  BY <1>2, <1>3 DEF Marks, j

\* o is the first offset of the log that is not before i.
Follows(p, i, o) ==
    /\ o \in DOMAIN Log[p] /\ i <= o
    /\ \A k \in DOMAIN Log[p] : k >= i => o <= k

\* The next message is stored.
LEMMA MarksStored ==
    ASSUME NEW p \in Partitions, NEW c \in Offsets, NEW s \in Offsets,
           NEW i \in Nat, NEW n \in Nat, NEW o, Follows(p, i, o),
           NEW reading, reading = TRUE, Marks(p, c, s, reading, i, n),
           NEW j, j = o + 1,
           NEW m, m = IF CheckIfCommit(o) THEN n + 1 ELSE n
    PROVE  Marks(p, c, o, reading, j, m)
<1>1. /\ c \in Int /\ i \in Int /\ o \in Nat /\ o \in Int /\ j \in Int
      /\ j - 1 = o /\ i <= j /\ m \in Nat /\ n <= m /\ c <= c
  BY LogAssumption DEF Offsets, NoOffset, Follows
<1>2. Within(p, c, i - 1, n) /\ Within(p, i, c, n)
  BY DEF Marks, Reads
<1>3. Within(p, c, o, m)
  BY <1>1, <1>2, BoundariesGrow DEF Follows
<1>4. Within(p, o, c, m) /\ Within(p, j, c, m)
  BY <1>1, <1>2, BoundariesNarrow DEF Follows
<1>5. Within(p, o, o, m) /\ Within(p, j, o, m)
  <2>1. /\ \A k \in DOMAIN Log[p] : k <= o => k <= o
        /\ \A k \in DOMAIN Log[p] : k <= o => k <= j
    BY <1>1, LogAssumption
  <2>2. QED
    BY <1>1, <2>1, BoundariesNone
<1>6. QED
  BY <1>1, <1>3, <1>4, <1>5 DEF Marks, Near, Reads

\* The numbers AloneOf is about.
LEMMA AloneType ==
    ASSUME TypeOK, NEW r \in Replicas, NEW p \in Partitions
    PROVE  /\ committed[p] \in Offsets /\ pending[r][p] \in Offsets
           /\ next[r][p] \in Nat /\ (p \in assigned[r]) \in BOOLEAN
           /\ commitFailures \in Nat /\ Allowed(r, p) \in Nat
           /\ commitFailures <= Allowed(r, p) /\ Allowed(r, p) <= commitFailures + 1
<1>1. commitFailures \in Nat
  BY DEF TypeOK
<1>2. Allowed(r, p) = commitFailures \/ Allowed(r, p) = commitFailures + 1
  BY DEF Allowed
<1>3. QED
  BY <1>1, <1>2 DEF TypeOK

\* A commit, whatever comes of it.
LEMMA CommitAlone ==
    ASSUME TypeOK, NEW r \in Replicas, CommitStoredOffsets(r),
           commitFailures' <= MaxCommitFailures,
           NEW p \in Partitions, AloneOf(r, p)
    PROVE  Marks(p, committed'[p], pending'[r][p], p \in assigned[r], next[r][p],
                 commitFailures')
<1> DEFINE c == committed[p]
           s == pending[r][p]
           i == next[r][p]
           n == Allowed(r, p)
           reading == p \in assigned[r]
<1>1. /\ c \in Offsets /\ s \in Offsets /\ i \in Nat /\ n \in Nat
      /\ reading \in BOOLEAN /\ commitFailures \in Nat
      /\ commitFailures <= n /\ n <= commitFailures + 1
  BY AloneType
<1>2. Marks(p, c, s, reading, i, n)
  BY DEF AloneOf
<1>3. n <= commitFailures \/ (s # NoOffset /\ i = s + 1)
  BY <1>1 DEF Allowed
<1>4. CASE ~HasOffsets(r) /\ UNCHANGED offsetVars
  <2>1. s = NoOffset /\ UNCHANGED <<committed, pending, commitFailures>>
    BY <1>4 DEF HasOffsets, NothingStored, offsetVars
  <2>2. n <= commitFailures
    BY <1>3, <2>1
  <2>3. Marks(p, c, s, reading, i, commitFailures)
    BY <1>1, <1>2, <2>2, MarksWeaken
  <2>4. QED
    BY <2>1, <2>3
<1>5. CASE CommitSucceeds(r)
  <2>1. /\ committed'[p] = IF s = NoOffset THEN c ELSE s
        /\ pending'[r][p] = NoOffset
        /\ commitFailures' = commitFailures
    BY <1>5 DEF CommitSucceeds, Overlay, NothingStored, TypeOK
  <2> HIDE DEF c, s, i, n, reading
  <2>2. Marks(p, IF s = NoOffset THEN c ELSE s, NoOffset, reading, i, commitFailures)
    BY <1>1, <1>2, <1>3, MarksCommitted
  <2>3. QED
    BY <2>1, <2>2 DEF i, reading
<1>6. CASE CommitFails(r)
  <2>1. /\ committed'[p] = c \/ committed'[p] = IF s = NoOffset THEN c ELSE s
        /\ pending'[r][p] = s
    BY <1>6 DEF CommitFails, Overlay, Restored, TypeOK
  <2>2. commitFailures' = commitFailures + 1
    BY <1>1, <1>6, FailuresCounted, BoundsAssumption DEF CommitFails
  <2> HIDE DEF c, s, i, n, reading
  <2>3. Marks(p, c, s, reading, i, commitFailures + 1)
    BY <1>1, <1>2, MarksWeaken
  <2>4. Marks(p, IF s = NoOffset THEN c ELSE s, s, reading, i, commitFailures + 1)
    BY <1>1, <2>3, MarksApplied
  <2>5. QED
    BY <2>1, <2>2, <2>3, <2>4 DEF i, reading
<1>7. QED
  BY <1>4, <1>5, <1>6 DEF CommitStoredOffsets

\* Steps after which the loop is not about to commit.
LEMMA AloneAfter ==
    ASSUME NEW r \in Replicas, pc'[r] # "commit",
           \A p \in Partitions :
               Marks(p, committed'[p], pending'[r][p], p \in assigned'[r],
                     next'[r][p], commitFailures')
    PROVE  \A p \in Partitions : AloneOf(r, p)'
  BY DEF AloneOf, Allowed

\* Steps after which nothing is assigned.
LEMMA MarksUnread ==
    ASSUME NEW p, NEW c, NEW s, NEW reading, NEW i, NEW j, NEW n,
           Marks(p, c, s, reading, i, n)
    PROVE  Marks(p, c, s, FALSE, j, n)
  BY DEF Marks

\* Steps of the program, alone.
LEMMA LoopAlone ==
    ASSUME TypeInv, FollowInv, NEW r \in Replicas, Loop(r), Running(r)',
           Running(r) => \A p \in Partitions : AloneOf(r, p),
           commitFailures' <= MaxCommitFailures,
           assigned[r] = {} \/ Running(r)
    PROVE  \A p \in Partitions : AloneOf(r, p)'
<1> USE DEF TypeInv
<1>1. CASE StartConsumer(r)
  <2>1. /\ pc'[r] = "polling" /\ assigned'[r] = {}
        /\ \A p \in Partitions : pending'[r][p] = NoOffset
    BY <1>1 DEF StartConsumer, Running, NothingStored, clientVars, TypeOK
  <2>2. QED
    BY <2>1 DEF AloneOf, Marks
<1>2. CASE PollMessage(r) \/ RequestFinishes(r) \/ RequestFails(r) \/ AttemptsSpent(r)
  <2>1. /\ UNCHANGED <<committed, pending, assigned, next, commitFailures>>
        /\ pc[r] \in {"polling", "calling"} /\ pc'[r] # "commit"
    BY <1>2
    DEF PollMessage, RequestFinishes, RequestFails, AttemptsSpent, offsetVars,
        clientVars, TypeOK
  <2>2. \A p \in Partitions : AloneOf(r, p) /\ Allowed(r, p) = commitFailures
    BY <2>1 DEF Running, Allowed
  <2>3. QED
    BY <2>1, <2>2, AloneAfter DEF AloneOf
<1>3. CASE CommitBeforeRetry(r) \/ CommitBatch(r) \/ CommitBeforeClose(r)
  <2>1. /\ Running(r) /\ CommitStoredOffsets(r) /\ UNCHANGED <<assigned, next>>
        /\ pc'[r] # "commit"
    BY <1>3
    DEF CommitBeforeRetry, CommitBatch, CommitBeforeClose, Running, clientVars, TypeOK
  <2>2. \A p \in Partitions :
            Marks(p, committed'[p], pending'[r][p], p \in assigned[r], next[r][p],
                  commitFailures')
    BY <2>1, CommitAlone
  <2>3. QED
    BY <2>1, <2>2, AloneAfter
<1>4. CASE StoreOffset(r)
  <2>1. /\ msg[r] \in Positions /\ pc[r] = "store"
        /\ msg[r][1] \in assigned[r] /\ IsNext(r, msg[r][1], msg[r][2])
    BY <1>4 DEF StoreOffset, FollowInv, InHand
  <2>2. PICK t \in Partitions : t = msg[r][1]
    BY <2>1, PositionParts
  <2>3. PICK o \in DOMAIN Log[t] : o = msg[r][2]
    BY <2>1, <2>2, PositionParts
  <2>4. /\ pending' = [pending EXCEPT ![r][t] = o]
        /\ next' = [next EXCEPT ![r][t] = o + 1]
        /\ pc' = [pc EXCEPT ![r] = IF CheckIfCommit(o) THEN "commit" ELSE "polling"]
        /\ UNCHANGED <<assigned, committed, commitFailures>>
    BY <1>4, <2>2, <2>3 DEF StoreOffset
  <2>5. \A p \in Partitions : AloneOf(r, p) /\ Allowed(r, p) = commitFailures
    BY <2>1 DEF Running, Allowed
  <2> SUFFICES ASSUME NEW p \in Partitions PROVE AloneOf(r, p)'
    OBVIOUS
  <2>6. /\ committed[p] \in Offsets /\ pending[r][p] \in Offsets
        /\ next[r][p] \in Nat /\ commitFailures \in Nat
        /\ (p \in assigned[r]) \in BOOLEAN
    BY AloneType
  <2>7. CASE p = t
    <3>1. /\ Marks(p, committed[p], pending[r][p], p \in assigned[r], next[r][p],
                   commitFailures)
          /\ p \in assigned[r]
      BY <2>1, <2>2, <2>5, <2>7 DEF AloneOf
    <3>2. next[r][p] <= o /\ \A k \in DOMAIN Log[p] : k >= next[r][p] => o <= k
      BY <2>1, <2>2, <2>3, <2>6, <2>7, LogAssumption DEF IsNext
    <3>3. /\ pending'[r][p] = o /\ next'[r][p] = o + 1
          /\ assigned' = assigned /\ p \in assigned'[r]
          /\ pc'[r] = IF CheckIfCommit(o) THEN "commit" ELSE "polling"
          /\ committed' = committed /\ commitFailures' = commitFailures
          /\ o # NoOffset
      BY <2>1, <2>2, <2>4, <2>7, LogAssumption DEF TypeOK, NoOffset
    <3>4. Allowed(r, p)' = IF CheckIfCommit(o) THEN commitFailures + 1
                                               ELSE commitFailures
      BY <3>3 DEF Allowed
    <3> DEFINE c == committed[p]
               s == pending[r][p]
               i == next[r][p]
               n == commitFailures
               reading == p \in assigned[r]
               j == next'[r][p]
               m == Allowed(r, p)'
    <3>5. /\ c \in Offsets /\ s \in Offsets /\ i \in Nat /\ n \in Nat
          /\ reading = TRUE
          /\ j = o + 1 /\ m = IF CheckIfCommit(o) THEN n + 1 ELSE n
      BY <2>6, <3>1, <3>3, <3>4
    <3>6. Follows(p, i, o)
      BY <2>7, <3>2 DEF Follows
    <3>7. Marks(p, c, s, reading, i, n)
      BY <3>1
    <3> HIDE DEF c, s, i, n, reading, j, m
    <3>8. Marks(p, c, o, reading, j, m)
      BY <3>5, <3>6, <3>7, MarksStored
    <3>9. QED
      BY <3>3, <3>8 DEF AloneOf, c, reading, j, m
  <2>8. CASE p # t
    <3>1. pending'[r][p] = pending[r][p] /\ next'[r][p] = next[r][p]
      BY <2>4, <2>8 DEF TypeOK
    <3>2. Allowed(r, p)' \in Nat /\ commitFailures <= Allowed(r, p)'
      BY <2>4, <2>6 DEF Allowed
    <3>3. Marks(p, committed[p], pending[r][p], p \in assigned[r], next[r][p],
                Allowed(r, p)')
      <4> DEFINE m == Allowed(r, p)'
                 reading == p \in assigned[r]
      <4>1. Marks(p, committed[p], pending[r][p], reading, next[r][p], commitFailures)
        BY <2>5 DEF AloneOf
      <4>2. /\ m \in Nat /\ commitFailures <= m /\ reading \in BOOLEAN
        BY <2>6, <3>2
      <4> HIDE DEF m, reading
      <4>3. Marks(p, committed[p], pending[r][p], reading, next[r][p], m)
        BY <2>6, <4>1, <4>2, MarksWeaken
      <4>4. QED
        BY <4>3 DEF m, reading
    <3>4. QED
      BY <2>4, <3>1, <3>3 DEF AloneOf
  <2>9. QED
    BY <2>7, <2>8
<1>5. CASE RetriesSpent(r) \/ Close(r)
  BY <1>5 DEF RetriesSpent, Close, Running, TypeOK
<1>6. QED
  BY <1>1, <1>2, <1>3, <1>4, <1>5 DEF Loop

\* Rebalances, alone.
LEMMA RebalanceAlone ==
    ASSUME TypeInv, NEW r \in Replicas, Rebalance(r),
           \A p \in Partitions : AloneOf(r, p), commitFailures' <= MaxCommitFailures
    PROVE  \A p \in Partitions : AloneOf(r, p)'
<1> USE DEF TypeInv
<1>1. pc[r] = "polling" /\ pc' = pc
  BY DEF Rebalance, AssignPartitions, RevokePartitions, LoseAssignment, loopVars
<1>2. \A p \in Partitions :
          /\ Allowed(r, p) = commitFailures
          /\ Marks(p, committed[p], pending[r][p], p \in assigned[r], next[r][p],
                   commitFailures)
  BY <1>1 DEF AloneOf, Allowed
<1>3. ASSUME NEW P \in SUBSET Partitions, AssignPartitions(r, P)
      PROVE  \A p \in Partitions : AloneOf(r, p)'
  <2>1. UNCHANGED <<committed, pending, commitFailures>>
    BY <1>3 DEF AssignPartitions, offsetVars
  <2>2. ASSUME NEW p \in Partitions
        PROVE  Marks(p, committed[p], pending[r][p], p \in assigned'[r], next'[r][p],
                     commitFailures)
    <3> DEFINE reading == p \in assigned[r]
               reading2 == p \in assigned'[r]
    <3>1. /\ committed[p] \in Offsets /\ pending[r][p] \in Offsets
          /\ next[r][p] \in Nat /\ commitFailures \in Nat
          /\ reading \in BOOLEAN /\ reading2 \in BOOLEAN
      BY AloneType
    <3>2. Marks(p, committed[p], pending[r][p], reading, next[r][p], commitFailures)
      BY <1>2
    <3>3. CASE p \in P
      <4>1. next'[r][p] = IF committed[p] # NoOffset THEN committed[p] ELSE 0
        BY <1>3, <3>3 DEF AssignPartitions, TypeOK
      <4> HIDE DEF reading, reading2
      <4>2. Marks(p, committed[p], pending[r][p], reading2,
                  IF committed[p] # NoOffset THEN committed[p] ELSE 0, commitFailures)
        BY <3>1, <3>2, MarksAssigned
      <4>3. QED
        BY <4>1, <4>2 DEF reading2
    <3>4. CASE p \notin P
      <4>1. p \notin assigned'[r]
        BY <1>3, <3>4 DEF AssignPartitions, TypeOK
      <4>2. QED
        BY <3>2, <4>1 DEF Marks
    <3>5. QED
      BY <3>3, <3>4
  <2>3. QED
    BY <1>1, <2>1, <2>2, AloneAfter
<1>4. CASE RevokePartitions(r) \/ LoseAssignment(r)
  <2>1. /\ RevokedPartitions(r) \/ UNCHANGED offsetVars
        /\ assigned'[r] = {}
    BY <1>4 DEF RevokePartitions, LoseAssignment, TypeOK
  <2>2. CommitStoredOffsets(r) \/ UNCHANGED offsetVars
    BY <2>1 DEF RevokedPartitions
  <2>3. ASSUME NEW p \in Partitions
        PROVE  Marks(p, committed'[p], pending'[r][p], p \in assigned[r], next[r][p],
                     commitFailures')
    <3>1. CASE CommitStoredOffsets(r)
      BY <3>1, CommitAlone
    <3>2. CASE UNCHANGED offsetVars
      BY <1>2, <3>2 DEF offsetVars
    <3>3. QED
      BY <2>2, <3>1, <3>2
  <2>4. \A p \in Partitions :
            Marks(p, committed'[p], pending'[r][p], p \in assigned'[r], next'[r][p],
                  commitFailures')
    BY <2>1, <2>3 DEF Marks
  <2>5. QED
    BY <1>1, <2>4, AloneAfter
<1>5. QED
  BY <1>3, <1>4 DEF Rebalance

\* The environment, alone.
LEMMA EnvironmentAlone ==
    ASSUME TypeInv, NEW r \in Replicas, Environment(r), Running(r)',
           Running(r) => \A p \in Partitions : AloneOf(r, p)
    PROVE  \A p \in Partitions : AloneOf(r, p)'
<1> USE DEF TypeInv
<1>1. CASE PollNothing(r) \/ EvictMember(r)
  BY <1>1 DEF PollNothing, EvictMember, vars, offsetVars, clientVars, loopVars,
     AloneOf, Allowed, Running
<1>2. CASE StopPolling(r) \/ RequestHangs(r)
  <2>1. /\ UNCHANGED <<committed, pending, assigned, next, commitFailures>>
        /\ pc[r] \in {"polling", "calling"} /\ pc'[r] # "commit"
    BY <1>2 DEF StopPolling, RequestHangs, offsetVars, clientVars, TypeOK
  <2>2. \A p \in Partitions : AloneOf(r, p) /\ Allowed(r, p) = commitFailures
    BY <2>1 DEF Running, Allowed
  <2>3. QED
    BY <2>1, <2>2, AloneAfter DEF AloneOf
<1>3. CASE StartFails(r) \/ CloseFails(r) \/ Crash(r) \/ RestartProcess(r)
  BY <1>3 DEF StartFails, CloseFails, Crash, RestartProcess, Running, TypeOK
<1>4. QED
  BY <1>1, <1>2, <1>3 DEF Environment

-----------------------------------------------------------------------------
\* A replica that does not run has no partitions.
UnassignedInv == \A r \in Replicas : ~Running(r) => assigned[r] = {}

\* All that ReplayBounded needs.
ReplayInv ==
    /\ FollowInv /\ UnassignedInv /\ AloneInv
    /\ (commitFailures <= MaxCommitFailures /\ (disruptions = 0 \/ commitFailures = 0))
          => FitsInv

\* Nothing is assigned at first.
LEMMA ReplayInit == Init => ReplayInv
<1> SUFFICES ASSUME Init PROVE ReplayInv
  OBVIOUS
<1>1. \A r \in Replicas : ~Running(r) /\ assigned[r] = {}
  BY DEF Init, Running
<1>2. QED
  BY <1>1, FollowInit DEF ReplayInv, UnassignedInv, AloneInv, FitsInv

\* Partitions are given up before a replica stops.
LEMMA UnassignedNext == TypeInv /\ UnassignedInv /\ [Next]_vars => UnassignedInv'
<1> SUFFICES ASSUME TypeInv, UnassignedInv, [Next]_vars PROVE UnassignedInv'
  OBVIOUS
<1> USE DEF TypeInv, TypeOK, UnassignedInv, Running, loopVars, clientVars
<1>1. CASE UNCHANGED vars
  BY <1>1 DEF vars
<1>2. ASSUME NEW r \in Replicas, Loop(r)
      PROVE  UnassignedInv'
  BY <1>2
  DEF Loop, StartConsumer, RetriesSpent, PollMessage, RequestFinishes, RequestFails,
      CommitBeforeRetry, AttemptsSpent, StoreOffset, CommitBatch, CommitBeforeClose,
      Close
<1>3. ASSUME NEW r \in Replicas, Rebalance(r)
      PROVE  UnassignedInv'
  BY <1>3 DEF Rebalance, AssignPartitions, RevokePartitions, LoseAssignment
<1>4. ASSUME NEW r \in Replicas, Environment(r)
      PROVE  UnassignedInv'
  BY <1>4
  DEF Environment, PollNothing, StartFails, StopPolling, RequestHangs, CloseFails,
      EvictMember, Crash, RestartProcess, vars
<1>5. QED
  BY <1>1, <1>2, <1>3, <1>4 DEF Next

\* Neither count ever goes back.
LEMMA CountsGrow ==
    ASSUME TypeInv, [Next]_vars, commitFailures' <= MaxCommitFailures
    PROVE  /\ commitFailures <= MaxCommitFailures
           /\ commitFailures' = 0 => commitFailures = 0
           /\ disruptions' = 0 => disruptions = 0
<1> USE DEF TypeInv, TypeOK
<1>1. CASE UNCHANGED vars
  BY <1>1 DEF vars
<1>2. ASSUME NEW r \in Replicas, Loop(r) \/ Rebalance(r) \/ Environment(r)
      PROVE  /\ CommitStoredOffsets(r) \/ UNCHANGED commitFailures
             /\ Disrupt \/ UNCHANGED disruptions
  <2>1. CASE Loop(r)
    BY <2>1
    DEF Loop, StartConsumer, RetriesSpent, PollMessage, RequestFinishes,
        RequestFails, CommitBeforeRetry, AttemptsSpent, StoreOffset, CommitBatch,
        CommitBeforeClose, Close, RevokedPartitions, offsetVars
  <2>2. CASE Rebalance(r)
    BY <2>2
    DEF Rebalance, AssignPartitions, RevokePartitions, LoseAssignment,
        RevokedPartitions, offsetVars
  <2>3. CASE Environment(r)
    BY <2>3
    DEF Environment, PollNothing, StartFails, StopPolling, RequestHangs,
        CloseFails, EvictMember, Crash, RestartProcess, offsetVars, vars
  <2>4. QED
    BY <1>2, <2>1, <2>2, <2>3
<1>3. ASSUME NEW r \in Replicas, CommitStoredOffsets(r)
      PROVE  /\ commitFailures <= MaxCommitFailures
             /\ commitFailures' = 0 => commitFailures = 0
  BY <1>3, FailuresCounted
<1>4. Disrupt => disruptions' # 0
  BY DEF Disrupt
<1>5. QED
  BY <1>1, <1>2, <1>3, <1>4 DEF Next

\* Every step keeps it.
LEMMA ReplayNext ==
    TypeInv /\ TypeInv' /\ AccountingInv /\ HandoverInv /\ ReplayInv /\ [Next]_vars
        => ReplayInv'
<1> SUFFICES ASSUME TypeInv, TypeInv', AccountingInv, HandoverInv, ReplayInv, [Next]_vars
             PROVE  ReplayInv'
  OBVIOUS
<1>1. FollowInv' /\ UnassignedInv'
  BY FollowNext, UnassignedNext DEF ReplayInv
<1>2. ASSUME commitFailures' <= MaxCommitFailures, disruptions' = 0 \/ commitFailures' = 0
      PROVE  FitsInv'
  <2>1. FitsInv
    BY <1>2, CountsGrow DEF ReplayInv
  <2>2. Quiet
    BY <1>2, CountsGrow DEF Quiet, AccountingInv, HandoverInv
  <2>3. CASE UNCHANGED vars
    BY <2>1, <2>3 DEF vars, FitsInv, Fits, Slack
  <2>4. CASE Next
    BY <1>2, <2>1, <2>2, <2>4, LoopFits, RebalanceFits, EnvironmentFits
    DEF Next, ReplayInv
  <2>5. QED
    BY <2>3, <2>4
<1>3. ASSUME commitFailures' <= MaxCommitFailures, NEW r \in Replicas,
             Replicas = {r}, Running(r)'
      PROVE  \A p \in Partitions : AloneOf(r, p)'
  <2>1. Running(r) => \A p \in Partitions : AloneOf(r, p)
    BY <1>3, CountsGrow DEF ReplayInv, AloneInv
  <2>2. CASE UNCHANGED vars
    BY <1>3, <2>1, <2>2 DEF vars, AloneOf, Allowed, Running
  <2>3. CASE Loop(r)
    BY <1>3, <2>1, <2>3, LoopAlone DEF ReplayInv, UnassignedInv
  <2>4. CASE Rebalance(r)
    <3>1. Running(r)
      BY <2>4 DEF Rebalance, AssignPartitions, RevokePartitions, LoseAssignment, Running
    <3>2. QED
      BY <1>3, <2>1, <2>4, <3>1, RebalanceAlone
  <2>5. CASE Environment(r)
    BY <1>3, <2>1, <2>5, EnvironmentAlone
  <2>6. QED
    BY <1>3, <2>2, <2>3, <2>4, <2>5 DEF Next
<1>4. AloneInv'
  BY <1>3 DEF AloneInv
<1>5. QED
  BY <1>1, <1>2, <1>4 DEF ReplayInv

\* The property, from the invariant.
LEMMA ReplayHolds == TypeInv /\ ReplayInv => ReplayBounded
<1> SUFFICES ASSUME TypeInv, ReplayInv, commitFailures <= MaxCommitFailures,
                    NEW r \in Replicas, ~MayBePulledBack(r), NEW p \in assigned[r]
             PROVE  Cardinality(UncommittedBoundaries(r, p))
                        <= commitFailures + (IF pc[r] = "commit" THEN 1 ELSE 0)
  BY DEF ReplayBounded
<1>1. p \in Partitions /\ Running(r)
  BY DEF TypeInv, TypeOK, ReplayInv, UnassignedInv
<1>2. /\ commitFailures \in Nat /\ disruptions \in Nat
      /\ committed[p] \in Int /\ next[r][p] \in Nat /\ Slack(r) \in Nat
  BY <1>1, FitsType DEF TypeInv, TypeOK
<1>3. Fits(r, p)
  <2>1. CASE disruptions = 0 \/ commitFailures = 0
    BY <2>1 DEF ReplayInv, FitsInv
  <2>2. CASE Replicas = {r}
    <3>1. AloneOf(r, p)
      BY <1>1, <2>2 DEF ReplayInv, AloneInv
    <3>2. Within(p, committed[p], next[r][p] - 1, Allowed(r, p))
      BY <3>1 DEF AloneOf, Marks, Reads
    <3>3. Allowed(r, p) \in Nat /\ Allowed(r, p) <= Slack(r)
      BY <1>2 DEF Allowed, Slack
    <3>4. \A low, high \in Int : Within(p, low, high, Allowed(r, p))
              => Within(p, low, high, Slack(r))
      BY <1>1, <1>2, <3>3, BoundariesNarrow
    <3>5. next[r][p] - 1 \in Int
      BY <1>2
    <3>6. QED
      BY <1>2, <3>2, <3>4, <3>5 DEF Fits
  <2>3. QED
    BY <1>2, <2>1, <2>2 DEF MayBePulledBack
<1>4. Cardinality(UncommittedBoundaries(r, p)) <= Slack(r)
  BY <1>1, <1>3, UncommittedAreBoundaries DEF Fits, Within, TypeInv
<1>5. QED
  BY <1>2, <1>4 DEF Slack

\* What a restart replays is bounded: unless another replica may pull the
\* committed offset back, no more boundaries than failed commits lie between it
\* and what the reader of the partition finished.
THEOREM ReplayIsBounded == Spec => []ReplayBounded
BY TypeInit, TypeNext, AccountingInit, AccountingNext, HandoverInit, HandoverNext,
   ReplayInit, ReplayNext, ReplayHolds, PTL DEF Spec

=============================================================================
