---------------------- MODULE InventoryConsumer_proofs ----------------------
(***************************************************************************)
(* Theorems about InventoryConsumer, for every group of replicas, log,     *)
(* set of options and bound: its variables have their types, at-least-once *)
(* delivery, and the group as an implementation of Delivery.               *)
(***************************************************************************)
EXTENDS InventoryConsumer, TLAPS

\* A position names a partition and an offset of its log.
LEMMA PositionParts ==
    ASSUME NEW x \in Positions
    PROVE  /\ x[1] \in Partitions
           /\ x[2] \in DOMAIN Log[x[1]]
           /\ x[2] \in Nat
           /\ x = <<x[1], x[2]>>
  BY LogAssumption DEF Positions

\* What is polled is a position.
LEMMA PartsPosition ==
    ASSUME NEW p \in Partitions, NEW o \in DOMAIN Log[p]
    PROVE  <<p, o>> \in Positions
  BY DEF Positions

-----------------------------------------------------------------------------
(***************************************************************************)
(* Types.                                                                  *)
(***************************************************************************)
\* The initial state is typed.
LEMMA TypeInit == Init => TypeInv
  BY OptionsAssumption
  DEF Init, TypeInv, TypeOK, Locations, Offsets, NoOffset, NothingStored,
      NoPosition, WithinBudget, InHand

\* A commit, whatever comes of it, leaves the offsets typed.
LEMMA CommitType ==
    ASSUME TypeOK, NEW r \in Replicas, CommitStoredOffsets(r)
    PROVE  /\ pending' \in [Replicas -> [Partitions -> Offsets]]
           /\ committed' \in [Partitions -> Offsets]
           /\ commitFailures' \in Nat
  <1> USE DEF TypeOK
  <1>1. Overlay(r) \in [Partitions -> Offsets]
    BY DEF Overlay
  <1>2. NothingStored \in [Partitions -> Offsets]
    BY DEF NothingStored, Offsets
  <1>3. CASE ~HasOffsets(r) /\ UNCHANGED offsetVars
    BY <1>3 DEF offsetVars
  <1>4. CASE CommitSucceeds(r)
    BY <1>1, <1>2, <1>4 DEF CommitSucceeds
  <1>5. CASE CommitFails(r)
    BY <1>1, <1>5, BoundsAssumption DEF CommitFails, Restored
  <1> QED
    BY <1>3, <1>4, <1>5 DEF CommitStoredOffsets

\* So does the rebalance callback.
LEMMA CallbackType ==
    ASSUME TypeOK, NEW r \in Replicas, RevokedPartitions(r)
    PROVE  /\ pending' \in [Replicas -> [Partitions -> Offsets]]
           /\ committed' \in [Partitions -> Offsets]
           /\ commitFailures' \in Nat
  BY CommitType DEF RevokedPartitions, offsetVars, TypeOK

\* An answer of Inventory to the request in hand leaves it typed.
LEMMA InventoryType ==
    ASSUME TypeOK, NEW r \in Replicas, msg[r] \in Positions,
           NEW answer, Inventory(r, answer)
    PROVE  /\ resolved' \subseteq Positions
           /\ inventory' \in [Partitions -> Offsets]
  <1>1. msg[r][1] \in Partitions /\ msg[r][2] \in Offsets
    BY PositionParts DEF Offsets
  <1>2. CASE TakesEffect(MessageOf(r), answer)
    BY <1>1, <1>2 DEF TypeOK, Inventory
  <1>3. CASE ~TakesEffect(MessageOf(r), answer)
    BY <1>3 DEF TypeOK, Inventory, serviceVars
  <1> QED
    BY <1>2, <1>3

\* The counters of Run and Retry stay within their limits.
LEMMA CountWithin ==
    ASSUME NEW max \in Int, NEW n \in Nat, InBudget(max, n)
    PROVE  Count(max, n) \in Nat /\ WithinBudget(max, Count(max, n))
  BY DEF InBudget, Count, WithinBudget, Infinite

\* Every step keeps the types, the limits, and the message in hand.
LEMMA TypeNext == TypeInv /\ [Next]_vars => TypeInv'
  <1> SUFFICES ASSUME TypeInv, [Next]_vars PROVE TypeInv'
    OBVIOUS
  <1> USE OptionsAssumption DEF TypeInv, TypeOK, Locations, InHand
  <1>1. CASE UNCHANGED vars
    BY <1>1 DEF vars
  <1>2. ASSUME NEW r \in Replicas, Loop(r)
        PROVE  TypeInv'
    <2> USE DEF loopVars, offsetVars, clientVars, groupVars, serviceVars
    <2>1. CASE StartConsumer(r)
      BY <2>1 DEF StartConsumer, NothingStored, Offsets, WithinBudget
    <2>2. CASE RetriesSpent(r)
      BY <2>2 DEF RetriesSpent
    <2>3. CASE PollMessage(r)
      BY <2>3, PartsPosition DEF PollMessage, WithinBudget
    <2>4. CASE RequestFinishes(r)
      BY <2>4, InventoryType DEF RequestFinishes
    <2>5. CASE RequestFails(r)
      BY <2>5, InventoryType, CountWithin DEF RequestFails
    <2>6. CASE CommitBeforeRetry(r)
      BY <2>6, CommitType DEF CommitBeforeRetry
    <2>7. CASE AttemptsSpent(r)
      BY <2>7 DEF AttemptsSpent
    <2>8. CASE StoreOffset(r)
      BY <2>8, PositionParts DEF StoreOffset, Offsets, WithinBudget
    <2>9. CASE CommitBatch(r)
      BY <2>9, CommitType DEF CommitBatch
    <2>10. CASE CommitBeforeClose(r)
      BY <2>10, CommitType DEF CommitBeforeClose
    <2>11. CASE Close(r)
      BY <2>11, CallbackType, CountWithin DEF Close, NoPosition, Release
    <2> QED
      BY <1>2, <2>1, <2>2, <2>3, <2>4, <2>5, <2>6, <2>7, <2>8, <2>9, <2>10,
         <2>11 DEF Loop
  <1>3. ASSUME NEW r \in Replicas, Rebalance(r)
        PROVE  TypeInv'
    <2> USE DEF loopVars, offsetVars, clientVars, groupVars, serviceVars
    <2>1. ASSUME NEW P \in SUBSET Partitions, AssignPartitions(r, P)
          PROVE  TypeInv'
      BY <2>1 DEF AssignPartitions, Offsets, NoOffset
    <2>2. CASE RevokePartitions(r)
      BY <2>2, CallbackType DEF RevokePartitions, Disrupt, NoPosition, Release
    <2>3. CASE LoseAssignment(r)
      BY <2>3, CallbackType DEF LoseAssignment, NoPosition
    <2> QED
      BY <1>3, <2>1, <2>2, <2>3 DEF Rebalance
  <1>4. ASSUME NEW r \in Replicas, Environment(r)
        PROVE  TypeInv'
    <2> USE DEF loopVars, offsetVars, clientVars, groupVars, serviceVars, Disrupt
    <2>1. CASE PollNothing(r)
      BY <2>1 DEF PollNothing, vars
    <2>2. CASE StartFails(r)
      BY <2>2 DEF StartFails
    <2>3. CASE StopPolling(r)
      BY <2>3 DEF StopPolling
    <2>4. CASE RequestHangs(r)
      BY <2>4, InventoryType DEF RequestHangs
    <2>5. CASE CloseFails(r)
      BY <2>5 DEF CloseFails, NoPosition
    <2>6. CASE EvictMember(r)
      BY <2>6 DEF EvictMember, Release
    <2>7. CASE Crash(r)
      BY <2>7 DEF Crash, NoPosition
    <2>8. CASE RestartProcess(r)
      BY <2>8 DEF RestartProcess, WithinBudget
    <2> QED
      BY <1>4, <2>1, <2>2, <2>3, <2>4, <2>5, <2>6, <2>7, <2>8 DEF Environment
  <1> QED
    BY <1>1, <1>2, <1>3, <1>4 DEF Next

\* The variables keep their types, and the loops of Run and Retry their
\* limits.
THEOREM TypeCorrect == Spec => []TypeOK
  <1>1. TypeInv => TypeOK
    BY DEF TypeInv
  <1> QED
    BY TypeInit, TypeNext, <1>1, PTL DEF Spec

-----------------------------------------------------------------------------
(***************************************************************************)
(* At-least-once delivery.                                                 *)
(***************************************************************************)
\* ProcessMessage passes over nothing it should not.
LEMMA SkippedIsExcused ==
    ASSUME NEW m \in Message, ProcessMessage(m, Enabled) = "skip"
    PROVE  Excused(m)
  BY OptionsAssumption
  DEF Message, ProcessMessage, MigrationDisposition, RequestDisposition,
      ParseHeaders, IsHostDeleted, TransformHostToDeleteResourceRequest,
      TransformHostToReportResourceRequest, ParsePayload, Excused,
      ValidOperations, ValidApiVersions

\* A request that Retry finishes without an error took effect.
LEMMA FinishedTookEffect ==
    ASSUME NEW m, NEW answer, Finishes(m, answer)
    PROVE  TakesEffect(m, answer)
  BY DEF Finishes, TakesEffect, DeleteErrorHandler

\* What is settled stays so.
LEMMA SettledStays ==
    ASSUME resolved \subseteq resolved', NEW p, NEW o, Settled(p, o)
    PROVE  Settled(p, o)'
  BY DEF Settled

\* An answer of Inventory settles positions and unsettles none.
LEMMA InventorySettles ==
    ASSUME NEW r, NEW answer, Inventory(r, answer)
    PROVE  /\ resolved \subseteq resolved'
           /\ TakesEffect(MessageOf(r), answer) => msg[r] \in resolved'
  BY DEF Inventory, serviceVars

\* A step after which every offset is where it was, or was dropped, or moved
\* from a replica's store to the broker, keeps what is settled settled.
OffsetsMoveOnly ==
    /\ \A p \in Partitions :
          \/ committed'[p] = committed[p]
          \/ \E r \in Replicas : committed'[p] = pending[r][p]
    /\ \A r \in Replicas : \A p \in Partitions :
          \/ pending'[r][p] = pending[r][p]
          \/ pending'[r][p] = NoOffset

\* A step after which every partition is read from where it was, or has lost
\* its position.
ReadsOnOnly ==
    \A r \in Replicas : \A p \in Partitions :
        next'[r][p] = next[r][p] \/ next'[r][p] = 0

\* A step after which no replica has taken up or finished a message.
HoldsOnOnly ==
    \A r \in Replicas :
        InHand(r)' => /\ InHand(r)
                      /\ msg'[r] = msg[r]
                      /\ pc'[r] = "store" => pc[r] = "store"

\* A commit only moves stored offsets to the broker.
LEMMA CommitMovesOffsets ==
    ASSUME TypeOK, NEW r \in Replicas, CommitStoredOffsets(r)
    PROVE  OffsetsMoveOnly
  <1> USE DEF TypeOK, OffsetsMoveOnly, Overlay, NothingStored
  <1>1. CASE ~HasOffsets(r) /\ UNCHANGED offsetVars
    BY <1>1 DEF offsetVars
  <1>2. CASE CommitSucceeds(r)
    BY <1>2 DEF CommitSucceeds
  <1>3. CASE CommitFails(r)
    BY <1>3 DEF CommitFails, Restored
  <1> QED
    BY <1>1, <1>2, <1>3 DEF CommitStoredOffsets

\* So does the rebalance callback.
LEMMA CallbackMovesOffsets ==
    ASSUME TypeOK, NEW r \in Replicas, RevokedPartitions(r)
    PROVE  OffsetsMoveOnly
  BY CommitMovesOffsets DEF RevokedPartitions, offsetVars, OffsetsMoveOnly

\* The part of DeliveryInv that is about commits.
OffsetsSettled ==
    /\ NoLoss
    /\ \A r \in Replicas : \A p \in Partitions : SettledUpTo(p, pending[r][p])

\* The part about where partitions are read.
ReadSettled ==
    \A r \in Replicas : \A p \in Partitions : SettledBefore(p, next[r][p])

\* The part about messages in hand.
HandSettled ==
    \A r \in Replicas :
        /\ InHand(r) => SettledBefore(msg[r][1], msg[r][2])
        /\ pc[r] = "store" => Settled(msg[r][1], msg[r][2])

\* The invariant in three parts, each about other variables.
LEMMA DeliveryParts == DeliveryInv <=> OffsetsSettled /\ ReadSettled /\ HandSettled
  BY DEF DeliveryInv, OffsetsSettled, ReadSettled, HandSettled

\* Offsets that only move from store to broker stay settled.
LEMMA OffsetsStaySettled ==
    ASSUME OffsetsSettled, OffsetsMoveOnly, resolved \subseteq resolved'
    PROVE  OffsetsSettled'
  <1>1. ASSUME NEW p \in Partitions
        PROVE  SettledUpTo(p, committed[p])'
    <2>1. CASE committed'[p] = committed[p]
      BY <2>1, SettledStays DEF OffsetsSettled, NoLoss, SettledUpTo
    <2>2. ASSUME NEW r \in Replicas, committed'[p] = pending[r][p]
          PROVE  SettledUpTo(p, committed[p])'
      BY <2>2, SettledStays DEF OffsetsSettled, SettledUpTo
    <2> QED
      BY <2>1, <2>2 DEF OffsetsMoveOnly
  <1>2. ASSUME NEW r \in Replicas, NEW p \in Partitions
        PROVE  SettledUpTo(p, pending[r][p])'
    <2>1. CASE pending'[r][p] = pending[r][p]
      BY <2>1, SettledStays DEF OffsetsSettled, SettledUpTo
    <2>2. CASE pending'[r][p] = NoOffset
      BY <2>2, LogAssumption DEF SettledUpTo, NoOffset
    <2> QED
      BY <2>1, <2>2 DEF OffsetsMoveOnly
  <1> QED
    BY <1>1, <1>2 DEF OffsetsSettled, NoLoss

\* Read positions that stay or go back to the start stay settled.
LEMMA ReadStaysSettled ==
    ASSUME ReadSettled, ReadsOnOnly, resolved \subseteq resolved'
    PROVE  ReadSettled'
  <1> SUFFICES ASSUME NEW r \in Replicas, NEW p \in Partitions
               PROVE  SettledBefore(p, next[r][p])'
    BY DEF ReadSettled
  <1>1. CASE next'[r][p] = next[r][p]
    BY <1>1, SettledStays DEF ReadSettled, SettledBefore
  <1>2. CASE next'[r][p] = 0
    BY <1>2, LogAssumption DEF SettledBefore
  <1> QED
    BY <1>1, <1>2 DEF ReadsOnOnly

\* A message that stays in hand, or is put down, stays settled.
LEMMA HandStaysSettled ==
    ASSUME HandSettled, HoldsOnOnly, resolved \subseteq resolved'
    PROVE  HandSettled'
  <1> SUFFICES ASSUME NEW r \in Replicas, InHand(r)'
               PROVE  /\ SettledBefore(msg[r][1], msg[r][2])'
                      /\ pc'[r] = "store" => Settled(msg[r][1], msg[r][2])'
    BY DEF HandSettled, InHand
  <1>1. SettledBefore(msg[r][1], msg[r][2])'
    BY SettledStays DEF HandSettled, SettledBefore, HoldsOnOnly
  <1>2. pc'[r] = "store" => Settled(msg[r][1], msg[r][2])'
    BY SettledStays DEF HandSettled, HoldsOnOnly
  <1> QED
    BY <1>1, <1>2

\* A step that leaves the offsets, reads and hands alone keeps the invariant.
LEMMA DeliveryStays ==
    ASSUME DeliveryInv, OffsetsMoveOnly, ReadsOnOnly, HoldsOnOnly,
           resolved \subseteq resolved'
    PROVE  DeliveryInv'
  <1>1. OffsetsSettled' /\ ReadSettled' /\ HandSettled'
    BY DeliveryParts, OffsetsStaySettled, ReadStaysSettled, HandStaysSettled
  <1> QED
    BY <1>1 DEF DeliveryInv, OffsetsSettled, ReadSettled, HandSettled

\* Nothing is stored, read or in hand at first.
LEMMA DeliveryInit == Init => DeliveryInv
  BY LogAssumption
  DEF Init, DeliveryInv, NoLoss, SettledUpTo, SettledBefore, NothingStored,
      NoPosition, NoOffset, InHand

\* The steps of the program that only move offsets about.
LEMMA DeliveryLoop ==
    ASSUME TypeInv, DeliveryInv, NEW r \in Replicas,
           \/ StartConsumer(r) \/ RetriesSpent(r) \/ RequestFails(r)
           \/ CommitBeforeRetry(r) \/ AttemptsSpent(r) \/ CommitBatch(r)
           \/ CommitBeforeClose(r) \/ Close(r)
    PROVE  DeliveryInv'
  <1> USE DEF TypeInv, TypeOK, InHand, HoldsOnOnly, ReadsOnOnly, offsetVars,
              clientVars, serviceVars
  <1>1. CASE StartConsumer(r)
    BY <1>1, DeliveryStays DEF StartConsumer, OffsetsMoveOnly, NothingStored
  <1>2. CASE RetriesSpent(r)
    BY <1>2, DeliveryStays DEF RetriesSpent, OffsetsMoveOnly
  <1>3. CASE RequestFails(r)
    BY <1>3, DeliveryStays, InventorySettles DEF RequestFails, OffsetsMoveOnly
  <1>4. CASE CommitBeforeRetry(r)
    BY <1>4, DeliveryStays, CommitMovesOffsets DEF CommitBeforeRetry
  <1>5. CASE AttemptsSpent(r)
    BY <1>5, DeliveryStays DEF AttemptsSpent, OffsetsMoveOnly
  <1>6. CASE CommitBatch(r)
    BY <1>6, DeliveryStays, CommitMovesOffsets DEF CommitBatch
  <1>7. CASE CommitBeforeClose(r)
    BY <1>7, DeliveryStays, CommitMovesOffsets DEF CommitBeforeClose
  <1>8. CASE Close(r)
    BY <1>8, DeliveryStays, CallbackMovesOffsets DEF Close, NoPosition
  <1> QED
    BY <1>1, <1>2, <1>3, <1>4, <1>5, <1>6, <1>7, <1>8

PollsTo(r, p, o) ==
    /\ IsNext(r, p, o)
    /\ msg' = [msg EXCEPT ![r] = <<p, o>>]
    /\ pc' = [pc EXCEPT ![r] =
                CASE ProcessMessage(Log[p][o], Enabled) = "reject" -> "shutdown"
                  [] ProcessMessage(Log[p][o], Enabled) = "skip"   -> "store"
                  [] OTHER                                         -> "calling"]

\* A polled message follows what was read, so everything before it is settled;
\* if it is passed over, it is excused.
LEMMA DeliveryPoll ==
    ASSUME TypeInv, DeliveryInv, NEW r \in Replicas, PollMessage(r)
    PROVE  DeliveryInv'
  <1> USE DEF TypeInv, TypeOK
  <1>1. PICK p \in assigned[r] : \E o \in DOMAIN Log[p] : PollsTo(r, p, o)
    BY DEF PollMessage, PollsTo
  <1>2. PICK o \in DOMAIN Log[p] : PollsTo(r, p, o)
    BY <1>1
  <1> p \in Partitions
    OBVIOUS
  <1> USE DEF PollsTo
  <1>3. UNCHANGED <<offsetVars, clientVars, serviceVars>>
    BY DEF PollMessage
  <1>4. OffsetsSettled' /\ ReadSettled'
    BY <1>3, DeliveryParts, OffsetsStaySettled, ReadStaysSettled
    DEF OffsetsMoveOnly, ReadsOnOnly, offsetVars, clientVars, serviceVars
  <1>5. SettledBefore(p, o)
    <2> SUFFICES ASSUME NEW k \in DOMAIN Log[p], k < o
                 PROVE  Settled(p, k)
      BY DEF SettledBefore
    <2>1. k < next[r][p]
      BY <1>2, LogAssumption DEF IsNext
    <2> QED
      BY <2>1 DEF DeliveryInv, SettledBefore
  <1>6. pc'[r] = "store" => Settled(p, o)
    BY <1>2, SkippedIsExcused, LogAssumption DEF Settled
  <1>7. HandSettled'
    <2> SUFFICES ASSUME NEW q \in Replicas, InHand(q)'
                 PROVE  /\ SettledBefore(msg[q][1], msg[q][2])'
                        /\ pc'[q] = "store" => Settled(msg[q][1], msg[q][2])'
      BY DEF HandSettled, InHand
    <2>1. CASE q = r
      BY <2>1, <1>2, <1>3, <1>5, <1>6 DEF SettledBefore, Settled, serviceVars
    <2>2. CASE q # r
      <3>1. pc'[q] = pc[q] /\ msg'[q] = msg[q] /\ resolved' = resolved
        BY <2>2, <1>2, <1>3 DEF serviceVars
      <3> QED
        BY <3>1 DEF DeliveryInv, SettledBefore, Settled, InHand
    <2> QED
      BY <2>1, <2>2
  <1> QED
    BY <1>4, <1>7 DEF DeliveryInv, OffsetsSettled, ReadSettled, HandSettled

\* A finished request took effect before its message counts as processed.
LEMMA DeliveryFinish ==
    ASSUME TypeInv, DeliveryInv, NEW r \in Replicas, RequestFinishes(r)
    PROVE  DeliveryInv'
  <1> USE DEF TypeInv, TypeOK
  <1>1. PICK answer : Finishes(MessageOf(r), answer) /\ Inventory(r, answer)
    BY DEF RequestFinishes
  <1>2. resolved \subseteq resolved' /\ msg[r] \in resolved'
    BY <1>1, InventorySettles, FinishedTookEffect
  <1>3. OffsetsSettled' /\ ReadSettled'
    BY <1>2, DeliveryParts, OffsetsStaySettled, ReadStaysSettled
    DEF RequestFinishes, OffsetsMoveOnly, ReadsOnOnly, offsetVars, clientVars
  <1>4. Settled(msg[r][1], msg[r][2])'
    <2>1. msg[r] = <<msg[r][1], msg[r][2]>>
      BY PositionParts DEF RequestFinishes, InHand
    <2> QED
      BY <1>2, <2>1 DEF Settled, RequestFinishes
  <1>5. ASSUME NEW q \in Replicas, InHand(q)'
        PROVE  SettledBefore(msg[q][1], msg[q][2])'
    <2>1. InHand(q) /\ msg'[q] = msg[q]
      BY <1>5 DEF RequestFinishes, InHand
    <2> QED
      BY <1>2, <2>1, SettledStays DEF DeliveryInv, SettledBefore
  <1>6. ASSUME NEW q \in Replicas, pc'[q] = "store"
        PROVE  Settled(msg[q][1], msg[q][2])'
    <2>1. CASE q = r
      BY <2>1, <1>4
    <2>2. CASE q # r
      <3>1. pc[q] = "store" /\ msg'[q] = msg[q]
        BY <1>6, <2>2 DEF RequestFinishes
      <3> QED
        BY <1>2, <3>1, SettledStays DEF DeliveryInv
    <2> QED
      BY <2>1, <2>2
  <1> QED
    BY <1>3, <1>5, <1>6 DEF DeliveryInv, OffsetsSettled, ReadSettled

\* Up to an offset: before it, and itself.
LEMMA UpToSplits ==
    ASSUME NEW k \in Nat, NEW n \in Nat, k <= n
    PROVE  k < n \/ k = n
  OBVIOUS

\* A stored offset is that of a settled message, and so is everything before
\* it.
LEMMA DeliveryStore ==
    ASSUME TypeInv, DeliveryInv, NEW r \in Replicas, StoreOffset(r)
    PROVE  DeliveryInv'
  <1> USE DEF TypeInv, TypeOK
  <1> DEFINE p == msg[r][1]
             o == msg[r][2]
  <1>1. p \in Partitions /\ o \in DOMAIN Log[p] /\ o \in Nat
    BY PositionParts DEF StoreOffset, InHand
  <1>2. resolved' = resolved /\ committed' = committed
    BY DEF StoreOffset, serviceVars
  <1>3. \A k \in DOMAIN Log[p] : k <= o => Settled(p, k)
    <2>1. SettledBefore(p, o) /\ Settled(p, o)
      BY DEF StoreOffset, InHand, DeliveryInv
    <2>2. \A k \in DOMAIN Log[p] : k <= o => k < o \/ k = o
      BY <1>1, UpToSplits, LogAssumption
    <2> QED
      BY <2>1, <2>2 DEF SettledBefore
  <1>4. NoLoss'
    BY <1>2 DEF DeliveryInv, NoLoss, SettledUpTo, Settled
  <1>5. ASSUME NEW q \in Replicas, NEW x \in Partitions
        PROVE  SettledUpTo(x, pending[q][x])' /\ SettledBefore(x, next[q][x])'
    <2>1. CASE q = r /\ x = p
      <3>1. pending'[q][x] = o /\ next'[q][x] = o + 1
        BY <2>1, <1>1 DEF StoreOffset
      <3>2. \A k \in DOMAIN Log[p] : k < o + 1 => k <= o
        BY <1>1, LogAssumption
      <3> QED
        BY <2>1, <3>1, <3>2, <1>2, <1>3 DEF SettledUpTo, SettledBefore, Settled
    <2>2. CASE ~(q = r /\ x = p)
      <3>1. pending'[q][x] = pending[q][x] /\ next'[q][x] = next[q][x]
        BY <2>2, <1>1 DEF StoreOffset
      <3> QED
        BY <3>1, <1>2 DEF DeliveryInv, SettledUpTo, SettledBefore, Settled
    <2> QED
      BY <2>1, <2>2
  <1>6. HandSettled'
    BY <1>2, DeliveryParts, HandStaysSettled DEF StoreOffset, HoldsOnOnly, InHand
  <1> QED
    BY <1>4, <1>5, <1>6 DEF DeliveryInv, HandSettled

\* An assignment starts at the committed offset: what comes before it is
\* settled.
LEMMA DeliveryAssign ==
    ASSUME TypeInv, DeliveryInv, NEW r \in Replicas,
           NEW P \in SUBSET Partitions, AssignPartitions(r, P)
    PROVE  DeliveryInv'
  <1> USE DEF TypeInv, TypeOK
  <1>1. UNCHANGED <<loopVars, offsetVars, serviceVars>>
    BY DEF AssignPartitions
  <1>2. OffsetsSettled' /\ HandSettled'
    BY <1>1, DeliveryParts, OffsetsStaySettled, HandStaysSettled
    DEF OffsetsMoveOnly, HoldsOnOnly, InHand, loopVars, offsetVars, serviceVars
  <1>3. ASSUME NEW q \in Replicas, NEW p \in Partitions
        PROVE  SettledBefore(p, next[q][p])'
    <2>1. CASE q = r /\ next'[q][p] = committed[p] /\ committed[p] # NoOffset
      <3>1. SettledUpTo(p, committed[p]) /\ committed[p] \in Nat
        BY <2>1 DEF DeliveryInv, NoLoss, Offsets
      <3>2. \A o \in DOMAIN Log[p] : o < committed[p] => o <= committed[p]
        BY <3>1, LogAssumption
      <3> QED
        BY <2>1, <3>1, <3>2, <1>1
        DEF SettledUpTo, SettledBefore, Settled, serviceVars
    <2>2. CASE q = r /\ next'[q][p] = 0
      BY <2>2, LogAssumption DEF SettledBefore
    <2>3. CASE q # r
      <3>1. next'[q][p] = next[q][p]
        BY <2>3 DEF AssignPartitions
      <3> QED
        BY <3>1, <1>1 DEF DeliveryInv, SettledBefore, Settled, serviceVars
    <2> QED
      BY <2>1, <2>2, <2>3 DEF AssignPartitions
  <1> QED
    BY <1>2, <1>3 DEF DeliveryInv, OffsetsSettled, HandSettled

\* Rebalances that take partitions away, and the environment.
LEMMA DeliveryEnvironment ==
    ASSUME TypeInv, DeliveryInv, NEW r \in Replicas,
           \/ RevokePartitions(r) \/ LoseAssignment(r) \/ Environment(r)
    PROVE  DeliveryInv'
  <1> USE DEF TypeInv, TypeOK, InHand, HoldsOnOnly, ReadsOnOnly, loopVars,
              offsetVars, clientVars, serviceVars
  <1>1. CASE RevokePartitions(r)
    BY <1>1, DeliveryStays, CallbackMovesOffsets DEF RevokePartitions, NoPosition
  <1>2. CASE LoseAssignment(r)
    <2>1. OffsetsMoveOnly
      BY <1>2, CallbackMovesOffsets DEF LoseAssignment, OffsetsMoveOnly
    <2> QED
      BY <2>1, <1>2, DeliveryStays DEF LoseAssignment, NoPosition
  <1>3. CASE PollNothing(r)
    BY <1>3, DeliveryStays DEF PollNothing, vars, OffsetsMoveOnly
  <1>4. CASE StartFails(r)
    BY <1>4, DeliveryStays DEF StartFails, OffsetsMoveOnly
  <1>5. CASE StopPolling(r)
    BY <1>5, DeliveryStays DEF StopPolling, OffsetsMoveOnly
  <1>6. CASE RequestHangs(r)
    BY <1>6, DeliveryStays, InventorySettles DEF RequestHangs, OffsetsMoveOnly
  <1>7. CASE CloseFails(r)
    BY <1>7, DeliveryStays DEF CloseFails, OffsetsMoveOnly, NoPosition
  <1>8. CASE EvictMember(r)
    BY <1>8, DeliveryStays DEF EvictMember, OffsetsMoveOnly
  <1>9. CASE Crash(r)
    BY <1>9, DeliveryStays DEF Crash, OffsetsMoveOnly, NoPosition
  <1>10. CASE RestartProcess(r)
    BY <1>10, DeliveryStays DEF RestartProcess, OffsetsMoveOnly
  <1> QED
    BY <1>1, <1>2, <1>3, <1>4, <1>5, <1>6, <1>7, <1>8, <1>9, <1>10 DEF Environment

\* Every step keeps everything a replica could commit settled.
LEMMA DeliveryNext == TypeInv /\ DeliveryInv /\ [Next]_vars => DeliveryInv'
  <1> SUFFICES ASSUME TypeInv, DeliveryInv, [Next]_vars PROVE DeliveryInv'
    OBVIOUS
  <1>1. CASE UNCHANGED vars
    BY <1>1, DeliveryStays
    DEF vars, OffsetsMoveOnly, ReadsOnOnly, HoldsOnOnly, InHand
  <1>2. ASSUME NEW r \in Replicas, Loop(r)
        PROVE  DeliveryInv'
    BY <1>2, DeliveryLoop, DeliveryPoll, DeliveryFinish, DeliveryStore DEF Loop
  <1>3. ASSUME NEW r \in Replicas, Rebalance(r)
        PROVE  DeliveryInv'
    BY <1>3, DeliveryAssign, DeliveryEnvironment DEF Rebalance
  <1>4. ASSUME NEW r \in Replicas, Environment(r)
        PROVE  DeliveryInv'
    BY <1>4, DeliveryEnvironment
  <1> QED
    BY <1>1, <1>2, <1>3, <1>4 DEF Next

\* Nothing a replica has committed, stored or read past is unsettled.
THEOREM DeliverySafe == Spec => []DeliveryInv
  BY TypeInit, TypeNext, DeliveryInit, DeliveryNext, PTL DEF Spec

\* At-least-once delivery: every message up to a committed offset took effect
\* in Inventory or was passed over on purpose.
THEOREM AtLeastOnce == Spec => []NoLoss
  <1>1. DeliveryInv => NoLoss
    BY DEF DeliveryInv
  <1> QED
    BY <1>1, DeliverySafe, PTL

\* A message is sent to Inventory only when every earlier one of its
\* partition is settled.
THEOREM SentInOrder == Spec => []InOrder
  <1>1. DeliveryInv => InOrder
    BY DEF DeliveryInv, InOrder, InHand
  <1> QED
    BY <1>1, DeliverySafe, PTL

-----------------------------------------------------------------------------
(***************************************************************************)
(* What the group does to Kessel Inventory: it implements Delivery, and    *)
(* late or repeated requests do not take Inventory back to an older report *)
(* that carries a transaction id.                                          *)
(***************************************************************************)
\* A message that waits for an answer is one that must be delivered.
SentInv ==
    \A r \in Replicas :
        pc[r] \in {"calling", "recommit"} => ~Excused(MessageOf(r))

\* What took effect took effect in order, and Inventory shows something that
\* took effect.
EffectInv ==
    /\ \A x \in resolved : SettledBefore(x[1], x[2])
    /\ \A p \in Partitions :
          inventory[p] # NoOffset => <<p, inventory[p]>> \in resolved

\* A message with a request to send is not excused.
LEMMA SentIsDue ==
    ASSUME NEW m \in Message, Excused(m)
    PROVE  ProcessMessage(m, Enabled) \in {"skip", "reject"}
  BY OptionsAssumption
  DEF Message, ProcessMessage, MigrationDisposition, RequestDisposition,
      ParseHeaders, IsHostDeleted, TransformHostToDeleteResourceRequest,
      TransformHostToReportResourceRequest, ParsePayload, Excused,
      ValidOperations, ValidApiVersions

\* Only a request that is being called changes Inventory, and such a step
\* commits nothing.
LEMMA StepKinds ==
    ASSUME TypeInv, [Next]_vars
    PROVE  \/ UNCHANGED serviceVars
           \/ \E r \in Replicas :
                 /\ pc[r] = "calling"
                 /\ committed' = committed
                 /\ \E answer : Inventory(r, answer)
  <1> USE DEF offsetVars
  <1>1. CASE UNCHANGED vars
    BY <1>1 DEF vars, serviceVars
  <1>2. ASSUME NEW r \in Replicas, Loop(r) \/ Rebalance(r) \/ Environment(r)
        PROVE  \/ UNCHANGED serviceVars
               \/ /\ pc[r] = "calling"
                  /\ committed' = committed
                  /\ \E answer : Inventory(r, answer)
    <2>1. CASE RequestFinishes(r)
      BY <2>1 DEF RequestFinishes
    <2>2. CASE RequestFails(r)
      BY <2>2 DEF RequestFails
    <2>3. CASE RequestHangs(r)
      BY <2>3 DEF RequestHangs
    <2>4. CASE ~(RequestFinishes(r) \/ RequestFails(r) \/ RequestHangs(r))
      <3>1. CASE Loop(r)
        BY <3>1, <2>4
        DEF Loop, StartConsumer, RetriesSpent, PollMessage, CommitBeforeRetry,
            AttemptsSpent, StoreOffset, CommitBatch, CommitBeforeClose, Close
      <3>2. CASE Rebalance(r)
        BY <3>2
        DEF Rebalance, AssignPartitions, RevokePartitions, LoseAssignment
      <3>3. CASE Environment(r)
        BY <3>3, <2>4
        DEF Environment, PollNothing, vars, serviceVars, StartFails,
            StopPolling, CloseFails, EvictMember, Crash, RestartProcess
      <3> QED
        BY <1>2, <3>1, <3>2, <3>3
    <2> QED
      BY <2>1, <2>2, <2>3, <2>4
  <1> QED
    BY <1>1, <1>2 DEF Next

\* A step that leaves a replica waiting has left its message in hand, or has
\* just polled it.
LEMMA SentNext ==
    ASSUME TypeInv, SentInv, [Next]_vars
    PROVE  SentInv'
  <1> USE DEF TypeInv, TypeOK, loopVars
  <1>1. CASE UNCHANGED vars
    BY <1>1 DEF vars, SentInv, MessageOf
  <1>2. ASSUME NEW r \in Replicas, PollMessage(r)
        PROVE  SentInv'
    <2>1. PICK p \in assigned[r] : \E o \in DOMAIN Log[p] : PollsTo(r, p, o)
      BY <1>2 DEF PollMessage, PollsTo
    <2>2. PICK o \in DOMAIN Log[p] : PollsTo(r, p, o)
      BY <2>1
    <2>3. Log[p][o] \in Message
      BY LogAssumption
    <2>4. pc'[r] = "calling" => ~Excused(Log[p][o])
      BY <2>2, <2>3, SentIsDue DEF PollsTo
    <2>5. pc'[r] \in {"calling", "store", "shutdown"} /\ msg'[r] = <<p, o>>
      BY <2>2 DEF PollsTo
    <2>6. \A q \in Replicas \ {r} : pc'[q] = pc[q] /\ msg'[q] = msg[q]
      BY <2>2 DEF PollsTo
    <2>7. pc'[r] \in {"calling", "recommit"} => ~Excused(MessageOf(r)')
      <3>1. MessageOf(r)' = Log[p][o]
        BY <2>5 DEF MessageOf
      <3> QED
        BY <3>1, <2>4, <2>5
    <2>8. ASSUME NEW q \in Replicas \ {r}, pc'[q] \in {"calling", "recommit"}
          PROVE  ~Excused(MessageOf(q)')
      <3>1. MessageOf(q)' = MessageOf(q)
        BY <2>6 DEF MessageOf
      <3> QED
        BY <3>1, <2>6, <2>8 DEF SentInv
    <2> QED
      BY <2>7, <2>8 DEF SentInv
  <1>3. ASSUME NEW r \in Replicas, ~PollMessage(r),
               Loop(r) \/ Rebalance(r) \/ Environment(r)
        PROVE  SentInv'
    <2>1. \A q \in Replicas :
            pc'[q] \in {"calling", "recommit"} =>
                pc[q] \in {"calling", "recommit"} /\ msg'[q] = msg[q]
      <3>1. CASE Loop(r)
        BY <3>1, <1>3
        DEF Loop, StartConsumer, RetriesSpent, RequestFinishes, RequestFails,
            CommitBeforeRetry, AttemptsSpent, StoreOffset, CommitBatch,
            CommitBeforeClose, Close
      <3>2. CASE Rebalance(r)
        BY <3>2
        DEF Rebalance, AssignPartitions, RevokePartitions, LoseAssignment
      <3>3. CASE Environment(r)
        BY <3>3
        DEF Environment, PollNothing, vars, StartFails, StopPolling,
            RequestHangs, CloseFails, EvictMember, Crash, RestartProcess
      <3> QED
        BY <1>3, <3>1, <3>2, <3>3
    <2> QED
      BY <2>1 DEF SentInv, MessageOf
  <1> QED
    BY <1>1, <1>2, <1>3 DEF Next, Loop

\* A request takes effect after everything before it is settled.
LEMMA EffectNext ==
    ASSUME TypeInv, DeliveryInv, EffectInv, [Next]_vars
    PROVE  EffectInv'
  <1> USE DEF TypeInv, TypeOK
  <1>1. CASE UNCHANGED serviceVars
    BY <1>1 DEF serviceVars, EffectInv, SettledBefore, Settled
  <1>2. ASSUME NEW r \in Replicas, NEW answer,
               pc[r] = "calling", Inventory(r, answer)
        PROVE  EffectInv'
    <2> DEFINE p == msg[r][1]
               o == msg[r][2]
    <2>1. p \in Partitions /\ o \in Nat /\ msg[r] = <<p, o>>
      BY <1>2, PositionParts DEF InHand
    <2>2. SettledBefore(p, o)
      BY <1>2 DEF DeliveryInv, InHand
    <2>3. CASE ~TakesEffect(MessageOf(r), answer)
      BY <1>2, <2>3, <1>1 DEF Inventory
    <2>4. CASE TakesEffect(MessageOf(r), answer)
      <3>1. resolved' = resolved \union {msg[r]}
        BY <1>2, <2>4 DEF Inventory
      <3>2. \A x \in resolved' : SettledBefore(x[1], x[2])'
        BY <3>1, <2>2, SettledStays DEF EffectInv, SettledBefore
      <3>3. ASSUME NEW q \in Partitions, inventory'[q] # NoOffset
            PROVE  <<q, inventory'[q]>> \in resolved'
        <4>1. CASE inventory'[q] = inventory[q]
          BY <4>1, <3>1, <3>3 DEF EffectInv
        <4>2. CASE inventory'[q] # inventory[q]
          <5>1. q = p /\ inventory'[q] = o
            BY <1>2, <2>1, <2>4, <4>2 DEF Inventory
          <5> QED
            BY <5>1, <3>1, <2>1
        <4> QED
          BY <4>1, <4>2
      <3> QED
        BY <3>2, <3>3 DEF EffectInv
    <2> QED
      BY <2>3, <2>4
  <1> QED
    BY <1>1, <1>2, StepKinds

\* Everything the theorems need.
Inv == TypeInv /\ DeliveryInv /\ SentInv /\ EffectInv

\* It holds always.
LEMMA InvHolds == Spec => []Inv
  <1>1. Init => Inv
    <2>1. Init => SentInv /\ EffectInv
      BY DEF Init, SentInv, EffectInv
    <2> QED
      BY <2>1, TypeInit, DeliveryInit DEF Inv
  <1>2. Inv /\ [Next]_vars => Inv'
    BY TypeNext, DeliveryNext, SentNext, EffectNext DEF Inv
  <1> QED
    BY <1>1, <1>2, PTL DEF Spec

-----------------------------------------------------------------------------
\* What Delivery calls done is what the group calls settled.
LEMMA DoneIsSettled ==
    ASSUME NEW p \in Partitions, NEW o \in DOMAIN Log[p]
    PROVE  D!Done(p, o) <=> Settled(p, o)
  <1>1. <<p, o>> \in Positions
    BY PartsPosition
  <1>2. <<p, o>> \in {x \in Positions : Excused(Log[x[1]][x[2]])}
            <=> Excused(Log[p][o])
    BY <1>1
  <1> QED
    BY <1>2 DEF D!Done, Settled

\* The offsets of the messages, as Delivery knows them.
LEMMA OffsetsOf ==
    ASSUME NEW p \in Partitions
    PROVE  [q \in Partitions |-> DOMAIN Log[q]][p] = DOMAIN Log[p]
  OBVIOUS

\* Whatever a step does to the committed offsets is a commit of Delivery.
LEMMA CommitRefines ==
    ASSUME Inv, Inv', [Next]_vars, UNCHANGED serviceVars
    PROVE  D!Commit
  <1>1. committed' \in [Partitions -> Nat \union {-1}]
    BY DEF Inv, TypeInv, TypeOK, Offsets, NoOffset
  <1>2. ASSUME NEW p \in Partitions, NEW k \in DOMAIN Log[p], k <= committed'[p]
        PROVE  D!Done(p, k)
    <2>1. Settled(p, k)'
      BY <1>2 DEF Inv, DeliveryInv, NoLoss, SettledUpTo
    <2>2. Settled(p, k)
      BY <2>1 DEF serviceVars, Settled
    <2> QED
      BY <2>2, DoneIsSettled
  <1> QED
    BY <1>1, <1>2, OffsetsOf DEF D!Commit, serviceVars

\* A request that takes effect is a delivery, or a repeated one.
LEMMA EffectRefines ==
    ASSUME Inv, NEW r \in Replicas, NEW answer, pc[r] = "calling",
           Inventory(r, answer), committed' = committed
    PROVE  [D!Next]_(D!vars)
  <1> DEFINE p == msg[r][1]
             o == msg[r][2]
  <1>1. p \in Partitions /\ o \in DOMAIN Log[p] /\ msg[r] = <<p, o>>
    BY PositionParts DEF Inv, TypeInv, InHand
  <1>2. CASE resolved' = resolved
    BY <1>2 DEF D!vars
  <1>3. CASE resolved' = resolved \union {msg[r]} /\ msg[r] \notin resolved
    <2>1. \A k \in DOMAIN Log[p] : k < o => D!Done(p, k)
      BY <1>1, DoneIsSettled DEF Inv, DeliveryInv, InHand, SettledBefore
    <2>2. ~Excused(Log[p][o])
      BY DEF Inv, SentInv, MessageOf
    <2>3. <<p, o>> \notin {x \in Positions : Excused(Log[x[1]][x[2]])}
      BY <1>1, <2>2
    <2>4. D!Deliver(p, o)
      BY <1>1, <1>3, <2>1, <2>3, OffsetsOf DEF D!Deliver
    <2> QED
      BY <1>1, <2>4, OffsetsOf DEF D!Next
  <1> QED
    BY <1>2, <1>3 DEF Inventory, serviceVars

\* The consumer group implements Delivery: what replicas, restarts, evictions
\* and retries do together is deliver each message in order, and commit what
\* was delivered.
THEOREM Refines == Spec => ImplementsDelivery
  <1>1. Init => D!Init
    BY DEF Init, D!Init, NoOffset
  <1>2. Inv /\ Inv' /\ [Next]_vars => [D!Next]_(D!vars)
    <2> SUFFICES ASSUME Inv, Inv', [Next]_vars PROVE [D!Next]_(D!vars)
      OBVIOUS
    <2>1. CASE UNCHANGED serviceVars
      BY <2>1, CommitRefines DEF D!Next
    <2>2. CASE ~UNCHANGED serviceVars
      BY <2>2, StepKinds, EffectRefines DEF Inv
    <2> QED
      BY <2>1, <2>2
  <1> QED
    BY <1>1, <1>2, InvHolds, PTL DEF Spec, ImplementsDelivery, D!Spec

\* No late or repeated request takes Inventory back to an older report, where
\* reports carry a transaction id.
THEOREM KeyedAdvance == Spec => KeyedReportsAdvance
  <1> DEFINE Back(p) == inventory'[p] < inventory[p]
             Advances == \A p \in Partitions :
                            Back(p) => ~Keyed(Log[p][inventory'[p]])
  <1>1. Inv /\ [Next]_vars => Advances
    <2> SUFFICES ASSUME Inv, [Next]_vars, NEW p \in Partitions, Back(p),
                        Keyed(Log[p][inventory'[p]])
                 PROVE  FALSE
      OBVIOUS
    <2>1. inventory[p] \in Offsets
      BY DEF Inv, TypeInv, TypeOK
    <2>2. inventory' # inventory
      BY <2>1 DEF Offsets, NoOffset
    <2>3. PICK r \in Replicas : /\ pc[r] = "calling"
                                /\ \E answer : Inventory(r, answer)
      BY <2>2, StepKinds DEF Inv, serviceVars
    <2>4. PICK answer : Inventory(r, answer)
      BY <2>3
    <2> DEFINE o == msg[r][2]
    <2>5. msg[r][1] \in Partitions /\ o \in DOMAIN Log[msg[r][1]]
          /\ o \in Nat /\ msg[r] = <<msg[r][1], o>>
      BY <2>3, PositionParts DEF Inv, TypeInv, InHand
    <2>6. /\ ~(IdempotencyKey(MessageOf(r)) /\ msg[r] \in resolved)
          /\ inventory' = [inventory EXCEPT ![msg[r][1]] = msg[r][2]]
      BY <2>2, <2>4 DEF Inventory, serviceVars
    <2>7. msg[r][1] = p /\ inventory'[p] = o
      BY <2>1, <2>5, <2>6 DEF Inv, TypeInv, TypeOK, Offsets, NoOffset
    <2>8. <<p, o>> \notin resolved
      BY <2>5, <2>6, <2>7 DEF MessageOf, Keyed, IdempotencyKey
    <2>9. ~Excused(Log[p][o])
      BY <2>3, <2>7 DEF Inv, SentInv, MessageOf
    <2>10. inventory[p] # NoOffset /\ o < inventory[p]
      BY <2>5, <2>7 DEF NoOffset
    <2>11. SettledBefore(p, inventory[p])
      BY <2>10 DEF Inv, EffectInv
    <2> QED
      BY <2>5, <2>7, <2>8, <2>9, <2>10, <2>11 DEF SettledBefore, Settled
  <1> QED
    BY <1>1, InvHolds, PTL DEF Spec, KeyedReportsAdvance

=============================================================================
