--------------------------- MODULE Handover_proofs ---------------------------
(***************************************************************************)
(* What becomes of the offsets of finished messages, for every group, log  *)
(* and set of options: until a disruption none is dropped between          *)
(* OffsetStorage and the broker, and as long as no commit failed committed *)
(* offsets only advance and partitions are handed over fully committed.    *)
(***************************************************************************)
EXTENDS InventoryConsumer_proofs

(***************************************************************************)
(* Until a disruption.  A commit writes every offset of its replica, so it *)
(* could cover or uncover another one's.  It does not: what a running      *)
(* replica has stored is of partitions it is assigned, and those it owns   *)
(* alone.                                                                  *)
(***************************************************************************)
Running(r) == pc[r] \notin {"new", "exited"}

\* What the broker has, or will have after the next commit.
Covered(r, p) == IF pending[r][p] = NoOffset THEN committed[p] ELSE pending[r][p]

\* A replica that runs is a member and stores offsets of its partitions only;
\* one that does not has none; a partition is assigned to its owner.
AssignmentInv ==
    \A r \in Replicas :
        /\ pc[r] # "hanging"
        /\ Running(r) => member[r]
        /\ ~Running(r) => assigned[r] = {}
        /\ InHand(r) => msg[r][1] \in assigned[r]
        /\ \A p \in assigned[r] : owner[p] = r
        /\ Running(r) => \A p \in Partitions \ assigned[r] : pending[r][p] = NoOffset

CoverInv ==
    \A r \in Replicas : \A p \in assigned[r] : \A o \in DOMAIN Log[p] :
        o < next[r][p] => o <= Covered(r, p)

AccountingInv == disruptions = 0 => AssignmentInv /\ CoverInv

\* A commit of a running replica, whatever comes of it, drops nothing of its
\* own and touches nothing of another's.
LEMMA CommitCovers ==
    ASSUME TypeOK, AssignmentInv, CoverInv, NEW r \in Replicas, Running(r),
           CommitStoredOffsets(r)
    PROVE  /\ \A q \in Replicas : \A p \in assigned[q] :
                  (Covered(q, p))' = Covered(q, p)
           /\ \A q \in Replicas : \A p \in Partitions :
                  pending[q][p] = NoOffset => pending'[q][p] = NoOffset
<1> USE DEF TypeOK
<1>1. CASE ~HasOffsets(r) /\ UNCHANGED offsetVars
  BY <1>1 DEF offsetVars, Covered
<1>2. CASE CommitSucceeds(r)
  <2>1. /\ committed' = Overlay(r)
        /\ pending' = [pending EXCEPT ![r] = NothingStored]
    BY <1>2 DEF CommitSucceeds
  <2>2. ASSUME NEW q \in Replicas, NEW p \in assigned[q]
        PROVE  (Covered(q, p))' = Covered(q, p)
    <3>1. p \in Partitions
      OBVIOUS
    <3>2. CASE q = r
      BY <2>1, <3>1, <3>2 DEF Covered, Overlay, NothingStored
    <3>3. CASE q # r
      <4>1. p \notin assigned[r]
        BY <2>2, <3>3 DEF AssignmentInv
      <4>2. pending[r][p] = NoOffset
        BY <3>1, <4>1 DEF AssignmentInv
      <4>3. QED
        BY <2>1, <3>1, <3>3, <4>2 DEF Covered, Overlay
    <3>4. QED
      BY <3>2, <3>3
  <2>3. QED
    BY <2>1, <2>2 DEF NothingStored
<1>3. CASE CommitFails(r)
  <2>1. /\ committed' = committed \/ committed' = Overlay(r)
        /\ pending' = pending
    BY <1>3 DEF CommitFails, Restored
  <2>2. ASSUME NEW q \in Replicas, NEW p \in assigned[q]
        PROVE  (Covered(q, p))' = Covered(q, p)
    <3>1. p \in Partitions
      OBVIOUS
    <3>2. CASE q = r
      BY <2>1, <3>1, <3>2 DEF Covered, Overlay
    <3>3. CASE q # r
      <4>1. p \notin assigned[r]
        BY <2>2, <3>3 DEF AssignmentInv
      <4>2. pending[r][p] = NoOffset
        BY <3>1, <4>1 DEF AssignmentInv
      <4>3. QED
        BY <2>1, <3>1, <3>3, <4>2 DEF Covered, Overlay
    <3>4. QED
      BY <3>2, <3>3
  <2>3. QED
    BY <2>1, <2>2
<1>4. QED
  BY <1>1, <1>2, <1>3 DEF CommitStoredOffsets

\* Where nothing is assigned or read on and cover is kept, it stays.
LEMMA CoverKept ==
    ASSUME TypeOK, CoverInv,
           \A q \in Replicas : assigned'[q] \subseteq assigned[q],
           \A q \in Replicas : \A p \in assigned'[q] :
               next'[q][p] = next[q][p] /\ (Covered(q, p))' = Covered(q, p)
    PROVE  CoverInv'
  BY DEF CoverInv

\* The first state.
LEMMA AccountingInit == Init => AccountingInv
  BY DEF Init, AccountingInv, AssignmentInv, CoverInv, Running, InHand,
         NothingStored

\* Steps of a running replica that commit.
LEMMA CommittingStep ==
    ASSUME TypeInv, AssignmentInv, CoverInv, NEW r \in Replicas,
           CommitBeforeRetry(r) \/ CommitBatch(r) \/ CommitBeforeClose(r)
    PROVE  AssignmentInv' /\ CoverInv'
<1> USE DEF TypeInv, TypeOK, Locations
<1>1. /\ Running(r) /\ CommitStoredOffsets(r)
      /\ UNCHANGED <<msg, assigned, next, member, owner>>
      /\ pc' = [pc EXCEPT ![r] = pc'[r]] /\ pc'[r] \in {"calling", "polling", "closing"}
      /\ InHand(r)' => InHand(r)
  BY DEF CommitBeforeRetry, CommitBatch, CommitBeforeClose, Running, InHand,
         clientVars, groupVars
<1>2. /\ \A q \in Replicas : \A p \in assigned[q] : (Covered(q, p))' = Covered(q, p)
      /\ \A q \in Replicas : \A p \in Partitions :
             pending[q][p] = NoOffset => pending'[q][p] = NoOffset
  BY <1>1, CommitCovers
<1>3. \A q \in Replicas : /\ (Running(q)' <=> Running(q))
                           /\ (InHand(q)' => InHand(q))
                           /\ pc'[q] # "hanging"
  BY <1>1 DEF Running, InHand, AssignmentInv
<1>4. AssignmentInv'
  BY <1>1, <1>2, <1>3 DEF AssignmentInv
<1>5. CoverInv'
  BY <1>1, <1>2, CoverKept
<1>6. QED
  BY <1>4, <1>5

\* The other steps of the loop.
LEMMA LoopStep ==
    ASSUME TypeInv, AssignmentInv, CoverInv, NEW r \in Replicas, Loop(r)
    PROVE  AssignmentInv' /\ CoverInv'
<1> USE DEF TypeInv, TypeOK, Locations, Running, InHand
<1> USE DEF loopVars, offsetVars, clientVars, groupVars, serviceVars
<1>1. CASE StartConsumer(r)
  <2>1. assigned[r] = {}
    BY <1>1 DEF StartConsumer, AssignmentInv
  <2>2. AssignmentInv'
    BY <1>1, <2>1 DEF StartConsumer, AssignmentInv, NothingStored
  <2>3. \A q \in Replicas : \A p \in assigned'[q] :
            next'[q][p] = next[q][p] /\ (Covered(q, p))' = Covered(q, p)
    BY <1>1, <2>1 DEF StartConsumer, Covered
  <2>4. CoverInv'
    BY <1>1, <2>3, CoverKept DEF StartConsumer
  <2>5. QED
    BY <2>2, <2>4
<1>2. CASE RetriesSpent(r) \/ RequestFinishes(r) \/ RequestFails(r) \/ AttemptsSpent(r)
  <2>1. /\ UNCHANGED <<msg, assigned, next, member, owner, pending, committed>>
        /\ pc' = [pc EXCEPT ![r] = pc'[r]]
        /\ pc'[r] \in {"exited", "store", "recommit", "calling", "shutdown"}
        /\ InHand(r)' => InHand(r)
        /\ (Running(r)' <=> Running(r))
    BY <1>2 DEF RetriesSpent, RequestFinishes, RequestFails, AttemptsSpent
  <2>2. AssignmentInv'
    BY <2>1 DEF AssignmentInv
  <2>3. CoverInv'
    BY <2>1 DEF CoverInv, Covered
  <2>4. QED
    BY <2>2, <2>3
<1>3. CASE PollMessage(r)
  <2>1. PICK p \in assigned[r] : \E o \in DOMAIN Log[p] :
            msg' = [msg EXCEPT ![r] = <<p, o>>]
    BY <1>3 DEF PollMessage
  <2>2. PICK o \in DOMAIN Log[p] : msg' = [msg EXCEPT ![r] = <<p, o>>]
    BY <2>1
  <2>3. /\ pc[r] = "polling"
        /\ pc' = [pc EXCEPT ![r] = pc'[r]]
        /\ pc'[r] \in {"shutdown", "store", "calling"}
        /\ UNCHANGED <<assigned, next, member, owner, pending, committed>>
    BY <1>3 DEF PollMessage
  <2>4. AssignmentInv'
    BY <2>2, <2>3 DEF AssignmentInv
  <2>5. CoverInv'
    BY <2>3 DEF CoverInv, Covered
  <2>6. QED
    BY <2>4, <2>5
<1>4. CASE CommitBeforeRetry(r) \/ CommitBatch(r) \/ CommitBeforeClose(r)
  BY <1>4, CommittingStep
<1>5. CASE StoreOffset(r)
  <2> DEFINE p == msg[r][1]
             o == msg[r][2]
  <2>1. /\ pc[r] = "store"
        /\ pending' = [pending EXCEPT ![r][p] = o]
        /\ next' = [next EXCEPT ![r][p] = o + 1]
        /\ msg' = [msg EXCEPT ![r] = NoMsg]
        /\ pc' = [pc EXCEPT ![r] = pc'[r]]
        /\ pc'[r] \in {"commit", "polling"}
        /\ UNCHANGED <<assigned, member, owner, committed>>
    BY <1>5 DEF StoreOffset
  <2>2. p \in Partitions /\ o \in Nat /\ p \in assigned[r]
    BY <2>1, PositionParts DEF AssignmentInv
  <2> HIDE DEF p, o
  <2>3. AssignmentInv'
    BY <2>1, <2>2 DEF AssignmentInv
  <2>4. ASSUME NEW q \in Replicas, NEW t \in assigned'[q], NEW k \in DOMAIN Log[t],
               k < next'[q][t]
        PROVE  k <= (Covered(q, t))'
    <3>1. t \in Partitions /\ t \in assigned[q] /\ k \in Nat
      BY <2>1, LogAssumption
    <3>2. CASE q = r /\ t = p
      <4>1. pending'[q][t] = o /\ next'[q][t] = o + 1 /\ o # NoOffset
        BY <2>1, <2>2, <3>2 DEF NoOffset
      <4>2. QED
        BY <2>2, <2>4, <3>1, <4>1 DEF Covered
    <3>3. CASE ~(q = r /\ t = p)
      <4>1. pending'[q][t] = pending[q][t] /\ next'[q][t] = next[q][t]
        BY <2>1, <2>2, <3>1, <3>3
      <4>2. QED
        BY <2>1, <2>4, <3>1, <4>1 DEF Covered, CoverInv
    <3>4. QED
      BY <3>2, <3>3
  <2>5. CoverInv'
    BY <2>4 DEF CoverInv
  <2>6. QED
    BY <2>3, <2>5
<1>6. CASE Close(r)
  <2>1. /\ pc[r] = "closing"
        /\ assigned' = [assigned EXCEPT ![r] = {}]
        /\ next' = [next EXCEPT ![r] = NoPosition]
        /\ member' = [member EXCEPT ![r] = FALSE]
        /\ owner' = Release(r)
        /\ pc' = [pc EXCEPT ![r] = "new"]
        /\ msg' = msg
        /\ RevokedPartitions(r)
    BY <1>6 DEF Close
  <2>2. /\ \A q \in Replicas : \A p \in assigned[q] : (Covered(q, p))' = Covered(q, p)
        /\ \A q \in Replicas : \A p \in Partitions :
               pending[q][p] = NoOffset => pending'[q][p] = NoOffset
    BY <2>1, CommitCovers DEF RevokedPartitions, Covered
  <2>3. AssignmentInv'
    BY <2>1, <2>2 DEF AssignmentInv, Release
  <2>4. CoverInv'
    BY <2>1, <2>2, CoverKept
  <2>5. QED
    BY <2>3, <2>4
<1>7. QED
  BY <1>1, <1>2, <1>3, <1>4, <1>5, <1>6 DEF Loop

\* A partition is handed out to be read from its committed offset, so what
\* comes before is covered.
LEMMA AssignStep ==
    ASSUME TypeInv, AssignmentInv, CoverInv, NEW r \in Replicas,
           NEW P \in SUBSET Partitions, AssignPartitions(r, P)
    PROVE  AssignmentInv' /\ CoverInv'
<1> USE DEF TypeInv, TypeOK, Running, InHand
<1>1. /\ pc[r] = "polling" /\ assigned[r] = {}
      /\ \A p \in P : owner[p] = Nobody
      /\ owner' = [p \in Partitions |-> IF p \in P THEN r ELSE owner[p]]
      /\ assigned' = [assigned EXCEPT ![r] = P]
      /\ next' = [next EXCEPT ![r] =
                    [p \in Partitions |->
                       IF p \in P /\ committed[p] # NoOffset THEN committed[p] ELSE 0]]
      /\ UNCHANGED <<pc, msg, pending, member, committed>>
  BY DEF AssignPartitions, loopVars, offsetVars
<1>2. \A q \in Replicas \ {r} : assigned'[q] \intersect P = {}
  BY <1>1, GroupAssumption DEF AssignmentInv
<1>3. AssignmentInv'
  BY <1>1, <1>2 DEF AssignmentInv
<1>4. ASSUME NEW q \in Replicas, NEW p \in assigned'[q], NEW o \in DOMAIN Log[p],
             o < next'[q][p]
      PROVE  o <= (Covered(q, p))'
  <2>1. p \in Partitions /\ o \in Nat
    BY <1>1, LogAssumption
  <2>2. CASE q = r
    <3>1. pending[r][p] = NoOffset
      BY <1>1, <2>1 DEF AssignmentInv
    <3>2. next'[r][p] = IF committed[p] # NoOffset THEN committed[p] ELSE 0
      BY <1>1, <1>4, <2>1, <2>2
    <3>3. committed[p] \in Nat /\ o < committed[p]
      BY <1>4, <2>1, <2>2, <3>2 DEF Offsets
    <3>4. QED
      BY <1>1, <2>1, <2>2, <3>1, <3>3 DEF Covered
  <2>3. CASE q # r
    <3>1. p \in assigned[q] /\ next'[q][p] = next[q][p]
      BY <1>1, <2>1, <2>3
    <3>2. QED
      BY <1>1, <1>4, <3>1 DEF CoverInv, Covered
  <2>4. QED
    BY <2>2, <2>3
<1>5. CoverInv'
  BY <1>4 DEF CoverInv
<1>6. QED
  BY <1>3, <1>5

\* What happens to the others before a disruption: a member that does not run
\* is dropped, a process starts again.
LEMMA QuietStep ==
    ASSUME TypeInv, AssignmentInv, CoverInv, NEW r \in Replicas,
           \/ LoseAssignment(r)
           \/ PollNothing(r)
           \/ EvictMember(r) /\ ~Running(r)
           \/ RestartProcess(r)
    PROVE  AssignmentInv' /\ CoverInv'
<1> USE DEF TypeInv, TypeOK, Running, InHand
<1> USE DEF loopVars, offsetVars, clientVars, groupVars, serviceVars
<1>1. CASE LoseAssignment(r)
  BY <1>1 DEF LoseAssignment, AssignmentInv
<1>2. CASE PollNothing(r)
  BY <1>2 DEF PollNothing, vars, AssignmentInv, CoverInv, Covered
<1>3. CASE EvictMember(r) /\ ~Running(r)
  <2>1. /\ UNCHANGED <<pc, msg, pending, committed, assigned, next>>
        /\ member' = [member EXCEPT ![r] = FALSE]
        /\ owner' = Release(r)
        /\ assigned[r] = {}
    BY <1>3 DEF EvictMember, AssignmentInv
  <2>2. AssignmentInv'
    BY <1>3, <2>1 DEF AssignmentInv, Release
  <2>3. CoverInv'
    BY <2>1 DEF CoverInv, Covered
  <2>4. QED
    BY <2>2, <2>3
<1>4. CASE RestartProcess(r)
  <2>1. /\ pc[r] = "exited"
        /\ pc' = [pc EXCEPT ![r] = "new"]
        /\ UNCHANGED <<msg, pending, committed, assigned, next, member, owner>>
    BY <1>4 DEF RestartProcess
  <2>2. AssignmentInv' /\ CoverInv'
    BY <2>1 DEF AssignmentInv, CoverInv, Covered
  <2>3. QED
    BY <2>2
<1>5. QED
  BY <1>1, <1>2, <1>3, <1>4

\* Every step keeps the account until a disruption ends it.
LEMMA AccountingNext == TypeInv /\ AccountingInv /\ [Next]_vars => AccountingInv'
<1> SUFFICES ASSUME TypeInv, AccountingInv, [Next]_vars, disruptions' = 0
             PROVE  AssignmentInv' /\ CoverInv'
  BY DEF AccountingInv
<1>1. disruptions \in Nat
  BY DEF TypeInv, TypeOK
<1>2. ~Disrupt
  BY <1>1 DEF Disrupt
<1>3. CASE UNCHANGED vars
  BY <1>3 DEF vars, AccountingInv, AssignmentInv, CoverInv, Covered, Running, InHand
<1>4. ASSUME NEW r \in Replicas, Loop(r)
      PROVE  AssignmentInv' /\ CoverInv'
  <2>1. disruptions' = disruptions
    BY <1>4 DEF Loop, StartConsumer, RetriesSpent, PollMessage, RequestFinishes,
       RequestFails, CommitBeforeRetry, AttemptsSpent, StoreOffset, CommitBatch,
       CommitBeforeClose, Close
  <2>2. QED
    BY <1>4, <2>1, LoopStep DEF AccountingInv
<1>5. ASSUME NEW r \in Replicas, Rebalance(r)
      PROVE  AssignmentInv' /\ CoverInv'
  <2>1. ASSUME NEW P \in SUBSET Partitions, AssignPartitions(r, P)
        PROVE  AssignmentInv' /\ CoverInv'
    BY <2>1, AssignStep DEF AccountingInv, AssignPartitions
  <2>2. CASE RevokePartitions(r)
    BY <1>2, <2>2 DEF RevokePartitions
  <2>3. CASE LoseAssignment(r)
    BY <2>3, QuietStep DEF AccountingInv, LoseAssignment
  <2>4. QED
    BY <1>5, <2>1, <2>2, <2>3 DEF Rebalance
<1>6. ASSUME NEW r \in Replicas, Environment(r)
      PROVE  AssignmentInv' /\ CoverInv'
  <2>1. CASE StartFails(r) \/ StopPolling(r) \/ RequestHangs(r) \/ CloseFails(r)
             \/ Crash(r)
    BY <1>2, <2>1 DEF StartFails, StopPolling, RequestHangs, CloseFails, Crash
  <2>2. CASE EvictMember(r)
    <3>1. pc[r] \in {"new", "exited", "hanging"} /\ disruptions = 0
      BY <1>2, <2>2 DEF EvictMember
    <3>2. ~Running(r) /\ AssignmentInv /\ CoverInv
      BY <3>1 DEF AccountingInv, AssignmentInv, Running
    <3>3. QED
      BY <2>2, <3>2, QuietStep
  <2>3. CASE PollNothing(r)
    BY <2>3, QuietStep DEF AccountingInv, PollNothing, vars
  <2>4. CASE RestartProcess(r)
    BY <2>4, QuietStep DEF AccountingInv, RestartProcess
  <2>5. QED
    BY <1>6, <2>1, <2>2, <2>3, <2>4 DEF Environment
<1>7. QED
  BY <1>3, <1>4, <1>5, <1>6 DEF Next

\* Until the first disruption the offset of a finished message is never
\* dropped: the broker has it, or the next commit brings it.
THEOREM FinishedStaysAccounted == Spec => []OffsetsAccounted
<1>1. AccountingInv => OffsetsAccounted
  BY DEF AccountingInv, CoverInv, Covered, OffsetsAccounted
<1>2. QED
  BY TypeInit, TypeNext, AccountingInit, AccountingNext, <1>1, PTL DEF Spec

-----------------------------------------------------------------------------
(***************************************************************************)
(* As long as no commit failed, through crashes and evictions.  A commit   *)
(* takes no other replica back, because a member has offsets stored only   *)
(* of partitions it owns, and one that is no longer a member cannot        *)
(* commit: it must fail first.                                             *)
(***************************************************************************)
\* What holds of a replica as long as no commit failed.
HandoverOf(r) ==
    /\ ~Running(r) => assigned[r] = {}
    /\ Running(r) =>
        /\ \A p \in Partitions \ assigned[r] : pending[r][p] = NoOffset
        /\ InHand(r) => /\ msg[r][1] \in assigned[r]
                        /\ next[r][msg[r][1]] <= msg[r][2]
        /\ shutdownInProgress[r] => pc[r] = "closing"
        /\ pc[r] = "closing" => pending[r] = NothingStored
        /\ \A p \in assigned[r] :
            /\ pending[r][p] <= next[r][p]
            /\ \A o \in DOMAIN Log[p] : o < next[r][p] => o <= Covered(r, p)
            /\ member[r] => /\ owner[p] = r
                            /\ committed[p] <= next[r][p]
                            /\ pending[r][p] = NoOffset \/ committed[p] <= pending[r][p]

HandoverInv == commitFailures = 0 => \A r \in Replicas : HandoverOf(r)

\* A step that commits nothing that is not finished, and nothing of another
\* member's.
CommitsOwn(r) ==
    /\ pending' = [pending EXCEPT ![r] = NothingStored]
    /\ \A p \in Partitions : committed[p] <= committed'[p]
    /\ \A p \in assigned[r] :
        /\ \A o \in DOMAIN Log[p] : o < next[r][p] => o <= committed'[p]
        /\ member[r] => committed'[p] <= next[r][p]
    /\ \A q \in Replicas \ {r} :
        Running(q) /\ member[q] => \A p \in assigned[q] : committed'[p] = committed[p]

\* A commit that does not fail is such a step.
LEMMA CommitAdvances ==
    ASSUME TypeOK, \A q \in Replicas : HandoverOf(q), NEW r \in Replicas, Running(r),
           CommitStoredOffsets(r), commitFailures' = 0
    PROVE  CommitsOwn(r)
<1> USE DEF TypeOK
<1>1. CASE ~HasOffsets(r) /\ UNCHANGED offsetVars
  <2>1. /\ pending[r] = NothingStored
        /\ pending' = pending /\ committed' = committed
    BY <1>1 DEF HasOffsets, offsetVars
  <2>2. pending' = [pending EXCEPT ![r] = NothingStored]
    BY <2>1
  <2>3. \A p \in Partitions : committed[p] <= committed'[p]
    BY <2>1 DEF Offsets, NoOffset
  <2>4. ASSUME NEW p \in assigned[r]
        PROVE  /\ \A o \in DOMAIN Log[p] : o < next[r][p] => o <= committed'[p]
               /\ member[r] => committed'[p] <= next[r][p]
    <3>1. Covered(r, p) = committed[p]
      BY <2>1 DEF Covered, NothingStored
    <3>2. QED
      BY <2>1, <3>1 DEF HandoverOf
  <2>5. QED
    BY <2>1, <2>2, <2>3, <2>4 DEF CommitsOwn
<1>2. CASE CommitSucceeds(r)
  <2>1. /\ member[r]
        /\ committed' = Overlay(r)
        /\ pending' = [pending EXCEPT ![r] = NothingStored]
    BY <1>2 DEF CommitSucceeds
  <2>2. ASSUME NEW p \in Partitions
        PROVE  /\ committed'[p] = Covered(r, p)
               /\ committed[p] <= committed'[p]
    <3>1. committed'[p] = Covered(r, p)
      BY <2>1 DEF Overlay, Covered
    <3>2. CASE p \in assigned[r]
      BY <2>1, <3>1, <3>2 DEF HandoverOf, Covered, Offsets, NoOffset
    <3>3. CASE p \notin assigned[r]
      <4>1. committed'[p] = committed[p]
        BY <3>1, <3>3 DEF HandoverOf, Covered
      <4>2. committed[p] \in Int
        BY DEF Offsets, NoOffset
      <4>3. QED
        BY <3>1, <4>1, <4>2
    <3>4. QED
      BY <3>1, <3>2, <3>3
  <2>3. ASSUME NEW p \in assigned[r]
        PROVE  /\ \A o \in DOMAIN Log[p] : o < next[r][p] => o <= committed'[p]
               /\ committed'[p] <= next[r][p]
    BY <2>1, <2>2, <2>3 DEF HandoverOf, Covered
  <2>4. ASSUME NEW q \in Replicas \ {r}, Running(q), member[q], NEW p \in assigned[q]
        PROVE  committed'[p] = committed[p]
    <3>1. owner[p] = q /\ p \in Partitions
      BY <2>4 DEF HandoverOf
    <3>2. p \notin assigned[r]
      BY <2>1, <3>1 DEF HandoverOf
    <3>3. QED
      BY <2>2, <3>1, <3>2 DEF HandoverOf, Covered
  <2>5. QED
    BY <2>1, <2>2, <2>3, <2>4 DEF CommitsOwn
<1>3. CASE CommitFails(r)
  <2>1. commitFailures' # 0
    BY <1>3, BoundsAssumption DEF CommitFails
  <2>2. QED
    BY <2>1
<1>4. QED
  BY <1>1, <1>2, <1>3 DEF CommitStoredOffsets

\* The other replicas are none the worse for it.
LEMMA OthersKept ==
    ASSUME TypeOK, TypeOK', NEW r \in Replicas, NEW q \in Replicas \ {r},
           HandoverOf(q), CommitsOwn(r),
           pc'[q] = pc[q], msg'[q] = msg[q], assigned'[q] = assigned[q],
           next'[q] = next[q], member'[q] = member[q],
           shutdownInProgress'[q] = shutdownInProgress[q],
           \A p \in Partitions : owner[p] = q => owner'[p] = q
    PROVE  HandoverOf(q)'
<1> USE DEF TypeOK, Offsets, NoOffset
<1>1. pending'[q] = pending[q]
  BY DEF CommitsOwn
<1>2. CASE ~Running(q)
  BY <1>2 DEF HandoverOf, Running
<1>3. CASE Running(q)
  <2>1. ASSUME NEW p \in assigned[q], NEW o \in DOMAIN Log[p], o < next[q][p]
        PROVE  o <= (Covered(q, p))'
    <3>1. p \in Partitions /\ o \in Nat /\ o <= Covered(q, p)
      BY <1>3, <2>1, LogAssumption DEF HandoverOf
    <3>2. committed[p] <= committed'[p]
      BY <3>1 DEF CommitsOwn
    <3>3. committed[p] \in Int /\ committed'[p] \in Int
      BY <3>1
    <3>4. CASE pending[q][p] = NoOffset
      <4>1. o <= committed[p] /\ (Covered(q, p))' = committed'[p]
        BY <1>1, <3>1, <3>4 DEF Covered
      <4>2. QED
        BY <3>1, <3>2, <3>3, <4>1
    <3>5. CASE pending[q][p] # NoOffset
      BY <1>1, <3>1, <3>5 DEF Covered
    <3>6. QED
      BY <3>4, <3>5
  <2>2. member[q] => \A p \in assigned[q] : committed'[p] = committed[p]
    BY <1>3 DEF CommitsOwn
  <2>3. QED
    BY <1>1, <1>3, <2>1, <2>2 DEF HandoverOf, Running, InHand
<1>4. QED
  BY <1>2, <1>3

\* A step that commits nothing leaves the others as they are.
LEMMA OthersStill ==
    ASSUME NEW r \in Replicas, NEW q \in Replicas \ {r}, HandoverOf(q),
           committed' = committed, pending'[q] = pending[q],
           pc'[q] = pc[q], msg'[q] = msg[q], assigned'[q] = assigned[q],
           next'[q] = next[q], member'[q] = member[q],
           shutdownInProgress'[q] = shutdownInProgress[q],
           \A p \in assigned[q] : owner[p] = q => owner'[p] = q
    PROVE  HandoverOf(q)'
  BY DEF HandoverOf, Running, InHand, Covered

\* What every step does, as long as no commit failed: the two properties, and
\* the invariant.
HandsOver ==
    /\ \A q \in Replicas : HandoverOf(q)'
    /\ \A p \in Partitions : committed[p] <= committed'[p]
    /\ \A q \in Replicas : \A p \in assigned[q] :
        (p \notin assigned'[q] /\ pc'[q] # "exited") =>
            \A o \in DOMAIN Log[p] : o < next[q][p] => o <= committed'[p]

\* Steps that commit nothing and take no partition from a replica at work.
LEMMA StillHandsOver ==
    ASSUME TypeOK, \A q \in Replicas : HandoverOf(q), NEW r \in Replicas,
           committed' = committed,
           assigned[r] \subseteq assigned'[r] \/ pc'[r] = "exited",
           HandoverOf(r)',
           \A q \in Replicas \ {r} :
               /\ pending'[q] = pending[q] /\ pc'[q] = pc[q] /\ msg'[q] = msg[q]
               /\ assigned'[q] = assigned[q] /\ next'[q] = next[q]
               /\ member'[q] = member[q]
               /\ shutdownInProgress'[q] = shutdownInProgress[q]
               /\ \A p \in assigned[q] : owner[p] = q => owner'[p] = q
    PROVE  HandsOver
<1>1. \A q \in Replicas : HandoverOf(q)'
  BY OthersStill
<1>2. \A p \in Partitions : committed[p] \in Int
  BY DEF TypeOK, Offsets, NoOffset
<1>3. \A q \in Replicas : assigned[q] \subseteq assigned'[q] \/ pc'[q] = "exited"
  OBVIOUS
<1>4. QED
  BY <1>1, <1>2, <1>3 DEF HandsOver

\* Steps of the loop that store and commit nothing.
LEMMA ProgramHandsOver ==
    ASSUME TypeInv, \A q \in Replicas : HandoverOf(q), NEW r \in Replicas,
           \/ RetriesSpent(r) \/ RequestFinishes(r) \/ RequestFails(r)
           \/ AttemptsSpent(r) \/ StopPolling(r) \/ RequestHangs(r)
           \/ StartFails(r) \/ RestartProcess(r)
    PROVE  HandsOver
<1> USE DEF TypeInv, TypeOK, Running, InHand
<1> USE DEF offsetVars, clientVars, groupVars
<1>1. /\ UNCHANGED <<msg, assigned, next, member, owner, pending, committed,
                     shutdownInProgress>>
      /\ pc' = [pc EXCEPT ![r] = pc'[r]]
      /\ pc'[r] \in {"new", "exited", "store", "recommit", "calling", "shutdown", "hanging"}
      /\ InHand(r)' => InHand(r)
      /\ Running(r)' <=> Running(r)
      /\ pc[r] # "closing"
  BY DEF RetriesSpent, RequestFinishes, RequestFails, AttemptsSpent, StopPolling,
     RequestHangs, StartFails, RestartProcess
<1>2. HandoverOf(r)'
  BY <1>1 DEF HandoverOf, Covered
<1>3. QED
  BY <1>1, <1>2, StillHandsOver

\* A consumer starts empty-handed.
LEMMA StartHandsOver ==
    ASSUME TypeInv, \A q \in Replicas : HandoverOf(q), NEW r \in Replicas,
           StartConsumer(r)
    PROVE  HandsOver
<1> USE DEF TypeInv, TypeOK, Running, InHand
<1>1. /\ pc' = [pc EXCEPT ![r] = "polling"]
      /\ msg' = [msg EXCEPT ![r] = NoMsg]
      /\ pending' = [pending EXCEPT ![r] = NothingStored]
      /\ shutdownInProgress' = [shutdownInProgress EXCEPT ![r] = FALSE]
      /\ member' = [member EXCEPT ![r] = TRUE]
      /\ UNCHANGED <<assigned, next, owner, committed>>
      /\ assigned[r] = {}
  BY DEF StartConsumer, clientVars, HandoverOf
<1>2. HandoverOf(r)'
  BY <1>1 DEF HandoverOf, NothingStored
<1>3. QED
  BY <1>1, <1>2, StillHandsOver

\* What is polled follows what was read.
LEMMA PollHandsOver ==
    ASSUME TypeInv, \A q \in Replicas : HandoverOf(q), NEW r \in Replicas,
           PollMessage(r)
    PROVE  HandsOver
<1> USE DEF TypeInv, TypeOK, Running, InHand
<1>1. PICK p \in assigned[r] : \E o \in DOMAIN Log[p] :
          msg' = [msg EXCEPT ![r] = <<p, o>>] /\ next[r][p] <= o
  BY DEF PollMessage, IsNext
<1>2. PICK o \in DOMAIN Log[p] : msg' = [msg EXCEPT ![r] = <<p, o>>] /\ next[r][p] <= o
  BY <1>1
<1>3. /\ pc[r] = "polling"
      /\ pc' = [pc EXCEPT ![r] = pc'[r]]
      /\ pc'[r] \in {"shutdown", "store", "calling"}
      /\ UNCHANGED <<assigned, next, member, owner, pending, committed,
                     shutdownInProgress>>
  BY DEF PollMessage, offsetVars, clientVars, groupVars
<1>4. HandoverOf(r)'
  <2>1. msg'[r][1] = p /\ msg'[r][2] = o
    BY <1>2
  <2>2. Running(r) /\ Running(r)' /\ ~shutdownInProgress[r]
    BY <1>3 DEF HandoverOf
  <2>3. \A t \in assigned[r] : (Covered(r, t))' = Covered(r, t)
    BY <1>3 DEF Covered
  <2> HIDE DEF Running, InHand
  <2>4. QED
    BY <1>2, <1>3, <2>1, <2>2, <2>3 DEF HandoverOf
<1>5. QED
  BY <1>2, <1>3, <1>4, StillHandsOver

\* A finished message is stored after what was read and committed before it.
LEMMA StoreHandsOver ==
    ASSUME TypeInv, \A q \in Replicas : HandoverOf(q), NEW r \in Replicas,
           StoreOffset(r)
    PROVE  HandsOver
<1> USE DEF TypeInv, TypeOK, Running, InHand
<1>a. /\ pc[r] = "store"
      /\ msg[r] \in Positions
      /\ msg[r][1] \in assigned[r] /\ next[r][msg[r][1]] <= msg[r][2]
  BY DEF StoreOffset, HandoverOf
<1>b. PICK p \in Partitions : p = msg[r][1]
  BY <1>a
<1>c. PICK o \in Nat : o = msg[r][2]
  BY <1>a, PositionParts
<1>1. /\ pending' = [pending EXCEPT ![r][p] = o]
      /\ next' = [next EXCEPT ![r][p] = o + 1]
      /\ msg' = [msg EXCEPT ![r] = NoMsg]
      /\ pc[r] = "store"
      /\ pc' = [pc EXCEPT ![r] = pc'[r]]
      /\ pc'[r] \in {"commit", "polling"}
      /\ UNCHANGED <<assigned, member, owner, committed, shutdownInProgress>>
  BY <1>b, <1>c DEF StoreOffset, groupVars
<1>2. p \in Partitions /\ o \in Nat /\ p \in assigned[r] /\ next[r][p] <= o
  BY <1>a, <1>b, <1>c
<1>3. ASSUME NEW t \in assigned[r], t # p
      PROVE  pending'[r][t] = pending[r][t] /\ next'[r][t] = next[r][t]
  BY <1>1, <1>2, <1>3
<1>4. pending'[r][p] = o /\ next'[r][p] = o + 1 /\ o # NoOffset
  BY <1>1, <1>2 DEF NoOffset
<1>5. /\ pending'[r][p] <= next'[r][p]
      /\ \A k \in DOMAIN Log[p] : k < next'[r][p] => k <= (Covered(r, p))'
      /\ member[r] => committed[p] <= next'[r][p] /\ committed[p] <= pending'[r][p]
  <2>1. (Covered(r, p))' = o
    BY <1>4 DEF Covered
  <2>2. \A k \in DOMAIN Log[p] : k < o + 1 => k <= o
    BY <1>2, LogAssumption
  <2>3. member[r] => committed[p] <= next[r][p]
    BY <1>1, <1>2 DEF HandoverOf
  <2>4. committed[p] \in Int /\ next[r][p] \in Nat
    BY <1>2 DEF Offsets, NoOffset
  <2>5. QED
    BY <1>2, <1>4, <2>1, <2>2, <2>3, <2>4
<1>6. ASSUME NEW t \in assigned[r], t # p
      PROVE  /\ pending'[r][t] <= next'[r][t]
             /\ \A k \in DOMAIN Log[t] : k < next'[r][t] => k <= (Covered(r, t))'
             /\ member[r] => /\ owner[t] = r
                             /\ committed[t] <= next'[r][t]
                             /\ pending'[r][t] = NoOffset \/ committed[t] <= pending'[r][t]
  <2>1. /\ pending[r][t] <= next[r][t]
        /\ \A k \in DOMAIN Log[t] : k < next[r][t] => k <= Covered(r, t)
        /\ member[r] => /\ owner[t] = r
                        /\ committed[t] <= next[r][t]
                        /\ pending[r][t] = NoOffset \/ committed[t] <= pending[r][t]
    BY <1>1, <1>6 DEF HandoverOf
  <2>2. (Covered(r, t))' = Covered(r, t)
    BY <1>1, <1>3, <1>6 DEF Covered
  <2>3. pending'[r][t] = pending[r][t] /\ next'[r][t] = next[r][t]
    BY <1>3, <1>6
  <2>4. QED
    BY <2>1, <2>2, <2>3
<1>7. member[r] => owner[p] = r
  BY <1>1, <1>2 DEF HandoverOf
<1>8. \A t \in Partitions \ assigned[r] : pending'[r][t] = NoOffset
  <2>1. ASSUME NEW t \in Partitions \ assigned[r]
        PROVE  pending'[r][t] = NoOffset
    <3>1. pending[r][t] = NoOffset
      BY <1>1 DEF HandoverOf
    <3>2. t # p
      BY <1>2
    <3>3. QED
      BY <1>1, <3>1, <3>2
  <2>2. QED
    BY <2>1
<1>9. ~shutdownInProgress[r]
  BY <1>1 DEF HandoverOf
<1>10. HandoverOf(r)'
  BY <1>1, <1>5, <1>6, <1>7, <1>8, <1>9 DEF HandoverOf
<1>11. QED
  BY <1>1, <1>10, StillHandsOver

\* Commits of the loop and before Close.
LEMMA CommitHandsOver ==
    ASSUME TypeInv, TypeInv', \A q \in Replicas : HandoverOf(q), NEW r \in Replicas,
           CommitBeforeRetry(r) \/ CommitBatch(r) \/ CommitBeforeClose(r),
           commitFailures' = 0
    PROVE  HandsOver
<1> USE DEF TypeInv
<1>1. /\ pc[r] \in {"recommit", "commit", "shutdown"}
      /\ pc' = [pc EXCEPT ![r] = pc'[r]]
      /\ pc'[r] \in {"calling", "polling", "closing"}
      /\ InHand(r)' => InHand(r)
      /\ CommitStoredOffsets(r)
      /\ UNCHANGED <<msg, assigned, next, member, owner>>
      /\ shutdownInProgress' = [shutdownInProgress EXCEPT ![r] = shutdownInProgress'[r]]
      /\ shutdownInProgress'[r] => shutdownInProgress[r] \/ pc'[r] = "closing"
  BY DEF TypeOK, CommitBeforeRetry, CommitBatch, CommitBeforeClose, InHand,
     clientVars, groupVars
<1>2. Running(r) /\ Running(r)' /\ ~shutdownInProgress[r]
  BY <1>1 DEF Running, HandoverOf
<1>3. CommitsOwn(r)
  BY <1>1, <1>2, CommitAdvances
<1>4. pending'[r] = NothingStored
  BY <1>3 DEF CommitsOwn, TypeOK
<1>5. ASSUME NEW p \in assigned[r]
      PROVE  /\ pending'[r][p] <= next[r][p]
             /\ \A o \in DOMAIN Log[p] : o < next[r][p] => o <= (Covered(r, p))'
             /\ member[r] => owner[p] = r /\ committed'[p] <= next[r][p]
  <2>1. p \in Partitions /\ next[r][p] \in Nat
    BY DEF TypeOK
  <2>2. pending'[r][p] = NoOffset /\ (Covered(r, p))' = committed'[p]
    BY <1>4, <2>1 DEF NothingStored, Covered
  <2>3. pending'[r][p] <= next[r][p]
    BY <2>1, <2>2 DEF NoOffset
  <2>4. QED
    BY <1>2, <1>3, <2>2, <2>3 DEF CommitsOwn, HandoverOf
<1>6. HandoverOf(r)'
  <2>1. \A p \in Partitions : pending'[r][p] = NoOffset
    BY <1>4 DEF NothingStored
  <2>2. InHand(r)' => /\ msg[r][1] \in assigned[r]
                     /\ next[r][msg[r][1]] <= msg[r][2]
    BY <1>1, <1>2 DEF HandoverOf
  <2>3. shutdownInProgress'[r] => pc'[r] = "closing"
    BY <1>1, <1>2
  <2>4. InHand(r)' => /\ msg'[r][1] \in assigned'[r]
                      /\ next'[r][msg'[r][1]] <= msg'[r][2]
    BY <1>1, <2>2
  <2>5. assigned'[r] = assigned[r] /\ next'[r] = next[r]
        /\ member'[r] = member[r] /\ owner' = owner
    BY <1>1
  <2>6. \A p \in assigned'[r] :
            /\ pending'[r][p] <= next'[r][p]
            /\ \A o \in DOMAIN Log[p] : o < next'[r][p] => o <= (Covered(r, p))'
            /\ member'[r] => /\ owner'[p] = r
                             /\ committed'[p] <= next'[r][p]
                             /\ pending'[r][p] = NoOffset \/ committed'[p] <= pending'[r][p]
    BY <1>5, <2>1, <2>5 DEF TypeOK
  <2>7. QED
    BY <1>2, <1>4, <2>1, <2>3, <2>4, <2>5, <2>6 DEF HandoverOf
<1>7. ASSUME NEW q \in Replicas \ {r}
      PROVE  HandoverOf(q)'
  <2>1. pc'[q] = pc[q] /\ shutdownInProgress'[q] = shutdownInProgress[q]
    BY <1>1, <1>7 DEF TypeOK
  <2>2. QED
    BY <1>1, <1>3, <2>1, OthersKept
<1>8. QED
  BY <1>1, <1>3, <1>6, <1>7 DEF HandsOver, CommitsOwn

\* Partitions are given up: nothing is stored any more, and everything finished
\* is committed.
GivesUp(r) ==
    /\ Running(r)
    /\ CommitsOwn(r)
    /\ assigned' = [assigned EXCEPT ![r] = {}]
    /\ next' = [next EXCEPT ![r] = NoPosition]
    /\ pc' = [pc EXCEPT ![r] = pc'[r]]
    /\ pc'[r] \in {"polling", "new"}
    /\ pc'[r] = "polling" => ~shutdownInProgress[r]
    /\ UNCHANGED <<msg, shutdownInProgress>>
    /\ \A q \in Replicas \ {r} :
           /\ member'[q] = member[q]
           /\ \A p \in Partitions : owner[p] = q => owner'[p] = q

\* What is given up so is handed over clean.
LEMMA GivesUpClean ==
    ASSUME TypeInv, TypeInv', \A q \in Replicas : HandoverOf(q), NEW r \in Replicas,
           GivesUp(r)
    PROVE  HandsOver
<1> USE DEF TypeInv, GivesUp
<1>1. /\ assigned'[r] = {}
      /\ pending'[r] = NothingStored
      /\ ~InHand(r)'
      /\ Running(r)' => pc'[r] = "polling" /\ ~shutdownInProgress'[r]
  BY DEF TypeOK, CommitsOwn, InHand, Running
<1>2. HandoverOf(r)'
  BY <1>1 DEF HandoverOf, NothingStored
<1>3. ASSUME NEW q \in Replicas \ {r}
      PROVE  HandoverOf(q)' /\ assigned'[q] = assigned[q]
  <2>1. pc'[q] = pc[q] /\ assigned'[q] = assigned[q] /\ next'[q] = next[q]
    BY <1>3 DEF TypeOK
  <2>2. QED
    BY <2>1, OthersKept
<1>4. QED
  BY <1>1, <1>2, <1>3 DEF HandsOver, CommitsOwn

\* A consumer that closes, a rebalance, and an assignment that was lost.
LEMMA GivingUpHandsOver ==
    ASSUME TypeInv, TypeInv', \A q \in Replicas : HandoverOf(q), NEW r \in Replicas,
           Close(r) \/ RevokePartitions(r) \/ LoseAssignment(r),
           commitFailures' = 0
    PROVE  HandsOver
<1> USE DEF TypeInv
<1>1. CASE Close(r)
  <2>1. Running(r) /\ pending[r] = NothingStored
    BY <1>1 DEF Close, Running, HandoverOf
  <2>2. CommitStoredOffsets(r)
    BY <1>1, <2>1 DEF Close, RevokedPartitions, CommitStoredOffsets, HasOffsets
  <2>3. GivesUp(r)
    <3>1. CommitsOwn(r)
      BY <2>1, <2>2, CommitAdvances
    <3>2. QED
      BY <1>1, <2>1, <3>1 DEF Close, GivesUp, TypeOK, Release
  <2>4. QED
    BY <2>3, GivesUpClean
<1>2. CASE RevokePartitions(r)
  <2>1. Running(r) /\ ~shutdownInProgress[r]
    BY <1>2 DEF RevokePartitions, Running, HandoverOf
  <2>2. CommitsOwn(r)
    BY <1>2, <2>1, CommitAdvances DEF RevokePartitions, RevokedPartitions
  <2>3. GivesUp(r)
    BY <1>2, <2>1, <2>2 DEF RevokePartitions, loopVars, GivesUp, TypeOK, Release
  <2>4. QED
    BY <2>3, GivesUpClean
<1>3. CASE LoseAssignment(r)
  <2>1. Running(r) /\ ~shutdownInProgress[r]
    BY <1>3 DEF LoseAssignment, Running, HandoverOf
  <2>2. CommitStoredOffsets(r)
    <3>1. CASE assigned[r] = {}
      <4>1. pending[r] = NothingStored
        BY <2>1, <3>1 DEF HandoverOf, NothingStored, TypeOK
      <4>2. QED
        BY <1>3, <3>1, <4>1 DEF LoseAssignment, CommitStoredOffsets, HasOffsets
    <3>2. CASE assigned[r] # {}
      BY <1>3, <2>1, <3>2 DEF LoseAssignment, RevokedPartitions
    <3>3. QED
      BY <3>1, <3>2
  <2>3. CommitsOwn(r)
    BY <2>1, <2>2, CommitAdvances
  <2>4. GivesUp(r)
    BY <1>3, <2>1, <2>3 DEF LoseAssignment, loopVars, GivesUp, TypeOK
  <2>5. QED
    BY <2>4, GivesUpClean
<1>4. QED
  BY <1>1, <1>2, <1>3

\* Partitions are handed out, each to one member.
LEMMA AssignHandsOver ==
    ASSUME TypeInv, \A q \in Replicas : HandoverOf(q), NEW r \in Replicas,
           NEW P \in SUBSET Partitions, AssignPartitions(r, P)
    PROVE  HandsOver
<1> USE DEF TypeInv, TypeOK
<1>1. /\ pc[r] = "polling" /\ assigned[r] = {}
      /\ \A p \in P : owner[p] = Nobody
      /\ owner' = [p \in Partitions |-> IF p \in P THEN r ELSE owner[p]]
      /\ assigned' = [assigned EXCEPT ![r] = P]
      /\ next' = [next EXCEPT ![r] =
                    [p \in Partitions |->
                       IF p \in P /\ committed[p] # NoOffset THEN committed[p] ELSE 0]]
      /\ UNCHANGED <<pc, msg, pending, member, committed, shutdownInProgress>>
  BY DEF AssignPartitions, loopVars, offsetVars
<1>2. Running(r) /\ ~InHand(r) /\ ~shutdownInProgress[r]
  BY <1>1 DEF Running, InHand, HandoverOf
<1>3. \A p \in Partitions : pending[r][p] = NoOffset
  BY <1>1, <1>2 DEF HandoverOf
<1>4. ASSUME NEW p \in P
      PROVE  /\ pending[r][p] <= next'[r][p]
             /\ \A o \in DOMAIN Log[p] : o < next'[r][p] => o <= (Covered(r, p))'
             /\ owner'[p] = r
             /\ committed[p] <= next'[r][p]
  <2>1. next'[r][p] = IF committed[p] # NoOffset THEN committed[p] ELSE 0
    BY <1>1
  <2>2. (Covered(r, p))' = committed[p]
    BY <1>1, <1>3 DEF Covered
  <2>3. committed[p] \in Nat \union {NoOffset} /\ pending[r][p] = NoOffset
    BY <1>3 DEF Offsets
  <2>4. \A o \in DOMAIN Log[p] : o \in Nat
    BY LogAssumption
  <2>5. QED
    BY <1>1, <2>1, <2>2, <2>3, <2>4 DEF NoOffset
<1>5. HandoverOf(r)'
  <2>1. assigned'[r] = P
    BY <1>1
  <2>2. Running(r)' /\ ~InHand(r)' /\ ~shutdownInProgress'[r] /\ pc'[r] # "closing"
    BY <1>1, <1>2 DEF Running, InHand
  <2>3. QED
    BY <1>1, <1>3, <1>4, <2>1, <2>2 DEF HandoverOf
<1>6. ASSUME NEW q \in Replicas \ {r}
      PROVE  /\ assigned'[q] = assigned[q] /\ next'[q] = next[q]
             /\ \A p \in assigned[q] : owner[p] = q => owner'[p] = q
  BY <1>1, <1>6, GroupAssumption
<1>7. QED
  BY <1>1, <1>5, <1>6, StillHandsOver

\* A member is dropped, a consumer that cannot be closed or a process ends.
LEMMA EndHandsOver ==
    ASSUME TypeInv, \A q \in Replicas : HandoverOf(q), NEW r \in Replicas,
           PollNothing(r) \/ EvictMember(r) \/ CloseFails(r) \/ Crash(r)
    PROVE  HandsOver
<1> USE DEF TypeInv, TypeOK
<1>1. CASE PollNothing(r)
  <2>1. /\ UNCHANGED <<pc, msg, pending, member, owner, committed, assigned, next,
                       shutdownInProgress>>
    BY <1>1 DEF PollNothing, vars
  <2>2. HandoverOf(r)'
    BY <2>1 DEF HandoverOf, Running, InHand, Covered
  <2>3. QED
    BY <2>1, <2>2, StillHandsOver
<1>2. CASE EvictMember(r)
  <2>1. /\ UNCHANGED <<pc, msg, pending, committed, assigned, next,
                       shutdownInProgress>>
        /\ member' = [member EXCEPT ![r] = FALSE]
        /\ owner' = Release(r)
    BY <1>2 DEF EvictMember, loopVars, offsetVars, clientVars
  <2>2. HandoverOf(r)'
    BY <2>1 DEF HandoverOf, Running, InHand, Covered
  <2>3. \A q \in Replicas \ {r} : \A p \in assigned[q] : owner[p] = q => owner'[p] = q
    BY <2>1 DEF Release
  <2>4. QED
    BY <2>1, <2>2, <2>3, StillHandsOver
<1>3. CASE CloseFails(r) \/ Crash(r)
  <2>1. /\ pc' = [pc EXCEPT ![r] = "exited"]
        /\ assigned' = [assigned EXCEPT ![r] = {}]
        /\ next' = [next EXCEPT ![r] = NoPosition]
        /\ UNCHANGED <<msg, pending, committed, member, owner, shutdownInProgress>>
    BY <1>3 DEF CloseFails, Crash, offsetVars, groupVars
  <2>2. HandoverOf(r)'
    BY <2>1 DEF HandoverOf, Running
  <2>3. QED
    BY <2>1, <2>2, StillHandsOver
<1>4. QED
  BY <1>1, <1>2, <1>3

\* Every step.
LEMMA HandoverStep ==
    ASSUME TypeInv, TypeInv', HandoverInv, [Next]_vars, commitFailures' = 0
    PROVE  UNCHANGED vars \/ HandsOver
<1>1. commitFailures = 0
  <2>1. CASE UNCHANGED vars
    BY <2>1 DEF vars
  <2>2. ASSUME NEW r \in Replicas, CommitStoredOffsets(r)
        PROVE  commitFailures = 0
    BY <2>2, BoundsAssumption
    DEF CommitStoredOffsets, CommitSucceeds, CommitFails, offsetVars, TypeInv, TypeOK
  <2>3. ASSUME NEW r \in Replicas, Loop(r)
        PROVE  commitFailures = 0
    BY <2>2, <2>3
    DEF Loop, StartConsumer, RetriesSpent, PollMessage, RequestFinishes,
        RequestFails, CommitBeforeRetry, AttemptsSpent, StoreOffset, CommitBatch,
        CommitBeforeClose, Close, RevokedPartitions, offsetVars
  <2>4. ASSUME NEW r \in Replicas, Rebalance(r)
        PROVE  commitFailures = 0
    BY <2>2, <2>4
    DEF Rebalance, AssignPartitions, RevokePartitions, LoseAssignment,
        RevokedPartitions, offsetVars
  <2>5. ASSUME NEW r \in Replicas, Environment(r)
        PROVE  commitFailures = 0
    BY <2>5
    DEF Environment, PollNothing, StartFails, StopPolling, RequestHangs,
        CloseFails, EvictMember, Crash, RestartProcess, offsetVars, vars
  <2>6. QED
    BY <2>1, <2>3, <2>4, <2>5 DEF Next
<1>2. \A q \in Replicas : HandoverOf(q)
  BY <1>1 DEF HandoverInv
<1>3. ASSUME NEW r \in Replicas, Loop(r)
      PROVE  HandsOver
  BY <1>2, <1>3, ProgramHandsOver, StartHandsOver, PollHandsOver, StoreHandsOver,
     CommitHandsOver, GivingUpHandsOver DEF Loop
<1>4. ASSUME NEW r \in Replicas, Rebalance(r)
      PROVE  HandsOver
  BY <1>2, <1>4, AssignHandsOver, GivingUpHandsOver DEF Rebalance
<1>5. ASSUME NEW r \in Replicas, Environment(r)
      PROVE  HandsOver
  BY <1>2, <1>5, ProgramHandsOver, EndHandsOver DEF Environment
<1>6. QED
  BY <1>3, <1>4, <1>5 DEF Next

\* The first state.
LEMMA HandoverInit == Init => HandoverInv
  BY DEF Init, HandoverInv, HandoverOf, Running

\* The invariant holds from one state to the next.
LEMMA HandoverNext == TypeInv /\ TypeInv' /\ HandoverInv /\ [Next]_vars => HandoverInv'
<1> SUFFICES ASSUME TypeInv, TypeInv', HandoverInv, [Next]_vars, commitFailures' = 0
             PROVE  \A q \in Replicas : HandoverOf(q)'
  BY DEF HandoverInv
<1>1. CASE UNCHANGED vars
  BY <1>1 DEF vars, HandoverInv, HandoverOf, Running, InHand, Covered
<1>2. CASE HandsOver
  BY <1>2 DEF HandsOver
<1>3. QED
  BY <1>1, <1>2, HandoverStep

\* Without a failed commit no committed offset ever goes back.
THEOREM CommitsOnlyAdvance == Spec => CommitsAdvance
<1>1. TypeInv /\ TypeInv' /\ HandoverInv /\ [Next]_vars =>
          [commitFailures' = 0 =>
              \A p \in Partitions : committed'[p] >= committed[p]]_vars
  <2> SUFFICES ASSUME TypeInv, TypeInv', HandoverInv, [Next]_vars,
                      commitFailures' = 0, NEW p \in Partitions, ~UNCHANGED vars
               PROVE  committed'[p] >= committed[p]
    OBVIOUS
  <2>1. committed[p] <= committed'[p]
    BY HandoverStep DEF HandsOver
  <2>2. committed[p] \in Int /\ committed'[p] \in Int
    BY DEF TypeInv, TypeOK, Offsets, NoOffset
  <2>3. QED
    BY <2>1, <2>2
<1>2. QED
  BY TypeInit, TypeNext, HandoverInit, HandoverNext, <1>1, PTL
  DEF Spec, CommitsAdvance

\* Without a failed commit a replica that gives a partition up while it runs
\* has committed everything it finished.
THEOREM HandsOverClean == Spec => CleanHandover
<1>1. TypeInv /\ TypeInv' /\ HandoverInv /\ [Next]_vars =>
          [\A r \in Replicas : \A p \in assigned[r] :
              (p \notin assigned'[r] /\ pc'[r] # "exited" /\ commitFailures' = 0) =>
                  \A o \in DOMAIN Log[p] : o < next[r][p] => o <= committed'[p]]_vars
  BY HandoverStep DEF HandsOver
<1>2. QED
  BY TypeInit, TypeNext, HandoverInit, HandoverNext, <1>1, PTL
  DEF Spec, CleanHandover

=============================================================================
