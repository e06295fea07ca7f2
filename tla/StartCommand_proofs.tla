------------------------- MODULE StartCommand_proofs -------------------------
(***************************************************************************)
(* No message is lost to a signal or to the panic of a shutdown: for every *)
(* number of processes, every log and every set of options.                *)
(***************************************************************************)
EXTENDS StartCommand, InventoryConsumer_proofs

\* What the process does to its consumer is a step of the consumer, or stops
\* it where it is.
Stops(r) ==
    /\ pc' = [pc EXCEPT ![r] = pc'[r]]
    /\ pc'[r] \in {"exited", pc[r]} \/ (pc[r] = "polling" /\ pc'[r] = "shutdown")
    /\ \/ UNCHANGED clientVars
       \/ /\ assigned' = [assigned EXCEPT ![r] = {}]
          /\ next' = [next EXCEPT ![r] = NoPosition]
    /\ UNCHANGED <<retries, msg, attempts, shutdownInProgress, offsetVars,
                   groupVars, serviceVars>>
    /\ disruptions' \in Nat

\* Every step is one of the two.
LEMMA StartSteps ==
    ASSUME TypeInv, [StartNext]_<<vars, startVars>>
    PROVE  [Next]_vars \/ \E r \in Replicas : Stops(r)
<1> USE DEF TypeInv, TypeOK
<1>1. CASE UNCHANGED <<vars, startVars>>
  BY <1>1
<1>2. ASSUME NEW r \in Replicas, Start(r) \/ Standby(r)
      PROVE  UNCHANGED vars
  BY <1>2 DEF Start, Standby
<1>3. ASSUME NEW r \in Replicas, RunStep(r) \/ RestartContainer(r) \/ CoordinatorStep(r)
      PROVE  Next
  BY <1>3 DEF RunStep, RestartContainer, CoordinatorStep, Next, Environment
<1>4. ASSUME NEW r \in Replicas, SetupFails(r) \/ Terminate(r)
      PROVE  Stops(r)
  BY <1>4 DEF SetupFails, Terminate, Disrupt, Stops
<1>5. ASSUME NEW r \in Replicas, ConsumeTakesSignal(r)
      PROVE  Stops(r)
  BY <1>5 DEF ConsumeTakesSignal, Stops
<1>6. ASSUME NEW r \in Replicas, ShutdownPanics(r)
      PROVE  Stops(r)
  BY <1>6 DEF ShutdownPanics, Stops
<1>7. QED
  BY <1>1, <1>2, <1>3, <1>4, <1>5, <1>6 DEF StartNext

\* A consumer that is stopped where it is has lost nothing.
LEMMA StopsSafely ==
    ASSUME TypeInv, DeliveryInv, NEW r \in Replicas, Stops(r)
    PROVE  TypeInv' /\ DeliveryInv'
<1> USE DEF TypeInv, TypeOK, Stops, InHand, offsetVars, clientVars, groupVars,
            serviceVars
<1>1. TypeInv'
  <2>1. /\ \A q \in Replicas : pc'[q] \notin {"new", "exited"} =>
                pc[q] \notin {"new", "exited"}
        /\ \A q \in Replicas : InHand(q)' => InHand(q)
    OBVIOUS
  <2>2. TypeOK'
    <3>1. /\ pc' \in [Replicas -> Locations]
          /\ UNCHANGED <<retries, msg, attempts, shutdownInProgress, pending,
                         committed, commitFailures, member, owner, resolved,
                         inventory>>
          /\ disruptions' \in Nat
      <4>1. pc'[r] \in Locations
        BY DEF Locations
      <4>2. pc' \in [Replicas -> Locations]
        BY <4>1
      <4>3. QED
        BY <4>2
    <3>2. CASE UNCHANGED clientVars
      BY <3>1, <3>2
    <3>3. CASE /\ assigned' = [assigned EXCEPT ![r] = {}]
               /\ next' = [next EXCEPT ![r] = NoPosition]
      BY <3>1, <3>3 DEF NoPosition
    <3>4. QED
      BY <3>2, <3>3
  <2>3. QED
    BY <2>1, <2>2
<1>2. ReadsOnOnly
  <2>1. CASE UNCHANGED clientVars
    BY <2>1 DEF ReadsOnOnly
  <2>2. CASE next' = [next EXCEPT ![r] = NoPosition]
    BY <2>2 DEF ReadsOnOnly, NoPosition
  <2>3. QED
    BY <2>1, <2>2
<1>3. HoldsOnOnly
  BY DEF HoldsOnOnly
<1>4. OffsetsMoveOnly
  BY DEF OffsetsMoveOnly
<1>5. QED
  BY <1>1, <1>2, <1>3, <1>4, DeliveryStays

\* No message is lost to a signal or to the panic that follows: delivery is at
\* least once whatever ends the process.
THEOREM NoLossInProcess == StartSpec => []NoLoss
<1>1. StartInit => TypeInv /\ DeliveryInv
  BY TypeInit, DeliveryInit DEF StartInit
<1>2. TypeInv /\ DeliveryInv /\ [StartNext]_<<vars, startVars>>
        => TypeInv' /\ DeliveryInv'
  BY StartSteps, TypeNext, DeliveryNext, StopsSafely
<1>3. DeliveryInv => NoLoss
  BY DEF DeliveryInv
<1>4. QED
  BY <1>1, <1>2, <1>3, PTL DEF StartSpec

=============================================================================
