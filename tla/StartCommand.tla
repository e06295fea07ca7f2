---------------------------- MODULE StartCommand ----------------------------
(***************************************************************************)
(* The process around the consumer: cmd/start.go.  RunE starts kic.Run in  *)
(* a goroutine and waits for a signal or for Run's result; either way it   *)
(* calls shutdown(&kic).  kic is the zero InventoryConsumer of             *)
(* cmd/root.go: Run builds its consumers in a local variable of the same   *)
(* name, so kic.Consumer stays nil, kic.Shutdown() panics on it, and the   *)
(* process dies with every goroutine in it.                                *)
(*                                                                         *)
(* The Run goroutine is InventoryConsumer; signals, which that module      *)
(* takes from anywhere, come from here, and so does the death of the       *)
(* process.                                                                *)
(***************************************************************************)
EXTENDS MCInventoryConsumer

VARIABLES
    main,      \* RunE, per replica: "setup", "waiting", "standby", "ended"
    quit,      \* a signal is in the channel of RunE
    sigchan    \* the channel the last Consume registered: "none", "empty",
               \* or "signal"

startVars == <<main, quit, sigchan>>

StartInit ==
    /\ Init
    /\ main = [r \in Replicas |-> "setup"]
    /\ quit = [r \in Replicas |-> FALSE]
    /\ sigchan = [r \in Replicas |-> "none"]

\* Options and client are valid, and the goroutine is started.
Start(r) ==
    /\ main[r] = "setup"
    /\ main' = [main EXCEPT ![r] = "waiting"]
    /\ UNCHANGED <<vars, quit, sigchan>>

\* A consumer that is disabled is not started: the process stands by.
Standby(r) ==
    /\ main[r] = "setup"
    /\ main' = [main EXCEPT ![r] = "standby"]
    /\ UNCHANGED <<vars, quit, sigchan>>

\* The settings are refused or the client cannot be built (module Settings),
\* or a signal comes before RunE has asked for it.
SetupFails(r) ==
    /\ main[r] = "setup"
    /\ Disrupt
    /\ main' = [main EXCEPT ![r] = "ended"]
    /\ pc' = [pc EXCEPT ![r] = "exited"]
    /\ UNCHANGED <<quit, sigchan, retries, msg, attempts, shutdownInProgress,
                   offsetVars, clientVars, groupVars, serviceVars>>

\* SubscribeTopics has succeeded, and Consume registers a new channel.
Registers(r) == pc[r] = "new" /\ pc'[r] = "polling"

\* The goroutine runs.  Nothing unregisters the channel of a Consume that has
\* ended: what is in it, or comes into it before the next one, nobody reads.
RunStep(r) ==
    /\ main[r] = "waiting"
    /\ ~(pc[r] = "polling" /\ sigchan[r] = "signal")
    /\ \/ Loop(r) \/ Rebalance(r) \/ PollNothing(r)
       \/ StartFails(r) \/ StopPolling(r) \/ RequestHangs(r) \/ CloseFails(r)
    /\ sigchan' = [sigchan EXCEPT ![r] = IF Registers(r) THEN "empty" ELSE @]
    /\ UNCHANGED <<main, quit>>

\* SIGTERM goes to every channel registered for it, if there is room in it.
Terminate(r) ==
    /\ main[r] \in {"waiting", "standby"}
    /\ Disrupt
    /\ quit' = [quit EXCEPT ![r] = TRUE]
    /\ sigchan' = [sigchan EXCEPT ![r] = IF @ = "none" THEN @ ELSE "signal"]
    /\ UNCHANGED <<main, pc, retries, msg, attempts, shutdownInProgress,
                   offsetVars, clientVars, groupVars, serviceVars>>

\* The select of Consume takes the signal before it polls again.
ConsumeTakesSignal(r) ==
    /\ main[r] = "waiting"
    /\ pc[r] = "polling"
    /\ sigchan[r] = "signal"
    /\ pc' = [pc EXCEPT ![r] = "shutdown"]
    /\ sigchan' = [sigchan EXCEPT ![r] = "empty"]
    /\ UNCHANGED <<main, quit, retries, msg, attempts, shutdownInProgress,
                   offsetVars, clientVars, groupVars, serviceVars, disruptions>>

\* RunE's select.  (Mutant: it waits for a signal only.)
Selects_SignalOnly(r) == quit[r]

Selects(r) == quit[r] \/ pc[r] = "exited"

\* shutdown(&kic, ...) calls a method of a nil Consumer: the process panics,
\* and Run's goroutine stops where it is.
ShutdownPanics(r) ==
    /\ main[r] \in {"waiting", "standby"}
    /\ Selects(r)
    /\ main' = [main EXCEPT ![r] = "ended"]
    /\ sigchan' = [sigchan EXCEPT ![r] = "none"]
    /\ pc' = [pc EXCEPT ![r] = "exited"]
    /\ assigned' = [assigned EXCEPT ![r] = {}]
    /\ next' = [next EXCEPT ![r] = NoPosition]
    /\ UNCHANGED <<quit, retries, msg, attempts, shutdownInProgress, offsetVars,
                   groupVars, serviceVars, disruptions>>

\* The platform starts the container again.
RestartContainer(r) ==
    /\ main[r] = "ended"
    /\ RestartProcess(r)
    /\ main' = [main EXCEPT ![r] = "setup"]
    /\ quit' = [quit EXCEPT ![r] = FALSE]
    /\ UNCHANGED sigchan

CoordinatorStep(r) == EvictMember(r) /\ UNCHANGED startVars

StartNext ==
    \E r \in Replicas :
        \/ Start(r)
        \/ Standby(r)
        \/ SetupFails(r)
        \/ RunStep(r)
        \/ Terminate(r)
        \/ ConsumeTakesSignal(r)
        \/ ShutdownPanics(r)
        \/ RestartContainer(r)
        \/ CoordinatorStep(r)

\* A select that can go on does, the goroutine of Run always takes its next
\* step, and the coordinator hands out partitions and drops the members that
\* are gone.
StartFairness ==
    \A r \in Replicas :
        /\ WF_<<vars, startVars>>(ShutdownPanics(r))
        /\ WF_<<vars, startVars>>(RunStep(r) /\ Loop(r))
        /\ WF_<<vars, startVars>>(RunStep(r) /\ Rebalance(r) /\ UNCHANGED disruptions)
        /\ WF_<<vars, startVars>>(CoordinatorStep(r) /\ pc[r] \in {"new", "exited"})

StartSpec ==
    StartInit /\ [][StartNext]_<<vars, startVars>> /\ StartFairness

-----------------------------------------------------------------------------
(***************************************************************************)
(* Properties.                                                             *)
(***************************************************************************)
\* Neither a signal nor the end of Run leaves a process behind that goes on or
\* hangs: wherever the signal went, be it into the channel of a Consume that
\* has ended or that waits for an answer, and though Run makes of a Consume
\* that was told to stop a new one that was not, the process ends.
ProcessEnds ==
    \A r \in Replicas :
        (/\ main[r] \in {"waiting", "standby"}
         /\ quit[r] \/ sigchan[r] = "signal" \/ pc[r] = "exited")
            ~> (main[r] = "ended")

\* "Shutdown ensures the consumer is properly shutdown, whether by server or
\* due to rebalance": when a signal ends the process, its consumer has left
\* the group.  The code shuts down a consumer that was never set, and the
\* panic cuts the running one off.
StopsGracefully ==
    \A r \in Replicas : (main[r] = "ended" /\ quit[r]) => ~member[r]

=============================================================================
