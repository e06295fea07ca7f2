----------------------------- MODULE OffsetStore -----------------------------
(***************************************************************************)
(* OffsetStorage of one InventoryConsumer at the grain of offsetMutex:     *)
(* what CommitStoredOffsets, Shutdown and RebalanceCallback do between     *)
(* taking the lock and releasing it is a step, and so is the answer of the *)
(* broker, for which no lock is held.                                      *)
(*                                                                         *)
(* Where concurrent is true the callback is a goroutine of its own, which  *)
(* is what the mutex is there for and how race_condition_test.go drives    *)
(* the code.  Where it is false the callback runs inside Poll and Close,   *)
(* as librdkafka calls it, and the loop waits for it to return.            *)
(***************************************************************************)
EXTENDS Integers, FiniteSets, SequencesExt

CONSTANTS
    Partitions,     \* the assigned partitions
    CommitModulo,   \* consumer.commit-modulo
    MaxOffset,      \* bound: the last offset of each partition
    MaxFailures     \* bound: commits that fail in a row while the client is open

ASSUME OffsetAssumption ==
    /\ IsFiniteSet(Partitions)
    /\ CommitModulo \in Nat \ {0}
    /\ MaxOffset \in Nat
    /\ MaxFailures \in Nat

VARIABLES
    concurrent,          \* whether the callback runs beside the loop
    pc,                  \* where each caller is
    return,              \* where the loop goes on after CommitStoredOffsets
    storage,             \* OffsetStorage
    offsetsToCommit,     \* each caller's copy, while its commit is under way
    shutdownInProgress,  \* the flag of that name
    closed,              \* Consumer.IsClosed()
    next,                \* the offset the loop reads next, per partition
    committed,           \* the broker's committed offset, per partition
    applied,             \* the entries the broker has applied at some time
    failures             \* commits that failed since the last success

vars == <<concurrent, pc, return, storage, offsetsToCommit, shutdownInProgress,
          closed, next, committed, applied, failures>>

Callers == {"loop", "callback"}
Nothing == [p \in Partitions |-> -1]

\* Who may run: at most one of the two, unless they are concurrent.
LoopRuns     == concurrent \/ pc["callback"] = "idle"
CallbackRuns == concurrent \/ pc["loop"] \in {"poll", "closing"}

Init ==
    /\ concurrent \in BOOLEAN
    /\ pc = [c \in Callers |-> IF c = "loop" THEN "poll" ELSE "idle"]
    /\ return = "poll"
    /\ storage = <<>>
    /\ offsetsToCommit = [c \in Callers |-> <<>>]
    /\ shutdownInProgress = FALSE
    /\ closed = FALSE
    /\ next = [p \in Partitions |-> 0]
    /\ committed = Nothing
    /\ applied = {}
    /\ failures = 0

-----------------------------------------------------------------------------
(***************************************************************************)
(* CommitStoredOffsets.                                                    *)
(***************************************************************************)
Return(c) ==
    IF c = "loop" THEN return ELSE IF concurrent THEN "idle" ELSE "assign"

\* The broker takes the entries of a commit in order.
LastOf(entries, p) ==
    LET own == {i \in DOMAIN entries : entries[i][1] = p}
    IN  IF own = {} THEN -1
        ELSE entries[CHOOSE i \in own : \A j \in own : j <= i][2]

Overlay(entries) ==
    [p \in Partitions |->
        IF LastOf(entries, p) = -1 THEN committed[p] ELSE LastOf(entries, p)]

\* What taking a copy leaves in the storage.  (Mutant: all of it.)
Cleared_Never(entries) == entries
Cleared(entries) == <<>>

\* Mutant: no early return.
TakeOffsets_Always(c) ==
    /\ pc[c] = "commit"
    /\ pc' = [pc EXCEPT ![c] = "sending"]
    /\ offsetsToCommit' = [offsetsToCommit EXCEPT ![c] = storage]
    /\ storage' = Cleared(storage)
    /\ UNCHANGED <<concurrent, return, shutdownInProgress, closed, next,
                   committed, applied, failures>>

\* Under the lock: copy and clear, or return early.
TakeOffsets(c) ==
    /\ pc[c] = "commit"
    /\ IF storage = <<>>
       THEN /\ pc' = [pc EXCEPT ![c] = Return(c)]
            /\ UNCHANGED <<storage, offsetsToCommit>>
       ELSE /\ pc' = [pc EXCEPT ![c] = "sending"]
            /\ offsetsToCommit' = [offsetsToCommit EXCEPT ![c] = storage]
            /\ storage' = Cleared(storage)
    /\ UNCHANGED <<concurrent, return, shutdownInProgress, closed, next,
                   committed, applied, failures>>

Applies(c) ==
    /\ ~closed
    /\ committed' = Overlay(offsetsToCommit[c])
    /\ applied' = applied \union ToSet(offsetsToCommit[c])

CommitSucceeds(c) ==
    /\ pc[c] = "sending"
    /\ Applies(c)
    /\ offsetsToCommit' = [offsetsToCommit EXCEPT ![c] = <<>>]
    /\ failures' = 0
    /\ pc' = [pc EXCEPT ![c] = Return(c)]
    /\ UNCHANGED <<concurrent, return, storage, shutdownInProgress, closed, next>>

\* The broker refuses, or its answer is lost, or the client is closed.
CommitFails(c) ==
    /\ pc[c] = "sending"
    /\ closed \/ failures < MaxFailures
    /\ Applies(c) \/ UNCHANGED <<committed, applied>>
    /\ failures' = failures + 1
    /\ pc' = [pc EXCEPT ![c] = "restore"]
    /\ UNCHANGED <<concurrent, return, storage, offsetsToCommit,
                   shutdownInProgress, closed, next>>

\* Mutants: the copy is forgotten; it replaces what was stored meanwhile.
Merged_Dropped(copy, entries) == entries
Merged_Replaced(copy, entries) == copy
Merged(copy, entries) == copy \o entries

\* Under the lock again: the copy goes back, before what was stored since.
RestoreOffsets(c) ==
    /\ pc[c] = "restore"
    /\ storage' = Merged(offsetsToCommit[c], storage)
    /\ offsetsToCommit' = [offsetsToCommit EXCEPT ![c] = <<>>]
    /\ pc' = [pc EXCEPT ![c] = Return(c)]
    /\ UNCHANGED <<concurrent, return, shutdownInProgress, closed, next,
                   committed, applied, failures>>

-----------------------------------------------------------------------------
(***************************************************************************)
(* The loop: Consume, Retry and Shutdown.                                  *)
(***************************************************************************)
CheckIfCommit(o) == o % CommitModulo = 0

\* A message is finished: append and the modulo check, under the lock.
StoreOffset(p) ==
    /\ pc["loop"] = "poll"
    /\ LoopRuns
    /\ next[p] <= MaxOffset
    /\ storage' = Append(storage, <<p, next[p]>>)
    /\ next' = [next EXCEPT ![p] = @ + 1]
    /\ pc' = [pc EXCEPT !["loop"] =
                IF CheckIfCommit(next[p]) THEN "commit" ELSE "poll"]
    /\ UNCHANGED <<concurrent, return, offsetsToCommit, shutdownInProgress,
                   closed, committed, applied, failures>>

\* Retry, before it waits for another attempt.
CommitBeforeRetry ==
    /\ pc["loop"] = "poll"
    /\ LoopRuns
    /\ pc' = [pc EXCEPT !["loop"] = "commit"]
    /\ UNCHANGED <<concurrent, return, storage, offsetsToCommit,
                   shutdownInProgress, closed, next, committed, applied, failures>>

\* Shutdown sets the flag and looks at the storage under one lock.
Shutdown ==
    /\ pc["loop"] = "poll"
    /\ LoopRuns
    /\ shutdownInProgress' = TRUE
    /\ return' = "closing"
    /\ pc' = [pc EXCEPT !["loop"] =
                IF storage = <<>> THEN "closing" ELSE "commit"]
    /\ UNCHANGED <<concurrent, storage, offsetsToCommit, closed, next,
                   committed, applied, failures>>

\* Close returns, after the callback it called.
Close ==
    /\ pc["loop"] = "closing"
    /\ LoopRuns
    /\ closed' = TRUE
    /\ pc' = [pc EXCEPT !["loop"] = "closed"]
    /\ UNCHANGED <<concurrent, return, storage, offsetsToCommit,
                   shutdownInProgress, next, committed, applied, failures>>

-----------------------------------------------------------------------------
(***************************************************************************)
(* RebalanceCallback.                                                      *)
(***************************************************************************)
\* RevokedPartitions: the flag and the storage are read under one lock, which
\* is released before CommitStoredOffsets takes it again.
RevokedPartitions ==
    /\ pc["callback"] = "idle"
    /\ CallbackRuns
    /\ pc' = [pc EXCEPT !["callback"] =
                IF shutdownInProgress THEN "idle"
                ELSE IF storage = <<>> THEN Return("callback")
                ELSE "commit"]
    /\ UNCHANGED <<concurrent, return, storage, offsetsToCommit,
                   shutdownInProgress, closed, next, committed, applied, failures>>

\* The partitions come back, and are read from their committed offsets.
AssignedPartitions ==
    /\ pc["callback"] = "assign"
    /\ pc' = [pc EXCEPT !["callback"] = "idle"]
    /\ next' = [p \in Partitions |->
                  IF committed[p] = -1 THEN 0 ELSE committed[p]]
    /\ UNCHANGED <<concurrent, return, storage, offsetsToCommit,
                   shutdownInProgress, closed, committed, applied, failures>>

Next ==
    \/ \E c \in Callers :
          TakeOffsets(c) \/ CommitSucceeds(c) \/ CommitFails(c) \/ RestoreOffsets(c)
    \/ \E p \in Partitions : StoreOffset(p)
    \/ CommitBeforeRetry
    \/ Shutdown
    \/ Close
    \/ RevokedPartitions
    \/ AssignedPartitions

Spec == Init /\ [][Next]_vars

-----------------------------------------------------------------------------
(***************************************************************************)
(* Properties.                                                             *)
(***************************************************************************)
\* Every variable has its type, and a caller holds a copy only while it
\* commits.
Places  == Partitions \X (0..MaxOffset)
Entries == Seq(Places)

TypeOK ==
    /\ concurrent \in BOOLEAN
    /\ pc \in [Callers -> {"poll", "commit", "sending", "restore", "closing",
                           "closed", "idle", "assign"}]
    /\ return \in {"poll", "closing"}
    /\ storage \in Entries
    /\ offsetsToCommit \in [Callers -> Entries]
    /\ \A c \in Callers :
          offsetsToCommit[c] # <<>> <=> pc[c] \in {"sending", "restore"}
    /\ shutdownInProgress \in BOOLEAN
    /\ closed \in BOOLEAN
    /\ next \in [Partitions -> 0..(MaxOffset + 1)]
    /\ committed \in [Partitions -> (0..MaxOffset) \union {-1}]
    /\ applied \subseteq Places
    /\ failures \in Nat

Held(c) == ToSet(offsetsToCommit[c])

\* Whatever commits fail and whoever runs beside them, the offset of a
\* finished message is still stored, or on its way, or was committed: merging
\* a copy back loses nothing that was stored in the meantime.
Kept == ToSet(storage) \union applied \union UNION {Held(c) : c \in Callers}

NothingForgotten ==
    \A p \in Partitions : \A o \in 0..MaxOffset : o < next[p] => <<p, o>> \in Kept

\* "Clear the storage before releasing the lock to prevent double commits":
\* two callers never commit the same entry at the same time, and none is
\* stored while it is being committed.
NoDoubleCommit ==
    /\ Held("loop") \intersect Held("callback") = {}
    /\ \A c \in Callers : ToSet(storage) \intersect Held(c) = {}

\* A queue at its limit: what piles up while commits fail grows with the
\* commits that were tried, not with the messages that were read.  (Beside a
\* commit of the callback the loop fills the list again.)
StorageBounded ==
    ~concurrent =>
    Len(storage) + Len(offsetsToCommit["loop"]) + Len(offsetsToCommit["callback"])
        <= (failures + 1) * (Cardinality(Partitions) * (CommitModulo - 1) + 1)

\* With the callback inside Poll and Close, a list that is copied, cleared,
\* sent and merged is to the outside one commit of the last offset of each
\* partition.  (Beside each other the two may send lists in either order, and
\* nothing of the kind is claimed.)
C == INSTANCE OffsetCommits
     WITH pending   <- IF concurrent THEN Nothing
                       ELSE [p \in Partitions |->
                               LastOf(offsetsToCommit["loop"] \o
                                      offsetsToCommit["callback"] \o storage, p)],
          committed <- IF concurrent THEN Nothing ELSE committed

ImplementsCommits == C!Spec

=============================================================================
