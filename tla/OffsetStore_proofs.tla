-------------------------- MODULE OffsetStore_proofs --------------------------
(***************************************************************************)
(* Theorems about OffsetStore, for every set of partitions, commit modulo  *)
(* and bound, with the callback inside Poll and Close or on a goroutine of *)
(* its own: no finished offset is forgotten, and no two commits send the   *)
(* same entry.                                                             *)
(***************************************************************************)
EXTENDS OffsetStore, SequenceTheorems, FiniteSetTheorems, WellFoundedInduction, TLAPS

-----------------------------------------------------------------------------
(***************************************************************************)
(* The entries of a list.                                                  *)
(***************************************************************************)
\* Those of a list in two parts are those of its parts.
LEMMA ConcatEntries ==
    ASSUME NEW s \in Entries, NEW t \in Entries
    PROVE  /\ s \o t \in Entries
           /\ ToSet(s \o t) = ToSet(s) \union ToSet(t)
  <1>1. /\ s \o t \in Entries
        /\ Len(s \o t) = Len(s) + Len(t)
        /\ \A i \in 1 .. Len(s) + Len(t) :
              (s \o t)[i] = IF i <= Len(s) THEN s[i] ELSE t[i - Len(s)]
    BY ConcatProperties DEF Entries
  <1>2. ToSet(s \o t) \subseteq ToSet(s) \union ToSet(t)
    BY <1>1 DEF ToSet, Entries
  <1>3. ToSet(s) \subseteq ToSet(s \o t)
    BY <1>1 DEF ToSet, Entries
  <1>4. ASSUME NEW j \in DOMAIN t
        PROVE  t[j] \in ToSet(s \o t)
    <2>1. /\ j + Len(s) \in 1 .. Len(s) + Len(t)
          /\ ~(j + Len(s) <= Len(s))
          /\ (j + Len(s)) - Len(s) = j
      BY DEF Entries
    <2>2. (s \o t)[j + Len(s)] = t[j]
      BY <1>1, <2>1
    <2>3. j + Len(s) \in DOMAIN (s \o t)
      BY <1>1, <2>1 DEF Entries
    <2> QED
      BY <2>2, <2>3 DEF ToSet
  <1>5. ToSet(t) \subseteq ToSet(s \o t)
    BY <1>4 DEF ToSet
  <1> QED
    BY <1>1, <1>2, <1>3, <1>5

\* Those of a list with one more.
LEMMA AppendEntries ==
    ASSUME NEW s \in Entries, NEW e \in Places
    PROVE  /\ Append(s, e) \in Entries
           /\ ToSet(Append(s, e)) = ToSet(s) \union {e}
  <1>1. /\ Append(s, e) \in Entries
        /\ Len(Append(s, e)) = Len(s) + 1
        /\ \A i \in 1 .. Len(s) : Append(s, e)[i] = s[i]
        /\ Append(s, e)[Len(s) + 1] = e
    BY AppendProperties DEF Entries
  <1>2. ToSet(Append(s, e)) \subseteq ToSet(s) \union {e}
    BY <1>1 DEF ToSet, Entries
  <1>3. ToSet(s) \subseteq ToSet(Append(s, e))
    BY <1>1 DEF ToSet, Entries
  <1>4. e \in ToSet(Append(s, e))
    <2>1. Len(s) + 1 \in DOMAIN Append(s, e)
      BY <1>1 DEF Entries
    <2> QED
      BY <1>1, <2>1 DEF ToSet
  <1> QED
    BY <1>1, <1>2, <1>3, <1>4

\* The empty list has none, and no other list is without any.
LEMMA NoEntries ==
    /\ <<>> \in Entries
    /\ ToSet(<<>>) = {}
    /\ \A s \in Entries : ToSet(s) \subseteq Places
  BY DEF Entries, ToSet

\* A set of numbers below a bound has a largest one.
LEMMA Largest ==
    ASSUME NEW n \in Nat, NEW S \in SUBSET (0..n), S # {}
    PROVE  \E i \in S : \A j \in S : j <= i
  <1> DEFINE T == {n - i : i \in S}
             R == OpToRel(<, Nat)
  <1>1. T \subseteq Nat /\ T # {}
    <2>1. \A i \in S : i \in Int /\ i <= n
      OBVIOUS
    <2>2. \A i \in S : n - i \in Nat
      BY <2>1
    <2>3. PICK i \in S : TRUE
      OBVIOUS
    <2>4. n - i \in T
      BY <2>3
    <2> QED
      BY <2>2, <2>4
  <1>2. IsWellFoundedOn(R, Nat)
    BY NatLessThanWellFounded
  <1>3. \E x \in T : \A y \in T : <<y, x>> \notin R
    <2> HIDE DEF T, R
    <2> QED
      BY <1>1, <1>2, WFMin, Zenon
  <1>4. PICK i \in S : \A y \in T : <<y, n - i>> \notin R
    BY <1>3
  <1>5. ASSUME NEW j \in S
        PROVE  j <= i
    <2>1. n - j \in T /\ n - j \in Nat /\ n - i \in Nat
      OBVIOUS
    <2>2. ~(n - j < n - i)
      BY <1>4, <2>1 DEF OpToRel
    <2> QED
      BY <2>2
  <1> QED
    BY <1>5

\* The last offset of a partition is that of an entry.
LEMMA LastIsEntry ==
    ASSUME NEW s \in Entries, NEW p \in Partitions, LastOf(s, p) # -1
    PROVE  <<p, LastOf(s, p)>> \in ToSet(s) /\ LastOf(s, p) \in 0..MaxOffset
  <1> DEFINE own == {i \in DOMAIN s : s[i][1] = p}
             last == CHOOSE i \in own : \A j \in own : j <= i
  <1>1. own # {} /\ LastOf(s, p) = s[last][2]
    BY DEF LastOf
  <1>2. Len(s) \in Nat /\ own \subseteq 0..Len(s)
    BY DEF Entries
  <1>3. \E i \in own : \A j \in own : j <= i
    <2> HIDE DEF own
    <2> QED
      BY <1>1, <1>2, Largest
  <1>4. last \in own
    <2> HIDE DEF own
    <2> QED
      BY <1>3
  <1>5. s[last] \in Places /\ s[last][1] = p /\ s[last] \in ToSet(s)
    <2>1. last \in DOMAIN s /\ s[last][1] = p
      <3> HIDE DEF last
      <3> QED
        BY <1>4
    <2> HIDE DEF last
    <2>2. s[last] \in Places /\ s[last] \in ToSet(s)
      BY <2>1 DEF Entries, ToSet
    <2> QED
      BY <2>1, <2>2
  <1>6. \A e \in Places : e = <<e[1], e[2]>> /\ e[2] \in 0..MaxOffset
    BY DEF Places
  <1> HIDE DEF last
  <1>7. s[last] = <<p, s[last][2]>> /\ s[last][2] \in 0..MaxOffset
    BY <1>5, <1>6
  <1>8. s[last] = <<p, LastOf(s, p)>> /\ LastOf(s, p) \in 0..MaxOffset
    BY <1>1, <1>7
  <1> QED
    BY <1>5, <1>8

-----------------------------------------------------------------------------
(***************************************************************************)
(* Nothing is forgotten.                                                   *)
(***************************************************************************)
\* What is kept has no gaps below it, the loop reads on where it ends, and
\* what is committed was kept.
KeptInv ==
    /\ \A e \in Kept : \A o \in 0..MaxOffset : o < e[2] => <<e[1], o>> \in Kept
    /\ \A p \in Partitions : committed[p] # -1 => <<p, committed[p]>> \in Kept
    /\ NothingForgotten

\* What is kept are places.
LEMMA KeptPlaces == TypeOK => Kept \subseteq Places
  BY NoEntries DEF TypeOK, Kept, Held

\* The initial state.
LEMMA StoreInit == Init => TypeOK /\ KeptInv
  <1> SUFFICES ASSUME Init PROVE TypeOK /\ KeptInv
    OBVIOUS
  <1>1. TypeOK
    <2>1. /\ pc \in [Callers -> {"poll", "idle"}]
          /\ offsetsToCommit \in [Callers -> Entries]
          /\ \A c \in Callers : offsetsToCommit[c] = <<>>
      BY NoEntries DEF Init
    <2>2. /\ next \in [Partitions -> 0..(MaxOffset + 1)]
          /\ committed \in [Partitions -> (0..MaxOffset) \union {-1}]
      BY OffsetAssumption DEF Init, Nothing
    <2>3. /\ concurrent \in BOOLEAN
          /\ return \in {"poll", "closing"}
          /\ storage \in Entries
          /\ shutdownInProgress \in BOOLEAN /\ closed \in BOOLEAN
          /\ applied \subseteq Places /\ failures \in Nat
      BY NoEntries DEF Init
    <2> QED
      BY <2>1, <2>2, <2>3 DEF TypeOK
  <1>2. Kept = {}
    BY NoEntries DEF Init, Kept, Held
  <1> QED
    BY <1>1, <1>2, OffsetAssumption DEF Init, KeptInv, NothingForgotten, Nothing

\* A commit that is applied commits what was kept.
LEMMA OverlayKept ==
    ASSUME TypeOK, KeptInv, NEW c \in Callers
    PROVE  /\ Overlay(offsetsToCommit[c]) \in [Partitions -> (0..MaxOffset) \union {-1}]
           /\ \A p \in Partitions :
                 Overlay(offsetsToCommit[c])[p] # -1 =>
                    <<p, Overlay(offsetsToCommit[c])[p]>> \in Kept
  <1>1. offsetsToCommit[c] \in Entries
    BY DEF TypeOK
  <1>2. ASSUME NEW p \in Partitions
        PROVE  /\ Overlay(offsetsToCommit[c])[p] \in (0..MaxOffset) \union {-1}
               /\ Overlay(offsetsToCommit[c])[p] # -1 =>
                    <<p, Overlay(offsetsToCommit[c])[p]>> \in Kept
    <2>1. CASE LastOf(offsetsToCommit[c], p) = -1
      BY <2>1 DEF Overlay, TypeOK, KeptInv
    <2>2. CASE LastOf(offsetsToCommit[c], p) # -1
      BY <1>1, <2>2, LastIsEntry DEF Overlay, Kept, Held
    <2> QED
      BY <2>1, <2>2
  <1> QED
    BY <1>2 DEF Overlay

\* Every step keeps the types.
LEMMA StoreTypes == TypeOK /\ KeptInv /\ [Next]_vars => TypeOK'
  <1> SUFFICES ASSUME TypeOK, KeptInv, [Next]_vars PROVE TypeOK'
    OBVIOUS
  <1> USE OffsetAssumption DEF TypeOK, Callers
  <1>1. CASE UNCHANGED vars
    BY <1>1 DEF vars
  <1>2. ASSUME NEW c \in Callers, TakeOffsets(c)
        PROVE  TypeOK'
    BY <1>2, NoEntries DEF TakeOffsets, Return, Cleared
  <1>3. ASSUME NEW c \in Callers, CommitSucceeds(c)
        PROVE  TypeOK'
    <2>1. ToSet(offsetsToCommit[c]) \subseteq Places
      BY NoEntries
    <2> QED
      BY <1>3, <2>1, NoEntries, OverlayKept DEF CommitSucceeds, Applies, Return
  <1>4. ASSUME NEW c \in Callers, CommitFails(c)
        PROVE  TypeOK'
    <2>1. ToSet(offsetsToCommit[c]) \subseteq Places
      BY NoEntries
    <2> QED
      BY <1>4, <2>1, OverlayKept DEF CommitFails, Applies
  <1>5. ASSUME NEW c \in Callers, RestoreOffsets(c)
        PROVE  TypeOK'
    BY <1>5, NoEntries, ConcatEntries DEF RestoreOffsets, Merged, Return
  <1>6. ASSUME NEW p \in Partitions, StoreOffset(p)
        PROVE  TypeOK'
    <2>1. next[p] \in 0..MaxOffset /\ <<p, next[p]>> \in Places
      BY <1>6 DEF StoreOffset, Places
    <2> QED
      BY <1>6, <2>1, AppendEntries DEF StoreOffset
  <1>7. CASE CommitBeforeRetry
    BY <1>7 DEF CommitBeforeRetry
  <1>8. CASE Shutdown
    BY <1>8 DEF Shutdown
  <1>9. CASE Close
    BY <1>9 DEF Close
  <1>10. CASE RevokedPartitions
    BY <1>10 DEF RevokedPartitions, Return
  <1>11. CASE AssignedPartitions
    BY <1>11 DEF AssignedPartitions
  <1> QED
    BY <1>1, <1>2, <1>3, <1>4, <1>5, <1>6, <1>7, <1>8, <1>9, <1>10, <1>11
    DEF Next

\* What every step but a new assignment of partitions does: it drops nothing,
\* adds at most the message that is finished, and commits what was kept.
KeepsOn ==
    /\ Kept' = Kept
    /\ next' = next
    /\ \A p \in Partitions : committed'[p] # -1 => <<p, committed'[p]>> \in Kept

\* Such a step keeps the invariant.
LEMMA KeepsOnInv == KeptInv /\ KeepsOn => KeptInv'
  BY DEF KeptInv, KeepsOn, NothingForgotten

\* What is kept depends on the lists and on what was applied.
LEMMA KeptOf ==
    /\ Kept = ToSet(storage) \union applied
              \union ToSet(offsetsToCommit["loop"])
              \union ToSet(offsetsToCommit["callback"])
    /\ Kept' = ToSet(storage') \union applied'
              \union ToSet(offsetsToCommit'["loop"])
              \union ToSet(offsetsToCommit'["callback"])
  BY DEF Kept, Held, Callers

\* The steps of CommitStoredOffsets move entries, and lose none.
LEMMA CommitKeepsOn ==
    ASSUME TypeOK, KeptInv, NEW c \in Callers,
           TakeOffsets(c) \/ CommitSucceeds(c) \/ CommitFails(c)
               \/ RestoreOffsets(c)
    PROVE  KeepsOn
  <1> USE DEF TypeOK, Callers
  <1>1. CASE TakeOffsets(c)
    <2>1. ToSet(<<>>) = {} /\ ToSet(offsetsToCommit[c]) = {}
      BY <1>1, NoEntries DEF TakeOffsets
    <2>2. CASE storage = <<>>
      BY <1>1, <2>2, KeptOf DEF TakeOffsets, KeepsOn, KeptInv
    <2>3. CASE storage # <<>>
      <3>1. Kept' = Kept
        BY <1>1, <2>1, <2>3, KeptOf DEF TakeOffsets, Cleared
      <3> QED
        BY <1>1, <3>1 DEF TakeOffsets, KeepsOn, KeptInv
    <2> QED
      BY <2>2, <2>3
  <1>2. CASE CommitSucceeds(c)
    <2>1. Kept' = Kept
      BY <1>2, NoEntries, KeptOf DEF CommitSucceeds, Applies
    <2> QED
      BY <1>2, <2>1, OverlayKept DEF CommitSucceeds, Applies, KeepsOn
  <1>3. CASE CommitFails(c)
    <2>1. Kept' = Kept
      BY <1>3, KeptOf DEF CommitFails, Applies
    <2> QED
      BY <1>3, <2>1, OverlayKept DEF CommitFails, Applies, KeepsOn, KeptInv
  <1>4. CASE RestoreOffsets(c)
    <2>1. ToSet(storage') = ToSet(offsetsToCommit[c]) \union ToSet(storage)
      BY <1>4, ConcatEntries DEF RestoreOffsets, Merged
    <2>2. Kept' = Kept
      BY <1>4, <2>1, NoEntries, KeptOf DEF RestoreOffsets
    <2> QED
      BY <1>4, <2>2 DEF RestoreOffsets, KeepsOn, KeptInv
  <1> QED
    BY <1>1, <1>2, <1>3, <1>4

\* A finished message is kept from then on.
LEMMA StoreKeeps ==
    ASSUME TypeOK, KeptInv, NEW p \in Partitions, StoreOffset(p)
    PROVE  KeptInv'
  <1>1. next[p] \in 0..MaxOffset /\ <<p, next[p]>> \in Places
    BY OffsetAssumption DEF StoreOffset, Places, TypeOK
  <1>2. Kept' = Kept \union {<<p, next[p]>>}
    BY <1>1, AppendEntries, KeptOf DEF StoreOffset, TypeOK
  <1>3. ASSUME NEW e \in Kept', NEW o \in 0..MaxOffset, o < e[2]
        PROVE  <<e[1], o>> \in Kept'
    BY <1>1, <1>2, <1>3 DEF KeptInv, NothingForgotten
  <1>4. \A q \in Partitions : committed'[q] # -1 => <<q, committed'[q]>> \in Kept'
    BY <1>2 DEF KeptInv, StoreOffset
  <1>5. ASSUME NEW q \in Partitions, NEW o \in 0..MaxOffset, o < next'[q]
        PROVE  <<q, o>> \in Kept'
    <2>1. CASE q = p
      <3>1. next'[q] = next[p] + 1
        BY <2>1 DEF StoreOffset, TypeOK
      <3>2. o < next[p] \/ o = next[p]
        BY <1>1, <1>5, <3>1
      <3> QED
        BY <1>2, <2>1, <3>2 DEF KeptInv, NothingForgotten
    <2>2. CASE q # p
      BY <1>2, <1>5, <2>2 DEF StoreOffset, TypeOK, KeptInv, NothingForgotten
    <2> QED
      BY <2>1, <2>2
  <1> QED
    BY <1>3, <1>4, <1>5 DEF KeptInv, NothingForgotten

\* Every step keeps what is kept.
LEMMA KeptNext == TypeOK /\ KeptInv /\ [Next]_vars => KeptInv'
  <1> SUFFICES ASSUME TypeOK, KeptInv, [Next]_vars PROVE KeptInv'
    OBVIOUS
  <1>1. CASE UNCHANGED vars
    BY <1>1, KeepsOnInv, KeptOf DEF vars, KeepsOn, KeptInv
  <1>2. ASSUME NEW c \in Callers,
               TakeOffsets(c) \/ CommitSucceeds(c) \/ CommitFails(c)
                   \/ RestoreOffsets(c)
        PROVE  KeptInv'
    BY <1>2, CommitKeepsOn, KeepsOnInv
  <1>3. ASSUME NEW p \in Partitions, StoreOffset(p)
        PROVE  KeptInv'
    BY <1>3, StoreKeeps
  <1>4. CASE CommitBeforeRetry \/ Shutdown \/ Close \/ RevokedPartitions
    BY <1>4, KeepsOnInv, KeptOf
    DEF CommitBeforeRetry, Shutdown, Close, RevokedPartitions, KeepsOn, KeptInv
  <1>5. CASE AssignedPartitions
    <2>1. Kept' = Kept /\ committed' = committed
      BY <1>5, KeptOf DEF AssignedPartitions
    <2>2. ASSUME NEW p \in Partitions, NEW o \in 0..MaxOffset, o < next'[p]
          PROVE  <<p, o>> \in Kept
      <3>1. committed[p] # -1 /\ o < committed[p]
        BY <1>5, <2>2 DEF AssignedPartitions
      <3> QED
        BY <3>1 DEF KeptInv
    <2> QED
      BY <2>1, <2>2 DEF KeptInv, NothingForgotten
  <1> QED
    BY <1>1, <1>2, <1>3, <1>4, <1>5 DEF Next

\* The types, and what is kept, at all times.
LEMMA StoreInvariant == Spec => [](TypeOK /\ KeptInv)
  <1>1. TypeOK /\ KeptInv /\ [Next]_vars => (TypeOK /\ KeptInv)'
    BY StoreTypes, KeptNext
  <1> QED
    BY <1>1, StoreInit, PTL DEF Spec

\* The variables keep their types, and a caller holds a copy only while it
\* commits.
THEOREM StoreTypeCorrect == Spec => []TypeOK
  BY StoreInvariant, PTL

\* Whatever commits fail and whoever runs beside them, the offset of a
\* finished message is stored, on its way, or was committed.
THEOREM StoreForgetsNothing == Spec => []NothingForgotten
  <1>1. TypeOK /\ KeptInv => NothingForgotten
    BY DEF KeptInv
  <1> QED
    BY <1>1, StoreInvariant, PTL

-----------------------------------------------------------------------------
(***************************************************************************)
(* No double commits.                                                      *)
(***************************************************************************)
Committing(c) == pc[c] \in {"commit", "sending", "restore"}

\* Inside Poll and Close, only one of the two commits, and while it holds a
\* copy nothing is stored.
SerialInv ==
    /\ ~(Committing("loop") /\ pc["callback"] # "idle")
    /\ \A c \in Callers : pc[c] \in {"sending", "restore"} => storage = <<>>

\* On a goroutine of its own the callback brings no partition back, so the loop
\* does not read again what it has stored.
ConcurrentInv ==
    /\ pc["callback"] # "assign"
    /\ \A p \in Partitions : \A o \in 0..MaxOffset :
          <<p, o>> \in ToSet(storage) \union Held("loop") \union Held("callback")
              => o < next[p]
    /\ NoDoubleCommit

DoubleInv == IF concurrent THEN ConcurrentInv ELSE SerialInv

\* How the callback runs stays as it is.
LEMMA StaysConcurrent == [Next]_vars => concurrent' = concurrent
  BY DEF Next, vars, TakeOffsets, CommitSucceeds, CommitFails, RestoreOffsets,
     StoreOffset, CommitBeforeRetry, Shutdown, Close, RevokedPartitions,
     AssignedPartitions

\* Every step keeps the two callers apart.
LEMMA SerialNext ==
    ASSUME ~concurrent, TypeOK, SerialInv, [Next]_vars
    PROVE  SerialInv'
  <1> USE DEF TypeOK, SerialInv, Committing, Callers
  <1>1. CASE UNCHANGED vars
    BY <1>1 DEF vars
  <1>2. ASSUME NEW c \in Callers, TakeOffsets(c)
        PROVE  SerialInv'
    BY <1>2 DEF TakeOffsets, Return, Cleared
  <1>3. ASSUME NEW c \in Callers, CommitSucceeds(c)
        PROVE  SerialInv'
    BY <1>3 DEF CommitSucceeds, Return
  <1>4. ASSUME NEW c \in Callers, CommitFails(c)
        PROVE  SerialInv'
    BY <1>4 DEF CommitFails
  <1>5. ASSUME NEW c \in Callers, RestoreOffsets(c)
        PROVE  SerialInv'
    BY <1>5 DEF RestoreOffsets, Return
  <1>6. ASSUME NEW p \in Partitions, StoreOffset(p)
        PROVE  SerialInv'
    BY <1>6 DEF StoreOffset, LoopRuns
  <1>7. CASE CommitBeforeRetry \/ Shutdown \/ Close
    BY <1>7 DEF CommitBeforeRetry, Shutdown, Close, LoopRuns
  <1>8. CASE RevokedPartitions
    BY <1>8 DEF RevokedPartitions, CallbackRuns, Return
  <1>9. CASE AssignedPartitions
    BY <1>9 DEF AssignedPartitions
  <1> QED
    BY <1>1, <1>2, <1>3, <1>4, <1>5, <1>6, <1>7, <1>8, <1>9 DEF Next

\* Every step keeps the lists apart.
LEMMA ConcurrentNext ==
    ASSUME concurrent, TypeOK, ConcurrentInv, [Next]_vars
    PROVE  ConcurrentInv'
  <1> USE DEF TypeOK, ConcurrentInv, NoDoubleCommit, Held, Callers
  <1>1. CASE UNCHANGED vars
    BY <1>1 DEF vars
  <1>2. ASSUME NEW c \in Callers, TakeOffsets(c)
        PROVE  ConcurrentInv'
    <2>1. ToSet(<<>>) = {}
      BY NoEntries
    <2>2. pc'["callback"] # "assign"
      BY <1>2 DEF TakeOffsets, Return
    <2>3. CASE storage = <<>>
      BY <1>2, <2>2, <2>3 DEF TakeOffsets
    <2>4. CASE storage # <<>>
      BY <1>2, <2>1, <2>2, <2>4 DEF TakeOffsets, Cleared
    <2> QED
      BY <2>3, <2>4
  <1>3. ASSUME NEW c \in Callers, CommitSucceeds(c)
        PROVE  ConcurrentInv'
    <2>1. pc'["callback"] # "assign"
      BY <1>3 DEF CommitSucceeds, Return
    <2> QED
      BY <1>3, <2>1, NoEntries DEF CommitSucceeds
  <1>4. ASSUME NEW c \in Callers, CommitFails(c)
        PROVE  ConcurrentInv'
    BY <1>4 DEF CommitFails
  <1>5. ASSUME NEW c \in Callers, RestoreOffsets(c)
        PROVE  ConcurrentInv'
    <2>1. pc'["callback"] # "assign"
      BY <1>5 DEF RestoreOffsets, Return
    <2>2. ToSet(storage') = ToSet(offsetsToCommit[c]) \union ToSet(storage)
      BY <1>5, ConcatEntries DEF RestoreOffsets, Merged
    <2> QED
      BY <1>5, <2>1, <2>2, NoEntries DEF RestoreOffsets
  <1>6. ASSUME NEW p \in Partitions, StoreOffset(p)
        PROVE  ConcurrentInv'
    <2>1. next[p] \in 0..MaxOffset /\ <<p, next[p]>> \in Places
      BY <1>6, OffsetAssumption DEF StoreOffset, Places
    <2>2. ToSet(storage') = ToSet(storage) \union {<<p, next[p]>>}
      BY <1>6, <2>1, AppendEntries DEF StoreOffset
    <2>3. \A q \in Partitions : next[q] <= next'[q]
      BY <1>6 DEF StoreOffset
    <2>4. ~(next[p] < next[p]) /\ next[p] < next'[p]
      BY <1>6, <2>1 DEF StoreOffset
    <2>5. \A c \in Callers : <<p, next[p]>> \notin Held(c)
      BY <2>1, <2>4
    <2>6. offsetsToCommit' = offsetsToCommit /\ pc'["callback"] = pc["callback"]
      BY <1>6 DEF StoreOffset
    <2>7. NoDoubleCommit'
      BY <2>2, <2>5, <2>6
    <2>8. ASSUME NEW q \in Partitions, NEW o \in 0..MaxOffset,
                 <<q, o>> \in ToSet(storage') \union Held("loop")'
                                 \union Held("callback")'
          PROVE  o < next'[q]
      <3>1. CASE <<q, o>> = <<p, next[p]>>
        BY <2>4, <3>1
      <3>2. CASE <<q, o>> # <<p, next[p]>>
        <4>1. o < next[q]
          BY <2>2, <2>6, <2>8, <3>2
        <4>2. next[q] \in Int /\ next'[q] \in Int
          BY <1>6 DEF StoreOffset
        <4> QED
          BY <2>3, <4>1, <4>2
      <3> QED
        BY <3>1, <3>2
    <2> QED
      BY <2>6, <2>7, <2>8
  <1>7. CASE CommitBeforeRetry \/ Shutdown \/ Close
    BY <1>7 DEF CommitBeforeRetry, Shutdown, Close
  <1>8. CASE RevokedPartitions
    BY <1>8 DEF RevokedPartitions, Return
  <1>9. CASE AssignedPartitions
    BY <1>9 DEF AssignedPartitions
  <1> QED
    BY <1>1, <1>2, <1>3, <1>4, <1>5, <1>6, <1>7, <1>8, <1>9 DEF Next

\* Who holds no copy holds no entries.
LEMMA SerialNoDouble == TypeOK /\ SerialInv => NoDoubleCommit
  <1> SUFFICES ASSUME TypeOK, SerialInv PROVE NoDoubleCommit
    OBVIOUS
  <1>1. \A c \in Callers : Held(c) # {} => pc[c] \in {"sending", "restore"}
    BY NoEntries DEF Held, TypeOK
  <1>2. \A c \in Callers : Held(c) # {} => ToSet(storage) = {}
    BY <1>1, NoEntries DEF SerialInv
  <1>3. Held("loop") = {} \/ Held("callback") = {}
    BY <1>1 DEF SerialInv, Committing, Callers
  <1> QED
    BY <1>2, <1>3 DEF NoDoubleCommit

\* The loop and the callback, inside it or beside it, never commit the same
\* offset at the same time, and no offset is stored while it is being
\* committed.
THEOREM CommitsOnce == Spec => []NoDoubleCommit
  <1>1. Init => DoubleInv
    BY NoEntries DEF Init, DoubleInv, ConcurrentInv, SerialInv, Committing,
       NoDoubleCommit, Held, Callers
  <1>2. TypeOK /\ DoubleInv /\ [Next]_vars => DoubleInv'
    BY ConcurrentNext, SerialNext, StaysConcurrent DEF DoubleInv
  <1>3. Spec => []TypeOK
    BY StoreInvariant, PTL
  <1>4. TypeOK /\ DoubleInv => NoDoubleCommit
    BY SerialNoDouble DEF DoubleInv, ConcurrentInv
  <1> QED
    BY <1>1, <1>2, <1>3, <1>4, PTL DEF Spec

-----------------------------------------------------------------------------
(***************************************************************************)
(* To the outside a commit is one step.                                    *)
(***************************************************************************)
\* What is stored or on its way: one of the lists, while the two callers take
\* turns.
Outstanding == offsetsToCommit["loop"] \o offsetsToCommit["callback"] \o storage

\* A list between empty ones.
LEMMA OneList ==
    ASSUME NEW s \in Entries
    PROVE  /\ s \o <<>> \o <<>> = s
           /\ <<>> \o s \o <<>> = s
           /\ <<>> \o <<>> \o s = s
  BY ConcatEmptySeq DEF Entries

\* Of the empty list no partition has a last offset.
LEMMA LastOfNone == \A p : LastOf(<<>>, p) = -1
  BY DEF LastOf

\* Of any other list some partition has.
LEMMA LastOfSome ==
    ASSUME NEW s \in Entries, s # <<>>
    PROVE  \E p \in Partitions : LastOf(s, p) \in 0..MaxOffset
  <1>1. 1 \in DOMAIN s /\ s[1] \in Places /\ Len(s) \in Nat
    BY DEF Entries
  <1> DEFINE p == s[1][1]
             own == {i \in DOMAIN s : s[i][1] = p}
             last == CHOOSE i \in own : \A j \in own : j <= i
  <1>2. p \in Partitions /\ 1 \in own /\ own \subseteq 0..Len(s)
    BY <1>1 DEF Places, Entries
  <1>3. LastOf(s, p) = s[last][2]
    <2>1. own # {}
      BY <1>2
    <2> QED
      BY <2>1 DEF LastOf
  <1>4. last \in own
    <2> HIDE DEF own
    <2>1. \E i \in own : \A j \in own : j <= i
      BY <1>1, <1>2, Largest
    <2> QED
      BY <2>1
  <1>5. last \in DOMAIN s
    BY <1>4
  <1> HIDE DEF last
  <1>6. s[last] \in Places
    BY <1>5 DEF Entries
  <1>7. s[last][2] \in 0..MaxOffset
    BY <1>6 DEF Places
  <1> QED
    BY <1>2, <1>3, <1>7

\* One more entry is the last of its partition, and of no other.
LEMMA LastOfAppend ==
    ASSUME NEW s \in Entries, NEW p \in Partitions, NEW o \in 0..MaxOffset,
           NEW q \in Partitions
    PROVE  LastOf(Append(s, <<p, o>>), q) = IF q = p THEN o ELSE LastOf(s, q)
  <1> DEFINE t == Append(s, <<p, o>>)
             was == {i \in DOMAIN s : s[i][1] = q}
             own == {i \in DOMAIN t : t[i][1] = q}
  <1>1. <<p, o>> \in Places
    BY DEF Places
  <1>2. /\ Len(s) \in Nat /\ DOMAIN s = 1 .. Len(s)
        /\ DOMAIN t = 1 .. Len(s) + 1
        /\ \A i \in 1 .. Len(s) : t[i] = s[i]
        /\ t[Len(s) + 1] = <<p, o>>
    BY <1>1, AppendProperties, AppendEntries DEF Entries
  <1> HIDE DEF t
  <1>3. CASE q = p
    <2>1. Len(s) + 1 \in own /\ \A j \in own : j <= Len(s) + 1
      BY <1>2, <1>3
    <2>2. \A i \in own : (\A j \in own : j <= i) => i = Len(s) + 1
      BY <1>2, <2>1
    <2>3. (CHOOSE i \in own : \A j \in own : j <= i) = Len(s) + 1
      <3> HIDE DEF own
      <3> QED
        BY <2>1, <2>2
    <2>4. LastOf(t, q) = t[Len(s) + 1][2]
      <3>1. own # {}
        BY <2>1
      <3> QED
        BY <2>3, <3>1 DEF LastOf
    <2> QED
      BY <1>2, <1>3, <2>4 DEF t
  <1>4. CASE q # p
    <2>1. own = was
      BY <1>2, <1>4
    <2>2. CASE was = {}
      BY <1>4, <2>1, <2>2 DEF LastOf, t
    <2>3. CASE was # {}
      <3> DEFINE last == CHOOSE i \in was : \A j \in was : j <= i
      <3>1. last \in was
        <4>1. was \in SUBSET (0..Len(s))
          BY <1>2
        <4> HIDE DEF was
        <4>2. \E i \in was : \A j \in was : j <= i
          BY <1>2, <2>3, <4>1, Largest
        <4> QED
          BY <4>2
      <3>2. LastOf(s, q) = s[last][2]
        BY <2>3 DEF LastOf
      <3>3. LastOf(t, q) = t[last][2]
        BY <2>1, <2>3 DEF LastOf
      <3>4. last \in 1 .. Len(s)
        BY <1>2, <3>1
      <3> HIDE DEF last
      <3> QED
        BY <1>2, <1>4, <3>2, <3>3, <3>4 DEF t
    <2> QED
      BY <2>2, <2>3
  <1> QED
    BY <1>3, <1>4

\* The caller that sends holds everything; if none sends, the storage does.
LEMMA OutstandingIs ==
    ASSUME TypeOK, SerialInv
    PROVE  /\ \A c \in Callers :
                 pc[c] \in {"sending", "restore"} => Outstanding = offsetsToCommit[c]
           /\ (\A c \in Callers : pc[c] \notin {"sending", "restore"})
                 => Outstanding = storage
  <1>1. /\ offsetsToCommit["loop"] \in Entries /\ offsetsToCommit["callback"] \in Entries
        /\ storage \in Entries
    BY DEF TypeOK, Callers
  <1>2. CASE pc["loop"] \in {"sending", "restore"}
    <2>1. offsetsToCommit["callback"] = <<>> /\ storage = <<>>
          /\ pc["callback"] \notin {"sending", "restore"}
      BY <1>2 DEF TypeOK, SerialInv, Committing, Callers
    <2> QED
      BY <1>1, <1>2, <2>1, OneList DEF Outstanding, Callers
  <1>3. CASE pc["callback"] \in {"sending", "restore"}
    <2>1. offsetsToCommit["loop"] = <<>> /\ storage = <<>>
          /\ pc["loop"] \notin {"sending", "restore"}
      BY <1>3 DEF TypeOK, SerialInv, Committing, Callers
    <2> QED
      BY <1>1, <1>3, <2>1, OneList DEF Outstanding, Callers
  <1>4. CASE \A c \in Callers : pc[c] \notin {"sending", "restore"}
    <2>1. offsetsToCommit["loop"] = <<>> /\ offsetsToCommit["callback"] = <<>>
      BY <1>4 DEF TypeOK, Callers
    <2> QED
      BY <1>1, <1>4, <2>1, OneList DEF Outstanding, Callers
  <1> QED
    BY <1>2, <1>3, <1>4 DEF Callers


\* A step that moves entries, or none, is no step to the outside.
LEMMA OutsideStays ==
    ASSUME ~concurrent, ~concurrent', Outstanding' = Outstanding,
           committed' = committed
    PROVE  UNCHANGED C!vars
  <1>1. [p \in Partitions |-> LastOf(Outstanding, p)]'
            = [p \in Partitions |-> LastOf(Outstanding, p)]
    BY DEF LastOf
  <1> QED
    BY <1>1 DEF C!vars, Outstanding

\* A finished message changes what is pending of its partition.
LEMMA OutsideStore ==
    ASSUME ~concurrent, ~concurrent', TypeOK, committed' = committed,
           NEW p \in Partitions, NEW o \in 0..MaxOffset, storage \in Entries,
           Outstanding = storage, Outstanding' = Append(storage, <<p, o>>)
    PROVE  C!Store
  <1> DEFINE before == [q \in Partitions |-> LastOf(Outstanding, q)]
             after  == [q \in Partitions |-> LastOf(Outstanding', q)]
  <1>1. after = [before EXCEPT ![p] = o]
    <2>1. \A q \in Partitions :
              LastOf(Outstanding', q) = IF q = p THEN o ELSE LastOf(Outstanding, q)
      BY LastOfAppend
    <2> QED
      BY <2>1
  <1>2. after[p] = o /\ o \in Nat
    BY <1>1, OffsetAssumption
  <1>3. after = [before EXCEPT ![p] = after[p]]
    BY <1>1, <1>2
  <1> QED
    BY <1>2, <1>3 DEF C!Store, Outstanding

\* A commit that the broker applies is that of what is pending.
LEMMA OutsideCommit ==
    ASSUME ~concurrent, ~concurrent', Outstanding \in Entries, Outstanding # <<>>,
           committed' = Overlay(Outstanding),
           Outstanding' = <<>> \/ Outstanding' = Outstanding
    PROVE  C!Next
  <1> DEFINE before == [q \in Partitions |-> LastOf(Outstanding, q)]
             after  == [q \in Partitions |-> LastOf(Outstanding', q)]
  <1>1. before # Nothing
    <2>1. PICK q \in Partitions : LastOf(Outstanding, q) \in 0..MaxOffset
      BY LastOfSome
    <2>2. before[q] # -1 /\ Nothing[q] = -1
      BY <2>1, OffsetAssumption DEF Nothing
    <2> QED
      BY <2>2
  <1>2. committed' = [q \in Partitions |->
                        IF before[q] = -1 THEN committed[q] ELSE before[q]]
    BY DEF Overlay
  <1>3. Outstanding' = <<>> => after = Nothing
    BY LastOfNone DEF Nothing
  <1>4. Outstanding' = Outstanding => after = before
    OBVIOUS
  <1>5. CASE Outstanding' = <<>>
    BY <1>1, <1>2, <1>3, <1>5
    DEF C!Next, C!CommitSucceeds, C!Overlay, C!Nothing, Outstanding, Nothing
  <1>6. CASE Outstanding' = Outstanding
    BY <1>1, <1>2, <1>4, <1>6
    DEF C!Next, C!CommitFails, C!Overlay, C!Nothing, Outstanding, Nothing
  <1> QED
    BY <1>5, <1>6

\* Every step is one step to the outside, or none.
LEMMA OutsideNext ==
    ASSUME ~concurrent, ~concurrent', TypeOK, TypeOK', SerialInv, SerialInv', Next
    PROVE  [C!Next]_(C!vars)
  <1>1. ASSUME NEW c \in Callers, TakeOffsets(c)
        PROVE  UNCHANGED C!vars
    <2>1. \A d \in Callers : pc[d] \notin {"sending", "restore"}
      BY <1>1 DEF TakeOffsets, SerialInv, Committing, Callers
    <2>2. Outstanding = storage /\ storage \in Entries
      BY <2>1, OutstandingIs DEF TypeOK
    <2>3. CASE storage = <<>>
      BY <1>1, <2>3, OutsideStays DEF TakeOffsets, Outstanding
    <2>4. CASE storage # <<>>
      <3>1. /\ offsetsToCommit' = [offsetsToCommit EXCEPT ![c] = storage]
            /\ storage' = <<>> /\ committed' = committed
        BY <1>1, <2>4 DEF TakeOffsets, Cleared
      <3>2. \A d \in Callers : offsetsToCommit[d] = <<>>
        BY <2>1 DEF TypeOK
      <3>3. \A d \in Callers : offsetsToCommit'[d] = IF d = c THEN storage ELSE <<>>
        BY <3>1, <3>2 DEF TypeOK
      <3>4. Outstanding' = storage
        BY <2>2, <3>1, <3>3, OneList DEF Outstanding, Callers
      <3> QED
        BY <2>2, <3>1, <3>4, OutsideStays
    <2> QED
      BY <2>3, <2>4
  <1>2. ASSUME NEW c \in Callers, pc[c] = "sending"
        PROVE  /\ Outstanding = offsetsToCommit[c]
               /\ Outstanding \in Entries /\ Outstanding # <<>>
    BY <1>2, OutstandingIs DEF TypeOK
  <1>3. ASSUME NEW c \in Callers, CommitSucceeds(c)
        PROVE  C!Next
    <2>1. /\ committed' = Overlay(offsetsToCommit[c])
          /\ offsetsToCommit' = [offsetsToCommit EXCEPT ![c] = <<>>]
          /\ storage' = storage /\ pc[c] = "sending"
      BY <1>3 DEF CommitSucceeds, Applies
    <2>2. /\ \A d \in Callers : offsetsToCommit'[d] = <<>>
          /\ storage' = <<>>
      BY <2>1 DEF TypeOK, SerialInv, Committing, Callers
    <2>3. Outstanding' = <<>>
      BY <2>2, NoEntries, OneList DEF Outstanding, Callers
    <2> QED
      BY <1>2, <2>1, <2>3, OutsideCommit
  <1>4. ASSUME NEW c \in Callers, CommitFails(c)
        PROVE  [C!Next]_(C!vars)
    <2>1. Outstanding' = Outstanding /\ pc[c] = "sending"
      BY <1>4 DEF CommitFails, Outstanding
    <2>2. CASE committed' = committed
      BY <2>1, <2>2, OutsideStays
    <2>3. CASE committed' = Overlay(offsetsToCommit[c])
      BY <1>2, <2>1, <2>3, OutsideCommit
    <2> QED
      BY <1>4, <2>2, <2>3 DEF CommitFails, Applies
  <1>5. ASSUME NEW c \in Callers, RestoreOffsets(c)
        PROVE  UNCHANGED C!vars
    <2>1. /\ storage' = offsetsToCommit[c] \o storage
          /\ offsetsToCommit' = [offsetsToCommit EXCEPT ![c] = <<>>]
          /\ pc[c] = "restore" /\ committed' = committed
      BY <1>5 DEF RestoreOffsets, Merged
    <2>2. /\ storage = <<>> /\ offsetsToCommit[c] \in Entries
          /\ Outstanding = offsetsToCommit[c]
      BY <2>1, OutstandingIs DEF TypeOK, SerialInv
    <2>3. storage' = offsetsToCommit[c]
      BY <2>1, <2>2, ConcatEmptySeq DEF Entries
    <2>4. \A d \in Callers : offsetsToCommit'[d] = <<>>
      BY <2>1 DEF TypeOK, SerialInv, Committing, Callers
    <2>5. Outstanding' = Outstanding
      BY <2>2, <2>3, <2>4, OneList DEF Outstanding, Callers
    <2> QED
      BY <2>1, <2>5, OutsideStays
  <1>6. ASSUME NEW p \in Partitions, StoreOffset(p)
        PROVE  C!Next
    <2>1. /\ storage' = Append(storage, <<p, next[p]>>)
          /\ offsetsToCommit' = offsetsToCommit /\ committed' = committed
          /\ pc["loop"] = "poll" /\ pc["callback"] = "idle"
          /\ next[p] \in 0..MaxOffset
      BY <1>6, OffsetAssumption DEF StoreOffset, LoopRuns, TypeOK
    <2>2. \A d \in Callers : offsetsToCommit[d] = <<>>
      BY <2>1 DEF TypeOK, Callers
    <2>3. storage \in Entries /\ storage' \in Entries
      BY DEF TypeOK
    <2>4. Outstanding = storage /\ Outstanding' = storage'
      BY <2>1, <2>2, <2>3, OneList DEF Outstanding, Callers
    <2> QED
      BY <2>1, <2>3, <2>4, OutsideStore DEF C!Next
  <1>7. CASE CommitBeforeRetry \/ Shutdown \/ Close \/ RevokedPartitions
                 \/ AssignedPartitions
    <2>1. Outstanding' = Outstanding /\ committed' = committed
      BY <1>7 DEF CommitBeforeRetry, Shutdown, Close, RevokedPartitions,
                  AssignedPartitions, Outstanding
    <2> QED
      BY <2>1, OutsideStays
  <1> QED
    BY <1>1, <1>3, <1>4, <1>5, <1>6, <1>7 DEF Next

\* The copies, the lock and the merging are to the outside commits in one step
\* of the last offset of each partition, as InventoryConsumer has them.
THEOREM CommitsAreAtomic == Spec => ImplementsCommits
  <1> DEFINE StepInv == TypeOK /\ KeptInv /\ (~concurrent => SerialInv)
  <1>1. Init => C!Init
    <2> SUFFICES ASSUME Init PROVE C!Init
      OBVIOUS
    <2>1. Outstanding = <<>>
      BY NoEntries, OneList DEF Init, Outstanding, Callers
    <2>2. [p \in Partitions |-> LastOf(Outstanding, p)] = Nothing
      BY <2>1, LastOfNone DEF Nothing
    <2> QED
      BY <2>2 DEF C!Init, C!Nothing, Init, Outstanding, Nothing
  <1>2. Init => StepInv
    <2>1. Init => SerialInv
      BY DEF Init, SerialInv, Committing, Callers
    <2> QED
      BY <2>1, StoreInit
  <1>3. StepInv /\ [Next]_vars => StepInv'
    BY StoreTypes, KeptNext, SerialNext, StaysConcurrent
  <1>4. StepInv /\ StepInv' /\ [Next]_vars => [C!Next]_(C!vars)
    <2> SUFFICES ASSUME StepInv, StepInv', [Next]_vars PROVE [C!Next]_(C!vars)
      OBVIOUS
    <2>1. concurrent' = concurrent
      BY StaysConcurrent
    <2>2. CASE concurrent
      BY <2>1, <2>2 DEF C!vars, Nothing
    <2>3. CASE ~concurrent /\ UNCHANGED vars
      <3>1. Outstanding' = Outstanding /\ committed' = committed
        BY <2>3 DEF vars, Outstanding
      <3> QED
        BY <2>1, <2>3, <3>1, OutsideStays
    <2>4. CASE ~concurrent /\ Next
      BY <2>1, <2>4, OutsideNext
    <2> QED
      BY <2>2, <2>3, <2>4
  <1> HIDE DEF StepInv
  <1> QED
    BY <1>1, <1>2, <1>3, <1>4, PTL DEF Spec, ImplementsCommits, C!Spec

-----------------------------------------------------------------------------
(***************************************************************************)
(* What piles up.                                                          *)
(***************************************************************************)
\* What may be stored between two commits that are tried: of each partition
\* less than CommitModulo offsets in a row, and one that is a boundary.
Batch == Cardinality(Partitions) * (CommitModulo - 1) + 1

\* What may be left of the commits that failed.
Allowance(n) == n * Batch

\* How far the offset to be read next is past the last boundary.
Ahead(n) == IF n = 0 THEN 0 ELSE (n - 1) % CommitModulo

\* As many pairs of each partition.
Recent == {x \in Partitions \X (1 .. CommitModulo - 1) : x[2] <= Ahead(next[x[1]])}

\* What is stored, and what a caller holds; all of it.
StoredLen == Len(storage)
HeldLen(c) == Len(offsetsToCommit[c])
Backlog == StoredLen + HeldLen("loop") + HeldLen("callback")

\* Whenever the loop polls, it stored no more since a commit was last tried
\* than it is ahead of the boundaries; a commit that failed pays for all that
\* was stored before it, so that going back, when partitions are assigned
\* again, costs nothing.
BacklogInv ==
    /\ Backlog <= Allowance(failures + 1)
    /\ pc["loop"] = "poll" /\ pc["callback"] = "idle" =>
           Backlog <= Allowance(failures) + Cardinality(Recent)
    /\ pc["callback"] = "assign" \/ (\E c \in Callers : pc[c] = "restore") =>
           Backlog <= Allowance(failures)

LEMMA AllowanceSteps ==
    /\ Batch \in Nat \ {0} /\ Allowance(0) = 0
    /\ Cardinality(Partitions) \in Nat
    /\ \A n \in Nat : /\ Allowance(n) \in Nat
                      /\ Allowance(n + 1) = Allowance(n) + Batch
  <1>1. Cardinality(Partitions) \in Nat
    BY OffsetAssumption, FS_CardinalityType
  <1>2. Cardinality(Partitions) * (CommitModulo - 1) \in Nat
    BY <1>1, OffsetAssumption
  <1>3. Batch \in Nat \ {0}
    BY <1>2 DEF Batch
  <1>4. \A n \in Nat : n * Batch \in Nat /\ (n + 1) * Batch = n * Batch + Batch
    BY <1>3
  <1>5. 0 * Batch = 0
    BY <1>3
  <1> QED
    BY <1>1, <1>3, <1>4, <1>5 DEF Allowance

\* What is left when a multiple of a number and less than it are divided by it.
LEMMA Remainder ==
    ASSUME NEW q \in Nat, NEW i \in 0 .. CommitModulo - 1
    PROVE  (CommitModulo * q + i) % CommitModulo = i
  <1>1. (i + q * CommitModulo) % CommitModulo = i
    BY OffsetAssumption
  <1> QED
    BY <1>1, OffsetAssumption

\* From one offset to the next the distance to the last boundary grows by one,
\* until the next boundary.
LEMMA AheadGrows ==
    ASSUME NEW n \in Nat, ~CheckIfCommit(n)
    PROVE  /\ n # 0
           /\ Ahead(n) \in 0 .. CommitModulo - 2
           /\ Ahead(n + 1) = Ahead(n) + 1
  <1>1. n # 0
    <2>1. 0 % CommitModulo = 0
      BY OffsetAssumption
    <2> QED
      BY <2>1 DEF CheckIfCommit
  <1> DEFINE k == n - 1
             q == k \div CommitModulo
             i == k % CommitModulo
  <1>2. k \in Nat /\ n = k + 1
    BY <1>1
  <1>3. q \in Nat /\ i \in 0 .. CommitModulo - 1 /\ k = CommitModulo * q + i
    BY <1>2, OffsetAssumption
  <1> HIDE DEF q, i
  <1>4. i # CommitModulo - 1
    <2> SUFFICES ASSUME i = CommitModulo - 1 PROVE n % CommitModulo = 0
      BY DEF CheckIfCommit
    <2>1. n = CommitModulo * (q + 1) + 0
      BY <1>2, <1>3, OffsetAssumption
    <2>2. q + 1 \in Nat /\ 0 \in 0 .. CommitModulo - 1
      BY <1>3, OffsetAssumption
    <2> QED
      BY <2>1, <2>2, Remainder
  <1>5. i + 1 \in 0 .. CommitModulo - 1
    BY <1>3, <1>4, OffsetAssumption
  <1>6. n % CommitModulo = i + 1
    <2>1. n = CommitModulo * q + (i + 1)
      BY <1>2, <1>3, OffsetAssumption
    <2> QED
      BY <1>3, <1>5, <2>1, Remainder
  <1>7. Ahead(n) = i /\ Ahead(n + 1) = n % CommitModulo
    BY <1>1 DEF Ahead, i
  <1> QED
    BY <1>1, <1>3, <1>4, <1>6, <1>7, OffsetAssumption

\* Recent pairs are fewer than a batch.
LEMMA RecentBounded ==
    /\ IsFiniteSet(Recent) /\ Cardinality(Recent) \in Nat
    /\ Cardinality(Recent) + 1 <= Batch
  <1> DEFINE Ahead1 == 1 .. CommitModulo - 1
             All == Partitions \X Ahead1
  <1>1. IsFiniteSet(Ahead1) /\ Cardinality(Ahead1) = CommitModulo - 1
    <2>1. 1 \in Int /\ CommitModulo - 1 \in Int
      BY OffsetAssumption
    <2>2. IsFiniteSet(Ahead1)
          /\ Cardinality(Ahead1)
                = IF 1 > CommitModulo - 1 THEN 0 ELSE (CommitModulo - 1) - 1 + 1
      BY <2>1, FS_Interval
    <2> QED
      BY <2>2, OffsetAssumption
  <1> HIDE DEF Ahead1
  <1>2. IsFiniteSet(All)
        /\ Cardinality(All) = Cardinality(Partitions) * (CommitModulo - 1)
    BY <1>1, OffsetAssumption, FS_Product
  <1>3. Recent \in SUBSET All
    BY DEF Recent, Ahead1
  <1> HIDE DEF All
  <1>4. IsFiniteSet(Recent) /\ Cardinality(Recent) <= Cardinality(All)
    BY <1>2, <1>3, FS_Subset
  <1>5. Cardinality(Recent) \in Nat /\ Cardinality(All) \in Nat
    BY <1>2, <1>4, FS_CardinalityType
  <1> QED
    BY <1>2, <1>4, <1>5 DEF Batch

\* The lists have lengths, and an empty one has none.
LEMMA Lengths ==
    ASSUME TypeOK
    PROVE  /\ StoredLen \in Nat /\ Backlog \in Nat
           /\ \A c \in Callers : /\ HeldLen(c) \in Nat
                                 /\ offsetsToCommit[c] = <<>> => HeldLen(c) = 0
           /\ storage = <<>> => StoredLen = 0
  <1>1. StoredLen \in Nat /\ (storage = <<>> => StoredLen = 0)
    BY DEF TypeOK, Entries, StoredLen
  <1>2. \A c \in Callers : /\ HeldLen(c) \in Nat
                           /\ offsetsToCommit[c] = <<>> => HeldLen(c) = 0
    BY DEF TypeOK, Entries, HeldLen
  <1>3. HeldLen("loop") \in Nat /\ HeldLen("callback") \in Nat
    BY <1>2 DEF Callers
  <1>4. Backlog \in Nat
    BY <1>1, <1>3 DEF Backlog
  <1> QED
    BY <1>1, <1>2, <1>4

\* The same after a step.
LEMMA LengthsNext ==
    ASSUME TypeOK'
    PROVE  /\ StoredLen' \in Nat /\ Backlog' \in Nat
           /\ \A c \in Callers : /\ HeldLen(c)' \in Nat
                                 /\ offsetsToCommit'[c] = <<>> => HeldLen(c)' = 0
           /\ storage' = <<>> => StoredLen' = 0
  <1>1. StoredLen' \in Nat /\ (storage' = <<>> => StoredLen' = 0)
    BY DEF TypeOK, Entries, StoredLen
  <1>2. \A c \in Callers : /\ HeldLen(c)' \in Nat
                           /\ offsetsToCommit'[c] = <<>> => HeldLen(c)' = 0
    BY DEF TypeOK, Entries, HeldLen
  <1>3. HeldLen("loop")' \in Nat /\ HeldLen("callback")' \in Nat
    BY <1>2 DEF Callers
  <1>4. Backlog' \in Nat
    BY <1>1, <1>3 DEF Backlog
  <1> QED
    BY <1>1, <1>2, <1>4

\* A backlog of nothing is always allowed, and so is one within the allowance
\* of the failures.
LEMMA BacklogWithin ==
    ASSUME failures' \in Nat, Backlog' \in Nat, Backlog' <= Allowance(failures')
    PROVE  BacklogInv'
  <1>1. Cardinality(Recent)' \in Nat
    <2>1. Recent' \subseteq Partitions \X (1 .. CommitModulo - 1)
      BY DEF Recent
    <2>2. IsFiniteSet(Partitions \X (1 .. CommitModulo - 1))
      <3>1. 1 \in Int /\ CommitModulo - 1 \in Int
        BY OffsetAssumption
      <3>2. IsFiniteSet(1 .. CommitModulo - 1)
        BY <3>1, FS_Interval
      <3> QED
        BY <3>2, OffsetAssumption, FS_Product
    <2> QED
      BY <2>1, <2>2, FS_Subset, FS_CardinalityType
  <1>2. /\ Allowance(failures') \in Nat /\ Batch \in Nat
        /\ Allowance(failures' + 1) = Allowance(failures') + Batch
    BY AllowanceSteps
  <1> QED
    BY <1>1, <1>2 DEF BacklogInv

\* The steps of a commit: a list is taken, sent and put back as it is; a
\* failure raises the allowance, a success leaves nothing.
LEMMA BacklogCommit ==
    ASSUME ~concurrent, TypeOK, TypeOK', SerialInv, BacklogInv, NEW c \in Callers,
           TakeOffsets(c) \/ CommitSucceeds(c) \/ CommitFails(c) \/ RestoreOffsets(c)
    PROVE  BacklogInv'
  <1>1. failures \in Nat /\ failures' \in Nat
    BY DEF TypeOK
  <1>2. Backlog' \in Nat
    BY LengthsNext
  <1>3. \A d \in Callers \ {c} : pc[c] \in {"commit", "sending", "restore"} =>
            offsetsToCommit[d] = <<>>
    BY DEF TypeOK, SerialInv, Committing, Callers
  <1>4. CASE TakeOffsets(c)
    <2>1. \A d \in Callers : offsetsToCommit[d] = <<>>
      BY <1>3, <1>4 DEF TakeOffsets, TypeOK
    <2>2. CASE storage = <<>>
      <3>1. storage' = <<>> /\ \A d \in Callers : offsetsToCommit'[d] = <<>>
        BY <1>4, <2>1, <2>2 DEF TakeOffsets
      <3>2. Backlog' = 0
        BY <3>1, LengthsNext DEF Backlog, Callers
      <3> QED
        BY <1>1, <1>2, <3>2, BacklogWithin, AllowanceSteps
    <2>3. CASE storage # <<>>
      <3>1. /\ offsetsToCommit' = [offsetsToCommit EXCEPT ![c] = storage]
            /\ storage' = <<>> /\ failures' = failures
            /\ pc' = [pc EXCEPT ![c] = "sending"] /\ pc[c] = "commit"
        BY <1>4, <2>3 DEF TakeOffsets, Cleared
      <3>2. \A d \in Callers : offsetsToCommit'[d] = IF d = c THEN storage ELSE <<>>
        BY <2>1, <3>1 DEF TypeOK
      <3>3. Backlog' = Backlog
        <4>1. HeldLen(c)' = StoredLen
          BY <3>2 DEF HeldLen, StoredLen
        <4> QED
          BY <2>1, <3>1, <3>2, <4>1, Lengths, LengthsNext DEF Backlog, Callers
      <3>4. /\ ~(pc'["loop"] = "poll" /\ pc'["callback"] = "idle")
            /\ pc'["callback"] # "assign" /\ \A d \in Callers : pc'[d] # "restore"
        BY <3>1 DEF TypeOK, SerialInv, Committing, Callers
      <3> QED
        BY <3>1, <3>3, <3>4 DEF BacklogInv
    <2> QED
      BY <2>2, <2>3
  <1>5. CASE CommitSucceeds(c)
    <2>1. /\ \A d \in Callers : offsetsToCommit'[d] = <<>>
          /\ storage' = <<>>
      BY <1>3, <1>5 DEF CommitSucceeds, TypeOK, SerialInv
    <2>2. Backlog' = 0
      BY <2>1, LengthsNext DEF Backlog, Callers
    <2> QED
      BY <1>1, <1>2, <2>2, BacklogWithin, AllowanceSteps
  <1>6. CASE CommitFails(c)
    <2>1. Backlog' = Backlog /\ failures' = failures + 1
      BY <1>6 DEF CommitFails, Backlog, StoredLen, HeldLen
    <2> QED
      BY <1>1, <1>2, <2>1, BacklogWithin DEF BacklogInv
  <1>7. CASE RestoreOffsets(c)
    <2>1. /\ storage' = offsetsToCommit[c] \o storage /\ failures' = failures
          /\ \A d \in Callers :
                offsetsToCommit'[d] = IF d = c THEN <<>> ELSE offsetsToCommit[d]
          /\ pc[c] = "restore"
      BY <1>7 DEF RestoreOffsets, Merged, TypeOK
    <2>2. StoredLen' = HeldLen(c) + StoredLen
      BY <2>1, ConcatProperties DEF TypeOK, Entries, StoredLen, HeldLen
    <2>3. HeldLen(c)' = 0 /\ \A d \in Callers \ {c} : HeldLen(d)' = HeldLen(d)
      BY <2>1, LengthsNext DEF HeldLen
    <2>4. Backlog' = Backlog
      BY <2>2, <2>3, Lengths DEF Backlog, Callers
    <2> QED
      BY <1>1, <1>2, <2>1, <2>4, BacklogWithin DEF BacklogInv
  <1> QED
    BY <1>4, <1>5, <1>6, <1>7

\* A finished message is one past the last boundary more, or the boundary that
\* a commit is tried at.
LEMMA BacklogStore ==
    ASSUME ~concurrent, TypeOK, SerialInv, BacklogInv,
           NEW p \in Partitions, StoreOffset(p)
    PROVE  BacklogInv'
  <1> DEFINE n == next[p]
  <1>1. /\ n \in Nat /\ <<p, n>> \in Places
        /\ storage' = Append(storage, <<p, n>>)
        /\ offsetsToCommit' = offsetsToCommit /\ failures' = failures
        /\ next' = [next EXCEPT ![p] = n + 1]
        /\ pc["loop"] = "poll" /\ pc["callback"] = "idle"
        /\ pc' = [pc EXCEPT !["loop"] = IF CheckIfCommit(n) THEN "commit" ELSE "poll"]
    BY OffsetAssumption DEF StoreOffset, LoopRuns, TypeOK, Places
  <1>2. StoredLen' = StoredLen + 1 /\ \A c \in Callers : HeldLen(c)' = HeldLen(c)
    BY <1>1, AppendProperties DEF TypeOK, Entries, StoredLen, HeldLen
  <1>3. Backlog \in Nat /\ Backlog' = Backlog + 1
    BY <1>1, <1>2, Lengths DEF Backlog, Callers
  <1>4. Backlog <= Allowance(failures) + Cardinality(Recent)
    BY <1>1 DEF BacklogInv
  <1>5. /\ failures \in Nat /\ Allowance(failures) \in Nat /\ Batch \in Nat
        /\ Allowance(failures + 1) = Allowance(failures) + Batch
        /\ Cardinality(Recent) \in Nat /\ Cardinality(Recent) + 1 <= Batch
    BY AllowanceSteps, RecentBounded DEF TypeOK
  <1>6. Backlog' <= Allowance(failures' + 1)
    BY <1>1, <1>3, <1>4, <1>5
  <1>7. /\ pc'["callback"] = "idle" /\ \A c \in Callers : pc'[c] # "restore"
        /\ CheckIfCommit(n) => pc'["loop"] # "poll"
    BY <1>1 DEF TypeOK, Callers
  <1>8. CASE ~CheckIfCommit(n)
    <2> DEFINE x == <<p, Ahead(n) + 1>>
    <2>1. /\ Ahead(n) \in 0 .. CommitModulo - 2
          /\ Ahead(n + 1) = Ahead(n) + 1
      BY <1>1, <1>8, AheadGrows
    <2>2. next'[p] = n + 1 /\ \A q \in Partitions \ {p} : next'[q] = next[q]
      BY <1>1 DEF TypeOK
    <2>3. x \in Partitions \X (1 .. CommitModulo - 1) /\ x \notin Recent
      BY <2>1, OffsetAssumption DEF Recent
    <2>4. Recent' = Recent \union {x}
      <3>1. ASSUME NEW q \in Partitions, NEW i \in 1 .. CommitModulo - 1
            PROVE  <<q, i>> \in Recent' <=> <<q, i>> \in Recent \union {x}
        <4>1. /\ <<q, i>> \in Recent <=> i <= Ahead(next[q])
              /\ <<q, i>> \in Recent' <=> i <= Ahead(next'[q])
          BY DEF Recent
        <4>2. CASE q = p
          <5>1. i <= Ahead(n) + 1 <=> i <= Ahead(n) \/ i = Ahead(n) + 1
            BY <2>1
          <5> QED
            BY <2>1, <2>2, <4>1, <4>2, <5>1
        <4>3. CASE q # p
          BY <2>2, <4>1, <4>3
        <4> QED
          BY <4>2, <4>3
      <3>2. /\ Recent \subseteq Partitions \X (1 .. CommitModulo - 1)
            /\ Recent' \subseteq Partitions \X (1 .. CommitModulo - 1)
        BY DEF Recent
      <3> HIDE DEF x
      <3> QED
        BY <2>3, <3>1, <3>2
    <2>5. Cardinality(Recent') = Cardinality(Recent) + 1
      BY <2>3, <2>4, RecentBounded, FS_AddElement
    <2>6. Backlog' <= Allowance(failures') + Cardinality(Recent')
      BY <1>1, <1>3, <1>4, <1>5, <2>5
    <2> QED
      BY <1>6, <1>7, <2>6 DEF BacklogInv
  <1>9. CASE CheckIfCommit(n)
    BY <1>6, <1>7, <1>9 DEF BacklogInv
  <1> QED
    BY <1>8, <1>9

\* Every step keeps the backlog in bounds.
LEMMA BacklogNext ==
    ASSUME ~concurrent, TypeOK, TypeOK', SerialInv, BacklogInv, [Next]_vars
    PROVE  BacklogInv'
  <1>1. /\ failures \in Nat /\ failures' \in Nat /\ Backlog \in Nat
        /\ Allowance(failures) \in Nat /\ Cardinality(Recent) \in Nat /\ Batch \in Nat
        /\ Allowance(failures + 1) = Allowance(failures) + Batch
    BY Lengths, AllowanceSteps, RecentBounded DEF TypeOK
  <1>2. CASE UNCHANGED vars
    BY <1>2 DEF vars, BacklogInv, Backlog, StoredLen, HeldLen, Recent
  <1>3. ASSUME NEW c \in Callers,
               TakeOffsets(c) \/ CommitSucceeds(c) \/ CommitFails(c)
                   \/ RestoreOffsets(c)
        PROVE  BacklogInv'
    BY <1>3, BacklogCommit
  <1>4. ASSUME NEW p \in Partitions, StoreOffset(p)
        PROVE  BacklogInv'
    BY <1>4, BacklogStore
  <1>5. CASE CommitBeforeRetry \/ Shutdown \/ Close
    <2>1. /\ Backlog' = Backlog /\ failures' = failures
          /\ pc'["callback"] = pc["callback"] /\ pc["callback"] = "idle"
          /\ pc'["loop"] \notin {"poll", "restore"}
      BY <1>5 DEF CommitBeforeRetry, Shutdown, Close, LoopRuns, Backlog,
                  StoredLen, HeldLen, TypeOK, Callers
    <2> QED
      BY <2>1 DEF BacklogInv, Callers
  <1>6. CASE RevokedPartitions
    <2>1. /\ Backlog' = Backlog /\ failures' = failures /\ Recent' = Recent
          /\ pc'["loop"] = pc["loop"] /\ pc["callback"] = "idle"
          /\ pc["loop"] \in {"poll", "closing"}
          /\ pc'["callback"] \in {"idle", "assign", "commit"}
          /\ pc'["callback"] = "assign" => storage = <<>>
      BY <1>6 DEF RevokedPartitions, CallbackRuns, Return, Backlog, StoredLen, HeldLen,
                  Recent, TypeOK, Callers
    <2>2. CASE pc'["callback"] = "assign"
      <3>1. \A c \in Callers : offsetsToCommit[c] = <<>>
        BY <2>1 DEF TypeOK, Callers
      <3>2. Backlog = 0
        BY <2>1, <2>2, <3>1, Lengths DEF Backlog, Callers
      <3> QED
        BY <1>1, <2>1, <3>2, BacklogWithin
    <2>3. CASE pc'["callback"] # "assign"
      BY <2>1, <2>3 DEF BacklogInv, Callers
    <2> QED
      BY <2>2, <2>3
  <1>7. CASE AssignedPartitions
    <2>1. Backlog' = Backlog /\ failures' = failures /\ pc["callback"] = "assign"
      BY <1>7 DEF AssignedPartitions, Backlog, StoredLen, HeldLen
    <2>2. Backlog' <= Allowance(failures')
      BY <2>1 DEF BacklogInv
    <2> QED
      BY <1>1, <2>1, <2>2, BacklogWithin
  <1> QED
    BY <1>2, <1>3, <1>4, <1>5, <1>6, <1>7 DEF Next

\* What piles up while commits fail grows with the commits that were tried,
\* not with the messages that were read.
THEOREM StorageStaysBounded == Spec => []StorageBounded
  <1> DEFINE StepInv == TypeOK /\ KeptInv /\ (~concurrent => SerialInv /\ BacklogInv)
  <1>1. Init => StepInv
    <2> SUFFICES ASSUME Init PROVE StepInv
      OBVIOUS
    <2>1. TypeOK /\ KeptInv /\ SerialInv
      BY StoreInit DEF Init, SerialInv, Committing, Callers
    <2>2. Backlog = 0 /\ failures = 0
      BY <2>1, Lengths DEF Init, Backlog, Callers
    <2>3. BacklogInv
      BY <2>2, AllowanceSteps, RecentBounded DEF BacklogInv
    <2> QED
      BY <2>1, <2>3
  <1>2. StepInv /\ [Next]_vars => StepInv'
    BY StoreTypes, KeptNext, SerialNext, BacklogNext, StaysConcurrent
  <1>3. StepInv => StorageBounded
    BY DEF StorageBounded, BacklogInv, Backlog, StoredLen, HeldLen, Allowance, Batch
  <1> HIDE DEF StepInv
  <1> QED
    BY <1>1, <1>2, <1>3, PTL DEF Spec

=============================================================================
