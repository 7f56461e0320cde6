---------------------------- MODULE MutexProofs ----------------------------
(***************************************************************************)
(* Mutual exclusion of arch/x86/mutex.c for any finite set of threads.     *)
(* The hand-over does not pass on the mutex: a woken contender takes it    *)
(* when it finds 1 in mutex->state.  That this 1 is its own, and nobody    *)
(* else's, is what StateCounts says, so the two are proved together.       *)
(***************************************************************************)
EXTENDS Mutex, FiniteSetTheorems, SequenceTheorems, TLAPS

MutexInv == MutexTypeOK /\ StateCounts /\ MutualExclusion /\ OwnerKnown

CountedThreads == {t \in Threads : pc[t] \in Counted}

\* A step of thread t changes the number of counted threads by what it does
\* to t alone; 0 means that no thread is counted, 1 that a counted one is the
\* only one.
LEMMA Recount ==
    ASSUME MutexTypeOK, NEW t \in Threads, NEW p \in Points, Go(t, p)
    PROVE  /\ Cardinality(CountedThreads) \in Nat
           /\ Cardinality(CountedThreads') =
                IF pc[t] \in Counted
                  THEN IF p \in Counted THEN Cardinality(CountedThreads)
                       ELSE Cardinality(CountedThreads) - 1
                  ELSE IF p \in Counted THEN Cardinality(CountedThreads) + 1
                       ELSE Cardinality(CountedThreads)
           /\ Cardinality(CountedThreads) = 0 => CountedThreads = {}
           /\ Cardinality(CountedThreads) = 1 /\ pc[t] \in Counted
                => CountedThreads = {t}
<1> DEFINE C == CountedThreads
<1>1. IsFiniteSet(C)
  BY MutexAssumption, FS_Subset DEF CountedThreads
<1>2. \A u \in Threads : pc'[u] = IF u = t THEN p ELSE pc[u]
  BY DEF Go, MutexTypeOK
<1>3. CountedThreads' = IF p \in Counted THEN C \cup {t} ELSE C \ {t}
  BY <1>2 DEF CountedThreads
<1>4. t \in C <=> pc[t] \in Counted
  BY DEF CountedThreads
<1>5. Cardinality(C) \in Nat
  BY <1>1, FS_CardinalityType
<1>6. Cardinality(C \cup {t}) = IF t \in C THEN Cardinality(C) ELSE Cardinality(C) + 1
  BY <1>1, FS_AddElement
<1>7. Cardinality(C \ {t}) = IF t \in C THEN Cardinality(C) - 1 ELSE Cardinality(C)
  BY <1>1, FS_RemoveElement
<1>8. Cardinality(C) = 0 => C = {}
  BY <1>1, FS_EmptySet
<1>9. ASSUME Cardinality(C) = 1, t \in C PROVE C = {t}
  <2>1. IsFiniteSet(C \ {t}) /\ Cardinality(C \ {t}) = 0
    BY <1>1, <1>7, <1>9, FS_RemoveElement
  <2>2. C \ {t} = {}
    BY <2>1, FS_EmptySet
  <2> QED BY <2>2, <1>9
<1> HIDE DEF C
<1>10. Cardinality(CountedThreads') =
         IF t \in C
           THEN IF p \in Counted THEN Cardinality(C) ELSE Cardinality(C) - 1
           ELSE IF p \in Counted THEN Cardinality(C) + 1 ELSE Cardinality(C)
  BY <1>3, <1>6, <1>7
<1> QED BY <1>4, <1>5, <1>8, <1>9, <1>10 DEF C

\* Every atomic access of lock and unlock keeps the invariant.
LEMMA MutexStepKeeps ==
    ASSUME MutexInv, NEW t \in Threads, MutexStep(t)
    PROVE  MutexInv'
<1> USE DEF MutexInv, MutexTypeOK
<1>0. state = Cardinality(CountedThreads)
  BY DEF StateCounts, CountedThreads
<1>a. StateCounts' <=> state' = Cardinality(CountedThreads')
  BY DEF StateCounts, CountedThreads
<1>b. CountedThreads = {} => \A u \in Threads : pc[u] \notin Holding
  BY DEF CountedThreads, Counted, Holding
<1>c. CountedThreads = {t} => \A u \in Threads : pc[u] \in Holding => u = t
  BY DEF CountedThreads, Counted, Holding
<1>1. CASE LockFast(t)
  <2>1. Go(t, "owning") /\ "owning" \in Points BY <1>1 DEF LockFast, Points
  <2>2. StateCounts' BY <1>1, <2>1, <1>0, <1>a, Recount DEF LockFast, Counted
  <2>3. \A u \in Threads : pc[u] \notin Holding BY <1>1, <2>1, <1>0, <1>b, Recount DEF LockFast
  <2> QED BY <1>1, <2>2, <2>3 DEF LockFast, Go, Points, MutualExclusion, OwnerKnown
<1>2. CASE LockMiss(t)
  <2>1. Go(t, "contend") /\ "contend" \in Points BY <1>2 DEF LockMiss, Points
  <2>2. StateCounts' BY <1>2, <2>1, <1>0, <1>a, Recount DEF LockMiss, Counted
  <2> QED BY <1>2, <2>2 DEF LockMiss, Go, Points, MutualExclusion, OwnerKnown, Holding
<1>3. CASE SetOwner(t)
  <2>1. Go(t, "own") /\ "own" \in Points BY <1>3 DEF SetOwner, Points
  <2>2. StateCounts' BY <1>3, <2>1, <1>0, <1>a, Recount DEF SetOwner, Counted
  <2> QED BY <1>3, <2>2 DEF SetOwner, Go, Points, MutualExclusion, OwnerKnown, Holding
<1>4. CASE Contend(t)
  <2>1. Go(t, "enqueue") /\ "enqueue" \in Points BY <1>4 DEF Contend, Points
  <2>2. StateCounts' BY <1>4, <2>1, <1>0, <1>a, Recount DEF Contend, Counted
  <2> QED BY <1>4, <2>2 DEF Contend, Go, Points, MutualExclusion, OwnerKnown, Holding
<1>5. CASE Enqueue(t)
  <2>1. Go(t, "asleep") /\ "asleep" \in Points BY <1>5 DEF Enqueue, Points
  <2>2. StateCounts' BY <1>5, <2>1, <1>0, <1>a, Recount DEF Enqueue, Counted
  <2> QED BY <1>5, <2>2 DEF Enqueue, Go, Points, MutualExclusion, OwnerKnown, Holding
<1>6. CASE WakeUp(t)
  <2>1. Go(t, "retry") /\ "retry" \in Points BY <1>6 DEF WakeUp, Points
  <2>2. StateCounts' BY <1>6, <2>1, <1>0, <1>a, Recount DEF WakeUp, Counted
  <2> QED BY <1>6, <2>2 DEF WakeUp, Go, Points, MutualExclusion, OwnerKnown, Holding
<1>7. CASE Retry(t)
  <2>1. CASE state = 1
    <3>1. Go(t, "owning") /\ "owning" \in Points BY <1>7, <2>1 DEF Retry, Points
    <3>2. StateCounts' BY <1>7, <3>1, <1>0, <1>a, Recount DEF Retry, Counted
    <3>3. \A u \in Threads : pc[u] \in Holding => u = t
      BY <1>7, <2>1, <3>1, <1>0, <1>c, Recount DEF Retry, Counted
    <3> QED BY <1>7, <3>1, <3>2, <3>3 DEF Retry, Go, Points, MutualExclusion, OwnerKnown, Holding
  <2>2. CASE state # 1
    <3>1. Go(t, "enqueue") /\ "enqueue" \in Points BY <1>7, <2>2 DEF Retry, Points
    <3>2. StateCounts' BY <1>7, <3>1, <1>0, <1>a, Recount DEF Retry, Counted
    <3> QED BY <1>7, <3>1, <3>2 DEF Retry, Go, Points, MutualExclusion, OwnerKnown, Holding
  <2> QED BY <2>1, <2>2
<1>8. CASE Unlock(t)
  <2>1. Go(t, "release") /\ "release" \in Points BY <1>8 DEF Unlock, Points
  <2>2. StateCounts' BY <1>8, <2>1, <1>0, <1>a, Recount DEF Unlock, Counted
  <2> QED BY <1>8, <2>2 DEF Unlock, Go, Points, MutualExclusion, OwnerKnown, Holding
<1>9. CASE Release(t)
  <2>1. CASE state = 1
    <3>1. Go(t, "idle") /\ "idle" \in Points BY <1>9, <2>1 DEF Release, Points
    <3>2. StateCounts' BY <1>9, <2>1, <3>1, <1>0, <1>a, Recount DEF Release, Counted
    <3> QED BY <1>9, <2>1, <3>1, <3>2 DEF Release, Go, Points, MutualExclusion, OwnerKnown, Holding
  <2>2. CASE state # 1
    <3>1. Go(t, "sub") /\ "sub" \in Points BY <1>9, <2>2 DEF Release, Points
    <3>2. StateCounts' BY <1>9, <2>2, <3>1, <1>0, <1>a, Recount DEF Release, Counted
    <3> QED BY <1>9, <2>2, <3>1, <3>2 DEF Release, Go, Points, MutualExclusion, OwnerKnown, Holding
  <2> QED BY <2>1, <2>2
<1>10. CASE Sub(t)
  <2>1. Go(t, "wake") /\ "wake" \in Points BY <1>10 DEF Sub, Points
  <2>2. StateCounts' BY <1>10, <2>1, <1>0, <1>a, Recount DEF Sub, Counted
  <2>3. state' \in Nat
    <3>1. IsFiniteSet(CountedThreads') BY MutexAssumption, FS_Subset DEF CountedThreads
    <3> QED BY <3>1, <2>2, <1>a, FS_CardinalityType
  <2> QED BY <1>10, <2>2, <2>3 DEF Sub, Go, Points, MutualExclusion, OwnerKnown, Holding
<1>11. CASE WakeOne(t)
  <2>1. Go(t, "idle") /\ "idle" \in Points BY <1>11 DEF WakeOne, Points
  <2>2. StateCounts' BY <1>11, <2>1, <1>0, <1>a, Recount DEF WakeOne, Counted
  <2>3. queue' \in Seq(Threads)
    <3>1. CASE queue = <<>> BY <1>11, <3>1 DEF WakeOne
    <3>2. CASE queue # <<>>
      <4>1. Tail(queue) \in Seq(Threads) BY <3>2, HeadTailProperties
      <4> QED BY <1>11, <3>2, <4>1 DEF WakeOne
    <3> QED BY <3>1, <3>2
  <2>4. ready' \in [Threads -> BOOLEAN]
    <3>1. CASE queue = <<>> BY <1>11, <3>1 DEF WakeOne
    <3>2. CASE queue # <<>>
      <4>1. ready' = [ready EXCEPT ![Head(queue)] = TRUE] BY <1>11, <3>2 DEF WakeOne
      <4> QED BY <4>1, Zenon
    <3> QED BY <3>1, <3>2
  <2> QED BY <1>11, <2>2, <2>3, <2>4 DEF WakeOne, Go, Points, MutualExclusion, OwnerKnown, Holding
<1> QED BY <1>1, <1>2, <1>3, <1>4, <1>5, <1>6, <1>7, <1>8, <1>9, <1>10, <1>11 DEF MutexStep

\* MutexInv holds in every state of any number of threads that lock and unlock.
THEOREM MutexInvariance == MutexSpec => []MutexInv
<1>1. MutexInit => MutexInv
  <2> SUFFICES ASSUME MutexInit PROVE MutexInv
    OBVIOUS
  <2>1. {t \in Threads : pc[t] \in Counted} = {}
    BY DEF MutexInit, Counted
  <2>2. StateCounts
    BY <2>1, FS_EmptySet DEF MutexInit, StateCounts
  <2> QED BY <2>2 DEF MutexInit, MutexInv, MutexTypeOK, Points, Holding, MutualExclusion, OwnerKnown
<1>2. MutexInv /\ [MutexNext]_mutexVars => MutexInv'
  <2>1. ASSUME MutexInv, MutexNext PROVE MutexInv'
    BY <2>1, MutexStepKeeps DEF MutexNext
  <2>2. ASSUME MutexInv, UNCHANGED mutexVars PROVE MutexInv'
    BY <2>2 DEF mutexVars, MutexInv, MutexTypeOK, StateCounts, MutualExclusion, OwnerKnown
  <2> QED BY <2>1, <2>2
<1> QED BY <1>1, <1>2, PTL DEF MutexSpec

\* At most one thread holds the mutex, however its lock and unlock interleave.
THEOREM MutexExclusive == MutexSpec => []MutualExclusion
<1>1. MutexInv => MutualExclusion BY DEF MutexInv
<1> QED BY <1>1, MutexInvariance, PTL

\* owner_pid is the thread that may unlock, so mutex_unlock turns no owner
\* away.
THEOREM MutexOwner == MutexSpec => []OwnerKnown
<1>1. MutexInv => OwnerKnown BY DEF MutexInv
<1> QED BY <1>1, MutexInvariance, PTL
=============================================================================
