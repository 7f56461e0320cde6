------------------------------- MODULE Mutex -------------------------------
(***************************************************************************)
(* The sleeping mutex of arch/x86/mutex.c, as the ACPI glue uses it.       *)
(* Threads may be preempted between any two atomic accesses; a section     *)
(* under wait_lock is one step.  A contender marks itself TASK_WAITING, so *)
(* its sleep(1) ends at the next tick only if unlock has made it READY.    *)
(* current_process is not NULL: the branches for it serve the boot code,   *)
(* which runs alone.                                                       *)
(***************************************************************************)
EXTENDS Integers, FiniteSets, Sequences

CONSTANT Threads

ASSUME MutexAssumption == IsFiniteSet(Threads)

VARIABLES
    state,      \* mutex->state
    owner_pid,  \* mutex->owner_pid: a set with the owner, or empty
    queue,      \* the list from wait_head to wait_tail
    pc,         \* where a thread is in lock and unlock
    ready       \* thread -> its process is not TASK_WAITING

mutexVars == <<state, owner_pid, queue, pc, ready>>

\* The points between atomic accesses: "contend" after the fast path failed,
\* "enqueue" to "retry" are the loop, "owning" is before owner_pid is set;
\* "release", "sub" and "wake" are in unlock.
Points == {"idle", "contend", "enqueue", "asleep", "retry", "owning", "own",
           "release", "sub", "wake"}

\* A thread at one of these has its 1 in mutex->state.
Counted == {"enqueue", "asleep", "retry", "owning", "own", "release", "sub"}

\* Between the acquiring and the releasing access of mutex->state.
Holding == {"owning", "own", "release", "sub"}

Go(t, p) == pc' = [pc EXCEPT ![t] = p]

\* Variant: a mutex without an owner is taken for a free one.
LockFastNoOwner(t) ==
    /\ pc[t] = "idle"
    /\ owner_pid = {}
    /\ state' = 1
    /\ Go(t, "owning")
    /\ UNCHANGED <<owner_pid, queue, ready>>

\* The fast path of mutex_lock, mutex_trylock and mutex_lock_timeout.
LockFast(t) ==
    /\ pc[t] = "idle"
    /\ state = 0
    /\ state' = 1
    /\ Go(t, "owning")
    /\ UNCHANGED <<owner_pid, queue, ready>>

\* The compare-and-swap fails.  (mutex_trylock returns -1 here.)
LockMiss(t) ==
    /\ pc[t] = "idle"
    /\ state # 0
    /\ Go(t, "contend")
    /\ UNCHANGED <<state, owner_pid, queue, ready>>

SetOwner(t) ==
    /\ pc[t] = "owning"
    /\ owner_pid' = {t}
    /\ Go(t, "own")
    /\ UNCHANGED <<state, queue, ready>>

\* atomic_add(&mutex->state, 1).
Contend(t) ==
    /\ pc[t] = "contend"
    /\ state' = state + 1
    /\ Go(t, "enqueue")
    /\ UNCHANGED <<owner_pid, queue, ready>>

\* __wait_enqueue and TASK_WAITING, under wait_lock.
Enqueue(t) ==
    /\ pc[t] = "enqueue"
    /\ queue' = Append(queue, t)
    /\ ready' = [ready EXCEPT ![t] = FALSE]
    /\ Go(t, "asleep")
    /\ UNCHANGED <<state, owner_pid>>


\* sleep(1) returns: the process was made READY and is scheduled again.
\* mutex_lock_timeout compares lapic_ticks_per_ms, which calibration set once,
\* with its own value plus the timeout, so it never takes the timeout branch.
WakeUp(t) ==
    /\ pc[t] = "asleep"
    /\ ready[t]
    /\ Go(t, "retry")
    /\ UNCHANGED <<state, owner_pid, queue, ready>>

\* atomic_cas(&mutex->state, 1, 1).
Retry(t) ==
    /\ pc[t] = "retry"
    /\ Go(t, IF state = 1 THEN "owning" ELSE "enqueue")
    /\ UNCHANGED <<state, owner_pid, queue, ready>>

\* mutex_unlock by the owner, up to owner_pid = 0.
Unlock(t) ==
    /\ pc[t] = "own"
    /\ t \in owner_pid
    /\ owner_pid' = {}
    /\ Go(t, "release")
    /\ UNCHANGED <<state, queue, ready>>

\* atomic_cas(&mutex->state, 1, 0).
Release(t) ==
    /\ pc[t] = "release"
    /\ state' = IF state = 1 THEN 0 ELSE state
    /\ Go(t, IF state = 1 THEN "idle" ELSE "sub")
    /\ UNCHANGED <<owner_pid, queue, ready>>

\* atomic_fetch_sub(&mutex->state, 1).
Sub(t) ==
    /\ pc[t] = "sub"
    /\ state' = state - 1
    /\ Go(t, "wake")
    /\ UNCHANGED <<owner_pid, queue, ready>>

\* __wait_dequeue and TASK_READY, under wait_lock.
WakeOne(t) ==
    /\ pc[t] = "wake"
    /\ IF queue = <<>>
         THEN UNCHANGED <<queue, ready>>
         ELSE /\ queue' = Tail(queue)
              /\ ready' = [ready EXCEPT ![Head(queue)] = TRUE]
    /\ Go(t, "idle")
    /\ UNCHANGED <<state, owner_pid>>

MutexInit ==
    /\ state = 0
    /\ owner_pid = {}
    /\ queue = <<>>
    /\ pc = [t \in Threads |-> "idle"]
    /\ ready = [t \in Threads |-> TRUE]

MutexStep(t) ==
    \/ LockFast(t)
    \/ LockMiss(t)
    \/ SetOwner(t)
    \/ Contend(t)
    \/ Enqueue(t)
    \/ WakeUp(t)
    \/ Retry(t)
    \/ Unlock(t)
    \/ Release(t)
    \/ Sub(t)
    \/ WakeOne(t)

MutexNext == \E t \in Threads : MutexStep(t)

MutexSpec == MutexInit /\ [][MutexNext]_mutexVars

-----------------------------------------------------------------------------
(* Properties *)

\* The type invariant.
MutexTypeOK ==
    /\ state \in Nat
    /\ owner_pid \in SUBSET Threads
    /\ queue \in Seq(Threads)
    /\ pc \in [Threads -> Points]
    /\ ready \in [Threads -> BOOLEAN]

\* At most one thread is between acquiring and releasing the mutex, whether
\* it came through the fast path or was handed the mutex after a sleep.
MutualExclusion ==
    \A t, u \in Threads : pc[t] \in Holding /\ pc[u] \in Holding => t = u

\* owner_pid names the thread that may unlock, and no other: the check at the
\* start of mutex_unlock never turns the owner away.
OwnerKnown ==
    \A t \in Threads : pc[t] = "own" <=> t \in owner_pid

\* mutex->state is the number of threads that hold the mutex or wait for it,
\* the fact that makes the hand-over compare-and-swap (1 to 1) safe.
StateCounts == state = Cardinality({t \in Threads : pc[t] \in Counted})


\* mutex->state is 0 when the mutex is free: once every thread is idle, owner
\* or asleep, a state other than 0 means that somebody holds the mutex.
StateSaysLocked ==
    (\A t \in Threads : pc[t] \in {"idle", "own"} \/ (pc[t] = "asleep" /\ ~ready[t]))
        => (state # 0 => \E t \in Threads : pc[t] = "own")
=============================================================================
