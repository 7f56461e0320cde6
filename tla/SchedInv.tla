------------------------------ MODULE SchedInv ------------------------------
(***************************************************************************)
(* The inductive invariant of Sched, and what scheduler() does to it, for  *)
(* every value of the constants.                                           *)
(*                                                                         *)
(* The invariant is Good(proc), a condition on the contents of the process *)
(* structures that the intermediate states inside a handler satisfy too,   *)
(* together with Control, which relates them to the current process and the*)
(* loaded page table, and Shape and Counted, about the table itself.       *)
(* scheduler() may only move processes among the active states, which is   *)
(* what Shuffle says; every lemma about a handler composes its own change  *)
(* with a Shuffle.                                                         *)
(***************************************************************************)
EXTENDS Sched, TLAPS, FiniteSetTheorems

Procs == [Pids -> ProcRecord]

Active == {"SLEEPING", "READY", "RUNNING"}

Table == processes \in [Slots -> UserPids \cup {NoProc}]

Tabled(p) == InTable(processes, p)

\* Idle, init and kernel threads are what the boot code made them.
GoodKinds(P) ==
    /\ P[Idle].kthread /\ P[Idle].where = "kernel"
    /\ P[Idle].state \in {"READY", "RUNNING"}
    /\ Tabled(Init1) /\ P[Init1].parent = Idle /\ ~P[Init1].kthread
    /\ \A p \in Pids : P[p].kthread <=> P[p].where \in {"kernel", "falling"}
    /\ \A p \in Pids : P[p].kthread => P[p].parent = Idle

\* A thread inside kthread_sleep_ms, or asleep, has its deadline set.
GoodSleep(P) ==
    \A p \in Pids :
        /\ P[p].where = "falling" =>
              P[p].deadline # NoDeadline /\ P[p].state \in {"READY", "RUNNING"}
        /\ P[p].state = "SLEEPING" => P[p].deadline # NoDeadline

\* The table holds no free structure, and no pid from next_pid on is used.
GoodTable(P) ==
    /\ \A p \in Pids : Tabled(p) => P[p].state # "FREE"
    /\ \A p \in Pids : p >= next_pid => P[p].state = "FREE"

\* NoOrphans, for the contents P.
GoodParents(P) ==
    \A p \in Pids : Tabled(p) /\ P[p].parent # Idle =>
        /\ Tabled(P[p].parent)
        /\ ~P[P[p].parent].kthread
        /\ P[p].parent # Init1 => P[P[p].parent].state # "ZOMBIE"

\* Child c matches what p waits for.
Matches(P, p, c) ==
    /\ Tabled(c)
    /\ P[c].parent = p
    /\ P[p].wait_pid \in {AnyPid, c}

\* NoLostChildWakeup, for the contents P.
GoodWaits(P) ==
    \A p \in UserPids : P[p].state = "WAITING" /\ P[p].reason = "CHILD" =>
        /\ \E c \in Pids : Matches(P, p, c)
        /\ \A c \in Pids : Matches(P, p, c) => P[c].state # "ZOMBIE"

\* ReaderPointerSound, for the contents P.
GoodReader(P) ==
    waiting_reader # NoProc =>
        /\ P[waiting_reader].where = "tty"
        /\ P[waiting_reader].state \notin {"ZOMBIE", "FREE"}
        /\ ring = 0

Good(P) ==
    /\ P \in Procs
    /\ GoodKinds(P) /\ GoodSleep(P) /\ GoodTable(P)
    /\ GoodParents(P) /\ GoodWaits(P) /\ GoodReader(P)

\* Every variable but proc has its type, and a pid is in one slot at most.
Shape ==
    /\ Table
    /\ current_process \in Pids
    /\ rr_cursor \in Slots
    /\ next_pid \in 2 .. MaxPid + 1
    /\ cr3 \in Pids
    /\ ring \in 0 .. RingCap
    /\ waiting_reader \in UserPids \cup {NoProc}
    /\ \A s, t \in Slots :
          processes[s] = processes[t] /\ processes[s] # NoProc => s = t

\* The current process against the states and the loaded page table.  A
\* current process that is WAITING halts in tty_read and is the registered
\* reader, so that input finds it.
Control(P, cur, c3) ==
    /\ \A p \in UserPids : P[p].state = "RUNNING" => p = cur
    /\ cur # Idle => /\ Tabled(cur)
                     /\ P[cur].state \in {"RUNNING", "READY", "WAITING"}
                     /\ P[cur].state = "WAITING" =>
                           /\ P[cur].where = "tty" /\ P[cur].reason = "TTY"
                           /\ waiting_reader = cur
    /\ P[c3].state # "FREE"
    /\ ~P[cur].kthread => c3 = cur

\* process_count and current_process_index against the table.
Counted ==
    /\ process_count = Cardinality(Occupied)
    /\ current_process_index \in Slots \cup {-1}
    /\ current_process_index # -1 =>
          processes[current_process_index] = current_process

\* The inductive invariant.
IInv ==
    /\ Shape
    /\ Good(proc)
    /\ Control(proc, current_process, cr3)
    /\ Counted

-----------------------------------------------------------------------------
(* Constants and records *)

\* The bounds as facts: 0 and 1 are pids, slot 0 exists.
LEMMA ConstantFacts ==
    /\ Idle \in Pids /\ Init1 \in Pids /\ Init1 \in UserPids
    /\ UserPids \subseteq Pids /\ NoProc \notin Pids /\ Idle \notin UserPids
    /\ Pids = UserPids \cup {Idle} /\ Idle # Init1
    /\ 0 \in Slots
BY SchedAssumption DEF Idle, Init1, NoProc, Pids, UserPids, Slots

\* NewProcess and NoProcess are process records.
LEMMA NewProcessType ==
    ASSUME NEW par \in Pids, NEW k \in BOOLEAN
    PROVE  NewProcess(par, k) \in ProcRecord /\ NoProcess \in ProcRecord
BY Zenon, ConstantFacts, SchedAssumption
   DEF NewProcess, NoProcess, ProcRecord, States, Reasons, Places, PRIO_IDLE,
       PRIO_NORMAL, AnyPid, NoDeadline, Idle

\* The fields of a record that scheduler() leaves alone (it leaves sigint too,
\* which no invariant depends on).
SameFields(r, q) ==
    /\ q.parent = r.parent /\ q.kthread = r.kthread /\ q.where = r.where
    /\ q.reason = r.reason /\ q.wait_pid = r.wait_pid

\* Waking a sleeper keeps its record's type and makes it READY.
LEMMA WokenFacts ==
    ASSUME NEW p, NEW r \in ProcRecord
    PROVE  /\ Woken(p, r) \in ProcRecord
           /\ SameFields(r, Woken(p, r))
           /\ \/ Woken(p, r) = r
              \/ r.state = "SLEEPING" /\ Woken(p, r).state = "READY"
BY Zenon DEF Woken, ProcRecord, States, NoDeadline, SameFields

\* Preemption keeps the record's type and turns RUNNING into READY.
LEMMA PreemptedFacts ==
    ASSUME NEW r \in ProcRecord
    PROVE  /\ Preempted(r) \in ProcRecord
           /\ SameFields(r, Preempted(r))
           /\ Preempted(r).deadline = r.deadline
           /\ Preempted(r).state # "RUNNING"
           /\ \/ Preempted(r) = r
              \/ r.state = "RUNNING" /\ Preempted(r).state = "READY"
BY DEF Preempted, ProcRecord, States, SameFields

-----------------------------------------------------------------------------
(* scheduler() *)

\* What scheduler() may do to the contents of the process structures.
Shuffle(P, Q) ==
    \A p \in Pids :
        /\ SameFields(P[p], Q[p])
        /\ \/ Q[p].state = P[p].state
           \/ P[p].state \in Active /\ Q[p].state \in {"READY", "RUNNING"}
        /\ P[p].state = "SLEEPING" \/ Q[p].deadline = P[p].deadline
        /\ Q[p].state = "SLEEPING" => Q[p].deadline = P[p].deadline

\* wake_sleeping_processes shuffles, and makes nothing RUNNING.
LEMMA WakeSleepingFacts ==
    ASSUME NEW P \in Procs
    PROVE  /\ WakeSleeping(P) \in Procs
           /\ Shuffle(P, WakeSleeping(P))
           /\ \A p \in Pids : WakeSleeping(P)[p].state = "RUNNING" =>
                                P[p].state = "RUNNING"
<1>1. \A p \in Pids : /\ P[p] \in ProcRecord
                      /\ WakeSleeping(P)[p] = Woken(p, P[p])
  BY DEF Procs, WakeSleeping
<1>2. WakeSleeping(P) \in Procs
  BY <1>1, WokenFacts DEF Procs, WakeSleeping
<1>3. ASSUME NEW p \in Pids
      PROVE  /\ SameFields(P[p], Woken(p, P[p]))
             /\ \/ Woken(p, P[p]) = P[p]
                \/ P[p].state = "SLEEPING" /\ Woken(p, P[p]).state = "READY"
  BY <1>1, WokenFacts
<1> QED
  BY <1>1, <1>2, <1>3 DEF Shuffle, Active

\* The contents P with process q RUNNING.
SetRunning(P, q) == [P EXCEPT ![q].state = "RUNNING"]

\* Marking one process of an active state READY or RUNNING.
LEMMA SetStateFacts ==
    ASSUME NEW P \in Procs, NEW q \in Pids, P[q].state \in {"READY", "RUNNING"}
    PROVE  /\ SetRunning(P, q) \in Procs
           /\ Shuffle(P, SetRunning(P, q))
           /\ SetRunning(P, q)[q].state = "RUNNING"
           /\ \A p \in Pids : p # q => SetRunning(P, q)[p] = P[p]
<1>1. P[q] \in ProcRecord
  BY DEF Procs
<1>2. /\ [P[q] EXCEPT !.state = "RUNNING"] \in ProcRecord
      /\ SameFields(P[q], [P[q] EXCEPT !.state = "RUNNING"])
      /\ [P[q] EXCEPT !.state = "RUNNING"].state = "RUNNING"
      /\ [P[q] EXCEPT !.state = "RUNNING"].deadline = P[q].deadline
  BY <1>1 DEF ProcRecord, States, SameFields
<1>3. /\ SetRunning(P, q)[q] = [P[q] EXCEPT !.state = "RUNNING"]
      /\ \A p \in Pids : p # q => SetRunning(P, q)[p] = P[p]
      /\ SetRunning(P, q) = [P EXCEPT ![q] = [P[q] EXCEPT !.state = "RUNNING"]]
  BY DEF Procs, SetRunning
<1>4. SetRunning(P, q) \in Procs
  BY <1>2, <1>3 DEF Procs
<1>5. \A p \in Pids : SameFields(P[p], P[p])
  BY DEF SameFields
<1> QED
  BY <1>2, <1>3, <1>4, <1>5 DEF Shuffle, Active

\* One outcome of scheduler(), against the contents it was given.
Outcome(P, old, c3, o) ==
    /\ o.proc \in Procs
    /\ Shuffle(P, o.proc)
    /\ o.current \in Pids /\ o.index \in Slots \cup {-1}
    /\ o.cursor \in Slots /\ o.cr3 \in Pids
    /\ o.index # -1 => processes[o.index] = o.current
    /\ o.current # Idle => /\ Tabled(o.current)
                           /\ o.proc[o.current].state = "RUNNING"
    /\ \A p \in Pids : o.proc[p].state = "RUNNING" =>
          p = o.current \/ (P[p].state = "RUNNING" /\ p # old)
    /\ \/ o.current = Idle /\ o.cr3 = c3
       \/ /\ o.current # Idle
          /\ o.cr3 \in {c3, Idle, o.current}
          /\ ~P[o.current].kthread =>
                o.cr3 = o.current \/ (old = o.current /\ o.cr3 = c3)

\* Every outcome of scheduler() is one: it wakes sleepers, takes RUNNING from
\* the outgoing process, and gives it to one runnable process of the table.
LEMMA SchedulerFacts ==
    ASSUME Table, NEW P \in Procs, NEW old \in Pids \cup {NoProc},
           NEW c \in Slots, NEW c3 \in Pids, NEW o \in Scheduler(P, old, c, c3)
    PROVE  Outcome(P, old, c3, o)
<1> DEFINE P1 == WakeSleeping(P)
           P2 == IF old = NoProc THEN P1 ELSE [P1 EXCEPT ![old] = Preempted(@)]
<1>1. /\ P1 \in Procs
      /\ Shuffle(P, P1)
      /\ \A p \in Pids : P1[p].state = "RUNNING" => P[p].state = "RUNNING"
  BY WakeSleepingFacts
<1>2. /\ P2 \in Procs
      /\ Shuffle(P, P2)
      /\ \A p \in Pids : P2[p].state = "RUNNING" =>
                            P[p].state = "RUNNING" /\ p # old
  <2>1. CASE old = NoProc
    <3>1. P2 = P1
      BY <2>1
    <3>2. \A p \in Pids : p # old
      BY <2>1, ConstantFacts
    <3> QED
      BY <1>1, <3>1, <3>2
  <2>2. CASE old # NoProc
    <3>1. old \in Pids /\ P1[old] \in ProcRecord
      BY <2>2, <1>1 DEF Procs
    <3>2. /\ P2 = [P1 EXCEPT ![old] = Preempted(P1[old])]
          /\ P2[old] = Preempted(P1[old])
          /\ \A p \in Pids : p # old => P2[p] = P1[p]
      BY <2>2, <1>1, <3>1 DEF Procs
    <3>3. /\ Preempted(P1[old]) \in ProcRecord
          /\ SameFields(P1[old], P2[old])
          /\ P2[old].deadline = P1[old].deadline
          /\ P2[old].state # "RUNNING"
          /\ \/ P2[old] = P1[old]
             \/ P1[old].state = "RUNNING" /\ P2[old].state = "READY"
      BY <3>1, <3>2, PreemptedFacts
    <3>4. P2 \in Procs
      BY <3>2, <3>3, <1>1 DEF Procs
    <3>5. Shuffle(P, P2)
      BY <3>1, <3>2, <3>3, <1>1 DEF Shuffle, SameFields, Active
    <3> QED
      BY <3>2, <3>3, <3>4, <3>5, <1>1
  <2> QED
    BY <2>1, <2>2
<1> HIDE DEF P1, P2
<1>3. CASE Candidates(P2) = {}
  <2>1. o = [proc |-> P2, current |-> Idle, index |-> -1, cursor |-> c, cr3 |-> c3]
    BY <1>3 DEF Scheduler, P1, P2
  <2> QED
    BY <2>1, <1>2, ConstantFacts DEF Outcome
<1>4. CASE Candidates(P2) # {}
  <2>1. PICK s \in Picks(P2, c) :
          o = [proc |-> [P2 EXCEPT ![processes[s]].state = "RUNNING"],
               current |-> processes[s], index |-> s,
               cursor |-> NextCursor(s),
               cr3 |-> SwitchCr3(P2, old, processes[s], c3)]
    BY Zenon, <1>4 DEF Scheduler, P1, P2
  <2> DEFINE q == processes[s]
  <2>2. /\ s \in Slots /\ q \in UserPids /\ q \in Pids /\ q # Idle
        /\ P2[q].state \in {"READY", "RUNNING"}
    BY <2>1, ConstantFacts DEF Picks, Candidates, IsRunnable, Table
  <2> HIDE DEF q
  <2> DEFINE Q == SetRunning(P2, q)
  <2>3. /\ Q \in Procs /\ Shuffle(P2, Q) /\ Q[q].state = "RUNNING"
        /\ \A p \in Pids : p # q => Q[p] = P2[p]
    BY <2>2, <1>2, SetStateFacts
  <2> HIDE DEF Q
  <2>4. /\ o.proc = Q /\ o.current = q /\ o.index = s
        /\ o.cursor = NextCursor(s) /\ o.cr3 = SwitchCr3(P2, old, q, c3)
    BY <2>1 DEF q, Q, SetRunning
  <2>5. NextCursor(s) \in Slots
    BY <2>2, SchedAssumption DEF NextCursor, Slots
  <2>6. Shuffle(P, Q)
    BY <2>3, <1>2 DEF Shuffle, SameFields, Active
  <2>7. P2[q].kthread = P[q].kthread
    BY <1>2, <2>2 DEF Shuffle, SameFields
  <2>8. SwitchCr3(P2, old, q, c3) \in {c3, Idle, q}
    BY DEF SwitchCr3, Pml4
  <2>9. ~P[q].kthread =>
          \/ SwitchCr3(P2, old, q, c3) = q
          \/ old = q /\ SwitchCr3(P2, old, q, c3) = c3
    BY <2>2, <2>7 DEF SwitchCr3, Pml4
  <2>10. Tabled(q)
    BY <2>2 DEF Tabled, InTable, q
  <2>11. \A p \in Pids : Q[p].state = "RUNNING" =>
            p = q \/ (P[p].state = "RUNNING" /\ p # old)
    BY <2>3, <1>2
  <2> QED
    BY <2>2, <2>3, <2>4, <2>5, <2>6, <2>8, <2>9, <2>10, <2>11, ConstantFacts
       DEF Outcome, q
<1> QED
  BY <1>3, <1>4

\* A shuffle keeps the inductive invariant's part on the contents.
LEMMA ShuffleGood ==
    ASSUME Shape, NEW P, Good(P), NEW Q \in Procs, Shuffle(P, Q)
    PROVE  Good(Q)
<1>1. \A p \in Pids : SameFields(P[p], Q[p])
  BY DEF Shuffle
<1>2. \A p \in Pids : /\ Q[p].state = "ZOMBIE" <=> P[p].state = "ZOMBIE"
                      /\ Q[p].state = "FREE" <=> P[p].state = "FREE"
                      /\ Q[p].state = "WAITING" <=> P[p].state = "WAITING"
                      /\ Q[p].state = "SLEEPING" => P[p].state = "SLEEPING"
                      /\ P[p].state \in {"READY", "RUNNING"} =>
                            Q[p].state \in {"READY", "RUNNING"}
  BY DEF Shuffle, Active
<1>3. GoodKinds(Q)
  BY <1>1, <1>2, ConstantFacts DEF Good, GoodKinds, SameFields
<1>4. GoodSleep(Q)
  BY <1>1, <1>2 DEF Good, GoodSleep, SameFields, Shuffle
<1>5. GoodTable(Q)
  BY <1>2 DEF Good, GoodTable
<1>6. GoodParents(Q)
  <2> SUFFICES ASSUME NEW p \in Pids, Tabled(p), Q[p].parent # Idle
               PROVE  /\ Tabled(Q[p].parent)
                      /\ ~Q[Q[p].parent].kthread
                      /\ Q[p].parent # Init1 => Q[Q[p].parent].state # "ZOMBIE"
    BY DEF GoodParents
  <2>1. Q[p].parent = P[p].parent /\ P[p].parent \in Pids
    BY <1>1 DEF SameFields, Good, Procs, ProcRecord
  <2> QED
    BY <2>1, <1>1, <1>2 DEF SameFields, Good, GoodParents
<1>7. GoodWaits(Q)
  BY <1>1, <1>2, ConstantFacts DEF Good, GoodWaits, Matches, SameFields
<1>8. GoodReader(Q)
  BY <1>1, <1>2, ConstantFacts DEF Good, GoodReader, SameFields, Shape
<1> QED
  BY <1>3, <1>4, <1>5, <1>6, <1>7, <1>8 DEF Good
=============================================================================
