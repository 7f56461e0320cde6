----------------------------- MODULE SchedSteps -----------------------------
(***************************************************************************)
(* The handlers that leave the process table alone preserve IInv, and no   *)
(* zombie changes state in them: the timer, exit, Ctrl+C, the calls of     *)
(* kernel threads, a wait that blocks and the reads of the terminal.       *)
(***************************************************************************)
EXTENDS SchedExit

\* timer_ticks++ touches only deadlines, and makes none NoDeadline.
LEMMA TickFacts ==
    ASSUME Shape, NEW P, Good(P)
    PROVE  /\ Good(Tick(P))
           /\ \A p \in Pids : /\ Tick(P)[p].state = P[p].state
                              /\ Tick(P)[p].kthread = P[p].kthread
<1> DEFINE r(p) == [P[p] EXCEPT !.deadline = IF @ > 0 THEN @ - 1 ELSE @]
<1>1. ASSUME NEW p \in Pids
      PROVE  /\ r(p) \in ProcRecord /\ SameFields(P[p], r(p))
             /\ r(p).state = P[p].state
             /\ P[p].deadline # NoDeadline => r(p).deadline # NoDeadline
  <2>1. P[p] \in ProcRecord
    BY DEF Good, Procs
  <2> QED
    BY <2>1, SchedAssumption DEF ProcRecord, SameFields, NoDeadline
<1>2. \A p \in Pids : Tick(P)[p] = r(p)
  BY DEF Tick
<1>3. Tick(P) \in Procs
  BY <1>1 DEF Tick, Procs
<1> HIDE DEF r
<1> DEFINE Q == Tick(P)
<1>4. \A p \in Pids : /\ SameFields(P[p], Q[p]) /\ Q[p].state = P[p].state
                      /\ P[p].deadline # NoDeadline => Q[p].deadline # NoDeadline
  BY <1>1, <1>2
<1>5. Q \in Procs
  BY <1>3
<1> HIDE DEF Q
<1>6. GoodKinds(Q) /\ GoodSleep(Q) /\ GoodTable(Q)
  BY <1>4, ConstantFacts
     DEF Good, GoodKinds, GoodSleep, GoodTable, SameFields
<1>7. GoodParents(Q)
  <2>1. \A p \in Pids : Q[p].parent = P[p].parent /\ P[p].parent \in Pids
    BY <1>4 DEF SameFields, Good, Procs, ProcRecord
  <2> QED
    BY <2>1, <1>4 DEF Good, GoodParents, SameFields
<1>8. GoodWaits(Q)
  BY <1>4, ConstantFacts DEF Good, GoodWaits, Matches, SameFields
<1>9. GoodReader(Q)
  BY <1>4, ConstantFacts DEF Good, GoodReader, SameFields, Shape
<1>10. Good(Q)
  BY <1>5, <1>6, <1>7, <1>8, <1>9 DEF Good
<1> QED
  BY <1>4, <1>10 DEF Q, SameFields

\* Handlers that end in scheduler() and signal delivery.
LEMMA ReschedStep ==
    ASSUME IInv, NEW P, Ready(P, current_process, cr3), Resched(P),
           UNCHANGED <<processes, process_count, next_pid, ttyVars>>
    PROVE  /\ IInv'
           /\ \A p \in Pids : P[p].state = "ZOMBIE" => proc'[p].state = "ZOMBIE"
BY ReschedFacts, Lift

\* The LAPIC timer interrupt.
LEMMA TimerStep ==
    ASSUME IInv, Timer
    PROVE  IInv' /\ ZombiesKept
<1>1. Good(Tick(proc))
  BY IInvFacts, TickFacts
<1>2. Ready(Tick(proc), current_process, cr3)
  BY <1>1, IInvFacts, TickFacts, ConstantFacts DEF Ready
<1>3. \A p \in Pids : proc[p].state = "ZOMBIE" => Tick(proc)[p].state = "ZOMBIE"
  BY IInvFacts, TickFacts
<1> QED
  BY <1>2, <1>3, ReschedStep DEF Timer, ZombiesKept

\* int 0x30.
LEMMA KthreadYieldStep ==
    ASSUME IInv, KthreadYield
    PROVE  IInv' /\ ZombiesKept
BY IInvFacts, ReschedStep DEF KthreadYield, ZombiesKept

\* exit and exit_group.
LEMMA ExitStep ==
    ASSUME IInv, Exit
    PROVE  IInv' /\ ZombiesKept
<1>1. PICK x \in DoExit(proc, current_process, rr_cursor, cr3) : Install(x)
  BY DEF Exit
<1>2. /\ Good(x.proc) /\ Control(x.proc, x.current, x.cr3)
      /\ Outcome(Exiting(proc, current_process), NoProc, cr3, x)
      /\ \A p \in Pids : proc[p].state = "ZOMBIE" => x.proc[p].state = "ZOMBIE"
  BY <1>1, IInvFacts, DoExitFacts DEF Exit, InUser, Ready
<1> QED
  BY <1>1, <1>2, Lift DEF Exit, Install, Outcome, ZombiesKept

\* Good but for the reader pointer.
GoodProcs(P) ==
    /\ P \in Procs
    /\ GoodKinds(P) /\ GoodSleep(P) /\ GoodTable(P)
    /\ GoodParents(P) /\ GoodWaits(P)

\* A change to the record of one live process v that keeps its parent and its
\* kind keeps the invariant's part on the contents, if v itself is in order.
LEMMA OneChange ==
    ASSUME Shape, NEW P, Good(P), NEW v \in UserPids, NEW Q \in Procs,
           \A p \in Pids : p # v => Q[p] = P[p],
           Q[v].parent = P[v].parent, Q[v].kthread = P[v].kthread,
           Q[v].kthread <=> Q[v].where \in {"kernel", "falling"},
           Q[v].where = "falling" =>
               Q[v].deadline # NoDeadline /\ Q[v].state \in {"READY", "RUNNING"},
           Q[v].state = "SLEEPING" => Q[v].deadline # NoDeadline,
           P[v].state # "FREE", Q[v].state # "FREE",
           Q[v].state = "ZOMBIE" => P[v].kthread,
           Q[v].state = "WAITING" /\ Q[v].reason = "CHILD" =>
               /\ \E c \in Pids : Matches(Q, v, c)
               /\ \A c \in Pids : Matches(Q, v, c) => Q[c].state # "ZOMBIE"
    PROVE  GoodProcs(Q)
<1>1. v \in Pids /\ v # Idle /\ Idle \in Pids /\ Init1 \in Pids
  BY ConstantFacts
<1>2. \A p \in Pids : Q[p].parent = P[p].parent /\ Q[p].kthread = P[p].kthread
  OBVIOUS
<1>3. GoodKinds(P) /\ GoodSleep(P) /\ GoodTable(P) /\ GoodParents(P)
      /\ GoodWaits(P) /\ P \in Procs
  BY DEF Good
<1>4. GoodKinds(Q)
  BY <1>1, <1>2, <1>3 DEF GoodKinds
<1>5. GoodSleep(Q) /\ GoodTable(Q)
  BY <1>3 DEF GoodSleep, GoodTable
<1>6. GoodParents(Q)
  <2> SUFFICES ASSUME NEW p \in Pids, Tabled(p), Q[p].parent # Idle
               PROVE  /\ Tabled(Q[p].parent)
                      /\ ~Q[Q[p].parent].kthread
                      /\ Q[p].parent # Init1 => Q[Q[p].parent].state # "ZOMBIE"
    BY DEF GoodParents
  <2>1. Q[p].parent = P[p].parent /\ P[p].parent \in Pids
    BY <1>2, <1>3 DEF Procs, ProcRecord
  <2> QED
    BY <2>1, <1>2, <1>3 DEF GoodParents
<1>7. GoodWaits(Q)
  <2> SUFFICES ASSUME NEW p \in UserPids, p # v, Q[p].state = "WAITING",
                      Q[p].reason = "CHILD"
               PROVE  /\ \E c \in Pids : Matches(Q, p, c)
                      /\ \A c \in Pids : Matches(Q, p, c) => Q[c].state # "ZOMBIE"
    BY DEF GoodWaits
  <2>1. p \in Pids /\ p # Idle /\ Q[p] = P[p]
    BY ConstantFacts
  <2>2. \A c \in Pids : Matches(Q, p, c) <=> Matches(P, p, c)
    BY <2>1, <1>2 DEF Matches
  <2>3. Q[v].state = "ZOMBIE" => Q[v].parent = Idle
    BY <1>1, <1>3 DEF GoodKinds
  <2>4. \A c \in Pids : Matches(Q, p, c) => Q[c].state # "ZOMBIE"
    BY <2>1, <2>2, <2>3, <1>3 DEF GoodWaits, Matches
  <2> QED
    BY <2>1, <2>2, <2>4, <1>3 DEF GoodWaits
<1> QED
  BY <1>4, <1>5, <1>6, <1>7 DEF GoodProcs

\* Ctrl+C makes the current process READY at most.
LEMMA CtrlCStep ==
    ASSUME IInv, CtrlC
    PROVE  IInv' /\ ZombiesKept
<1> DEFINE v == current_process
           q == [proc[v] EXCEPT !.sigint = TRUE,
                    !.state = IF @ \in {"WAITING", "SLEEPING"} THEN "READY" ELSE @]
<1>1. v \in UserPids /\ v \in Pids /\ v # Idle /\ Tabled(v)
  BY IInvFacts, ConstantFacts, SchedAssumption DEF CtrlC, Init1, Idle, UserPids, Pids
<1>2. proc[v] \in ProcRecord
  BY IInvFacts
<1>3. /\ q \in ProcRecord /\ SameFields(proc[v], q)
      /\ q.deadline = proc[v].deadline
      /\ \/ q.state = proc[v].state /\ q.state \notin {"WAITING", "SLEEPING"}
         \/ proc[v].state \in {"WAITING", "SLEEPING"} /\ q.state = "READY"
  BY Zenon, <1>2 DEF ProcRecord, States, SameFields
<1>4. proc' = [proc EXCEPT ![v] = q]
  BY Zenon, <1>1, <1>2, IInvFacts DEF CtrlC, Procs
<1> HIDE DEF q
<1>5. proc'[v] = q /\ (\A p \in Pids : p # v => proc'[p] = proc[p]) /\ proc' \in Procs
  BY <1>1, <1>3, <1>4, IInvFacts DEF Procs
<1>6. /\ UNCHANGED <<processes, process_count, next_pid, ttyVars>>
      /\ UNCHANGED <<current_process, current_process_index, rr_cursor, cr3>>
  BY DEF CtrlC
<1>7. /\ proc[v].state \in {"RUNNING", "READY", "WAITING"}
      /\ GoodKinds(proc) /\ GoodSleep(proc) /\ GoodReader(proc)
  BY <1>1 DEF IInv, Control, Good
<1>8. GoodProcs(proc')
  BY <1>1, <1>3, <1>5, <1>7, IInvFacts, OneChange
     DEF SameFields, GoodKinds, GoodSleep
<1>9. GoodReader(proc')
  BY <1>3, <1>5, <1>7, IInvFacts, ConstantFacts DEF GoodReader, SameFields, Shape
<1>10. Control(proc', current_process', cr3')
  BY <1>1, <1>3, <1>5, <1>6, IInvFacts, ConstantFacts DEF IInv, Control, SameFields
<1>11. Good(proc')
  BY <1>8, <1>9 DEF GoodProcs, Good
<1>12. ZombiesKept
  BY <1>5, <1>7 DEF ZombiesKept
<1> QED
  BY <1>12, <1>6, <1>10, <1>11, IInvFacts, Lift DEF IInv, Counted

\* The first store of kthread_sleep_ms.
LEMMA KthreadSleepStep ==
    ASSUME IInv, NEW d \in 0 .. MaxSleep, KthreadSleep(d)
    PROVE  IInv' /\ ZombiesKept
<1> DEFINE v == current_process
           q == [proc[v] EXCEPT !.deadline = d, !.where = "falling"]
<1>1. v \in UserPids /\ v \in Pids /\ v # Idle /\ Tabled(v)
  BY IInvFacts DEF KthreadSleep, InKernel
<1>2. proc[v] \in ProcRecord /\ proc[v].where = "kernel"
  BY IInvFacts DEF KthreadSleep, InKernel
<1>3. /\ q \in ProcRecord /\ q.where = "falling" /\ q.deadline # NoDeadline
      /\ q.state = proc[v].state /\ q.parent = proc[v].parent
      /\ q.kthread = proc[v].kthread
  <2>1. d \in 0 .. MaxSleep \cup {NoDeadline} /\ d # NoDeadline
    BY SchedAssumption DEF NoDeadline
  <2> QED
    BY Zenon, <1>2, <2>1 DEF ProcRecord, Places
<1>4. proc' = [proc EXCEPT ![v] = q]
  BY Zenon, <1>1, <1>2, IInvFacts DEF KthreadSleep, Procs
<1> HIDE DEF q
<1>5. proc'[v] = q /\ (\A p \in Pids : p # v => proc'[p] = proc[p]) /\ proc' \in Procs
  BY <1>1, <1>3, <1>4, IInvFacts DEF Procs
<1>6. /\ UNCHANGED <<processes, process_count, next_pid, ttyVars>>
      /\ UNCHANGED <<current_process, current_process_index, rr_cursor, cr3>>
  BY DEF KthreadSleep
<1>7. /\ proc[v].state \in {"RUNNING", "READY"} /\ proc[v].kthread
      /\ GoodReader(proc)
  BY <1>1, <1>2 DEF IInv, Control, Good, GoodKinds
<1>8. GoodProcs(proc')
  BY Zenon, <1>1, <1>3, <1>5, <1>7, IInvFacts, OneChange
<1>9. GoodReader(proc')
  BY <1>2, <1>3, <1>5, <1>7, IInvFacts, ConstantFacts DEF GoodReader, Shape
<1>10. Control(proc', current_process', cr3')
  BY Zenon, <1>1, <1>3, <1>5, <1>6, <1>7, IInvFacts, ConstantFacts DEF IInv, Control
<1>11. Good(proc')
  BY <1>8, <1>9 DEF GoodProcs, Good
<1>12. ZombiesKept
  BY <1>5, <1>7 DEF ZombiesKept
<1> QED
  BY <1>12, <1>6, <1>10, <1>11, IInvFacts, Lift DEF IInv, Counted

\* kthread_wake.
LEMMA KthreadWakeStep ==
    ASSUME IInv, NEW t \in UserPids, KthreadWake(t)
    PROVE  IInv' /\ ZombiesKept
<1> DEFINE q == [proc[t] EXCEPT !.deadline = NoDeadline, !.state = "READY"]
<1>1. t \in Pids /\ t # Idle
  BY ConstantFacts
<1>2. /\ proc[t] \in ProcRecord /\ proc[t].kthread /\ proc[t].state = "SLEEPING"
      /\ proc[t].where = "kernel"
  BY <1>1, IInvFacts DEF KthreadWake, Procs, Good, GoodKinds, GoodSleep
<1>3. /\ q \in ProcRecord /\ SameFields(proc[t], q) /\ q.state = "READY"
  BY Zenon, <1>2 DEF ProcRecord, States, NoDeadline, SameFields
<1>4. proc' = [proc EXCEPT ![t] = q]
  BY Zenon, <1>1, <1>2, IInvFacts DEF KthreadWake, Procs
<1> HIDE DEF q
<1>5. proc'[t] = q /\ (\A p \in Pids : p # t => proc'[p] = proc[p]) /\ proc' \in Procs
  BY <1>1, <1>3, <1>4, IInvFacts DEF Procs
<1>6. /\ UNCHANGED <<processes, process_count, next_pid, ttyVars>>
      /\ UNCHANGED <<current_process, current_process_index, rr_cursor, cr3>>
  BY DEF KthreadWake
<1>7. GoodProcs(proc')
  BY ZenonT(60), <1>1, <1>2, <1>3, <1>5, IInvFacts, OneChange DEF SameFields
<1>8. GoodReader(proc')
  BY <1>2, <1>3, <1>5, IInvFacts, ConstantFacts DEF Good, GoodReader, Shape, SameFields
<1>9. Control(proc', current_process', cr3')
  BY <1>1, <1>2, <1>3, <1>5, <1>6, IInvFacts, ConstantFacts
     DEF IInv, Control, SameFields
<1>10. Good(proc')
  BY <1>7, <1>8 DEF GoodProcs, Good
<1>11. ZombiesKept
  BY <1>2, <1>5 DEF ZombiesKept
<1> QED
  BY <1>11, <1>6, <1>9, <1>10, IInvFacts, Lift DEF IInv, Counted

\* The second store of kthread_sleep_ms, and the yield.
LEMMA KthreadFallAsleepStep ==
    ASSUME IInv, KthreadFallAsleep
    PROVE  IInv' /\ ZombiesKept
<1> DEFINE v == current_process
           q == [proc[v] EXCEPT !.state = "SLEEPING", !.where = "kernel"]
           Q == [proc EXCEPT ![v] = q]
<1>1. proc[v] \in ProcRecord /\ proc[v].where = "falling"
  BY IInvFacts DEF KthreadFallAsleep
<1>2. v \in UserPids /\ v \in Pids /\ v # Idle /\ Tabled(v)
  BY <1>1, IInvFacts DEF Good, GoodKinds
<1>3. /\ q \in ProcRecord /\ q.where = "kernel" /\ q.state = "SLEEPING"
      /\ q.deadline = proc[v].deadline /\ q.parent = proc[v].parent
      /\ q.kthread = proc[v].kthread
  BY Zenon, <1>1 DEF ProcRecord, Places, States
<1>4. Resched(Q)
  <2>1. Q = [proc EXCEPT ![v].state = "SLEEPING", ![v].where = "kernel"]
    BY ZenonT(60), <1>2, IInvFacts DEF Procs
  <2> QED
    BY <2>1 DEF KthreadFallAsleep
<1> HIDE DEF q
<1>5. Q[v] = q /\ (\A p \in Pids : p # v => Q[p] = proc[p]) /\ Q \in Procs
  BY <1>2, <1>3, IInvFacts DEF Procs
<1> HIDE DEF Q
<1>6. /\ proc[v].state \in {"RUNNING", "READY"} /\ proc[v].kthread
      /\ proc[v].deadline # NoDeadline /\ GoodReader(proc)
  BY <1>1, <1>2 DEF IInv, Good, GoodKinds, GoodSleep
<1>7. GoodProcs(Q)
  BY ZenonT(60), <1>2, <1>3, <1>5, <1>6, IInvFacts, OneChange
<1>8. GoodReader(Q)
  BY <1>1, <1>3, <1>5, <1>6, IInvFacts, ConstantFacts DEF GoodReader, Shape
<1>9. Ready(Q, v, cr3)
  BY Zenon, <1>2, <1>3, <1>5, <1>6, <1>7, <1>8, IInvFacts, ConstantFacts
     DEF Ready, Good, GoodProcs
<1>10. \A p \in Pids : proc[p].state = "ZOMBIE" => Q[p].state = "ZOMBIE"
  BY <1>5, <1>6
<1> QED
  BY <1>4, <1>9, <1>10, ReschedStep DEF KthreadFallAsleep, ZombiesKept

\* kthread_exit wakes nobody: a kernel thread's parent is idle, never WAITING.
LEMMA KthreadExitStep ==
    ASSUME IInv, KthreadExit
    PROVE  IInv' /\ ZombiesKept
<1> DEFINE v == current_process
           woken == {p \in Pids : /\ p = proc[v].parent
                                  /\ \E s \in 0 .. process_count - 1 :
                                        s \in Slots /\ processes[s] = p
                                  /\ proc[p].state = "WAITING"}
           Q == [p \in Pids |->
                   [proc[p] EXCEPT
                      !.state = IF p = v THEN "ZOMBIE"
                                ELSE IF p \in woken THEN "READY" ELSE @]]
<1>1. /\ proc[v] \in ProcRecord /\ proc[v].where = "kernel"
      /\ v \in UserPids /\ v \in Pids /\ v # Idle
  BY IInvFacts DEF KthreadExit, InKernel
<1>2. /\ proc[v].kthread /\ proc[v].parent = Idle
      /\ proc[Idle].state # "WAITING" /\ proc[v].state # "FREE"
  BY <1>1 DEF IInv, Control, Good, GoodKinds
<1>3. woken = {}
  BY <1>2
<1>4. Resched(Q)
  BY DEF KthreadExit
<1> HIDE DEF woken
<1>5. ASSUME NEW p \in Pids
      PROVE  /\ Q[p] \in ProcRecord
             /\ p # v => Q[p] = proc[p]
             /\ SameFields(proc[p], Q[p]) /\ Q[p].deadline = proc[p].deadline
             /\ p = v => Q[p].state = "ZOMBIE"
  <2>1. proc[p] \in ProcRecord
    BY IInvFacts DEF Procs
  <2>2. p # v => Q[p] = proc[p]
    BY <2>1, <1>3 DEF ProcRecord
  <2>3. p = v => Q[p] = [proc[p] EXCEPT !.state = "ZOMBIE"]
    OBVIOUS
  <2> HIDE DEF Q
  <2> QED
    BY <2>1, <2>2, <2>3 DEF ProcRecord, States, SameFields
<1>6. Q \in Procs
  BY <1>5 DEF Procs
<1> HIDE DEF Q
<1>7. GoodProcs(Q)
  BY <1>1, <1>2, <1>5, <1>6, IInvFacts, OneChange DEF SameFields
<1>8. GoodReader(Q)
  BY ZenonT(60), <1>1, <1>5, IInvFacts, ConstantFacts DEF Good, GoodReader, Shape
<1>9. Ready(Q, v, cr3)
  BY <1>1, <1>2, <1>5, <1>7, <1>8, IInvFacts, ConstantFacts
     DEF Ready, Good, GoodProcs, SameFields
<1>10. \A p \in Pids : proc[p].state = "ZOMBIE" => Q[p].state = "ZOMBIE"
  BY <1>5
<1> QED
  BY <1>4, <1>9, <1>10, ReschedStep DEF KthreadExit, ZombiesKept

\* The blocking path of do_wait.
LEMMA WaitBlockStep ==
    ASSUME IInv, NEW pid \in UserPids \cup {AnyPid}, WaitBlock(pid)
    PROVE  IInv' /\ ZombiesKept
<1> DEFINE v == current_process
           q == [proc[v] EXCEPT !.reason = "CHILD", !.wait_pid = pid,
                                !.state = "WAITING"]
           Q == [proc EXCEPT ![v] = q]
<1>1. proc[v] \in ProcRecord /\ proc[v].where = "user"
  BY IInvFacts DEF WaitBlock, InUser
<1>2. v \in UserPids /\ v \in Pids /\ v # Idle /\ Tabled(v)
  BY IInvFacts DEF WaitBlock, InUser
<1>3. /\ q \in ProcRecord /\ q.where = "user" /\ q.state = "WAITING"
      /\ q.wait_pid = pid /\ q.parent = proc[v].parent
      /\ q.kthread = proc[v].kthread
  BY Zenon, <1>1 DEF ProcRecord, Reasons, States
<1>4. PICK o \in Scheduler(Q, v, rr_cursor, cr3) : Install(o)
  <2>1. Q = [proc EXCEPT ![v].reason = "CHILD", ![v].wait_pid = pid,
                         ![v].state = "WAITING"]
    BY ZenonT(60), <1>2, IInvFacts DEF Procs
  <2> QED
    BY <2>1 DEF WaitBlock
<1> HIDE DEF q
<1>5. Q[v] = q /\ (\A p \in Pids : p # v => Q[p] = proc[p]) /\ Q \in Procs
  BY <1>2, <1>3, IInvFacts DEF Procs
<1> HIDE DEF Q
<1>6. /\ proc[v].state # "FREE" /\ ~proc[v].kthread /\ GoodReader(proc)
      /\ proc[v].state # "ZOMBIE"
  BY <1>1, <1>2 DEF IInv, Control, Good, GoodKinds
<1>7. \A c \in Pids : Q[c].parent = proc[c].parent
  BY <1>3, <1>5
<1>8. \A c \in Pids : Matches(Q, v, c) <=> c \in WaitMatches(v, pid)
  BY <1>3, <1>5, <1>7, ConstantFacts DEF Matches, WaitMatches, Tabled, AnyPid
<1>9. WaitMatches(v, pid) # {} /\ ZombieMatches(v, pid) = {}
  BY DEF WaitBlock
<1>10. \E c \in Pids : Matches(Q, v, c)
  BY <1>8, <1>9 DEF WaitMatches
<1>11. \A c \in Pids : Matches(Q, v, c) => Q[c].state # "ZOMBIE"
  BY <1>3, <1>5, <1>8, <1>9 DEF ZombieMatches
<1>12. GoodProcs(Q)
  BY ZenonT(60), <1>2, <1>3, <1>5, <1>6, <1>10, <1>11, IInvFacts, OneChange
<1>13. GoodReader(Q)
  BY <1>1, <1>3, <1>5, <1>6, IInvFacts, ConstantFacts DEF GoodReader, Shape
<1>14. Ready(Q, v, cr3)
  BY Zenon, <1>2, <1>3, <1>5, <1>6, <1>12, <1>13, IInvFacts, ConstantFacts
     DEF Ready, Good, GoodProcs
<1>15. Outcome(Q, v, cr3, o)
  BY <1>4, <1>5, IInvFacts, SchedulerFacts
<1>16. \A p \in Pids : proc[p].state = "ZOMBIE" => Q[p].state = "ZOMBIE"
  BY <1>2, <1>5, <1>6
<1>17. Good(o.proc) /\ Control(o.proc, o.current, o.cr3)
  BY <1>14, <1>15, IInvFacts, OutcomeControl
<1>18. ZombiesKept
  BY <1>4, <1>15, <1>16 DEF Install, Outcome, Shuffle, Active, ZombiesKept
<1> QED
  BY <1>18, <1>4, <1>15, <1>17, Lift DEF WaitBlock, Install, Outcome

\* The record of a process that blocks in tty_read.
Blocked(r) == [r EXCEPT !.reason = "TTY", !.wait_pid = AnyPid,
                        !.state = "WAITING", !.where = "tty"]

\* tty_read registering the current process as the reader and halting, with
\* the buffer empty.
LEMMA TtyBlocks ==
    ASSUME IInv, InUser \/ proc[current_process].where = "tty",
           waiting_reader' = current_process, ring' = 0,
           proc' = [proc EXCEPT ![current_process] = Blocked(@)],
           UNCHANGED <<processes, process_count, current_process,
                       current_process_index, rr_cursor, next_pid, cr3>>
    PROVE  IInv' /\ ZombiesKept
<1> DEFINE v == current_process
           q == Blocked(proc[v])
<1>1. proc[v] \in ProcRecord /\ proc[v].where \in {"user", "tty"}
  BY IInvFacts DEF InUser
<1>2. v \in UserPids /\ v \in Pids /\ v # Idle /\ Tabled(v)
  BY Zenon, <1>1, IInvFacts DEF Good, GoodKinds
<1>3. /\ q \in ProcRecord /\ q.where = "tty" /\ q.state = "WAITING"
      /\ q.reason = "TTY" /\ q.parent = proc[v].parent
      /\ q.kthread = proc[v].kthread
  BY Zenon, <1>1 DEF ProcRecord, Reasons, States, Places, Blocked, AnyPid
<1>4. proc' = [proc EXCEPT ![v] = q]
  BY <1>2, IInvFacts DEF Procs
<1> HIDE DEF q
<1>5. proc'[v] = q /\ (\A p \in Pids : p # v => proc'[p] = proc[p]) /\ proc' \in Procs
  BY <1>2, <1>3, <1>4, IInvFacts DEF Procs
<1>6. proc[v].state \notin {"FREE", "ZOMBIE"} /\ ~proc[v].kthread
  BY <1>1, <1>2 DEF IInv, Control, Good, GoodKinds
<1>7. GoodProcs(proc')
  BY Zenon, <1>2, <1>3, <1>5, <1>6, IInvFacts, OneChange
<1>8. GoodReader(proc)'
  BY <1>3, <1>5 DEF GoodReader
<1>9. Control(proc, current_process, cr3)'
  BY <1>2, <1>3, <1>5, <1>6, IInvFacts, ConstantFacts
     DEF IInv, Control, Tabled, InTable
<1>10. 0 \in 0 .. RingCap
  BY SchedAssumption
<1>11. ZombiesKept
  BY <1>5, <1>6 DEF ZombiesKept
<1> QED
  BY <1>11, <1>2, <1>7, <1>8, <1>9, <1>10, IInvFacts, LiftTty DEF GoodProcs, IInv, Counted

\* tty_read with an empty buffer.
LEMMA TtyBlockStep ==
    ASSUME IInv, TtyBlock
    PROVE  IInv' /\ ZombiesKept
<1>1. proc' = [proc EXCEPT ![current_process] = Blocked(@)]
  BY Zenon, IInvFacts DEF TtyBlock, Blocked, Procs
<1> QED
  BY Zenon, <1>1, TtyBlocks DEF TtyBlock

\* tty_read that takes what there is and needs more.
LEMMA TtyTakeMoreStep ==
    ASSUME IInv, TtyTakeMore
    PROVE  IInv' /\ ZombiesKept
<1>1. proc' = [proc EXCEPT ![current_process] = Blocked(@)]
  BY Zenon, IInvFacts DEF TtyTakeMore, Blocked, Procs
<1> QED
  BY Zenon, <1>1, TtyBlocks DEF TtyTakeMore

\* tty_read returning: input was there, so no reader is registered and the
\* current process is not WAITING.
LEMMA TtyTakeStep ==
    ASSUME IInv, NEW n \in 1 .. RingCap, TtyTake(n)
    PROVE  IInv' /\ ZombiesKept
<1> DEFINE v == current_process
           q == [proc[v] EXCEPT !.where = "user"]
<1>1. proc[v] \in ProcRecord /\ proc[v].where \in {"user", "tty"}
  BY IInvFacts DEF InUser, TtyTake
<1>2. v \in UserPids /\ v \in Pids /\ v # Idle /\ Tabled(v)
  BY <1>1, IInvFacts DEF Good, GoodKinds
<1>3. /\ q \in ProcRecord /\ q.where = "user" /\ q.state = proc[v].state
      /\ q.parent = proc[v].parent /\ q.kthread = proc[v].kthread
      /\ q.deadline = proc[v].deadline
  BY <1>1 DEF ProcRecord, Places
<1>4. proc' = [proc EXCEPT ![v] = q]
  BY <1>1, <1>2, IInvFacts DEF TtyTake, Procs
<1> HIDE DEF q
<1>5. proc'[v] = q /\ (\A p \in Pids : p # v => proc'[p] = proc[p]) /\ proc' \in Procs
  BY <1>2, <1>3, <1>4, IInvFacts DEF Procs
<1>6. ring # 0 /\ ring' \in 0 .. RingCap
  BY SchedAssumption DEF TtyTake, IInv, Shape
<1>7. waiting_reader = NoProc
  BY <1>6, IInvFacts DEF Good, GoodReader
<1>8. proc[v].state \in {"RUNNING", "READY"} /\ ~proc[v].kthread
  BY <1>1, <1>2, <1>7, ConstantFacts DEF IInv, Control, Good, GoodKinds
<1>9. GoodProcs(proc')
  BY <1>2, <1>3, <1>5, <1>8, IInvFacts, OneChange
<1>10. GoodReader(proc)'
  BY <1>7 DEF GoodReader, TtyTake
<1>11. Control(proc, current_process, cr3)'
  BY <1>2, <1>3, <1>5, <1>8, IInvFacts, ConstantFacts
     DEF IInv, Control, Tabled, InTable, TtyTake
<1>12. ZombiesKept
  BY <1>5, <1>8 DEF ZombiesKept
<1> QED
  BY <1>12, <1>2, <1>6, <1>7, <1>9, <1>10, <1>11, IInvFacts, LiftTty
     DEF GoodProcs, IInv, Counted, TtyTake

\* tty_input_char.
LEMMA TtyInputStep ==
    ASSUME IInv, NEW n \in 1 .. RingCap, TtyInput(n)
    PROVE  IInv' /\ ZombiesKept
<1> DEFINE v == waiting_reader
           q == [proc[v] EXCEPT !.state = "READY", !.reason = "NONE",
                                !.wait_pid = AnyPid]
           wakes == /\ v # NoProc /\ proc[v].state = "WAITING"
                    /\ proc[v].reason = "TTY"
<1>1. ring' \in 0 .. RingCap /\ waiting_reader' = NoProc
  BY SchedAssumption DEF TtyInput, WakeReader, IInv, Shape
<1>2. GoodReader(proc)'
  BY <1>1 DEF GoodReader
<1>3. UNCHANGED <<processes, process_count, current_process,
                  current_process_index, rr_cursor, next_pid, cr3>>
  BY DEF TtyInput
<1>4. \A p : Tabled(p)' <=> Tabled(p)
  BY <1>3 DEF Tabled, InTable
<1>5. CASE ~wakes
  <2>1. proc' = proc
    BY <1>5 DEF TtyInput, WakeReader
  <2>2. proc[current_process].state = "WAITING" => current_process = Idle
    BY Zenon, <1>5, IInvFacts, ConstantFacts DEF IInv, Control
  <2>3. Control(proc, current_process, cr3)'
    BY <1>3, <1>4, <2>1, <2>2 DEF IInv, Control
  <2>4. GoodProcs(proc')
    BY <2>1, IInvFacts DEF Good, GoodProcs
  <2>5. ZombiesKept
    BY <2>1 DEF ZombiesKept
  <2> QED
    BY Zenon, <2>5, <1>1, <1>2, <1>3, <2>3, <2>4, IInvFacts, LiftTty DEF GoodProcs, IInv, Counted
<1>6. CASE wakes
  <2>1. v \in UserPids /\ v \in Pids /\ v # Idle /\ proc[v] \in ProcRecord
    BY <1>6, IInvFacts, ConstantFacts DEF IInv, Shape, Procs
  <2>2. /\ q \in ProcRecord /\ q.state = "READY" /\ q.where = proc[v].where
        /\ q.parent = proc[v].parent /\ q.kthread = proc[v].kthread
    BY Zenon, <2>1 DEF ProcRecord, States, Reasons, AnyPid
  <2>3. proc' = [proc EXCEPT ![v] = q]
    BY Zenon, <1>6, <2>1, IInvFacts DEF TtyInput, WakeReader, Procs
  <2> HIDE DEF q
  <2>4. proc'[v] = q /\ (\A p \in Pids : p # v => proc'[p] = proc[p]) /\ proc' \in Procs
    BY <2>1, <2>2, <2>3, IInvFacts DEF Procs
  <2>5. proc[v].where = "tty" /\ ~proc[v].kthread
    BY <1>6, <2>1, IInvFacts DEF Good, GoodReader, GoodKinds
  <2>6. GoodProcs(proc')
    BY ZenonT(60), <1>6, <2>1, <2>2, <2>4, <2>5, IInvFacts, OneChange
  <2>7. Control(proc, current_process, cr3)'
    BY <1>3, <1>4, <2>1, <2>2, <2>4, IInvFacts, ConstantFacts DEF IInv, Control
  <2>8. ZombiesKept
    BY <1>6, <2>4 DEF ZombiesKept
  <2> QED
    BY ZenonT(60), <2>8, <1>1, <1>2, <1>3, <2>6, <2>7, IInvFacts, LiftTty DEF GoodProcs, IInv, Counted
<1> QED
  BY <1>5, <1>6

\* A creation that fails still consumes a pid.
LEMMA CreateFailsStep ==
    ASSUME IInv, CreateFails
    PROVE  IInv' /\ ZombiesKept
<1>1. /\ next_pid' = next_pid + 1 /\ next_pid \in 2 .. MaxPid + 1
      /\ next_pid <= MaxPid
      /\ UNCHANGED <<processes, proc, process_count, current_process,
                     current_process_index, rr_cursor, cr3, ring, waiting_reader>>
  BY DEF CreateFails, ttyVars, IInv, Shape
<1>2. next_pid' \in 2 .. MaxPid + 1
  BY <1>1, SchedAssumption
<1>3. Shape'
  BY <1>1, <1>2 DEF IInv, Shape, Table
<1>4. \A p : Tabled(p)' <=> Tabled(p)
  BY <1>1 DEF Tabled, InTable
<1>5. Counted'
  BY <1>1 DEF IInv, Counted, Occupied
<1>6. GoodTable(proc)'
  BY <1>1, <1>4, SchedAssumption DEF IInv, Good, GoodTable, Pids
<1>7. GoodKinds(proc)' /\ GoodSleep(proc)' /\ GoodReader(proc)'
  BY ZenonT(60), <1>1, <1>4 DEF IInv, Good, GoodKinds, GoodSleep, GoodReader
<1>8. GoodParents(proc)' /\ GoodWaits(proc)'
  BY <1>1, <1>4 DEF IInv, Good, GoodParents, GoodWaits, Matches
<1>9. Control(proc, current_process, cr3)'
  BY <1>1, <1>4 DEF IInv, Control
<1>10. ZombiesKept
  BY <1>1 DEF ZombiesKept
<1> QED
  BY <1>10, <1>1, <1>3, <1>5, <1>6, <1>7, <1>8, <1>9 DEF IInv, Good
=============================================================================
