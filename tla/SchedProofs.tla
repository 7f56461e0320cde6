---------------------------- MODULE SchedProofs -----------------------------
(***************************************************************************)
(* The theorems about Sched: IInv is an invariant, and the safety          *)
(* properties of Sched follow from it.                                     *)
(***************************************************************************)
EXTENDS SchedSteps, SchedTable

\* No step takes a zombie out of that state but the reaping path of do_wait.
LEMMA ZombieStep ==
    ASSUME IInv, Next, NEW p \in Pids, proc[p].state = "ZOMBIE"
    PROVE  \/ proc'[p].state = "ZOMBIE"
           \/ proc'[p].state = "FREE" /\ current_process = proc[p].parent
<1>1. CASE \E pid \in UserPids \cup {AnyPid} : WaitReap(pid)
  BY Zenon, <1>1, WaitReapStep
<1>2. CASE Timer
  BY <1>2, TimerStep DEF ZombiesKept
<1>3. CASE Fork \/ Spawn \/ KthreadCreate
  BY <1>3, CreateStep DEF ZombiesKept
<1>4. CASE /\ OtherStep /\ ~KthreadCreate
           /\ ~\E pid \in UserPids \cup {AnyPid} : WaitReap(pid)
  <2>1. ZombiesKept
    BY <1>4, CtrlCStep, TtyInputStep, CreateFailsStep, ExitStep, WaitBlockStep,
       TtyBlockStep, TtyTakeStep, TtyTakeMoreStep, KthreadSleepStep,
       KthreadFallAsleepStep, KthreadYieldStep, KthreadWakeStep, KthreadExitStep
       DEF OtherStep
  <2> QED
    BY <2>1 DEF ZombiesKept
<1> QED
  BY ZenonT(60), <1>1, <1>2, <1>3, <1>4 DEF Next, Step

\* kmain leaves the invariant true: init runs alone in slot 0.
LEMMA InitIInv == Init => IInv
<1> SUFFICES ASSUME Init
             PROVE  IInv
  OBVIOUS
<1> DEFINE i == [NewProcess(Idle, TRUE) EXCEPT !.state = "RUNNING", !.prio = PRIO_IDLE]
           u == [NewProcess(Idle, FALSE) EXCEPT !.state = "RUNNING"]
<1>1. /\ i \in ProcRecord /\ i.state = "RUNNING" /\ i.kthread = TRUE
      /\ i.where = "kernel" /\ i.parent = Idle
  BY Zenon, ConstantFacts
     DEF NewProcess, ProcRecord, States, Reasons, Places, PRIO_IDLE, PRIO_NORMAL,
         AnyPid, NoDeadline
<1>2. /\ u \in ProcRecord /\ u.state = "RUNNING" /\ u.kthread = FALSE
      /\ u.where = "user" /\ u.parent = Idle
  BY Zenon, ConstantFacts
     DEF NewProcess, ProcRecord, States, Reasons, Places, PRIO_IDLE, PRIO_NORMAL,
         AnyPid, NoDeadline
<1>3. /\ NoProcess \in ProcRecord /\ NoProcess.state = "FREE"
      /\ NoProcess.kthread = FALSE /\ NoProcess.where = "user"
      /\ NoProcess.parent = Idle
  BY Zenon, ConstantFacts, NewProcessType DEF NoProcess, NewProcess
<1>4. proc = [p \in Pids |-> IF p = Idle THEN i
                             ELSE IF p = Init1 THEN u ELSE NoProcess]
  BY DEF Init
<1> HIDE DEF i, u
<1>5. /\ proc \in Procs /\ proc[Idle] = i /\ proc[Init1] = u
      /\ \A p \in Pids : p \notin {Idle, Init1} => proc[p] = NoProcess
  BY <1>1, <1>2, <1>3, <1>4, ConstantFacts DEF Procs
<1>6. Table /\ processes[0] = Init1 /\ \A s \in Slots : s # 0 => processes[s] = NoProc
  BY ConstantFacts DEF Init, Table
<1>7. /\ current_process = Init1 /\ rr_cursor = 0 /\ next_pid = 2 /\ cr3 = Init1
      /\ ring = 0 /\ waiting_reader = NoProc /\ process_count = 1
      /\ current_process_index = -1
  BY DEF Init
<1>8. Shape
  BY <1>6, <1>7, ConstantFacts, SchedAssumption DEF Shape
<1>9. Tabled(Init1) /\ \A p \in Pids : Tabled(p) => p = Init1
  BY <1>6, ConstantFacts DEF Tabled, InTable
<1>10. Counted
  <2>1. Occupied = {0}
    BY <1>6, ConstantFacts DEF Occupied
  <2>2. Cardinality(Occupied) = 1
    BY <2>1, FS_Singleton
  <2> QED
    BY <2>2, <1>7 DEF Counted
<1>11. GoodKinds(proc)
  BY <1>1, <1>2, <1>3, <1>5, <1>9, ConstantFacts DEF GoodKinds
<1>12. GoodSleep(proc)
  BY <1>1, <1>2, <1>3, <1>5 DEF GoodSleep
<1>13. GoodTable(proc)
  BY <1>1, <1>2, <1>3, <1>5, <1>7, <1>9 DEF GoodTable, Idle, Init1
<1>14. GoodParents(proc)
  BY <1>2, <1>5, <1>9 DEF GoodParents
<1>15. GoodWaits(proc)
  BY <1>1, <1>2, <1>3, <1>5, ConstantFacts DEF GoodWaits
<1>16. GoodReader(proc)
  BY <1>7 DEF GoodReader
<1>17. Control(proc, current_process, cr3)
  BY <1>1, <1>2, <1>3, <1>5, <1>7, <1>9, ConstantFacts DEF Control
<1> QED
  BY <1>5, <1>8, <1>10, <1>11, <1>12, <1>13, <1>14, <1>15, <1>16, <1>17 DEF IInv, Good

\* Every step keeps the invariant: one case per action.
LEMMA NextIInv == IInv /\ [Next]_vars => IInv'
<1> SUFFICES ASSUME IInv, [Next]_vars
             PROVE  IInv'
  OBVIOUS
<1>1. CASE UNCHANGED vars
  <2>1. /\ UNCHANGED <<processes, process_count, next_pid, ttyVars>>
        /\ UNCHANGED <<proc, current_process, current_process_index, rr_cursor, cr3>>
    BY <1>1 DEF vars, schedVars
  <2> QED
    BY Zenon, <2>1, IInvFacts, Lift DEF IInv, Counted
<1>2. CASE Timer
  BY <1>2, TimerStep
<1>3. CASE Fork \/ Spawn \/ KthreadCreate
  BY <1>3, CreateStep
<1>4. CASE OtherStep /\ ~KthreadCreate
  BY <1>4, CtrlCStep, TtyInputStep, CreateFailsStep, ExitStep, WaitReapStep,
     WaitBlockStep, TtyBlockStep, TtyTakeStep, TtyTakeMoreStep, KthreadSleepStep,
     KthreadFallAsleepStep, KthreadYieldStep, KthreadWakeStep, KthreadExitStep
     DEF OtherStep
<1> QED
  BY <1>1, <1>2, <1>3, <1>4 DEF Next, Step

\* The inductive invariant holds of every behaviour.
THEOREM Invariance == Spec => []IInv
BY InitIInv, NextIInv, PTL DEF Spec

\* Every variable keeps its type: in particular process_count never exceeds
\* MAX_PROCESSES, though add_process only ever increments it.
THEOREM TypeCorrect == Spec => []TypeOK
<1>1. IInv => TypeOK
  <2> SUFFICES ASSUME IInv
               PROVE  TypeOK
    OBVIOUS
  <2>1. process_count \in 0 .. MAX_PROCESSES
    BY OccupiedFinite DEF IInv, Counted
  <2>2. next_pid \in 1 .. MaxPid + 1
    BY SchedAssumption DEF IInv, Shape
  <2> QED
    BY <2>1, <2>2 DEF IInv, Shape, Table, Good, Procs, Counted, TypeOK
<1> QED
  BY <1>1, Invariance, PTL

\* add_process, process_remove and the scheduler keep the table, its count and
\* the current index in step.
THEOREM TableCorrect == Spec => []TableConsistent
<1>1. IInv => TableConsistent
  <2> SUFFICES ASSUME IInv
               PROVE  TableConsistent
    OBVIOUS
  <2>1. \A s \in Occupied : processes[s] \in Pids /\ Tabled(processes[s])
    BY ConstantFacts DEF IInv, Shape, Table, Occupied, Tabled, InTable
  <2>2. \A s \in Occupied : proc[processes[s]].state # "FREE"
    BY <2>1 DEF IInv, Good, GoodTable
  <2>3. \A s, t \in Occupied : processes[s] = processes[t] => s = t
    BY DEF IInv, Shape, Occupied
  <2> QED
    BY <2>2, <2>3 DEF IInv, Counted, TableConsistent
<1> QED
  BY <1>1, Invariance, PTL

\* Only the current process is RUNNING, and it is idle or a live process of
\* the table.
THEOREM RunnerUnique == Spec => []OneRunner
<1>1. IInv => OneRunner
  BY DEF IInv, Control, OneRunner, Tabled
<1> QED
  BY <1>1, Invariance, PTL

\* adopt_children leaves no process of the table with a parent that is gone.
THEOREM OrphansAdopted == Spec => []NoOrphans
<1>1. IInv => NoOrphans
  <2> SUFFICES ASSUME IInv, NEW s \in Occupied,
                      proc[processes[s]].parent # Idle
               PROVE  /\ InTable(processes, proc[processes[s]].parent)
                      /\ proc[processes[s]].parent # Init1 =>
                            proc[proc[processes[s]].parent].state # "ZOMBIE"
    BY DEF NoOrphans
  <2>1. processes[s] \in Pids /\ Tabled(processes[s])
    BY ConstantFacts DEF IInv, Shape, Table, Occupied, Tabled, InTable
  <2> QED
    BY <2>1 DEF IInv, Good, GoodParents, Tabled
<1> QED
  BY <1>1, Invariance, PTL

\* do_wait and do_exit lose no wake-up, whoever exits, is killed or is adopted.
THEOREM ChildWakeups == Spec => []NoLostChildWakeup
<1>1. IInv => NoLostChildWakeup
  <2> SUFFICES ASSUME IInv, NEW p \in UserPids, proc[p].state = "WAITING",
                      proc[p].reason = "CHILD"
               PROVE  /\ WaitMatches(p, proc[p].wait_pid) # {}
                      /\ ZombieMatches(p, proc[p].wait_pid) = {}
    BY DEF NoLostChildWakeup
  <2>1. \A c \in Pids : c \in WaitMatches(p, proc[p].wait_pid) <=> Matches(proc, p, c)
    BY DEF WaitMatches, Matches, Tabled
  <2>2. /\ \E c \in Pids : Matches(proc, p, c)
        /\ \A c \in Pids : Matches(proc, p, c) => proc[c].state # "ZOMBIE"
    BY DEF IInv, Good, GoodWaits
  <2>3. WaitMatches(p, proc[p].wait_pid) \subseteq Pids
    BY DEF WaitMatches
  <2> QED
    BY <2>1, <2>2, <2>3 DEF ZombieMatches
<1> QED
  BY <1>1, Invariance, PTL

\* tty->waiting_reader never dangles.
THEOREM ReaderSound == Spec => []ReaderPointerSound
<1>1. IInv => ReaderPointerSound
  BY DEF IInv, Good, GoodReader, ReaderPointerSound
<1> QED
  BY <1>1, Invariance, PTL

\* cr3 is never a freed page table, and is the current process's own if it has
\* one.
THEOREM PageTableLive == Spec => []AddressSpaceLive
<1>1. IInv => AddressSpaceLive
  BY DEF IInv, Control, AddressSpaceLive
<1> QED
  BY <1>1, Invariance, PTL

\* A sleeping kernel thread has a deadline.
THEOREM SleepersTimed == Spec => []SleepersHaveDeadline
<1>1. IInv => SleepersHaveDeadline
  BY ConstantFacts DEF IInv, Good, GoodSleep, SleepersHaveDeadline
<1> QED
  BY <1>1, Invariance, PTL

\* A zombie is never scheduled or revived: it stays one until do_wait, called
\* by its parent, destroys it.
THEOREM ZombiesReaped == Spec => ZombiesOnlyReaped
<1>1. IInv /\ IInv' /\ [Next]_vars => [ZombieOnlyReaped]_vars
  <2> SUFFICES ASSUME IInv, IInv', Next
               PROVE  ZombieOnlyReaped
    OBVIOUS
  <2> SUFFICES ASSUME NEW p \in UserPids, proc[p].state = "ZOMBIE"
               PROVE  \/ proc'[p].state = "ZOMBIE" /\ current_process' # p
                      \/ proc'[p].state = "FREE" /\ current_process = proc[p].parent
    BY DEF ZombieOnlyReaped
  <2>1. p \in Pids /\ p # Idle
    BY ConstantFacts
  <2>2. proc'[p].state = "ZOMBIE" => current_process' # p
    BY <2>1 DEF IInv, Control
  <2> QED
    BY <2>1, <2>2, ZombieStep
<1>2. Spec => [][Next]_vars
  BY PTL DEF Spec
<1> QED
  BY <1>1, <1>2, Invariance, PTL DEF ZombiesOnlyReaped
=============================================================================
