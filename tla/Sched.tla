------------------------------- MODULE Sched -------------------------------
(***************************************************************************)
(* The process table, the scheduler and every operation that moves a      *)
(* process between its states: kernel/sched.c, kernel/kthread.c,           *)
(* kernel/signal.c, the system calls that call them and the blocking part  *)
(* of tty_read.                                                            *)
(*                                                                         *)
(* One CPU schedules (the LAPIC timer is armed on cpu 0 only).  Interrupt  *)
(* gates and system calls run with IF clear, so a handler is one action.   *)
(* The points where IF is set in the kernel are positions of a process:    *)
(* inside tty_read's "sti; hlt", and kernel threads, which run with IF on. *)
(* Process structures are named by pid: next_pid only grows.               *)
(***************************************************************************)
EXTENDS Integers, FiniteSets

CONSTANTS
    MAX_PROCESSES,  \* slots of the table (64 in include/proc.h)
    MaxPid,         \* bound: pids handed out before creation stops
    MaxSleep,       \* bound: longest kthread_sleep_ms, in ticks
    RingCap         \* bound: bytes the cooked buffer of the TTY holds

ASSUME SchedAssumption ==
    /\ MAX_PROCESSES \in Nat \ {0}
    /\ MaxPid \in Nat \ {0}
    /\ MaxSleep \in Nat
    /\ RingCap \in Nat \ {0}

Idle == 0
Init1 == 1          \* the pid of init_process
NoProc == -1        \* a NULL process_t*
NoDeadline == -1    \* sleep_deadline = 0
AnyPid == -1        \* wait(-1)

Slots == 0 .. MAX_PROCESSES - 1
Pids == 0 .. MaxPid
UserPids == 1 .. MaxPid

\* process_state_t, with FREE for memory that is not a process_t (yet, or
\* any more), wait_reason_t, and where a process's saved context resumes:
\* ring 3, inside tty_read, kernel-thread code, or between the two
\* assignments of kthread_sleep_ms.
States == {"RUNNING", "READY", "SLEEPING", "WAITING", "ZOMBIE", "FREE"}
Reasons == {"NONE", "CHILD", "TTY"}
Places == {"user", "tty", "kernel", "falling"}

\* PRIO_NORMAL and PRIO_IDLE: no code gives a process another priority.
PRIO_NORMAL == 2
PRIO_IDLE == 0

VARIABLES
    processes,              \* slot -> pid or NoProc
    proc,                   \* pid -> the fields of its process_t
    process_count,
    current_process,
    current_process_index,
    rr_cursor,
    next_pid,
    cr3,                    \* whose PML4 is loaded; 0 is the kernel's
    ring,                   \* bytes readable in the TTY's cooked buffer
    waiting_reader          \* tty->waiting_reader

schedVars == <<processes, proc, process_count, current_process,
               current_process_index, rr_cursor, next_pid, cr3>>
ttyVars == <<ring, waiting_reader>>
vars == <<schedVars, ttyVars>>

ProcRecord ==
    [state: States, parent: Pids, prio: {PRIO_IDLE, PRIO_NORMAL},
     reason: Reasons, wait_pid: UserPids \cup {AnyPid},
     deadline: 0 .. MaxSleep \cup {NoDeadline}, kthread: BOOLEAN,
     sigint: BOOLEAN, where: Places]

\* The one type invariant: every variable stays in its C type's range as
\* narrowed by the bounds, and the round-robin cursor is a slot.
TypeOK ==
    /\ processes \in [Slots -> UserPids \cup {NoProc}]
    /\ proc \in [Pids -> ProcRecord]
    /\ process_count \in 0 .. MAX_PROCESSES
    /\ current_process \in Pids
    /\ current_process_index \in Slots \cup {-1}
    /\ rr_cursor \in Slots
    /\ next_pid \in 1 .. MaxPid + 1
    /\ cr3 \in Pids
    /\ ring \in 0 .. RingCap
    /\ waiting_reader \in UserPids \cup {NoProc}

-----------------------------------------------------------------------------
(* The process table. *)

InTable(T, p) == \E s \in Slots : T[s] = p

FreeSlots(T) == {s \in Slots : T[s] = NoProc}

\* process_table_find_free_slot: the lowest free slot.
FirstFree(T, s) == s \in FreeSlots(T) /\ \A t \in FreeSlots(T) : s <= t

\* add_process of a new process: into the first free slot, or, when the
\* table is full, nowhere (it returns -1).
AddProcess(p) ==
    IF FreeSlots(processes) = {}
      THEN UNCHANGED <<processes, process_count>>
      ELSE \E s \in Slots :
             /\ FirstFree(processes, s)
             /\ processes' = [processes EXCEPT ![s] = p]
             /\ process_count' = process_count + 1

\* Variant: the count is not adjusted.
ProcessRemoveKeepsCount(p) ==
    \E s \in Slots :
        /\ processes[s] = p
        /\ processes' = [processes EXCEPT ![s] = NoProc]
        /\ UNCHANGED <<process_count, current_process_index>>

\* process_remove.
ProcessRemove(p) ==
    \E s \in Slots :
        /\ processes[s] = p
        /\ processes' = [processes EXCEPT ![s] = NoProc]
        /\ process_count' = IF process_count > 0 THEN process_count - 1
                                                 ELSE process_count
        /\ current_process_index' = IF current_process_index = s
                                      THEN -1 ELSE current_process_index

\* The fields a creation leaves in a process_t.  kzalloc leaves wait_pid 0,
\* which no one reads before do_wait or tty_read has set it with the reason.
NewProcess(parent, isKthread) ==
    [state |-> "READY", parent |-> parent, prio |-> PRIO_NORMAL,
     reason |-> "NONE", wait_pid |-> AnyPid, deadline |-> NoDeadline,
     kthread |-> isKthread, sigint |-> FALSE,
     where |-> IF isKthread THEN "kernel" ELSE "user"]

\* Memory that holds no process_t: not created yet, or freed by
\* process_destroy.
NoProcess == [NewProcess(Idle, FALSE) EXCEPT !.state = "FREE"]

-----------------------------------------------------------------------------
(* scheduler(), as the set of its outcomes: one element, since the         *)
(* round-robin scan is deterministic.  P is the process table's contents   *)
(* when it is called, old is current_process or NoProc (do_exit).          *)


\* wake_sleeping_processes; deadlines are kept as ticks left.
Woken(p, r) ==
    IF r.state = "SLEEPING" /\ r.deadline = 0 /\ InTable(processes, p)
      THEN [r EXCEPT !.state = "READY", !.deadline = NoDeadline] ELSE r

WakeSleeping(P) == [p \in Pids |-> Woken(p, P[p])]

\* The outgoing process, if RUNNING, goes back to READY.
Preempted(r) == IF r.state = "RUNNING" THEN [r EXCEPT !.state = "READY"] ELSE r

\* Variant: only the blocked states are excluded.
IsRunnableUnlessBlocked(P, s) ==
    processes[s] # NoProc /\ P[processes[s]].state \notin {"WAITING", "SLEEPING"}

\* process_is_runnable, for the process of a slot.
IsRunnable(P, s) ==
    processes[s] # NoProc /\ P[processes[s]].state \in {"READY", "RUNNING"}

\* The runnable slots of the highest runnable priority.
Candidates(P) ==
    {s \in Slots :
        /\ IsRunnable(P, s)
        /\ \A t \in Slots : IsRunnable(P, t) =>
                P[processes[t]].prio <= P[processes[s]].prio}

\* How far the scan that starts at rr_cursor goes before it meets slot s.
ScanDistance(c, s) == IF s >= c THEN s - c ELSE s + MAX_PROCESSES - c

\* pick_next_process.
Picks(P, c) ==
    {s \in Candidates(P) :
        \A t \in Candidates(P) : ScanDistance(c, s) <= ScanDistance(c, t)}


NextCursor(s) == IF s = MAX_PROCESSES - 1 THEN 0 ELSE s + 1

\* The PML4 of a process: kernel threads and idle share the kernel's.
Pml4(P, p) == IF P[p].kthread THEN Idle ELSE p

\* Variant: after do_exit, with no outgoing process, the switch is skipped.
SwitchCr3NotAfterExit(P, old, p, c3) ==
    IF old \in {NoProc, p} \/ Pml4(P, old) = Pml4(P, p) THEN c3 ELSE Pml4(P, p)

\* The loaded PML4 after the switch old -> p: kept when both have the same.
SwitchCr3(P, old, p, c3) ==
    IF old = NoProc THEN Pml4(P, p)
    ELSE IF old = p \/ Pml4(P, old) = Pml4(P, p) THEN c3 ELSE Pml4(P, p)

\* The caller passes regs unless it is do_exit, which passes NULL: then
\* old is NULL as well.  Three returns of the C function are left out because
\* nothing reaches them: a runnable old process with no candidate (OneRunner
\* keeps the current process in the table), no old process with regs, and a
\* slot that empties between the pick and the load.
Scheduler(P, old, cursor, c3) ==
    LET P1 == WakeSleeping(P)
        P2 == IF old = NoProc THEN P1 ELSE [P1 EXCEPT ![old] = Preempted(@)]
    IN  IF Candidates(P2) = {}
          THEN {[proc |-> P2, current |-> Idle, index |-> -1,
                 cursor |-> cursor, cr3 |-> c3]}
          ELSE {[proc |-> [P2 EXCEPT ![processes[s]].state = "RUNNING"],
                 current |-> processes[s], index |-> s,
                 cursor |-> NextCursor(s),
                 cr3 |-> SwitchCr3(P2, old, processes[s], c3)] :
                s \in Picks(P2, cursor)}

Install(o) ==
    /\ proc' = o.proc
    /\ current_process' = o.current
    /\ current_process_index' = o.index
    /\ rr_cursor' = o.cursor
    /\ cr3' = o.cr3

-----------------------------------------------------------------------------
(* do_exit *)

\* adopt_children(e): e's children become init's; a zombie among them makes
\* a WAITING init READY, whatever it waits for.
Children(P, e) == {p \in Pids : InTable(processes, p) /\ P[p].parent = e}

\* Variant: nobody adopts.
AdoptNone(P, e) == P

AdoptChildren(P, e) ==
    LET kids == Children(P, e)
        wakes == \E p \in kids : P[p].state = "ZOMBIE"
    IN  IF e = Init1 THEN P
        ELSE [p \in Pids |->
                [P[p] EXCEPT
                   !.parent = IF p \in kids THEN Init1 ELSE @,
                   !.state = IF p = Init1 /\ @ = "WAITING" /\ wakes
                               THEN "READY" ELSE @]]

\* Variant: only the parent that waits for exactly this pid is woken.
WakeParentOfPid(P, e) ==
    LET parent == P[e].parent
    IN  IF /\ InTable(processes, parent)
           /\ P[parent].state = "WAITING"
           /\ P[parent].wait_pid = e
          THEN [P EXCEPT ![parent].state = "READY", ![parent].reason = "NONE",
                         ![parent].wait_pid = AnyPid]
          ELSE P

\* The parent lookup and wake-up at the end of do_exit.
WakeParent(P, e) ==
    LET parent == P[e].parent
    IN  IF /\ InTable(processes, parent)
           /\ P[parent].state = "WAITING"
           /\ P[parent].reason = "CHILD"
          THEN [P EXCEPT ![parent].state = "READY", ![parent].reason = "NONE",
                         ![parent].wait_pid = AnyPid]
          ELSE P

DoExit(P, e, cursor, c3) ==
    Scheduler(WakeParent(AdoptChildren([P EXCEPT ![e].state = "ZOMBIE"], e), e),
              NoProc, cursor, c3)

-----------------------------------------------------------------------------
(* Interrupts *)

\* signal_check_and_deliver would act: SIGINT is the only signal anything
\* raises, it is never blocked and no handler can be installed, so delivery
\* to a context of ring 3 is do_exit(SIGINT).
Deliverable(P, p) == P[p].where = "user" /\ P[p].sigint

\* scheduler(regs), then signal delivery to the process it chose: what both
\* the timer and int 0x30 do.
Resched(P) ==
    \E o \in Scheduler(P, current_process, rr_cursor, cr3) :
        IF Deliverable(o.proc, o.current)
          THEN \E x \in DoExit([o.proc EXCEPT ![o.current].sigint = FALSE],
                               o.current, o.cursor, o.cr3) : Install(x)
          ELSE Install(o)

\* timer_ticks++ as seen by the deadlines.
Tick(P) ==
    [p \in Pids |-> [P[p] EXCEPT !.deadline = IF @ > 0 THEN @ - 1 ELSE @]]

\* The LAPIC timer interrupt.
Timer ==
    /\ Resched(Tick(proc))
    /\ UNCHANGED <<processes, process_count, next_pid, ttyVars>>

\* Ctrl+C in the keyboard interrupt: SIGINT to whatever process is current.
CtrlC ==
    /\ current_process > Init1
    /\ proc' = [proc EXCEPT
                  ![current_process].sigint = TRUE,
                  ![current_process].state =
                      IF @ \in {"WAITING", "SLEEPING"} THEN "READY" ELSE @]
    /\ UNCHANGED <<processes, process_count, current_process,
                   current_process_index, rr_cursor, next_pid, cr3, ttyVars>>

\* tty_wake_reader.
WakeReader ==
    /\ waiting_reader' = NoProc
    /\ proc' = IF /\ waiting_reader # NoProc
                  /\ proc[waiting_reader].state = "WAITING"
                  /\ proc[waiting_reader].reason = "TTY"
                 THEN [proc EXCEPT ![waiting_reader].state = "READY",
                                   ![waiting_reader].reason = "NONE",
                                   ![waiting_reader].wait_pid = AnyPid]
                 ELSE proc

\* tty_input_char completing n bytes of input: they go to the cooked buffer
\* until it is full, then the reader is woken.
TtyInput(n) ==
    /\ ring' = IF ring + n > RingCap THEN RingCap ELSE ring + n
    /\ WakeReader
    /\ UNCHANGED <<processes, process_count, current_process,
                   current_process_index, rr_cursor, next_pid, cr3>>

-----------------------------------------------------------------------------
(* System calls of the current process *)

InUser == proc[current_process].where = "user" /\ current_process # Idle

\* A creation that fails after next_pid++ (no memory, bad ELF segments).
CreateFails ==
    /\ InUser
    /\ next_pid <= MaxPid
    /\ next_pid' = next_pid + 1
    /\ UNCHANGED <<processes, proc, process_count, current_process,
                   current_process_index, rr_cursor, cr3, ttyVars>>

\* sys_fork / clone_process: refused when the table is full.
Fork ==
    /\ InUser
    /\ FreeSlots(processes) # {}
    /\ next_pid <= MaxPid
    /\ proc' = [proc EXCEPT ![next_pid] = NewProcess(current_process, FALSE)]
    /\ next_pid' = next_pid + 1
    /\ AddProcess(next_pid)
    /\ UNCHANGED <<current_process, current_process_index, rr_cursor, cr3,
                   ttyVars>>

\* sys_spawn: create_process_from_elf, then add_process with its result
\* ignored.
Spawn ==
    /\ InUser
    /\ next_pid <= MaxPid
    /\ proc' = [proc EXCEPT ![next_pid] = NewProcess(current_process, FALSE)]
    /\ next_pid' = next_pid + 1
    /\ AddProcess(next_pid)
    /\ UNCHANGED <<current_process, current_process_index, rr_cursor, cr3,
                   ttyVars>>

\* exit and exit_group.
Exit ==
    /\ InUser
    /\ \E x \in DoExit(proc, current_process, rr_cursor, cr3) : Install(x)
    /\ UNCHANGED <<processes, process_count, next_pid, ttyVars>>

\* The children do_wait(pid) of the current process considers.
WaitMatches(p, pid) ==
    {c \in Pids : /\ InTable(processes, c)
                  /\ proc[c].parent = p
                  /\ pid = AnyPid \/ c = pid}

ZombieMatches(p, pid) == {c \in WaitMatches(p, pid) : proc[c].state = "ZOMBIE"}

\* do_wait finds a zombie (the first in slot order), removes and destroys it.
WaitReap(pid) ==
    /\ InUser
    /\ \E s \in Slots :
         /\ processes[s] \in ZombieMatches(current_process, pid)
         /\ \A t \in Slots :
                processes[t] \in ZombieMatches(current_process, pid) => s <= t
         /\ ProcessRemove(processes[s])
         /\ proc' = [proc EXCEPT ![processes[s]] = NoProcess,
                                 ![current_process].reason = "NONE",
                                 ![current_process].wait_pid = AnyPid]
    /\ UNCHANGED <<current_process, rr_cursor, next_pid, cr3, ttyVars>>

\* do_wait blocks, and syscall_entry calls the scheduler.  (Without a
\* matching child it returns -1 and changes nothing.)
WaitBlock(pid) ==
    /\ InUser
    /\ WaitMatches(current_process, pid) # {}
    /\ ZombieMatches(current_process, pid) = {}
    /\ \E o \in Scheduler([proc EXCEPT ![current_process].reason = "CHILD",
                                       ![current_process].wait_pid = pid,
                                       ![current_process].state = "WAITING"],
                          current_process, rr_cursor, cr3) : Install(o)
    /\ UNCHANGED <<processes, process_count, next_pid, ttyVars>>

\* tty_read finds the cooked buffer empty: the process registers itself and
\* halts with interrupts on, still current until an interrupt reschedules.
TtyBlock ==
    /\ InUser \/ proc[current_process].where = "tty"
    /\ ring = 0
    /\ waiting_reader' = current_process
    /\ proc' = [proc EXCEPT ![current_process].reason = "TTY",
                            ![current_process].wait_pid = AnyPid,
                            ![current_process].state = "WAITING",
                            ![current_process].where = "tty"]
    /\ UNCHANGED <<processes, process_count, current_process,
                   current_process_index, rr_cursor, next_pid, cr3, ring>>

\* tty_read takes n bytes and returns (end of line, or count reached).
TtyTake(n) ==
    /\ InUser \/ proc[current_process].where = "tty"
    /\ n \in 1 .. ring
    /\ ring' = ring - n
    /\ proc' = [proc EXCEPT ![current_process].where = "user"]
    /\ UNCHANGED <<processes, process_count, current_process,
                   current_process_index, rr_cursor, next_pid, cr3,
                   waiting_reader>>

\* tty_read takes all there is, needs more, and goes round its outer loop.
TtyTakeMore ==
    /\ InUser \/ proc[current_process].where = "tty"
    /\ ring > 0
    /\ ring' = 0
    /\ waiting_reader' = current_process
    /\ proc' = [proc EXCEPT ![current_process].reason = "TTY",
                            ![current_process].wait_pid = AnyPid,
                            ![current_process].state = "WAITING",
                            ![current_process].where = "tty"]
    /\ UNCHANGED <<processes, process_count, current_process,
                   current_process_index, rr_cursor, next_pid, cr3>>

-----------------------------------------------------------------------------
(* Kernel threads *)

InKernel == proc[current_process].where = "kernel" /\ current_process # Idle

\* kthread_create, from a system call or another kernel thread; the result
\* of add_process is ignored.
KthreadCreate ==
    /\ InUser \/ InKernel
    /\ next_pid <= MaxPid
    /\ proc' = [proc EXCEPT ![next_pid] = NewProcess(Idle, TRUE)]
    /\ next_pid' = next_pid + 1
    /\ AddProcess(next_pid)
    /\ UNCHANGED <<current_process, current_process_index, rr_cursor, cr3,
                   ttyVars>>

\* kthread_sleep_ms up to its first assignment: interrupts are on, so a
\* tick or a wake-up may come before the second.
KthreadSleep(d) ==
    /\ InKernel
    /\ proc' = [proc EXCEPT ![current_process].deadline = d,
                            ![current_process].where = "falling"]
    /\ UNCHANGED <<processes, process_count, current_process,
                   current_process_index, rr_cursor, next_pid, cr3, ttyVars>>

\* state = TASK_SLEEPING; kthread_yield().
KthreadFallAsleep ==
    /\ proc[current_process].where = "falling"
    /\ Resched([proc EXCEPT ![current_process].state = "SLEEPING",
                            ![current_process].where = "kernel"])
    /\ UNCHANGED <<processes, process_count, next_pid, ttyVars>>

\* kthread_yield / sys_yield.
KthreadYield ==
    /\ InKernel
    /\ Resched(proc)
    /\ UNCHANGED <<processes, process_count, next_pid, ttyVars>>

\* kthread_wake(t), by whatever kernel code holds the pointer.
KthreadWake(t) ==
    /\ proc[t].kthread
    /\ proc[t].state = "SLEEPING"
    /\ proc' = [proc EXCEPT ![t].deadline = NoDeadline, ![t].state = "READY"]
    /\ UNCHANGED <<processes, process_count, current_process,
                   current_process_index, rr_cursor, next_pid, cr3, ttyVars>>

\* kthread_exit: the loop that wakes the parent runs over the first
\* process_count slots and looks at no wait reason.
KthreadExit ==
    /\ InKernel
    /\ LET woken == {p \in Pids : /\ p = proc[current_process].parent
                                  /\ \E s \in 0 .. process_count - 1 :
                                        s \in Slots /\ processes[s] = p
                                  /\ proc[p].state = "WAITING"}
       IN  Resched([p \in Pids |->
                      [proc[p] EXCEPT
                         !.state = IF p = current_process THEN "ZOMBIE"
                                   ELSE IF p \in woken THEN "READY" ELSE @]])
    /\ UNCHANGED <<processes, process_count, next_pid, ttyVars>>

-----------------------------------------------------------------------------

\* The state in which kmain jumps to ring 3: init_scheduler has made idle,
\* init is the only process and runs.
Init ==
    /\ processes = [s \in Slots |-> IF s = 0 THEN Init1 ELSE NoProc]
    /\ proc = [p \in Pids |->
                 IF p = Idle
                   THEN [NewProcess(Idle, TRUE) EXCEPT
                           !.state = "RUNNING", !.prio = PRIO_IDLE]
                 ELSE IF p = Init1
                   THEN [NewProcess(Idle, FALSE) EXCEPT !.state = "RUNNING"]
                 ELSE NoProcess]
    /\ process_count = 1
    /\ current_process = Init1
    /\ current_process_index = -1
    /\ rr_cursor = 0
    /\ next_pid = 2
    /\ cr3 = Init1
    /\ ring = 0
    /\ waiting_reader = NoProc

\* Everything but the timer and the creation of user processes.
OtherStep ==
    \/ CtrlC
    \/ \E n \in 1 .. RingCap : TtyInput(n)
    \/ CreateFails
    \/ Exit
    \/ \E pid \in UserPids \cup {AnyPid} : WaitReap(pid)
    \/ \E pid \in UserPids \cup {AnyPid} : WaitBlock(pid)
    \/ TtyBlock
    \/ \E n \in 1 .. RingCap : TtyTake(n)
    \/ TtyTakeMore
    \/ KthreadCreate
    \/ \E d \in 0 .. MaxSleep : KthreadSleep(d)
    \/ KthreadFallAsleep
    \/ KthreadYield
    \/ \E t \in UserPids : KthreadWake(t)
    \/ KthreadExit

Step == Fork \/ Spawn \/ OtherStep

Next == Timer \/ Step

Spec == Init /\ [][Next]_vars
-----------------------------------------------------------------------------
(* Properties *)

Occupied == {s \in Slots : processes[s] # NoProc}

\* The table never names a process twice or a destroyed one, process_count is
\* the number of its occupied slots, and current_process_index, when set, is
\* the slot of current_process (add_process, process_remove, scheduler).
TableConsistent ==
    /\ \A s, t \in Occupied : processes[s] = processes[t] => s = t
    /\ \A s \in Occupied : proc[processes[s]].state # "FREE"
    /\ process_count = Cardinality(Occupied)
    /\ current_process_index # -1 =>
           processes[current_process_index] = current_process

\* The scheduler's choice and the states agree: a process marked
\* TASK_RUNNING is the current one, and the current one is idle or a live
\* process of the table, so a tick always has a context to save into.
OneRunner ==
    /\ \A p \in UserPids : proc[p].state = "RUNNING" => p = current_process
    /\ current_process # Idle =>
           /\ InTable(processes, current_process)
           /\ proc[current_process].state \in {"RUNNING", "READY", "WAITING"}
           /\ proc[current_process].state = "WAITING" =>
                  proc[current_process].where = "tty"

\* adopt_children leaves no orphan: the parent of every process of the table
\* is idle or a process of the table, and is a zombie only if it is init.
NoOrphans ==
    \A s \in Occupied :
        LET parent == proc[processes[s]].parent
        IN  parent # Idle =>
               /\ InTable(processes, parent)
               /\ parent # Init1 => proc[parent].state # "ZOMBIE"

\* No lost child wake-up: a process blocked in wait has a child it waits for,
\* and none of those has exited already (do_wait against do_exit, signal
\* exits and adoption).
NoLostChildWakeup ==
    \A p \in UserPids :
        proc[p].state = "WAITING" /\ proc[p].reason = "CHILD" =>
            /\ WaitMatches(p, proc[p].wait_pid) # {}
            /\ ZombieMatches(p, proc[p].wait_pid) = {}

\* tty->waiting_reader never dangles: it names a live process inside
\* tty_read, and only while there is nothing to read.
ReaderPointerSound ==
    waiting_reader # NoProc =>
        /\ proc[waiting_reader].where = "tty"
        /\ proc[waiting_reader].state \notin {"ZOMBIE", "FREE"}
        /\ ring = 0

\* The loaded page table is never one that process_destroy has freed, and is
\* the current process's own whenever that process has one, though the
\* scheduler skips the switch to idle and between equal PML4s.
AddressSpaceLive ==
    /\ proc[cr3].state # "FREE"
    /\ ~proc[current_process].kthread => cr3 = current_process

\* A sleeping kernel thread always has a deadline that will wake it, however
\* ticks and kthread_wake fall between the two stores of kthread_sleep_ms.
SleepersHaveDeadline ==
    \A p \in UserPids :
        proc[p].state = "SLEEPING" => proc[p].deadline # NoDeadline

\* A zombie stays one until its parent, then current, reaps it: nothing ever
\* schedules or revives it.
ZombieOnlyReaped ==
    \A p \in UserPids :
        proc[p].state = "ZOMBIE" =>
            \/ proc'[p].state = "ZOMBIE" /\ current_process' # p
            \/ proc'[p].state = "FREE" /\ current_process = proc[p].parent

ZombiesOnlyReaped == [][ZombieOnlyReaped]_vars

\* Input that completes a line wakes every process blocked on the TTY: none
\* sleeps while there is something to read.
NoSleepOnData ==
    ring > 0 =>
        \A p \in UserPids :
            ~(proc[p].state = "WAITING" /\ proc[p].reason = "TTY")
=============================================================================
