-------------------------------- MODULE Cpu --------------------------------
(***************************************************************************)
(* The entry and exit paths of the kernel around the operations of Sched:  *)
(* syscall_entry.S, isr_stub in idt_stub.S, force_context_restore in       *)
(* x86.S, jump_to_usermode in usermode.S.  Each action of Sched is taken   *)
(* together with what the path it runs on does to the active GS base, to   *)
(* the two kernel stack pointers and to the LAPIC.                         *)
(*                                                                         *)
(* A kernel stack is named by the pid of its owner.                        *)
(***************************************************************************)
EXTENDS Sched

VARIABLES
    gs,         \* the active GS base: "kernel" is &main_cpu_context
    gs0,        \* main_cpu_context.kernel_stack: where syscall_entry goes
    rsp0,       \* tss_per_cpu[0].rsp0: where an interrupt from ring 3 goes
    inService,  \* the timer's bit in the LAPIC's in-service register
    mixed,      \* a kernel context was resumed by a path made for ring 3
    halted      \* the CPU is in the exception handler's final loop

pathVars == <<gs, gs0, rsp0, inService, mixed, halted>>
cpuVars == <<vars, pathVars>>

Ring3(P, p) == p # Idle /\ P[p].where = "user"

Flip(g) == IF g = "kernel" THEN "user" ELSE "kernel"

\* Variant: the swap is made whatever ring the frame is of.
SwapAlways(g, P, p) == Flip(g)

\* isr_stub's conditional swapgs, on entry for the interrupted context and
\* on return for the resumed one.
SwapIfRing3(g, P, p) == IF Ring3(P, p) THEN Flip(g) ELSE g

UpdateRsp0 ==
    rsp0' = IF current_process' = current_process THEN rsp0
                                                  ELSE current_process'

\* do_exit ran in this step (of a system call or of signal delivery).
Exited ==
    \E p \in UserPids : /\ ~proc[p].kthread
                        /\ proc[p].state # "ZOMBIE"
                        /\ proc'[p].state = "ZOMBIE"

\* do_exit's way out: gs:0 := current_process->kstack_top (a fault if the
\* active GS base is not the kernel's), swapgs, iretq, whatever the ring.
ForceContextRestore(g) ==
    /\ halted' = (g # "kernel")
    /\ gs0' = IF g = "kernel" THEN current_process' ELSE gs0
    /\ gs' = Flip(g)
    /\ mixed' = (mixed \/ ~Ring3(proc', current_process'))
    /\ rsp0' = current_process'

\* The rest of isr_stub after the handler: back through the frame the
\* scheduler returned, or through do_exit.
IsrReturn(g) ==
    IF Exited
      THEN ForceContextRestore(g)
      ELSE /\ gs' = SwapIfRing3(g, proc', current_process')
           /\ UpdateRsp0
           /\ UNCHANGED <<gs0, mixed, halted>>

\* The timer interrupt.  lapic_eoi is the handler's last statement, so
\* do_exit from signal delivery leaves the timer in service.
CpuTimer ==
    /\ ~halted /\ ~inService
    /\ Timer
    /\ IsrReturn(SwapIfRing3(gs, proc, current_process))
    /\ inService' = Exited

\* int 0x30 from a kernel thread.
CpuYield ==
    /\ ~halted
    /\ KthreadFallAsleep \/ KthreadYield \/ KthreadExit
    /\ IsrReturn(SwapIfRing3(gs, proc, current_process))
    /\ UNCHANGED inService

\* The keyboard comes through the PIC, so it is delivered with the timer in
\* service as well; its lapic_eoi then completes the timer's.
CpuKeyboard ==
    /\ ~halted
    /\ CtrlC \/ \E n \in 1 .. RingCap : TtyInput(n)
    /\ inService' = FALSE
    /\ UNCHANGED <<gs, gs0, rsp0, mixed, halted>>

\* syscall_entry with the GS bases exchanged: [gs:8] is not mapped.
SyscallFault ==
    /\ ~halted /\ InUser /\ gs = "kernel"
    /\ halted' = TRUE
    /\ UNCHANGED <<vars, gs, gs0, rsp0, inService, mixed>>

Syscall == ~halted /\ InUser /\ gs = "user"

\* System calls that return to their caller: the two swapgs cancel.
CpuSyscall ==
    /\ Syscall
    /\ \/ CreateFails
       \/ Fork
       \/ Spawn
       \/ \E pid \in UserPids \cup {AnyPid} : WaitReap(pid)
       \/ KthreadCreate
       \/ \E n \in 1 .. RingCap : TtyTake(n)
    /\ UNCHANGED pathVars

\* execve that succeeds: rsp0 is the caller's stack again, the new page
\* table takes the old one's place, GS goes back to the user's.
Execve ==
    /\ Syscall
    /\ rsp0' = current_process
    /\ UNCHANGED <<vars, gs, gs0, inService, mixed, halted>>

\* exit and exit_group.
CpuExit ==
    /\ Syscall
    /\ Exit
    /\ ForceContextRestore("kernel")
    /\ UNCHANGED inService

\* A wait that blocks: .switch_to_new_context sets gs:0 and returns with
\* sysret through the frame of whatever was elected.  A kernel context then
\* runs in ring 3 and faults at its first fetch.
CpuWaitBlock ==
    /\ Syscall
    /\ \E pid \in UserPids \cup {AnyPid} : WaitBlock(pid)
    /\ gs0' = current_process'
    /\ UpdateRsp0
    /\ halted' = ~Ring3(proc', current_process')
    /\ mixed' = (mixed \/ ~Ring3(proc', current_process'))
    /\ UNCHANGED <<gs, inService>>

\* A read that goes to sleep: syscall_entry's swapgs has happened, the one
\* before sysret has not.
CpuTtyBlock ==
    /\ ~halted
    /\ InUser => gs = "user"
    /\ TtyBlock \/ TtyTakeMore
    /\ gs' = SwapIfRing3(gs, proc, current_process)
    /\ UNCHANGED <<gs0, rsp0, inService, mixed, halted>>

\* ... and one that wakes up, takes its bytes and returns by sysret.
CpuTtyReturn ==
    /\ ~halted
    /\ proc[current_process].where = "tty"
    /\ \E n \in 1 .. RingCap : TtyTake(n)
    /\ gs' = Flip(gs)
    /\ UNCHANGED <<gs0, rsp0, inService, mixed, halted>>

\* Kernel-thread code that does not reschedule.
CpuKthread ==
    /\ ~halted
    /\ \/ InKernel /\ KthreadCreate
       \/ \E d \in 0 .. MaxSleep : KthreadSleep(d)
       \/ \E t \in UserPids : KthreadWake(t)
    /\ UNCHANGED pathVars

\* kmain: gs_init, then init's stack in both places, then jump_to_usermode.
CpuInit ==
    /\ Init
    /\ gs = "user"
    /\ gs0 = Init1
    /\ rsp0 = Init1
    /\ inService = FALSE
    /\ mixed = FALSE
    /\ halted = FALSE

CpuNext ==
    \/ CpuTimer
    \/ CpuYield
    \/ CpuKeyboard
    \/ SyscallFault
    \/ CpuSyscall
    \/ Execve
    \/ CpuExit
    \/ CpuWaitBlock
    \/ CpuTtyBlock
    \/ CpuTtyReturn
    \/ CpuKthread

CpuSpec == CpuInit /\ [][CpuNext]_cpuVars

-----------------------------------------------------------------------------
(* Properties *)


\* As long as sysret and force_context_restore have only been used for
\* contexts of ring 3, the active GS base is the one the code of the current
\* context expects, and the CPU has not faulted.
GsFollowsRing ==
    ~mixed =>
        /\ gs = IF Ring3(proc, current_process) THEN "user" ELSE "kernel"
        /\ ~halted

\* A system call of the selected process enters on that process's stack.
SyscallsOnOwnStack == Ring3(proc, current_process) => gs0 = current_process

\* Every interrupt of the LAPIC is acknowledged by the time its handler is
\* left.
TimerAcknowledged == ~inService
=============================================================================
