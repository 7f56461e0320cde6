-------------------------------- MODULE Smp --------------------------------
(***************************************************************************)
(* Mailboxes and log ring together, as kmain and ap_kernel_entry use them: *)
(* a processor logs a line when it comes up and one in every task          *)
(* (worker_hello_task), and waits inside the task while the ring is full;  *)
(* cpu 0 empties the ring in its timer interrupt, also while it spins in   *)
(* mailbox_send_task.                                                      *)
(***************************************************************************)
EXTENDS Mailbox, SmpLog

ASSUME SmpAssumption == Aps = Cpus

smpVars == <<mailVars, logVars>>

\* No debugln is in progress on processor c.
Quiet(c) == pc[c] = "idle"

\* lapic_init_per_core, then the line that says the core is online.
SmpOnline(c) == ApOnline(c) /\ Claim(c)

\* The task starts with its debugln.
SmpRun(c) == ApRun(c) /\ Claim(c)

\* The loop goes on when the line is in the ring.
SmpLoop(c) ==
    /\ Quiet(c)
    /\ ApWake(c) \/ ApLook(c) \/ ApFinish(c)
    /\ UNCHANGED logVars

\* Variant: kmain has interrupts off while it spins.
TimerFlushIfOff == send # "spin" /\ Flushing /\ UNCHANGED mailVars

\* The timer interrupt of cpu 0.
TimerFlush == Flushing /\ UNCHANGED mailVars

\* kmain, outside the timer interrupt.
SmpSending == flush = "idle" /\ Sending /\ UNCHANGED logVars

SmpStart(c) == flush = "idle" /\ SendStart(c) /\ UNCHANGED logVars

SmpEnqueuing(c) == Enqueuing(c) /\ UNCHANGED mailVars

SmpNext ==
    \/ TimerFlush
    \/ SmpSending
    \/ \E c \in Cpus : \/ SmpStart(c)
                       \/ SmpOnline(c)
                       \/ SmpRun(c)
                       \/ SmpLoop(c)
                       \/ SmpEnqueuing(c)

SmpInit == MailInit /\ LogInit

\* Every processor runs and the timer keeps coming.
SmpSpec ==
    /\ SmpInit
    /\ [][SmpNext]_smpVars
    /\ WF_smpVars(TimerFlush)
    /\ SF_smpVars(SmpSending)
    /\ \A c \in Cpus :
          WF_smpVars(SmpOnline(c) \/ SmpRun(c) \/ SmpLoop(c) \/ SmpEnqueuing(c))
=============================================================================
