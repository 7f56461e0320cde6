------------------------------ MODULE Mailbox ------------------------------
(***************************************************************************)
(* The hand-over of tasks to application processors: mailbox_send_task and *)
(* mailbox_handle_task (kernel/mailbox.c), the processors' loop            *)
(* (kernel/smp.c) and the wake-up IPI.  kmain starts the processors, sleeps *)
(* for a second and then sends; a processor that is still starting has its *)
(* LAPIC off and loses the IPI.                                            *)
(***************************************************************************)
EXTENDS Integers, Sequences

CONSTANTS
    Cpus,           \* the application processors
    MaxTasks,       \* bound: tasks sent
    SleepIsEnough   \* the processors are up before the first task is sent

ASSUME MailboxAssumption == MaxTasks \in Nat /\ SleepIsEnough \in BOOLEAN

VARIABLES
    func,           \* cpu -> the task in its mailbox, 0 for NULL
    task_pending,   \* cpu -> BOOLEAN
    irr,            \* cpu -> the IPI is latched in its LAPIC
    ap,             \* cpu -> where it is in ap_kernel_entry
    send,           \* where cpu 0 is in mailbox_send_task
    target,         \* the processor it sends to
    sent,           \* tasks sent: the last one's number
    inbox,          \* cpu -> the tasks sent to it
    done            \* cpu -> the tasks it has run

mailVars == <<func, task_pending, irr, ap, send, target, sent, inbox, done>>

MailInit ==
    /\ func = [c \in Cpus |-> 0]
    /\ task_pending = [c \in Cpus |-> FALSE]
    /\ irr = [c \in Cpus |-> FALSE]
    /\ ap = [c \in Cpus |-> "starting"]
    /\ send = "idle"
    /\ target \in Cpus
    /\ sent = 0
    /\ inbox = [c \in Cpus |-> <<>>]
    /\ done = [c \in Cpus |-> <<>>]

\* A call of mailbox_send_task for processor c.
SendStart(c) ==
    /\ send = "idle"
    /\ sent < MaxTasks
    /\ SleepIsEnough => \A d \in Cpus : ap[d] # "starting"
    /\ send' = "spin"
    /\ target' = c
    /\ sent' = sent + 1
    /\ UNCHANGED <<func, task_pending, irr, ap, inbox, done>>

\* The spin loop ends; func and arg are stored.
SendFill ==
    /\ send = "spin"
    /\ ~task_pending[target]
    /\ func' = [func EXCEPT ![target] = sent]
    /\ inbox' = [inbox EXCEPT ![target] = Append(@, sent)]
    /\ send' = "post"
    /\ UNCHANGED <<task_pending, irr, ap, target, sent, done>>

SendPost ==
    /\ send = "post"
    /\ task_pending' = [task_pending EXCEPT ![target] = TRUE]
    /\ send' = "ipi"
    /\ UNCHANGED <<func, irr, ap, target, sent, inbox, done>>

\* lapic_send_ipi: latched if the LAPIC is on, lost otherwise.
SendIpi ==
    /\ send = "ipi"
    /\ irr' = [irr EXCEPT ![target] = (ap[target] # "starting")]
    /\ send' = "idle"
    /\ UNCHANGED <<func, task_pending, ap, target, sent, inbox, done>>

\* lapic_init_per_core, and on to the loop.
ApOnline(c) ==
    /\ ap[c] = "starting"
    /\ ap' = [ap EXCEPT ![c] = "halted"]
    /\ UNCHANGED <<func, task_pending, irr, send, target, sent, inbox, done>>

\* "sti; hlt" ends with the IPI; its handler only acknowledges; then cli.
ApWake(c) ==
    /\ ap[c] = "halted"
    /\ irr[c]
    /\ irr' = [irr EXCEPT ![c] = FALSE]
    /\ ap' = [ap EXCEPT ![c] = "look"]
    /\ UNCHANGED <<func, task_pending, send, target, sent, inbox, done>>

\* Variant: task_pending is cleared before the task runs.
ApLookClears(c) ==
    /\ ap[c] = "look"
    /\ ap' = [ap EXCEPT ![c] = IF task_pending[c] THEN "run" ELSE "halted"]
    /\ task_pending' = [task_pending EXCEPT ![c] = FALSE]
    /\ UNCHANGED <<func, irr, send, target, sent, inbox, done>>

\* mailbox_handle_task looks at task_pending.
ApLook(c) ==
    /\ ap[c] = "look"
    /\ ap' = [ap EXCEPT ![c] = IF task_pending[c] THEN "run" ELSE "halted"]
    /\ UNCHANGED <<func, task_pending, irr, send, target, sent, inbox, done>>

\* The task runs.
ApRun(c) ==
    /\ ap[c] = "run"
    /\ done' = [done EXCEPT ![c] = Append(@, func[c])]
    /\ ap' = [ap EXCEPT ![c] = "finish"]
    /\ UNCHANGED <<func, task_pending, irr, send, target, sent, inbox>>

\* task_pending = false, and back to "sti; hlt".
ApFinish(c) ==
    /\ ap[c] = "finish"
    /\ task_pending' = [task_pending EXCEPT ![c] = FALSE]
    /\ ap' = [ap EXCEPT ![c] = "halted"]
    /\ UNCHANGED <<func, irr, send, target, sent, inbox, done>>

Sending == SendFill \/ SendPost \/ SendIpi

ApLoop(c) == ApWake(c) \/ ApLook(c) \/ ApRun(c) \/ ApFinish(c)

MailNext ==
    \/ Sending
    \/ \E c \in Cpus : SendStart(c) \/ ApOnline(c) \/ ApLoop(c)

MailSpec == MailInit /\ [][MailNext]_mailVars

-----------------------------------------------------------------------------
(* Properties *)

\* A processor runs exactly the tasks sent to it, once each and in order: the
\* sender never overwrites one that is waiting or running.
TasksRunOnce ==
    \A c \in Cpus :
        /\ Len(done[c]) <= Len(inbox[c])
        /\ \A i \in 1 .. Len(done[c]) : done[c][i] = inbox[c][i]

\* Every task that is sent is run, and cpu 0 never spins for ever.
EveryTaskRuns ==
    \A i \in 1 .. MaxTasks :
        sent >= i ~> \E c \in Cpus : \E k \in 1 .. Len(done[c]) : done[c][k] = i
=============================================================================
