------------------------------- MODULE SmpLog -------------------------------
(***************************************************************************)
(* The log ring of kernel/smplog.c: application processors put messages    *)
(* into it (debugln, through smp_enqueue_log), the timer interrupt of cpu 0 *)
(* prints them.  Every access of a slot's ready flag is a step, and so is  *)
(* each half of a message's text.  The indices are 32-bit and the size of  *)
(* the ring divides 2^32, so their wrap changes no slot number.            *)
(***************************************************************************)
EXTENDS Integers, Sequences

CONSTANTS
    Aps,                \* the application processors
    LOG_QUEUE_SIZE,     \* slots of the ring (16 in the code)
    MaxMsgs             \* bound: messages logged

ASSUME SmpLogAssumption ==
    /\ LOG_QUEUE_SIZE \in Nat \ {0}
    /\ MaxMsgs \in Nat

VARIABLES
    ready,      \* slot -> 0 empty, 1 writing, 2 ready to print
    text,       \* slot -> the message in each half of its text, 0 for none
    write_idx,
    read_idx,
    pc,         \* processor -> where it is in smp_enqueue_log
    ticket,     \* processor -> the value atomic_fetch_add gave it
    flush,      \* where cpu 0 is in smp_flush_logs_to_screen
    printed,    \* what debug_write has printed: a sequence of texts
    clash       \* two processors were in one slot at the same time

logVars == <<ready, text, write_idx, read_idx, pc, ticket, flush, printed, clash>>

LogSlots == 0 .. LOG_QUEUE_SIZE - 1
Slot(i) == i % LOG_QUEUE_SIZE

\* Message i is the one whose processor drew ticket i; 0 is no message.
Msg(i) == i + 1
Whole(m) == [h \in {1, 2} |-> m]

LogInit ==
    /\ ready = [s \in LogSlots |-> 0]
    /\ text = [s \in LogSlots |-> Whole(0)]
    /\ write_idx = 0
    /\ read_idx = 0
    /\ pc = [a \in Aps |-> "idle"]
    /\ ticket = [a \in Aps |-> 0]
    /\ flush = "idle"
    /\ printed = <<>>
    /\ clash = FALSE

\* slot = atomic_fetch_add(&g_queue_write_idx, 1) % LOG_QUEUE_SIZE.
Claim(a) ==
    /\ pc[a] = "idle"
    /\ write_idx < MaxMsgs
    /\ ticket' = [ticket EXCEPT ![a] = write_idx]
    /\ write_idx' = write_idx + 1
    /\ pc' = [pc EXCEPT ![a] = "wait"]
    /\ clash' = (clash \/ \E b \in Aps : pc[b] # "idle" /\
                                         Slot(ticket[b]) = Slot(write_idx))
    /\ UNCHANGED <<ready, text, read_idx, flush, printed>>

\* Variant: the spin loop is missing.
SeeEmptyAlways(a) ==
    /\ pc[a] = "wait"
    /\ pc' = [pc EXCEPT ![a] = "mark"]
    /\ UNCHANGED <<ready, text, write_idx, read_idx, ticket, flush, printed, clash>>

\* The spin loop ends.
SeeEmpty(a) ==
    /\ pc[a] = "wait"
    /\ ready[Slot(ticket[a])] = 0
    /\ pc' = [pc EXCEPT ![a] = "mark"]
    /\ UNCHANGED <<ready, text, write_idx, read_idx, ticket, flush, printed, clash>>

Mark(a) ==
    /\ pc[a] = "mark"
    /\ ready' = [ready EXCEPT ![Slot(ticket[a])] = 1]
    /\ pc' = [pc EXCEPT ![a] = "copy1"]
    /\ UNCHANGED <<text, write_idx, read_idx, ticket, flush, printed, clash>>

\* strncpy, in two halves.
Copy(a) ==
    \E h \in {1, 2} :
        /\ pc[a] = IF h = 1 THEN "copy1" ELSE "copy2"
        /\ text' = [text EXCEPT ![Slot(ticket[a])][h] = Msg(ticket[a])]
        /\ pc' = [pc EXCEPT ![a] = IF h = 1 THEN "copy2" ELSE "publish"]
        /\ UNCHANGED <<ready, write_idx, read_idx, ticket, flush, printed, clash>>

Publish(a) ==
    /\ pc[a] = "publish"
    /\ ready' = [ready EXCEPT ![Slot(ticket[a])] = 2]
    /\ pc' = [pc EXCEPT ![a] = "idle"]
    /\ UNCHANGED <<text, write_idx, read_idx, ticket, flush, printed, clash>>

\* The loop condition of smp_flush_logs_to_screen, and the write to the
\* screen of what the slot holds.
FlushPrint ==
    /\ flush = "idle"
    /\ ready[Slot(read_idx)] = 2
    /\ printed' = Append(printed, text[Slot(read_idx)])
    /\ flush' = "clear"
    /\ UNCHANGED <<ready, text, write_idx, read_idx, pc, ticket, clash>>

\* Variants: the read index stays; it advances twice.
FlushClearStuck ==
    /\ flush = "clear"
    /\ ready' = [ready EXCEPT ![Slot(read_idx)] = 0]
    /\ flush' = "idle"
    /\ UNCHANGED <<text, write_idx, read_idx, pc, ticket, printed, clash>>
\* ready = 0 and g_queue_read_idx++, which cpu 0 alone reads.
FlushClear ==
    /\ flush = "clear"
    /\ ready' = [ready EXCEPT ![Slot(read_idx)] = 0]
    /\ read_idx' = read_idx + 1
    /\ flush' = "idle"
    /\ UNCHANGED <<text, write_idx, pc, ticket, printed, clash>>

Enqueuing(a) == SeeEmpty(a) \/ Mark(a) \/ Copy(a) \/ Publish(a)

Flushing == FlushPrint \/ FlushClear

LogNext == Flushing \/ \E a \in Aps : Claim(a) \/ Enqueuing(a)

LogSpec == LogInit /\ [][LogNext]_logVars

-----------------------------------------------------------------------------
(* Properties *)

\* While no two processors have met in a slot, every message is printed once,
\* whole, and in the order of the tickets, however the ring fills and empties.
PrintedInOrder ==
    ~clash => \A i \in 1 .. Len(printed) : printed[i] = Whole(i)

\* Every message a processor starts to log reaches the screen, again unless
\* two processors have met in a slot.
EveryMessagePrinted ==
    \A i \in 0 .. MaxMsgs - 1 : write_idx > i ~> (Len(printed) > i \/ clash)
=============================================================================
