------------------------------- MODULE Evdev -------------------------------
(***************************************************************************)
(* The event ring of /dev/input/event1 (kernel/vfs/devfs/evdev/main.c):    *)
(* the keyboard interrupt pushes two events for every byte, one reader     *)
(* drains the ring; the oldest event gives way when the ring is full.      *)
(***************************************************************************)
EXTENDS Integers, Sequences, Ring

CONSTANTS
    EV_BUFFER_SIZE, \* slots of the ring
    KeyEvents       \* the EV_KEY events

ASSUME EvdevAssumption == EV_BUFFER_SIZE \in Nat \ {0, 1}

VARIABLES
    ev,     \* evdev_state_t: buffer, head, tail
    got,    \* what the last read returned
    last    \* the last event any read returned

evVars == <<ev, got, last>>

SYN == "syn"

AllEvents == KeyEvents \cup {SYN}

EvSlots == 0 .. EV_BUFFER_SIZE - 1

EvNext(i) == (i + 1) % EV_BUFFER_SIZE

\* Variant: the test for a full ring is missing.
PushUnchecked(s, e) ==
    [s EXCEPT !.buffer[s.head] = e, !.head = EvNext(@)]

\* evdev_push_event.
Push(s, e) ==
    LET head == EvNext(s.head)
    IN  [buffer |-> [s.buffer EXCEPT ![s.head] = e], head |-> head,
         tail |-> IF head = s.tail THEN EvNext(s.tail) ELSE s.tail]

\* Variant: the report is left out.
KeyEventAlone ==
    /\ \E e \in KeyEvents : ev' = Push(ev, e)
    /\ UNCHANGED <<got, last>>

\* A byte from the keyboard: its key event and the report after it.
KeyEvent ==
    /\ \E e \in KeyEvents : ev' = Push(Push(ev, e), SYN)
    /\ UNCHANGED <<got, last>>

\* devfs_evdev_read with room for n events.
EvdevRead(n) ==
    LET all == RingSeq(ev.buffer, ev.head, ev.tail, EV_BUFFER_SIZE)
        read == IF n < Len(all) THEN n ELSE Len(all)
    IN  /\ got' = SubSeq(all, 1, read)
        /\ last' = IF read = 0 THEN last ELSE all[read]
        /\ ev' = [ev EXCEPT !.tail = (@ + read) % EV_BUFFER_SIZE]

\* evdev_init.
EvInit ==
    /\ ev = [buffer |-> [i \in EvSlots |-> SYN], head |-> 0, tail |-> 0]
    /\ got = <<>>
    /\ last = SYN

EvdevNext == KeyEvent \/ \E n \in 1 .. EV_BUFFER_SIZE : EvdevRead(n)

EvdevSpec == EvInit /\ [][EvdevNext]_evVars

-----------------------------------------------------------------------------
(* Properties *)

\* A reader never sees two key events without the report between them, however
\* many events were dropped since its last read and wherever that read
\* stopped.  The drop of single events keeps pairs apart only because the ring
\* holds an odd number of events when it is full.
ReportsBetweenKeys ==
    LET seen == <<last>> \o RingSeq(ev.buffer, ev.head, ev.tail, EV_BUFFER_SIZE)
    IN  \A i \in 1 .. Len(seen) - 1 : seen[i] = SYN \/ seen[i + 1] = SYN

\* The ring is the log of the newest events: see EventLog.
Log == INSTANCE EventLog WITH
           log <- RingSeq(ev.buffer, ev.head, ev.tail, EV_BUFFER_SIZE),
           Events <- AllEvents, Capacity <- EV_BUFFER_SIZE - 1

LogSpec == Log!Spec
=============================================================================
