-------------------------------- MODULE Tty --------------------------------
(***************************************************************************)
(* The line discipline of kernel/tty.c for one TTY and one reader.         *)
(* tty_input_char runs in the keyboard interrupt; tty_read runs with       *)
(* interrupts off and lets them in only where it sleeps, so each pass      *)
(* through its loop up to the sleep or the return is one step.  Echo is    *)
(* output and left out, and "x" stands for all characters treated alike.   *)
(* Ctrl-C in a sleeping read is a matter of Sched.                         *)
(***************************************************************************)
EXTENDS Integers, Sequences, SequencesExt, FiniteSetsExt, Ring

CONSTANTS
    TTY_BUF_SIZE,   \* slots of the cooked buffer and of the line buffer
    MaxCount        \* bound: the largest count of a read

ASSUME TtyAssumption == TTY_BUF_SIZE \in Nat \ {0, 1} /\ MaxCount \in Nat

VARIABLES
    tty,    \* cooked_buf, cooked_head, cooked_tail, line_buf up to line_len,
            \* ICANON, ICRNL, and waiting_reader # NULL
    rd      \* the read: pc, count, what it got, and whether ICANON was off in it

ttyModelVars == <<tty, rd>>

NL == "nl"
CR == "cr"
DEL == "del"
Chars == {"x", NL, CR, DEL}

\* What one interrupt can bring: a character, or an arrow key's three.
Inputs == {<<c>> : c \in Chars} \cup {<<"x", "x", "x">>}

CookedSlots == 0 .. TTY_BUF_SIZE - 1

Cooked(t) == RingSeq(t.cooked_buf, t.cooked_head, t.cooked_tail, TTY_BUF_SIZE)

Full(t) == RingFull(t.cooked_head, t.cooked_tail, TTY_BUF_SIZE)

\* Variant: the test for a full buffer is missing.
PutAlways(t, c) ==
    [t EXCEPT !.cooked_buf[t.cooked_head] = c,
              !.cooked_head = (@ + 1) % TTY_BUF_SIZE]

\* A character enters the cooked buffer unless it is full.
Put(t, c) ==
    IF Full(t) THEN t
    ELSE [t EXCEPT !.cooked_buf[t.cooked_head] = c,
                   !.cooked_head = (@ + 1) % TTY_BUF_SIZE]

\* tty_wake_reader.
Wake(t) == [t EXCEPT !.waiting = FALSE]

\* Variants: the newline is not part of the line; the reader is not woken.
LineWithoutNewline(t, c) ==
    IF Len(t.line) >= TTY_BUF_SIZE - 1 THEN [t EXCEPT !.line = <<>>]
    ELSE IF c # NL THEN [t EXCEPT !.line = Append(@, c)]
    ELSE Wake([FoldLeft(Put, t, t.line) EXCEPT !.line = <<>>])

LineNoWake(t, c) ==
    IF Len(t.line) >= TTY_BUF_SIZE - 1 THEN [t EXCEPT !.line = <<>>]
    ELSE IF c # NL THEN [t EXCEPT !.line = Append(@, c)]
    ELSE [FoldLeft(Put, t, Append(t.line, c)) EXCEPT !.line = <<>>]

\* A character other than erase, in canonical mode: a line that is too long
\* is forgotten, a finished one goes to the cooked buffer as far as it fits.
LineChar(t, c) ==
    IF Len(t.line) >= TTY_BUF_SIZE - 1 THEN [t EXCEPT !.line = <<>>]
    ELSE IF c # NL THEN [t EXCEPT !.line = Append(@, c)]
    ELSE Wake([FoldLeft(Put, t, Append(t.line, c)) EXCEPT !.line = <<>>])

\* tty_input_char.
TtyInputChar(t, ch) ==
    LET c == IF t.icrnl /\ ch = CR THEN NL ELSE ch
    IN  IF ~t.icanon THEN Wake(Put(t, c))
        ELSE IF c # DEL THEN LineChar(t, c)
        ELSE IF t.line = <<>> THEN t
        ELSE [t EXCEPT !.line = Front(@)]

\* The keyboard interrupt.
KeyTyped ==
    /\ \E s \in Inputs : tty' = FoldLeft(TtyInputChar, tty, s)
    /\ UNCHANGED rd

\* Variant: the newline does not end the read.
TakenIgnoresNewline(t, n) == Min({n, Len(Cooked(t))})

\* How many characters a pass through tty_read takes: until the count, the
\* end of the buffer or, in canonical mode, a newline.
Taken(t, n) ==
    LET c == Cooked(t)
        lines == {i \in 1 .. Len(c) : t.icanon /\ c[i] = NL}
    IN  Min({n, Len(c)} \cup lines)

NoRead == [pc |-> "none", count |-> 0, got |-> <<>>, raw |-> FALSE]

\* The loop of tty_read from where r is: it returns, or sets waiting_reader
\* and sleeps on an empty buffer.
ReadLoop(r, nonblock) ==
    LET n == Taken(tty, r.count - Len(r.got))
        got == r.got \o SubSeq(Cooked(tty), 1, n)
        line == tty.icanon /\ n > 0 /\ Last(got) = NL
        done == Len(got) = r.count \/ line \/ nonblock
    IN  /\ tty' = [tty EXCEPT !.cooked_tail = (@ + n) % TTY_BUF_SIZE,
                              !.waiting = @ \/ ~done]
        /\ rd' = [r EXCEPT !.pc = IF done THEN "none" ELSE "asleep",
                           !.count = IF done THEN 0 ELSE @,
                           !.got = got]

\* tty_vfs_read, with the count and O_NONBLOCK of the caller.
Read ==
    /\ rd.pc = "none"
    /\ \E n \in 1 .. MaxCount, nonblock \in BOOLEAN :
          ReadLoop([NoRead EXCEPT !.count = n, !.raw = ~tty.icanon], nonblock)

\* The reader was made READY and runs again.
ReadOn ==
    /\ rd.pc = "asleep"
    /\ ~tty.waiting
    /\ ReadLoop(rd, FALSE)

\* tty_ioctl, TCSETS: the flags change under a sleeping reader and a
\* half-typed line.
SetTermios ==
    \E canon, crnl \in BOOLEAN :
        /\ tty' = [tty EXCEPT !.icanon = canon, !.icrnl = crnl]
        /\ rd' = [rd EXCEPT !.raw = @ \/ (rd.pc = "asleep" /\ ~canon)]

\* tty_init.
TtyInit ==
    /\ tty = [cooked_buf |-> [s \in CookedSlots |-> "x"], cooked_head |-> 0,
              cooked_tail |-> 0, line |-> <<>>, icanon |-> TRUE,
              icrnl |-> TRUE, waiting |-> FALSE]
    /\ rd = NoRead

TtyNext == KeyTyped \/ Read \/ ReadOn \/ SetTermios

TtySpec == TtyInit /\ [][TtyNext]_ttyModelVars

-----------------------------------------------------------------------------
(* Properties *)

\* A reader that waits to be woken has an empty buffer before it: no order of
\* input, reads and changes of mode makes it sleep on readable characters.
NoSleepOnInput == tty.waiting => rd.pc = "asleep" /\ Cooked(tty) = <<>>

\* In canonical mode a read takes one line at most, and does not go on
\* sleeping with a finished line in its hands.
LineAtATime ==
    ~rd.raw => \A i \in 1 .. Len(rd.got) :
                  rd.got[i] = NL => rd.pc = "none" /\ i = Len(rd.got)

\* In canonical mode characters become readable by whole lines only, unless
\* the buffer fills up in the middle of one.
CommitsWholeLines ==
    [][tty.icanon /\ Len(Cooked(tty')) > Len(Cooked(tty)) =>
          Last(Cooked(tty')) = NL \/ Full(tty')]_ttyModelVars

\* The cooked buffer is a bounded queue: see TtyQueue.
Queue == INSTANCE TtyQueue WITH q <- Cooked(tty), got <- rd.got,
                                Capacity <- TTY_BUF_SIZE - 1

QueueSpec == Queue!Spec
=============================================================================
