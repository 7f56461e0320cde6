-------------------------------- MODULE Ring --------------------------------
(***************************************************************************)
(* The circular buffers of the kernel (the TTY's cooked buffer, the input  *)
(* events, the pipes): an array of N slots with a slot to write next (head) *)
(* and one to read next (tail).  One slot stays free, so that head = tail  *)
(* means empty.                                                            *)
(***************************************************************************)
EXTENDS Integers, Sequences

RingLen(head, tail, N) == (head - tail + N) % N

RingFull(head, tail, N) == (head + 1) % N = tail

\* The contents, oldest first.
RingSeq(buf, head, tail, N) ==
    [i \in 1 .. RingLen(head, tail, N) |-> buf[(tail + i - 1) % N]]
=============================================================================
