------------------------------ MODULE TtyQueue ------------------------------
(***************************************************************************)
(* What the cooked buffer of a TTY promises: characters leave in the order *)
(* in which they came and each goes to one read; erase and changes of mode *)
(* do not touch what is in it; when it is full, input is cut at its end.   *)
(***************************************************************************)
EXTENDS Integers, Sequences

CONSTANTS Chars, Capacity

VARIABLES q, got

IsPrefixOf(s, t) == Len(s) <= Len(t) /\ s = SubSeq(t, 1, Len(s))

Init == q = <<>> /\ got = <<>>

\* Characters are added at the end, what was there stays.
Enter ==
    /\ IsPrefixOf(q, q')
    /\ Len(q') <= Capacity
    /\ UNCHANGED got

\* A read takes the next n; it is a new read or one that goes on.
Leave ==
    \E n \in 0 .. Len(q), old \in {<<>>, got} :
        /\ got' = old \o SubSeq(q, 1, n)
        /\ q' = SubSeq(q, n + 1, Len(q))

Spec == Init /\ [][Enter \/ Leave]_<<q, got>>
=============================================================================
