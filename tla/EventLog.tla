------------------------------ MODULE EventLog ------------------------------
(***************************************************************************)
(* What an input device promises its readers: the newest events, at most   *)
(* Capacity of them, in the order in which they happened.                  *)
(***************************************************************************)
EXTENDS Integers, Sequences

CONSTANTS Events, Capacity

VARIABLES log, got

Newest(s) == IF Len(s) <= Capacity THEN s
             ELSE SubSeq(s, Len(s) - Capacity + 1, Len(s))

Init == log = <<>> /\ got = <<>>

\* One event, or two at once: a key and the report that ends it.
Happen ==
    /\ \E e, f \in Events : log' \in {Newest(log \o <<e>>), Newest(log \o <<e, f>>)}
    /\ UNCHANGED got

Take ==
    \E n \in 0 .. Len(log) :
        /\ got' = SubSeq(log, 1, n)
        /\ log' = SubSeq(log, n + 1, Len(log))

Spec == Init /\ [][Take \/ Happen]_<<log, got>>
=============================================================================
