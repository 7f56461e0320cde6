----------------------------- MODULE SchedLive -----------------------------
(***************************************************************************)
(* What the scheduler owes a process in the long run.  The only fairness   *)
(* is that the timer keeps interrupting: the LAPIC timer is periodic and   *)
(* every place the kernel waits in sets IF, so ticks never stop coming.    *)
(* User programs, the keyboard and kernel threads may do nothing for ever. *)
(***************************************************************************)
EXTENDS Sched

VARIABLE tick       \* timer_ticks % 2, so that every tick is a visible step

liveVars == <<vars, tick>>

LiveInit == Init /\ tick = 0

LiveTimer == Timer /\ tick' = 1 - tick

LiveStep == Step /\ UNCHANGED tick

LiveNext == LiveTimer \/ LiveStep

\* The timer is always enabled, so this is its weak fairness.
LiveSpec ==
    /\ LiveInit
    /\ [][LiveNext]_liveVars
    /\ []<><<tick' # tick>>_liveVars


=============================================================================
