------------------------------- MODULE Input -------------------------------
(***************************************************************************)
(* The way of a key press, for TLC: the entry paths of the processor (Cpu),*)
(* the decoder (Keyboard), the terminal (Tty) and the event device         *)
(* (Evdev).  A part hands the next one a value and keeps no reference to   *)
(* its state, so each is checked against every input: a behaviour is one   *)
(* of the part `input` names.                                              *)
(***************************************************************************)
EXTENDS Tty, Keyboard, Evdev, Cpu

VARIABLE input

inputVars == <<ttyModelVars, kbdVars, evVars, cpuVars, input>>

InputInit ==
    /\ TtyInit /\ KbdInit /\ EvInit /\ CpuInit
    /\ input \in {"tty", "keyboard", "evdev", "cpu"}

InputNext ==
    \/ input = "tty" /\ TtyNext /\ UNCHANGED <<kbdVars, evVars, cpuVars, input>>
    \/ input = "keyboard" /\ KbdNext /\ UNCHANGED <<ttyModelVars, evVars, cpuVars, input>>
    \/ input = "evdev" /\ EvdevNext /\ UNCHANGED <<ttyModelVars, kbdVars, cpuVars, input>>
    \/ input = "cpu" /\ CpuNext /\ UNCHANGED <<ttyModelVars, kbdVars, evVars, input>>
    \* Nobody has to press a key or to read the device, and a halted cpu stops.
    \/ input # "tty" /\ UNCHANGED inputVars

InputSpec == InputInit /\ [][InputNext]_inputVars
=============================================================================
