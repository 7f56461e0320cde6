------------------------------ MODULE Keyboard ------------------------------
(***************************************************************************)
(* The PS/2 keyboard: irq 33 in arch/x86/idt.c and the decoder of          *)
(* kernel/keyboard.c.  The controller hands over one byte per interrupt;   *)
(* keys of the extended block send the prefix E0 before each byte.  Both   *)
(* files keep a flag of their own for Ctrl.  The event ring the decoder    *)
(* also fills is Evdev, what the TTY does with the characters is Tty; the  *)
(* array kb_buffer is written and never read, and left out.                *)
(***************************************************************************)
EXTENDS Integers, Sequences, SequencesExt, FiniteSets

CONSTANT MaxBytes   \* bound: bytes waiting in the controller

ASSUME KeyboardAssumption == MaxBytes \in Nat \ {0}

VARIABLES
    held,   \* the keys that are down
    ctl,    \* the bytes the controller has not delivered yet
    kbd,    \* shift_pressed, ctrl_pressed and extended of keyboard.c
    irq,    \* ctrl_pressed of idt.c, and whether SIGINT was raised last
    typed,  \* the characters the last interrupt gave to tty_input_char
    dumb    \* presses of plain keys since a prefix or since one had an effect

kbdVars == <<held, ctl, kbd, irq, typed, dumb>>

Keys == {"lshift", "rshift", "lctrl", "rctrl", "up", "a", "c"}

Extended == {"rctrl", "up"}

\* The code without prefix and release bit: rctrl shares that of lctrl.
Code(k) == IF k \in {"lctrl", "rctrl"} THEN "ctrl" ELSE k

Byte(k, release) == [code |-> Code(k), release |-> release]

E0 == [code |-> "e0", release |-> TRUE]

\* What a key sends.
Bytes(k, release) ==
    IF k \in Extended THEN <<E0, Byte(k, release)>> ELSE <<Byte(k, release)>>

\* A key goes down, or is held down and repeats.
Press(k) ==
    /\ Len(ctl) + Len(Bytes(k, FALSE)) <= MaxBytes
    /\ held' = held \cup {k}
    /\ ctl' = ctl \o Bytes(k, FALSE)
    /\ UNCHANGED <<kbd, irq, typed, dumb>>

Release(k) ==
    /\ k \in held
    /\ Len(ctl) + Len(Bytes(k, TRUE)) <= MaxBytes
    /\ held' = held \ {k}
    /\ ctl' = ctl \o Bytes(k, TRUE)
    /\ UNCHANGED <<kbd, irq, typed, dumb>>

\* The character of a plain key: the tables ascii and ascii_shifted, and the
\* control characters.
Char(k, b) ==
    <<IF k.ctrl THEN "ctrl" ELSE IF k.shift THEN "upper" ELSE "lower", b.code>>

\* The press of a key that is no modifier.
PlainPress(b) == b.code \in {"up", "a", "c"} /\ ~b.release

\* Variants: a press leaves the prefix in force; only a release of the left
\* Shift counts.
FlagsPrefixStays(k, b) ==
    [shift    |-> IF b.code \in {"lshift", "rshift"} THEN ~b.release ELSE k.shift,
     ctrl     |-> IF b.code = "ctrl" THEN ~b.release ELSE k.ctrl,
     extended |-> k.extended \/ b = E0]
FlagsRightShiftStays(k, b) ==
    [shift    |-> IF b.code = "lshift" THEN ~b.release ELSE k.shift \/ b.code = "rshift",
     ctrl     |-> IF b.code = "ctrl" THEN ~b.release ELSE k.ctrl,
     extended |-> b = E0 \/ (k.extended /\ ~PlainPress(b))]

\* keyboard_handle_scancode, the flags: a modifier, and every release, leaves
\* `extended' as it is.
Flags(k, b) ==
    [shift    |-> IF b.code \in {"lshift", "rshift"} THEN ~b.release ELSE k.shift,
     ctrl     |-> IF b.code = "ctrl" THEN ~b.release ELSE k.ctrl,
     extended |-> b = E0 \/ (k.extended /\ ~PlainPress(b))]

\* keyboard_handle_scancode, the characters: an extended key is an arrow or
\* nothing, the arrow's code without its prefix has no character.
Characters(k, b) ==
    IF ~PlainPress(b) THEN <<>>
    ELSE IF k.extended # (b.code = "up") THEN <<>>
    ELSE IF k.extended THEN [i \in 1 .. 3 |-> <<"arrow", b.code>>]
    ELSE <<Char(k, b)>>

\* irq 33, with a process that may be killed as the current one or not: Ctrl
\* and C raise SIGINT in it, and the decoder does not see the C.
Interrupt(killable) ==
    /\ ctl # <<>>
    /\ LET b == Head(ctl)
           ctrl == IF b.code = "ctrl" THEN ~b.release ELSE irq.ctrl
           ctrl_c == ctrl /\ b = Byte("c", FALSE)
       IN  /\ ctl' = Tail(ctl)
           /\ irq' = [ctrl |-> ctrl, sigint |-> ctrl_c /\ killable]
           /\ kbd' = IF ctrl_c THEN kbd ELSE Flags(kbd, b)
           /\ typed' = IF ctrl_c THEN <<>> ELSE Characters(kbd, b)
           /\ dumb' = IF ctrl_c \/ b = E0 \/ typed' # <<>> THEN 0
                      ELSE IF b.code \in {"a", "c"} /\ ~b.release THEN dumb + 1
                      ELSE dumb
    /\ UNCHANGED held

KbdInit ==
    /\ held = {}
    /\ ctl = <<>>
    /\ kbd = [shift |-> FALSE, ctrl |-> FALSE, extended |-> FALSE]
    /\ irq = [ctrl |-> FALSE, sigint |-> FALSE]
    /\ typed = <<>>
    /\ dumb = 0

KbdNext ==
    \/ \E k \in Keys : Press(k) \/ Release(k)
    \/ \E killable \in BOOLEAN : Interrupt(killable)

KbdSpec == KbdInit /\ [][KbdNext]_kbdVars

-----------------------------------------------------------------------------
(* Properties *)

\* No modifier stays on: when all keys are up and all bytes are delivered,
\* keys are typed plain, whichever of the two Shift and Ctrl keys were used
\* and in whatever order they were released.
ModifiersReleased ==
    held = {} /\ ctl = <<>> => ~kbd.shift /\ ~kbd.ctrl /\ ~irq.ctrl

\* The prefix of an extended key's release is never taken back, so it costs
\* the next plain key its character.  It costs one key at most: of two
\* presses with no prefix between them one takes effect.
OneKeyLost == dumb <= 1
=============================================================================
