----------------------------- MODULE LineScroll -----------------------------
(***************************************************************************)
(* What vscroll and vscroll2 promise whoever looks at the sign: the old    *)
(* picture leaves and the new one enters line by line, upwards or          *)
(* downwards, and between two shifts the picture stands still.             *)
(***************************************************************************)
EXTENDS Integers

CONSTANTS Lines, Pictures

VARIABLES
  up,        \* TRUE: the old picture leaves upwards
  screen,    \* the picture on display
  target,    \* the new picture
  entered,   \* the number of its lines that are on display
  phase      \* "waiting", "scrolling" or "over"

lvars == <<up, screen, target, entered, phase>>

LInit ==
  /\ up \in BOOLEAN
  /\ screen \in Pictures /\ target \in Pictures
  /\ entered = 0
  /\ phase = "waiting"

\* The new picture has been read.
Begin ==
  /\ phase = "waiting" /\ phase' = "scrolling"
  /\ target' \in Pictures
  /\ UNCHANGED <<up, screen, entered>>

ShiftUp ==
  [l \in 0..(Lines - 1) |-> IF l < Lines - 1 THEN screen[l + 1] ELSE target[entered]]
ShiftDown ==
  [l \in 0..(Lines - 1) |-> IF l > 0 THEN screen[l - 1] ELSE target[Lines - 1 - entered]]

Shift ==
  /\ phase = "scrolling" /\ entered < Lines
  /\ screen' = IF up THEN ShiftUp ELSE ShiftDown
  /\ entered' = entered + 1
  /\ phase' = IF entered + 1 = Lines THEN "over" ELSE "scrolling"
  /\ UNCHANGED <<up, target>>
  /\ phase' = "over" => screen' = target

LNext == Begin \/ Shift

LSpec == LInit /\ [][LNext]_lvars
=============================================================================
