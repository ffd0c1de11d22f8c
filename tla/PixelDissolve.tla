--------------------------- MODULE PixelDissolve ---------------------------
(***************************************************************************)
(* What random promises whoever looks at the sign: the picture on display  *)
(* turns into the new one pixel by pixel, in any order, and every pixel    *)
(* turns exactly once.                                                     *)
(***************************************************************************)
CONSTANTS Pixels, Pictures

VARIABLES
  screen,    \* the picture on display
  target,    \* the new picture
  todo,      \* the pixels that have not turned yet
  phase      \* "waiting", "turning" or "over"

pvars == <<screen, target, todo, phase>>

PInit ==
  /\ screen \in Pictures /\ target \in Pictures
  /\ todo = Pixels
  /\ phase = "waiting"

\* The new picture has been read.
Begin ==
  /\ phase = "waiting" /\ phase' = "turning"
  /\ target' \in Pictures
  /\ UNCHANGED <<screen, todo>>

Turn(pixel) ==
  /\ phase = "turning"
  /\ pixel \in todo
  /\ screen' = [screen EXCEPT ![pixel] = target[pixel]]
  /\ todo' = todo \ {pixel}
  /\ UNCHANGED <<target, phase>>

\* Nothing is left to turn, and the picture on display is the new one.
Finish ==
  /\ phase = "turning" /\ phase' = "over"
  /\ todo = {} /\ screen = target
  /\ UNCHANGED <<screen, target, todo>>

PNext == Begin \/ Finish \/ \E pixel \in Pixels : Turn(pixel)

PSpec == PInit /\ [][PNext]_pvars
=============================================================================
