------------------------------ MODULE VScroll ------------------------------
(***************************************************************************)
(* develop/vscroll.c and develop/vscroll2.c: the programs that scroll a    *)
(* new picture onto the sign, upwards and downwards.  Both keep the old    *)
(* and the new picture in one buffer of two pictures and show a window of  *)
(* it that moves by one line per frame, each frame drawn in the next bank. *)
(*                                                                         *)
(* The cells of the card are lines of 12 bytes, the unit the programs move *)
(* by; offsets into the buffer are counted in lines.                       *)
(***************************************************************************)
EXTENDS Board

CONSTANTS
  Lines,      \* LINES, 24
  Line,       \* the contents of a line
  Pictures,   \* the pictures in files and on the card
  Share,      \* (1000*nSpeed)/LINES, the microseconds a frame may take
  Elapsed,    \* what clock() may have advanced by while a frame was drawn
  Wrap        \* the values of an unsigned long, 2^32

BufLines == 0..(2 * Lines - 1)

ASSUME ScrollAssumption ==
  /\ Lines \in Nat \ {0}
  /\ Cells = 0..(Lines - 1)
  /\ Pictures \subseteq [Cells -> Line]
  /\ Share \in Nat /\ Elapsed \subseteq Nat /\ Wrap \in Nat \ {0}

VARIABLES
  up,         \* which program it is: TRUE vscroll.c, FALSE vscroll2.c
  pc,         \* what the program does next
  nBank,      \* the variable of that name
  pBuf,       \* the variable of that name
  i,          \* the loop variable, in lines
  copied,     \* the lines memcpy has copied
  nap         \* the argument of the last usleep

vars == <<ram, bank, mode, up, pc, nBank, pBuf, i, copied, nap>>

\* Where the two pictures lie in the buffer, and the loop's bounds.
OldAt == IF up THEN 0 ELSE Lines
NewAt == IF up THEN Lines ELSE 0
FirstFrame == IF up THEN 0 ELSE Lines

\* Mutant: no step, so the loop never ends.
NextFrame_stuck(j) == j
NextFrame(j) == IF up THEN j + 1 ELSE j - 1

InLoop(j) == IF up THEN j <= Lines ELSE j >= 0

PictureAt(at) == [l \in Cells |-> pBuf[at + l]]

TypeOK ==
  /\ ram \in [Banks -> [Cells -> Line]]
  /\ bank \in Banks
  /\ mode \in Modes
  /\ up \in BOOLEAN
  /\ pc \in {"read", "setmode", "getbank", "copyold", "copy", "nap", "setbank",
             "done", "failed"}
  /\ nBank \in Banks
  /\ pBuf \in [BufLines -> Line]
  /\ i \in -1..(Lines + 1)
  /\ copied \in 0..Lines
  /\ pc = "copy" => copied < Lines
  /\ nap \in 0..(Wrap - 1)

Init ==
  /\ ram \in [Banks -> Pictures]
  /\ bank \in Banks
  /\ mode \in Modes
  /\ up \in BOOLEAN
  /\ pc = "read"
  /\ nBank = 0
  /\ \E pic \in Pictures : pBuf = [l \in BufLines |-> pic[l % Lines]]  \* uninitialised
  /\ i = FirstFrame
  /\ copied = 0
  /\ nap = 0

----------------------------------------------------------------------------

\* Everything before the sign is touched: the file is read into its half of
\* the buffer and the device is opened and mapped, or one of them fails.
ReadFile ==
  /\ pc = "read"
  /\ \/ /\ pc' = "setmode"
        /\ \E pic \in Pictures :
             pBuf' = [l \in BufLines |-> IF l - NewAt \in Cells THEN pic[l - NewAt] ELSE pBuf[l]]
     \/ pc' = "failed" /\ UNCHANGED pBuf
  /\ UNCHANGED <<board, nBank, i, copied, nap>>

SetMode ==
  /\ pc = "setmode" /\ pc' = "getbank"
  /\ ioctl_SETMODE(OneBit)
  /\ UNCHANGED <<nBank, pBuf, i, copied, nap>>

GetBank ==
  /\ pc = "getbank" /\ pc' = "copyold"
  /\ nBank' = bank
  /\ UNCHANGED <<board, pBuf, i, copied, nap>>

\* Mutant: the next bank is copied as the picture on display.
CopyOld_next ==
  /\ pc = "copyold" /\ pc' = "copy"
  /\ pBuf' = [l \in BufLines |-> IF l - OldAt \in Cells THEN ram[NextBank(nBank)][l - OldAt]
                                                        ELSE pBuf[l]]
  /\ nBank' = NextBank(nBank)
  /\ copied' = 0
  /\ UNCHANGED <<board, i, nap>>

\* The picture on display is copied into the other half, and the loop starts.
CopyOld ==
  /\ pc = "copyold" /\ pc' = "copy"
  /\ pBuf' = [l \in BufLines |-> IF l - OldAt \in Cells THEN ram[nBank][l - OldAt] ELSE pBuf[l]]
  /\ nBank' = NextBank(nBank)
  /\ copied' = 0
  /\ UNCHANGED <<board, i, nap>>

\* One line of memcpy(skyltaddr + nBank*512, pBuf + i, BYTESPERPIC).
CopyLine ==
  /\ pc = "copy"
  /\ Poke(nBank, copied, pBuf[i + copied])
  /\ copied' = copied + 1
  /\ pc' = IF copied + 1 = Lines THEN "nap" ELSE "copy"
  /\ UNCHANGED <<nBank, pBuf, i, nap>>

\* usleep((1000*nSpeed)/LINES - (clock() - time)), an unsigned long.
Nap ==
  /\ pc = "nap" /\ pc' = "setbank"
  /\ \E elapsed \in Elapsed : nap' = (Share - elapsed) % Wrap
  /\ UNCHANGED <<board, nBank, pBuf, i, copied>>

\* BSSETBANK, the loop's step and condition, and the next bank.
SetBank ==
  /\ pc = "setbank"
  /\ ioctl_SETBANK(nBank)
  /\ i' = NextFrame(i)
  /\ copied' = 0
  /\ pc' = IF InLoop(NextFrame(i)) THEN "copy" ELSE "done"
  /\ nBank' = IF InLoop(NextFrame(i)) THEN NextBank(nBank) ELSE nBank
  /\ UNCHANGED <<pBuf, nap>>

Program ==
  /\ ReadFile \/ SetMode \/ GetBank \/ CopyOld \/ CopyLine \/ Nap \/ SetBank
  /\ UNCHANGED up

Ended == pc \in {"done", "failed"} /\ UNCHANGED vars

Next == Program \/ Ended

Spec == Init /\ [][Next]_vars
FairSpec == Spec /\ WF_vars(Program)

----------------------------------------------------------------------------
(* Properties *)

\* The frames never read outside the buffer: the last window ends where the
\* buffer does.
WindowInBuffer == pc = "copy" => i + copied \in DOMAIN pBuf

\* A frame is drawn in a bank that is not on display.
NoTear == pc = "copy" => nBank # bank

\* The program ends, and has shown the new picture if it could read it.
ShowsNewPicture == <>(pc = "failed" \/ (pc = "done" /\ Screen = PictureAt(NewAt)))

\* "tid anges i millisekunder" (vscroll.c:75): the time asked for.  The program
\* naps no longer than a frame's share of it.
NapsWithinShare == nap <= Share

\* The abstract scroll.  The frame at FirstFrame is the old picture again.
Shown == IF up THEN i ELSE Lines - i
Entered == IF Shown = 0 THEN 0 ELSE Shown - 1
Phase == CASE pc \in {"read", "failed"} -> "waiting"
           [] pc = "done" -> "over"
           [] OTHER -> "scrolling"

Scroll == INSTANCE LineScroll WITH
  screen <- Screen, target <- PictureAt(NewAt), entered <- Entered, phase <- Phase

\* The sign changes only by whole shifts of one line, until the new picture
\* stands on it.
ImplementsScroll == Scroll!LSpec
=============================================================================
